------------------------------ MODULE WoxSums -------------------------------
(***************************************************************************)
(* Sums, for the counters that WoxServing and WoxStats add up.             *)
(***************************************************************************)
EXTENDS Naturals, Functions

\* The sum of a function's values; a sequence is a function as well.
SumOn(f, S) == FoldFunctionOnSet(+, 0, f, S)
SumOf(f) == SumOn(f, DOMAIN f)
=============================================================================

------------------------------ MODULE MCStats -------------------------------
(***************************************************************************)
(* Workers and endpoints of WoxStats are interchangeable.                  *)
(***************************************************************************)
EXTENDS WoxStats, TLC

MCSymmetry == Permutations(Worker) \cup Permutations(Endpoint)
=============================================================================

----------------------------- MODULE MCUpstream -----------------------------
(***************************************************************************)
(* Options and hash rings for model checking WoxUpstream.                  *)
(***************************************************************************)
EXTENDS WoxUpstream

MCBreaker == [maxRequests |-> 2, totalRequests |-> 3, failureRatio |-> 6]
MCRings == {<< >>, <<0, 1, 0>>}
=============================================================================

----------------------------- MODULE MCServing ------------------------------
(***************************************************************************)
(* Instances of WoxServing for TLC.                                        *)
(***************************************************************************)
EXTENDS WoxServing

\* Requests are served, and two statistics messages meet in the socket.
ASSUME InstanceReaches ==
  /\ MaxConns > 0 /\ MaxRequests > 0
  /\ 2 * StatsSize <= SockCap
=============================================================================

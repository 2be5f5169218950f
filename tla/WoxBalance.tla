----------------------------- MODULE WoxBalance -----------------------------
(***************************************************************************)
(* The round robin of a proxy (http.go AddProxyUpstream): every request    *)
(* that comes in, on any goroutine, takes the next value of an atomic      *)
(* counter and goes to that host of the resolved list.                     *)
(***************************************************************************)
EXTENDS Integers

CONSTANTS
  N,        \* hosts that were resolved; with none there is an error, and no proxy
  Modulus,  \* of the counter: 2^64 in the code
  MaxPicks  \* bound: requests in a behaviour

ASSUME BalanceAssumption ==
  N \in Nat \ {0} /\ Modulus \in Nat \ {0} /\ MaxPicks \in Nat

VARIABLES
  counter,
  wraps,    \* how often the counter has come back to 0
  chosen,   \* how many requests each host was given
  data      \* requests.Data of the patterns of the proxy

vars == <<counter, wraps, chosen, data>>

Host == 0..(N - 1)

\* The place in the list a value of the counter stands for.
Index(c) == c % N

TypeOK ==
  /\ counter \in 0..(Modulus - 1)
  /\ wraps \in Nat
  /\ chosen \in [Host -> Nat]
  /\ data \in 0..MaxPicks

Init ==
  /\ counter = 0 /\ wraps = 0
  /\ chosen = [h \in Host |-> 0]
  /\ data = 0

\* atomic.AddUint64
Advance ==
  IF counter + 1 = Modulus
    THEN counter' = 0 /\ wraps' = wraps + 1
    ELSE counter' = counter + 1 /\ UNCHANGED wraps

\* Mutant: Load and Store instead of AddUint64: another request may have
\* stored in between, and its step of the counter is lost.
DirectorLoses ==
  /\ data < MaxPicks
  /\ Advance \/ UNCHANGED <<counter, wraps>>
  /\ chosen' = [chosen EXCEPT ![Index(counter')] = @ + 1]
  /\ data' = data + 1

\* The Director of the proxy, which also counts the request.
Director ==
  /\ data < MaxPicks
  /\ Advance
  /\ chosen' = [chosen EXCEPT ![Index(counter')] = @ + 1]
  /\ data' = data + 1

Next == Director

Spec == Init /\ [][Next]_vars

\* No host gets more than one request more than another, and one more for each
\* time the counter has wrapped round, as the modulus is no multiple of N.
EvenSpread == \A h, k \in Host : chosen[h] <= chosen[k] + 1 + wraps
=============================================================================

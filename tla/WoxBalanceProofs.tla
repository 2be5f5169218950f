-------------------------- MODULE WoxBalanceProofs --------------------------
(***************************************************************************)
(* Proofs about WoxBalance, for any number of hosts and any modulus.       *)
(***************************************************************************)
EXTENDS WoxBalance, TLAPS

\* The value after c stands for the next place, and after the last for the first.
LEMMA NextIndex ==
  ASSUME NEW c \in Nat
  PROVE  /\ Index(c) \in Host
         /\ Index(c + 1) = IF Index(c) = N - 1 THEN 0 ELSE Index(c) + 1
<1> DEFINE q == c \div N
           r == c % N
           p == (c + 1) \div N
           s == (c + 1) % N
<1>1. q \in Int /\ r \in 0..(N - 1) /\ c = N * q + r
  BY BalanceAssumption
<1>2. p \in Int /\ s \in 0..(N - 1) /\ c + 1 = N * p + s
  BY BalanceAssumption
<1> HIDE DEF q, r, p, s
<1>3. N * (p - q) = r + 1 - s
  BY <1>1, <1>2, BalanceAssumption
<1>4. p = q \/ p = q + 1
  <2>1. CASE p >= q + 2
    <3>1. N * (p - q) >= N * 2
      BY <2>1, <1>1, <1>2, BalanceAssumption
    <3> QED
      BY <3>1, <1>1, <1>2, <1>3, BalanceAssumption
  <2>2. CASE p <= q - 1
    <3>1. N * (p - q) <= N * (-1)
      BY <2>2, <1>1, <1>2, BalanceAssumption
    <3> QED
      BY <3>1, <1>1, <1>2, <1>3, BalanceAssumption
  <2> QED
    BY <2>1, <2>2, <1>1, <1>2
<1>5. s = IF r = N - 1 THEN 0 ELSE r + 1
  <2>1. CASE p = q
    BY <2>1, <1>1, <1>2, <1>3, BalanceAssumption
  <2>2. CASE p = q + 1
    BY <2>2, <1>1, <1>2, <1>3, BalanceAssumption
  <2> QED
    BY <1>4, <2>1, <2>2
<1> QED
  BY <1>1, <1>5 DEF Index, Host, r, s

\* The place of the start.
LEMMA ZeroIndex == Index(0) = 0 /\ 0 \in Host
BY BalanceAssumption DEF Index, Host

\* The turns host h has had on top of full rounds.  The value 0, which no
\* request gets before the first wrap, counts as a turn of the first host.
Turns(h) == chosen[h] + (IF h = 0 THEN 1 ELSE 0) - (IF h <= Index(counter) THEN 1 ELSE 0)

\* Every wrap cuts a round short, which costs a host at most one turn.
SpreadInv == \A h, k \in Host : Turns(h) <= Turns(k) + wraps

\* The invariant holds at the start.
LEMMA SpreadInit == Init => TypeOK /\ SpreadInv
BY ZeroIndex, BalanceAssumption DEF Init, TypeOK, SpreadInv, Turns, Host

\* A request preserves the types.
LEMMA TypeStep == TypeOK /\ [Next]_vars => TypeOK'
<1> SUFFICES ASSUME TypeOK, [Next]_vars
             PROVE  TypeOK'
  OBVIOUS
<1>1. CASE Director
  <2>1. counter' \in 0..(Modulus - 1) /\ wraps' \in Nat
    BY <1>1, BalanceAssumption DEF Director, Advance, TypeOK
  <2>2. counter' \in Nat
    BY <2>1, BalanceAssumption
  <2>3. Index(counter') \in Host
    BY <2>2, NextIndex
  <2>4. chosen' \in [Host -> Nat]
    BY <1>1, <2>3 DEF Director, TypeOK
  <2>5. data' \in 0..MaxPicks
    BY <1>1, BalanceAssumption DEF Director, TypeOK
  <2> QED
    BY <2>1, <2>4, <2>5 DEF TypeOK
<1> QED
  BY <1>1 DEF Next, vars, TypeOK

\* A request preserves the invariant.
LEMMA SpreadStep == TypeOK /\ SpreadInv /\ [Next]_vars => SpreadInv'
<1> SUFFICES ASSUME TypeOK, SpreadInv, Director,
                    NEW h \in Host, NEW k \in Host
             PROVE  (Turns(h) <= Turns(k) + wraps)'
  BY DEF Next, vars, SpreadInv, Turns
<1> DEFINE i == Index(counter)
           j == Index(counter')
<1>1. i \in Host /\ i \in Int /\ j \in Host /\ counter \in Nat
  <2>1. counter \in Nat /\ counter' \in Nat
    BY BalanceAssumption DEF TypeOK, Director, Advance
  <2> QED
    BY <2>1, NextIndex DEF Host
<1>2. chosen \in [Host -> Nat] /\ wraps \in Nat
  BY DEF TypeOK
<1>3. \A x \in Host : chosen'[x] = chosen[x] + (IF x = j THEN 1 ELSE 0)
  BY <1>1, <1>2 DEF Director
<1>4. Turns(h) <= Turns(k) + wraps
  BY DEF SpreadInv
<1>5. h \in Int /\ k \in Int /\ h >= 0 /\ k >= 0 /\ h <= N - 1 /\ k <= N - 1
  BY BalanceAssumption DEF Host
<1>6. CASE counter + 1 = Modulus
  <2>1. j = 0 /\ wraps' = wraps + 1
    BY <1>6, ZeroIndex DEF Director, Advance
  <2>2. 0 <= i
    BY <1>1 DEF Host
  <2> HIDE DEF i, j
  <2>3. Turns(h)' = chosen'[h] + (IF h = 0 THEN 1 ELSE 0) - (IF h <= j THEN 1 ELSE 0)
        /\ Turns(k)' = chosen'[k] + (IF k = 0 THEN 1 ELSE 0) - (IF k <= j THEN 1 ELSE 0)
        /\ Turns(h) = chosen[h] + (IF h = 0 THEN 1 ELSE 0) - (IF h <= i THEN 1 ELSE 0)
        /\ Turns(k) = chosen[k] + (IF k = 0 THEN 1 ELSE 0) - (IF k <= i THEN 1 ELSE 0)
    BY DEF Turns, i, j
  <2> QED
    BY <2>1, <2>2, <2>3, <1>1, <1>2, <1>3, <1>4, <1>5
<1>7. CASE counter + 1 # Modulus
  <2>1. j = (IF i = N - 1 THEN 0 ELSE i + 1) /\ wraps' = wraps
    BY <1>7, <1>1, NextIndex DEF Director, Advance
  <2>2. 0 <= i /\ i <= N - 1
    BY <1>1 DEF Host
  <2> HIDE DEF i, j
  <2>3. Turns(h)' = chosen'[h] + (IF h = 0 THEN 1 ELSE 0) - (IF h <= j THEN 1 ELSE 0)
        /\ Turns(k)' = chosen'[k] + (IF k = 0 THEN 1 ELSE 0) - (IF k <= j THEN 1 ELSE 0)
        /\ Turns(h) = chosen[h] + (IF h = 0 THEN 1 ELSE 0) - (IF h <= i THEN 1 ELSE 0)
        /\ Turns(k) = chosen[k] + (IF k = 0 THEN 1 ELSE 0) - (IF k <= i THEN 1 ELSE 0)
    BY DEF Turns, i, j
  <2> QED
    BY <2>1, <2>2, <2>3, <1>1, <1>2, <1>3, <1>4, <1>5, BalanceAssumption
<1> QED
  BY <1>6, <1>7

\* The spread holds for any number of hosts, requests and wraps.
THEOREM EvenSpreadHolds == Spec => []EvenSpread
<1>1. TypeOK /\ SpreadInv => EvenSpread
  <2> SUFFICES ASSUME TypeOK, SpreadInv, NEW h \in Host, NEW k \in Host
               PROVE  chosen[h] <= chosen[k] + 1 + wraps
    BY DEF EvenSpread
  <2> DEFINE i == Index(counter)
  <2>1. i \in Host
    <3>1. counter \in Nat
      BY BalanceAssumption DEF TypeOK
    <3> QED
      BY <3>1, NextIndex
  <2>2. Turns(h) <= Turns(k) + wraps
    BY DEF SpreadInv
  <2>3. i \in Int /\ i >= 0 /\ h \in Int /\ k \in Int /\ h >= 0 /\ k >= 0
    BY <2>1, BalanceAssumption DEF Host
  <2>4. chosen[h] \in Int /\ chosen[k] \in Int /\ wraps \in Int
    BY DEF TypeOK
  <2>5. /\ Turns(h) = chosen[h] + (IF h = 0 THEN 1 ELSE 0) - (IF h <= i THEN 1 ELSE 0)
        /\ Turns(k) = chosen[k] + (IF k = 0 THEN 1 ELSE 0) - (IF k <= i THEN 1 ELSE 0)
    BY DEF Turns
  <2> HIDE DEF i
  <2> QED
    BY <2>2, <2>3, <2>4, <2>5
<1> QED
  BY <1>1, SpreadInit, TypeStep, SpreadStep, PTL DEF Spec
=============================================================================

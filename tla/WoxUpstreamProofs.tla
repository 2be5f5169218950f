------------------------- MODULE WoxUpstreamProofs --------------------------
(***************************************************************************)
(* Proofs about WoxUpstream.  The circuit breaker keeps no list of the     *)
(* calls it has let through, it only counts; the inductive invariant says  *)
(* what its counts mean in terms of the calls of its present generation.   *)
(***************************************************************************)
EXTENDS WoxUpstream, FiniteSetTheorems, TLAPS

\* A call of the present generation that is under way has been counted as a
\* request, and not yet as a failure or a success.
CountInv ==
  /\ IsFiniteSet(current)
  /\ Cardinality(current) + failures <= requests
  /\ Cardinality(current) + successes <= requests

\* A half-open breaker has seen only successes, and too few to close.
HalfInv ==
  breaker = "half" =>
    /\ failures = 0
    /\ requests = successes + Cardinality(current)
    /\ successes < MaxRequests

\* A call that was sent was sent to a host of the upstream.
HostInv == \A c \in Caller : call[c] \in {"sent", "lost"} => host[c] \in Host

UpstreamInv == TypeOK /\ CountInv /\ HalfInv /\ HostInv

\* What of the invariant is about the breaker alone.
BreakerInv ==
  /\ breaker \in {"closed", "open", "half"}
  /\ requests \in 0..(IF breaker = "half" THEN MaxRequests ELSE MaxCount)
  /\ failures \in 0..requests /\ successes \in 0..requests
  /\ CountInv /\ HalfInv

-----------------------------------------------------------------------------
\* The setting of MaxRequests or its default: a half-open breaker lets someone
\* through (NewUpstream).
LEMMA MaxRequestsType == MaxRequests \in Nat \ {0}
BY UpstreamAssumption DEF UpstreamAssumption, MaxRequests

\* A new generation begins with no call counted and none under way (gobreaker,
\* toNewGeneration).
LEMMA NewGenerationInv ==
  ASSUME NEW s \in {"closed", "open", "half"}, NewGeneration(s)
  PROVE  BreakerInv' /\ current' = {}
<1>1. IsFiniteSet({}) /\ Cardinality({}) = 0
  BY FS_EmptySet
<1>2. MaxRequests \in Nat /\ MaxRequests > 0 /\ MaxCount \in Nat
  BY MaxRequestsType, UpstreamAssumption DEF UpstreamAssumption
<1> QED
  BY <1>1, <1>2 DEF NewGeneration, BreakerInv, CountInv, HalfInv

\* The end of a call keeps the counts true, whether it counts or is of an
\* older generation, and whatever state it leaves the breaker in (gobreaker,
\* afterRequest).
LEMMA AfterRequestInv ==
  ASSUME NEW c \in Caller, NEW ok \in BOOLEAN, BreakerInv, AfterRequest(c, ok)
  PROVE  BreakerInv' /\ current' \subseteq current \ {c}
<1>1. CASE c \notin current
  BY <1>1 DEF AfterRequest, breakerVars, BreakerInv, CountInv, HalfInv
<1>2. CASE c \in current
  <2> DEFINE n == Cardinality(current)
  <2>1. /\ IsFiniteSet(current \ {c}) /\ Cardinality(current \ {c}) = n - 1
        /\ n \in Nat /\ n > 0
    <3>1. IsFiniteSet(current)
      BY DEF BreakerInv, CountInv
    <3>2. n \in Nat /\ IsFiniteSet(current \ {c}) /\ Cardinality(current \ {c}) = n - 1
      BY <3>1, <1>2, FS_CardinalityType, FS_RemoveElement
    <3>3. Cardinality(current \ {c}) \in Nat
      BY <3>2, FS_CardinalityType
    <3> QED
      BY <3>2, <3>3
  <2>2. MaxRequests \in Nat /\ MaxCount \in Nat
    BY MaxRequestsType, UpstreamAssumption DEF UpstreamAssumption
  <2>3. OnSuccess(c) \/ OnFailure(c)
    BY <1>2 DEF AfterRequest
  <2>4. CASE NewGeneration("closed") \/ NewGeneration("open")
    BY <2>4, NewGenerationInv
  <2>5. CASE /\ successes' = successes + 1
             /\ current' = current \ {c}
             /\ UNCHANGED <<breaker, requests, failures>>
             /\ ~(breaker = "half" /\ successes + 1 >= MaxRequests)
    BY <2>5, <2>1, <2>2 DEF BreakerInv, CountInv, HalfInv
  <2>6. CASE /\ failures' = failures + 1
             /\ successes' = 0
             /\ current' = current \ {c}
             /\ UNCHANGED <<breaker, requests>>
             /\ breaker # "half"
    BY <2>6, <2>1, <2>2 DEF BreakerInv, CountInv, HalfInv
  <2> QED
    BY <2>3, <2>4, <2>5, <2>6 DEF OnSuccess, OnFailure
<1> QED
  BY <1>1, <1>2

\* Letting a call through counts it and puts it under way (gobreaker,
\* beforeRequest).
LEMMA AdmitInv ==
  ASSUME NEW c \in Caller, BreakerInv, c \notin current, Admit(c)
  PROVE  BreakerInv'
<1>1. /\ IsFiniteSet(current \cup {c})
      /\ Cardinality(current \cup {c}) = Cardinality(current) + 1
      /\ Cardinality(current) \in Nat
  BY FS_AddElement, FS_CardinalityType DEF BreakerInv, CountInv
<1>2. MaxRequests \in Nat /\ MaxCount \in Nat
  BY MaxRequestsType, UpstreamAssumption DEF UpstreamAssumption
<1>3. /\ requests' = requests + 1 /\ current' = current \cup {c}
      /\ UNCHANGED <<breaker, failures, successes>>
      /\ \/ breaker = "closed" /\ requests < MaxCount
         \/ breaker = "half" /\ requests < MaxRequests
  BY DEF Admit
<1> QED
  BY <1>1, <1>2, <1>3 DEF BreakerInv, CountInv, HalfInv

-----------------------------------------------------------------------------
\* The upstream starts with a closed breaker and no call under way.
LEMMA UpstreamInit == Init => UpstreamInv
<1> SUFFICES ASSUME Init PROVE UpstreamInv
  OBVIOUS
<1>1. IsFiniteSet({}) /\ Cardinality({}) = 0
  BY FS_EmptySet
<1>2. MaxCount \in Nat /\ MaxUnbuildable \in Nat /\ Modulus \in Nat \ {0}
  BY UpstreamAssumption DEF UpstreamAssumption
<1>3. TypeOK
  BY <1>2 DEF Init, TypeOK
<1> QED
  BY <1>1, <1>3 DEF Init, UpstreamInv, CountInv, HalfInv, HostInv

\* Every step of a call, of the breaker and of a host keeps the invariant.
LEMMA UpstreamStep == UpstreamInv /\ [Next]_vars => UpstreamInv'
<1> SUFFICES ASSUME UpstreamInv, [Next]_vars PROVE UpstreamInv'
  OBVIOUS
<1> USE DEF fixed
<1>0. /\ BreakerInv /\ HostInv
      /\ policy \in Rings /\ unbuilt \in 0..MaxUnbuildable
      /\ counter \in 0..(Modulus - 1)
      /\ call \in [Caller -> {"idle", "admitted", "sent", "lost"}]
      /\ host \in [Caller -> Host \cup {-1}]
      /\ current \subseteq {c \in Caller : call[c] # "idle"}
      /\ health \in [Host -> {"ok", "bad", "hang"}]
  BY DEF UpstreamInv, TypeOK, BreakerInv
<1> DEFINE Rest ==
      /\ policy \in Rings /\ unbuilt \in 0..MaxUnbuildable
      /\ counter \in 0..(Modulus - 1)
      /\ health \in [Host -> {"ok", "bad", "hang"}]
    Calls ==
      /\ call \in [Caller -> {"idle", "admitted", "sent", "lost"}]
      /\ host \in [Caller -> Host \cup {-1}]
      /\ current \subseteq {c \in Caller : call[c] # "idle"}
      /\ HostInv
<1>1. Rest /\ Calls
  BY <1>0
<1>2. SUFFICES BreakerInv' /\ Rest' /\ Calls'
  BY DEF UpstreamInv, TypeOK, BreakerInv
<1>3. ASSUME NEW c \in Caller, NEW ok \in BOOLEAN, AfterRequest(c, ok)
      PROVE  BreakerInv' /\ Calls'
  <2>1. BreakerInv' /\ current' \subseteq current \ {c}
    BY <1>3, <1>0, AfterRequestInv
  <2>2. call' = [call EXCEPT ![c] = "idle"] /\ host' = [host EXCEPT ![c] = -1]
    BY <1>3 DEF AfterRequest
  <2>3. Calls'
    BY <2>1, <2>2, <1>0 DEF HostInv
  <2> QED
    BY <2>1, <2>3
<1>4. Advance \in 0..(Modulus - 1)
  BY <1>0, UpstreamAssumption DEF Advance, UpstreamAssumption
<1>5. CASE vars' = vars
  BY <1>5, <1>0 DEF vars, BreakerInv, CountInv, HalfInv, HostInv
<1>6. ASSUME NEW c \in Caller, Admit(c)
      PROVE  BreakerInv' /\ Rest' /\ Calls'
  <2>1. c \notin current /\ call[c] = "idle"
    BY <1>6, <1>0 DEF Admit
  <2>2. BreakerInv'
    BY <2>1, <1>6, <1>0, AdmitInv
  <2>3. Rest' /\ Calls'
    BY <1>6, <1>0 DEF Admit, HostInv
  <2> QED
    BY <2>2, <2>3
<1>7. ASSUME NEW c \in Caller, NEW h \in Host, Send(c, h)
      PROVE  BreakerInv' /\ Calls'
  BY <1>7, <1>0 DEF Send, breakerVars, BreakerInv, CountInv, HalfInv, HostInv
<1>8. ASSUME NEW c \in Caller, Choose(c)
      PROVE  BreakerInv' /\ Rest' /\ Calls'
  <2>1. CASE N = 0
    <3>1. AfterRequest(c, FALSE) /\ UNCHANGED <<counter, health, fixed>>
      BY <1>8, <2>1 DEF Choose
    <3> QED
      BY <3>1, <1>3, <1>0
  <2>2. CASE N # 0 /\ policy # << >>
    <3>1. /\ \E k \in DOMAIN policy : Send(c, policy[k])
          /\ UNCHANGED <<counter, health, fixed>>
      BY <1>8, <2>2 DEF Choose
    <3>2. \A k \in DOMAIN policy : policy[k] \in Host
      BY <1>0, UpstreamAssumption DEF UpstreamAssumption
    <3>3. PICK k \in DOMAIN policy : Send(c, policy[k])
      BY <3>1
    <3>4. BreakerInv' /\ Calls'
      BY <3>2, <3>3, <1>7
    <3> QED
      BY <3>1, <3>4, <1>0
  <2>3. CASE N # 0 /\ policy = << >>
    <3>1. /\ counter' = Advance /\ Send(c, counter' % N)
          /\ UNCHANGED <<health, fixed>>
      BY <1>8, <2>3 DEF Choose
    <3>2. counter' % N \in Host
      BY <3>1, <1>4, <2>3, UpstreamAssumption DEF Host, UpstreamAssumption
    <3>3. BreakerInv' /\ Calls'
      BY <3>1, <3>2, <1>7
    <3> QED
      BY <3>1, <3>3, <1>4, <1>0
  <2> QED
    BY <2>1, <2>2, <2>3
<1>9. ASSUME NEW c \in Caller, ChooseUnbuildable(c)
      PROVE  BreakerInv' /\ Rest' /\ Calls'
  <2>1. BreakerInv' /\ Calls'
    BY <1>9, <1>3 DEF ChooseUnbuildable
  <2>2. Rest'
    <3>1. MaxUnbuildable \in Nat
      BY UpstreamAssumption DEF UpstreamAssumption
    <3> QED
      BY <3>1, <1>9, <1>4, <1>0 DEF ChooseUnbuildable
  <2> QED
    BY <2>1, <2>2
<1>10. ASSUME NEW c \in Caller, Answer(c)
       PROVE  BreakerInv' /\ Rest' /\ Calls'
  <2>1. (health[host[c]] = "ok") \in BOOLEAN
    OBVIOUS
  <2>2. AfterRequest(c, health[host[c]] = "ok") /\ UNCHANGED <<counter, health, fixed>>
    BY <1>10 DEF Answer
  <2>3. BreakerInv' /\ Calls'
    BY <2>1, <2>2, <1>3
  <2> QED
    BY <2>2, <2>3, <1>0
<1>11. ASSUME NEW c \in Caller, Swallow(c)
       PROVE  BreakerInv' /\ Rest' /\ Calls'
  BY <1>11, <1>0 DEF Swallow, breakerVars, BreakerInv, CountInv, HalfInv, HostInv
<1>12. ASSUME NEW c \in Caller, TimesOut(c)
       PROVE  BreakerInv' /\ Rest' /\ Calls'
  <2>1. AfterRequest(c, FALSE) /\ UNCHANGED <<counter, health, fixed>>
    BY <1>12 DEF TimesOut
  <2> QED
    BY <2>1, <1>3, <1>0
<1>13. ASSUME IntervalEnds \/ OpenEnds
       PROVE  BreakerInv' /\ Rest' /\ Calls'
  <2>1. BreakerInv' /\ current' = {}
    BY <1>13, NewGenerationInv DEF IntervalEnds, OpenEnds
  <2>2. UNCHANGED <<counter, call, host, health, fixed>>
    BY <1>13 DEF IntervalEnds, OpenEnds
  <2> QED
    BY <2>1, <2>2, <1>0 DEF HostInv
<1>14. ASSUME NEW h \in Host, NEW to \in {"ok", "bad", "hang"}, HealthChange(h, to)
       PROVE  BreakerInv' /\ Rest' /\ Calls'
  BY <1>14, <1>0 DEF HealthChange, breakerVars, BreakerInv, CountInv, HalfInv, HostInv
<1> QED
  BY <1>5, <1>6, <1>8, <1>9, <1>10, <1>11, <1>12, <1>13, <1>14 DEF Next, CallStep

\* The invariant holds in every state of every behaviour, fair or not.
THEOREM UpstreamInvHolds == Spec => []UpstreamInv
BY UpstreamInit, UpstreamStep, PTL DEF Spec

\* Every variable stays in its type: the counts of the breaker never exceed
\* the requests of its generation, and a half-open one lets at most
\* MaxRequests calls through (upstream.go:62-74).
THEOREM TypeOKHolds == Spec => []TypeOK
<1>1. UpstreamInv => TypeOK
  BY DEF UpstreamInv
<1> QED
  BY <1>1, UpstreamInvHolds, PTL

\* A half-open breaker that refuses calls waits for one that it let through:
\* its requests are its successes, too few to close it, and the calls under way.
THEOREM HalfOpenWaitsHolds == Spec => []HalfOpenWaits
<1>1. UpstreamInv => HalfOpenWaits
  <2> SUFFICES ASSUME UpstreamInv, breaker = "half", requests >= MaxRequests, current = {}
               PROVE  FALSE
    BY DEF HalfOpenWaits
  <2>1. Cardinality(current) = 0
    BY FS_EmptySet
  <2>2. successes \in Nat
    BY DEF UpstreamInv, TypeOK
  <2> QED
    BY <2>1, <2>2, MaxRequestsType DEF UpstreamInv, HalfInv
<1> QED
  BY <1>1, UpstreamInvHolds, PTL

-----------------------------------------------------------------------------
\* While no host answers, a breaker that is not closed does not close: only the
\* answer of a host that is well closes it.
LEMMA StaysAway ==
  UpstreamInv /\ AllBad /\ breaker # "closed" /\ [Next]_vars => breaker' # "closed"
<1> SUFFICES ASSUME UpstreamInv, AllBad, breaker # "closed", [Next]_vars, breaker' = "closed"
             PROVE  FALSE
  OBVIOUS
<1>1. ASSUME NEW c \in Caller, AfterRequest(c, FALSE) PROVE FALSE
  BY <1>1 DEF AfterRequest, OnFailure, NewGeneration, breakerVars
<1>2. ASSUME NEW c \in Caller, Answer(c) PROVE FALSE
  <2>1. health[host[c]] # "ok"
    BY <1>2 DEF Answer, UpstreamInv, HostInv, AllBad
  <2>2. AfterRequest(c, FALSE)
    BY <1>2, <2>1 DEF Answer
  <2> QED
    BY <2>2, <1>1
<1>3. ASSUME NEW c \in Caller, Choose(c) \/ ChooseUnbuildable(c) \/ TimesOut(c) PROVE FALSE
  BY <1>3, <1>1 DEF Choose, ChooseUnbuildable, TimesOut, Send, breakerVars
<1>4. ASSUME NEW c \in Caller, Admit(c) \/ Swallow(c) PROVE FALSE
  BY <1>4 DEF Admit, Swallow, breakerVars
<1>5. ASSUME IntervalEnds \/ OpenEnds PROVE FALSE
  BY <1>5 DEF IntervalEnds, OpenEnds, NewGeneration
<1>6. ASSUME NEW h \in Host, NEW to \in {"ok", "bad", "hang"}, HealthChange(h, to) PROVE FALSE
  BY <1>6 DEF HealthChange, breakerVars
<1>7. CASE vars' = vars
  BY <1>7 DEF vars
<1> QED
  BY <1>2, <1>3, <1>4, <1>5, <1>6, <1>7 DEF Next, CallStep

\* While no host answers, the breaker does not swing between closed and open.
\* No fairness is needed: once it is away from closed it stays away.
THEOREM NoFlappingHolds == Spec => NoFlapping
<1>1. UpstreamInv /\ AllBad /\ breaker # "closed" /\ [Next]_vars => (breaker # "closed")'
  BY StaysAway
<1>2. (breaker # "closed") <=> ~(breaker = "closed")
  OBVIOUS
<1> QED
  BY <1>1, <1>2, UpstreamInvHolds, PTL DEF Spec, NoFlapping
=============================================================================

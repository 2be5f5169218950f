---------------------------- MODULE WoxUpstream -----------------------------
(***************************************************************************)
(* Calls to an upstream (upstream.go, client.go): NewRequest runs each     *)
(* call inside the circuit breaker of the upstream (gobreaker, external),  *)
(* picks a host by round robin or on the hash ring, and posts to it.       *)
(*                                                                         *)
(* Callers are goroutines of HTTP handlers; each makes one call after      *)
(* another.  A call that the breaker refuses returns at once and changes   *)
(* nothing.  Hosts may at any time start to answer, to fail or to hang;    *)
(* the list of hosts stays what NewUpstream resolved.                      *)
(***************************************************************************)
EXTENDS Integers, FiniteSets

CONSTANTS
  Caller,
  N,           \* addresses resolved by NewUpstream, perhaps none
  Modulus,     \* u.counter is a uint64: 2^64 in the code
  Rings,       \* the policies to choose from: for ConsistentHash the host of
               \* each hash key, for RoundRobin << >>
  Breaker,     \* opt.CircuitBreaker: maxRequests, totalRequests, and failureRatio
               \* in tenths; 0 is unset
  ReadTimeout, \* opt.Client.ReadTimeout is set
  MaxUnbuildable, \* bound: calls with an argument, header or method that cannot be sent
  MaxCount        \* bound: requests the closed breaker counts in one interval

Host == 0..(N - 1)

ASSUME UpstreamAssumption ==
  /\ {N, MaxCount, MaxUnbuildable} \subseteq Nat /\ Modulus \in Nat \ {0}
  /\ Breaker \in [maxRequests : Nat, totalRequests : Nat, failureRatio : Int]
  /\ ReadTimeout \in BOOLEAN
  /\ \A ring \in Rings : \A k \in DOMAIN ring : ring[k] \in Host

VARIABLES
  policy,    \* u.policy with u.hashRing, chosen by NewUpstream
  unbuilt,   \* calls so far that could not be sent
  breaker,   \* "closed", "open" or "half"
  requests, failures, successes, \* counts: Requests, TotalFailures and
                                 \* ConsecutiveSuccesses of this generation
  counter,   \* u.counter
  call,      \* each caller: "idle", "admitted", "sent", "lost"
  host,      \* the host the call goes to
  current,   \* the callers whose call is of the breaker's present generation
  health     \* each host: "ok", "bad" or "hang"

vars == <<policy, unbuilt, breaker, requests, failures, successes, counter, call, host,
          current, health>>
fixed == <<policy, unbuilt>>
breakerVars == <<breaker, requests, failures, successes, current>>

\* The settings of NewUpstream.
MaxRequests == IF Breaker.maxRequests > 0 THEN Breaker.maxRequests ELSE 10

TypeOK ==
  /\ policy \in Rings /\ unbuilt \in 0..MaxUnbuildable
  /\ breaker \in {"closed", "open", "half"}
  /\ requests \in 0..(IF breaker = "half" THEN MaxRequests ELSE MaxCount)
  /\ failures \in 0..requests /\ successes \in 0..requests
  /\ counter \in 0..(Modulus - 1)
  /\ call \in [Caller -> {"idle", "admitted", "sent", "lost"}]
  /\ host \in [Caller -> Host \cup {-1}]
  /\ current \subseteq {c \in Caller : call[c] # "idle"}
  /\ health \in [Host -> {"ok", "bad", "hang"}]

Init ==
  /\ policy \in Rings /\ unbuilt = 0
  /\ breaker = "closed"
  /\ requests = 0 /\ failures = 0 /\ successes = 0
  /\ counter = 0
  /\ call = [c \in Caller |-> "idle"]
  /\ host = [c \in Caller |-> -1]
  /\ current = {}
  /\ health = [h \in Host |-> "ok"]

-----------------------------------------------------------------------------
\* The ratio of the options only counts together with their total.
Trip == IF Breaker.totalRequests > 0 /\ Breaker.failureRatio > 0
          THEN [requests |-> Breaker.totalRequests, tenths |-> Breaker.failureRatio]
          ELSE [requests |-> 60, tenths |-> 6]

ReadyToTrip(req, fail) == req >= Trip.requests /\ fail * 10 >= Trip.tenths * req

\* Mutant: the counts of failures and successes go on.
NewGenerationKeeps(state) ==
  /\ breaker' = state
  /\ requests' = 0
  /\ current' = {}
  /\ UNCHANGED <<failures, successes>>

\* toNewGeneration: the counts start again, and the calls under way no longer count.
NewGeneration(state) ==
  /\ breaker' = state
  /\ requests' = 0 /\ failures' = 0 /\ successes' = 0
  /\ current' = {}

\* Mutant: one success more than there may be calls.
OnSuccessOneMore(c) ==
  IF breaker = "half" /\ successes + 1 > MaxRequests
    THEN NewGeneration("closed")
    ELSE /\ successes' = successes + 1
         /\ current' = current \ {c}
         /\ UNCHANGED <<breaker, requests, failures>>

OnSuccess(c) ==
  IF breaker = "half" /\ successes + 1 >= MaxRequests
    THEN NewGeneration("closed")
    ELSE /\ successes' = successes + 1
         /\ current' = current \ {c}
         /\ UNCHANGED <<breaker, requests, failures>>

OnFailure(c) ==
  IF breaker = "half" \/ ReadyToTrip(requests, failures + 1)
    THEN NewGeneration("open")
    ELSE /\ failures' = failures + 1
         /\ successes' = 0
         /\ current' = current \ {c}
         /\ UNCHANGED <<breaker, requests>>

\* afterRequest, and Execute returns.
AfterRequest(c, success) ==
  /\ call' = [call EXCEPT ![c] = "idle"]
  /\ host' = [host EXCEPT ![c] = -1]
  /\ IF c \notin current THEN UNCHANGED breakerVars
     ELSE IF success THEN OnSuccess(c)
     ELSE OnFailure(c)

\* beforeRequest lets the call through.
Admit(c) ==
  /\ call[c] = "idle"
  /\ \/ breaker = "closed" /\ requests < MaxCount
     \/ breaker = "half" /\ requests < MaxRequests
  /\ requests' = requests + 1
  /\ current' = current \cup {c}
  /\ call' = [call EXCEPT ![c] = "admitted"]
  /\ UNCHANGED <<breaker, failures, successes, counter, host, health, fixed>>

\* Interval has passed since the closed breaker last cleared its counts.
IntervalEnds ==
  /\ breaker = "closed" /\ requests > 0
  /\ NewGeneration("closed")
  /\ UNCHANGED <<counter, call, host, health, fixed>>

\* Timeout has passed since the breaker opened.
OpenEnds ==
  /\ breaker = "open"
  /\ NewGeneration("half")
  /\ UNCHANGED <<counter, call, host, health, fixed>>

-----------------------------------------------------------------------------
Advance == (counter + 1) % Modulus

Send(c, h) ==
  /\ call' = [call EXCEPT ![c] = "sent"]
  /\ host' = [host EXCEPT ![c] = h]
  /\ UNCHANGED breakerVars

\* The function NewRequest gives to Execute, up to the post.
Choose(c) ==
  /\ call[c] = "admitted"
  /\ IF N = 0 THEN AfterRequest(c, FALSE) /\ UNCHANGED counter
     ELSE IF policy # << >>
       THEN \E k \in DOMAIN policy : Send(c, policy[k]) /\ UNCHANGED counter
       ELSE counter' = Advance /\ Send(c, counter' % N)
  /\ UNCHANGED <<health, fixed>>

\* The host is picked, but buildBody or Request refuses the call's content
\* type, argument or method.
ChooseUnbuildable(c) ==
  /\ unbuilt < MaxUnbuildable /\ N > 0
  /\ call[c] = "admitted"
  /\ unbuilt' = unbuilt + 1
  /\ counter' = IF policy # << >> THEN counter ELSE Advance
  /\ AfterRequest(c, FALSE)
  /\ UNCHANGED <<health, policy>>

\* Mutant: a status other than 200 is no error.
AnswerAnyStatus(c) ==
  /\ call[c] = "sent"
  /\ health[host[c]] # "hang"
  /\ AfterRequest(c, TRUE)
  /\ UNCHANGED <<counter, health, fixed>>

\* c.Do returns: with an answer that parseResponse can decode, or with another
\* status, a refused connection, or something undecodable.
Answer(c) ==
  /\ call[c] = "sent"
  /\ health[host[c]] # "hang"
  /\ AfterRequest(c, health[host[c]] = "ok")
  /\ UNCHANGED <<counter, health, fixed>>

\* The host takes the request and will never answer it.
Swallow(c) ==
  /\ call[c] = "sent"
  /\ health[host[c]] = "hang"
  /\ call' = [call EXCEPT ![c] = "lost"]
  /\ UNCHANGED <<breakerVars, counter, host, health, fixed>>

\* Mutant: the client has only a time-out for connecting.
NeverTimesOut(c) == call[c] = "lost" /\ UNCHANGED vars

\* The Timeout of the http.Client ends the call.
TimesOut(c) ==
  /\ ReadTimeout
  /\ call[c] = "lost"
  /\ AfterRequest(c, FALSE)
  /\ UNCHANGED <<counter, health, fixed>>

HealthChange(h, to) ==
  /\ health[h] # to
  /\ health' = [health EXCEPT ![h] = to]
  /\ UNCHANGED <<breakerVars, counter, call, host, fixed>>

-----------------------------------------------------------------------------
CallStep(c) == Choose(c) \/ ChooseUnbuildable(c) \/ Answer(c) \/ Swallow(c) \/ TimesOut(c)

Next ==
  \/ \E c \in Caller : Admit(c) \/ CallStep(c)
  \/ IntervalEnds \/ OpenEnds
  \/ \E h \in Host, to \in {"ok", "bad", "hang"} : HealthChange(h, to)

Spec == Init /\ [][Next]_vars

\* Requests keep coming, calls go on, and time passes.
FairSpec ==
  /\ Spec
  /\ \A c \in Caller : WF_vars(Admit(c)) /\ WF_vars(CallStep(c))
  /\ WF_vars(OpenEnds)
-----------------------------------------------------------------------------
\* A half-open breaker that lets nobody through waits for a call that it has
\* let through itself and that counts: its counts never add up to a state in
\* which no answer could close or open it again.
HalfOpenWaits == breaker = "half" /\ requests >= MaxRequests => current # {}

AllOk == \A h \in Host : health[h] = "ok"
AllBad == N > 0 /\ \A h \in Host : health[h] # "ok"

\* When all hosts are well again for good, the breaker closes again for good,
\* whatever was in flight when they failed: no half-open breaker waits for a
\* call that never ends.
Recovers == <>[]AllOk => <>[](breaker = "closed")

\* While no host answers, the breaker does not swing between closed and open:
\* it stays closed (too few calls in an interval) or it stays away from closed.
NoFlapping == <>[]AllBad => <>[](breaker = "closed") \/ <>[](breaker # "closed")
=============================================================================

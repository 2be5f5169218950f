--------------------------- MODULE WoxStatsProofs ---------------------------
(***************************************************************************)
(* Proofs about WoxStats, for any workers, endpoints and counts.  The page *)
(* adds up because each entry does (EntryInv), and an entry does because a *)
(* message names every endpoint the entry knows (SentInv), so that nothing *)
(* of an older message is left in it.                                      *)
(***************************************************************************)
EXTENDS WoxStats, WoxSumProofs

Counts == UNION {[E -> Nat] : E \in SUBSET Endpoint}

\* A message on its way names what its worker's entry names.
SentInv ==
  \A w \in Worker : sent[w] # NoEntry /\ worker[w] # NoEntry =>
    DOMAIN worker[w].method \subseteq DOMAIN sent[w]

\* The total of an entry is that of its endpoints.
EntryInv ==
  \A w \in Worker : worker[w] # NoEntry => worker[w].qps = Total(worker[w].method)

\* What an entry is made of.
LEMMA IsStats ==
  ASSUME NEW s
  PROVE  IsProcessStats(s) <=>
           s = [qps |-> s.qps, method |-> s.method] /\ s.qps \in Nat /\ s.method \in Counts
BY DEF IsProcessStats, Counts

\* The counts of a finite set of endpoints have a total.
LEMMA CountsTotal ==
  ASSUME NEW m \in Counts
  PROVE  Total(m) \in Nat /\ \A e \in DOMAIN m : m[e] \in Nat
<1>1. PICK E \in SUBSET Endpoint : m \in [E -> Nat]
  BY DEF Counts
<1>2. IsFiniteSet(DOMAIN m) /\ \A e \in DOMAIN m : m[e] \in Nat
  BY <1>1, StatsAssumption, FS_Subset
<1> QED
  BY <1>2, SumType DEF Total, SumOf

\* A new entry has no endpoint, and its total is zero.
LEMMA NewStatsTotal == IsProcessStats(NewStats) /\ NewStats.qps = Total(NewStats.method)
<1>1. << >> \in [{} -> Nat] /\ DOMAIN << >> = {}
  OBVIOUS
<1>2. IsProcessStats(NewStats)
  BY <1>1 DEF IsProcessStats, NewStats
<1>3. Total(NewStats.method) = 0
  BY <1>1, FS_EmptySet, SumZero DEF NewStats, Total, SumOf
<1> QED
  BY <1>2, <1>3 DEF NewStats

\* A message that names all endpoints of an entry replaces it.
LEMMA AddCountsDoes ==
  ASSUME NEW s, IsProcessStats(s), NEW msg \in Message, DOMAIN s.method \subseteq DOMAIN msg
  PROVE  /\ IsProcessStats(AddCounts(ResetStats(s), msg))
         /\ AddCounts(ResetStats(s), msg).qps = Total(AddCounts(ResetStats(s), msg).method)
         /\ DOMAIN AddCounts(ResetStats(s), msg).method = DOMAIN msg
<1> DEFINE r == AddCounts(ResetStats(s), msg)
<1>1. PICK E \in SUBSET Endpoint : msg \in [E -> 0..MaxQPS]
  BY DEF Message
<1>2. msg \in [E -> Nat] /\ msg \in Counts
  BY <1>1, StatsAssumption DEF Counts
<1>3. DOMAIN Zero(s.method) = DOMAIN s.method
  BY DEF Zero
<1>4. DOMAIN Zero(s.method) \cup DOMAIN msg = E
  BY <1>2, <1>3
<1>5. r = [qps |-> 0 + Total(msg), method |-> [e \in E |-> msg[e]]]
  BY <1>2, <1>4 DEF AddCounts, ResetStats
<1>6. r = [qps |-> Total(msg), method |-> msg]
  BY <1>2, <1>5, CountsTotal
<1>7. IsProcessStats(r)
  BY <1>2, <1>6, CountsTotal DEF IsProcessStats
<1> QED
  BY <1>6, <1>7

\* Nothing but the names is left when the master's own statistics are reset.
LEMMA ResetIsStats ==
  ASSUME NEW s, IsProcessStats(s)
  PROVE  /\ IsProcessStats(ResetStats(s)) /\ ResetStats(s).qps = 0
         /\ DOMAIN ResetStats(s).method = DOMAIN s.method
         /\ \A e \in DOMAIN s.method : ResetStats(s).method[e] = 0
<1>1. PICK E \in SUBSET Endpoint : s \in [qps : Nat, method : [E -> Nat]]
  BY DEF IsProcessStats
<1>2. Zero(s.method) \in [E -> Nat]
  BY <1>1 DEF Zero
<1> QED
  BY <1>1, <1>2 DEF ResetStats, Zero, IsProcessStats

-----------------------------------------------------------------------------
\* The page: what is summed up over the entries.
LEMMA ListedStats ==
  ASSUME TypeOK
  PROVE  IsFiniteSet(Listed) /\ \A w \in Listed : w \in Worker /\ IsProcessStats(worker[w])
BY StatsAssumption, FS_Subset DEF TypeOK, Listed

\* The count of an endpoint, zero when it is not there.
LEMMA AtType ==
  ASSUME NEW s, IsProcessStats(s), NEW e
  PROVE  At(s.method, e) \in Nat
BY IsStats, CountsTotal DEF At

\* On top of statistics that were reset, the sums are those of the entries.
LEMMA SummedDoes ==
  ASSUME TypeOK, NEW s, IsProcessStats(s), s.qps = 0, \A e \in DOMAIN s.method : s.method[e] = 0
  PROVE  /\ IsProcessStats(Summed(s))
         /\ Summed(s).qps = SumOf([w \in Listed |-> Total(worker[w].method)])
         /\ \A e \in Endpoint :
              At(Summed(s).method, e) = SumOf([w \in Listed |-> At(worker[w].method, e)])
<1> DEFINE r == Summed(s)
           names == DOMAIN s.method \cup UNION {DOMAIN worker[w].method : w \in Listed}
           tot == [w \in Listed |-> Total(worker[w].method)]
           at(e) == [w \in Listed |-> At(worker[w].method, e)]
<1>1. r = [qps |-> s.qps + SumOf(tot), method |-> [e \in names |-> At(s.method, e) + SumOf(at(e))]]
  BY DEF Summed
<1>2. SumOf(tot) \in Nat
  <2>1. \A w \in Listed : tot[w] \in Nat
    BY ListedStats, IsStats, CountsTotal
  <2>2. DOMAIN tot = Listed
    OBVIOUS
  <2> HIDE DEF tot
  <2> QED
    BY <2>1, <2>2, ListedStats, SumType DEF SumOf
<1>3. ASSUME NEW e
      PROVE  /\ SumOf(at(e)) \in Nat
             /\ (\A w \in Listed : e \notin DOMAIN worker[w].method) => SumOf(at(e)) = 0
  <2> DEFINE a == at(e)
  <2>1. \A w \in Listed : a[w] \in Nat
    BY ListedStats, AtType
  <2>2. DOMAIN a = Listed
    OBVIOUS
  <2>3. (\A w \in Listed : e \notin DOMAIN worker[w].method) => \A w \in Listed : a[w] = 0
    BY DEF At
  <2> HIDE DEF a
  <2>4. SumOf(a) \in Nat
    BY <2>1, <2>2, ListedStats, SumType DEF SumOf
  <2>5. (\A w \in Listed : a[w] = 0) => SumOf(a) = 0
    BY <2>2, ListedStats, SumZero DEF SumOf
  <2> QED
    BY <2>3, <2>4, <2>5 DEF a
<1>4. \A e : At(s.method, e) = 0
  BY DEF At
<1>5. names \in SUBSET Endpoint
  <2>1. DOMAIN s.method \subseteq Endpoint
    BY DEF IsProcessStats
  <2>2. \A w \in Listed : DOMAIN worker[w].method \subseteq Endpoint
    BY ListedStats DEF IsProcessStats
  <2> QED
    BY <2>1, <2>2
<1> HIDE DEF tot, at
<1>6. r = [qps |-> SumOf(tot), method |-> [e \in names |-> SumOf(at(e))]]
  BY <1>1, <1>2, <1>3, <1>4
<1>7. IsProcessStats(r)
  <2>1. [e \in names |-> SumOf(at(e))] \in [names -> Nat]
    BY <1>3
  <2> HIDE DEF names
  <2> QED
    BY <1>2, <1>5, <1>6, <2>1 DEF IsProcessStats
<1>8. ASSUME NEW e \in Endpoint
      PROVE  At(r.method, e) = SumOf(at(e))
  <2>1. CASE e \in names
    BY <1>6, <2>1 DEF At
  <2>2. CASE e \notin names
    <3>1. \A w \in Listed : e \notin DOMAIN worker[w].method
      BY <2>2
    <3>2. At(r.method, e) = 0
      BY <1>6, <2>2 DEF At
    <3> QED
      BY <1>3, <3>1, <3>2
  <2> QED
    BY <2>1, <2>2
<1> QED
  BY <1>6, <1>7, <1>8 DEF tot, at

-----------------------------------------------------------------------------
\* The start.
LEMMA StatsInit == Init => TypeOK /\ SentInv /\ EntryInv /\ PageAddsUp
BY NewStatsTotal DEF Init, TypeOK, SentInv, EntryInv, PageAddsUp

\* Every step keeps the types, what a message names and the total of an entry.
LEMMA StatsStep ==
  TypeOK /\ SentInv /\ EntryInv /\ [Next]_vars => TypeOK' /\ SentInv' /\ EntryInv'
<1> SUFFICES ASSUME TypeOK, SentInv, EntryInv, [Next]_vars
             PROVE  TypeOK' /\ SentInv' /\ EntryInv'
  OBVIOUS
<1>1. ASSUME NEW w \in Worker, ForkStore(w) \/ ForkReturns(w) \/ WaitWorker(w)
      PROVE  TypeOK' /\ SentInv' /\ EntryInv'
  <2>1. UNCHANGED <<up, sent, master, worker>>
    BY <1>1 DEF ForkStore, ForkReturns, WaitWorker
  <2>2. \A v \in Worker : (life'[v] \in {"listed", "read", "dead"}) = (life[v] \in {"listed", "read", "dead"})
    BY <1>1 DEF ForkStore, ForkReturns, WaitWorker, Move, TypeOK
  <2>3. life' \in [Worker -> {"none", "stored", "listed", "read", "dead", "deleted"}]
    BY <1>1 DEF ForkStore, ForkReturns, WaitWorker, Move, TypeOK
  <2>4. TypeOK'
    BY <2>1, <2>2, <2>3 DEF TypeOK
  <2> QED
    BY <2>1, <2>4 DEF SentInv, EntryInv
<1>2. ASSUME NEW w \in Worker, ForkLists(w)
      PROVE  TypeOK' /\ SentInv' /\ EntryInv'
  <2>1. worker' = [worker EXCEPT ![w] = NewStats] /\ UNCHANGED <<up, sent, master>>
    BY <1>2 DEF ForkLists
  <2>2. life' = [life EXCEPT ![w] = "listed"]
    BY <1>2 DEF ForkLists, Move
  <2>3. TypeOK'
    BY <2>1, <2>2, NewStatsTotal DEF TypeOK
  <2>4. SentInv'
    <3>1. DOMAIN NewStats.method = {}
      BY DEF NewStats
    <3> QED
      BY <2>1, <3>1 DEF SentInv, TypeOK
  <2>5. EntryInv'
    BY <2>1, NewStatsTotal DEF EntryInv, TypeOK
  <2> QED
    BY <2>3, <2>4, <2>5
<1>3. ASSUME NEW w \in Worker, DeleteDead(w)
      PROVE  TypeOK' /\ SentInv' /\ EntryInv'
  <2>1. worker' = [worker EXCEPT ![w] = NoEntry] /\ UNCHANGED <<up, sent, master>>
    BY <1>3 DEF DeleteDead
  <2>2. life' = [life EXCEPT ![w] = "deleted"]
    BY <1>3 DEF DeleteDead, Move
  <2>3. TypeOK'
    BY <2>1, <2>2 DEF TypeOK
  <2>4. SentInv' /\ EntryInv'
    BY <2>1 DEF SentInv, EntryInv, TypeOK
  <2> QED
    BY <2>3, <2>4
<1>4. ASSUME NEW w \in Worker, NEW msg \in Message, SendStats(w, msg)
      PROVE  TypeOK' /\ SentInv' /\ EntryInv'
  BY <1>4 DEF SendStats, TypeOK, SentInv, EntryInv
<1>5. ASSUME NEW w \in Worker, ReadStats(w)
      PROVE  TypeOK' /\ SentInv' /\ EntryInv'
  <2>1. sent' = [sent EXCEPT ![w] = NoEntry] /\ UNCHANGED <<life, master>> /\ sent[w] \in Message
    BY <1>5 DEF ReadStats, TypeOK
  <2>2. CASE worker[w] = NoEntry
    <3>1. up' = FALSE /\ UNCHANGED worker
      BY <1>5, <2>2 DEF ReadStats
    <3> QED
      BY <2>1, <3>1 DEF TypeOK, SentInv, EntryInv
  <2>3. CASE worker[w] # NoEntry
    <3> DEFINE r == AddCounts(ResetStats(worker[w]), sent[w])
    <3>1. worker' = [worker EXCEPT ![w] = r] /\ UNCHANGED up
      BY <1>5, <2>3 DEF ReadStats
    <3>2. IsProcessStats(worker[w]) /\ life[w] \in {"listed", "read", "dead"}
      BY <2>3 DEF TypeOK
    <3>3. DOMAIN worker[w].method \subseteq DOMAIN sent[w]
      BY <1>5, <2>3 DEF SentInv, ReadStats
    <3>4. IsProcessStats(r) /\ r.qps = Total(r.method)
      BY <2>1, <3>2, <3>3, AddCountsDoes
    <3> HIDE DEF r
    <3>5. TypeOK'
      BY <2>1, <3>1, <3>2, <3>4 DEF TypeOK
    <3>6. SentInv' /\ EntryInv'
      BY <2>1, <3>1, <3>4 DEF SentInv, EntryInv, TypeOK
    <3> QED
      BY <3>5, <3>6
  <2> QED
    BY <2>2, <2>3
<1>6. CASE DoStats
  <2>1. UNCHANGED <<up, life, sent, worker>> /\ master' = Summed(ResetStats(master))
    BY <1>6 DEF DoStats
  <2>2. IsProcessStats(master')
    <3>1. IsProcessStats(master)
      BY DEF TypeOK
    <3> DEFINE s == ResetStats(master)
    <3>2. IsProcessStats(s) /\ s.qps = 0 /\ \A e \in DOMAIN s.method : s.method[e] = 0
      BY <3>1, ResetIsStats
    <3> HIDE DEF s
    <3>3. IsProcessStats(Summed(s))
      BY <3>2, SummedDoes
    <3> QED
      BY <2>1, <3>3 DEF s
  <2> QED
    BY <2>1, <2>2 DEF TypeOK, SentInv, EntryInv
<1>7. CASE UNCHANGED vars
  BY <1>7 DEF vars, TypeOK, SentInv, EntryInv
<1> QED
  BY <1>1, <1>2, <1>3, <1>4, <1>5, <1>6, <1>7 DEF Next

\* A page adds up when it is made, and nothing else changes it.
LEMMA PageStep == TypeOK /\ EntryInv /\ PageAddsUp /\ [Next]_vars => PageAddsUp'
<1> SUFFICES ASSUME TypeOK, EntryInv, PageAddsUp, [Next]_vars
             PROVE  PageAddsUp'
  OBVIOUS
<1>1. CASE DoStats
  <2> DEFINE s == ResetStats(master)
  <2>1. IsProcessStats(s) /\ s.qps = 0 /\ \A e \in DOMAIN s.method : s.method[e] = 0
    BY ResetIsStats DEF TypeOK
  <2>2. page'.master = Summed(s) /\ page'.worker = worker
    BY <1>1 DEF DoStats
  <2> HIDE DEF s
  <2>3. /\ Summed(s).qps = SumOf([w \in Listed |-> Total(worker[w].method)])
        /\ \A e \in Endpoint :
             At(Summed(s).method, e) = SumOf([w \in Listed |-> At(worker[w].method, e)])
    BY <2>1, SummedDoes
  <2>4. {w \in Worker : page'.worker[w] # NoEntry} = Listed
    BY <2>2 DEF Listed
  <2>5. \A w \in Listed : worker[w].qps = Total(worker[w].method)
    BY DEF EntryInv, Listed
  <2>6. [w \in Listed |-> Total(worker[w].method)] = [w \in Listed |-> page'.worker[w].qps]
    BY <2>2, <2>5
  <2>7. Summed(s).qps = SumOf([w \in Listed |-> page'.worker[w].qps])
    BY <2>3, <2>6
  <2>8. \A e \in Endpoint :
          At(page'.master.method, e) = SumOf([w \in Listed |-> At(page'.worker[w].method, e)])
    BY <2>2, <2>3
  <2> QED
    BY <2>2, <2>4, <2>5, <2>7, <2>8 DEF PageAddsUp
<1>2. CASE UNCHANGED page
  BY <1>2 DEF PageAddsUp
<1> QED
  BY <1>1, <1>2 DEF Next, vars, ForkStore, ForkLists, ForkReturns, WaitWorker, DeleteDead,
                    SendStats, ReadStats

\* The tables of the statistics have their types, for any workers, endpoints
\* and counts: a worker has an entry from fork to watchChildren.
THEOREM TypeOKHolds == Spec => [](TypeOK /\ SentInv /\ EntryInv)
BY StatsInit, StatsStep, PTL DEF Spec

\* Every answer of doStats adds up, whoever came, went or reported before.
THEOREM PageAddsUpHolds == Spec => []PageAddsUp
BY StatsInit, PageStep, TypeOKHolds, PTL DEF Spec

\* Whenever the master dies, it has just read what a worker left behind whose
\* entry is deleted: no message that comes before an entry is fatal.
THEOREM NoEarlyPanicHolds == Spec => NoEarlyPanic
<1>1. TypeOK /\ [Next]_vars =>
        [~up' => \E w \in Worker :
                   /\ sent[w] # NoEntry /\ sent'[w] = NoEntry
                   /\ life[w] = "deleted"]_vars
  <2> SUFFICES ASSUME TypeOK, Next, ~up'
               PROVE  \E w \in Worker :
                        /\ sent[w] # NoEntry /\ sent'[w] = NoEntry
                        /\ life[w] = "deleted"
    OBVIOUS
  <2>1. PICK w \in Worker : ReadStats(w)
    BY DEF Next, ForkStore, ForkLists, ForkReturns, WaitWorker, DeleteDead, SendStats, DoStats
  <2>2. worker[w] = NoEntry
    BY <2>1 DEF Next, ReadStats
  <2>3. life[w] \notin {"read", "dead"}
    BY <2>2, StatsAssumption DEF TypeOK
  <2>4. life[w] = "deleted" /\ sent[w] # NoEntry
    BY <2>1, <2>3 DEF ReadStats
  <2>5. sent'[w] = NoEntry
    BY <2>1 DEF TypeOK, ReadStats
  <2> QED
    BY <2>4, <2>5
<1> QED
  BY <1>1, TypeOKHolds, PTL DEF Spec, NoEarlyPanic
=============================================================================

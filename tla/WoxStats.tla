------------------------------ MODULE WoxStats ------------------------------
(***************************************************************************)
(* The statistics of the master (stats.go; master.go fork, watchChildren,  *)
(* readMsg, doStats): a table of the workers, one entry each, that the     *)
(* goroutines of the master change under the mutex of stats and that the   *)
(* page /stats adds up.  The steps of a goroutine under the mutex are one  *)
(* action.  WoxServing has the way of a message to the master.             *)
(***************************************************************************)
EXTENDS WoxSums, FiniteSets

CONSTANTS
  Worker,    \* the pids of workers
  Endpoint,  \* the patterns of handlers
  MaxQPS,    \* bound: requests of an endpoint in one message
  NoEntry

VARIABLES
  up,      \* the master runs
  life,    \* the master's view of a worker: "none", "stored" in children,
           \* "listed" in the table, "read" by readMsg, "dead" (its waitWorker
           \* has recorded that), "deleted" by watchChildren
  sent,    \* the statistics in the socket of each worker: counts of the
           \* endpoints it has served so far, or NoEntry
  master,  \* stats.Master
  worker,  \* stats.Worker, NoEntry when the map has no entry
  page     \* the last answer of doStats

vars == <<up, life, sent, master, worker, page>>

Message == UNION {[E -> 0..MaxQPS] : E \in SUBSET Endpoint}
IsProcessStats(s) == \E E \in SUBSET Endpoint : s \in [qps : Nat, method : [E -> Nat]]

ASSUME StatsAssumption ==
  /\ MaxQPS \in Nat
  /\ IsFiniteSet(Worker) /\ IsFiniteSet(Endpoint)
  /\ ~IsProcessStats(NoEntry)

NewStats == [qps |-> 0, method |-> << >>]

TypeOK ==
  /\ up \in BOOLEAN
  /\ life \in [Worker -> {"none", "stored", "listed", "read", "dead", "deleted"}]
  /\ sent \in [Worker -> Message \cup {NoEntry}]
  /\ DOMAIN worker = Worker
  /\ \A w \in Worker : IF life[w] \in {"listed", "read", "dead"}
                         THEN IsProcessStats(worker[w])
                         ELSE worker[w] = NoEntry
  /\ IsProcessStats(master)

Init ==
  /\ up = TRUE
  /\ life = [w \in Worker |-> "none"]
  /\ sent = [w \in Worker |-> NoEntry]
  /\ master = NewStats
  /\ worker = [w \in Worker |-> NoEntry]
  /\ page = NoEntry

Move(w, from, to) == life[w] = from /\ life' = [life EXCEPT ![w] = to]

\* The counts of the keys of method, all zero.
Zero(method) == [e \in DOMAIN method |-> 0]

At(method, e) == IF e \in DOMAIN method THEN method[e] ELSE 0

Total(method) == SumOf(method)

-----------------------------------------------------------------------------
\* fork: the process runs and children knows it.
ForkStore(w) == Move(w, "none", "stored") /\ UNCHANGED <<up, sent, master, worker, page>>

\* Mutant: fork makes no entry.
ForkListsNothing(w) ==
  Move(w, "stored", "listed") /\ UNCHANGED <<up, sent, master, worker, page>>

\* fork makes the worker's entry before it starts waitWorker and readMsg.
ForkLists(w) ==
  /\ Move(w, "stored", "listed")
  /\ worker' = [worker EXCEPT ![w] = NewStats]
  /\ UNCHANGED <<up, sent, master, page>>

ForkReturns(w) == Move(w, "listed", "read") /\ UNCHANGED <<up, sent, master, worker, page>>

\* waitWorker
WaitWorker(w) == Move(w, "read", "dead") /\ UNCHANGED <<up, sent, master, worker, page>>

\* watchChildren
DeleteDead(w) ==
  /\ Move(w, "dead", "deleted")
  /\ worker' = [worker EXCEPT ![w] = NoEntry]
  /\ UNCHANGED <<up, sent, master, page>>

\* The worker writes its statistics, from its first breath; its endpoints
\* only become more, and what it has written outlives it.
SendStats(w, msg) ==
  /\ life[w] \notin {"none", "dead", "deleted"}
  /\ sent[w] = NoEntry
  /\ worker[w] # NoEntry => DOMAIN worker[w].method \subseteq DOMAIN msg
  /\ sent' = [sent EXCEPT ![w] = msg]
  /\ UNCHANGED <<up, life, master, worker, page>>

\* Mutant: the counts of a worker are added up and never reset.
ResetNothing(s) == s

\* resetWorker and resetMaster: the names stay.
ResetStats(s) == [qps |-> 0, method |-> Zero(s.method)]

\* The loop of readMsg over the counts of a message.
AddCounts(s, msg) ==
  [qps    |-> s.qps + Total(msg),
   method |-> [e \in DOMAIN s.method \cup DOMAIN msg |->
                 IF e \in DOMAIN msg THEN msg[e] ELSE s.method[e]]]

\* readMsg: without an entry resetWorker dereferences nil, and the master dies.
ReadStats(w) ==
  /\ life[w] \in {"read", "dead", "deleted"}
  /\ sent[w] # NoEntry
  /\ sent' = [sent EXCEPT ![w] = NoEntry]
  /\ IF worker[w] = NoEntry
       THEN up' = FALSE /\ UNCHANGED worker
       ELSE worker' = [worker EXCEPT ![w] = AddCounts(ResetStats(@), sent[w])] /\ UNCHANGED up
  /\ UNCHANGED <<life, master, page>>

Listed == {w \in Worker : worker[w] # NoEntry}

\* doStats: the sums over all entries, on top of the names seen before.
Summed(s) ==
  LET names == DOMAIN s.method \cup UNION {DOMAIN worker[w].method : w \in Listed}
  IN  [qps    |-> s.qps + SumOf([w \in Listed |-> Total(worker[w].method)]),
       method |-> [e \in names |->
         At(s.method, e) + SumOf([w \in Listed |-> At(worker[w].method, e)])]]

\* Mutant: the page is summed up on top of the last one.
DoStatsNoReset ==
  /\ master' = Summed(master)
  /\ page' = [master |-> master', worker |-> worker]
  /\ UNCHANGED <<up, life, sent, worker>>

DoStats ==
  /\ master' = Summed(ResetStats(master))
  /\ page' = [master |-> master', worker |-> worker]
  /\ UNCHANGED <<up, life, sent, worker>>

Next ==
  /\ up
  /\ \/ \E w \in Worker :
          \/ ForkStore(w) \/ ForkLists(w) \/ ForkReturns(w)
          \/ WaitWorker(w) \/ DeleteDead(w)
          \/ ReadStats(w)
          \/ \E msg \in Message : SendStats(w, msg)
     \/ DoStats

Spec == Init /\ [][Next]_vars
-----------------------------------------------------------------------------
\* The page adds up, whoever came, went or reported before: the total of the
\* server is that of the workers on the page, endpoint by endpoint, and the
\* total of a worker is that of its endpoints.
PageAddsUp ==
  page # NoEntry =>
    LET on == {w \in Worker : page.worker[w] # NoEntry}
    IN  /\ page.master.qps = SumOf([w \in on |-> page.worker[w].qps])
        /\ \A w \in on : page.worker[w].qps = Total(page.worker[w].method)
        /\ \A e \in Endpoint :
             At(page.master.method, e) =
               SumOf([w \in on |-> At(page.worker[w].method, e)])

\* The message that the master dies of was left behind by a worker whose entry
\* watchChildren has deleted: it never dies of one that comes early, whatever
\* became of the other workers before.
NoEarlyPanic ==
  [][~up' => \E w \in Worker :
               /\ sent[w] # NoEntry /\ sent'[w] = NoEntry
               /\ life[w] = "deleted"]_vars
=============================================================================

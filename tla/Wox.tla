-------------------------------- MODULE Wox ---------------------------------
(***************************************************************************)
(* A wox server: the master (WoxMaster), its workers (WoxWorker) and the   *)
(* sockets between them (WoxProcess).                                      *)
(***************************************************************************)
EXTENDS WoxMaster, WoxWorker

vars == <<procVars, masterVars, crashes>>

TypeOK == ProcTypeOK /\ MasterTypeOK /\ WorkerTypeOK

Init == ProcInit /\ MasterInit /\ WorkerInit

Environment ==
  \/ MasterEnvironment /\ UNCHANGED crashes
  \/ \E p \in Pid : Crash(p) /\ UNCHANGED masterVars

Next ==
  \/ MasterStep /\ UNCHANGED crashes
  \/ \E p \in Pid : WorkerStep(p) /\ UNCHANGED masterVars
  \/ Environment

Spec == Init /\ [][Next]_vars

(***************************************************************************)
(* The Go scheduler and the kernel let every goroutine and every process   *)
(* run; nothing is assumed of crashes, signals, reloads or lost messages.  *)
(***************************************************************************)
Fairness ==
  /\ \A p \in Pid : WF_vars(WorkerStep(p) /\ UNCHANGED masterVars)
  /\ \A p \in Pid : WF_vars(masterUp /\ WaitWorker(p) /\ UNCHANGED crashes)
  /\ \A p \in Pid : WF_vars(ReaderStep(p) /\ UNCHANGED crashes)
  /\ \A t \in Thread : WF_vars(ThreadStep(t) /\ UNCHANGED crashes)
  /\ WF_vars(WatchChildrenStep /\ UNCHANGED crashes)
  /\ WF_vars(StopStep /\ UNCHANGED crashes)

FairSpec == Spec /\ Fairness
-----------------------------------------------------------------------------
Stopping == ~masterUp \/ pc["watchSignal"] \in {"quitAll", "killAll"}

\* p has been forked and the forking goroutine has not stored it yet.
InFork(p) == \E t \in Thread : pc[t] = "fork" /\ held[t] = p

\* A running worker is never missing from the master's tables nor counted
\* there as dead, in whatever order reload, watchChildren, waitWorker and the
\* forks run: what is not in the tables can be neither retired nor stopped.
TableTracksRunning ==
  masterUp => \A p \in Pid : Running(p) /\ ~InFork(p) =>
                /\ children[p] \in {"alive", "reload"}
                /\ p \in uc
                /\ p \in waiting

\* A worker that doStatus counts (state alive) has not been told to quit,
\* unless the master is stopping gracefully.
AliveNotTold ==
  \A p \in Pid : children[p] = "alive" /\ Told(p) => pc["watchSignal"] = "quitAll"

\* What the tables count as alive runs, or its waitWorker is still to record
\* its death: a store of reload that comes late never makes a dead worker
\* alive again for doStatus.
AliveIsWaited ==
  masterUp => \A p \in Pid : children[p] = "alive" => Running(p) \/ p \in waiting

\* Reloads asked for one at a time never interrupt the service: from the
\* first worker that serves on, and as long as none crashes, some worker
\* serves and has not been told to quit, even when forks fail or takeovers
\* are lost.
Continuity ==
  /\ crashes = 0
  /\ ~Stopping
  /\ \E p \in Pid : wk[p] \in {"serving", "exit0"}
  => \E p \in Pid : Serving(p) /\ ~Told(p)

\* Once everything has settled, and unless a fork failed, the pool is not
\* short: crashes and reloads in any order are made up for.
NeverShort ==
  Settled /\ forkFails = 0 =>
    Cardinality({p \in Pid : children[p] = "alive"}) >= WorkerNum

\* However many reloads overlap, the pool does not pile up: a reload marks all
\* the workers it finds, so what is left are the workers of the last reload of
\* each goroutine that reloads, and replacements of workers that crashed.
PoolBounded ==
  Settled =>
    Cardinality({p \in Pid : children[p] = "alive"}) <= WorkerNum * Cardinality(Reloader) + crashes

\* The code doStatus answers, from a Range that counts the workers alive.
DoStatus == IF Cardinality({p \in Pid : children[p] = "alive"}) # WorkerNum THEN 207 ELSE 200

\* Once everything has settled doStatus finds exactly WorkerNum workers alive.
StatusCount == Settled /\ forkFails = 0 => DoStatus = 200

\* Once everything has settled the tables hold no dead worker.
NoStaleEntry ==
  Settled => \A p \in Pid : children[p] # "absent" => Running(p)

\* The server implements WorkerPool: no worker is told to quit before it has
\* been superseded and a takeover has been announced, unless the server stops.
PoolStatus(p) ==
  IF wk[p] = "unused" THEN "none"
  ELSE IF Exited(p) THEN "gone"
  ELSE IF Told(p) THEN "told"
  ELSE IF children[p] = "reload" THEN "superseded"
  ELSE "active"

Pool == INSTANCE WorkerPool WITH
  status    <- [p \in Pid |-> PoolStatus(p)],
  announced <- {p \in Pid : takeover[p] # "none"},
  stopping  <- pc["watchSignal"] = "quitAll"

ImplementsPool == Pool!PoolSpec

\* When the master is gone no worker stays behind.
NoOrphans == ~masterUp ~> \A p \in Pid : ~Running(p)

\* A reload comes to its end: the workers it supersedes leave, unless a crash,
\* a failed fork or a lost takeover has come in between.
ReloadEnds ==
  \A p \in Pid : children[p] = "reload" ~> ~Running(p) \/ crashes + forkFails + losses > 0

\* waitWorker and watchChildren get round to every death: the entry of a dead
\* worker leaves the tables.  Only the store of a reload that had loaded the
\* worker's state before it died can bring the entry back for good.
DeadForgotten ==
  \A p \in Pid : Exited(p) ~>
    ~masterUp \/ children[p] = "absent" \/ (children[p] = "reload" /\ p \notin waiting)
-----------------------------------------------------------------------------
(***************************************************************************)
(* The inductive invariant behind TableTracksRunning, AliveNotTold and     *)
(* AliveIsWaited.                                                          *)
(***************************************************************************)

\* A thread in the loop of fork has a fork left; a thread that marks is a
\* reload with all its forks left.
LoopInv ==
  \A t \in Thread : /\ pc[t] = "fork" => left[t] > 0
                    /\ pc[t] = "mark" => t \in Reloader /\ left[t] = WorkerNum

\* A pid is only held between a load and its store, and is a process's.
HeldInv ==
  \A t \in Thread : held[t] # NoPid =>
    pc[t] \in {"mark", "fork"} /\ wk[held[t]] # "unused"

\* Nobody but the forking thread knows the process it has just forked.
ForkInv ==
  \A t \in Thread : pc[t] = "fork" /\ held[t] # NoPid =>
    /\ children[held[t]] = "absent"
    /\ held[t] \notin uc \cup waiting
    /\ ~Told(held[t])
    /\ \A u \in Thread : held[u] = held[t] => u = t

\* Nothing is known of a process that does not exist yet.
UnusedInv ==
  \A p \in Pid : wk[p] = "unused" =>
    /\ children[p] = "absent"
    /\ p \notin uc \cup waiting
    /\ ~Told(p)
    /\ takeover[p] = "none"

\* quit and crash are recorded after the death, by a waitWorker that has
\* returned, and watchChildren only handles such a worker.
DeathInv ==
  /\ \A p \in Pid : children[p] \in {"quit", "crash"} => Exited(p) /\ p \notin waiting
  /\ pc["watchChildren"] \in {"fork", "delete"} =>
       /\ dead \in Pid /\ Exited(dead)
       /\ dead \notin waiting /\ children[dead] # "absent"

\* A goroutine that retires workers has read a takeover.
AnnounceInv ==
  \A p \in Pid : reader[p] \in {"enough", "notify"} => takeover[p] # "none"

TableInv ==
  /\ LoopInv
  /\ HeldInv
  /\ ForkInv
  /\ UnusedInv
  /\ DeathInv
  /\ TableTracksRunning
  /\ AliveNotTold
  /\ AliveIsWaited

IInv == TypeOK /\ TableInv
=============================================================================

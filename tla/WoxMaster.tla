------------------------------ MODULE WoxMaster -----------------------------
(***************************************************************************)
(* The master process (master.go).  Its goroutines share the tables        *)
(* children (pid -> state) and uc (pid -> connection):                     *)
(*   main            run(): forks the first workers, starts the others     *)
(*   watchChildren   replaces crashed workers, drops dead ones             *)
(*   watchSignal     SIGHUP reloads, SIGINT and SIGQUIT stop gracefully,   *)
(*                   SIGTERM stops roughly                                 *)
(*   one per target  reloads when etcd reports a change (watchTarget)      *)
(*   per worker      waitWorker, and readMsg which handles a takeover      *)
(* sync.Map.Range visits the keys present when it starts, in any order,    *)
(* and loads each value when it visits it: a goroutine in a Range keeps    *)
(* the pids it has still to visit in todo, and each visit is a step.       *)
(***************************************************************************)
EXTENDS WoxProcess

CONSTANTS
  Target,        \* the watched etcd targets, one watchTarget goroutine each
  WorkerNum,     \* m.workerNum
  StopSignal,    \* how the master may be stopped: "quit", "term", "kill"
  SpacedReloads, \* reloads are only asked for when the pool has settled
  MaxReloads,    \* bound: reloads in a behaviour
  MaxForkFails,  \* bound: failed forks in a behaviour
  MaxLosses      \* bound: takeovers lost in a behaviour

Thread == {"main", "watchChildren", "watchSignal"} \cup Target
Reloader == {"watchSignal"} \cup Target

ASSUME MasterAssumption ==
  /\ WorkerNum \in Nat \ {0}
  /\ IsFiniteSet(Target) /\ Target \cap {"main", "watchChildren", "watchSignal"} = {}
  /\ StopSignal \subseteq {"quit", "term", "kill"}
  /\ SpacedReloads \in BOOLEAN
  /\ MaxReloads \in Nat
  /\ MaxForkFails \in Nat
  /\ MaxLosses \in Nat

VARIABLES
  children,   \* m.children: state of each pid, "absent" when not in the map
  uc,         \* m.uc: the pids whose connection is in the map
  waiting,    \* the pids whose waitWorker goroutine has not returned
  reader,     \* readMsg goroutine of each pid: "off", "read", "enough" (the
              \* workers are counted) or "notify"
  rtodo,      \* what is left of the Range of that goroutine's notifyWorker
  pc,         \* where each thread is
  todo,       \* what is left of the thread's Range
  held,       \* the pid a thread holds between a load and the store after it
  left,       \* forks left in the thread's loop
  dead,       \* the pid watchChildren is handling
  reloads, forkFails, losses  \* how often the environment has acted

tableVars  == <<children, uc, waiting>>
readerVars == <<reader, rtodo>>
threadVars == <<pc, todo, held, left, dead>>
boundVars  == <<reloads, forkFails, losses>>
masterVars == <<tableVars, readerVars, threadVars, boundVars>>

ChildState == {"absent", "alive", "reload", "quit", "crash"}
PcState == {"idle", "mark", "fork", "delete", "quitAll", "killAll"}

MasterTypeOK ==
  /\ children \in [Pid -> ChildState]
  /\ uc \subseteq Pid
  /\ waiting \subseteq Pid
  /\ reader \in [Pid -> {"off", "read", "enough", "notify"}]
  /\ rtodo \in [Pid -> SUBSET Pid]
  /\ pc \in [Thread -> PcState]
  /\ todo \in [Thread -> SUBSET Pid]
  /\ held \in [Thread -> Pid \cup {NoPid}]
  /\ left \in [Thread -> 0..WorkerNum]
  /\ dead \in Pid \cup {NoPid}
  /\ reloads \in 0..MaxReloads
  /\ forkFails \in 0..MaxForkFails
  /\ losses \in 0..MaxLosses

MasterInit ==
  /\ children = [p \in Pid |-> "absent"]
  /\ uc = {}
  /\ waiting = {}
  /\ reader = [p \in Pid |-> "off"]
  /\ rtodo = [p \in Pid |-> {}]
  /\ pc = [t \in Thread |-> IF t = "main" THEN "fork" ELSE "idle"]
  /\ todo = [t \in Thread |-> {}]
  /\ held = [t \in Thread |-> NoPid]
  /\ left = [t \in Thread |-> IF t = "main" THEN WorkerNum ELSE 0]
  /\ dead = NoPid
  /\ reloads = 0
  /\ forkFails = 0
  /\ losses = 0

Keys == {p \in Pid : children[p] # "absent"}

\* run() starts the other goroutines after its last fork.
Started == pc["main"] = "idle"

\* aliveWorkers()
AliveWorkers == {p \in Pid : children[p] \in {"alive", "reload"}}

-----------------------------------------------------------------------------
(***************************************************************************)
(* fork(reason), called by main, by watchChildren and by reload.           *)
(***************************************************************************)
\* Mutant: reload forks with the reason of a replacement.
ForkReasonCrash(t) == IF t = "main" THEN "start" ELSE "crash"

ForkReason(t) ==
  CASE t = "main"          -> "start"
    [] t = "watchChildren" -> "crash"
    [] OTHER               -> "reload"

\* Mutant: no fallthrough, the crashed worker stays in the tables.
ForkReturnsNoFallthrough(t) ==
  /\ left' = [left EXCEPT ![t] = @ - 1]
  /\ pc' = [pc EXCEPT ![t] = IF left[t] > 1 THEN "fork" ELSE "idle"]

\* The caller's loop goes on, or ends after its last fork.  watchChildren
\* falls through to the deletion of the crashed worker.
ForkReturns(t) ==
  /\ left' = [left EXCEPT ![t] = @ - 1]
  /\ pc' = [pc EXCEPT ![t] = IF left[t] > 1 THEN "fork"
                             ELSE IF t = "watchChildren" THEN "delete"
                             ELSE "idle"]

\* Socketpair and ForkExec succeed: the process runs, the tables do not know it.
ForkExec(t, p) ==
  /\ pc[t] = "fork" /\ held[t] = NoPid
  /\ NextPid(p)
  /\ wk' = [wk EXCEPT ![p] = "boot"]
  /\ reason' = [reason EXCEPT ![p] = ForkReason(t)]
  /\ held' = [held EXCEPT ![t] = p]
  /\ UNCHANGED <<masterUp, takeover, quitMsg, tableVars, readerVars,
                 pc, todo, left, dead, boundVars>>

\* Mutant: children.Store(pid, reason), which marks a worker forked by a reload.
ForkStoreReason(t) ==
  /\ pc[t] = "fork" /\ held[t] # NoPid
  /\ children' = [children EXCEPT
       ![held[t]] = IF ForkReason(t) = "reload" THEN "reload" ELSE "alive"]
  /\ uc' = uc \cup {held[t]}
  /\ waiting' = waiting \cup {held[t]}
  /\ reader' = [reader EXCEPT ![held[t]] = "read"]
  /\ held' = [held EXCEPT ![t] = NoPid]
  /\ ForkReturns(t)
  /\ UNCHANGED <<procVars, rtodo, todo, dead, boundVars>>

\* The rest of fork: the stores into uc and children, and the start of
\* waitWorker and readMsg.
ForkStore(t) ==
  /\ pc[t] = "fork" /\ held[t] # NoPid
  /\ children' = [children EXCEPT ![held[t]] = "alive"]
  /\ uc' = uc \cup {held[t]}
  /\ waiting' = waiting \cup {held[t]}
  /\ reader' = [reader EXCEPT ![held[t]] = "read"]
  /\ held' = [held EXCEPT ![t] = NoPid]
  /\ ForkReturns(t)
  /\ UNCHANGED <<procVars, rtodo, todo, dead, boundVars>>

\* Socketpair or ForkExec fails: run() gives up with log.Fatal, the other
\* callers log the error and go on.
ForkFails(t) ==
  /\ forkFails < MaxForkFails
  /\ pc[t] = "fork" /\ held[t] = NoPid
  /\ forkFails' = forkFails + 1
  /\ IF t = "main"
       THEN masterUp' = FALSE /\ UNCHANGED <<pc, left>>
       ELSE ForkReturns(t) /\ UNCHANGED masterUp
  /\ UNCHANGED <<wk, reason, takeover, quitMsg, tableVars, readerVars,
                 todo, held, dead, reloads, losses>>

-----------------------------------------------------------------------------
(***************************************************************************)
(* waitWorker(pid): Wait returns the exit status of the child.             *)
(***************************************************************************)
\* Mutant: only a crash is recorded.
WaitWorkerCrashOnly(p) ==
  /\ p \in waiting
  /\ Exited(p)
  /\ children' = [children EXCEPT ![p] = IF wk[p] = "exit0" THEN @ ELSE "crash"]
  /\ waiting' = waiting \ {p}
  /\ UNCHANGED <<procVars, uc, readerVars, threadVars, boundVars>>

WaitWorker(p) ==
  /\ p \in waiting
  /\ Exited(p)
  /\ children' = [children EXCEPT ![p] = IF wk[p] = "exit0" THEN "quit" ELSE "crash"]
  /\ waiting' = waiting \ {p}
  /\ UNCHANGED <<procVars, uc, readerVars, threadVars, boundVars>>

(***************************************************************************)
(* watchChildren: each tick Ranges over all children.  Visits that find a  *)
(* worker alive or reloading do nothing, so a step is a visit that finds a *)
(* dead one: it forks a replacement for a crash, then deletes the entry.   *)
(***************************************************************************)
\* Mutant: a crash is dropped like an orderly end.
VisitDeadNoFork(p) ==
  /\ Started
  /\ pc["watchChildren"] = "idle"
  /\ children[p] \in {"crash", "quit"}
  /\ dead' = p
  /\ pc' = [pc EXCEPT !["watchChildren"] = "delete"]
  /\ UNCHANGED <<procVars, tableVars, readerVars, todo, held, left, boundVars>>

\* Mutant: case workerReload falls through to the deletion too.
VisitReload(p) ==
  /\ Started
  /\ pc["watchChildren"] = "idle"
  /\ children[p] \in {"crash", "quit", "reload"}
  /\ dead' = p
  /\ pc' = [pc EXCEPT !["watchChildren"] = "delete"]
  /\ UNCHANGED <<procVars, tableVars, readerVars, todo, held, left, boundVars>>

VisitDead(p) ==
  /\ Started
  /\ pc["watchChildren"] = "idle"
  /\ children[p] \in {"crash", "quit"}
  /\ dead' = p
  /\ IF children[p] = "crash"
       THEN /\ pc' = [pc EXCEPT !["watchChildren"] = "fork"]
            /\ left' = [left EXCEPT !["watchChildren"] = 1]
       ELSE /\ pc' = [pc EXCEPT !["watchChildren"] = "delete"]
            /\ UNCHANGED left
  /\ UNCHANGED <<procVars, tableVars, readerVars, todo, held, boundVars>>

DeleteDead ==
  /\ pc["watchChildren"] = "delete"
  /\ children' = [children EXCEPT ![dead] = "absent"]
  /\ uc' = uc \ {dead}
  /\ dead' = NoPid
  /\ pc' = [pc EXCEPT !["watchChildren"] = "idle"]
  /\ UNCHANGED <<procVars, waiting, readerVars, todo, held, left, boundVars>>

-----------------------------------------------------------------------------
(***************************************************************************)
(* The visit of a Range in notifyWorker(quit, states): a message to every  *)
(* worker in one of the states whose connection is in uc.                  *)
(***************************************************************************)
\* Mutant: the state of the worker is not compared.
NotifyAnyWorker(q, states) == IF q \in uc THEN SendQuit(q) ELSE UNCHANGED quitMsg

NotifyWorker(q, states) ==
  IF children[q] \in states /\ q \in uc THEN SendQuit(q) ELSE UNCHANGED quitMsg

(***************************************************************************)
(* readMsg(pid): a takeover counts the workers and, if they are enough,    *)
(* tells every worker in state reload to quit.  During the count a worker  *)
(* is only taken off, so it finds a number that was right at one moment.   *)
(***************************************************************************)
ReadTakeover(p) ==
  /\ reader[p] = "read"
  /\ takeover[p] = "sent"
  /\ takeover' = [takeover EXCEPT ![p] = "read"]
  /\ IF Cardinality(AliveWorkers) >= WorkerNum
       THEN reader' = [reader EXCEPT ![p] = "enough"]
       ELSE UNCHANGED reader
  /\ UNCHANGED <<masterUp, wk, reason, quitMsg, tableVars, rtodo,
                 threadVars, boundVars>>

\* The takeover is read in one recvmsg behind a statistics message: readMsg
\* decodes the first message of its buffer and drops the rest.
LoseTakeover(p) ==
  /\ losses < MaxLosses
  /\ reader[p] = "read"
  /\ takeover[p] = "sent"
  /\ takeover' = [takeover EXCEPT ![p] = "read"]
  /\ losses' = losses + 1
  /\ UNCHANGED <<masterUp, wk, reason, quitMsg, tableVars, readerVars, threadVars,
                 reloads, forkFails>>

\* notifyWorker starts its Range.
NotifyStart(p) ==
  /\ reader[p] = "enough"
  /\ rtodo' = [rtodo EXCEPT ![p] = Keys]
  /\ reader' = [reader EXCEPT ![p] = IF Keys = {} THEN "read" ELSE "notify"]
  /\ UNCHANGED <<procVars, tableVars, threadVars, boundVars>>

\* Mutant: a takeover retires the workers in state alive as well.
NotifyAlive(p, q) ==
  /\ reader[p] = "notify"
  /\ q \in rtodo[p]
  /\ NotifyWorker(q, {"alive", "reload"})
  /\ rtodo' = [rtodo EXCEPT ![p] = @ \ {q}]
  /\ reader' = [reader EXCEPT ![p] = IF rtodo[p] = {q} THEN "read" ELSE @]
  /\ UNCHANGED <<masterUp, wk, reason, takeover, tableVars, threadVars, boundVars>>

NotifyReload(p, q) ==
  /\ reader[p] = "notify"
  /\ q \in rtodo[p]
  /\ NotifyWorker(q, {"reload"})
  /\ rtodo' = [rtodo EXCEPT ![p] = @ \ {q}]
  /\ reader' = [reader EXCEPT ![p] = IF rtodo[p] = {q} THEN "read" ELSE @]
  /\ UNCHANGED <<masterUp, wk, reason, takeover, tableVars, threadVars, boundVars>>

-----------------------------------------------------------------------------
(***************************************************************************)
(* reload(), on SIGHUP or on an event of a watched target.  First a Range  *)
(* that loads each state and stores reload if it was alive: the load and   *)
(* the store are two steps.  Then WorkerNum forks.                         *)
(***************************************************************************)

\* Nothing is under way: no reload, no fork, no message, no unseen death.
Settled ==
  /\ masterUp /\ Started
  /\ \A t \in Thread : pc[t] = "idle"
  /\ \A p \in Pid :
       /\ wk[p] \notin {"boot", "starting"}
       /\ takeover[p] # "sent" /\ reader[p] \in {"off", "read"}
       /\ Told(p) => Exited(p)
       /\ p \in waiting => ~Exited(p)
       /\ children[p] \notin {"quit", "crash"}

Reload(t) ==
  /\ Started
  /\ pc[t] = "idle"
  /\ reloads < MaxReloads
  /\ SpacedReloads => Settled
  /\ reloads' = reloads + 1
  /\ pc' = [pc EXCEPT ![t] = "mark"]
  /\ todo' = [todo EXCEPT ![t] = Keys]
  /\ left' = [left EXCEPT ![t] = WorkerNum]
  /\ UNCHANGED <<procVars, tableVars, readerVars, held, dead, forkFails, losses>>

\* Mutant: the test of the state is inverted.
ReloadLoadInverted(t, p) ==
  /\ pc[t] = "mark" /\ held[t] = NoPid
  /\ p \in todo[t]
  /\ todo' = [todo EXCEPT ![t] = @ \ {p}]
  /\ held' = [held EXCEPT ![t] = IF children[p] # "alive" THEN p ELSE NoPid]
  /\ UNCHANGED <<procVars, tableVars, readerVars, pc, left, dead, boundVars>>

ReloadLoad(t, p) ==
  /\ pc[t] = "mark" /\ held[t] = NoPid
  /\ p \in todo[t]
  /\ todo' = [todo EXCEPT ![t] = @ \ {p}]
  /\ held' = [held EXCEPT ![t] = IF children[p] = "alive" THEN p ELSE NoPid]
  /\ UNCHANGED <<procVars, tableVars, readerVars, pc, left, dead, boundVars>>

ReloadStore(t) ==
  /\ pc[t] = "mark" /\ held[t] # NoPid
  /\ children' = [children EXCEPT ![held[t]] = "reload"]
  /\ held' = [held EXCEPT ![t] = NoPid]
  /\ UNCHANGED <<procVars, uc, waiting, readerVars, pc, todo, left, dead, boundVars>>

ReloadMarked(t) ==
  /\ pc[t] = "mark" /\ held[t] = NoPid
  /\ todo[t] = {}
  /\ pc' = [pc EXCEPT ![t] = "fork"]
  /\ UNCHANGED <<procVars, tableVars, readerVars, todo, held, left, dead, boundVars>>

-----------------------------------------------------------------------------
(***************************************************************************)
(* watchSignal stops the master: graceful() on SIGINT and SIGQUIT, rough() *)
(* on SIGTERM.  A signal that arrives while watchSignal is busy is lost:   *)
(* its channel has no buffer.                                              *)
(***************************************************************************)
StopSignalRead(sig, to) ==
  /\ sig \in StopSignal
  /\ Started
  /\ pc["watchSignal"] = "idle"
  /\ pc' = [pc EXCEPT !["watchSignal"] = to]
  /\ todo' = [todo EXCEPT !["watchSignal"] = Keys]
  /\ UNCHANGED <<procVars, tableVars, readerVars, held, left, dead, boundVars>>

Graceful == StopSignalRead("quit", "quitAll")
Rough    == StopSignalRead("term", "killAll")

GracefulNotify(q) ==
  /\ pc["watchSignal"] = "quitAll"
  /\ q \in todo["watchSignal"]
  /\ NotifyWorker(q, {"alive", "reload"})
  /\ todo' = [todo EXCEPT !["watchSignal"] = @ \ {q}]
  /\ UNCHANGED <<masterUp, wk, reason, takeover, tableVars, readerVars,
                 pc, held, left, dead, boundVars>>

RoughKill(q) ==
  /\ pc["watchSignal"] = "killAll"
  /\ q \in todo["watchSignal"]
  /\ IF children[q] \in {"alive", "reload"} /\ Running(q)
       THEN wk' = [wk EXCEPT ![q] = "exitN"]
       ELSE UNCHANGED wk
  /\ todo' = [todo EXCEPT !["watchSignal"] = @ \ {q}]
  /\ UNCHANGED <<masterUp, reason, takeover, quitMsg, tableVars, readerVars,
                 pc, held, left, dead, boundVars>>

\* The Range is over and the two seconds of graceful have passed: the pid
\* file is removed and the process exits, which closes its sockets.
MasterExit ==
  /\ pc["watchSignal"] \in {"quitAll", "killAll"}
  /\ todo["watchSignal"] = {}
  /\ masterUp' = FALSE
  /\ UNCHANGED <<wk, reason, takeover, quitMsg, masterVars>>

\* The master is killed or panics.
MasterKilled ==
  /\ "kill" \in StopSignal
  /\ masterUp' = FALSE
  /\ UNCHANGED <<wk, reason, takeover, quitMsg, masterVars>>

-----------------------------------------------------------------------------
ThreadStep(t) ==
  /\ masterUp
  /\ \/ \E p \in Pid : ForkExec(t, p)
     \/ ForkStore(t)
     \/ \E p \in Pid : ReloadLoad(t, p)
     \/ ReloadStore(t)
     \/ ReloadMarked(t)

WatchChildrenStep == masterUp /\ ((\E p \in Pid : VisitDead(p)) \/ DeleteDead)

ReaderStep(p) ==
  masterUp /\ (ReadTakeover(p) \/ NotifyStart(p) \/ \E q \in Pid : NotifyReload(p, q))

StopStep ==
  masterUp /\ (MasterExit \/ \E q \in Pid : GracefulNotify(q) \/ RoughKill(q))

\* What the environment does to the master.
MasterEnvironment ==
  /\ masterUp
  /\ \/ \E t \in Thread : ForkFails(t)
     \/ \E t \in Reloader : Reload(t)
     \/ \E p \in Pid : LoseTakeover(p)
     \/ Graceful
     \/ Rough
     \/ MasterKilled

MasterStep ==
  \/ \E t \in Thread : ThreadStep(t)
  \/ WatchChildrenStep
  \/ \E p \in Pid : masterUp /\ WaitWorker(p)
  \/ \E p \in Pid : ReaderStep(p)
  \/ StopStep
=============================================================================

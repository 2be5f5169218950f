------------------------------- MODULE WoxPid -------------------------------
(***************************************************************************)
(* The pid file of the master (master.go savePID, removePID; worker.go     *)
(* watchMaster).  It has two uses: it keeps a second master from starting, *)
(* and it tells a worker which parent to expect, so that a worker whose    *)
(* master is gone ends, whoever has started a new master meanwhile.        *)
(*                                                                         *)
(* A master that creates the file is the only one that writes to it, so    *)
(* the file is named by its creator: file is the creator of what the path  *)
(* leads to, and a worker that has opened it keeps it when it is removed.  *)
(***************************************************************************)
EXTENDS Naturals

CONSTANTS
  Master,     \* the master processes that may be started, each with its pid
  Worker,     \* the worker processes they may fork
  NoMaster,   \* no master: there is no file, or a process has no parent left
  MaxKills    \* bound: masters that end without removing the file

ASSUME PidFileAssumption == NoMaster \notin Master /\ MaxKills \in Nat

VARIABLES
  mst,      \* each master: "unused", "start", "saving" the file, "up",
            \* "stopping", "removed" the file, "gone"
  file,     \* the creator of the file at pidPath, or NoMaster
  written,  \* the masters that have written their pid into their file
  ws,       \* each worker: "unused", "boot", "opened" the file, "watching" its
            \* parent, "ended" or "orphan": ended by watchMaster
  parent,   \* who forked the worker
  fd,       \* the file the worker has opened
  kills

vars == <<mst, file, written, ws, parent, fd, kills>>
masterVars == <<mst, file, written, kills>>
workerVars == <<ws, parent, fd>>

TypeOK ==
  /\ mst \in [Master -> {"unused", "start", "saving", "up", "stopping", "removed", "gone"}]
  /\ file \in Master \cup {NoMaster}
  /\ written \subseteq Master
  /\ ws \in [Worker -> {"unused", "boot", "opened", "watching", "ended", "orphan"}]
  /\ parent \in [Worker -> Master \cup {NoMaster}]
  /\ fd \in [Worker -> Master \cup {NoMaster}]
  /\ kills \in 0..MaxKills

Init ==
  /\ mst = [m \in Master |-> "unused"]
  /\ file = NoMaster
  /\ written = {}
  /\ ws = [w \in Worker |-> "unused"]
  /\ parent = [w \in Worker |-> NoMaster]
  /\ fd = [w \in Worker |-> NoMaster]
  /\ kills = 0

Exists(m) == mst[m] \notin {"unused", "gone"}

\* The master that holds the pid file.
Holds(m) == mst[m] \in {"saving", "up", "stopping"}

Move(m, from, to) == mst[m] = from /\ mst' = [mst EXCEPT ![m] = to]

-----------------------------------------------------------------------------
Start(m) == Move(m, "unused", "start") /\ UNCHANGED <<file, written, kills, workerVars>>

\* Mutant: without O_EXCL the file of another master is taken over.
SaveCreateOver(m) ==
  /\ Move(m, "start", "saving")
  /\ file' = m
  /\ UNCHANGED <<written, kills, workerVars>>

\* savePID opens the file with O_CREATE and O_EXCL.
SaveCreate(m) ==
  /\ file = NoMaster
  /\ Move(m, "start", "saving")
  /\ file' = m
  /\ UNCHANGED <<written, kills, workerVars>>

\* The file exists: log.Fatal.
SaveFails(m) ==
  /\ file # NoMaster
  /\ Move(m, "start", "gone")
  /\ UNCHANGED <<file, written, kills, workerVars>>

\* savePID writes the pid; run goes on to its forks.
SaveWrite(m) ==
  /\ Move(m, "saving", "up")
  /\ written' = written \cup {m}
  /\ UNCHANGED <<file, kills, workerVars>>

\* Mutant: run forks before savePID has written the pid.
ForkWorkerEarly(m, w) ==
  /\ mst[m] \in {"saving", "up", "stopping", "removed"}
  /\ ws[w] = "unused"
  /\ ws' = [ws EXCEPT ![w] = "boot"]
  /\ parent' = [parent EXCEPT ![w] = m]
  /\ UNCHANGED <<masterVars, fd>>

\* A fork of any reason.  watchChildren forks while graceful sleeps, too.
ForkWorker(m, w) ==
  /\ mst[m] \in {"up", "stopping", "removed"}
  /\ ws[w] = "unused"
  /\ ws' = [ws EXCEPT ![w] = "boot"]
  /\ parent' = [parent EXCEPT ![w] = m]
  /\ UNCHANGED <<masterVars, fd>>

\* graceful and rough up to removePID.
Stop(m) == Move(m, "up", "stopping") /\ UNCHANGED <<file, written, kills, workerVars>>

\* Mutant: the master exits and leaves the file.
RemoveNothing(m) ==
  Move(m, "stopping", "removed") /\ UNCHANGED <<file, written, kills, workerVars>>

\* removePID removes what is at the path, whosever it is.
Remove(m) ==
  /\ Move(m, "stopping", "removed")
  /\ file' = NoMaster
  /\ UNCHANGED <<written, kills, workerVars>>

Exit(m) == Move(m, "removed", "gone") /\ UNCHANGED <<file, written, kills, workerVars>>

\* The master is killed, panics, or ends by log.Fatal (a fork of run, a watch,
\* or the status server fails): the file stays.
Killed(m) ==
  /\ kills < MaxKills
  /\ Holds(m)
  /\ mst' = [mst EXCEPT ![m] = "gone"]
  /\ kills' = kills + 1
  /\ UNCHANGED <<file, written, workerVars>>

\* Somebody removes by hand the file a killed master has left.
CleanUp ==
  /\ file # NoMaster /\ mst[file] = "gone"
  /\ file' = NoMaster
  /\ UNCHANGED <<mst, written, kills, workerVars>>

-----------------------------------------------------------------------------
\* watchMaster opens the file; log.Fatal when there is none.
WatchOpen(w) ==
  /\ ws[w] = "boot"
  /\ fd' = [fd EXCEPT ![w] = file]
  /\ ws' = [ws EXCEPT ![w] = IF file = NoMaster THEN "orphan" ELSE "opened"]
  /\ UNCHANGED <<masterVars, parent>>

\* watchMaster reads the pid; log.Fatal when it is not there yet.
WatchRead(w) ==
  /\ ws[w] = "opened"
  /\ ws' = [ws EXCEPT ![w] = IF fd[w] \in written THEN "watching" ELSE "orphan"]
  /\ UNCHANGED <<masterVars, parent, fd>>

\* os.Getppid(): init adopts the children of a process that is gone.
Getppid(w) == IF Exists(parent[w]) THEN parent[w] ELSE NoMaster

\* Mutant: the file is only looked at again when the parent has changed, and
\* a new master's file passes.
WatchTickFile(w) ==
  /\ ws[w] = "watching"
  /\ Getppid(w) # fd[w] /\ file = NoMaster
  /\ ws' = [ws EXCEPT ![w] = "orphan"]
  /\ UNCHANGED <<masterVars, parent, fd>>

\* The tick of watchMaster that finds another parent: os.Exit(1).
WatchTick(w) ==
  /\ ws[w] = "watching"
  /\ Getppid(w) # fd[w]
  /\ ws' = [ws EXCEPT ![w] = "orphan"]
  /\ UNCHANGED <<masterVars, parent, fd>>

\* The worker ends otherwise: it was told to quit, it was killed, it crashed.
EndOtherwise(w) ==
  /\ ws[w] \in {"boot", "opened", "watching"}
  /\ ws' = [ws EXCEPT ![w] = "ended"]
  /\ UNCHANGED <<masterVars, parent, fd>>

-----------------------------------------------------------------------------
MasterNext(m) ==
  \/ Start(m) \/ SaveCreate(m) \/ SaveFails(m) \/ SaveWrite(m)
  \/ Stop(m) \/ Remove(m) \/ Exit(m) \/ Killed(m)
  \/ \E w \in Worker : ForkWorker(m, w)

WatchMaster(w) == WatchOpen(w) \/ WatchRead(w) \/ WatchTick(w)

Next ==
  \/ \E m \in Master : MasterNext(m)
  \/ CleanUp
  \/ \E w \in Worker : WatchMaster(w) \/ EndOtherwise(w)

Spec == Init /\ [][Next]_vars

\* The goroutine watchMaster of every worker gets to run.
FairSpec == Spec /\ \A w \in Worker : WF_vars(WatchMaster(w))
-----------------------------------------------------------------------------
\* Two masters never hold the pid file at the same time: a master only starts
\* its workers when no other serves under the same path.
OneMaster == \A m, n \in Master : Holds(m) /\ Holds(n) => m = n

\* From its first fork until it removes it, a master's file is there and names
\* it: no start, stop or clean-up of another master takes it away.
OwnFile == \A m \in Master : mst[m] \in {"up", "stopping"} => file = m /\ m \in written

\* watchMaster never ends a worker whose master has not yet stopped, however
\* slowly the worker boots and whoever starts or stops around it.
NoFratricide ==
  [][\A w \in Worker : ws[w] # "orphan" /\ ws'[w] = "orphan" => ~Holds(parent[w])]_vars

\* As long as no master is killed, a file at the path is a running master's:
\* a stopped server can be started again.
CleanStop == kills = 0 /\ file # NoMaster => Holds(file)

\* A worker whose master is gone ends, although a new master may have put its
\* own file in the place.
OrphansEnd ==
  \A w \in Worker : (ws[w] # "unused" /\ ~Exists(parent[w])) ~> ws[w] \in {"ended", "orphan"}

-----------------------------------------------------------------------------
(***************************************************************************)
(* The inductive invariant behind OneMaster, OwnFile, CleanStop and        *)
(* NoFratricide.                                                           *)
(***************************************************************************)

\* A master that holds the file created it.
HoldsFile == \A m \in Master : Holds(m) => file = m

\* A worker's parent has written its pid before it forks.
ParentInv ==
  \A w \in Worker : ws[w] # "unused" =>
    /\ parent[w] \in Master
    /\ mst[parent[w]] \in {"up", "stopping", "removed", "gone"}

\* What a worker opened while its master held the file is its master's.
OpenInv ==
  \A w \in Worker : ws[w] \in {"opened", "watching"} /\ Holds(parent[w]) => fd[w] = parent[w]

FileInv == HoldsFile /\ OwnFile /\ ParentInv /\ OpenInv /\ CleanStop

IInv == TypeOK /\ FileInv
=============================================================================

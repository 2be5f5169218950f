------------------------------ MODULE WoxConf -------------------------------
(***************************************************************************)
(* The configuration (server.go NewServer, confcenter): every process of   *)
(* the server, the master and each worker, fetches the configuration from  *)
(* etcd when it boots, saves it to one file on the host (Resolver.Save)    *)
(* and reads the file back (NewConf).  Nothing keeps two processes from    *)
(* doing so at the same time.  The master watches the key and reloads on   *)
(* every change; the reload is that of WoxMaster, in coarser steps.  The   *)
(* boot of any process may fail, forks may fail and takeovers be lost; a   *)
(* worker that has come to serve does not crash here, as it may in Wox.    *)
(*                                                                         *)
(* A configuration is a sequence of parts of one version; a file is what   *)
(* was written over what.  One Write and one ReadFile are atomic: the file *)
(* fits in a page.                                                         *)
(***************************************************************************)
EXTENDS Integers, Sequences, FiniteSets

CONSTANTS
  MaxPid,        \* bound: workers forked in a behaviour; they are 1..MaxPid
  WorkerNumOpt,  \* the workerNum of the configuration; 0 is unset
  NumCPU,
  Size,          \* the number of parts of each version of the configuration
  SpacedChanges, \* the configuration changes when the server has settled
  MaxChanges,    \* bound: changes of the key
  MaxForkFails,  \* bound: forks that fail
  MaxLosses      \* bound: takeovers that are lost

\* The workerNum of NewServer: DefaultWorkerNum, or no more than there are CPUs.
WorkerNum ==
  IF WorkerNumOpt = 0 THEN 2 ELSE IF WorkerNumOpt > NumCPU THEN NumCPU ELSE WorkerNumOpt

Master == 0
Worker == 1..MaxPid
Proc == {Master} \cup Worker

NoConf == 0    \* the key is absent, or empty
Version == 1..Len(Size)

ASSUME ConfAssumption ==
  /\ MaxPid \in Nat /\ NumCPU \in Nat \ {0} /\ WorkerNumOpt \in Nat /\ MaxChanges \in Nat
  /\ MaxForkFails \in Nat /\ MaxLosses \in Nat
  /\ Size \in Seq(Nat \ {0}) /\ Len(Size) > 0
  /\ SpacedChanges \in BOOLEAN

VARIABLES
  etcd,      \* the version under confKey, or NoConf
  file,      \* the file at confPath
  st,        \* each process: "unused", "get", "open", "write", "read",
             \* "serving", "dead" (status not 0) or "gone" (status 0)
  got,       \* the version a process has fetched
  conf,      \* what it has read
  table,     \* children of the master: "absent", "alive" or "reload"; a dead
             \* worker's entry says crash as soon as it is dead
  reason,    \* REASON of each worker
  announced, \* the workers whose takeover the master has handled
  lost,      \* those whose takeover it has dropped
  told,      \* the workers that were told to quit
  left, why, \* forks left in the master's loop, and their reason
  watched,   \* watchTarget has its watch
  pending,   \* an event of the watch is not handled yet
  changes, forkFails

confVars == <<file, got, conf>>
tableVars == <<table, reason, announced, lost, told>>
loopVars == <<left, why, watched, pending>>
envVars == <<etcd, changes>>
vars == <<envVars, confVars, st, tableVars, loopVars, forkFails>>

TypeOK ==
  /\ etcd \in Version \cup {NoConf}
  /\ file \in Seq(Version)
  /\ st \in [Proc -> {"unused", "get", "open", "write", "read", "serving", "dead", "gone"}]
  /\ got \in [Proc -> Version \cup {NoConf}]
  /\ conf \in [Proc -> Seq(Version)]
  /\ table \in [Proc -> {"absent", "alive", "reload"}]
  /\ reason \in [Proc -> {"start", "reload", "crash"}]
  /\ announced \subseteq Worker /\ lost \subseteq Worker /\ told \subseteq Worker
  /\ left \in 0..WorkerNum /\ why \in {"start", "reload"}
  /\ watched \in BOOLEAN /\ pending \in BOOLEAN
  /\ changes \in 0..MaxChanges /\ forkFails \in 0..MaxForkFails

Init ==
  /\ etcd = 1 /\ changes = 0 /\ forkFails = 0
  /\ file = << >>
  /\ st = [p \in Proc |-> IF p = Master THEN "get" ELSE "unused"]
  /\ got = [p \in Proc |-> NoConf]
  /\ conf = [p \in Proc |-> << >>]
  /\ table = [p \in Proc |-> "absent"]
  /\ reason = [p \in Proc |-> "start"]
  /\ announced = {} /\ lost = {} /\ told = {}
  /\ left = WorkerNum /\ why = "start"
  /\ watched = FALSE /\ pending = FALSE

Whole(v) == [i \in 1..Size[v] |-> v]

-----------------------------------------------------------------------------
Goes(p, from, to) == st[p] = from /\ st' = [st EXCEPT ![p] = to]

\* A step of a boot fails, and NewServer ends the process by log.Fatal.
Fails(p, at) ==
  /\ Goes(p, at, "dead")
  /\ UNCHANGED <<envVars, confVars, tableVars, loopVars, forkFails>>

\* Mutant: only the master saves the configuration.
GetMaster(p) ==
  \/ /\ etcd # NoConf /\ Goes(p, "get", IF p = Master THEN "open" ELSE "read")
     /\ got' = [got EXCEPT ![p] = etcd]
     /\ UNCHANGED <<envVars, file, conf, tableVars, loopVars, forkFails>>
  \/ Fails(p, "get")

\* Save fetches the key.  It fails without a value, and may fail because etcd
\* does not answer in time or the value is no YAML.
Get(p) ==
  \/ /\ etcd # NoConf /\ Goes(p, "get", "open")
     /\ got' = [got EXCEPT ![p] = etcd]
     /\ UNCHANGED <<envVars, file, conf, tableVars, loopVars, forkFails>>
  \/ Fails(p, "get")

\* Mutant: no O_TRUNC.
OpenKeeps(p) ==
  /\ Goes(p, "open", "write")
  /\ UNCHANGED <<envVars, confVars, tableVars, loopVars, forkFails>>

\* Save opens the file with O_TRUNC, or cannot open it.
Open(p) ==
  \/ /\ Goes(p, "open", "write")
     /\ file' = << >>
     /\ UNCHANGED <<envVars, got, conf, tableVars, loopVars, forkFails>>
  \/ Fails(p, "open")

\* Save writes from the start of the file, over what another process may have
\* written since.
Write(p) ==
  /\ Goes(p, "write", "read")
  /\ file' = Whole(got[p]) \o SubSeq(file, Size[got[p]] + 1, Len(file))
  /\ UNCHANGED <<envVars, got, conf, tableVars, loopVars, forkFails>>

\* NewConf reads the file.  An empty one is a configuration without an
\* address, and GetLocalAddr panics; one with parts of several versions may or
\* may not be a configuration.
ReadConf(p) ==
  /\ conf' = [conf EXCEPT ![p] = file]
  /\ \/ file # << >> /\ Goes(p, "read", "serving")
     \/ (\A v \in Version : file # Whole(v)) /\ Goes(p, "read", "dead")
  /\ UNCHANGED <<envVars, file, got, tableVars, loopVars, forkFails>>

-----------------------------------------------------------------------------
MasterUp == st[Master] = "serving"
MasterDies == st' = [st EXCEPT ![Master] = "dead"]

\* run starts its goroutines after its forks.
Started == left = 0 \/ why = "reload"

Dropped(drop) == [p \in Proc |-> IF p \in drop THEN "absent" ELSE table[p]]

\* fork(r) succeeds: the next pid boots.
ForkAs(r, drop) ==
  \E q \in Worker :
    /\ st[q] = "unused" /\ \A s \in Worker : s < q => st[s] # "unused"
    /\ st' = [st EXCEPT ![q] = "get"]
    /\ reason' = [reason EXCEPT ![q] = r]
    /\ table' = [Dropped(drop) EXCEPT ![q] = "alive"]
    /\ UNCHANGED <<envVars, confVars, announced, lost, told, forkFails>>

\* fork fails, in Socketpair or in ForkExec: there is no process and no entry.
ForkFails(drop) ==
  /\ forkFails < MaxForkFails
  /\ forkFails' = forkFails + 1
  /\ table' = Dropped(drop)
  /\ UNCHANGED <<envVars, confVars, reason, announced, lost, told>>

\* An iteration of the loop of forks, in run or in reload.  When the fork fails
\* run gives up by log.Fatal, while reload logs that and goes on.
Fork ==
  /\ MasterUp /\ left > 0
  /\ \/ ForkAs(why, {}) /\ left' = left - 1
     \/ ForkFails({}) /\ why = "reload" /\ left' = left - 1 /\ UNCHANGED st
     \/ ForkFails({}) /\ why = "start" /\ MasterDies /\ UNCHANGED left
  /\ UNCHANGED <<why, watched, pending>>

\* watchChildren replaces a worker that ended with another status than 0.  When
\* the fork fails it logs that, and drops the dead worker all the same.
Replace(p) ==
  /\ MasterUp /\ Started
  /\ st[p] = "dead" /\ table[p] # "absent"
  /\ \/ ForkAs("crash", {p})
     \/ ForkFails({p}) /\ UNCHANGED st
  /\ UNCHANGED loopVars

\* watchTarget gets its watch, or gives up after two seconds by log.Fatal.
Watch ==
  /\ MasterUp /\ Started
  /\ ~watched
  /\ \/ watched' = TRUE /\ UNCHANGED st
     \/ MasterDies /\ UNCHANGED watched
  /\ UNCHANGED <<envVars, confVars, tableVars, left, why, pending, forkFails>>

\* An event of the watch, whatever it says: reload marks the workers alive.
Reload ==
  /\ MasterUp /\ pending /\ left = 0
  /\ pending' = FALSE
  /\ table' = [p \in Proc |-> IF table[p] = "alive" /\ st[p] # "dead" THEN "reload" ELSE table[p]]
  /\ left' = WorkerNum /\ why' = "reload"
  /\ UNCHANGED <<envVars, confVars, st, reason, announced, lost, told, watched, forkFails>>

\* The worker of a reload writes its takeover when it comes to serve; the
\* master has not read it yet.
TakeoverSent(p) == st[p] = "serving" /\ reason[p] = "reload" /\ p \notin announced \cup lost

\* Mutant: aliveWorkers leaves out the workers in state reload.
AnnounceAlive(p) ==
  /\ TakeoverSent(p)
  /\ announced' = announced \cup {p}
  /\ told' = IF Cardinality({q \in Worker : table[q] = "alive" /\ st[q] # "dead"}) >= WorkerNum
               THEN told \cup {q \in Worker : table[q] = "reload"}
               ELSE told
  /\ UNCHANGED <<envVars, confVars, st, table, reason, lost, loopVars, forkFails>>

\* Mutant: the workers to retire are not only those in state reload.
AnnounceAll(p) ==
  /\ TakeoverSent(p)
  /\ announced' = announced \cup {p}
  /\ told' = IF Cardinality({q \in Worker : table[q] # "absent" /\ st[q] # "dead"}) >= WorkerNum
               THEN told \cup {q \in Worker \ {p} : table[q] # "absent"}
               ELSE told
  /\ UNCHANGED <<envVars, confVars, st, table, reason, lost, loopVars, forkFails>>

\* The master reads a takeover, counts, and tells those in state reload to quit
\* if all in all there are enough.  In Wox these are several steps.
Announce(p) ==
  /\ TakeoverSent(p)
  /\ announced' = announced \cup {p}
  /\ told' = IF Cardinality({q \in Worker : table[q] # "absent" /\ st[q] # "dead"}) >= WorkerNum
               THEN told \cup {q \in Worker : table[q] = "reload"}
               ELSE told
  /\ UNCHANGED <<envVars, confVars, st, table, reason, lost, loopVars, forkFails>>

\* The takeover is received behind a statistics message and dropped with the
\* rest of the buffer.
LoseTakeover(p) ==
  /\ TakeoverSent(p)
  /\ Cardinality(lost) < MaxLosses
  /\ lost' = lost \cup {p}
  /\ UNCHANGED <<envVars, confVars, st, table, reason, announced, told, loopVars, forkFails>>

\* A worker that was told to quit ends, and leaves the table.
Quit(p) ==
  /\ p \in told
  /\ Goes(p, "serving", "gone")
  /\ table' = [table EXCEPT ![p] = "absent"]
  /\ UNCHANGED <<envVars, confVars, reason, announced, lost, told, loopVars, forkFails>>

-----------------------------------------------------------------------------
Settled ==
  /\ MasterUp /\ watched /\ left = 0 /\ ~pending
  /\ \A p \in Worker :
       /\ st[p] \in {"unused", "serving", "dead", "gone"}
       /\ st[p] = "dead" => table[p] = "absent"
       /\ st[p] = "serving" => p \notin told
       /\ ~TakeoverSent(p)

\* Somebody changes or deletes the key.  Before the watch is there, nobody
\* learns of it.
Change(v) ==
  /\ changes < MaxChanges
  /\ v # etcd
  /\ SpacedChanges => Settled \/ etcd = NoConf
  /\ etcd' = v
  /\ changes' = changes + 1
  /\ pending' = (pending \/ watched)
  /\ UNCHANGED <<confVars, st, tableVars, left, why, watched, forkFails>>

Boot(p) == Get(p) \/ Open(p) \/ Write(p) \/ ReadConf(p)

Next ==
  \/ \E p \in Proc : Boot(p)
  \/ Fork \/ Watch \/ Reload
  \/ \E p \in Worker : Replace(p) \/ Announce(p) \/ LoseTakeover(p) \/ Quit(p)
  \/ \E v \in Version \cup {NoConf} : Change(v)

Spec == Init /\ [][Next]_vars
-----------------------------------------------------------------------------
\* With changes one at a time, no process ever serves a configuration put
\* together from two versions, although all processes of a reload write the
\* file at the same time.
ServesWhole ==
  \A p \in Proc : st[p] = "serving" => \E v \in Version : conf[p] = Whole(v)

\* Once the server has settled, every worker the master counts on serves what
\* is in etcd, however many died while booting; and there are enough of them,
\* but for one for each fork that failed since the start.
Fresh ==
  Settled /\ etcd # NoConf =>
    /\ Cardinality({p \in Worker : table[p] = "alive"}) + forkFails >= WorkerNum
    /\ \A p \in Worker : table[p] = "alive" => st[p] = "serving" /\ conf[p] = Whole(etcd)

\* Once the server has settled, no worker serves an older configuration, those
\* superseded included, if the takeover of one worker of the reload got through:
\* whatever the others died of or lost, and although a fork may have failed.
NoStale ==
  Settled /\ etcd # NoConf /\ forkFails <= 1 /\ (\E p \in announced : table[p] = "alive") =>
    \A p \in Worker : st[p] = "serving" => conf[p] = Whole(etcd)

\* The coarser master keeps the promise of WorkerPool as the one of Wox does.
\* A worker writes its takeover when it comes to serve, before the master
\* handles it.
PoolStatus(p) ==
  IF st[p] = "unused" THEN "none"
  ELSE IF st[p] \in {"dead", "gone"} THEN "gone"
  ELSE IF p \in told THEN "told"
  ELSE IF table[p] = "reload" THEN "superseded"
  ELSE "active"

Pool == INSTANCE WorkerPool WITH
  Pid       <- Worker,
  status    <- [p \in Worker |-> PoolStatus(p)],
  announced <- {p \in Worker : reason[p] = "reload" /\ st[p] \in {"serving", "gone"}},
  stopping  <- FALSE

\* However a reload and the boots of its workers interleave, no worker is told
\* to quit that a reload has not superseded, and none before a worker of a
\* reload serves with the configuration it has read.
ImplementsPool == Pool!PoolSpec
=============================================================================

--------------------------- MODULE WoxConfProofs ----------------------------
(***************************************************************************)
(* Proofs about WoxConf, for any number of workers, versions and changes.  *)
(* ServesWhole and Fresh rest on four facts: a process that boots holds    *)
(* the version in etcd (BootInv), what is in the file while processes      *)
(* write and read it is nothing or that version (FileInv), an alive worker *)
(* that serves is fresh unless the master has an event to handle           *)
(* (FreshInv), and the alive workers, the forks to come and those that     *)
(* failed are enough (EnoughInv).  NoStale rests on three more, on the     *)
(* workers that serve an old version until they are told to quit.          *)
(***************************************************************************)
EXTENDS WoxConf, TLAPS, FiniteSetTheorems, SequenceTheorems

Booting(p) == st[p] \in {"open", "write", "read"}

\* Only a process that has fetched a version goes on to save it.
GotInv == \A p \in Proc : Booting(p) => got[p] \in Version

\* The table forgets what ended, and a worker that was told is not alive there.
TableInv ==
  /\ \A p \in Worker : st[p] \in {"unused", "gone"} => table[p] = "absent"
  /\ \A p \in told : table[p] # "alive" /\ st[p] # "unused"

AliveSet == {p \in Worker : table[p] = "alive"}
EnoughInv == Cardinality(AliveSet) + left + forkFails >= WorkerNum

\* No change comes while a process boots, so all of them hold what is in etcd.
BootInv == \A p \in Proc : Booting(p) => got[p] = etcd
FileInv == (\E p \in Proc : st[p] \in {"write", "read"}) => file \in {<< >>, Whole(etcd)}
FreshInv ==
  /\ \A p \in Worker : table[p] = "alive" /\ st[p] = "serving" /\ ~pending => conf[p] = Whole(etcd)
  /\ etcd = NoConf => watched

SpacedInv == BootInv /\ FileInv /\ ServesWhole /\ FreshInv

\* A version is a sequence of its own parts.
LEMMA WholeSeq ==
  ASSUME NEW v \in Version
  PROVE  Whole(v) \in Seq(Version) /\ Len(Whole(v)) = Size[v] /\ Whole(v) # << >>
<1>1. Size[v] \in Nat \ {0}
  BY ConfAssumption DEF Version
<1>2. Whole(v) \in [1..Size[v] -> Version]
  BY DEF Whole
<1> QED
  BY <1>1, <1>2

\* What is written over nothing, or over the same version, is the version.
LEMMA WriteWhole ==
  ASSUME NEW v \in Version, NEW f \in {<< >>, Whole(v)}
  PROVE  Whole(v) \o SubSeq(f, Size[v] + 1, Len(f)) = Whole(v)
<1>1. Whole(v) \in Seq(Version) /\ Len(Whole(v)) = Size[v] /\ Size[v] \in Nat
  BY WholeSeq, ConfAssumption DEF Version
<1>2. Len(f) \in Nat /\ Len(f) < Size[v] + 1
  BY <1>1
<1>3. SubSeq(f, Size[v] + 1, Len(f)) = << >>
  BY <1>1, <1>2
<1> QED
  BY <1>1, <1>3

\* The pool has a size.
LEMMA WorkerNumType == WorkerNum \in Nat
BY ConfAssumption DEF WorkerNum

\* A fork that succeeds makes an unused process boot, and counts it alive; the
\* dead worker it replaces leaves the table.
Forked(q, drop) ==
  /\ st[q] = "unused"
  /\ st' = [st EXCEPT ![q] = "get"]
  /\ \A p \in Proc : table'[p] = IF p = q THEN "alive" ELSE IF p \in drop THEN "absent" ELSE table[p]
  /\ forkFails' = forkFails

\* One that fails changes no worker, and the dead one leaves all the same.
NotForked(drop) ==
  /\ st' \in {st, [st EXCEPT ![Master] = "dead"]}
  /\ \A p \in Proc : table'[p] = IF p \in drop THEN "absent" ELSE table[p]
  /\ forkFails' = forkFails + 1

\* fork, whether it succeeds or fails.
LEMMA ForkFrame ==
  ASSUME TypeOK, NEW r \in {"start", "reload", "crash"}, NEW drop \in SUBSET Worker,
         ForkAs(r, drop) \/ (ForkFails(drop) /\ (UNCHANGED st \/ MasterDies))
  PROVE  /\ (\E q \in Worker : Forked(q, drop)) \/ NotForked(drop)
         /\ UNCHANGED <<envVars, confVars, announced, lost, told>>
         /\ reason' \in [Proc -> {"start", "reload", "crash"}]
         /\ table' \in [Proc -> {"absent", "alive", "reload"}]
         /\ forkFails' \in 0..MaxForkFails
         /\ \A p \in Proc : st[p] # "unused" => reason'[p] = reason[p]
<1>1. Dropped(drop) \in [Proc -> {"absent", "alive", "reload"}]
  BY DEF TypeOK, Dropped
<1>2. \A p \in Proc : Dropped(drop)[p] = IF p \in drop THEN "absent" ELSE table[p]
  BY DEF Dropped
<1>3. CASE ForkAs(r, drop)
  <2>1. PICK q \in Worker :
          /\ st[q] = "unused"
          /\ st' = [st EXCEPT ![q] = "get"]
          /\ reason' = [reason EXCEPT ![q] = r]
          /\ table' = [Dropped(drop) EXCEPT ![q] = "alive"]
          /\ UNCHANGED <<envVars, confVars, announced, lost, told, forkFails>>
    BY <1>3 DEF ForkAs
  <2>2. \A p \in Proc : table'[p] = IF p = q THEN "alive" ELSE IF p \in drop THEN "absent" ELSE table[p]
    BY <1>1, <1>2, <2>1
  <2>3. Forked(q, drop)
    BY <2>1, <2>2 DEF Forked
  <2>4. table' \in [Proc -> {"absent", "alive", "reload"}]
    BY <1>1, <2>1
  <2>5. reason' \in [Proc -> {"start", "reload", "crash"}]
    BY <2>1 DEF TypeOK
  <2>6. \A p \in Proc : st[p] # "unused" => reason'[p] = reason[p]
    BY <2>1 DEF TypeOK
  <2> QED
    BY <2>1, <2>3, <2>4, <2>5, <2>6 DEF TypeOK
<1>4. CASE ForkFails(drop) /\ (UNCHANGED st \/ MasterDies)
  <2>1. NotForked(drop)
    BY <1>2, <1>4 DEF ForkFails, MasterDies, NotForked
  <2>2. forkFails' \in 0..MaxForkFails
    BY <1>4, ConfAssumption DEF ForkFails, TypeOK
  <2> QED
    BY <1>1, <1>4, <2>1, <2>2 DEF ForkFails, TypeOK
<1> QED
  BY <1>3, <1>4

\* A fork of run or of reload.
LEMMA ForkDoes ==
  ASSUME TypeOK, Fork
  PROVE  /\ \/ (\E q \in Worker : Forked(q, {})) /\ left' = left - 1
            \/ NotForked({}) /\ left' \in {left, left - 1}
         /\ left \in Nat /\ left > 0 /\ left' \in 0..WorkerNum
         /\ UNCHANGED <<why, watched, pending>>
         /\ UNCHANGED <<envVars, confVars, announced, lost, told>>
         /\ reason' \in [Proc -> {"start", "reload", "crash"}]
         /\ table' \in [Proc -> {"absent", "alive", "reload"}]
         /\ forkFails' \in 0..MaxForkFails
         /\ \A p \in Proc : st[p] # "unused" => reason'[p] = reason[p]
<1>1. /\ ForkAs(why, {}) \/ (ForkFails({}) /\ (UNCHANGED st \/ MasterDies))
      /\ why \in {"start", "reload", "crash"} /\ {} \in SUBSET Worker
  BY DEF Fork, TypeOK
<1>2. /\ left \in Nat /\ left > 0 /\ left' \in {left, left - 1} /\ left' \in 0..WorkerNum
      /\ UNCHANGED <<why, watched, pending>>
  BY WorkerNumType DEF Fork, TypeOK
<1>3. CASE ForkAs(why, {}) /\ left' = left - 1
  <2>1. \E q \in Worker : st[q] = "unused" /\ forkFails' = forkFails
    BY <1>3 DEF ForkAs
  <2>2. forkFails \in Nat
    BY ConfAssumption DEF TypeOK
  <2>3. ~NotForked({})
    BY <2>1, <2>2 DEF NotForked
  <2> QED
    BY <1>1, <1>2, <1>3, <2>3, ForkFrame
<1>4. CASE ForkFails({})
  <2>1. forkFails' = forkFails + 1 /\ forkFails \in Nat
    BY <1>4, ConfAssumption DEF ForkFails, TypeOK
  <2>2. ~\E q \in Worker : Forked(q, {})
    BY <2>1 DEF Forked
  <2> QED
    BY <1>1, <1>2, <2>2, ForkFrame
<1> QED
  BY <1>3, <1>4 DEF Fork

\* A replacement: the dead worker leaves the table.
LEMMA ReplaceDoes ==
  ASSUME TypeOK, NEW d \in Worker, Replace(d)
  PROVE  /\ (\E q \in Worker : Forked(q, {d})) \/ NotForked({d})
         /\ st[d] = "dead" /\ table[d] # "absent"
         /\ UNCHANGED loopVars
         /\ UNCHANGED <<envVars, confVars, announced, lost, told>>
         /\ reason' \in [Proc -> {"start", "reload", "crash"}]
         /\ table' \in [Proc -> {"absent", "alive", "reload"}]
         /\ forkFails' \in 0..MaxForkFails
         /\ \A p \in Proc : st[p] # "unused" => reason'[p] = reason[p]
<1>1. /\ ForkAs("crash", {d}) \/ (ForkFails({d}) /\ (UNCHANGED st \/ MasterDies))
      /\ {d} \in SUBSET Worker /\ UNCHANGED loopVars
      /\ st[d] = "dead" /\ table[d] # "absent"
  BY DEF Replace
<1> QED
  BY <1>1, ForkFrame

\* What a fork, in a loop or to replace a dead worker, may do to one process.
LEMMA ForksDo ==
  ASSUME TypeOK, Fork \/ \E d \in Worker : Replace(d)
  PROVE  /\ \A p \in Proc : \/ st'[p] = st[p]
                            \/ st[p] = "unused" /\ st'[p] = "get" /\ table'[p] = "alive"
                            \/ p = Master /\ st'[p] = "dead"
         /\ \A p \in Proc : \/ table'[p] = table[p]
                            \/ table'[p] = "alive" /\ st[p] = "unused" /\ st'[p] = "get"
                            \/ table'[p] = "absent" /\ st[p] = "dead" /\ st'[p] = "dead"
         /\ \A p \in Proc : st[p] # "unused" => reason'[p] = reason[p]
         /\ left > 0 \/ \E d \in Worker : st[d] = "dead" /\ table[d] # "absent"
         /\ left \in Nat /\ left' \in 0..WorkerNum
         /\ st' \in [Proc -> {"unused", "get", "open", "write", "read", "serving", "dead", "gone"}]
         /\ reason' \in [Proc -> {"start", "reload", "crash"}]
         /\ table' \in [Proc -> {"absent", "alive", "reload"}]
         /\ forkFails \in Nat /\ forkFails' \in 0..MaxForkFails /\ forkFails' >= forkFails
         /\ UNCHANGED <<etcd, changes, file, got, conf, announced, lost, told, why, watched, pending>>
<1> DEFINE Result(drop) ==
             /\ (\E q \in Worker : Forked(q, drop)) \/ NotForked(drop)
             /\ \A d \in drop : st[d] = "dead"
             /\ left > 0 \/ \E d \in Worker : st[d] = "dead" /\ table[d] # "absent"
             /\ UNCHANGED <<envVars, confVars, announced, lost, told, why, watched, pending>>
             /\ left' \in 0..WorkerNum
             /\ reason' \in [Proc -> {"start", "reload", "crash"}]
             /\ table' \in [Proc -> {"absent", "alive", "reload"}]
             /\ forkFails' \in 0..MaxForkFails
             /\ \A p \in Proc : st[p] # "unused" => reason'[p] = reason[p]
<1>1. \E drop \in SUBSET Worker : Result(drop)
  <2>1. CASE Fork
    <3>1. Result({})
      BY <2>1, ForkDoes
    <3> QED
      BY <3>1
  <2>2. ASSUME NEW d \in Worker, Replace(d)
        PROVE  Result({d})
    <3>1. left' \in 0..WorkerNum /\ UNCHANGED <<why, watched, pending>>
      BY <2>2, ReplaceDoes DEF loopVars, TypeOK
    <3>2. \E e \in Worker : st[e] = "dead" /\ table[e] # "absent"
      BY <2>2, ReplaceDoes
    <3> QED
      BY <2>2, <3>1, <3>2, ReplaceDoes
  <2>3. \A d \in Worker : {d} \in SUBSET Worker
    OBVIOUS
  <2> HIDE DEF Result
  <2> QED
    BY <2>1, <2>2, <2>3
<1>2. PICK drop \in SUBSET Worker : Result(drop)
  BY <1>1
<1>3. forkFails \in Nat /\ left \in Nat /\ st \in [Proc -> {"unused", "get", "open", "write", "read", "serving", "dead", "gone"}]
  BY ConfAssumption, WorkerNumType DEF TypeOK
<1>4. UNCHANGED <<etcd, changes, file, got, conf>>
  BY <1>2 DEF envVars, confVars
<1>5. CASE \E q \in Worker : Forked(q, drop)
  <2>1. PICK q \in Worker : Forked(q, drop)
    BY <1>5
  <2>2. \A p \in Proc : st'[p] = IF p = q THEN "get" ELSE st[p]
    BY <1>3, <2>1 DEF Forked
  <2>3. st' \in [Proc -> {"unused", "get", "open", "write", "read", "serving", "dead", "gone"}]
    BY <1>3, <2>1 DEF Forked
  <2> QED
    BY <1>2, <1>3, <1>4, <2>1, <2>2, <2>3 DEF Forked, Proc
<1>6. CASE NotForked(drop)
  <2>1. \A p \in Proc : st'[p] = st[p] \/ (p = Master /\ st'[p] = "dead")
    BY <1>3, <1>6 DEF NotForked
  <2>2. st' \in [Proc -> {"unused", "get", "open", "write", "read", "serving", "dead", "gone"}]
    BY <1>3, <1>6 DEF NotForked
  <2>3. \A d \in drop : d # Master
    BY DEF Worker, Master
  <2> QED
    BY <1>2, <1>3, <1>4, <1>6, <2>1, <2>2, <2>3 DEF NotForked
<1> QED
  BY <1>2, <1>5, <1>6

-----------------------------------------------------------------------------
\* The start.
LEMMA ConfInit == Init => TypeOK /\ GotInv /\ TableInv /\ EnoughInv /\ SpacedInv
<1> SUFFICES ASSUME Init
             PROVE  TypeOK /\ GotInv /\ TableInv /\ EnoughInv /\ SpacedInv
  OBVIOUS
<1>1. TypeOK
  <2>1. etcd \in Version /\ changes \in 0..MaxChanges /\ left \in 0..WorkerNum
    BY ConfAssumption, WorkerNumType DEF Init, Version
  <2>2. file \in Seq(Version) /\ conf \in [Proc -> Seq(Version)]
    BY DEF Init
  <2>3. forkFails \in 0..MaxForkFails
    BY ConfAssumption DEF Init
  <2> QED
    BY <2>1, <2>2, <2>3 DEF Init, TypeOK
<1>2. GotInv /\ TableInv /\ SpacedInv
  BY DEF Init, GotInv, TableInv, SpacedInv, BootInv, FileInv, ServesWhole, FreshInv,
         Booting, NoConf, Proc, Worker, Master
<1>3. AliveSet = {}
  BY DEF Init, AliveSet, Proc
<1> QED
  BY <1>1, <1>2, <1>3, FS_EmptySet, WorkerNumType DEF Init, EnoughInv

\* Every step preserves the types.
LEMMA TypeStep == TypeOK /\ GotInv /\ [Next]_vars => TypeOK' /\ GotInv'
<1> SUFFICES ASSUME TypeOK, GotInv, [Next]_vars
             PROVE  TypeOK' /\ GotInv'
  OBVIOUS
<1> USE WorkerNumType
    DEF TypeOK, GotInv, Booting, envVars, confVars, tableVars, loopVars, Goes, Fails
<1>1. ASSUME NEW p \in Proc, Get(p)
      PROVE  TypeOK' /\ GotInv'
  <2>1. CASE Fails(p, "get")
    BY <2>1
  <2>2. CASE ~Fails(p, "get")
    <3>1. /\ etcd \in Version
          /\ st' = [st EXCEPT ![p] = "open"]
          /\ got' = [got EXCEPT ![p] = etcd]
          /\ UNCHANGED <<envVars, file, conf, tableVars, loopVars, forkFails>>
      BY <1>1, <2>2 DEF Get
    <3>2. TypeOK'
      BY <3>1
    <3>3. GotInv'
      BY <3>1
    <3> QED
      BY <3>2, <3>3
  <2> QED
    BY <2>1, <2>2
<1>2. ASSUME NEW p \in Proc, Open(p)
      PROVE  TypeOK' /\ GotInv'
  <2>1. CASE Fails(p, "open")
    BY <2>1
  <2>2. CASE ~Fails(p, "open")
    <3>1. file' = << >> /\ << >> \in Seq(Version)
      BY <1>2, <2>2 DEF Open
    <3> QED
      BY <1>2, <2>2, <3>1 DEF Open
  <2> QED
    BY <2>1, <2>2
<1>3. ASSUME NEW p \in Proc, Write(p)
      PROVE  TypeOK' /\ GotInv'
  <2>1. got[p] \in Version
    BY <1>3 DEF Write
  <2>2. Whole(got[p]) \in Seq(Version) /\ Size[got[p]] \in Nat
    BY <2>1, WholeSeq, ConfAssumption DEF Version
  <2>3. SubSeq(file, Size[got[p]] + 1, Len(file)) \in Seq(Version)
    BY <2>2, SubSeqProperties
  <2>4. file' \in Seq(Version)
    BY <1>3, <2>2, <2>3 DEF Write
  <2> QED
    BY <1>3, <2>4 DEF Write
<1>4. ASSUME NEW p \in Proc, ReadConf(p)
      PROVE  TypeOK' /\ GotInv'
  BY <1>4 DEF ReadConf
<1>5. CASE Fork \/ \E p \in Worker : Replace(p)
  <2>1. /\ st' \in [Proc -> {"unused", "get", "open", "write", "read", "serving", "dead", "gone"}]
        /\ reason' \in [Proc -> {"start", "reload", "crash"}]
        /\ table' \in [Proc -> {"absent", "alive", "reload"}]
        /\ left' \in 0..WorkerNum /\ forkFails' \in 0..MaxForkFails
        /\ UNCHANGED <<etcd, changes, file, got, conf, announced, lost, told, why, watched, pending>>
    BY <1>5, ForksDo
  <2>2. \A p \in Proc : st'[p] \in {"open", "write", "read"} => st'[p] = st[p]
    BY <1>5, ForksDo
  <2> QED
    BY <2>1, <2>2
<1>7. CASE Watch
  BY <1>7 DEF Watch, MasterDies
<1>8. CASE Reload
  <2>1. table' \in [Proc -> {"absent", "alive", "reload"}]
    BY <1>8 DEF Reload
  <2>2. left' = WorkerNum /\ why' = "reload" /\ pending' = FALSE
    BY <1>8 DEF Reload
  <2>3. UNCHANGED <<etcd, changes, file, got, conf, st, reason, announced, lost, told, watched, forkFails>>
    BY <1>8 DEF Reload
  <2>4. left' \in 0..WorkerNum
    BY <2>2
  <2>5. GotInv'
    BY <2>3
  <2> QED
    BY <2>1, <2>2, <2>3, <2>4, <2>5
<1>9. ASSUME NEW p \in Worker, Announce(p) \/ LoseTakeover(p)
      PROVE  TypeOK' /\ GotInv'
  BY <1>9 DEF Announce, LoseTakeover
<1>10. ASSUME NEW p \in Worker, Quit(p)
       PROVE  TypeOK' /\ GotInv'
  BY <1>10 DEF Quit
<1>11. ASSUME NEW v \in Version \cup {NoConf}, Change(v)
       PROVE  TypeOK' /\ GotInv'
  BY <1>11, ConfAssumption DEF Change
<1>12. CASE UNCHANGED vars
  BY <1>12 DEF vars
<1> QED
  BY <1>1, <1>2, <1>3, <1>4, <1>5, <1>7, <1>8, <1>9, <1>10, <1>11, <1>12
  DEF Next, Boot

-----------------------------------------------------------------------------
\* Every step keeps what the table says of processes that are no more.
LEMMA TableStep == TypeOK /\ TableInv /\ [Next]_vars => TableInv'
<1> SUFFICES ASSUME TypeOK, TableInv, [Next]_vars
             PROVE  TableInv'
  OBVIOUS
<1> USE DEF TypeOK, TableInv, tableVars, loopVars, Goes, Proc
<1>1. ASSUME NEW p \in Proc, Boot(p)
      PROVE  TableInv'
  BY <1>1 DEF Boot, Get, Open, Write, ReadConf, Fails
<1>2. CASE Fork \/ \E d \in Worker : Replace(d)
  <2>1. /\ \A p \in Worker : \/ st'[p] = st[p]
                             \/ st[p] = "unused" /\ st'[p] = "get" /\ table'[p] = "alive"
        /\ \A p \in Worker : \/ table'[p] = table[p]
                             \/ table'[p] = "alive" /\ st[p] = "unused" /\ st'[p] = "get"
                             \/ table'[p] = "absent" /\ st[p] = "dead" /\ st'[p] = "dead"
        /\ UNCHANGED told
    BY <1>2, ForksDo DEF Worker, Master
  <2> QED
    BY <2>1
<1>4. CASE Watch
  BY <1>4 DEF Watch, MasterDies, Worker, Master
<1>5. CASE Reload
  BY <1>5 DEF Reload
<1>6. ASSUME NEW p \in Worker, Announce(p) \/ LoseTakeover(p)
      PROVE  TableInv'
  BY <1>6 DEF Announce, LoseTakeover, TakeoverSent
<1>7. ASSUME NEW p \in Worker, Quit(p)
      PROVE  TableInv'
  BY <1>7 DEF Quit
<1>8. ASSUME NEW v \in Version \cup {NoConf}, Change(v)
      PROVE  TableInv'
  BY <1>8 DEF Change
<1>9. CASE UNCHANGED vars
  BY <1>9 DEF vars
<1> QED
  BY <1>1, <1>2, <1>4, <1>5, <1>6, <1>7, <1>8, <1>9 DEF Next

\* The workers are finitely many, and so are those alive.
LEMMA WorkersFinite == IsFiniteSet(Worker)
BY ConfAssumption, FS_Interval DEF Worker

LEMMA AliveFinite == IsFiniteSet(AliveSet)
BY WorkersFinite, FS_Subset DEF AliveSet

\* A replaced worker leaves the table for the one that replaces it.
LEMMA ReplaceCount ==
  ASSUME NEW S, IsFiniteSet(S), NEW q, q \notin S, NEW d
  PROVE  /\ Cardinality((S \ {d}) \cup {q}) >= Cardinality(S)
         /\ Cardinality((S \ {d}) \cup {q}) \in Nat
         /\ Cardinality(S \cup {q}) = Cardinality(S) + 1
         /\ Cardinality(S) \in Nat
<1>1. /\ IsFiniteSet(S \ {d}) /\ q \notin S \ {d}
      /\ Cardinality(S \ {d}) = IF d \in S THEN Cardinality(S) - 1 ELSE Cardinality(S)
  BY FS_RemoveElement
<1>2. Cardinality((S \ {d}) \cup {q}) = Cardinality(S \ {d}) + 1
  BY <1>1, FS_AddElement
<1>3. Cardinality(S \cup {q}) = Cardinality(S) + 1
  BY FS_AddElement
<1> QED
  BY <1>1, <1>2, <1>3, FS_CardinalityType

\* No step loses a worker without a fork to make up for it.
LEMMA EnoughStep == TypeOK /\ TableInv /\ EnoughInv /\ [Next]_vars => EnoughInv'
<1> SUFFICES ASSUME TypeOK, TableInv, EnoughInv, [Next]_vars
             PROVE  EnoughInv'
  OBVIOUS
<1>0. Cardinality(AliveSet) \in Nat /\ left \in Nat /\ forkFails \in Nat /\ WorkerNum \in Nat
  BY AliveFinite, FS_CardinalityType, WorkerNumType, ConfAssumption DEF TypeOK
<1>1. ASSUME UNCHANGED <<table, left, forkFails>>
      PROVE  EnoughInv'
  <2>1. AliveSet' = AliveSet
    BY <1>1 DEF AliveSet
  <2> QED
    BY <1>1, <2>1 DEF EnoughInv
<1>2. CASE Fork
  <2>1. ASSUME NEW q \in Worker, Forked(q, {}), left' = left - 1
        PROVE  EnoughInv'
    <3>1. AliveSet' = AliveSet \cup {q} /\ q \notin AliveSet
      BY <2>1 DEF Forked, AliveSet, TableInv, Proc
    <3>2. Cardinality(AliveSet') = Cardinality(AliveSet) + 1
      BY <3>1, AliveFinite, ReplaceCount
    <3>3. forkFails' = forkFails
      BY <2>1 DEF Forked
    <3> QED
      BY <1>0, <2>1, <3>2, <3>3 DEF EnoughInv
  <2>2. ASSUME NotForked({}), left' \in {left, left - 1}
        PROVE  EnoughInv'
    <3>1. AliveSet' = AliveSet
      BY <2>2 DEF NotForked, AliveSet, Proc
    <3>2. forkFails' = forkFails + 1
      BY <2>2 DEF NotForked
    <3> QED
      BY <1>0, <2>2, <3>1, <3>2 DEF EnoughInv
  <2> QED
    BY <1>2, <2>1, <2>2, ForkDoes
<1>3. ASSUME NEW d \in Worker, Replace(d)
      PROVE  EnoughInv'
  <2>1. left' = left
    BY <1>3, ReplaceDoes DEF loopVars
  <2>2. ASSUME NEW q \in Worker, Forked(q, {d})
        PROVE  EnoughInv'
    <3>1. AliveSet' = (AliveSet \ {d}) \cup {q} /\ q \notin AliveSet
      BY <2>2 DEF Forked, AliveSet, TableInv, Proc
    <3>2. Cardinality(AliveSet') >= Cardinality(AliveSet) /\ Cardinality(AliveSet') \in Nat
      BY <3>1, AliveFinite, ReplaceCount
    <3>3. forkFails' = forkFails
      BY <2>2 DEF Forked
    <3> QED
      BY <1>0, <2>1, <3>2, <3>3 DEF EnoughInv
  <2>3. ASSUME NotForked({d})
        PROVE  EnoughInv'
    <3>1. AliveSet' = AliveSet \ {d}
      BY <2>3 DEF NotForked, AliveSet, Proc
    <3>2. Cardinality(AliveSet') \in {Cardinality(AliveSet), Cardinality(AliveSet) - 1}
      BY <3>1, AliveFinite, FS_RemoveElement
    <3>3. forkFails' = forkFails + 1
      BY <2>3 DEF NotForked
    <3> QED
      BY <1>0, <2>1, <3>2, <3>3 DEF EnoughInv
  <2> QED
    BY <1>3, <2>2, <2>3, ReplaceDoes
<1>4. CASE Reload
  <2>1. left' = WorkerNum /\ forkFails' = forkFails
    BY <1>4 DEF Reload
  <2>2. AliveSet' \subseteq AliveSet
    BY <1>4 DEF Reload, AliveSet, Proc
  <2>3. Cardinality(AliveSet') \in Nat
    BY <2>2, AliveFinite, FS_Subset, FS_CardinalityType
  <2> QED
    BY <1>0, <2>1, <2>3 DEF EnoughInv
<1>5. ASSUME NEW p \in Worker, Quit(p)
      PROVE  EnoughInv'
  <2>1. table' = [table EXCEPT ![p] = "absent"] /\ table[p] # "alive" /\ UNCHANGED <<left, forkFails>>
    BY <1>5 DEF Quit, TableInv, loopVars
  <2>2. AliveSet' = AliveSet
    BY <2>1 DEF AliveSet, TypeOK, Proc
  <2> QED
    BY <2>1, <2>2 DEF EnoughInv
<1> QED
  BY <1>1, <1>2, <1>3, <1>4, <1>5
  DEF Next, Boot, Get, Open, Write, ReadConf, Fails, Watch, Announce, LoseTakeover, Change, vars, tableVars, loopVars

-----------------------------------------------------------------------------
\* With spaced changes, a change finds no process that boots, and a watch.
LEMMA ChangeStep ==
  ASSUME SpacedChanges, TypeOK, GotInv, SpacedInv, NEW v \in Version \cup {NoConf}, Change(v)
  PROVE  SpacedInv'
<1>1. \A p \in Proc : ~Booting(p)
  <2>1. CASE Settled
    BY <2>1 DEF Settled, MasterUp, Booting, Proc
  <2>2. CASE etcd = NoConf
    BY <2>2 DEF GotInv, SpacedInv, BootInv, Version, NoConf
  <2> QED
    BY <2>1, <2>2 DEF Change
<1>2. watched
  BY DEF Change, Settled, SpacedInv, FreshInv
<1>3. pending' /\ watched'
  BY <1>2 DEF Change
<1>4. UNCHANGED <<file, got, conf, st>>
  BY DEF Change, confVars
<1> QED
  BY <1>1, <1>3, <1>4
  DEF SpacedInv, BootInv, FileInv, ServesWhole, FreshInv, Booting, Version

\* A boot that fails leaves one process less to serve, write or read.
LEMMA FailsKeeps ==
  ASSUME TypeOK, SpacedInv, NEW p \in Proc, NEW at, Fails(p, at)
  PROVE  SpacedInv'
<1>1. /\ \A q \in Proc : st'[q] \in {"open", "write", "read", "serving"} => st'[q] = st[q]
      /\ UNCHANGED <<etcd, file, got, conf, table, watched, pending>>
  BY DEF Fails, Goes, TypeOK, envVars, confVars, tableVars, loopVars
<1> QED
  BY <1>1 DEF SpacedInv, BootInv, FileInv, ServesWhole, FreshInv, Booting, Proc, Whole

\* With spaced changes, every step preserves the four facts.
LEMMA SpacedStep ==
  ASSUME SpacedChanges, TypeOK, GotInv, SpacedInv, [Next]_vars
  PROVE  SpacedInv'
<1> USE DEF TypeOK, envVars, confVars, tableVars, loopVars, Goes, Fails
<1>1. ASSUME NEW p \in Proc, Get(p)
      PROVE  SpacedInv'
  <2>1. CASE Fails(p, "get")
    BY <2>1, FailsKeeps
  <2>2. CASE ~Fails(p, "get")
    BY <1>1, <2>2 DEF Get, SpacedInv, BootInv, FileInv, ServesWhole, FreshInv, Booting, Proc
  <2> QED
    BY <2>1, <2>2
<1>2. ASSUME NEW p \in Proc, Open(p)
      PROVE  SpacedInv'
  <2>1. CASE Fails(p, "open")
    BY <2>1, FailsKeeps
  <2>2. CASE ~Fails(p, "open")
    BY <1>2, <2>2 DEF Open, SpacedInv, BootInv, FileInv, ServesWhole, FreshInv, Booting, Proc
  <2> QED
    BY <2>1, <2>2
<1>3. ASSUME NEW p \in Proc, Write(p)
      PROVE  SpacedInv'
  <2>1. got[p] = etcd /\ etcd \in Version /\ file \in {<< >>, Whole(etcd)}
    BY <1>3 DEF Write, SpacedInv, BootInv, FileInv, GotInv, Booting
  <2>2. file' = Whole(etcd)
    BY <1>3, <2>1, WriteWhole DEF Write
  <2>3. UNCHANGED <<etcd, got, conf, table, pending, watched>>
    BY <1>3 DEF Write
  <2>4. \A q \in Proc : /\ st'[q] = "serving" => st[q] = "serving"
                        /\ st'[q] \in {"open", "write", "read"} => st[q] \in {"open", "write", "read"}
    BY <1>3 DEF Write
  <2>5. BootInv' /\ FileInv'
    BY <2>2, <2>3, <2>4 DEF SpacedInv, BootInv, FileInv, Booting, Whole
  <2> HIDE DEF TypeOK
  <2>6. ServesWhole'
    BY <2>3, <2>4 DEF SpacedInv, ServesWhole
  <2>7. FreshInv'
    BY <2>3, <2>4 DEF SpacedInv, FreshInv, Proc
  <2> QED
    BY <2>5, <2>6, <2>7 DEF SpacedInv
<1>4. ASSUME NEW p \in Proc, ReadConf(p)
      PROVE  SpacedInv'
  <2>1. etcd \in Version /\ file \in {<< >>, Whole(etcd)}
    BY <1>4 DEF ReadConf, SpacedInv, BootInv, FileInv, GotInv, Booting
  <2>2. \A q \in Proc : st'[q] = "serving" =>
          \/ q # p /\ st[q] = "serving" /\ conf'[q] = conf[q]
          \/ conf'[q] = Whole(etcd)
    BY <1>4, <2>1 DEF ReadConf
  <2>3. \A q \in Proc : st'[q] \in {"open", "write", "read"} => st[q] = st'[q]
    BY <1>4 DEF ReadConf
  <2>4. UNCHANGED <<etcd, got, file, table, pending, watched>>
    BY <1>4 DEF ReadConf
  <2>5. BootInv' /\ FileInv'
    BY <2>3, <2>4 DEF SpacedInv, BootInv, FileInv, Booting, Whole
  <2>6. ServesWhole'
    BY <2>1, <2>2, <2>4 DEF SpacedInv, ServesWhole
  <2>7. FreshInv'
    BY <2>2, <2>4 DEF SpacedInv, FreshInv, Whole, Proc
  <2> QED
    BY <2>5, <2>6, <2>7 DEF SpacedInv
<1>5. CASE Fork \/ \E d \in Worker : Replace(d)
  <2>1. /\ \A p \in Proc : /\ st'[p] \in {"open", "write", "read", "serving"} => st'[p] = st[p]
                           /\ table'[p] = "alive" /\ st'[p] = "serving" => table[p] = "alive"
        /\ UNCHANGED <<etcd, file, got, conf, watched, pending>>
    BY <1>5, ForksDo
  <2> HIDE DEF TypeOK
  <2> QED
    BY <2>1 DEF SpacedInv, BootInv, FileInv, ServesWhole, FreshInv, Booting, Proc, Whole
<1>7. CASE Watch
  <2>1. /\ \A q \in Proc : st'[q] \in {"open", "write", "read", "serving"} => st'[q] = st[q]
        /\ UNCHANGED <<etcd, file, got, conf, table, pending>> /\ (watched => watched')
    BY <1>7 DEF Watch, MasterDies
  <2> HIDE DEF TypeOK
  <2> QED
    BY <2>1 DEF SpacedInv, BootInv, FileInv, ServesWhole, FreshInv, Booting, Proc, Whole
<1>8. CASE Reload
  <2>1. \A p \in Worker : table'[p] = "alive" => st[p] # "serving"
    BY <1>8 DEF Reload, Proc
  <2> QED
    BY <1>8, <2>1 DEF Reload, SpacedInv, BootInv, FileInv, ServesWhole, FreshInv, Booting
<1>9. ASSUME NEW p \in Worker, Announce(p) \/ LoseTakeover(p)
      PROVE  SpacedInv'
  BY <1>9 DEF Announce, LoseTakeover, SpacedInv, BootInv, FileInv, ServesWhole, FreshInv, Booting
<1>10. ASSUME NEW p \in Worker, Quit(p)
       PROVE  SpacedInv'
  BY <1>10 DEF Quit, SpacedInv, BootInv, FileInv, ServesWhole, FreshInv, Booting, Proc
<1>11. CASE UNCHANGED vars
  BY <1>11 DEF vars, SpacedInv, BootInv, FileInv, ServesWhole, FreshInv, Booting
<1> QED
  BY <1>1, <1>2, <1>3, <1>4, <1>5, <1>7, <1>8, <1>9, <1>10, <1>11, ChangeStep
  DEF Next, Boot

-----------------------------------------------------------------------------
(***************************************************************************)
(* NoStale.  Until a takeover of the reload gets through, the workers that *)
(* served before it are as many as the pool but for the forks that failed  *)
(* (CrowdInv), and until the master handles the change nothing else is     *)
(* under way (QuietInv).  So the first worker of the reload whose takeover *)
(* gets through makes up for one failed fork, there are enough workers,    *)
(* and all the old ones are told (FoundInv).                               *)
(***************************************************************************)
\* What serves or boots is in the table, and what has announced itself served.
ServingInv ==
  /\ \A p \in Worker : st[p] \in {"get", "open", "write", "read", "serving"} => table[p] # "absent"
  /\ \A p \in announced : st[p] \in {"serving", "gone"}

Stale(p) == st[p] = "serving" /\ conf[p] # Whole(etcd)

Servers == {p \in Worker : st[p] = "serving" /\ p \notin told}

\* The servers that owe the master no takeover.
Elders == {p \in Servers : ~TakeoverSent(p)}

\* Nobody boots, and the master has read every takeover.
Quiet ==
  \A p \in Worker :
    /\ st[p] \in {"unused", "serving", "dead", "gone"}
    /\ st[p] = "dead" => table[p] = "absent"
    /\ ~TakeoverSent(p)

QuietInv == (\E p \in Worker : table[p] = "alive" /\ Stale(p)) => left = 0 /\ Quiet

CrowdInv == (\E p \in Servers : Stale(p)) => Cardinality(Elders) + forkFails >= WorkerNum

FoundInv ==
  ~pending /\ forkFails <= 1 /\ (\E p \in announced : table[p] = "alive") =>
    \A p \in Servers : ~Stale(p)

StaleInv == QuietInv /\ CrowdInv /\ FoundInv

\* A version is not the absent one.
LEMMA WholeNotAbsent ==
  ASSUME NEW v \in Version
  PROVE  Whole(v) # Whole(NoConf)
<1>1. 1 \in 1..Size[v] /\ v # NoConf
  BY ConfAssumption DEF Version, NoConf
<1>2. DOMAIN Whole(v) = 1..Size[v] /\ Whole(v)[1] = v
  BY <1>1 DEF Whole
<1>3. DOMAIN Whole(NoConf) = 1..Size[NoConf] /\ \A i \in 1..Size[NoConf] : Whole(NoConf)[i] = NoConf
  BY DEF Whole
<1> QED
  BY <1>1, <1>2, <1>3

\* The elders are finitely many.
LEMMA EldersFinite == IsFiniteSet(Elders) /\ Cardinality(Elders) \in Nat
BY WorkersFinite, FS_Subset, FS_CardinalityType DEF Elders, Servers

\* Every step keeps what serves in the table.
LEMMA ServingStep == TypeOK /\ TableInv /\ ServingInv /\ [Next]_vars => ServingInv'
<1> SUFFICES ASSUME TypeOK, TableInv, ServingInv, [Next]_vars
             PROVE  ServingInv'
  OBVIOUS
<1> USE DEF ServingInv, tableVars, loopVars, Goes, Proc
<1>1. ASSUME NEW p \in Proc, Boot(p)
      PROVE  ServingInv'
  <2>1. CASE Get(p)
    BY <2>1 DEF TypeOK, Get, Fails
  <2>2. CASE Open(p)
    BY <2>2 DEF TypeOK, Open, Fails
  <2>3. CASE Write(p)
    BY <2>3 DEF TypeOK, Write
  <2>4. CASE ReadConf(p)
    BY <2>4 DEF TypeOK, ReadConf
  <2> QED
    BY <1>1, <2>1, <2>2, <2>3, <2>4 DEF Boot
<1>2. CASE Fork \/ \E d \in Worker : Replace(d)
  <2>1. /\ \A p \in Worker : \/ st'[p] = st[p]
                             \/ st[p] = "unused" /\ st'[p] = "get" /\ table'[p] = "alive"
        /\ \A p \in Worker : \/ table'[p] = table[p]
                             \/ table'[p] = "alive"
                             \/ table'[p] = "absent" /\ st[p] = "dead" /\ st'[p] = "dead"
        /\ UNCHANGED announced
    BY <1>2, ForksDo DEF Worker, Master
  <2> QED
    BY <2>1 DEF TypeOK
<1>4. CASE Watch
  <2>1. UNCHANGED <<table, announced>>
    BY <1>4 DEF Watch
  <2>2. ASSUME NEW p \in Worker
        PROVE  st'[p] = st[p]
    <3>1. p # Master
      BY DEF Worker, Master
    <3> QED
      BY <1>4, <3>1 DEF TypeOK, Watch, MasterDies
  <2> QED
    BY <2>1, <2>2 DEF TypeOK
<1>5. CASE Reload
  BY <1>5 DEF TypeOK, Reload
<1>6. ASSUME NEW p \in Worker, Announce(p) \/ LoseTakeover(p)
      PROVE  ServingInv'
  BY <1>6 DEF TypeOK, Announce, LoseTakeover, TakeoverSent
<1>7. ASSUME NEW p \in Worker, Quit(p)
      PROVE  ServingInv'
  BY <1>7 DEF TypeOK, Quit
<1>8. ASSUME NEW v \in Version \cup {NoConf}, Change(v)
      PROVE  ServingInv'
  BY <1>8 DEF Change
<1>9. CASE UNCHANGED vars
  BY <1>9 DEF vars
<1> QED
  BY <1>1, <1>2, <1>4, <1>5, <1>6, <1>7, <1>8, <1>9 DEF Next

\* A step that makes nobody stale, or alive who has announced itself, tells
\* nobody and keeps the elders, keeps the crowd.
LEMMA StaleFrame ==
  ASSUME QuietInv', CrowdInv, FoundInv,
         \A p \in Worker : Stale(p)' => Stale(p),
         Elders \subseteq Elders',
         \A p \in announced' : table'[p] = "alive" => p \in announced /\ table[p] = "alive",
         forkFails \in Nat, forkFails' \in Nat, forkFails' >= forkFails,
         UNCHANGED <<told, pending>>
  PROVE  StaleInv'
<1>1. \A p \in Servers' : Stale(p)' => p \in Servers /\ Stale(p)
  BY DEF Servers, Stale
<1>2. CrowdInv'
  <2>1. CASE \E p \in Servers' : Stale(p)'
    <3>1. Cardinality(Elders) + forkFails >= WorkerNum
      BY <1>1, <2>1 DEF CrowdInv
    <3>2. IsFiniteSet(Elders')
      BY WorkersFinite, FS_Subset DEF Elders, Servers
    <3>3. Cardinality(Elders) <= Cardinality(Elders') /\ Cardinality(Elders') \in Nat
      BY <3>2, FS_Subset, FS_CardinalityType
    <3> QED
      BY <3>1, <3>3, EldersFinite, WorkerNumType DEF CrowdInv
  <2> QED
    BY <2>1 DEF CrowdInv
<1>3. FoundInv'
  <2> SUFFICES ASSUME ~pending', forkFails' <= 1, NEW q \in announced', table'[q] = "alive",
                      NEW p \in Servers', Stale(p)'
               PROVE  FALSE
    BY DEF FoundInv
  <2>1. ~pending /\ forkFails <= 1 /\ q \in announced /\ table[q] = "alive"
    OBVIOUS
  <2> QED
    BY <1>1, <2>1 DEF FoundInv
<1> QED
  BY <1>2, <1>3 DEF StaleInv

\* A process that boots comes to serve the current version.
LEMMA BootStale ==
  ASSUME TypeOK, SpacedInv, StaleInv, NEW p \in Proc, Boot(p)
  PROVE  StaleInv'
<1>1. /\ st[p] \in {"get", "open", "write", "read"} /\ st'[p] # "unused"
      /\ \A q \in Proc : q # p => st'[q] = st[q] /\ conf'[q] = conf[q]
      /\ UNCHANGED <<etcd, table, reason, announced, lost, told, left, pending, forkFails>>
  BY DEF Boot, Get, Open, Write, ReadConf, Fails, Goes, TypeOK, envVars, confVars, tableVars, loopVars
<1>2. st'[p] = "serving" => conf'[p] = Whole(etcd)
  <2>1. CASE ReadConf(p)
    BY <2>1 DEF ReadConf, Goes, TypeOK, SpacedInv, FileInv
  <2> QED
    BY <2>1 DEF Boot, Get, Open, Write, Fails, Goes, TypeOK
<1>3. \A q \in Worker : Stale(q)' => Stale(q)
  BY <1>1, <1>2 DEF Stale, Proc, Whole
<1>4. Elders \subseteq Elders'
  BY <1>1 DEF Elders, Servers, TakeoverSent, Proc
<1>6. forkFails \in Nat
  BY ConfAssumption DEF TypeOK
<1>5. QuietInv'
  <2>1. CASE \E q \in Worker : table[q] = "alive" /\ Stale(q)
    <3>1. left = 0 /\ Quiet
      BY <2>1 DEF StaleInv, QuietInv
    <3>2. p \notin Worker
      BY <1>1, <3>1 DEF Quiet
    <3>3. Quiet'
      BY <1>1, <3>1, <3>2 DEF Quiet, TakeoverSent, Proc
    <3> QED
      BY <1>1, <3>1, <3>3 DEF QuietInv
  <2> QED
    BY <1>1, <1>3, <2>1 DEF QuietInv
<1> QED
  BY <1>1, <1>3, <1>4, <1>5, <1>6, StaleFrame DEF StaleInv

\* A fork, or a replacement, finds no alive worker stale.
LEMMA ForkStale ==
  ASSUME TypeOK, ServingInv, StaleInv, Fork \/ \E d \in Worker : Replace(d)
  PROVE  StaleInv'
<1>1. /\ \A p \in Worker : \/ st'[p] = st[p]
                           \/ st[p] = "unused" /\ st'[p] = "get"
      /\ \A p \in Worker : \/ table'[p] = table[p]
                           \/ table'[p] = "alive" /\ st[p] = "unused" /\ st'[p] = "get"
                           \/ table'[p] = "absent"
      /\ \A p \in Worker : st[p] # "unused" => reason'[p] = reason[p]
      /\ UNCHANGED <<etcd, conf, announced, lost, told, pending>>
      /\ forkFails \in Nat /\ forkFails' \in Nat /\ forkFails' >= forkFails
  BY ForksDo, ConfAssumption DEF Proc, Worker, Master
<1>2. \A p \in Worker : Stale(p)' => Stale(p) /\ st'[p] = st[p]
  BY <1>1 DEF Stale, Whole
<1>3. Elders \subseteq Elders'
  BY <1>1 DEF Elders, Servers, TakeoverSent
<1>4. \A p \in Worker : ~(table[p] = "alive" /\ Stale(p))
  <2>1. (left > 0 /\ left \in Nat) \/ \E d \in Worker : st[d] = "dead" /\ table[d] # "absent"
    BY ForksDo
  <2> QED
    BY <2>1 DEF StaleInv, QuietInv, Quiet
<1>5. QuietInv'
  <2>1. \A p \in Worker : ~(table'[p] = "alive" /\ Stale(p)')
    BY <1>1, <1>2, <1>4 DEF Stale
  <2> QED
    BY <2>1 DEF QuietInv
<1>6. \A p \in announced' : table'[p] = "alive" => p \in announced /\ table[p] = "alive"
  BY <1>1 DEF ServingInv, TypeOK
<1> QED
  BY <1>1, <1>2, <1>3, <1>5, <1>6, StaleFrame DEF StaleInv

\* A reload leaves nobody alive who serves.
LEMMA ReloadStale ==
  ASSUME TypeOK, ServingInv, StaleInv, Reload
  PROVE  StaleInv'
<1>1. /\ \A p \in Worker : table'[p] = "alive" => st[p] = "dead"
      /\ UNCHANGED <<etcd, conf, st, reason, announced, lost, told, forkFails>>
  BY DEF Reload, Proc, TypeOK, envVars, confVars
<1>2. \A p \in Worker : Stale(p)' = Stale(p)
  BY <1>1 DEF Stale, Whole
<1>3. Servers' = Servers /\ Elders' = Elders
  BY <1>1 DEF Servers, Elders, TakeoverSent
<1>4. QuietInv'
  BY <1>1 DEF QuietInv, Stale
<1>5. CrowdInv'
  BY <1>1, <1>2, <1>3, WorkerNumType DEF StaleInv, CrowdInv, Servers
<1>6. FoundInv'
  BY <1>1 DEF FoundInv, ServingInv, TypeOK
<1> QED
  BY <1>4, <1>5, <1>6 DEF StaleInv

\* A takeover that gets through leaves nobody stale who was not told: if somebody
\* is stale, the sender and the elders are enough, and he is superseded.
LEMMA AnnounceStale ==
  ASSUME TypeOK, ServingInv, StaleInv, NEW p \in Worker, Announce(p)
  PROVE  StaleInv'
<1> DEFINE Live == {q \in Worker : table[q] # "absent" /\ st[q] # "dead"}
           Told == told \cup {q \in Worker : table[q] = "reload"}
<1>1. /\ TakeoverSent(p)
      /\ announced' = announced \cup {p}
      /\ told' = IF Cardinality(Live) >= WorkerNum THEN Told ELSE told
      /\ UNCHANGED <<etcd, conf, st, table, reason, lost, left, pending, forkFails>>
  BY DEF Announce, envVars, confVars, loopVars
<1>2. \A q \in Worker : Stale(q)' = Stale(q)
  BY <1>1 DEF Stale, Whole
<1>3. \A q \in Worker : table[q] = "alive" => ~Stale(q)
  BY <1>1 DEF StaleInv, QuietInv, Quiet
<1>4. \A q \in Servers : ~Stale(q) \/ Cardinality(Live) >= WorkerNum \/ forkFails > 1
  <2> SUFFICES ASSUME NEW q \in Servers, Stale(q), ~(forkFails > 1)
               PROVE  Cardinality(Live) >= WorkerNum
    OBVIOUS
  <2>1. Cardinality(Elders) + forkFails >= WorkerNum
    BY DEF StaleInv, CrowdInv
  <2>2. Elders \cup {p} \subseteq Live
    BY <1>1 DEF Elders, Servers, ServingInv, TakeoverSent
  <2>3. Cardinality(Elders \cup {p}) = Cardinality(Elders) + 1
    <3>1. p \notin Elders
      BY <1>1 DEF Elders
    <3> QED
      BY <3>1, EldersFinite, FS_AddElement
  <2>4. IsFiniteSet(Live)
    BY WorkersFinite, FS_Subset
  <2>5. Cardinality(Elders \cup {p}) <= Cardinality(Live) /\ Cardinality(Live) \in Nat
    BY <2>2, <2>4, FS_Subset, FS_CardinalityType
  <2>6. forkFails \in Nat
    BY ConfAssumption DEF TypeOK
  <2> HIDE DEF Live
  <2> QED
    BY <2>1, <2>3, <2>5, <2>6, EldersFinite, WorkerNumType
<1>5. ASSUME told' = Told
      PROVE  \A q \in Servers' : ~Stale(q)
  <2>1. \A q \in Servers' : q \in Worker /\ table[q] # "reload" /\ st[q] = "serving"
    BY <1>1, <1>5 DEF Servers
  <2>2. \A q \in Servers' : table[q] = "alive"
    BY <2>1 DEF ServingInv, TypeOK, Proc
  <2> QED
    BY <1>3, <2>1, <2>2
<1>6. told' = Told \/ (told' = told /\ ~(Cardinality(Live) >= WorkerNum))
  BY <1>1
<1> HIDE DEF Live, Told
<1>7. Servers' \subseteq Worker
  BY DEF Servers
<1>8. QuietInv'
  BY <1>1, <1>2, <1>3 DEF QuietInv
<1>9. CASE told' = Told
  BY <1>2, <1>5, <1>7, <1>8, <1>9 DEF StaleInv, CrowdInv, FoundInv
<1>10. CASE told' = told /\ ~(Cardinality(Live) >= WorkerNum)
  <2>1. Servers' = Servers /\ Elders \subseteq Elders'
    BY <1>1, <1>10 DEF Servers, Elders, TakeoverSent
  <2>2. CrowdInv'
    <3>1. IsFiniteSet(Elders')
      BY WorkersFinite, FS_Subset DEF Elders, Servers
    <3>2. Cardinality(Elders) <= Cardinality(Elders') /\ Cardinality(Elders') \in Nat
      BY <2>1, <3>1, FS_Subset, FS_CardinalityType
    <3>3. (\E q \in Servers' : Stale(q)') => \E q \in Servers : Stale(q)
      BY <1>2, <1>7, <2>1
    <3>4. forkFails \in Nat /\ forkFails' = forkFails
      BY <1>1, ConfAssumption DEF TypeOK
    <3> QED
      BY <3>2, <3>3, <3>4, EldersFinite, WorkerNumType DEF StaleInv, CrowdInv
  <2>3. FoundInv'
    <3>1. forkFails' <= 1 => \A q \in Servers : ~Stale(q)
      BY <1>1, <1>4, <1>10, ConfAssumption DEF TypeOK
    <3> QED
      BY <1>2, <1>7, <2>1, <3>1 DEF FoundInv
  <2> QED
    BY <1>8, <2>2, <2>3 DEF StaleInv
<1> QED
  BY <1>6, <1>9, <1>10

\* One that is lost makes an elder of its sender.
LEMMA LoseStale ==
  ASSUME TypeOK, StaleInv, NEW p \in Worker, LoseTakeover(p)
  PROVE  StaleInv'
<1>1. /\ TakeoverSent(p) /\ lost' = lost \cup {p}
      /\ UNCHANGED <<etcd, conf, st, table, reason, announced, told, left, pending, forkFails>>
  BY DEF LoseTakeover, envVars, confVars, loopVars
<1>2. \A q \in Worker : Stale(q)' = Stale(q)
  BY <1>1 DEF Stale, Whole
<1>3. \A q \in Worker : table[q] = "alive" => ~Stale(q)
  BY <1>1 DEF StaleInv, QuietInv, Quiet
<1>4. QuietInv'
  BY <1>1, <1>2, <1>3 DEF QuietInv
<1>5. Elders \subseteq Elders'
  BY <1>1 DEF Elders, Servers, TakeoverSent
<1>6. forkFails \in Nat
  BY ConfAssumption DEF TypeOK
<1> QED
  BY <1>1, <1>2, <1>4, <1>5, <1>6, StaleFrame DEF StaleInv

\* Who was told and ends is missed by nobody.
LEMMA QuitStale ==
  ASSUME TypeOK, StaleInv, NEW p \in Worker, Quit(p)
  PROVE  StaleInv'
<1>1. /\ p \in told /\ st' = [st EXCEPT ![p] = "gone"] /\ table' = [table EXCEPT ![p] = "absent"]
      /\ UNCHANGED <<etcd, conf, reason, announced, lost, told, left, pending, forkFails>>
  BY DEF Quit, Goes, envVars, confVars, loopVars
<1>2. \A q \in Proc : /\ st'[q] = IF q = p THEN "gone" ELSE st[q]
                      /\ table'[q] = IF q = p THEN "absent" ELSE table[q]
  BY <1>1 DEF TypeOK, Proc
<1>3. \A q \in Worker : Stale(q)' => Stale(q)
  BY <1>1, <1>2 DEF Stale, Proc, Whole
<1>4. Elders \subseteq Elders'
  BY <1>1, <1>2 DEF Elders, Servers, TakeoverSent, Proc
<1>5. QuietInv'
  BY <1>1, <1>2, <1>3 DEF StaleInv, QuietInv, Quiet, TakeoverSent, Proc
<1>6. \A q \in announced' : table'[q] = "alive" => q \in announced /\ table[q] = "alive"
  BY <1>1, <1>2 DEF TypeOK, Proc
<1>7. forkFails \in Nat
  BY ConfAssumption DEF TypeOK
<1> QED
  BY <1>1, <1>3, <1>4, <1>5, <1>6, <1>7, StaleFrame DEF StaleInv

\* A change finds all the workers alive and serving, or follows one that nobody
\* could boot with.
LEMMA ChangeStale ==
  ASSUME SpacedChanges, TypeOK, TableInv, EnoughInv, SpacedInv, StaleInv,
         NEW v \in Version \cup {NoConf}, Change(v)
  PROVE  StaleInv'
<1>1. /\ etcd' = v /\ pending' = (pending \/ watched) /\ (Settled \/ etcd = NoConf)
      /\ UNCHANGED <<conf, st, table, reason, announced, lost, told, left, forkFails>>
  BY DEF Change, confVars, tableVars
<1>2. pending'
  BY <1>1 DEF Settled, SpacedInv, FreshInv
<1>3. FoundInv'
  BY <1>2 DEF FoundInv
<1>4. Servers' = Servers /\ Elders' = Elders /\ Quiet' = Quiet /\ left' = left
  BY <1>1 DEF Servers, Elders, TakeoverSent, Quiet
<1>5. CASE Settled
  <2>1. left = 0 /\ Quiet
    BY <1>5 DEF Settled, Quiet
  <2>2. AliveSet \subseteq Elders
    BY <1>5 DEF Settled, TableInv, AliveSet, Elders, Servers
  <2>3. Cardinality(Elders) + forkFails >= WorkerNum
    <3>1. Cardinality(AliveSet) <= Cardinality(Elders) /\ Cardinality(AliveSet) \in Nat
      BY <2>2, AliveFinite, EldersFinite, FS_Subset, FS_CardinalityType
    <3>2. forkFails \in Nat
      BY ConfAssumption DEF TypeOK
    <3> QED
      BY <2>1, <3>1, <3>2, EldersFinite, WorkerNumType DEF EnoughInv
  <2>4. QuietInv' /\ CrowdInv'
    BY <1>1, <1>4, <2>1, <2>3, WorkerNumType DEF QuietInv, CrowdInv
  <2> QED
    BY <1>3, <2>4 DEF StaleInv
<1>6. CASE etcd = NoConf
  <2>1. \A p \in Worker : Stale(p)' => Stale(p)
    BY <1>1, <1>6, WholeNotAbsent DEF Stale, SpacedInv, ServesWhole, Proc
  <2>2. QuietInv'
    BY <1>1, <1>4, <2>1 DEF StaleInv, QuietInv
  <2>3. CrowdInv'
    BY <1>1, <1>4, <2>1, WorkerNumType DEF StaleInv, CrowdInv, Servers
  <2> QED
    BY <1>3, <2>2, <2>3 DEF StaleInv
<1> QED
  BY <1>1, <1>5, <1>6

\* With spaced changes, every step keeps the three facts.
LEMMA StaleStep ==
  ASSUME SpacedChanges, TypeOK, TableInv, EnoughInv, ServingInv, SpacedInv, StaleInv, [Next]_vars
  PROVE  StaleInv'
<1>1. ASSUME NEW p \in Proc, Boot(p)
      PROVE  StaleInv'
  BY <1>1, BootStale
<1>2. CASE Watch \/ UNCHANGED vars
  <2>1. /\ UNCHANGED <<etcd, conf, table, reason, announced, lost, told, left, pending, forkFails>>
        /\ \A p \in Worker : st'[p] = st[p]
    BY <1>2 DEF Watch, MasterDies, TypeOK, Proc, Worker, Master,
           vars, envVars, confVars, tableVars, loopVars
  <2>2. /\ UNCHANGED <<Servers, Elders, Quiet>>
        /\ \A p \in Worker : Stale(p)' = Stale(p)
    BY <2>1 DEF Servers, Elders, TakeoverSent, Quiet, Stale, Whole
  <2> QED
    BY <2>1, <2>2, WorkerNumType DEF StaleInv, QuietInv, CrowdInv, FoundInv, Servers
<1> QED
  BY <1>1, <1>2, ForkStale, ReloadStale, AnnounceStale, LoseStale, QuitStale, ChangeStale DEF Next

-----------------------------------------------------------------------------
\* The types hold, spaced changes or not.
THEOREM TypeOKHolds == Spec => []TypeOK
BY ConfInit, TypeStep, PTL DEF Spec

\* Whatever dies while it boots, the alive workers, the forks the master still
\* has to make and the forks that have failed are together never fewer than the
\* pool, spaced changes or not.
THEOREM EnoughHolds == Spec => [](TableInv /\ EnoughInv)
BY ConfInit, TypeStep, TableStep, EnoughStep, PTL DEF Spec

\* The four facts hold with spaced changes.
LEMMA SpacedHolds ==
  ASSUME SpacedChanges
  PROVE  Spec => [](TypeOK /\ GotInv /\ SpacedInv)
<1>1. TypeOK /\ GotInv /\ SpacedInv /\ [Next]_vars => SpacedInv'
  BY SpacedStep
<1> QED
  BY <1>1, ConfInit, TypeStep, PTL DEF Spec

\* With spaced changes no process serves anything but one whole version,
\* however many processes write and read the file at the same time.
THEOREM ServesWholeHolds ==
  ASSUME SpacedChanges
  PROVE  Spec => []ServesWhole
<1>1. SpacedInv => ServesWhole
  BY DEF SpacedInv
<1> QED
  BY <1>1, SpacedHolds, PTL

\* With spaced changes, once the server has settled there are enough workers,
\* but for one for each failed fork, and each one serves what is in etcd.
THEOREM FreshHolds ==
  ASSUME SpacedChanges
  PROVE  Spec => []Fresh
<1>1. TypeOK /\ SpacedInv /\ TableInv /\ EnoughInv => Fresh
  <2> SUFFICES ASSUME TypeOK, SpacedInv, TableInv, EnoughInv, Settled
               PROVE  /\ Cardinality(AliveSet) + forkFails >= WorkerNum
                      /\ \A p \in Worker : table[p] = "alive" =>
                           st[p] = "serving" /\ conf[p] = Whole(etcd)
    BY DEF Fresh, AliveSet
  <2>1. Cardinality(AliveSet) + forkFails >= WorkerNum
    <3>1. left = 0
      BY DEF Settled
    <3>2. Cardinality(AliveSet) \in Nat /\ forkFails \in Nat
      BY AliveFinite, FS_CardinalityType, ConfAssumption DEF TypeOK
    <3> QED
      BY <3>1, <3>2, WorkerNumType DEF EnoughInv
  <2>2. ASSUME NEW p \in Worker, table[p] = "alive"
        PROVE  st[p] = "serving" /\ conf[p] = Whole(etcd)
    <3>1. st[p] = "serving" /\ ~pending
      BY <2>2 DEF Settled, TableInv
    <3> QED
      BY <2>2, <3>1 DEF SpacedInv, FreshInv
  <2> QED
    BY <2>1, <2>2
<1> QED
  BY <1>1, SpacedHolds, EnoughHolds, PTL

\* Spaced changes or not, what serves is in the table of the master.
LEMMA ServingHolds == Spec => []ServingInv
<1>1. Init => ServingInv
  BY DEF Init, ServingInv, Proc, Worker, Master
<1> QED
  BY <1>1, ConfInit, TypeStep, TableStep, ServingStep, PTL DEF Spec

\* The three facts hold with spaced changes.
LEMMA StaleHolds ==
  ASSUME SpacedChanges
  PROVE  Spec => []StaleInv
<1>1. Init => StaleInv
  BY DEF Init, StaleInv, QuietInv, CrowdInv, FoundInv, Stale, Servers, Proc, Worker, Master
<1>2. TypeOK /\ TableInv /\ EnoughInv /\ ServingInv /\ SpacedInv /\ StaleInv /\ [Next]_vars
        => StaleInv'
  BY StaleStep
<1> QED
  BY <1>1, <1>2, SpacedHolds, EnoughHolds, ServingHolds, PTL DEF Spec

\* With spaced changes, once the server has settled no worker serves an older
\* configuration if one takeover of the reload got through, whatever died while
\* booting, whatever other takeovers were lost, and although a fork may have failed.
THEOREM NoStaleHolds ==
  ASSUME SpacedChanges
  PROVE  Spec => []NoStale
<1>1. TypeOK /\ FoundInv => NoStale
  <2> SUFFICES ASSUME TypeOK, FoundInv, Settled, forkFails <= 1,
                      NEW p \in announced, table[p] = "alive",
                      NEW q \in Worker, st[q] = "serving"
               PROVE  conf[q] = Whole(etcd)
    BY DEF NoStale
  <2>1. ~pending /\ q \in Servers
    BY DEF Settled, Servers
  <2> QED
    BY <2>1 DEF FoundInv, Stale
<1> QED
  BY <1>1, StaleHolds, SpacedHolds, PTL DEF StaleInv
-----------------------------------------------------------------------------
(***************************************************************************)
(* WoxConf implements WorkerPool, spaced changes or not.  As in WoxProofs, *)
(* each action is named the move it makes.                                 *)
(***************************************************************************)
\* The workers that have announced themselves: they have come to serve.
Heralds == {p \in Worker : reason[p] = "reload" /\ st[p] \in {"serving", "gone"}}

\* A step that changes no status and lets nobody announce itself is a stutter.
LEMMA NobodyMoves ==
  ASSUME \A q \in Worker : PoolStatus(q)' = PoolStatus(q), Heralds' = Heralds
  PROVE  UNCHANGED Pool!poolVars
BY DEF Pool!poolVars, Heralds

\* When some workers change their status, WorkerPool makes a move.
LEMMA SomeMove ==
  ASSUME NEW S \in SUBSET Worker, NEW from, NEW to,
         \A q \in S : PoolStatus(q) \in from /\ PoolStatus(q)' = to,
         \A q \in Worker \ S : PoolStatus(q)' = PoolStatus(q)
  PROVE  Pool!Move(S, from, to)
BY DEF Pool!Move

\* A fork, in a loop or to replace a dead worker, spawns one worker or none.
LEMMA ForkSpawns ==
  ASSUME TypeOK, TableInv, NEW r \in {"start", "reload", "crash"}, NEW drop \in SUBSET Worker,
         \A p \in drop : st[p] = "dead",
         ForkAs(r, drop) \/ (ForkFails(drop) /\ (UNCHANGED st \/ MasterDies))
  PROVE  [Pool!PoolNext]_Pool!poolVars
<1>1. /\ (\E q \in Worker : Forked(q, drop)) \/ NotForked(drop)
      /\ told' = told
      /\ \A p \in Proc : st[p] # "unused" => reason'[p] = reason[p]
  BY ForkFrame
<1>2. CASE NotForked(drop)
  <2>1. \A p \in Worker : st'[p] = st[p] /\ table'[p] = IF p \in drop THEN "absent" ELSE table[p]
    BY <1>2 DEF NotForked, TypeOK, Proc, Worker, Master
  <2>2. \A p \in Worker : PoolStatus(p)' = PoolStatus(p)
    BY <1>1, <2>1 DEF PoolStatus
  <2>3. Heralds' = Heralds
    BY <1>1, <2>1 DEF Heralds, Proc
  <2> QED
    BY <2>2, <2>3, NobodyMoves
<1>3. CASE \E q \in Worker : Forked(q, drop)
  <2>1. PICK q \in Worker : Forked(q, drop)
    BY <1>3
  <2>2. /\ \A p \in Worker \ {q} : st'[p] = st[p]
        /\ \A p \in Worker \ {q} : table'[p] = IF p \in drop THEN "absent" ELSE table[p]
        /\ st[q] = "unused" /\ st'[q] = "get" /\ table'[q] = "alive" /\ q \notin told
    BY <2>1 DEF Forked, TypeOK, TableInv, Proc
  <2>3. PoolStatus(q) = "none" /\ PoolStatus(q)' = "active"
    BY <1>1, <2>2 DEF PoolStatus
  <2>4. \A p \in Worker \ {q} : PoolStatus(p)' = PoolStatus(p)
    BY <1>1, <2>2 DEF PoolStatus
  <2>5. Heralds' = Heralds
    BY <1>1, <2>2 DEF Heralds, Proc
  <2>6. Pool!Move({q}, {"none"}, "active")
    BY <2>3, <2>4, SomeMove
  <2>7. Pool!Spawn(q)
    BY <2>5, <2>6 DEF Pool!Spawn, Heralds
  <2> QED
    BY <2>7 DEF Pool!PoolNext
<1> QED
  BY <1>1, <1>2, <1>3

\* A process that boots goes on, dies, or comes to serve and by that announces
\* itself.
LEMMA BootMoves ==
  ASSUME TypeOK, NEW p \in Proc, Boot(p)
  PROVE  [Pool!PoolNext]_Pool!poolVars
<1>1. /\ UNCHANGED <<reason, table, told>>
      /\ st[p] \in {"get", "open", "write", "read"}
      /\ st'[p] \in {"open", "write", "read", "serving", "dead"}
      /\ \A q \in Worker \ {p} : st'[q] = st[q]
  <2>1. \E from \in {"get", "open", "write", "read"}, to \in {"open", "write", "read", "serving", "dead"} :
          Goes(p, from, to) /\ UNCHANGED tableVars
    BY DEF Boot, Get, Open, Write, ReadConf, Fails
  <2>2. PICK from \in {"get", "open", "write", "read"}, to \in {"open", "write", "read", "serving", "dead"} :
          Goes(p, from, to) /\ UNCHANGED tableVars
    BY <2>1
  <2>3. st \in [Proc -> {"unused", "get", "open", "write", "read", "serving", "dead", "gone"}]
    BY DEF TypeOK
  <2> QED
    BY <2>2, <2>3 DEF Goes, tableVars, Proc
<1>2. \A q \in Worker \ {p} : PoolStatus(q)' = PoolStatus(q)
  BY <1>1 DEF PoolStatus
<1>3. CASE p \notin Worker
  <2>1. \A q \in Worker : PoolStatus(q)' = PoolStatus(q)
    BY <1>2, <1>3
  <2>2. Heralds' = Heralds
    BY <1>1, <1>3 DEF Heralds
  <2> QED
    BY <2>1, <2>2, NobodyMoves
<1>4. CASE p \in Worker /\ st'[p] = "dead"
  <2>1. PoolStatus(p) \in Pool!Present /\ PoolStatus(p)' = "gone"
    BY <1>1, <1>4 DEF PoolStatus, Pool!Present
  <2>2. Heralds' = Heralds
    BY <1>1, <1>4 DEF Heralds
  <2>3. Pool!Move({p}, Pool!Present, "gone")
    BY <1>2, <1>4, <2>1, SomeMove
  <2>4. Pool!Leave(p)
    BY <2>2, <2>3 DEF Pool!Leave, Heralds
  <2> QED
    BY <1>4, <2>4 DEF Pool!PoolNext
<1>5. CASE p \in Worker /\ st'[p] # "dead"
  <2>1. PoolStatus(p) \in Pool!Present /\ PoolStatus(p)' = PoolStatus(p)
    BY <1>1, <1>5 DEF PoolStatus, Pool!Present
  <2>2. \A q \in Worker : PoolStatus(q)' = PoolStatus(q)
    BY <1>2, <2>1
  <2>3. CASE st'[p] = "serving" /\ reason[p] = "reload"
    <3>1. Heralds' = Heralds \cup {p}
      BY <1>1, <1>5, <2>3 DEF Heralds
    <3>2. Pool!Announce(p)
      BY <1>5, <2>1, <2>2, <3>1 DEF Pool!Announce, Heralds
    <3> QED
      BY <1>5, <3>2 DEF Pool!PoolNext
  <2>4. CASE ~(st'[p] = "serving" /\ reason[p] = "reload")
    <3>1. Heralds' = Heralds
      BY <1>1, <1>5, <2>4 DEF Heralds
    <3> QED
      BY <2>2, <3>1, NobodyMoves
  <2> QED
    BY <2>3, <2>4
<1> QED
  BY <1>3, <1>4, <1>5

\* A reload supersedes all the workers that are active and alive in the table.
LEMMA ReloadSupersedes ==
  ASSUME TypeOK, Reload
  PROVE  Pool!PoolNext
<1> DEFINE S == {q \in Worker : PoolStatus(q) = "active" /\ table[q] = "alive"}
<1>1. /\ UNCHANGED <<st, reason, told>>
      /\ \A q \in Worker : table'[q] = IF table[q] = "alive" /\ st[q] # "dead" THEN "reload" ELSE table[q]
  BY DEF Reload, Proc
<1>2. \A q \in S : PoolStatus(q) \in {"active"} /\ PoolStatus(q)' = "superseded"
  BY <1>1 DEF PoolStatus
<1>3. \A q \in Worker \ S : PoolStatus(q)' = PoolStatus(q)
  BY <1>1 DEF PoolStatus
<1>4. Heralds' = Heralds
  BY <1>1 DEF Heralds
<1>5. S \in SUBSET Worker
  OBVIOUS
<1> HIDE DEF S
<1>6. Pool!Move(S, {"active"}, "superseded")
  BY <1>2, <1>3, <1>5, SomeMove
<1>7. Pool!Supersede(S)
  BY <1>4, <1>6 DEF Pool!Supersede, Heralds
<1>8. S \in SUBSET {p \in Worker : [q \in Worker |-> PoolStatus(q)][p] \in {"active", "superseded"}}
  BY <1>2, <1>5
<1> QED
  BY <1>7, <1>8 DEF Pool!PoolNext

\* A takeover tells workers that a reload has superseded, after one that
\* serves has announced itself, or nobody.
LEMMA AnnounceTells ==
  ASSUME TypeOK, NEW p \in Worker, Announce(p)
  PROVE  [Pool!PoolNext]_Pool!poolVars
<1> DEFINE S == {q \in Worker : PoolStatus(q) = "superseded"}
<1>1. UNCHANGED <<st, reason, table>> /\ p \in Heralds
  BY DEF Announce, TakeoverSent, Heralds
<1>2. Heralds' = Heralds
  BY <1>1 DEF Heralds
<1>3. CASE told' = told
  BY <1>1, <1>2, <1>3, NobodyMoves DEF PoolStatus
<1>4. CASE told' = told \cup {q \in Worker : table[q] = "reload"}
  <2>1. \A q \in S : PoolStatus(q) \in {"superseded"} /\ PoolStatus(q)' = "told"
    BY <1>1, <1>4 DEF PoolStatus
  <2>2. \A q \in Worker \ S : PoolStatus(q)' = PoolStatus(q)
    BY <1>1, <1>4 DEF PoolStatus
  <2>3. S \in SUBSET Worker
    OBVIOUS
  <2> HIDE DEF S
  <2>4. Pool!Move(S, {"superseded"}, "told")
    BY <2>1, <2>2, <2>3, SomeMove
  <2>5. Pool!Tell(S)
    BY <1>1, <1>2, <2>4 DEF Pool!Tell, Heralds
  <2>6. S \in SUBSET {r \in Worker : [q \in Worker |-> PoolStatus(q)][r] \in {"active", "superseded"}}
    BY <2>1, <2>3
  <2> QED
    BY <2>5, <2>6 DEF Pool!PoolNext
<1> QED
  BY <1>3, <1>4 DEF Announce

\* A worker that was told and ends leaves.
LEMMA QuitLeaves ==
  ASSUME TypeOK, NEW p \in Worker, Quit(p)
  PROVE  Pool!PoolNext
<1>1. /\ UNCHANGED <<reason, told>> /\ p \in told
      /\ st[p] = "serving" /\ st'[p] = "gone"
      /\ \A q \in Worker \ {p} : st'[q] = st[q] /\ table'[q] = table[q]
  BY DEF Quit, Goes, TypeOK, Proc
<1>2. PoolStatus(p) \in Pool!Present /\ PoolStatus(p)' = "gone"
  BY <1>1 DEF PoolStatus, Pool!Present
<1>3. \A q \in Worker \ {p} : PoolStatus(q)' = PoolStatus(q)
  BY <1>1 DEF PoolStatus
<1>4. Heralds' = Heralds
  BY <1>1 DEF Heralds
<1>5. Pool!Move({p}, Pool!Present, "gone")
  BY <1>2, <1>3, SomeMove
<1>6. Pool!Leave(p)
  BY <1>4, <1>5 DEF Pool!Leave, Heralds
<1> QED
  BY <1>6 DEF Pool!PoolNext

\* Every step of WoxConf is a step of WorkerPool or leaves its variables alone.
LEMMA ConfPoolStep == TypeOK /\ TableInv /\ [Next]_vars => [Pool!PoolNext]_Pool!poolVars
<1> SUFFICES ASSUME TypeOK, TableInv, [Next]_vars
             PROVE  [Pool!PoolNext]_Pool!poolVars
  OBVIOUS
<1>1. CASE Fork
  <2>1. /\ ForkAs(why, {}) \/ (ForkFails({}) /\ (UNCHANGED st \/ MasterDies))
        /\ why \in {"start", "reload", "crash"} /\ {} \in SUBSET Worker
    BY <1>1 DEF Fork, TypeOK
  <2> QED
    BY <2>1, ForkSpawns
<1>2. ASSUME NEW p \in Worker, Replace(p)
      PROVE  [Pool!PoolNext]_Pool!poolVars
  <2>1. /\ ForkAs("crash", {p}) \/ (ForkFails({p}) /\ (UNCHANGED st \/ MasterDies))
        /\ \A q \in {p} : st[q] = "dead"
        /\ {p} \in SUBSET Worker
    BY <1>2 DEF Replace
  <2> QED
    BY <2>1, ForkSpawns
<1>3. ASSUME UNCHANGED <<st, reason, table, told>>
      PROVE  UNCHANGED Pool!poolVars
  BY <1>3, NobodyMoves DEF PoolStatus, Heralds
<1>4. CASE Watch
  <2>1. \A q \in Worker : st'[q] = st[q] /\ reason'[q] = reason[q] /\ table'[q] = table[q]
    BY <1>4 DEF Watch, MasterDies, TypeOK, tableVars, Proc, Worker, Master
  <2>2. told' = told
    BY <1>4 DEF Watch, tableVars
  <2>3. (\A q \in Worker : PoolStatus(q)' = PoolStatus(q)) /\ Heralds' = Heralds
    BY <2>1, <2>2 DEF PoolStatus, Heralds
  <2> QED
    BY <2>3, NobodyMoves
<1>5. ASSUME NEW v \in Version \cup {NoConf}, Change(v)
      PROVE  UNCHANGED Pool!poolVars
  BY <1>3, <1>5 DEF Change, tableVars
<1>6. ASSUME NEW p \in Worker, LoseTakeover(p)
      PROVE  UNCHANGED Pool!poolVars
  BY <1>3, <1>6 DEF LoseTakeover
<1>7. CASE UNCHANGED vars
  BY <1>3, <1>7 DEF vars, tableVars
<1> QED
  BY <1>1, <1>2, <1>4, <1>5, <1>7, <1>6, BootMoves, ReloadSupersedes, AnnounceTells, QuitLeaves DEF Next

\* The master of WoxConf keeps the promise of WorkerPool, for any number of
\* workers and changes, also changes that come while processes boot: nobody is
\* told to quit before a reload has superseded it and a worker of a reload
\* serves.
THEOREM ConfImplementsPool == Spec => ImplementsPool
<1>1. Init => Pool!PoolInit
  <2> SUFFICES ASSUME Init PROVE Pool!PoolInit
    OBVIOUS
  <2>1. \A p \in Worker : st[p] = "unused"
    BY DEF Init, Proc, Worker, Master
  <2>2. \A p \in Worker : PoolStatus(p) = "none"
    BY <2>1 DEF PoolStatus
  <2>3. Heralds = {}
    BY <2>1 DEF Heralds
  <2> QED
    BY <2>2, <2>3 DEF Pool!PoolInit, Heralds
<1> QED
  BY <1>1, ConfPoolStep, TypeOKHolds, EnoughHolds, PTL DEF Spec, ImplementsPool, Pool!PoolSpec
=============================================================================

----------------------------- MODULE WoxProofs ------------------------------
(***************************************************************************)
(* Proofs about Wox, for every set of pids, every number of workers and    *)
(* watched targets, and every bound.  The first part proves the inductive  *)
(* invariant, with one step per action.  The second part shows that Wox    *)
(* implements WorkerPool: the initial states map to initial states and     *)
(* every step maps to a step of WorkerPool or leaves its variables alone.  *)
(* The third is about the size of the pool, the fourth about the key of    *)
(* the server in the registry.                                             *)
(***************************************************************************)
EXTENDS WoxNaming, FiniteSetTheorems, TLAPS

\* The two lemmas below describe the operators several actions share.

\* The caller's loop after fork returns stays in its bounds, touches no other
\* thread, and reaches a deletion only in watchChildren.
LEMMA ForkReturnsFrame ==
  ASSUME TypeOK, LoopInv, NEW t \in Thread, pc[t] = "fork", ForkReturns(t)
  PROVE  /\ left' \in [Thread -> 0..WorkerNum]
         /\ pc' \in [Thread -> PcState]
         /\ LoopInv'
         /\ pc'[t] \in {"idle", "fork", "delete"}
         /\ pc'[t] = "delete" => t = "watchChildren"
         /\ \A u \in Thread \ {t} : pc'[u] = pc[u]
<1>1. left[t] - 1 \in 0..WorkerNum /\ left[t] \in Nat
  BY MasterAssumption DEF TypeOK, MasterTypeOK, LoopInv
<1>2. CASE left[t] > 1
  <2>1. pc' = [pc EXCEPT ![t] = "fork"] /\ left' = [left EXCEPT ![t] = left[t] - 1]
    BY <1>2 DEF ForkReturns
  <2> QED
    BY <1>1, <1>2, <2>1 DEF TypeOK, MasterTypeOK, LoopInv, PcState
<1>3. CASE ~(left[t] > 1) /\ t = "watchChildren"
  <2>1. pc' = [pc EXCEPT ![t] = "delete"] /\ left' = [left EXCEPT ![t] = left[t] - 1]
    BY <1>3 DEF ForkReturns
  <2> QED
    BY <1>1, <1>3, <2>1 DEF TypeOK, MasterTypeOK, LoopInv, PcState
<1>4. CASE ~(left[t] > 1) /\ t # "watchChildren"
  <2>1. pc' = [pc EXCEPT ![t] = "idle"] /\ left' = [left EXCEPT ![t] = left[t] - 1]
    BY <1>4 DEF ForkReturns
  <2> QED
    BY <1>1, <1>4, <2>1 DEF TypeOK, MasterTypeOK, LoopInv, PcState
<1> QED
  BY <1>2, <1>3, <1>4

\* A visit of notifyWorker tells at most the worker it visits, and only if its
\* state is one of those asked for and its connection is known.
LEMMA NotifyWorkerFrame ==
  ASSUME TypeOK, NEW q \in Pid, NEW states, NotifyWorker(q, states)
  PROVE  /\ quitMsg' \in [Pid -> MsgState]
         /\ \A p \in Pid :
              quitMsg'[p] # "none" =>
                quitMsg[p] # "none" \/ (p = q /\ children[q] \in states /\ q \in uc)
BY DEF TypeOK, ProcTypeOK, MsgState, NotifyWorker, SendQuit

\* A visit of notifyWorker preserves the invariant if it is for the workers in
\* state reload or if the master is stopping gracefully.
LEMMA NotifyStep ==
  ASSUME TypeOK, TableInv, NEW q \in Pid, NEW states,
         NotifyWorker(q, states),
         UNCHANGED <<masterUp, wk, takeover, tableVars, pc, held, left, dead>>,
         "alive" \notin states \/ pc["watchSignal"] = "quitAll"
  PROVE  TableInv'
<1>1. \A p \in Pid : quitMsg'[p] # "none" =>
        quitMsg[p] # "none" \/ (p = q /\ children[q] \in states /\ q \in uc)
  BY NotifyWorkerFrame
<1>2. UNCHANGED <<masterUp, wk, takeover, children, uc, waiting, pc, held, left, dead>>
  BY DEF tableVars
<1>3. ForkInv'
  <2>1. SUFFICES ASSUME NEW t \in Thread, pc[t] = "fork", held[t] # NoPid
                 PROVE  quitMsg'[held[t]] = "none"
    BY <1>2, <2>1 DEF TableInv, ForkInv, Told
  <2>2. held[t] \in Pid /\ held[t] \notin uc /\ quitMsg[held[t]] = "none"
    BY <2>1 DEF TableInv, ForkInv, Told, TypeOK, MasterTypeOK
  <2> QED
    BY <1>1, <2>2
<1>4. LoopInv' /\ HeldInv' /\ DeathInv' /\ TableTracksRunning' /\ AliveIsWaited'
  BY <1>2 DEF TableInv, LoopInv, HeldInv, DeathInv, TableTracksRunning, AliveIsWaited,
              Running, Exited, InFork
<1>5. UnusedInv'
  BY <1>1, <1>2 DEF TableInv, UnusedInv, Told
<1>6. AliveNotTold'
  BY <1>1, <1>2 DEF TableInv, AliveNotTold, Told
<1> QED
  BY <1>3, <1>4, <1>5, <1>6 DEF TableInv

\* A process that is killed was forked: HeldInv is about existence only.
LEMMA HeldStep ==
  ASSUME TypeOK, HeldInv, UNCHANGED <<pc, held>>,
         \A p \in Pid : wk'[p] = "unused" => wk[p] = "unused"
  PROVE  HeldInv'
BY DEF TypeOK, MasterTypeOK, HeldInv

\* A thread that moves to another point of the program keeps pc well typed.
LEMMA PcType ==
  ASSUME TypeOK, NEW t \in Thread, NEW to \in PcState, pc' = [pc EXCEPT ![t] = to]
  PROVE  pc' \in [Thread -> PcState]
BY DEF TypeOK, MasterTypeOK

-----------------------------------------------------------------------------
\* Every step preserves the type invariant and the bounds of the fork loops.
LEMMA TypeStep ==
  ASSUME TypeOK, LoopInv, [Next]_vars
  PROVE  TypeOK' /\ LoopInv'
<1> USE PidAssumption, MasterAssumption, CrashAssumption
    DEF TypeOK, ProcTypeOK, MasterTypeOK, WorkerTypeOK, LoopInv, MsgState, ChildState, PcState,
        NoPid, Thread, vars, procVars, masterVars, tableVars, readerVars,
        threadVars, boundVars
<1>1. ASSUME NEW t \in Thread, NEW p \in Pid, ForkExec(t, p), masterUp, UNCHANGED crashes
      PROVE  TypeOK' /\ LoopInv'
  BY <1>1 DEF ForkExec, NextPid, ForkReason
<1>2. ASSUME NEW t \in Thread, ForkStore(t), masterUp, UNCHANGED crashes
      PROVE  TypeOK' /\ LoopInv'
  <2>1. pc[t] = "fork" /\ ForkReturns(t)
    BY <1>2 DEF ForkStore
  <2>2. /\ left' \in [Thread -> 0..WorkerNum]
        /\ pc' \in [Thread -> PcState]
        /\ LoopInv'
    BY <2>1, ForkReturnsFrame
  <2>3. ProcTypeOK' /\ WorkerTypeOK'
    BY <1>2 DEF ForkStore
  <2>4. held[t] \in Pid
    BY <1>2 DEF ForkStore
  <2>5. /\ children' \in [Pid -> ChildState] /\ reader' \in [Pid -> {"off", "read", "enough", "notify"}]
        /\ uc' \subseteq Pid /\ waiting' \subseteq Pid /\ held' \in [Thread -> Pid \cup {NoPid}]
    <3>1. children' \in [Pid -> ChildState]
      BY <1>2, <2>4 DEF ForkStore
    <3>2. reader' \in [Pid -> {"off", "read", "enough", "notify"}]
      BY <1>2, <2>4 DEF ForkStore
    <3>3. uc' \subseteq Pid /\ waiting' \subseteq Pid
      <4>1. uc' = uc \cup {held[t]} /\ waiting' = waiting \cup {held[t]}
        BY <1>2 DEF ForkStore
      <4>2. uc \subseteq Pid /\ waiting \subseteq Pid
        OBVIOUS
      <4> HIDE DEF TypeOK, ProcTypeOK, MasterTypeOK, WorkerTypeOK
      <4> QED
        BY <2>4, <4>1, <4>2
    <3>4. held' = [held EXCEPT ![t] = NoPid]
      BY <1>2 DEF ForkStore
    <3>5. held' \in [Thread -> Pid \cup {NoPid}]
      BY <3>4
    <3> QED
      BY <3>1, <3>2, <3>3, <3>5
  <2>6. UNCHANGED <<rtodo, todo, dead, boundVars>>
    BY <1>2 DEF ForkStore
  <2> QED
    BY <2>2, <2>3, <2>5, <2>6
<1>3. ASSUME NEW t \in Thread, NEW p \in Pid, ReloadLoad(t, p), masterUp, UNCHANGED crashes
      PROVE  TypeOK' /\ LoopInv'
  BY <1>3 DEF ReloadLoad
<1>4. ASSUME NEW t \in Thread, ReloadStore(t), masterUp, UNCHANGED crashes
      PROVE  TypeOK' /\ LoopInv'
  BY <1>4 DEF ReloadStore
<1>5. ASSUME NEW t \in Thread, ReloadMarked(t), masterUp, UNCHANGED crashes
      PROVE  TypeOK' /\ LoopInv'
  BY <1>5 DEF ReloadMarked
<1>6. ASSUME NEW p \in Pid, VisitDead(p), masterUp, UNCHANGED crashes
      PROVE  TypeOK' /\ LoopInv'
  <2>1. "watchChildren" \in Thread \ Reloader /\ 1 \in 0..WorkerNum
    BY DEF Reloader
  <2>2. CASE children[p] = "crash"
    <3>1. pc' = [pc EXCEPT !["watchChildren"] = "fork"]
      BY <1>6, <2>2 DEF VisitDead
    <3>2. pc' \in [Thread -> PcState]
      BY <2>1, <3>1, PcType
    <3>3. left' = [left EXCEPT !["watchChildren"] = 1]
      BY <1>6, <2>2 DEF VisitDead
    <3>4. left \in [Thread -> 0..WorkerNum]
      OBVIOUS
    <3>5. left' \in [Thread -> 0..WorkerNum]
      BY <2>1, <3>3, <3>4
    <3>6. LoopInv'
      BY <2>1, <3>1, <3>3
    <3> QED
      BY <1>6, <3>2, <3>5, <3>6 DEF VisitDead
  <2>3. CASE children[p] # "crash"
    <3>1. pc' = [pc EXCEPT !["watchChildren"] = "delete"] /\ UNCHANGED left
      BY <1>6, <2>3 DEF VisitDead
    <3>2. pc' \in [Thread -> PcState]
      BY <2>1, <3>1, PcType
    <3>3. LoopInv'
      BY <2>1, <3>1
    <3> QED
      BY <1>6, <3>1, <3>2, <3>3 DEF VisitDead
  <2> QED
    BY <2>2, <2>3
<1>7. ASSUME DeleteDead, masterUp, UNCHANGED crashes
      PROVE  TypeOK' /\ LoopInv'
  BY <1>7 DEF DeleteDead
<1>8. ASSUME NEW p \in Pid, WaitWorker(p), masterUp, UNCHANGED crashes
      PROVE  TypeOK' /\ LoopInv'
  BY <1>8 DEF WaitWorker, Exited
<1>9. ASSUME NEW p \in Pid, ReadTakeover(p), masterUp, UNCHANGED crashes
      PROVE  TypeOK' /\ LoopInv'
  BY <1>9 DEF ReadTakeover
<1>10. ASSUME NEW p \in Pid, NotifyStart(p), masterUp, UNCHANGED crashes
      PROVE  TypeOK' /\ LoopInv'
  BY <1>10 DEF NotifyStart, Keys
<1>11. ASSUME NEW p \in Pid, NEW q \in Pid, NotifyReload(p, q), masterUp, UNCHANGED crashes
      PROVE  TypeOK' /\ LoopInv'
  BY <1>11 DEF NotifyReload, NotifyWorker, SendQuit
<1>12. ASSUME MasterExit, masterUp, UNCHANGED crashes
      PROVE  TypeOK' /\ LoopInv'
  BY <1>12 DEF MasterExit
<1>13. ASSUME NEW q \in Pid, GracefulNotify(q), masterUp, UNCHANGED crashes
      PROVE  TypeOK' /\ LoopInv'
  BY <1>13 DEF GracefulNotify, NotifyWorker, SendQuit
<1>14. ASSUME NEW q \in Pid, RoughKill(q), masterUp, UNCHANGED crashes
      PROVE  TypeOK' /\ LoopInv'
  BY <1>14 DEF RoughKill, Running
<1>15. ASSUME NEW t \in Thread, ForkFails(t), masterUp, UNCHANGED crashes
      PROVE  TypeOK' /\ LoopInv'
  <2>1. CASE t = "main"
    <3>1. ProcTypeOK' /\ WorkerTypeOK'
      BY <1>15, <2>1 DEF ForkFails
    <3>2. MasterTypeOK'
      BY <1>15, <2>1 DEF ForkFails
    <3>3. LoopInv'
      BY <1>15, <2>1 DEF ForkFails
    <3> QED
      BY <3>1, <3>2, <3>3
  <2>2. CASE t # "main"
    <3>1. pc[t] = "fork" /\ ForkReturns(t)
      BY <1>15, <2>2 DEF ForkFails
    <3>2. /\ left' \in [Thread -> 0..WorkerNum]
          /\ pc' \in [Thread -> PcState]
          /\ LoopInv'
      BY <3>1, ForkReturnsFrame
    <3> QED
      BY <1>15, <2>2, <3>2 DEF ForkFails
  <2> QED
    BY <2>1, <2>2
<1>16. ASSUME NEW t \in Reloader, Reload(t), masterUp, UNCHANGED crashes
      PROVE  TypeOK' /\ LoopInv'
  BY <1>16 DEF Reload, Started, Keys, Reloader
<1>17. ASSUME NEW p \in Pid, LoseTakeover(p), masterUp, UNCHANGED crashes
      PROVE  TypeOK' /\ LoopInv'
  BY <1>17 DEF LoseTakeover
<1>18. ASSUME Graceful, masterUp, UNCHANGED crashes
      PROVE  TypeOK' /\ LoopInv'
  BY <1>18 DEF Graceful, StopSignalRead, Started, Keys
<1>19. ASSUME Rough, masterUp, UNCHANGED crashes
      PROVE  TypeOK' /\ LoopInv'
  BY <1>19 DEF Rough, StopSignalRead, Started, Keys
<1>20. ASSUME MasterKilled, masterUp, UNCHANGED crashes
      PROVE  TypeOK' /\ LoopInv'
  BY <1>20 DEF MasterKilled
<1>21. ASSUME NEW p \in Pid, StartGoroutines(p), UNCHANGED masterVars
      PROVE  TypeOK' /\ LoopInv'
  BY <1>21 DEF StartGoroutines
<1>22. ASSUME NEW p \in Pid, NotifyMaster(p), UNCHANGED masterVars
      PROVE  TypeOK' /\ LoopInv'
  BY <1>22 DEF NotifyMaster
<1>23. ASSUME NEW p \in Pid, ReadQuit(p), UNCHANGED masterVars
      PROVE  TypeOK' /\ LoopInv'
  BY <1>23 DEF ReadQuit, Serving
<1>24. ASSUME NEW p \in Pid, End(p), UNCHANGED masterVars
      PROVE  TypeOK' /\ LoopInv'
  BY <1>24 DEF End
<1>25. ASSUME NEW p \in Pid, WatchMaster(p), UNCHANGED masterVars
      PROVE  TypeOK' /\ LoopInv'
  BY <1>25 DEF WatchMaster, Serving
<1>26. ASSUME NEW p \in Pid, Crash(p), UNCHANGED masterVars
      PROVE  TypeOK' /\ LoopInv'
  BY <1>26 DEF Crash, Running
<1>27. CASE UNCHANGED vars
  BY <1>27
<1> QED
  BY <1>1, <1>2, <1>3, <1>4, <1>5, <1>6, <1>7, <1>8, <1>9, <1>10, <1>11, <1>12, <1>13,
     <1>14, <1>15, <1>16, <1>17, <1>18, <1>19, <1>20, <1>21, <1>22, <1>23, <1>24, <1>25, <1>26, <1>27 DEF Next, MasterStep, ThreadStep,
     WatchChildrenStep, ReaderStep, StopStep, Environment, MasterEnvironment, WorkerStep

\* Every step preserves the inductive invariant.
LEMMA InvStep ==
  ASSUME TypeOK, TableInv, TypeOK', LoopInv', Next
  PROVE  TableInv'
<1> USE PidAssumption, MasterAssumption, CrashAssumption
    DEF TypeOK, ProcTypeOK, MasterTypeOK, WorkerTypeOK, MsgState, ChildState, PcState, NoPid,
        Thread, vars, procVars, masterVars, tableVars, readerVars, threadVars, 
        boundVars,
        TableInv, HeldInv, ForkInv, UnusedInv, DeathInv, TableTracksRunning, AliveNotTold,
        AliveIsWaited, Running, Exited, InFork, Told
<1>1. ASSUME NEW t \in Thread, NEW p \in Pid, ForkExec(t, p), masterUp, UNCHANGED crashes
      PROVE  TableInv'
  BY <1>1 DEF ForkExec, NextPid, ForkReason
<1>2. ASSUME NEW t \in Thread, ForkStore(t), masterUp, UNCHANGED crashes
      PROVE  TableInv'
  BY <1>2 DEF ForkStore, ForkReturns
<1>3. ASSUME NEW t \in Thread, NEW p \in Pid, ReloadLoad(t, p), masterUp, UNCHANGED crashes
      PROVE  TableInv'
  BY <1>3 DEF ReloadLoad
<1>4. ASSUME NEW t \in Thread, ReloadStore(t), masterUp, UNCHANGED crashes
      PROVE  TableInv'
  BY <1>4 DEF ReloadStore
<1>5. ASSUME NEW t \in Thread, ReloadMarked(t), masterUp, UNCHANGED crashes
      PROVE  TableInv'
  <2>1. t # "watchChildren"
    BY <1>5 DEF ReloadMarked, LoopInv, Reloader
  <2>2. pc'["watchChildren"] = pc["watchChildren"] /\ UNCHANGED <<tableVars, wk, dead>>
    BY <1>5, <2>1 DEF ReloadMarked
  <2>3. DeathInv'
    BY <2>2
  <2>4. LoopInv' /\ HeldInv' /\ ForkInv' /\ UnusedInv'
    BY <1>5 DEF ReloadMarked
  <2>5. TableTracksRunning' /\ AliveNotTold' /\ AliveIsWaited'
    BY <1>5 DEF ReloadMarked
  <2> QED
    BY <2>3, <2>4, <2>5
<1>6. ASSUME NEW p \in Pid, VisitDead(p), masterUp, UNCHANGED crashes
      PROVE  TableInv'
  BY <1>6 DEF VisitDead, Started
<1>7. ASSUME DeleteDead, masterUp, UNCHANGED crashes
      PROVE  TableInv'
  BY <1>7 DEF DeleteDead
<1>8. ASSUME NEW p \in Pid, WaitWorker(p), masterUp, UNCHANGED crashes
      PROVE  TableInv'
  BY <1>8 DEF WaitWorker, Exited
<1>9. ASSUME NEW p \in Pid, ReadTakeover(p), masterUp, UNCHANGED crashes
      PROVE  TableInv'
  BY <1>9 DEF ReadTakeover
<1>10. ASSUME NEW p \in Pid, NotifyStart(p), masterUp, UNCHANGED crashes
      PROVE  TableInv'
  BY <1>10 DEF NotifyStart, Keys
<1>11. ASSUME NEW p \in Pid, NEW q \in Pid, NotifyReload(p, q), masterUp, UNCHANGED crashes
      PROVE  TableInv'
  <2>1. NotifyWorker(q, {"reload"}) /\ UNCHANGED <<masterUp, wk, takeover, tableVars, pc, held, left, dead>>
    BY <1>11 DEF NotifyReload
  <2> QED
    BY <1>11, <2>1, NotifyStep DEF NotifyReload
<1>12. ASSUME MasterExit, masterUp, UNCHANGED crashes
      PROVE  TableInv'
  BY <1>12 DEF MasterExit
<1>13. ASSUME NEW q \in Pid, GracefulNotify(q), masterUp, UNCHANGED crashes
      PROVE  TableInv'
  <2>1. NotifyWorker(q, {"alive", "reload"}) /\ UNCHANGED <<masterUp, wk, takeover, tableVars, pc, held, left, dead>>
    BY <1>13 DEF GracefulNotify
  <2> QED
    BY <1>13, <2>1, NotifyStep DEF GracefulNotify
<1>14. ASSUME NEW q \in Pid, RoughKill(q), masterUp, UNCHANGED crashes
      PROVE  TableInv'
  <2>1. /\ \A p \in Pid : wk'[p] = "unused" => wk[p] = "unused"
        /\ UNCHANGED <<pc, held>>
    BY <1>14 DEF RoughKill
  <2>2. HeldInv'
    BY <2>1, HeldStep
  <2>3. LoopInv' /\ ForkInv' /\ UnusedInv' /\ DeathInv'
    BY <1>14 DEF RoughKill
  <2>4. TableTracksRunning' /\ AliveNotTold' /\ AliveIsWaited'
    BY <1>14 DEF RoughKill
  <2> QED
    BY <2>2, <2>3, <2>4
<1>15. ASSUME NEW t \in Thread, ForkFails(t), masterUp, UNCHANGED crashes
      PROVE  TableInv'
  <2>1. CASE t = "main"
    BY <1>15, <2>1 DEF ForkFails
  <2>2. CASE t # "main"
    <3>1. pc[t] = "fork" /\ held[t] = NoPid /\ ForkReturns(t)
      BY <1>15, <2>2 DEF ForkFails
    <3>2. /\ pc'[t] \in {"idle", "fork", "delete"}
          /\ pc'[t] = "delete" => t = "watchChildren"
          /\ \A u \in Thread \ {t} : pc'[u] = pc[u]
      BY <3>1, ForkReturnsFrame
    <3>3. UNCHANGED <<procVars, tableVars, held, dead>>
      BY <1>15, <2>2 DEF ForkFails
    <3>4. HeldInv'
      BY <3>1, <3>2, <3>3
    <3>5. ForkInv'
      BY <3>1, <3>2, <3>3
    <3>6. UnusedInv'
      BY <3>1, <3>2, <3>3
    <3>7. DeathInv'
      BY <3>1, <3>2, <3>3
    <3>8. TableTracksRunning'
      BY <3>1, <3>2, <3>3
    <3>9. AliveNotTold'
      BY <3>1, <3>2, <3>3
    <3>10. AliveIsWaited'
      BY <3>1, <3>2, <3>3
    <3> QED
      BY <1>15, <3>4, <3>5, <3>6, <3>7, <3>8, <3>9, <3>10
  <2> QED
    BY <2>1, <2>2
<1>16. ASSUME NEW t \in Reloader, Reload(t), masterUp, UNCHANGED crashes
      PROVE  TableInv'
  BY <1>16 DEF Reload, Started, Keys, Reloader
<1>17. ASSUME NEW p \in Pid, LoseTakeover(p), masterUp, UNCHANGED crashes
      PROVE  TableInv'
  BY <1>17 DEF LoseTakeover
<1>18. ASSUME Graceful, masterUp, UNCHANGED crashes
      PROVE  TableInv'
  BY <1>18 DEF Graceful, StopSignalRead, Started, Keys
<1>19. ASSUME Rough, masterUp, UNCHANGED crashes
      PROVE  TableInv'
  BY <1>19 DEF Rough, StopSignalRead, Started, Keys
<1>20. ASSUME MasterKilled, masterUp, UNCHANGED crashes
      PROVE  TableInv'
  BY <1>20 DEF MasterKilled
<1>21. ASSUME NEW p \in Pid, StartGoroutines(p), UNCHANGED masterVars
      PROVE  TableInv'
  BY <1>21 DEF StartGoroutines
<1>22. ASSUME NEW p \in Pid, NotifyMaster(p), UNCHANGED masterVars
      PROVE  TableInv'
  BY <1>22 DEF NotifyMaster
<1>23. ASSUME NEW p \in Pid, ReadQuit(p), UNCHANGED masterVars
      PROVE  TableInv'
  BY <1>23 DEF ReadQuit, Serving
<1>24. ASSUME NEW p \in Pid, End(p), UNCHANGED masterVars
      PROVE  TableInv'
  BY <1>24 DEF End
<1>25. ASSUME NEW p \in Pid, WatchMaster(p), UNCHANGED masterVars
      PROVE  TableInv'
  BY <1>25 DEF WatchMaster, Serving
<1>26. ASSUME NEW p \in Pid, Crash(p), UNCHANGED masterVars
      PROVE  TableInv'
  BY <1>26 DEF Crash, Running
<1> QED
  BY <1>1, <1>2, <1>3, <1>4, <1>5, <1>6, <1>7, <1>8, <1>9, <1>10, <1>11, <1>12, <1>13,
     <1>14, <1>15, <1>16, <1>17, <1>18, <1>19, <1>20, <1>21, <1>22, <1>23, <1>24, <1>25, <1>26 DEF Next, MasterStep, ThreadStep,
     WatchChildrenStep, ReaderStep, StopStep, Environment, MasterEnvironment, WorkerStep

-----------------------------------------------------------------------------
\* In every state each variable has its type: the loops of fork count down to
\* zero and no further, each pid held by a goroutine is a process's.
THEOREM TypeCorrect == Spec => [](TypeOK /\ LoopInv)
<1>1. Init => TypeOK /\ LoopInv
  BY PidAssumption, MasterAssumption, CrashAssumption
     DEF Init, ProcInit, MasterInit, WorkerInit, TypeOK, ProcTypeOK, MasterTypeOK,
         WorkerTypeOK, LoopInv, MsgState, ChildState, PcState, NoPid, Thread
<1>2. TypeOK /\ LoopInv /\ [Next]_vars => (TypeOK /\ LoopInv)'
  BY TypeStep
<1> QED
  BY <1>1, <1>2, PTL DEF Spec

\* The tables are true to the processes in every state.
LEMMA TableInvHolds == Spec => []TableInv
<1>1. Init => TableInv
  BY PidAssumption, MasterAssumption
     DEF Init, ProcInit, MasterInit, WorkerInit, TableInv, LoopInv, HeldInv, ForkInv,
         UnusedInv, DeathInv, TableTracksRunning, AliveNotTold, AliveIsWaited,
         Running, Exited, InFork, Told, NoPid, Thread
<1>2. TypeOK /\ LoopInv /\ (TypeOK /\ LoopInv)' /\ TableInv /\ [Next]_vars => TableInv'
  <2>1. CASE UNCHANGED vars
    BY <2>1 DEF TableInv, LoopInv, HeldInv, ForkInv, UnusedInv, DeathInv, TableTracksRunning,
       AliveNotTold, AliveIsWaited, Running, Exited, InFork, Told, vars, procVars,
       masterVars, tableVars, readerVars, threadVars, boundVars
  <2> QED
    BY <2>1, InvStep
<1> QED
  BY <1>1, <1>2, TypeCorrect, PTL DEF Spec

\* The inductive invariant holds in every state.
THEOREM InvCorrect == Spec => []IInv
BY TypeCorrect, TableInvHolds, PTL DEF IInv

\* Every variable keeps its type.
THEOREM TypeOKHolds == Spec => []TypeOK
BY TypeCorrect, PTL

\* However the goroutines of the master interleave, a running worker is in its
\* tables, with its connection, and waited for.
THEOREM RunningTracked == Spec => []TableTracksRunning
<1>1. TableInv => TableTracksRunning
  BY DEF TableInv
<1> QED
  BY <1>1, TableInvHolds, PTL

\* A worker that doStatus counts has not been told to quit, unless the master
\* is stopping gracefully.
THEOREM AliveUntold == Spec => []AliveNotTold
<1>1. TableInv => AliveNotTold
  BY DEF TableInv
<1> QED
  BY <1>1, TableInvHolds, PTL

\* What doStatus counts runs, or its death is still to be recorded.
THEOREM AliveWaited == Spec => []AliveIsWaited
<1>1. TableInv => AliveIsWaited
  BY DEF TableInv
<1> QED
  BY <1>1, TableInvHolds, PTL
-----------------------------------------------------------------------------
\* The refinement mapping.
announced == {p \in Pid : takeover[p] # "none"}
stopping  == pc["watchSignal"] = "quitAll"

\* Every step preserves AnnounceInv.
LEMMA AnnounceStep ==
  ASSUME TypeOK, AnnounceInv, Next
  PROVE  AnnounceInv'
<1> USE DEF TypeOK, ProcTypeOK, MasterTypeOK, MsgState, AnnounceInv, vars, procVars, masterVars, tableVars, readerVars, threadVars, boundVars
<1>1. ASSUME NEW t \in Thread, NEW p \in Pid, ForkExec(t, p), masterUp, UNCHANGED crashes
      PROVE  AnnounceInv'
  BY <1>1 DEF ForkExec, NextPid, ForkReason
<1>2. ASSUME NEW t \in Thread, ForkStore(t), masterUp, UNCHANGED crashes
      PROVE  AnnounceInv'
  BY <1>2 DEF ForkStore, ForkReturns
<1>3. ASSUME NEW t \in Thread, NEW p \in Pid, ReloadLoad(t, p), masterUp, UNCHANGED crashes
      PROVE  AnnounceInv'
  BY <1>3 DEF ReloadLoad
<1>4. ASSUME NEW t \in Thread, ReloadStore(t), masterUp, UNCHANGED crashes
      PROVE  AnnounceInv'
  BY <1>4 DEF ReloadStore
<1>5. ASSUME NEW t \in Thread, ReloadMarked(t), masterUp, UNCHANGED crashes
      PROVE  AnnounceInv'
  BY <1>5 DEF ReloadMarked
<1>6. ASSUME NEW p \in Pid, VisitDead(p), masterUp, UNCHANGED crashes
      PROVE  AnnounceInv'
  BY <1>6 DEF VisitDead, Started
<1>7. ASSUME DeleteDead, masterUp, UNCHANGED crashes
      PROVE  AnnounceInv'
  BY <1>7 DEF DeleteDead
<1>8. ASSUME NEW p \in Pid, WaitWorker(p), masterUp, UNCHANGED crashes
      PROVE  AnnounceInv'
  BY <1>8 DEF WaitWorker, Exited
<1>9. ASSUME NEW p \in Pid, ReadTakeover(p), masterUp, UNCHANGED crashes
      PROVE  AnnounceInv'
  BY <1>9 DEF ReadTakeover
<1>10. ASSUME NEW p \in Pid, NotifyStart(p), masterUp, UNCHANGED crashes
      PROVE  AnnounceInv'
  BY <1>10 DEF NotifyStart, Keys
<1>11. ASSUME NEW p \in Pid, NEW q \in Pid, NotifyReload(p, q), masterUp, UNCHANGED crashes
      PROVE  AnnounceInv'
  BY <1>11 DEF NotifyReload, NotifyWorker, SendQuit
<1>12. ASSUME MasterExit, masterUp, UNCHANGED crashes
      PROVE  AnnounceInv'
  BY <1>12 DEF MasterExit
<1>13. ASSUME NEW q \in Pid, GracefulNotify(q), masterUp, UNCHANGED crashes
      PROVE  AnnounceInv'
  BY <1>13 DEF GracefulNotify, NotifyWorker, SendQuit
<1>14. ASSUME NEW q \in Pid, RoughKill(q), masterUp, UNCHANGED crashes
      PROVE  AnnounceInv'
  BY <1>14 DEF RoughKill, Running
<1>15. ASSUME NEW t \in Thread, ForkFails(t), masterUp, UNCHANGED crashes
      PROVE  AnnounceInv'
  BY <1>15 DEF ForkFails, ForkReturns
<1>16. ASSUME NEW t \in Reloader, Reload(t), masterUp, UNCHANGED crashes
      PROVE  AnnounceInv'
  BY <1>16 DEF Reload, Started, Keys, Reloader
<1>17. ASSUME NEW p \in Pid, LoseTakeover(p), masterUp, UNCHANGED crashes
      PROVE  AnnounceInv'
  BY <1>17 DEF LoseTakeover
<1>18. ASSUME Graceful, masterUp, UNCHANGED crashes
      PROVE  AnnounceInv'
  BY <1>18 DEF Graceful, StopSignalRead, Started, Keys
<1>19. ASSUME Rough, masterUp, UNCHANGED crashes
      PROVE  AnnounceInv'
  BY <1>19 DEF Rough, StopSignalRead, Started, Keys
<1>20. ASSUME MasterKilled, masterUp, UNCHANGED crashes
      PROVE  AnnounceInv'
  BY <1>20 DEF MasterKilled
<1>21. ASSUME NEW p \in Pid, StartGoroutines(p), UNCHANGED masterVars
      PROVE  AnnounceInv'
  BY <1>21 DEF StartGoroutines
<1>22. ASSUME NEW p \in Pid, NotifyMaster(p), UNCHANGED masterVars
      PROVE  AnnounceInv'
  BY <1>22 DEF NotifyMaster
<1>23. ASSUME NEW p \in Pid, ReadQuit(p), UNCHANGED masterVars
      PROVE  AnnounceInv'
  BY <1>23 DEF ReadQuit, Serving
<1>24. ASSUME NEW p \in Pid, End(p), UNCHANGED masterVars
      PROVE  AnnounceInv'
  BY <1>24 DEF End
<1>25. ASSUME NEW p \in Pid, WatchMaster(p), UNCHANGED masterVars
      PROVE  AnnounceInv'
  BY <1>25 DEF WatchMaster, Serving
<1>26. ASSUME NEW p \in Pid, Crash(p), UNCHANGED masterVars
      PROVE  AnnounceInv'
  BY <1>26 DEF Crash, Running
<1> QED
  BY <1>1, <1>2, <1>3, <1>4, <1>5, <1>6, <1>7, <1>8, <1>9, <1>10, <1>11, <1>12, <1>13,
     <1>14, <1>15, <1>16, <1>17, <1>18, <1>19, <1>20, <1>21, <1>22, <1>23, <1>24, <1>25, <1>26 DEF Next, MasterStep, ThreadStep,
     WatchChildrenStep, ReaderStep, StopStep, Environment, MasterEnvironment, WorkerStep

THEOREM Announced == Spec => []AnnounceInv
<1>1. Init => AnnounceInv
  BY DEF Init, ProcInit, MasterInit, AnnounceInv
<1>2. TypeOK /\ AnnounceInv /\ [Next]_vars => AnnounceInv'
  BY AnnounceStep DEF AnnounceInv, vars, procVars, masterVars, readerVars
<1> QED
  BY <1>1, <1>2, TypeOKHolds, PTL DEF Spec

-----------------------------------------------------------------------------
\* When one worker changes its status, WorkerPool makes a move.
LEMMA OneMoves ==
  ASSUME NEW p \in Pid, NEW from, NEW to,
         PoolStatus(p) \in from, PoolStatus(p)' = to,
         \A q \in Pid \ {p} : PoolStatus(q)' = PoolStatus(q)
  PROVE  Pool!Move({p}, from, to)
BY DEF Pool!Move

\* To supersede workers or to tell them is a move whichever they are.
LEMMA SetMoves ==
  ASSUME NEW S \in SUBSET Pid, Pool!Supersede(S) \/ Pool!Tell(S)
  PROVE  Pool!PoolNext
<1>1. S \in SUBSET {p \in Pid : [q \in Pid |-> PoolStatus(q)][p] \in {"active", "superseded"}}
  BY DEF Pool!Supersede, Pool!Tell, Pool!Move
<1> QED
  BY <1>1 DEF Pool!PoolNext

\* A step that changes no status, announces nothing and does not stop the
\* server is a stutter of WorkerPool.
LEMMA NoneMoves ==
  ASSUME \A q \in Pid : PoolStatus(q)' = PoolStatus(q),
         UNCHANGED announced,
         stopping' = stopping
  PROVE  UNCHANGED Pool!poolVars
BY DEF Pool!poolVars, announced, stopping

\* A fork adds a worker.
LEMMA ForkSpawns ==
  ASSUME TypeOK, TableInv, NEW t \in Thread, NEW p \in Pid, ForkExec(t, p)
  PROVE  Pool!Spawn(p)
<1>1. PoolStatus(p) = "none"
  BY DEF ForkExec, NextPid, PoolStatus
<1>2. PoolStatus(p)' = "active"
  BY DEF ForkExec, NextPid, PoolStatus, Exited, Told, TableInv, UnusedInv, TypeOK, ProcTypeOK,
         tableVars
<1>3. \A q \in Pid \ {p} : PoolStatus(q)' = PoolStatus(q)
  BY DEF ForkExec, PoolStatus, Exited, Told, TypeOK, ProcTypeOK, tableVars
<1>4. Pool!Move({p}, {"none"}, "active")
  BY <1>1, <1>2, <1>3, OneMoves
<1> QED
  BY <1>4 DEF Pool!Spawn, ForkExec

\* A store of reload supersedes a running worker that was not told to quit, and
\* changes nothing for any other.
LEMMA StoreSupersedes ==
  ASSUME TypeOK, TableInv, NEW t \in Thread, NEW h \in Pid,
         held[t] = h, ReloadStore(t)
  PROVE  [Pool!PoolNext]_Pool!poolVars
<1>1. wk[h] # "unused"
  BY DEF ReloadStore, TableInv, HeldInv, TypeOK, MasterTypeOK
<1>2. \A q \in Pid \ {h} : PoolStatus(q)' = PoolStatus(q)
  BY <1>1 DEF ReloadStore, procVars, PoolStatus, Exited, Told, TypeOK, MasterTypeOK
<1>3. UNCHANGED <<announced, stopping, wk, quitMsg, takeover, pc>>
  BY DEF ReloadStore, procVars, announced, stopping
<1>4. children'[h] = "reload"
  BY <1>1 DEF ReloadStore, TypeOK, MasterTypeOK
<1>5. CASE PoolStatus(h) = "active"
  <2>1. PoolStatus(h)' = "superseded"
    BY <1>3, <1>4, <1>5 DEF ReloadStore, PoolStatus, Exited, Told
  <2>2. Pool!Move({h}, {"active"}, "superseded")
    BY <1>1, <1>2, <1>5, <2>1, OneMoves
  <2> QED
    <3>1. Pool!Supersede({h}) /\ {h} \in SUBSET Pid
      BY <1>3, <2>2 DEF Pool!Supersede, announced, stopping
    <3> QED
      BY <3>1, SetMoves
<1>6. CASE PoolStatus(h) # "active"
  <2>1. PoolStatus(h)' = PoolStatus(h)
    BY <1>3, <1>4, <1>6 DEF ReloadStore, PoolStatus, Exited, Told
  <2> QED
    BY <1>2, <1>3, <2>1, NoneMoves
<1> QED
  BY <1>5, <1>6

\* A visit of notifyWorker tells the visited worker or does nothing.
LEMMA NotifyTells ==
  ASSUME TypeOK, TableInv, NEW q \in Pid, NEW states, NotifyWorker(q, states),
         UNCHANGED <<wk, children, takeover, pc>>,
         \/ states = {"reload"} /\ announced # {}
         \/ stopping
  PROVE  [Pool!PoolNext]_Pool!poolVars
<1>1. UNCHANGED <<announced, stopping>>
  BY DEF announced, stopping
<1>2. CASE UNCHANGED quitMsg
  BY <1>1, <1>2, NoneMoves DEF PoolStatus, Exited, Told
<1>3. CASE quitMsg' # quitMsg
  <2>1. /\ children[q] \in states /\ q \in uc
        /\ quitMsg[q] = "none" /\ quitMsg'[q] = "sent"
        /\ \A p \in Pid \ {q} : quitMsg'[p] = quitMsg[p]
    BY <1>3 DEF NotifyWorker, SendQuit, TypeOK, ProcTypeOK
  <2>2. wk[q] # "unused"
    BY <2>1 DEF TableInv, UnusedInv
  <2>3. \A p \in Pid \ {q} : PoolStatus(p)' = PoolStatus(p)
    BY <2>1 DEF PoolStatus, Exited, Told
  <2>4. CASE Exited(q)
    <3>1. PoolStatus(q)' = PoolStatus(q)
      BY <2>2, <2>4 DEF PoolStatus, Exited
    <3> QED
      BY <1>1, <2>3, <3>1, NoneMoves
  <2>5. CASE ~Exited(q)
    <3>1. PoolStatus(q)' = "told"
      BY <2>1, <2>2, <2>5 DEF PoolStatus, Exited, Told
    <3>2. PoolStatus(q) = IF children[q] = "reload" THEN "superseded" ELSE "active"
      BY <2>1, <2>2, <2>5 DEF PoolStatus, Told
    <3>3. Pool!Move({q}, IF children[q] = "reload" THEN {"superseded"} ELSE {"active"}, "told")
      BY <2>3, <3>1, <3>2, OneMoves
    <3>4. (PoolStatus(q) = "superseded" /\ announced # {}) \/ stopping
      BY <2>1, <3>2
    <3>5. Pool!Tell({q}) /\ {q} \in SUBSET Pid
      BY <1>1, <3>2, <3>3, <3>4 DEF Pool!Tell, Pool!Move, announced, stopping
    <3> QED
      BY <3>5, SetMoves
  <2> QED
    BY <2>4, <2>5
<1> QED
  BY <1>2, <1>3

\* A worker that ends, is killed or crashes leaves.
LEMMA EndLeaves ==
  ASSUME TypeOK, NEW p \in Pid, Running(p), NEW to \in {"exit0", "exitN"},
         wk' = [wk EXCEPT ![p] = to],
         UNCHANGED <<children, quitMsg, takeover, pc>>
  PROVE  Pool!Leave(p)
<1>1. \A q \in Pid \ {p} : PoolStatus(q)' = PoolStatus(q)
  BY DEF PoolStatus, Exited, Told, TypeOK, ProcTypeOK
<1>2. PoolStatus(p)' = "gone"
  BY DEF PoolStatus, Exited, TypeOK, ProcTypeOK
<1>3. PoolStatus(p) \in Pool!Present
  BY DEF PoolStatus, Exited, Running, Pool!Present
<1>4. Pool!Move({p}, Pool!Present, "gone")
  BY <1>1, <1>2, <1>3, OneMoves
<1> QED
  BY <1>4 DEF Pool!Leave

\* A worker forked by a reload announces its takeover; the others only move on.
LEMMA NotifyAnnounces ==
  ASSUME TypeOK, NEW p \in Pid, NotifyMaster(p), UNCHANGED masterVars
  PROVE  Pool!Announce(p) \/ UNCHANGED Pool!poolVars
<1>1. \A q \in Pid : PoolStatus(q)' = PoolStatus(q)
  BY DEF NotifyMaster, PoolStatus, Exited, Told, TypeOK, ProcTypeOK, masterVars, tableVars
<1>2. UNCHANGED pc
  BY DEF masterVars, threadVars
<1>3. CASE reason[p] = "reload"
  <2>1. PoolStatus(p) \in Pool!Present
    BY DEF NotifyMaster, PoolStatus, Exited, Pool!Present
  <2>2. announced' = announced \cup {p}
    BY <1>3 DEF NotifyMaster, announced, TypeOK, ProcTypeOK, MsgState
  <2> QED
    BY <1>1, <1>2, <2>1, <2>2 DEF Pool!Announce, announced
<1>4. CASE reason[p] # "reload"
  BY <1>1, <1>2, <1>4, NoneMoves DEF NotifyMaster, announced, stopping
<1> QED
  BY <1>3, <1>4

\* Every step of Wox is a step of WorkerPool or leaves its variables alone.
LEMMA PoolStep ==
  ASSUME TypeOK, TableInv, AnnounceInv, Next
  PROVE  [Pool!PoolNext]_Pool!poolVars
<1> USE PidAssumption, MasterAssumption
    DEF TypeOK, ProcTypeOK, MasterTypeOK, MsgState, ChildState, PcState, NoPid, Thread, vars, procVars, masterVars, tableVars, readerVars, threadVars, boundVars,
        PoolStatus, Exited, Told, Pool!poolVars
<1>1. ASSUME NEW t \in Thread, NEW p \in Pid, ForkExec(t, p), masterUp, UNCHANGED crashes
      PROVE  [Pool!PoolNext]_Pool!poolVars
  BY <1>1, ForkSpawns DEF Pool!PoolNext
<1>2. ASSUME NEW t \in Thread, ForkStore(t), masterUp, UNCHANGED crashes
      PROVE  [Pool!PoolNext]_Pool!poolVars
  BY <1>2 DEF ForkStore, ForkReturns, TableInv, ForkInv
<1>3. ASSUME NEW t \in Thread, NEW p \in Pid, ReloadLoad(t, p), masterUp, UNCHANGED crashes
      PROVE  [Pool!PoolNext]_Pool!poolVars
  BY <1>3 DEF ReloadLoad
<1>4. ASSUME NEW t \in Thread, ReloadStore(t), masterUp, UNCHANGED crashes
      PROVE  [Pool!PoolNext]_Pool!poolVars
  <2>1. held[t] \in Pid
    BY <1>4 DEF ReloadStore
  <2> QED
    BY <1>4, <2>1, StoreSupersedes
<1>5. ASSUME NEW t \in Thread, ReloadMarked(t), masterUp, UNCHANGED crashes
      PROVE  [Pool!PoolNext]_Pool!poolVars
  BY <1>5 DEF ReloadMarked
<1>6. ASSUME NEW p \in Pid, VisitDead(p), masterUp, UNCHANGED crashes
      PROVE  [Pool!PoolNext]_Pool!poolVars
  BY <1>6 DEF VisitDead, Started
<1>7. ASSUME DeleteDead, masterUp, UNCHANGED crashes
      PROVE  [Pool!PoolNext]_Pool!poolVars
  BY <1>7 DEF DeleteDead, TableInv, DeathInv
<1>8. ASSUME NEW p \in Pid, WaitWorker(p), masterUp, UNCHANGED crashes
      PROVE  [Pool!PoolNext]_Pool!poolVars
  BY <1>8 DEF WaitWorker
<1>9. ASSUME NEW p \in Pid, ReadTakeover(p), masterUp, UNCHANGED crashes
      PROVE  [Pool!PoolNext]_Pool!poolVars
  BY <1>9 DEF ReadTakeover
<1>10. ASSUME NEW p \in Pid, NotifyStart(p), masterUp, UNCHANGED crashes
      PROVE  [Pool!PoolNext]_Pool!poolVars
  BY <1>10 DEF NotifyStart, Keys
<1>11. ASSUME NEW p \in Pid, NEW q \in Pid, NotifyReload(p, q), masterUp, UNCHANGED crashes
      PROVE  [Pool!PoolNext]_Pool!poolVars
  <2>1. NotifyWorker(q, {"reload"}) /\ UNCHANGED <<wk, children, takeover, pc>>
    BY <1>11 DEF NotifyReload
  <2>2. announced # {}
    BY <1>11 DEF NotifyReload, AnnounceInv, announced
  <2> QED
    BY <2>1, <2>2, NotifyTells
<1>12. ASSUME MasterExit, masterUp, UNCHANGED crashes
      PROVE  [Pool!PoolNext]_Pool!poolVars
  BY <1>12 DEF MasterExit
<1>13. ASSUME NEW q \in Pid, GracefulNotify(q), masterUp, UNCHANGED crashes
      PROVE  [Pool!PoolNext]_Pool!poolVars
  <2>1. NotifyWorker(q, {"alive", "reload"}) /\ UNCHANGED <<wk, children, takeover, pc>>
    BY <1>13 DEF GracefulNotify
  <2>2. stopping
    BY <1>13 DEF GracefulNotify, stopping
  <2> QED
    BY <2>1, <2>2, NotifyTells
<1>14. ASSUME NEW q \in Pid, RoughKill(q), masterUp, UNCHANGED crashes
      PROVE  [Pool!PoolNext]_Pool!poolVars
  <2>1. CASE Running(q) /\ children[q] \in {"alive", "reload"}
    <3>1. wk' = [wk EXCEPT ![q] = "exitN"] /\ UNCHANGED <<children, quitMsg, takeover, pc>>
      BY <1>14, <2>1 DEF RoughKill
    <3> QED
      BY <2>1, <3>1, EndLeaves DEF Pool!PoolNext
  <2>2. CASE ~(Running(q) /\ children[q] \in {"alive", "reload"})
    BY <1>14, <2>2, NoneMoves DEF RoughKill, announced, stopping
  <2> QED
    BY <2>1, <2>2
<1>15. ASSUME NEW t \in Thread, ForkFails(t), masterUp, UNCHANGED crashes
      PROVE  [Pool!PoolNext]_Pool!poolVars
  <2>1. UNCHANGED <<wk, takeover, quitMsg, children>>
    BY <1>15 DEF ForkFails
  <2>2. stopping' = stopping
    <3>1. CASE t = "main"
      BY <1>15, <3>1 DEF ForkFails, stopping
    <3>2. CASE t # "main"
      <4>1. pc[t] = "fork" /\ ForkReturns(t)
        BY <1>15, <3>2 DEF ForkFails
      <4>2. pc'[t] \in {"idle", "fork", "delete"} /\ \A u \in Thread \ {t} : pc'[u] = pc[u]
        BY <4>1, ForkReturnsFrame DEF TableInv
      <4> QED
        BY <4>1, <4>2 DEF stopping
    <3> QED
      BY <3>1, <3>2
  <2> QED
    BY <2>1, <2>2, NoneMoves DEF announced
<1>16. ASSUME NEW t \in Reloader, Reload(t), masterUp, UNCHANGED crashes
      PROVE  [Pool!PoolNext]_Pool!poolVars
  BY <1>16 DEF Reload, Started, Keys, Reloader
<1>17. ASSUME NEW p \in Pid, LoseTakeover(p), masterUp, UNCHANGED crashes
      PROVE  [Pool!PoolNext]_Pool!poolVars
  BY <1>17 DEF LoseTakeover
<1>18. ASSUME Graceful, masterUp, UNCHANGED crashes
      PROVE  [Pool!PoolNext]_Pool!poolVars
  BY <1>18 DEF Graceful, StopSignalRead, Started, Keys, Pool!PoolNext, Pool!Stop
<1>19. ASSUME Rough, masterUp, UNCHANGED crashes
      PROVE  [Pool!PoolNext]_Pool!poolVars
  BY <1>19 DEF Rough, StopSignalRead, Started, Keys
<1>20. ASSUME MasterKilled, masterUp, UNCHANGED crashes
      PROVE  [Pool!PoolNext]_Pool!poolVars
  BY <1>20 DEF MasterKilled
<1>21. ASSUME NEW p \in Pid, StartGoroutines(p), UNCHANGED masterVars
      PROVE  [Pool!PoolNext]_Pool!poolVars
  BY <1>21 DEF StartGoroutines
<1>22. ASSUME NEW p \in Pid, NotifyMaster(p), UNCHANGED masterVars
      PROVE  [Pool!PoolNext]_Pool!poolVars
  BY <1>22, NotifyAnnounces DEF Pool!PoolNext
<1>23. ASSUME NEW p \in Pid, ReadQuit(p), UNCHANGED masterVars
      PROVE  [Pool!PoolNext]_Pool!poolVars
  BY <1>23 DEF ReadQuit, Serving
<1>24. ASSUME NEW p \in Pid, End(p), UNCHANGED masterVars
      PROVE  [Pool!PoolNext]_Pool!poolVars
  BY <1>24, EndLeaves DEF End, Running, Pool!PoolNext
<1>25. ASSUME NEW p \in Pid, WatchMaster(p), UNCHANGED masterVars
      PROVE  [Pool!PoolNext]_Pool!poolVars
  BY <1>25, EndLeaves DEF WatchMaster, Serving, Running, Pool!PoolNext
<1>26. ASSUME NEW p \in Pid, Crash(p), UNCHANGED masterVars
      PROVE  [Pool!PoolNext]_Pool!poolVars
  BY <1>26, EndLeaves DEF Crash, Pool!PoolNext
<1> QED
  BY <1>1, <1>2, <1>3, <1>4, <1>5, <1>6, <1>7, <1>8, <1>9, <1>10, <1>11, <1>12, <1>13,
     <1>14, <1>15, <1>16, <1>17, <1>18, <1>19, <1>20, <1>21, <1>22, <1>23, <1>24, <1>25, <1>26 DEF Next, MasterStep, ThreadStep,
     WatchChildrenStep, ReaderStep, StopStep, Environment, MasterEnvironment, WorkerStep

THEOREM WoxImplementsPool == Spec => ImplementsPool
<1>1. Init => Pool!PoolInit
  BY DEF Init, ProcInit, MasterInit, Pool!PoolInit, PoolStatus, Thread
<1>2. TypeOK /\ TableInv /\ AnnounceInv /\ [Next]_vars => [Pool!PoolNext]_Pool!poolVars
  <2>1. CASE UNCHANGED vars
    BY <2>1 DEF vars, procVars, masterVars, tableVars, threadVars, Pool!poolVars,
                PoolStatus, Exited, Told
  <2> QED
    BY <2>1, PoolStep
<1> QED
  BY <1>1, <1>2, TypeOKHolds, TableInvHolds, Announced, PTL
     DEF Spec, ImplementsPool, Pool!PoolSpec

-----------------------------------------------------------------------------
(***************************************************************************)
(* The size of the pool.  First the proof that it is never short, whatever *)
(* crashes and however reloads overlap; then, for reloads asked for one at *)
(* a time, that it is never too large and that its service goes on.        *)
(*                                                                         *)
(* The pool is never short by an argument that counts: a worker            *)
(* the master may rely on is in the tables, alive or with a crash that     *)
(* watchChildren has not yet turned to, and every loop of forks owes as    *)
(* many workers as it has iterations left.  Each step that takes one from  *)
(* the first number adds one to the second, except the marks of a reload,  *)
(* and a reload that has marked owes WorkerNum by itself.                  *)
(***************************************************************************)
Counted == {p \in Pid : children[p] = "alive" \/ (children[p] = "crash" /\ p # dead)}

Owed == {e \in Thread \X (1..WorkerNum) : pc[e[1]] = "fork" /\ e[2] <= left[e[1]]}

Marking == \E t \in Thread : pc[t] = "mark"

FiniteInv == IsFiniteSet(Counted) /\ IsFiniteSet(Owed)

\* dead is only set while watchChildren handles a death.
DeadInv == pc["watchChildren"] \notin {"fork", "delete"} => dead = NoPid

\* A worker that ended with status 0 had been told to.
EndInv == \A p \in Pid : wk[p] = "exit0" => Told(p)

CreditInv ==
  forkFails = 0 /\ pc["watchSignal"] # "quitAll" =>
    Marking \/ Cardinality(Counted) + Cardinality(Owed) >= WorkerNum

CountInv == FiniteInv /\ DeadInv /\ EndInv /\ CreditInv

-----------------------------------------------------------------------------
\* Steps that touch none of what is counted.
LEMMA CountFrame ==
  ASSUME CountInv, UNCHANGED <<children, dead, pc, left, forkFails>>, EndInv'
  PROVE  CountInv'
<1>1. UNCHANGED <<Counted, Owed, Marking>>
  BY DEF Counted, Owed, Marking
<1>2. FiniteInv' /\ DeadInv'
  BY <1>1 DEF CountInv, FiniteInv, DeadInv
<1>3. CreditInv'
  BY <1>1 DEF CountInv, CreditInv
<1> QED
  BY <1>2, <1>3 DEF CountInv

\* A quit message that has been written is not taken back.
LEMMA EndFrame ==
  ASSUME TypeOK, EndInv,
         \A p \in Pid : quitMsg[p] # "none" => quitMsg'[p] # "none",
         \A p \in Pid : wk'[p] = "exit0" => wk[p] = "exit0" \/ quitMsg[p] # "none"
  PROVE  EndInv'
BY DEF EndInv, Told

\* A fork that returns, with a worker or without, takes one from what its loop
\* owes, and watchChildren stays in the handling of its death.
LEMMA ForkReturnsOwed ==
  ASSUME TypeOK, LoopInv, NEW t \in Thread, pc[t] = "fork", ForkReturns(t)
  PROVE  /\ <<t, left[t]>> \in Owed
         /\ Owed' = Owed \ {<<t, left[t]>>}
         /\ Marking' = Marking
         /\ pc'["watchSignal"] = "quitAll" <=> pc["watchSignal"] = "quitAll"
         /\ pc["watchChildren"] \in {"fork", "delete"} <=> pc'["watchChildren"] \in {"fork", "delete"}
<1>1. left[t] \in 1..WorkerNum
  BY MasterAssumption DEF TypeOK, MasterTypeOK, LoopInv
<1>2. /\ left' = [left EXCEPT ![t] = left[t] - 1]
      /\ pc'[t] = IF left[t] > 1 THEN "fork" ELSE IF t = "watchChildren" THEN "delete" ELSE "idle"
      /\ \A u \in Thread \ {t} : pc'[u] = pc[u]
  BY DEF ForkReturns, TypeOK, MasterTypeOK
<1>3. <<t, left[t]>> \in Owed
  BY <1>1 DEF Owed
<1>4. ASSUME NEW u \in Thread, NEW i \in 1..WorkerNum
      PROVE  pc'[u] = "fork" /\ i <= left'[u] <=>
               pc[u] = "fork" /\ i <= left[u] /\ <<u, i>> # <<t, left[t]>>
  <2>1. CASE u # t
    BY <1>2, <2>1 DEF TypeOK, MasterTypeOK
  <2>2. CASE u = t
    <3>1. left'[t] = left[t] - 1
      BY <1>2 DEF TypeOK, MasterTypeOK
    <3>2. CASE left[t] > 1
      <4>1. pc'[t] = "fork"
        BY <1>2, <3>2
      <4> QED
        BY <1>1, <2>2, <3>1, <4>1
    <3>3. CASE left[t] = 1
      <4>1. pc'[t] # "fork"
        BY <1>2, <3>3
      <4> QED
        BY <1>1, <2>2, <3>3, <4>1
    <3> QED
      BY <1>1, <3>2, <3>3
  <2> QED
    BY <2>1, <2>2
<1>5. Owed' = Owed \ {<<t, left[t]>>}
  <2>1. \A e \in Thread \X (1..WorkerNum) : e = <<e[1], e[2]>> /\ e[1] \in Thread /\ e[2] \in 1..WorkerNum
    OBVIOUS
  <2>2. \A e \in Thread \X (1..WorkerNum) : e \in Owed' <=> e \in Owed /\ e # <<t, left[t]>>
    BY <1>4, <2>1 DEF Owed
  <2>3. Owed \subseteq Thread \X (1..WorkerNum) /\ Owed' \subseteq Thread \X (1..WorkerNum)
    BY DEF Owed
  <2> QED
    BY <2>2, <2>3
<1>6. Marking' = Marking
  BY <1>2 DEF Marking
<1>7. /\ pc'["watchSignal"] = "quitAll" <=> pc["watchSignal"] = "quitAll"
      /\ pc["watchChildren"] \in {"fork", "delete"} <=> pc'["watchChildren"] \in {"fork", "delete"}
  <2>1. {"watchSignal", "watchChildren"} \subseteq Thread
    BY DEF Thread
  <2> QED
    BY <1>2, <2>1
<1> QED
  BY <1>3, <1>5, <1>6, <1>7

-----------------------------------------------------------------------------
\* fork stores its worker: one owed less, one counted more.
LEMMA ForkStoreCounts ==
  ASSUME TypeOK, TableInv, CountInv, NEW t \in Thread, ForkStore(t)
  PROVE  CountInv'
<1> DEFINE h == held[t]
           e == <<t, left[t]>>
<1>1. pc[t] = "fork" /\ h \in Pid /\ children[h] = "absent" /\ LoopInv
  BY DEF ForkStore, TableInv, ForkInv, TypeOK, MasterTypeOK
<1>2. /\ e \in Owed /\ Owed' = Owed \ {e} /\ Marking' = Marking
      /\ pc'["watchSignal"] = "quitAll" <=> pc["watchSignal"] = "quitAll"
      /\ pc["watchChildren"] \in {"fork", "delete"} <=> pc'["watchChildren"] \in {"fork", "delete"}
  BY <1>1, ForkReturnsOwed DEF ForkStore
<1>3. children' = [children EXCEPT ![h] = "alive"] /\ UNCHANGED <<dead, forkFails, wk, quitMsg>>
  BY DEF ForkStore, procVars, boundVars
<1>4. h \notin Counted /\ Counted' = Counted \cup {h}
  BY <1>1, <1>3 DEF Counted, TypeOK, MasterTypeOK
<1>5. FiniteInv'
  BY <1>2, <1>4, FS_AddElement, FS_RemoveElement DEF CountInv, FiniteInv
<1>6. /\ Cardinality(Counted') = Cardinality(Counted) + 1
      /\ Cardinality(Owed') = Cardinality(Owed) - 1
      /\ Cardinality(Counted) \in Nat /\ Cardinality(Owed) \in Nat
  BY <1>2, <1>4, FS_AddElement, FS_RemoveElement, FS_CardinalityType DEF CountInv, FiniteInv
<1>7. CreditInv'
  BY <1>2, <1>3, <1>6 DEF CountInv, CreditInv
<1>8. DeadInv'
  BY <1>2, <1>3 DEF CountInv, DeadInv
<1>9. EndInv'
  BY <1>3 DEF CountInv, EndInv, Told
<1> QED
  BY <1>5, <1>7, <1>8, <1>9 DEF CountInv

\* A fork that fails: nothing is promised any more.
LEMMA ForkFailsCounts ==
  ASSUME TypeOK, TableInv, CountInv, NEW t \in Thread, ForkFails(t)
  PROVE  CountInv'
<1>1. UNCHANGED <<children, dead, wk, quitMsg>> /\ forkFails' # 0
  BY DEF ForkFails, tableVars, TypeOK, MasterTypeOK
<1>2. CreditInv' /\ EndInv' /\ Counted' = Counted
  BY <1>1 DEF CountInv, CreditInv, EndInv, Told, Counted
<1>3. CASE t = "main"
  <2>1. UNCHANGED <<pc, left>>
    BY <1>3 DEF ForkFails
  <2> QED
    BY <1>1, <1>2, <2>1 DEF CountInv, FiniteInv, DeadInv, Owed
<1>4. CASE t # "main"
  <2>1. pc[t] = "fork" /\ ForkReturns(t) /\ LoopInv
    BY <1>4 DEF ForkFails, TableInv
  <2>2. /\ Owed' = Owed \ {<<t, left[t]>>}
        /\ pc["watchChildren"] \in {"fork", "delete"} <=> pc'["watchChildren"] \in {"fork", "delete"}
    BY <2>1, ForkReturnsOwed
  <2>3. FiniteInv' /\ DeadInv'
    BY <1>1, <1>2, <2>2, FS_RemoveElement DEF CountInv, FiniteInv, DeadInv
  <2> QED
    BY <1>2, <2>3 DEF CountInv
<1> QED
  BY <1>3, <1>4

\* watchChildren turns to a dead worker: for a crash it owes the replacement.
LEMMA VisitDeadCounts ==
  ASSUME TypeOK, CountInv, NEW p \in Pid, VisitDead(p)
  PROVE  CountInv'
<1> DEFINE e == <<"watchChildren", 1>>
<1>1. /\ "watchChildren" \in Thread /\ "watchSignal" \in Thread /\ 1 \in 1..WorkerNum
      /\ NoPid \notin Pid
  <2>1. 1 \in 1..WorkerNum
    BY MasterAssumption
  <2>2. NoPid \notin Pid
    BY PidAssumption
  <2> QED
    BY <2>1, <2>2 DEF Thread
<1>2. /\ pc["watchChildren"] = "idle" /\ dead = NoPid /\ dead' = p
      /\ UNCHANGED <<children, forkFails, wk, quitMsg>>
  BY DEF VisitDead, CountInv, DeadInv, procVars, tableVars, boundVars
<1>3. /\ pc'["watchChildren"] \in {"fork", "delete"}
      /\ \A u \in Thread : u # "watchChildren" => pc'[u] = pc[u] /\ left'[u] = left[u]
  BY <1>1 DEF VisitDead, TypeOK, MasterTypeOK
<1>4. Marking' = Marking /\ DeadInv' /\ EndInv'
  BY <1>1, <1>2, <1>3 DEF Marking, CountInv, DeadInv, EndInv, Told
<1>5. CASE children[p] = "crash"
  <2>1. pc'["watchChildren"] = "fork" /\ left'["watchChildren"] = 1
    BY <1>1, <1>5 DEF VisitDead, TypeOK, MasterTypeOK
  <2>2. p \in Counted /\ Counted' = Counted \ {p}
    BY <1>1, <1>2, <1>5 DEF Counted
  <2>3. e \notin Owed /\ Owed' = Owed \cup {e}
    BY <1>1, <1>2, <1>3, <2>1 DEF Owed
  <2>4. FiniteInv'
    BY <2>2, <2>3, FS_AddElement, FS_RemoveElement DEF CountInv, FiniteInv
  <2>5. /\ Cardinality(Counted') = Cardinality(Counted) - 1
        /\ Cardinality(Owed') = Cardinality(Owed) + 1
        /\ Cardinality(Counted) \in Nat /\ Cardinality(Owed) \in Nat
    BY <2>2, <2>3, FS_AddElement, FS_RemoveElement, FS_CardinalityType DEF CountInv, FiniteInv
  <2>6. CreditInv'
    BY <1>1, <1>2, <1>3, <1>4, <2>5 DEF CountInv, CreditInv
  <2> QED
    BY <1>4, <2>4, <2>6 DEF CountInv
<1>6. CASE children[p] # "crash"
  <2>1. children[p] = "quit" /\ pc'["watchChildren"] = "delete" /\ left' = left
    BY <1>1, <1>6 DEF VisitDead, TypeOK, MasterTypeOK
  <2>2. Counted' = Counted
    BY <1>1, <1>2, <2>1 DEF Counted
  <2>3. Owed' = Owed
    BY <1>1, <1>2, <1>3, <2>1 DEF Owed
  <2>4. FiniteInv' /\ CreditInv'
    BY <1>1, <1>2, <1>3, <1>4, <2>2, <2>3 DEF CountInv, FiniteInv, CreditInv
  <2> QED
    BY <1>4, <2>4 DEF CountInv
<1> QED
  BY <1>5, <1>6

\* The entry watchChildren deletes is not counted: its worker is dead, and a
\* late store of reload never makes it alive again.
LEMMA DeleteDeadCounts ==
  ASSUME TypeOK, TableInv, CountInv, masterUp, DeleteDead
  PROVE  CountInv'
<1>1. /\ "watchChildren" \in Thread /\ "watchSignal" \in Thread /\ NoPid \notin Pid
  BY PidAssumption DEF Thread
<1>2. /\ pc["watchChildren"] = "delete" /\ dead \in Pid
      /\ Exited(dead) /\ dead \notin waiting
  BY DEF DeleteDead, TableInv, DeathInv
<1>3. children[dead] # "alive"
  BY <1>2 DEF TableInv, AliveIsWaited, Running, Exited
<1>4. /\ children' = [children EXCEPT ![dead] = "absent"] /\ dead' = NoPid
      /\ pc' = [pc EXCEPT !["watchChildren"] = "idle"]
      /\ UNCHANGED <<left, forkFails, wk, quitMsg>>
  BY DEF DeleteDead, procVars, boundVars
<1>5. Counted' = Counted
  BY <1>1, <1>2, <1>3, <1>4 DEF Counted, TypeOK, MasterTypeOK
<1>6. Owed' = Owed /\ Marking' = Marking
  BY <1>1, <1>2, <1>4 DEF Owed, Marking, TypeOK, MasterTypeOK
<1>7. DeadInv' /\ EndInv'
  BY <1>4 DEF CountInv, DeadInv, EndInv, Told
<1>8. FiniteInv' /\ CreditInv'
  BY <1>1, <1>4, <1>5, <1>6 DEF CountInv, FiniteInv, CreditInv, TypeOK, MasterTypeOK
<1> QED
  BY <1>7, <1>8 DEF CountInv

\* waitWorker records a death.  A crash stays counted, and a worker that ended
\* with status 0 was not: it had been told to quit.
LEMMA WaitWorkerCounts ==
  ASSUME TypeOK, TableInv, CountInv, NEW p \in Pid, WaitWorker(p)
  PROVE  CountInv'
<1>1. /\ p \in waiting /\ Exited(p)
      /\ children' = [children EXCEPT ![p] = IF wk[p] = "exit0" THEN "quit" ELSE "crash"]
      /\ UNCHANGED <<pc, left, dead, forkFails, wk, quitMsg>>
  BY DEF WaitWorker, procVars, threadVars, boundVars
<1>2. Owed' = Owed /\ Marking' = Marking /\ DeadInv' /\ EndInv'
  BY <1>1 DEF Owed, Marking, CountInv, DeadInv, EndInv, Told
<1>3. p # dead
  <2>1. pc["watchChildren"] \in {"fork", "delete"} => dead \notin waiting
    BY DEF TableInv, DeathInv
  <2>2. NoPid \notin Pid
    BY PidAssumption
  <2> QED
    BY <1>1, <2>1, <2>2 DEF CountInv, DeadInv
<1>4. CASE wk[p] = "exit0"
  <2>1. Counted' = Counted \ {p}
    BY <1>1, <1>4 DEF Counted, TypeOK, MasterTypeOK
  <2>2. FiniteInv'
    BY <1>2, <2>1, FS_RemoveElement DEF CountInv, FiniteInv
  <2>3. pc["watchSignal"] # "quitAll" => p \notin Counted
    BY <1>1, <1>4 DEF Counted, CountInv, EndInv, TableInv, AliveNotTold, DeathInv
  <2>4. CreditInv'
    <3>1. CASE pc["watchSignal"] = "quitAll"
      BY <1>1, <3>1 DEF CreditInv
    <3>2. CASE pc["watchSignal"] # "quitAll"
      <4>1. Counted' = Counted
        BY <2>1, <2>3, <3>2
      <4> QED
        BY <1>1, <1>2, <4>1 DEF CountInv, CreditInv
    <3> QED
      BY <3>1, <3>2
  <2> QED
    BY <1>2, <2>2, <2>4 DEF CountInv
<1>5. CASE wk[p] # "exit0"
  <2>1. Counted' = Counted \cup {p}
    BY <1>1, <1>3, <1>5 DEF Counted, TypeOK, MasterTypeOK
  <2>2. FiniteInv'
    BY <1>2, <2>1, FS_AddElement DEF CountInv, FiniteInv
  <2>3. /\ Cardinality(Counted') >= Cardinality(Counted)
        /\ Cardinality(Counted) \in Nat /\ Cardinality(Owed) \in Nat
        /\ Cardinality(Counted') \in Nat
    BY <2>1, <2>2, FS_AddElement, FS_CardinalityType DEF CountInv, FiniteInv
  <2>4. CreditInv'
    BY <1>1, <1>2, <2>3, MasterAssumption DEF CountInv, CreditInv
  <2> QED
    BY <1>2, <2>2, <2>4 DEF CountInv
<1> QED
  BY <1>4, <1>5

\* The mark of a reload: while somebody marks, nothing is promised.
LEMMA ReloadStoreCounts ==
  ASSUME TypeOK, CountInv, NEW t \in Thread, ReloadStore(t)
  PROVE  CountInv'
<1>1. /\ pc[t] = "mark" /\ held[t] \in Pid
      /\ children' = [children EXCEPT ![held[t]] = "reload"]
      /\ UNCHANGED <<pc, left, dead, forkFails, wk, quitMsg>>
  BY DEF ReloadStore, TypeOK, MasterTypeOK, procVars, boundVars
<1>2. Owed' = Owed /\ DeadInv' /\ EndInv' /\ Marking'
  BY <1>1 DEF Owed, Marking, CountInv, DeadInv, EndInv, Told
<1>3. Counted' = Counted \ {held[t]}
  BY <1>1 DEF Counted, TypeOK, MasterTypeOK
<1>4. FiniteInv'
  BY <1>2, <1>3, FS_RemoveElement DEF CountInv, FiniteInv
<1>5. CreditInv'
  BY <1>2 DEF CreditInv
<1> QED
  BY <1>2, <1>4, <1>5 DEF CountInv

\* The iterations of a whole loop of forks.
LEMMA IterationsCount ==
  ASSUME NEW t
  PROVE  IsFiniteSet({t} \X (1..WorkerNum)) /\ Cardinality({t} \X (1..WorkerNum)) = WorkerNum
<1> DEFINE A == {t}
           B == 1..WorkerNum
<1>1. WorkerNum \in Nat
  BY MasterAssumption
<1>2. IsFiniteSet(B) /\ Cardinality(B) = WorkerNum
  <2>1. 1 \in Int /\ WorkerNum \in Int /\ 1 <= WorkerNum + 1
    BY <1>1
  <2> QED
    BY <1>1, <2>1, FS_Interval
<1>3. IsFiniteSet(A) /\ Cardinality(A) = 1
  BY FS_Singleton
<1> HIDE DEF A, B
<1>4. IsFiniteSet(A \X B) /\ Cardinality(A \X B) = 1 * WorkerNum
  BY <1>2, <1>3, FS_Product
<1>5. IsFiniteSet(A \X B) /\ Cardinality(A \X B) = WorkerNum
  BY <1>1, <1>4
<1> QED
  BY <1>5 DEF A, B

\* A reload that has marked owes WorkerNum workers.
LEMMA ReloadMarkedCounts ==
  ASSUME TypeOK, LoopInv, CountInv, NEW t \in Thread, ReloadMarked(t)
  PROVE  CountInv'
<1> DEFINE All == {t} \X (1..WorkerNum)
<1>1. /\ pc[t] = "mark" /\ left[t] = WorkerNum /\ WorkerNum \in Nat
      /\ pc' = [pc EXCEPT ![t] = "fork"]
      /\ UNCHANGED <<children, left, dead, forkFails, wk, quitMsg>>
  BY MasterAssumption DEF ReloadMarked, LoopInv, procVars, tableVars, boundVars
<1>2. t # "watchChildren"
  BY <1>1, MasterAssumption DEF LoopInv, Reloader
<1>3. Counted' = Counted /\ EndInv'
  BY <1>1 DEF Counted, CountInv, EndInv, Told
<1>4. DeadInv'
  BY <1>1, <1>2 DEF CountInv, DeadInv, TypeOK, MasterTypeOK
<1>5. /\ IsFiniteSet(All) /\ Cardinality(All) = WorkerNum
  BY IterationsCount
<1>6. Owed' = Owed \cup All
  <2>1. \A u \in Thread, i \in 1..WorkerNum :
          pc'[u] = "fork" /\ i <= left'[u] <=> (pc[u] = "fork" /\ i <= left[u]) \/ u = t
    BY <1>1 DEF TypeOK, MasterTypeOK
  <2>2. \A e \in Thread \X (1..WorkerNum) : e \in Owed' <=> e \in Owed \/ e \in All
    BY <2>1 DEF Owed
  <2>3. /\ Owed \subseteq Thread \X (1..WorkerNum) /\ Owed' \subseteq Thread \X (1..WorkerNum)
        /\ All \subseteq Thread \X (1..WorkerNum)
    BY DEF Owed
  <2> QED
    BY <2>2, <2>3
<1>7. FiniteInv'
  BY <1>3, <1>5, <1>6, FS_Union DEF CountInv, FiniteInv
<1>8. /\ Cardinality(Owed') >= WorkerNum
      /\ Cardinality(Owed') \in Nat /\ Cardinality(Counted') \in Nat
  <2>1. IsFiniteSet(Owed') /\ All \subseteq Owed'
    BY <1>6, <1>7 DEF FiniteInv
  <2>2. Cardinality(All) <= Cardinality(Owed')
    BY <2>1, FS_Subset
  <2> QED
    BY <1>5, <1>7, <2>2, FS_CardinalityType DEF FiniteInv
<1>9. CreditInv'
  BY <1>1, <1>8 DEF CreditInv
<1> QED
  BY <1>3, <1>4, <1>7, <1>9 DEF CountInv

\* A thread that leaves idle for anything but a fork owes nothing yet.
LEMMA LeaveIdleCounts ==
  ASSUME TypeOK, CountInv, NEW t \in Reloader, pc[t] = "idle",
         NEW to \in {"mark", "quitAll", "killAll"},
         pc' = [pc EXCEPT ![t] = to],
         \A u \in Thread : u # t => left'[u] = left[u],
         UNCHANGED <<children, dead, forkFails, wk, quitMsg>>
  PROVE  CountInv'
<1>1. t \in Thread /\ t # "watchChildren" /\ "watchChildren" \in Thread /\ "watchSignal" \in Thread
  BY MasterAssumption DEF Reloader, Thread
<1>2. Counted' = Counted /\ EndInv'
  BY DEF Counted, CountInv, EndInv, Told
<1>3. pc'[t] = to /\ \A u \in Thread : u # t => pc'[u] = pc[u]
  BY <1>1 DEF TypeOK, MasterTypeOK
<1>4. Owed' = Owed
  BY <1>1, <1>3 DEF Owed
<1>5. DeadInv' /\ FiniteInv' /\ (Marking => Marking')
  BY <1>1, <1>2, <1>3, <1>4 DEF CountInv, DeadInv, FiniteInv, Marking
<1>6. CreditInv'
  <2>1. pc'["watchSignal"] # "quitAll" => pc["watchSignal"] # "quitAll"
    BY <1>1, <1>3
  <2> QED
    BY <1>2, <1>4, <1>5, <2>1 DEF CountInv, CreditInv
<1> QED
  BY <1>2, <1>5, <1>6 DEF CountInv

-----------------------------------------------------------------------------
\* Every step preserves the count.
LEMMA CountStep ==
  ASSUME TypeOK, TableInv, CountInv, [Next]_vars
  PROVE  CountInv'
<1>1. ASSUME NEW t \in Thread, NEW p \in Pid, ForkExec(t, p), masterUp, UNCHANGED crashes
      PROVE  CountInv'
  <2>1. EndInv'
    BY <1>1, EndFrame DEF ForkExec, CountInv, TypeOK, ProcTypeOK
  <2> QED
    BY <1>1, <2>1, CountFrame DEF ForkExec, tableVars, threadVars, boundVars, masterVars
<1>2. ASSUME NEW t \in Thread, ForkStore(t), masterUp, UNCHANGED crashes
      PROVE  CountInv'
  BY <1>2, ForkStoreCounts
<1>3. ASSUME NEW t \in Thread, NEW p \in Pid, ReloadLoad(t, p), masterUp, UNCHANGED crashes
      PROVE  CountInv'
  <2>1. EndInv'
    BY <1>3, EndFrame DEF ReloadLoad, CountInv, TypeOK, ProcTypeOK, procVars
  <2> QED
    BY <1>3, <2>1, CountFrame DEF ReloadLoad, tableVars, threadVars, boundVars, masterVars
<1>4. ASSUME NEW t \in Thread, ReloadStore(t), masterUp, UNCHANGED crashes
      PROVE  CountInv'
  BY <1>4, ReloadStoreCounts
<1>5. ASSUME NEW t \in Thread, ReloadMarked(t), masterUp, UNCHANGED crashes
      PROVE  CountInv'
  BY <1>5, ReloadMarkedCounts DEF TableInv
<1>6. ASSUME NEW p \in Pid, VisitDead(p), masterUp, UNCHANGED crashes
      PROVE  CountInv'
  BY <1>6, VisitDeadCounts
<1>7. ASSUME DeleteDead, masterUp, UNCHANGED crashes
      PROVE  CountInv'
  BY <1>7, DeleteDeadCounts
<1>8. ASSUME NEW p \in Pid, WaitWorker(p), masterUp, UNCHANGED crashes
      PROVE  CountInv'
  BY <1>8, WaitWorkerCounts
<1>9. ASSUME NEW p \in Pid, ReadTakeover(p), masterUp, UNCHANGED crashes
      PROVE  CountInv'
  <2>1. EndInv'
    BY <1>9, EndFrame DEF ReadTakeover, CountInv, TypeOK, ProcTypeOK
  <2> QED
    BY <1>9, <2>1, CountFrame DEF ReadTakeover, tableVars, threadVars, boundVars, masterVars
<1>10. ASSUME NEW p \in Pid, NotifyStart(p), masterUp, UNCHANGED crashes
       PROVE  CountInv'
  <2>1. EndInv'
    BY <1>10, EndFrame DEF NotifyStart, CountInv, TypeOK, ProcTypeOK, procVars
  <2> QED
    BY <1>10, <2>1, CountFrame DEF NotifyStart, tableVars, threadVars, boundVars, masterVars
<1>11. ASSUME NEW p \in Pid, NEW q \in Pid, NotifyReload(p, q), masterUp, UNCHANGED crashes
       PROVE  CountInv'
  <2>1. EndInv'
    BY <1>11, EndFrame DEF NotifyReload, CountInv, TypeOK, ProcTypeOK, NotifyWorker, SendQuit, MsgState
  <2> QED
    BY <1>11, <2>1, CountFrame DEF NotifyReload, tableVars, threadVars, boundVars, masterVars
<1>12. ASSUME MasterExit, masterUp, UNCHANGED crashes
       PROVE  CountInv'
  <2>1. EndInv'
    BY <1>12, EndFrame DEF MasterExit, CountInv, TypeOK, ProcTypeOK
  <2> QED
    BY <1>12, <2>1, CountFrame DEF MasterExit, tableVars, threadVars, boundVars, masterVars
<1>13. ASSUME NEW q \in Pid, GracefulNotify(q), masterUp, UNCHANGED crashes
       PROVE  CountInv'
  <2>1. EndInv'
    BY <1>13, EndFrame DEF GracefulNotify, CountInv, TypeOK, ProcTypeOK, NotifyWorker, SendQuit, MsgState
  <2> QED
    BY <1>13, <2>1, CountFrame DEF GracefulNotify, tableVars, threadVars, boundVars, masterVars
<1>14. ASSUME NEW q \in Pid, RoughKill(q), masterUp, UNCHANGED crashes
       PROVE  CountInv'
  <2>1. EndInv'
    BY <1>14, EndFrame DEF RoughKill, CountInv, TypeOK, ProcTypeOK
  <2> QED
    BY <1>14, <2>1, CountFrame DEF RoughKill, tableVars, threadVars, boundVars, masterVars
<1>15. ASSUME NEW t \in Thread, ForkFails(t), masterUp, UNCHANGED crashes
       PROVE  CountInv'
  BY <1>15, ForkFailsCounts
<1>16. ASSUME NEW t \in Reloader, Reload(t), masterUp, UNCHANGED crashes
       PROVE  CountInv'
  <2>1. /\ pc[t] = "idle" /\ pc' = [pc EXCEPT ![t] = "mark"]
        /\ \A u \in Thread : u # t => left'[u] = left[u]
        /\ UNCHANGED <<children, dead, forkFails, wk, quitMsg>>
    BY <1>16 DEF Reload, TypeOK, MasterTypeOK, procVars, tableVars
  <2> QED
    BY <2>1, LeaveIdleCounts
<1>17. ASSUME NEW p \in Pid, LoseTakeover(p), masterUp, UNCHANGED crashes
       PROVE  CountInv'
  <2>1. EndInv'
    BY <1>17, EndFrame DEF LoseTakeover, CountInv, TypeOK, ProcTypeOK
  <2> QED
    BY <1>17, <2>1, CountFrame DEF LoseTakeover, tableVars, threadVars, boundVars, masterVars
<1>18. ASSUME Graceful, masterUp, UNCHANGED crashes
       PROVE  CountInv'
  <2>1. /\ pc["watchSignal"] = "idle" /\ pc' = [pc EXCEPT !["watchSignal"] = "quitAll"]
        /\ UNCHANGED <<left, children, dead, forkFails, wk, quitMsg>>
        /\ "watchSignal" \in Reloader
    BY <1>18 DEF Graceful, StopSignalRead, Reloader, procVars, tableVars, boundVars
  <2> QED
    BY <2>1, LeaveIdleCounts
<1>19. ASSUME Rough, masterUp, UNCHANGED crashes
       PROVE  CountInv'
  <2>1. /\ pc["watchSignal"] = "idle" /\ pc' = [pc EXCEPT !["watchSignal"] = "killAll"]
        /\ UNCHANGED <<left, children, dead, forkFails, wk, quitMsg>>
        /\ "watchSignal" \in Reloader
    BY <1>19 DEF Rough, StopSignalRead, Reloader, procVars, tableVars, boundVars
  <2> QED
    BY <2>1, LeaveIdleCounts
<1>20. ASSUME MasterKilled, masterUp, UNCHANGED crashes
       PROVE  CountInv'
  <2>1. EndInv'
    BY <1>20, EndFrame DEF MasterKilled, CountInv, TypeOK, ProcTypeOK
  <2> QED
    BY <1>20, <2>1, CountFrame DEF MasterKilled, tableVars, threadVars, boundVars, masterVars
<1>21. ASSUME NEW p \in Pid, StartGoroutines(p), UNCHANGED masterVars
       PROVE  CountInv'
  <2>1. EndInv'
    BY <1>21, EndFrame DEF StartGoroutines, CountInv, TypeOK, ProcTypeOK
  <2> QED
    BY <1>21, <2>1, CountFrame DEF StartGoroutines, tableVars, threadVars, boundVars, masterVars
<1>22. ASSUME NEW p \in Pid, NotifyMaster(p), UNCHANGED masterVars
       PROVE  CountInv'
  <2>1. EndInv'
    BY <1>22, EndFrame DEF NotifyMaster, CountInv, TypeOK, ProcTypeOK
  <2> QED
    BY <1>22, <2>1, CountFrame DEF NotifyMaster, tableVars, threadVars, boundVars, masterVars
<1>23. ASSUME NEW p \in Pid, ReadQuit(p), UNCHANGED masterVars
       PROVE  CountInv'
  <2>1. EndInv'
    BY <1>23, EndFrame DEF ReadQuit, CountInv, TypeOK, ProcTypeOK, MsgState
  <2> QED
    BY <1>23, <2>1, CountFrame DEF ReadQuit, tableVars, threadVars, boundVars, masterVars
<1>24. ASSUME NEW p \in Pid, End(p), UNCHANGED masterVars
       PROVE  CountInv'
  <2>1. EndInv'
    BY <1>24, EndFrame DEF End, CountInv, TypeOK, ProcTypeOK
  <2> QED
    BY <1>24, <2>1, CountFrame DEF End, tableVars, threadVars, boundVars, masterVars
<1>25. ASSUME NEW p \in Pid, WatchMaster(p), UNCHANGED masterVars
       PROVE  CountInv'
  <2>1. EndInv'
    BY <1>25, EndFrame DEF WatchMaster, CountInv, TypeOK, ProcTypeOK
  <2> QED
    BY <1>25, <2>1, CountFrame DEF WatchMaster, tableVars, threadVars, boundVars, masterVars
<1>26. ASSUME NEW p \in Pid, Crash(p), UNCHANGED masterVars
       PROVE  CountInv'
  <2>1. EndInv'
    BY <1>26, EndFrame DEF Crash, CountInv, TypeOK, ProcTypeOK
  <2> QED
    BY <1>26, <2>1, CountFrame DEF Crash, tableVars, threadVars, boundVars, masterVars
<1>27. CASE UNCHANGED vars
  <2>1. EndInv'
    BY <1>27 DEF CountInv, EndInv, Told, vars, procVars
  <2> QED
    BY <1>27, <2>1, CountFrame DEF vars, masterVars, tableVars, threadVars, boundVars
<1> QED
  BY <1>1, <1>2, <1>3, <1>4, <1>5, <1>6, <1>7, <1>8, <1>9, <1>10, <1>11,
     <1>12, <1>13, <1>14, <1>15, <1>16, <1>17, <1>18, <1>19, <1>20, <1>21,
     <1>22, <1>23, <1>24, <1>25, <1>26, <1>27 DEF Next, MasterStep,
     ThreadStep, WatchChildrenStep, ReaderStep, StopStep, Environment,
     MasterEnvironment, WorkerStep

\* At the start run() owes all its workers.
LEMMA OwedAtStart ==
  ASSUME Init
  PROVE  /\ Counted = {}
         /\ IsFiniteSet(Owed) /\ Cardinality(Owed) = WorkerNum
<1> DEFINE All == {"main"} \X (1..WorkerNum)
<1>1. /\ "main" \in Thread /\ "main" # "watchChildren" /\ WorkerNum \in Nat
  BY MasterAssumption DEF Thread
<1>2. Counted = {}
  BY DEF Init, MasterInit, Counted
<1>3. IsFiniteSet(All) /\ Cardinality(All) = WorkerNum
  BY IterationsCount
<1>4. Owed = All
  BY <1>1 DEF Init, MasterInit, Owed
<1> QED
  BY <1>2, <1>3, <1>4

LEMMA CountAtStart == Init => CountInv
<1> SUFFICES ASSUME Init
             PROVE  CountInv
  OBVIOUS
<1>1. FiniteInv /\ CreditInv
  BY OwedAtStart, FS_EmptySet, MasterAssumption DEF FiniteInv, CreditInv
<1>2. DeadInv /\ EndInv
  BY DEF Init, MasterInit, ProcInit, DeadInv, EndInv
<1> QED
  BY <1>1, <1>2 DEF CountInv

\* The count holds in every state.
LEMMA CountHolds == Spec => []CountInv
<1>1. TypeOK /\ TableInv /\ CountInv /\ [Next]_vars => CountInv'
  BY CountStep
<1> QED
  BY <1>1, CountAtStart, TypeOKHolds, TableInvHolds, PTL DEF Spec

\* Once everything has settled, and unless a fork has failed, at least
\* WorkerNum workers are alive: for any number of workers, watched targets,
\* crashes and reloads, overlapping ones included.
THEOREM NeverShortHolds == Spec => []NeverShort
<1>1. TypeOK /\ CountInv => NeverShort
  <2> SUFFICES ASSUME TypeOK, CountInv, Settled, forkFails = 0
               PROVE  Cardinality({p \in Pid : children[p] = "alive"}) >= WorkerNum
    BY DEF NeverShort
  <2>1. Counted = {p \in Pid : children[p] = "alive"}
    BY DEF Settled, Counted
  <2>2. Owed = {} /\ ~Marking /\ pc["watchSignal"] # "quitAll"
    BY DEF Settled, Owed, Marking, Thread
  <2>3. Cardinality(Counted) + 0 >= WorkerNum
    BY <2>2, FS_EmptySet DEF CountInv, CreditInv
  <2>4. Cardinality(Counted) \in Nat
    BY FS_CardinalityType DEF CountInv, FiniteInv
  <2> QED
    BY <2>1, <2>3, <2>4, MasterAssumption
<1> QED
  BY <1>1, CountHolds, TypeOKHolds, PTL

-----------------------------------------------------------------------------
(***************************************************************************)
(* PoolBounded.  Overlapping reloads may each fork WorkerNum workers, but  *)
(* a reload that starts takes everything that is alive with it: it has     *)
(* still to mark it.  What no reload has still to mark, together with the  *)
(* forks under way and the crashes still to be replaced, stays within      *)
(* WorkerNum for each goroutine that reloads, and one for each crash.      *)
(***************************************************************************)
\* A reload has still to mark p: to visit it, or to store what it has loaded.
BeingMarked(p) == \E t \in Thread : pc[t] = "mark" /\ (p \in todo[t] \/ held[t] = p)

Kept == {p \in Pid : children[p] = "alive" /\ ~BeingMarked(p)}

\* The forks of the reloads that still mark, and those of the loops that run.
Promised == {e \in Thread \X (1..WorkerNum) : pc[e[1]] = "mark"}

Due == Owed \cup Promised

\* The workers that have crashed and that watchChildren has still to turn to.
Fallen ==
  {p \in Pid : wk[p] = "exitN" /\ \/ p \in waiting
                                  \/ InFork(p)
                                  \/ children[p] = "crash" /\ p # dead}

\* 1 from there until the fork of the replacement has returned.
Handled == IF pc["watchChildren"] = "fork" THEN 1 ELSE 0

\* Until the master kills its workers a worker only dies by a crash.
Tended == masterUp /\ pc["watchSignal"] # "killAll"

Slots == WorkerNum * Cardinality(Reloader)

\* Only a crash is recorded as one, and watchChildren replaces one at a time.
CrashInv ==
  /\ \A p \in Pid : children[p] = "crash" => wk[p] = "exitN"
  /\ pc["watchChildren"] = "fork" => left["watchChildren"] = 1

Budget ==
  /\ IsFiniteSet(Kept) /\ IsFiniteSet(Fallen)
  /\ Cardinality(Fallen) + Handled <= crashes
  /\ Cardinality(Kept) + Cardinality(Due) + Cardinality(Fallen) <= Slots + crashes

BudgetInv == Tended => Budget

\* There are finitely many threads, and always one that reloads.
LEMMA ThreadsFinite ==
  /\ IsFiniteSet(Thread) /\ IsFiniteSet(Reloader)
  /\ Reloader \subseteq Thread /\ "watchSignal" \in Reloader
<1>1. IsFiniteSet(Target)
  BY MasterAssumption
<1>2. IsFiniteSet({"watchSignal"}) /\ IsFiniteSet({"main", "watchChildren", "watchSignal"})
  <2>1. IsFiniteSet({"watchSignal"}) /\ IsFiniteSet({"main"}) /\ IsFiniteSet({"watchChildren"})
    BY FS_Singleton
  <2>2. IsFiniteSet({"main"} \cup {"watchChildren"})
    BY <2>1, FS_Union
  <2>3. IsFiniteSet(({"main"} \cup {"watchChildren"}) \cup {"watchSignal"})
    BY <2>1, <2>2, FS_Union
  <2>4. ({"main"} \cup {"watchChildren"}) \cup {"watchSignal"} = {"main", "watchChildren", "watchSignal"}
    OBVIOUS
  <2> QED
    BY <2>1, <2>3, <2>4
<1>3. IsFiniteSet({"main", "watchChildren", "watchSignal"} \cup Target)
  BY <1>1, <1>2, FS_Union
<1>4. IsFiniteSet({"watchSignal"} \cup Target)
  BY <1>1, <1>2, FS_Union
<1> QED
  BY <1>3, <1>4 DEF Thread, Reloader

\* Any set of forks of the loops is finite; Due is one.
LEMMA ForksFinite ==
  ASSUME NEW S \in SUBSET (Thread \X (1..WorkerNum))
  PROVE  IsFiniteSet(S) /\ Cardinality(S) \in Nat
<1>1. IsFiniteSet(1..WorkerNum)
  <2>1. WorkerNum \in Nat
    BY MasterAssumption
  <2>2. 1 \in Int /\ WorkerNum \in Int
    BY <2>1
  <2> QED
    BY <2>2, FS_Interval
<1>2. IsFiniteSet(Thread \X (1..WorkerNum))
  BY <1>1, ThreadsFinite, FS_Product
<1> QED
  BY <1>2, FS_Subset, FS_CardinalityType

LEMMA DueForks ==
  /\ Due \subseteq Thread \X (1..WorkerNum)
  /\ IsFiniteSet(Due) /\ Cardinality(Due) \in Nat
  /\ Due' \subseteq Thread \X (1..WorkerNum)
  /\ IsFiniteSet(Due') /\ Cardinality(Due') \in Nat
<1>1. Due \subseteq Thread \X (1..WorkerNum) /\ Due' \subseteq Thread \X (1..WorkerNum)
  BY DEF Due, Owed, Promised
<1> QED
  BY <1>1, ForksFinite

\* What the forks of all the reloads come to.
LEMMA SlotsCount ==
  /\ WorkerNum \in Nat /\ Slots \in Nat /\ WorkerNum <= Slots
  /\ IsFiniteSet(Reloader \X (1..WorkerNum))
  /\ Cardinality(Reloader \X (1..WorkerNum)) = Slots
<1> DEFINE B == 1..WorkerNum
           n == Cardinality(Reloader)
<1>1. WorkerNum \in Nat
  BY MasterAssumption
<1>2. IsFiniteSet(B) /\ Cardinality(B) = WorkerNum
  <2>1. 1 \in Int /\ WorkerNum \in Int /\ 1 <= WorkerNum + 1
    BY <1>1
  <2> QED
    BY <1>1, <2>1, FS_Interval
<1>3. IsFiniteSet(Reloader) /\ n \in Nat /\ n >= 1
  <2>1. n \in Nat /\ IsFiniteSet(Reloader)
    BY ThreadsFinite, FS_CardinalityType
  <2>2. n # 0
    BY <2>1, ThreadsFinite, FS_EmptySet
  <2> QED
    BY <2>1, <2>2
<1> HIDE DEF B, n
<1>4. IsFiniteSet(Reloader \X B) /\ Cardinality(Reloader \X B) = n * WorkerNum
  BY <1>2, <1>3, FS_Product DEF n
<1>5. \A a, b \in Nat : b >= 1 => b * a \in Nat /\ a * b = b * a /\ a <= a * b
  OBVIOUS
<1>6. Slots = WorkerNum * n
  BY DEF Slots, n
<1> QED
  BY <1>1, <1>3, <1>4, <1>5, <1>6 DEF B

\* A step that keeps nothing more, owes nothing more and loses nobody.
LEMMA BudgetFrame ==
  ASSUME Budget, Kept' \subseteq Kept, Due' \subseteq Due, Fallen' \subseteq Fallen,
         Handled' <= Handled, crashes \in Nat, crashes' = crashes
  PROVE  Budget'
<1>1. /\ IsFiniteSet(Kept') /\ Cardinality(Kept') <= Cardinality(Kept)
      /\ IsFiniteSet(Fallen') /\ Cardinality(Fallen') <= Cardinality(Fallen)
  BY FS_Subset DEF Budget
<1>2. Cardinality(Due') <= Cardinality(Due)
  BY DueForks, FS_Subset
<1>3. /\ Cardinality(Kept) \in Nat /\ Cardinality(Kept') \in Nat
      /\ Cardinality(Fallen) \in Nat /\ Cardinality(Fallen') \in Nat
      /\ Cardinality(Due) \in Nat /\ Cardinality(Due') \in Nat /\ Slots \in Nat
      /\ Handled \in Nat /\ Handled' \in Nat
  BY <1>1, FS_CardinalityType, DueForks, SlotsCount DEF Budget, Handled
<1>4. Slots' = Slots
  BY DEF Slots
<1> QED
  BY <1>1, <1>2, <1>3, <1>4 DEF Budget

\* A step outside the tables and the loops that kills nobody.
LEMMA BudgetQuiet ==
  ASSUME Budget, UNCHANGED <<children, waiting, threadVars, crashes>>, crashes \in Nat,
         \A p \in Pid : wk'[p] = "exitN" => wk[p] = "exitN"
  PROVE  Budget'
<1>1. Kept' = Kept /\ Due' = Due /\ Handled' = Handled
  BY DEF Kept, BeingMarked, Due, Owed, Promised, Handled, threadVars
<1>2. Fallen' \subseteq Fallen
  BY DEF Fallen, InFork, threadVars
<1>3. Handled' <= Handled
  BY <1>1 DEF Handled
<1> QED
  BY <1>1, <1>2, <1>3, BudgetFrame

\* A fork that returns takes one from what is due, and marks nothing.
LEMMA ForkReturnsDue ==
  ASSUME TypeOK, LoopInv, NEW t \in Thread, pc[t] = "fork", ForkReturns(t)
  PROVE  /\ <<t, left[t]>> \in Due
         /\ Due' = Due \ {<<t, left[t]>>}
         /\ \A u \in Thread : pc'[u] = "mark" <=> pc[u] = "mark"
<1>1. <<t, left[t]>> \in Owed /\ Owed' = Owed \ {<<t, left[t]>>}
  BY ForkReturnsOwed
<1>2. pc'[t] # "mark" /\ \A u \in Thread \ {t} : pc'[u] = pc[u]
  BY DEF ForkReturns, TypeOK, MasterTypeOK
<1>3. \A u \in Thread : pc'[u] = "mark" <=> pc[u] = "mark"
  BY <1>2
<1>4. Promised' = Promised /\ <<t, left[t]>> \notin Promised
  BY <1>3 DEF Promised
<1>5. Due' = Due \ {<<t, left[t]>>}
  BY <1>1, <1>4 DEF Due
<1> QED
  BY <1>1, <1>3, <1>5 DEF Due

\* After watchChildren's fork it goes on to delete the entry.
LEMMA ForkReturnsHandled ==
  ASSUME TypeOK, LoopInv, CrashInv, NEW t \in Thread, pc[t] = "fork", ForkReturns(t)
  PROVE  /\ Handled' <= Handled
         /\ pc'["watchChildren"] = "fork" => left'["watchChildren"] = 1
<1>1. "watchChildren" \in Thread
  BY DEF Thread
<1>2. /\ pc'[t] = IF left[t] > 1 THEN "fork" ELSE IF t = "watchChildren" THEN "delete" ELSE "idle"
      /\ \A u \in Thread \ {t} : pc'[u] = pc[u] /\ left'[u] = left[u]
  BY DEF ForkReturns, TypeOK, MasterTypeOK
<1>3. CASE t = "watchChildren"
  <2>1. left[t] = 1
    BY <1>3 DEF CrashInv
  <2>2. pc'["watchChildren"] = "delete"
    BY <1>2, <1>3, <2>1
  <2> QED
    BY <1>3, <2>2 DEF Handled
<1>4. CASE t # "watchChildren"
  <2>1. pc'["watchChildren"] = pc["watchChildren"] /\ left'["watchChildren"] = left["watchChildren"]
    BY <1>1, <1>2, <1>4
  <2> QED
    BY <2>1 DEF Handled, CrashInv
<1> QED
  BY <1>3, <1>4

\* fork stores its worker: one due less, at most one kept more.
LEMMA ForkStoreBudget ==
  ASSUME TypeOK, TableInv, CrashInv, Budget, NEW t \in Thread, ForkStore(t), UNCHANGED crashes
  PROVE  Budget'
<1> DEFINE h == held[t]
           e == <<t, left[t]>>
<1>1. /\ pc[t] = "fork" /\ h \in Pid /\ h # NoPid /\ LoopInv /\ ForkReturns(t)
      /\ children[h] = "absent" /\ h \notin waiting
      /\ \A u \in Thread : held[u] = h => u = t
  BY DEF ForkStore, TableInv, ForkInv, TypeOK, MasterTypeOK
<1>2. /\ children' = [children EXCEPT ![h] = "alive"] /\ waiting' = waiting \cup {h}
      /\ held' = [held EXCEPT ![t] = NoPid]
      /\ UNCHANGED <<wk, todo, dead>>
  BY DEF ForkStore, procVars
<1>3. /\ e \in Due /\ Due' = Due \ {e}
      /\ \A u \in Thread : pc'[u] = "mark" <=> pc[u] = "mark"
  BY <1>1, <1>2, ForkReturnsDue
<1>4. Handled' <= Handled
  BY <1>1, ForkReturnsHandled
<1>5. \A p \in Pid : BeingMarked(p) => BeingMarked(p)'
  <2> SUFFICES ASSUME NEW p \in Pid, NEW u \in Thread, pc[u] = "mark", p \in todo[u] \/ held[u] = p
               PROVE  BeingMarked(p)'
    BY DEF BeingMarked
  <2>1. pc'[u] = "mark" /\ u # t
    BY <1>1, <1>3
  <2>2. p \in todo'[u] \/ held'[u] = p
    BY <1>2, <2>1 DEF TypeOK, MasterTypeOK
  <2> QED
    BY <2>1, <2>2 DEF BeingMarked
<1>6. Kept' \subseteq Kept \cup {h}
  <2>1. \A p \in Pid : p # h => children'[p] = children[p]
    BY <1>2 DEF TypeOK, MasterTypeOK
  <2> QED
    BY <1>5, <2>1 DEF Kept
<1>7. Fallen' \subseteq Fallen
  <2> SUFFICES ASSUME NEW p \in Pid, wk'[p] = "exitN",
                      \/ p \in waiting'
                      \/ InFork(p)'
                      \/ children'[p] = "crash" /\ p # dead'
               PROVE  p \in Fallen
    BY DEF Fallen
  <2>1. CASE p = h
    BY <1>1, <1>2, <2>1 DEF Fallen, InFork
  <2>2. CASE p # h
    <3>1. p \in waiting' => p \in waiting
      BY <1>2, <2>2
    <3>2. children'[p] = children[p]
      BY <1>2, <2>2 DEF TypeOK, MasterTypeOK
    <3>3. InFork(p)' => InFork(p)
      <4> SUFFICES ASSUME NEW u \in Thread, pc'[u] = "fork", held'[u] = p
                   PROVE  InFork(p)
        BY DEF InFork
      <4>1. u # t
        BY <1>2, PidAssumption DEF TypeOK, MasterTypeOK
      <4>2. pc[u] = "fork" /\ held[u] = p
        BY <1>1, <1>2, <4>1 DEF ForkReturns, TypeOK, MasterTypeOK
      <4> QED
        BY <4>2 DEF InFork
    <3> QED
      BY <1>2, <3>1, <3>2, <3>3 DEF Fallen
  <2> QED
    BY <2>1, <2>2
<1>8. /\ IsFiniteSet(Kept') /\ Cardinality(Kept') <= Cardinality(Kept) + 1
      /\ IsFiniteSet(Fallen') /\ Cardinality(Fallen') <= Cardinality(Fallen)
  <2>1. IsFiniteSet(Kept \cup {h}) /\ Cardinality(Kept \cup {h}) <= Cardinality(Kept) + 1
    <3>1. h \notin Kept /\ IsFiniteSet(Kept) /\ Cardinality(Kept) \in Nat
      BY <1>1, FS_CardinalityType DEF Kept, Budget
    <3> HIDE DEF h
    <3>2. IsFiniteSet(Kept \cup {h}) /\ Cardinality(Kept \cup {h}) = Cardinality(Kept) + 1
      BY <3>1, FS_AddElement
    <3> QED
      BY <3>1, <3>2
  <2>2. IsFiniteSet(Kept') /\ Cardinality(Kept') <= Cardinality(Kept \cup {h})
    BY <1>6, <2>1, FS_Subset
  <2>3. /\ Cardinality(Kept') \in Nat /\ Cardinality(Kept) \in Nat
        /\ Cardinality(Kept \cup {h}) \in Nat
    BY <2>1, <2>2, FS_CardinalityType DEF Budget
  <2> QED
    BY <1>7, <2>1, <2>2, <2>3, FS_Subset DEF Budget
<1>9. Cardinality(Due') = Cardinality(Due) - 1
  BY <1>3, DueForks, FS_RemoveElement
<1>10. /\ Cardinality(Kept) \in Nat /\ Cardinality(Kept') \in Nat
       /\ Cardinality(Fallen) \in Nat /\ Cardinality(Fallen') \in Nat
       /\ Cardinality(Due) \in Nat /\ Cardinality(Due') \in Nat /\ Slots \in Nat
       /\ Handled \in Nat /\ Handled' \in Nat /\ crashes \in Nat /\ Slots' = Slots
  BY <1>8, FS_CardinalityType, DueForks, SlotsCount DEF Budget, Handled, Slots, TypeOK, WorkerTypeOK
<1> QED
  BY <1>3, <1>4, <1>8, <1>9, <1>10 DEF Budget

\* A fork that fails: one due less.
LEMMA ForkFailsBudget ==
  ASSUME TypeOK, TableInv, CrashInv, Budget, NEW t \in Thread, ForkFails(t), UNCHANGED crashes
  PROVE  Budget'
<1>1. /\ pc[t] = "fork" /\ held[t] = NoPid /\ LoopInv /\ crashes \in Nat
      /\ UNCHANGED <<children, waiting, held, todo, dead, wk>>
  BY DEF ForkFails, tableVars, TableInv, TypeOK, WorkerTypeOK
<1>2. CASE t = "main"
  <2>1. UNCHANGED <<pc, left>>
    BY <1>2 DEF ForkFails
  <2>2. UNCHANGED threadVars
    BY <1>1, <2>1 DEF threadVars
  <2> QED
    BY <1>1, <2>1, <2>2, BudgetQuiet
<1>3. CASE t # "main"
  <2>1. ForkReturns(t)
    BY <1>3 DEF ForkFails
  <2>2. /\ Due' \subseteq Due
        /\ \A u \in Thread : pc'[u] = "mark" <=> pc[u] = "mark"
    BY <1>1, <2>1, ForkReturnsDue
  <2>3. Handled' <= Handled
    BY <1>1, <2>1, ForkReturnsHandled
  <2>4. Kept' \subseteq Kept
    BY <1>1, <2>2 DEF Kept, BeingMarked
  <2>5. \A u \in Thread : pc'[u] = "fork" => pc[u] = "fork"
    BY <1>1, <2>1 DEF ForkReturns, TypeOK, MasterTypeOK
  <2>6. Fallen' \subseteq Fallen
    BY <1>1, <2>5 DEF Fallen, InFork
  <2> QED
    BY <1>1, <2>2, <2>3, <2>4, <2>6, BudgetFrame
<1> QED
  BY <1>2, <1>3

\* ForkExec: the new process is alive and in no table.
LEMMA ForkExecBudget ==
  ASSUME TypeOK, Budget, NEW t \in Thread, NEW p \in Pid, ForkExec(t, p), UNCHANGED crashes
  PROVE  Budget'
<1>1. /\ pc[t] = "fork" /\ held[t] = NoPid /\ crashes \in Nat
      /\ wk' = [wk EXCEPT ![p] = "boot"] /\ held' = [held EXCEPT ![t] = p]
      /\ UNCHANGED <<children, waiting, pc, todo, left, dead>>
  BY DEF ForkExec, tableVars, TypeOK, WorkerTypeOK
<1>2. \A u \in Thread : pc[u] = "mark" => held'[u] = held[u]
  BY <1>1 DEF TypeOK, MasterTypeOK
<1>3. Kept' = Kept /\ Due' = Due /\ Handled' = Handled
  BY <1>1, <1>2 DEF Kept, BeingMarked, Due, Owed, Promised, Handled
<1>4. Fallen' \subseteq Fallen
  <2> SUFFICES ASSUME NEW q \in Pid, wk'[q] = "exitN",
                      \/ q \in waiting'
                      \/ InFork(q)'
                      \/ children'[q] = "crash" /\ q # dead'
               PROVE  q \in Fallen
    BY DEF Fallen
  <2>1. q # p /\ wk[q] = "exitN"
    BY <1>1 DEF TypeOK, ProcTypeOK
  <2>2. InFork(q)' => InFork(q)
    BY <1>1, <2>1 DEF InFork, TypeOK, MasterTypeOK
  <2> QED
    BY <1>1, <2>1, <2>2 DEF Fallen
<1>5. Handled' <= Handled
  BY <1>3 DEF Handled
<1> QED
  BY <1>1, <1>3, <1>4, <1>5, BudgetFrame

\* watchChildren turns to a dead worker: for a crash it leaves Fallen, and the
\* fork that replaces it is due.
LEMMA VisitDeadBudget ==
  ASSUME TypeOK, TableInv, CountInv, CrashInv, Budget, NEW p \in Pid, VisitDead(p), masterUp,
         UNCHANGED crashes
  PROVE  Budget'
<1> DEFINE e == <<"watchChildren", 1>>
<1>1. /\ "watchChildren" \in Thread /\ "watchSignal" \in Thread /\ NoPid \notin Pid
      /\ "watchSignal" # "watchChildren" /\ 1 \in 1..WorkerNum /\ crashes \in Nat
  <2>1. 1 \in 1..WorkerNum
    BY MasterAssumption
  <2>2. NoPid \notin Pid
    BY PidAssumption
  <2>3. crashes \in Nat
    BY DEF TypeOK, WorkerTypeOK
  <2> QED
    BY <2>1, <2>2, <2>3 DEF Thread
<1>2. /\ pc["watchChildren"] = "idle" /\ dead = NoPid /\ dead' = p
      /\ children[p] \in {"crash", "quit"} /\ p \notin waiting
      /\ UNCHANGED <<children, waiting, wk, held, todo>>
  BY DEF VisitDead, CountInv, DeadInv, procVars, tableVars, TableInv, DeathInv
<1>3. /\ pc'["watchChildren"] \in {"fork", "delete"}
      /\ \A u \in Thread : u # "watchChildren" => pc'[u] = pc[u] /\ left'[u] = left[u]
  BY <1>1 DEF VisitDead, TypeOK, MasterTypeOK
<1>4. \A u \in Thread : pc'[u] = "mark" <=> pc[u] = "mark"
  BY <1>2, <1>3
<1>5. Kept' = Kept /\ Promised' = Promised
  BY <1>1, <1>2, <1>3, <1>4 DEF Kept, BeingMarked, Promised
<1>6. held["watchChildren"] = NoPid
  BY <1>1, <1>2 DEF TableInv, HeldInv
<1>7. \A q \in Pid : InFork(q)' => InFork(q)
  BY <1>1, <1>2, <1>3, <1>6 DEF InFork
<1>8. CASE children[p] = "crash"
  <2>1. pc'["watchChildren"] = "fork" /\ left'["watchChildren"] = 1
    BY <1>1, <1>8 DEF VisitDead, TypeOK, MasterTypeOK
  <2>2. p \in Fallen
    BY <1>1, <1>2, <1>8 DEF Fallen, CrashInv
  <2>3. children[p] # "absent" /\ ~InFork(p)
    BY <1>1, <1>8 DEF InFork, TableInv, ForkInv
  <2>4. p \notin Fallen'
    BY <1>2, <1>7, <2>3 DEF Fallen
  <2>5. Fallen' \subseteq Fallen \ {p}
    BY <1>1, <1>2, <1>7, <2>4 DEF Fallen
  <2>6. e \notin Due /\ Due' = Due \cup {e}
    <3>1. e \notin Owed /\ Owed' = Owed \cup {e}
      BY <1>1, <1>2, <1>3, <2>1 DEF Owed
    <3>2. e \notin Promised
      BY <1>2 DEF Promised
    <3> QED
      BY <1>5, <3>1, <3>2 DEF Due
  <2>7. /\ IsFiniteSet(Fallen') /\ Cardinality(Fallen') <= Cardinality(Fallen) - 1
    <3>1. IsFiniteSet(Fallen \ {p}) /\ Cardinality(Fallen \ {p}) = Cardinality(Fallen) - 1
      BY <2>2, FS_RemoveElement DEF Budget
    <3> QED
      BY <2>5, <3>1, FS_Subset
  <2>8. Cardinality(Due') = Cardinality(Due) + 1
    BY <2>6, DueForks, FS_AddElement
  <2>9. Handled = 0 /\ Handled' = 1
    BY <1>2, <2>1 DEF Handled
  <2>10. /\ Cardinality(Kept) \in Nat /\ Slots \in Nat /\ Slots' = Slots
         /\ Cardinality(Fallen) \in Nat /\ Cardinality(Fallen') \in Nat
         /\ Cardinality(Due) \in Nat /\ Cardinality(Due') \in Nat
    BY <2>7, FS_CardinalityType, DueForks, SlotsCount DEF Budget, Slots
  <2> QED
    BY <1>1, <1>5, <2>7, <2>8, <2>9, <2>10 DEF Budget
<1>9. CASE children[p] # "crash"
  <2>1. pc'["watchChildren"] = "delete" /\ left' = left
    BY <1>1, <1>9 DEF VisitDead, TypeOK, MasterTypeOK
  <2>2. Owed' = Owed /\ Handled' <= Handled
    BY <1>1, <1>2, <1>3, <2>1 DEF Owed, Handled
  <2>3. Fallen' \subseteq Fallen
    BY <1>1, <1>2, <1>7 DEF Fallen
  <2>4. Due' = Due
    BY <1>5, <2>2 DEF Due
  <2> QED
    BY <1>1, <1>5, <2>2, <2>3, <2>4, BudgetFrame
<1> QED
  BY <1>8, <1>9

\* The entry watchChildren deletes is not kept, and its crash is made up for.
LEMMA DeleteDeadBudget ==
  ASSUME TypeOK, TableInv, Budget, DeleteDead, UNCHANGED crashes
  PROVE  Budget'
<1>1. "watchChildren" \in Thread /\ "watchChildren" # "watchSignal" /\ crashes \in Nat
  BY DEF Thread, TypeOK, WorkerTypeOK
<1>2. /\ pc["watchChildren"] = "delete" /\ dead \in Pid /\ dead \notin waiting
      /\ children' = [children EXCEPT ![dead] = "absent"]
      /\ pc' = [pc EXCEPT !["watchChildren"] = "idle"]
      /\ UNCHANGED <<wk, waiting, held, todo, left>>
  BY DEF DeleteDead, procVars, TableInv, DeathInv
<1>3. pc'["watchChildren"] = "idle" /\ \A u \in Thread : u # "watchChildren" => pc'[u] = pc[u]
  BY <1>1, <1>2 DEF TypeOK, MasterTypeOK
<1>4. \A u \in Thread : (pc'[u] = "mark" <=> pc[u] = "mark") /\ (pc'[u] = "fork" <=> pc[u] = "fork")
  BY <1>2, <1>3
<1>5. \A p \in Pid : children'[p] = IF p = dead THEN "absent" ELSE children[p]
  BY <1>2 DEF TypeOK, MasterTypeOK
<1>6. Due' = Due /\ Kept' \subseteq Kept
  BY <1>2, <1>4, <1>5 DEF Due, Owed, Promised, Kept, BeingMarked
<1>7. Handled' <= Handled
  BY <1>1, <1>2, <1>3, ThreadsFinite DEF Handled
<1>8. \A p \in Pid : InFork(p)' => InFork(p)
  BY <1>2, <1>4 DEF InFork
<1>9. Fallen' \subseteq Fallen
  BY <1>2, <1>5, <1>8 DEF Fallen
<1> QED
  BY <1>1, <1>6, <1>7, <1>9, BudgetFrame

\* waitWorker records a death that was counted already.
LEMMA WaitWorkerBudget ==
  ASSUME TypeOK, Budget, NEW p \in Pid, WaitWorker(p), masterUp, UNCHANGED crashes
  PROVE  Budget'
<1>1. /\ p \in waiting /\ Exited(p) /\ crashes \in Nat
      /\ children' = [children EXCEPT ![p] = IF wk[p] = "exit0" THEN "quit" ELSE "crash"]
      /\ waiting' = waiting \ {p}
      /\ UNCHANGED <<wk, pc, todo, held, left, dead>>
  BY DEF WaitWorker, procVars, threadVars, TypeOK, WorkerTypeOK
<1>2. /\ children'[p] \in {"quit", "crash"}
      /\ \A q \in Pid : q # p => children'[q] = children[q]
  BY <1>1 DEF TypeOK, MasterTypeOK
<1>3. Kept' \subseteq Kept
  BY <1>1, <1>2 DEF Kept, BeingMarked
<1>4. Due' = Due /\ Handled' <= Handled
  BY <1>1 DEF Due, Owed, Promised, Handled
<1>5. \A q \in Pid : InFork(q)' => InFork(q)
  BY <1>1 DEF InFork
<1>6. Fallen' \subseteq Fallen
  BY <1>1, <1>2, <1>5 DEF Fallen
<1> QED
  BY <1>1, <1>3, <1>4, <1>6, BudgetFrame

\* The load of a mark: what is alive is still to be marked by its store.
LEMMA ReloadLoadBudget ==
  ASSUME TypeOK, Budget, NEW t \in Thread, NEW p \in Pid, ReloadLoad(t, p), UNCHANGED crashes
  PROVE  Budget'
<1>1. /\ pc[t] = "mark" /\ held[t] = NoPid /\ p \in todo[t] /\ crashes \in Nat
      /\ todo' = [todo EXCEPT ![t] = todo[t] \ {p}]
      /\ held' = [held EXCEPT ![t] = IF children[p] = "alive" THEN p ELSE NoPid]
      /\ UNCHANGED <<wk, children, waiting, pc, left, dead>>
  BY DEF ReloadLoad, procVars, tableVars, TypeOK, WorkerTypeOK
<1>2. \A u \in Thread \ {t} : todo'[u] = todo[u] /\ held'[u] = held[u]
  BY <1>1 DEF TypeOK, MasterTypeOK
<1>3. /\ todo'[t] = todo[t] \ {p}
      /\ children[p] = "alive" => held'[t] = p
  BY <1>1 DEF TypeOK, MasterTypeOK
<1>4. \A q \in Pid : BeingMarked(q) /\ children[q] = "alive" => BeingMarked(q)'
  <2> SUFFICES ASSUME NEW q \in Pid, children[q] = "alive",
                      NEW u \in Thread, pc[u] = "mark", q \in todo[u] \/ held[u] = q
               PROVE  BeingMarked(q)'
    BY DEF BeingMarked
  <2>1. CASE u # t
    BY <1>1, <1>2, <2>1 DEF BeingMarked
  <2>2. CASE u = t
    <3>1. q \in todo[t]
      BY <1>1, <2>2, PidAssumption
    <3>2. q \in todo'[t] \/ held'[t] = q
      BY <1>3, <3>1
    <3> QED
      BY <1>1, <3>2 DEF BeingMarked
  <2> QED
    BY <2>1, <2>2
<1>5. Kept' \subseteq Kept
  BY <1>1, <1>4 DEF Kept
<1>6. Due' = Due /\ Handled' <= Handled
  BY <1>1 DEF Due, Owed, Promised, Handled
<1>7. \A q \in Pid : InFork(q)' => InFork(q)
  BY <1>1, <1>2 DEF InFork
<1>8. Fallen' \subseteq Fallen
  BY <1>1, <1>7 DEF Fallen
<1> QED
  BY <1>1, <1>5, <1>6, <1>8, BudgetFrame

\* The store of a mark: the worker is not alive any more.
LEMMA ReloadStoreBudget ==
  ASSUME TypeOK, Budget, NEW t \in Thread, ReloadStore(t), UNCHANGED crashes
  PROVE  Budget'
<1>1. /\ pc[t] = "mark" /\ held[t] \in Pid /\ crashes \in Nat
      /\ children' = [children EXCEPT ![held[t]] = "reload"]
      /\ held' = [held EXCEPT ![t] = NoPid]
      /\ UNCHANGED <<wk, waiting, pc, todo, left, dead>>
  BY DEF ReloadStore, procVars, TypeOK, MasterTypeOK, WorkerTypeOK
<1>2. /\ children'[held[t]] = "reload"
      /\ \A q \in Pid : q # held[t] => children'[q] = children[q]
      /\ \A u \in Thread \ {t} : held'[u] = held[u]
  BY <1>1 DEF TypeOK, MasterTypeOK
<1>3. \A q \in Pid : q # held[t] /\ BeingMarked(q) => BeingMarked(q)'
  BY <1>1, <1>2 DEF BeingMarked
<1>4. Kept' \subseteq Kept
  BY <1>2, <1>3 DEF Kept
<1>5. Due' = Due /\ Handled' <= Handled
  BY <1>1 DEF Due, Owed, Promised, Handled
<1>6. \A q \in Pid : InFork(q)' => InFork(q)
  BY <1>1, <1>2 DEF InFork
<1>7. Fallen' \subseteq Fallen
  BY <1>1, <1>2, <1>6 DEF Fallen
<1> QED
  BY <1>1, <1>4, <1>5, <1>7, BudgetFrame

\* A reload has marked: what it promised is owed.
LEMMA ReloadMarkedBudget ==
  ASSUME TypeOK, TableInv, Budget, NEW t \in Thread, ReloadMarked(t), UNCHANGED crashes
  PROVE  Budget'
<1>1. /\ pc[t] = "mark" /\ held[t] = NoPid /\ todo[t] = {} /\ crashes \in Nat
      /\ t \in Reloader /\ left[t] = WorkerNum
      /\ pc' = [pc EXCEPT ![t] = "fork"]
      /\ UNCHANGED <<wk, children, waiting, todo, held, left, dead>>
  BY DEF ReloadMarked, procVars, tableVars, TableInv, LoopInv, TypeOK, WorkerTypeOK
<1>2. /\ "watchChildren" \in Thread /\ t # "watchChildren"
  BY <1>1, MasterAssumption DEF Thread, Reloader
<1>3. pc'[t] = "fork" /\ \A u \in Thread \ {t} : pc'[u] = pc[u]
  BY <1>1 DEF TypeOK, MasterTypeOK
<1>4. \A q \in Pid : BeingMarked(q) => BeingMarked(q)'
  BY <1>1, <1>3, PidAssumption DEF BeingMarked
<1>5. Kept' \subseteq Kept
  BY <1>1, <1>4 DEF Kept
<1>6. Due' \subseteq Due
  <2> SUFFICES ASSUME NEW u \in Thread, NEW i \in 1..WorkerNum, <<u, i>> \in Due'
               PROVE  <<u, i>> \in Due
    BY DueForks
  <2>1. CASE u = t
    BY <1>1, <2>1 DEF Due, Promised
  <2>2. CASE u # t
    BY <1>1, <1>3, <2>2 DEF Due, Promised, Owed
  <2> QED
    BY <2>1, <2>2
<1>7. Handled' <= Handled
  BY <1>1, <1>2, <1>3, ThreadsFinite DEF Handled
<1>8. \A q \in Pid : InFork(q)' => InFork(q)
  BY <1>1, <1>3, PidAssumption DEF InFork
<1>9. Fallen' \subseteq Fallen
  BY <1>1, <1>8 DEF Fallen
<1> QED
  BY <1>1, <1>5, <1>6, <1>7, <1>9, BudgetFrame

\* A reload starts: everything alive is still to be marked, and the reloads
\* and watchChildren together owe no more than their loops can fork.
LEMMA ReloadBudget ==
  ASSUME TypeOK, TableInv, CrashInv, Budget, NEW t \in Reloader, Reload(t), UNCHANGED crashes
  PROVE  Budget'
<1> DEFINE A == Reloader \X (1..WorkerNum)
           e == <<"watchChildren", 1>>
<1>1. /\ pc[t] = "idle" /\ t \in Thread /\ crashes \in Nat
      /\ "main" \in Thread /\ "watchChildren" \in Thread
      /\ t # "main" /\ t # "watchChildren" /\ pc["main"] = "idle"
  BY ThreadsFinite, MasterAssumption
     DEF Reload, Started, Thread, Reloader, TypeOK, WorkerTypeOK
<1>2. /\ pc' = [pc EXCEPT ![t] = "mark"] /\ todo' = [todo EXCEPT ![t] = Keys]
      /\ left' = [left EXCEPT ![t] = WorkerNum]
      /\ UNCHANGED <<wk, children, waiting, held, dead>>
  BY DEF Reload, procVars, tableVars
<1>3. /\ pc'[t] = "mark" /\ todo'[t] = Keys
      /\ \A u \in Thread \ {t} : pc'[u] = pc[u] /\ left'[u] = left[u]
  BY <1>1, <1>2 DEF TypeOK, MasterTypeOK
<1>4. Kept' = {}
  <2>1. \A p \in Pid : children'[p] = "alive" => BeingMarked(p)'
    BY <1>1, <1>2, <1>3 DEF BeingMarked, Keys
  <2> QED
    BY <2>1 DEF Kept
<1>5. Handled' = Handled
  BY <1>1, <1>2, <1>3, ThreadsFinite DEF Handled
<1>6. \A q \in Pid : InFork(q)' => InFork(q)
  BY <1>1, <1>2, <1>3 DEF InFork
<1>7. Fallen' \subseteq Fallen
  BY <1>2, <1>6 DEF Fallen
<1>8. Due' \subseteq A \cup (IF Handled = 1 THEN {e} ELSE {})
  <2> SUFFICES ASSUME NEW u \in Thread, NEW i \in 1..WorkerNum, <<u, i>> \in Due'
               PROVE  <<u, i>> \in A \/ (Handled = 1 /\ u = "watchChildren" /\ i = 1)
    BY DueForks
  <2>1. pc'[u] = "mark" \/ (pc'[u] = "fork" /\ i <= left'[u])
    BY DEF Due, Owed, Promised
  <2>2. CASE u \in Reloader
    BY <2>2
  <2>3. CASE u \notin Reloader
    <3>1. u \in {"main", "watchChildren"}
      BY <2>3 DEF Thread, Reloader
    <3>2. u # t /\ pc'[u] = pc[u] /\ left'[u] = left[u]
      BY <1>3, <2>3
    <3>3. pc[u] # "mark"
      BY <2>3 DEF TableInv, LoopInv
    <3>4. u = "watchChildren" /\ pc[u] = "fork" /\ i <= left[u]
      BY <1>1, <2>1, <3>1, <3>2, <3>3
    <3>5. i <= 1
      BY <3>4 DEF CrashInv
    <3> QED
      BY <3>4, <3>5 DEF Handled
  <2> QED
    BY <2>2, <2>3
<1>9. IsFiniteSet(A) /\ Cardinality(A) = Slots /\ Slots \in Nat
  BY SlotsCount
<1> HIDE DEF A, e
<1>10. Cardinality(Due') <= Slots + Handled
  <2>1. CASE Handled = 1
    <3>1. Due' \subseteq A \cup {e}
      BY <1>8, <2>1
    <3>2. IsFiniteSet(A \cup {e}) /\ Cardinality(A \cup {e}) <= Cardinality(A) + 1
      <4>1. CASE e \in A
        <5>1. A \cup {e} = A
          BY <4>1
        <5> QED
          BY <1>9, <5>1
      <4>2. CASE e \notin A
        BY <1>9, <4>2, FS_AddElement
      <4> QED
        BY <4>1, <4>2
    <3>3. Cardinality(Due') <= Cardinality(A \cup {e})
      BY <3>1, <3>2, FS_Subset
    <3>4. Cardinality(Due') \in Nat /\ Cardinality(A \cup {e}) \in Nat
      BY <3>2, DueForks, FS_CardinalityType
    <3> QED
      BY <1>9, <2>1, <3>2, <3>3, <3>4
  <2>2. CASE Handled # 1
    <3>1. Due' \subseteq A /\ Handled = 0
      BY <1>8, <2>2 DEF Handled
    <3>2. Cardinality(Due') <= Cardinality(A)
      BY <1>9, <3>1, FS_Subset
    <3> QED
      BY <1>9, <3>1, <3>2
  <2> QED
    BY <2>1, <2>2
<1>11. /\ IsFiniteSet(Kept') /\ Cardinality(Kept') = 0
       /\ IsFiniteSet(Fallen') /\ Cardinality(Fallen') <= Cardinality(Fallen)
  BY <1>4, <1>7, FS_EmptySet, FS_Subset DEF Budget
<1>12. /\ Cardinality(Fallen) \in Nat /\ Cardinality(Fallen') \in Nat
       /\ Cardinality(Due') \in Nat /\ Handled \in Nat /\ Slots' = Slots
  BY <1>11, FS_CardinalityType, DueForks DEF Budget, Handled, Slots
<1> QED
  BY <1>1, <1>5, <1>9, <1>10, <1>11, <1>12 DEF Budget

\* A crash: one fallen more, and one crash more to be made up for.
LEMMA CrashBudget ==
  ASSUME TypeOK, Budget, NEW p \in Pid, Crash(p), UNCHANGED masterVars
  PROVE  Budget'
<1>1. /\ crashes \in Nat /\ crashes' = crashes + 1 /\ wk' = [wk EXCEPT ![p] = "exitN"]
      /\ wk[p] # "exitN"
      /\ UNCHANGED <<children, waiting, pc, todo, held, left, dead>>
  BY DEF Crash, Running, masterVars, tableVars, threadVars, TypeOK, WorkerTypeOK
<1>2. Kept' = Kept /\ Due' = Due /\ Handled' = Handled
  BY <1>1 DEF Kept, BeingMarked, Due, Owed, Promised, Handled
<1>3. Fallen' \subseteq Fallen \cup {p} /\ p \notin Fallen
  <2>1. \A q \in Pid : q # p => wk'[q] = wk[q]
    BY <1>1 DEF TypeOK, ProcTypeOK
  <2>2. \A q \in Pid : InFork(q)' <=> InFork(q)
    BY <1>1 DEF InFork
  <2> QED
    BY <1>1, <2>1, <2>2 DEF Fallen
<1>4. IsFiniteSet(Fallen') /\ Cardinality(Fallen') <= Cardinality(Fallen) + 1
  <2>1. IsFiniteSet(Fallen \cup {p}) /\ Cardinality(Fallen \cup {p}) = Cardinality(Fallen) + 1
    BY <1>3, FS_AddElement DEF Budget
  <2> QED
    BY <1>3, <2>1, FS_Subset
<1>5. /\ Cardinality(Kept) \in Nat /\ Cardinality(Fallen) \in Nat /\ Cardinality(Fallen') \in Nat
      /\ Cardinality(Due) \in Nat /\ Handled \in Nat /\ Slots \in Nat /\ Slots' = Slots
  BY <1>4, FS_CardinalityType, DueForks, SlotsCount DEF Budget, Handled, Slots
<1> QED
  BY <1>1, <1>2, <1>4, <1>5 DEF Budget

\* watchSignal turns to a graceful stop, or goes on with it: no worker dies.
LEMMA StopBudget ==
  ASSUME TypeOK, Budget, UNCHANGED <<wk, children, waiting, held, left, dead, crashes>>,
         \A u \in Thread \ {"watchSignal"} : pc'[u] = pc[u] /\ todo'[u] = todo[u],
         pc["watchSignal"] \in {"idle", "quitAll"}, pc'["watchSignal"] = "quitAll"
  PROVE  Budget'
<1>1. "watchSignal" \in Thread /\ "watchChildren" \in Thread /\ "watchSignal" # "watchChildren"
  BY DEF Thread
<1>2. \A u \in Thread : /\ pc'[u] = "mark" <=> pc[u] = "mark"
                        /\ pc'[u] = "fork" <=> pc[u] = "fork"
                        /\ pc[u] = "mark" => todo'[u] = todo[u]
  <2> TAKE u \in Thread
  <2>1. CASE u = "watchSignal"
    BY <2>1
  <2>2. CASE u # "watchSignal"
    BY <2>2
  <2> QED
    BY <2>1, <2>2
<1>3. Kept' = Kept /\ Due' = Due /\ Handled' <= Handled
  BY <1>1, <1>2 DEF Kept, BeingMarked, Due, Owed, Promised, Handled
<1>4. \A q \in Pid : InFork(q)' <=> InFork(q)
  BY <1>2 DEF InFork
<1>5. Fallen' = Fallen /\ crashes \in Nat
  BY <1>4 DEF Fallen, TypeOK, WorkerTypeOK
<1> QED
  BY <1>3, <1>5, BudgetFrame

-----------------------------------------------------------------------------
\* A stop is for good: what is tended after a step was tended before it.
LEMMA TendedStep ==
  ASSUME TypeOK, [Next]_vars, Tended'
  PROVE  Tended
<1> USE DEF Tended
<1>1. ASSUME NEW t \in Thread, NEW p \in Pid, ForkExec(t, p), masterUp, UNCHANGED crashes
      PROVE  Tended
  BY <1>1, ThreadsFinite DEF ForkExec, procVars, masterVars, threadVars, TypeOK, MasterTypeOK
<1>2. ASSUME NEW t \in Thread, ForkStore(t), masterUp, UNCHANGED crashes
      PROVE  Tended
  BY <1>2, ThreadsFinite DEF ForkStore, ForkReturns, procVars, masterVars, threadVars, TypeOK, MasterTypeOK
<1>3. ASSUME NEW t \in Thread, NEW p \in Pid, ReloadLoad(t, p), masterUp, UNCHANGED crashes
      PROVE  Tended
  BY <1>3, ThreadsFinite DEF ReloadLoad, procVars, masterVars, threadVars, TypeOK, MasterTypeOK
<1>4. ASSUME NEW t \in Thread, ReloadStore(t), masterUp, UNCHANGED crashes
      PROVE  Tended
  BY <1>4, ThreadsFinite DEF ReloadStore, procVars, masterVars, threadVars, TypeOK, MasterTypeOK
<1>5. ASSUME NEW t \in Thread, ReloadMarked(t), masterUp, UNCHANGED crashes
      PROVE  Tended
  BY <1>5, ThreadsFinite DEF ReloadMarked, procVars, masterVars, threadVars, TypeOK, MasterTypeOK
<1>6. ASSUME NEW p \in Pid, VisitDead(p), masterUp, UNCHANGED crashes
      PROVE  Tended
  BY <1>6, ThreadsFinite DEF VisitDead, procVars, masterVars, threadVars, TypeOK, MasterTypeOK
<1>7. ASSUME DeleteDead, masterUp, UNCHANGED crashes
      PROVE  Tended
  BY <1>7, ThreadsFinite DEF DeleteDead, procVars, masterVars, threadVars, TypeOK, MasterTypeOK
<1>8. ASSUME NEW p \in Pid, WaitWorker(p), masterUp, UNCHANGED crashes
      PROVE  Tended
  BY <1>8, ThreadsFinite DEF WaitWorker, procVars, masterVars, threadVars, TypeOK, MasterTypeOK
<1>9. ASSUME NEW p \in Pid, ReadTakeover(p), masterUp, UNCHANGED crashes
      PROVE  Tended
  BY <1>9, ThreadsFinite DEF ReadTakeover, procVars, masterVars, threadVars, TypeOK, MasterTypeOK
<1>10. ASSUME NEW p \in Pid, NotifyStart(p), masterUp, UNCHANGED crashes
       PROVE  Tended
  BY <1>10, ThreadsFinite DEF NotifyStart, procVars, masterVars, threadVars, TypeOK, MasterTypeOK
<1>11. ASSUME NEW p \in Pid, NEW q \in Pid, NotifyReload(p, q), masterUp, UNCHANGED crashes
       PROVE  Tended
  BY <1>11, ThreadsFinite DEF NotifyReload, procVars, masterVars, threadVars, TypeOK, MasterTypeOK
<1>12. ASSUME MasterExit, masterUp, UNCHANGED crashes
       PROVE  Tended
  BY <1>12, ThreadsFinite DEF MasterExit, procVars, masterVars, threadVars, TypeOK, MasterTypeOK
<1>13. ASSUME NEW q \in Pid, GracefulNotify(q), masterUp, UNCHANGED crashes
       PROVE  Tended
  BY <1>13, ThreadsFinite DEF GracefulNotify, procVars, masterVars, threadVars, TypeOK, MasterTypeOK
<1>14. ASSUME NEW q \in Pid, RoughKill(q), masterUp, UNCHANGED crashes
       PROVE  Tended
  BY <1>14, ThreadsFinite DEF RoughKill, procVars, masterVars, threadVars, TypeOK, MasterTypeOK
<1>15. ASSUME NEW t \in Thread, ForkFails(t), masterUp, UNCHANGED crashes
       PROVE  Tended
  BY <1>15, ThreadsFinite DEF ForkFails, ForkReturns, procVars, masterVars, threadVars, TypeOK, MasterTypeOK
<1>16. ASSUME NEW t \in Reloader, Reload(t), masterUp, UNCHANGED crashes
       PROVE  Tended
  BY <1>16, ThreadsFinite DEF Reload, procVars, masterVars, threadVars, TypeOK, MasterTypeOK
<1>17. ASSUME NEW p \in Pid, LoseTakeover(p), masterUp, UNCHANGED crashes
       PROVE  Tended
  BY <1>17, ThreadsFinite DEF LoseTakeover, procVars, masterVars, threadVars, TypeOK, MasterTypeOK
<1>18. ASSUME Graceful, masterUp, UNCHANGED crashes
       PROVE  Tended
  BY <1>18, ThreadsFinite DEF Graceful, StopSignalRead, procVars, masterVars, threadVars, TypeOK, MasterTypeOK
<1>19. ASSUME Rough, masterUp, UNCHANGED crashes
       PROVE  Tended
  BY <1>19, ThreadsFinite DEF Rough, StopSignalRead, procVars, masterVars, threadVars, TypeOK, MasterTypeOK
<1>20. ASSUME MasterKilled, masterUp, UNCHANGED crashes
       PROVE  Tended
  BY <1>20, ThreadsFinite DEF MasterKilled, procVars, masterVars, threadVars, TypeOK, MasterTypeOK
<1>21. ASSUME NEW p \in Pid, StartGoroutines(p), UNCHANGED masterVars
       PROVE  Tended
  BY <1>21, ThreadsFinite DEF StartGoroutines, procVars, masterVars, threadVars, TypeOK, MasterTypeOK
<1>22. ASSUME NEW p \in Pid, NotifyMaster(p), UNCHANGED masterVars
       PROVE  Tended
  BY <1>22, ThreadsFinite DEF NotifyMaster, procVars, masterVars, threadVars, TypeOK, MasterTypeOK
<1>23. ASSUME NEW p \in Pid, ReadQuit(p), UNCHANGED masterVars
       PROVE  Tended
  BY <1>23, ThreadsFinite DEF ReadQuit, procVars, masterVars, threadVars, TypeOK, MasterTypeOK
<1>24. ASSUME NEW p \in Pid, End(p), UNCHANGED masterVars
       PROVE  Tended
  BY <1>24, ThreadsFinite DEF End, procVars, masterVars, threadVars, TypeOK, MasterTypeOK
<1>25. ASSUME NEW p \in Pid, WatchMaster(p), UNCHANGED masterVars
       PROVE  Tended
  BY <1>25, ThreadsFinite DEF WatchMaster, procVars, masterVars, threadVars, TypeOK, MasterTypeOK
<1>26. ASSUME NEW p \in Pid, Crash(p), UNCHANGED masterVars
       PROVE  Tended
  BY <1>26, ThreadsFinite DEF Crash, procVars, masterVars, threadVars, TypeOK, MasterTypeOK
<1>27. CASE UNCHANGED vars
  BY <1>27, ThreadsFinite DEF vars, procVars, masterVars, threadVars, TypeOK, MasterTypeOK
<1> QED
  BY <1>1, <1>2, <1>3, <1>4, <1>5, <1>6, <1>7, <1>8, <1>9, <1>10, <1>11,
     <1>12, <1>13, <1>14, <1>15, <1>16, <1>17, <1>18, <1>19, <1>20, <1>21,
     <1>22, <1>23, <1>24, <1>25, <1>26, <1>27 DEF Next, MasterStep,
     ThreadStep, WatchChildrenStep, ReaderStep, StopStep, Environment,
     MasterEnvironment, WorkerStep

\* Steps that record no crash, and none of watchChildren.
LEMMA CrashFrame ==
  ASSUME CrashInv,
         \A p \in Pid : children'[p] = "crash" => children[p] = "crash",
         \A p \in Pid : wk[p] = "exitN" => wk'[p] = "exitN",
         pc'["watchChildren"] = "fork" => left'["watchChildren"] = 1
  PROVE  CrashInv'
BY DEF CrashInv

\* Steps outside the tables and the loops that bring nobody back.
LEMMA CrashQuiet ==
  ASSUME CrashInv, UNCHANGED <<children, pc, left>>,
         \A p \in Pid : wk[p] = "exitN" => wk'[p] = "exitN"
  PROVE  CrashInv'
BY DEF CrashInv

\* Every step records only crashes as crashes.
LEMMA CrashInvStep ==
  ASSUME TypeOK, TableInv, CrashInv, [Next]_vars
  PROVE  CrashInv'
<1>1. ASSUME NEW t \in Thread, NEW p \in Pid, ForkExec(t, p), masterUp, UNCHANGED crashes
      PROVE  CrashInv'
  BY <1>1, CrashQuiet DEF ForkExec, Running, Serving, NextPid, procVars, masterVars,
     tableVars, threadVars, TypeOK, ProcTypeOK
<1>2. ASSUME NEW t \in Thread, ForkStore(t), masterUp, UNCHANGED crashes
      PROVE  CrashInv'
  <2>1. /\ pc[t] = "fork" /\ LoopInv /\ ForkReturns(t) /\ UNCHANGED wk
        /\ \A p \in Pid : children'[p] = "crash" => children[p] = "crash"
    BY <1>2 DEF ForkStore, procVars, TableInv, TypeOK, MasterTypeOK
  <2> QED
    BY <2>1, ForkReturnsHandled, CrashFrame
<1>3. ASSUME NEW t \in Thread, NEW p \in Pid, ReloadLoad(t, p), masterUp, UNCHANGED crashes
      PROVE  CrashInv'
  BY <1>3, CrashQuiet DEF ReloadLoad, Running, Serving, NextPid, procVars, masterVars,
     tableVars, threadVars, TypeOK, ProcTypeOK
<1>4. ASSUME NEW t \in Thread, ReloadStore(t), masterUp, UNCHANGED crashes
      PROVE  CrashInv'
  <2>1. /\ UNCHANGED <<wk, pc, left>>
        /\ \A p \in Pid : children'[p] = "crash" => children[p] = "crash"
    BY <1>4 DEF ReloadStore, procVars, TypeOK, MasterTypeOK
  <2> QED
    BY <2>1, CrashFrame DEF CrashInv
<1>5. ASSUME NEW t \in Thread, ReloadMarked(t), masterUp, UNCHANGED crashes
      PROVE  CrashInv'
  <2>1. UNCHANGED <<wk, children>> /\ t # "watchChildren"
    BY <1>5, MasterAssumption DEF ReloadMarked, procVars, tableVars, Reloader, TableInv, LoopInv
  <2>2. pc'["watchChildren"] = pc["watchChildren"] /\ left'["watchChildren"] = left["watchChildren"]
    BY <1>5, <2>1 DEF ReloadMarked, TypeOK, MasterTypeOK
  <2> QED
    BY <2>1, <2>2, CrashFrame DEF CrashInv
<1>6. ASSUME NEW p \in Pid, VisitDead(p), masterUp, UNCHANGED crashes
      PROVE  CrashInv'
  <2>1. UNCHANGED <<wk, children>>
    BY <1>6 DEF VisitDead, procVars, tableVars
  <2>2. "watchChildren" \in Thread
    BY DEF Thread
  <2>3. pc'["watchChildren"] = "fork" => left'["watchChildren"] = 1
    BY <1>6, <2>2 DEF VisitDead, TypeOK, MasterTypeOK
  <2> QED
    BY <2>1, <2>3, CrashFrame
<1>7. ASSUME DeleteDead, masterUp, UNCHANGED crashes
      PROVE  CrashInv'
  <2>1. /\ UNCHANGED <<wk, left>>
        /\ \A p \in Pid : children'[p] = "crash" => children[p] = "crash"
    BY <1>7 DEF DeleteDead, procVars, TypeOK, MasterTypeOK
  <2>2. "watchChildren" \in Thread
    BY DEF Thread
  <2>3. pc'["watchChildren"] # "fork"
    BY <1>7, <2>2 DEF DeleteDead, TypeOK, MasterTypeOK
  <2> QED
    BY <2>1, <2>3, CrashFrame
<1>8. ASSUME NEW p \in Pid, WaitWorker(p), masterUp, UNCHANGED crashes
      PROVE  CrashInv'
  <2>1. /\ UNCHANGED <<wk, pc, left>> /\ wk[p] \in {"exit0", "exitN"}
        /\ children' = [children EXCEPT ![p] = IF wk[p] = "exit0" THEN "quit" ELSE "crash"]
    BY <1>8 DEF WaitWorker, Exited, procVars, threadVars
  <2>2. \A q \in Pid : children'[q] = "crash" => wk'[q] = "exitN"
    BY <2>1 DEF CrashInv, TypeOK, MasterTypeOK
  <2> QED
    BY <2>1, <2>2 DEF CrashInv
<1>9. ASSUME NEW p \in Pid, ReadTakeover(p), masterUp, UNCHANGED crashes
      PROVE  CrashInv'
  BY <1>9, CrashQuiet DEF ReadTakeover, Running, Serving, NextPid, procVars, masterVars,
     tableVars, threadVars, TypeOK, ProcTypeOK
<1>10. ASSUME NEW p \in Pid, NotifyStart(p), masterUp, UNCHANGED crashes
       PROVE  CrashInv'
  BY <1>10, CrashQuiet DEF NotifyStart, Running, Serving, NextPid, procVars, masterVars,
     tableVars, threadVars, TypeOK, ProcTypeOK
<1>11. ASSUME NEW p \in Pid, NEW q \in Pid, NotifyReload(p, q), masterUp, UNCHANGED crashes
       PROVE  CrashInv'
  BY <1>11, CrashQuiet DEF NotifyReload, Running, Serving, NextPid, procVars, masterVars,
     tableVars, threadVars, TypeOK, ProcTypeOK
<1>12. ASSUME MasterExit, masterUp, UNCHANGED crashes
       PROVE  CrashInv'
  BY <1>12, CrashQuiet DEF MasterExit, Running, Serving, NextPid, procVars, masterVars,
     tableVars, threadVars, TypeOK, ProcTypeOK
<1>13. ASSUME NEW q \in Pid, GracefulNotify(q), masterUp, UNCHANGED crashes
       PROVE  CrashInv'
  BY <1>13, CrashQuiet DEF GracefulNotify, Running, Serving, NextPid, procVars, masterVars,
     tableVars, threadVars, TypeOK, ProcTypeOK
<1>14. ASSUME NEW q \in Pid, RoughKill(q), masterUp, UNCHANGED crashes
       PROVE  CrashInv'
  BY <1>14, CrashQuiet DEF RoughKill, Running, Serving, NextPid, procVars, masterVars,
     tableVars, threadVars, TypeOK, ProcTypeOK
<1>15. ASSUME NEW t \in Thread, ForkFails(t), masterUp, UNCHANGED crashes
       PROVE  CrashInv'
  <2>1. pc[t] = "fork" /\ LoopInv /\ UNCHANGED <<children, wk>>
    BY <1>15 DEF ForkFails, tableVars, TableInv
  <2>2. CASE t = "main"
    BY <1>15, <2>1, <2>2, CrashQuiet DEF ForkFails
  <2>3. CASE t # "main"
    <3>1. ForkReturns(t)
      BY <1>15, <2>3 DEF ForkFails
    <3> QED
      BY <2>1, <3>1, ForkReturnsHandled, CrashFrame
  <2> QED
    BY <2>2, <2>3
<1>16. ASSUME NEW t \in Reloader, Reload(t), masterUp, UNCHANGED crashes
       PROVE  CrashInv'
  <2>1. UNCHANGED <<wk, children>> /\ t # "watchChildren"
    BY <1>16, MasterAssumption DEF Reload, procVars, tableVars, Reloader, TableInv, LoopInv
  <2>2. pc'["watchChildren"] = pc["watchChildren"] /\ left'["watchChildren"] = left["watchChildren"]
    BY <1>16, <2>1 DEF Reload, TypeOK, MasterTypeOK
  <2> QED
    BY <2>1, <2>2, CrashFrame DEF CrashInv
<1>17. ASSUME NEW p \in Pid, LoseTakeover(p), masterUp, UNCHANGED crashes
       PROVE  CrashInv'
  BY <1>17, CrashQuiet DEF LoseTakeover, Running, Serving, NextPid, procVars, masterVars,
     tableVars, threadVars, TypeOK, ProcTypeOK
<1>18. ASSUME Graceful, masterUp, UNCHANGED crashes
       PROVE  CrashInv'
  <2>1. UNCHANGED <<wk, children, left>> /\ pc'["watchChildren"] = pc["watchChildren"]
    BY <1>18 DEF Graceful, StopSignalRead, procVars, tableVars, TypeOK, MasterTypeOK
  <2> QED
    BY <2>1, CrashFrame DEF CrashInv
<1>19. ASSUME Rough, masterUp, UNCHANGED crashes
       PROVE  CrashInv'
  <2>1. UNCHANGED <<wk, children, left>> /\ pc'["watchChildren"] = pc["watchChildren"]
    BY <1>19 DEF Rough, StopSignalRead, procVars, tableVars, TypeOK, MasterTypeOK
  <2> QED
    BY <2>1, CrashFrame DEF CrashInv
<1>20. ASSUME MasterKilled, masterUp, UNCHANGED crashes
       PROVE  CrashInv'
  BY <1>20, CrashQuiet DEF MasterKilled, Running, Serving, NextPid, procVars, masterVars,
     tableVars, threadVars, TypeOK, ProcTypeOK
<1>21. ASSUME NEW p \in Pid, StartGoroutines(p), UNCHANGED masterVars
       PROVE  CrashInv'
  BY <1>21, CrashQuiet DEF StartGoroutines, Running, Serving, NextPid, procVars, masterVars,
     tableVars, threadVars, TypeOK, ProcTypeOK
<1>22. ASSUME NEW p \in Pid, NotifyMaster(p), UNCHANGED masterVars
       PROVE  CrashInv'
  BY <1>22, CrashQuiet DEF NotifyMaster, Running, Serving, NextPid, procVars, masterVars,
     tableVars, threadVars, TypeOK, ProcTypeOK
<1>23. ASSUME NEW p \in Pid, ReadQuit(p), UNCHANGED masterVars
       PROVE  CrashInv'
  BY <1>23, CrashQuiet DEF ReadQuit, Running, Serving, NextPid, procVars, masterVars,
     tableVars, threadVars, TypeOK, ProcTypeOK
<1>24. ASSUME NEW p \in Pid, End(p), UNCHANGED masterVars
       PROVE  CrashInv'
  BY <1>24, CrashQuiet DEF End, Running, Serving, NextPid, procVars, masterVars,
     tableVars, threadVars, TypeOK, ProcTypeOK
<1>25. ASSUME NEW p \in Pid, WatchMaster(p), UNCHANGED masterVars
       PROVE  CrashInv'
  BY <1>25, CrashQuiet DEF WatchMaster, Running, Serving, NextPid, procVars, masterVars,
     tableVars, threadVars, TypeOK, ProcTypeOK
<1>26. ASSUME NEW p \in Pid, Crash(p), UNCHANGED masterVars
       PROVE  CrashInv'
  BY <1>26, CrashQuiet DEF Crash, Running, Serving, NextPid, procVars, masterVars,
     tableVars, threadVars, TypeOK, ProcTypeOK
<1>27. CASE UNCHANGED vars
  BY <1>27, CrashQuiet DEF vars, Running, Serving, NextPid, procVars, masterVars,
     tableVars, threadVars, TypeOK, ProcTypeOK
<1> QED
  BY <1>1, <1>2, <1>3, <1>4, <1>5, <1>6, <1>7, <1>8, <1>9, <1>10, <1>11,
     <1>12, <1>13, <1>14, <1>15, <1>16, <1>17, <1>18, <1>19, <1>20, <1>21,
     <1>22, <1>23, <1>24, <1>25, <1>26, <1>27 DEF Next, MasterStep,
     ThreadStep, WatchChildrenStep, ReaderStep, StopStep, Environment,
     MasterEnvironment, WorkerStep

\* Every step keeps the pool within its budget.
LEMMA BudgetStep ==
  ASSUME TypeOK, TableInv, CountInv, CrashInv, BudgetInv, [Next]_vars
  PROVE  BudgetInv'
<1> SUFFICES ASSUME Tended'
             PROVE  Budget'
  BY DEF BudgetInv
<1>0. Budget
  BY TendedStep DEF BudgetInv
<1>1. ASSUME NEW t \in Thread, NEW p \in Pid, ForkExec(t, p), masterUp, UNCHANGED crashes
      PROVE  Budget'
  BY <1>0, <1>1, ForkExecBudget
<1>2. ASSUME NEW t \in Thread, ForkStore(t), masterUp, UNCHANGED crashes
      PROVE  Budget'
  BY <1>0, <1>2, ForkStoreBudget
<1>3. ASSUME NEW t \in Thread, NEW p \in Pid, ReloadLoad(t, p), masterUp, UNCHANGED crashes
      PROVE  Budget'
  BY <1>0, <1>3, ReloadLoadBudget
<1>4. ASSUME NEW t \in Thread, ReloadStore(t), masterUp, UNCHANGED crashes
      PROVE  Budget'
  BY <1>0, <1>4, ReloadStoreBudget
<1>5. ASSUME NEW t \in Thread, ReloadMarked(t), masterUp, UNCHANGED crashes
      PROVE  Budget'
  BY <1>0, <1>5, ReloadMarkedBudget
<1>6. ASSUME NEW p \in Pid, VisitDead(p), masterUp, UNCHANGED crashes
      PROVE  Budget'
  BY <1>0, <1>6, VisitDeadBudget
<1>7. ASSUME DeleteDead, masterUp, UNCHANGED crashes
      PROVE  Budget'
  BY <1>0, <1>7, DeleteDeadBudget
<1>8. ASSUME NEW p \in Pid, WaitWorker(p), masterUp, UNCHANGED crashes
      PROVE  Budget'
  BY <1>0, <1>8, WaitWorkerBudget
<1>9. ASSUME NEW p \in Pid, ReadTakeover(p), masterUp, UNCHANGED crashes
      PROVE  Budget'
  BY <1>0, <1>9, BudgetQuiet DEF ReadTakeover, procVars, masterVars, tableVars, TypeOK, ProcTypeOK, WorkerTypeOK
<1>10. ASSUME NEW p \in Pid, NotifyStart(p), masterUp, UNCHANGED crashes
       PROVE  Budget'
  BY <1>0, <1>10, BudgetQuiet DEF NotifyStart, procVars, masterVars, tableVars, TypeOK, ProcTypeOK, WorkerTypeOK
<1>11. ASSUME NEW p \in Pid, NEW q \in Pid, NotifyReload(p, q), masterUp, UNCHANGED crashes
       PROVE  Budget'
  BY <1>0, <1>11, BudgetQuiet DEF NotifyReload, procVars, masterVars, tableVars, TypeOK, ProcTypeOK, WorkerTypeOK
<1>12. ASSUME MasterExit, masterUp, UNCHANGED crashes
       PROVE  Budget'
  BY <1>0, <1>12 DEF MasterExit, Tended
<1>13. ASSUME NEW q \in Pid, GracefulNotify(q), masterUp, UNCHANGED crashes
       PROVE  Budget'
  <2>1. /\ UNCHANGED <<wk, children, waiting, pc, held, left, dead>>
        /\ pc["watchSignal"] = "quitAll"
        /\ \A u \in Thread \ {"watchSignal"} : todo'[u] = todo[u]
    BY <1>13 DEF GracefulNotify, tableVars, TypeOK, MasterTypeOK
  <2> QED
    BY <1>0, <1>13, <2>1, StopBudget
<1>14. ASSUME NEW q \in Pid, RoughKill(q), masterUp, UNCHANGED crashes
       PROVE  Budget'
  BY <1>0, <1>14 DEF RoughKill, Tended
<1>15. ASSUME NEW t \in Thread, ForkFails(t), masterUp, UNCHANGED crashes
       PROVE  Budget'
  BY <1>0, <1>15, ForkFailsBudget
<1>16. ASSUME NEW t \in Reloader, Reload(t), masterUp, UNCHANGED crashes
       PROVE  Budget'
  BY <1>0, <1>16, ReloadBudget
<1>17. ASSUME NEW p \in Pid, LoseTakeover(p), masterUp, UNCHANGED crashes
       PROVE  Budget'
  BY <1>0, <1>17, BudgetQuiet DEF LoseTakeover, procVars, masterVars, tableVars, TypeOK, ProcTypeOK, WorkerTypeOK
<1>18. ASSUME Graceful, masterUp, UNCHANGED crashes
       PROVE  Budget'
  <2>1. /\ UNCHANGED <<wk, children, waiting, held, left, dead>>
        /\ pc["watchSignal"] = "idle" /\ pc'["watchSignal"] = "quitAll"
        /\ \A u \in Thread \ {"watchSignal"} : pc'[u] = pc[u] /\ todo'[u] = todo[u]
    BY <1>18, ThreadsFinite DEF Graceful, StopSignalRead, procVars, tableVars, TypeOK, MasterTypeOK
  <2> QED
    BY <1>0, <1>18, <2>1, StopBudget
<1>19. ASSUME Rough, masterUp, UNCHANGED crashes
       PROVE  Budget'
  BY <1>0, <1>19, ThreadsFinite DEF Rough, StopSignalRead, Tended, TypeOK, MasterTypeOK
<1>20. ASSUME MasterKilled, masterUp, UNCHANGED crashes
       PROVE  Budget'
  BY <1>0, <1>20 DEF MasterKilled, Tended
<1>21. ASSUME NEW p \in Pid, StartGoroutines(p), UNCHANGED masterVars
       PROVE  Budget'
  BY <1>0, <1>21, BudgetQuiet DEF StartGoroutines, procVars, masterVars, tableVars, TypeOK, ProcTypeOK, WorkerTypeOK
<1>22. ASSUME NEW p \in Pid, NotifyMaster(p), UNCHANGED masterVars
       PROVE  Budget'
  BY <1>0, <1>22, BudgetQuiet DEF NotifyMaster, procVars, masterVars, tableVars, TypeOK, ProcTypeOK, WorkerTypeOK
<1>23. ASSUME NEW p \in Pid, ReadQuit(p), UNCHANGED masterVars
       PROVE  Budget'
  BY <1>0, <1>23, BudgetQuiet DEF ReadQuit, procVars, masterVars, tableVars, TypeOK, ProcTypeOK, WorkerTypeOK
<1>24. ASSUME NEW p \in Pid, End(p), UNCHANGED masterVars
       PROVE  Budget'
  BY <1>0, <1>24, BudgetQuiet DEF End, procVars, masterVars, tableVars, TypeOK, ProcTypeOK, WorkerTypeOK
<1>25. ASSUME NEW p \in Pid, WatchMaster(p), UNCHANGED masterVars
       PROVE  Budget'
  BY <1>0, <1>25 DEF WatchMaster, Tended
<1>26. ASSUME NEW p \in Pid, Crash(p), UNCHANGED masterVars
       PROVE  Budget'
  BY <1>0, <1>26, CrashBudget
<1>27. CASE UNCHANGED vars
  BY <1>0, <1>27, BudgetQuiet DEF vars, procVars, masterVars, tableVars, TypeOK, ProcTypeOK, WorkerTypeOK
<1> QED
  BY <1>1, <1>2, <1>3, <1>4, <1>5, <1>6, <1>7, <1>8, <1>9, <1>10, <1>11,
     <1>12, <1>13, <1>14, <1>15, <1>16, <1>17, <1>18, <1>19, <1>20, <1>21,
     <1>22, <1>23, <1>24, <1>25, <1>26, <1>27 DEF Next, MasterStep,
     ThreadStep, WatchChildrenStep, ReaderStep, StopStep, Environment,
     MasterEnvironment, WorkerStep

\* At the start run() owes its workers and there is nothing else.
LEMMA BudgetAtStart == Init => CrashInv /\ BudgetInv
<1> SUFFICES ASSUME Init
             PROVE  CrashInv /\ Budget
  BY DEF BudgetInv
<1>1. "watchChildren" \in Thread
  BY DEF Thread
<1>2. /\ \A p \in Pid : children[p] = "absent" /\ wk[p] = "unused"
      /\ \A t \in Thread : pc[t] # "mark"
      /\ pc["watchChildren"] = "idle" /\ crashes = 0
  BY <1>1 DEF Init, MasterInit, ProcInit, WorkerInit
<1>3. CrashInv
  BY <1>2 DEF CrashInv
<1>4. Kept = {} /\ Fallen = {} /\ Promised = {} /\ Handled = 0
  BY <1>2 DEF Kept, Fallen, Promised, Handled
<1>5. Cardinality(Due) = WorkerNum
  BY <1>4, OwedAtStart DEF Due
<1> QED
  BY <1>2, <1>3, <1>4, <1>5, FS_EmptySet, SlotsCount DEF Budget

\* The budget holds in every state.
LEMMA BudgetHolds == Spec => []BudgetInv
<1>1. TypeOK /\ TableInv /\ CountInv /\ CrashInv /\ [Next]_vars => CrashInv'
  BY CrashInvStep
<1>2. TypeOK /\ TableInv /\ CountInv /\ CrashInv /\ BudgetInv /\ [Next]_vars => BudgetInv'
  BY BudgetStep
<1> QED
  BY <1>1, <1>2, BudgetAtStart, TypeOKHolds, TableInvHolds, CountHolds, PTL DEF Spec

\* Once everything has settled there are at most WorkerNum workers alive for
\* each goroutine that reloads, and one for each crash: for any number of
\* reloads, however they overlap, of failed forks and of lost takeovers.
THEOREM PoolBoundedHolds == Spec => []PoolBounded
<1>1. TypeOK /\ BudgetInv => PoolBounded
  <2> SUFFICES ASSUME TypeOK, BudgetInv, Settled
               PROVE  Cardinality({p \in Pid : children[p] = "alive"})
                        <= WorkerNum * Cardinality(Reloader) + crashes
    BY DEF PoolBounded
  <2>1. masterUp /\ \A t \in Thread : pc[t] = "idle"
    BY DEF Settled
  <2>2. Kept = {p \in Pid : children[p] = "alive"}
    BY <2>1 DEF Kept, BeingMarked
  <2>3. Budget
    BY <2>1, ThreadsFinite DEF BudgetInv, Tended
  <2>4. /\ Cardinality(Kept) \in Nat /\ Cardinality(Due) \in Nat
        /\ Cardinality(Fallen) \in Nat /\ Slots \in Nat /\ crashes \in Nat
    BY <2>3, FS_CardinalityType, DueForks, SlotsCount DEF Budget, TypeOK, WorkerTypeOK
  <2>5. Cardinality(Kept) <= Slots + crashes
    BY <2>3, <2>4 DEF Budget
  <2> QED
    BY <2>2, <2>5 DEF Slots
<1> QED
  BY <1>1, BudgetHolds, TypeOKHolds, PTL

-----------------------------------------------------------------------------
\* No worker has crashed, and the master is not stopping.
Calm == crashes = 0 /\ ~Stopping

\* While a reload marks nothing else is under way: no other reload or fork, no
\* worker that starts, no announcement and no worker on its way out; and what
\* is alive is still to be marked.
MarkInv ==
  \A t \in Thread : pc[t] = "mark" =>
    /\ \A u \in Thread \ {t, "watchChildren"} : pc[u] = "idle"
    /\ held[t] # NoPid => Running(held[t])
    /\ \A p \in Pid :
         /\ wk[p] \notin {"boot", "starting"}
         /\ takeover[p] # "sent" /\ reader[p] \in {"off", "read"}
         /\ Told(p) => Exited(p)
         /\ children[p] = "alive" => p \in todo[t] \/ held[t] = p

\* No worker ends but the one that was told to.
OrderlyInv ==
  /\ \A p \in Pid : wk[p] # "exitN" /\ children[p] # "crash"
  /\ pc["watchChildren"] # "fork"

\* No worker is superseded, or told to quit, before it serves.
StartInv ==
  \A p \in Pid : wk[p] \in {"boot", "starting"} => ~Told(p) /\ children[p] # "reload"

\* The worker whose takeover is being handled serves and is not superseded.
AnnouncerInv ==
  \A p \in Pid : takeover[p] = "sent" \/ reader[p] \in {"enough", "notify"} =>
    Serving(p) /\ ~Told(p) /\ children[p] # "reload"

\* What the tables hold as superseded runs or is waited for.
ReloadWaited == \A p \in Pid : children[p] = "reload" => Running(p) \/ p \in waiting

SpacedParts == MarkInv /\ OrderlyInv /\ StartInv /\ AnnouncerInv /\ ReloadWaited
SpacedInv == Calm => SpacedParts

\* A crash, a failed fork and a stop are not taken back.
LEMMA NotTakenBack ==
  ASSUME TypeOK, [Next]_vars
  PROVE  /\ ~Stopping' => ~Stopping
         /\ Calm' => Calm
         /\ forkFails' = 0 => forkFails = 0
<1> DEFINE G == /\ crashes' \in {crashes, crashes + 1}
                /\ forkFails' \in {forkFails, forkFails + 1}
                /\ Stopping => Stopping'
<1>1. ASSUME UNCHANGED vars
      PROVE  G
  BY <1>1 DEF vars, procVars, masterVars, threadVars, boundVars, Stopping
<1> USE CrashAssumption, MasterAssumption
    DEF TypeOK, ProcTypeOK, MasterTypeOK, WorkerTypeOK, Stopping, masterVars, threadVars,
        boundVars, procVars, Thread
<1>2. ASSUME NEW t \in Thread, ThreadStep(t), UNCHANGED crashes
      PROVE  G
  BY <1>2 DEF ThreadStep, ForkExec, ForkStore, ForkReturns, ReloadLoad, ReloadStore, ReloadMarked
<1>3. ASSUME WatchChildrenStep, UNCHANGED crashes
      PROVE  G
  BY <1>3 DEF WatchChildrenStep, VisitDead, DeleteDead
<1>4. ASSUME NEW p \in Pid, (masterUp /\ WaitWorker(p)) \/ ReaderStep(p), UNCHANGED crashes
      PROVE  G
  BY <1>4 DEF WaitWorker, ReaderStep, ReadTakeover, NotifyStart, NotifyReload
<1>5. ASSUME StopStep, UNCHANGED crashes
      PROVE  G
  BY <1>5 DEF StopStep, MasterExit, GracefulNotify, RoughKill
<1>6. ASSUME MasterEnvironment, UNCHANGED crashes
      PROVE  G
  <2>1. ASSUME NEW t \in Thread, ForkFails(t)
        PROVE  G
    BY <1>6, <2>1 DEF ForkFails, ForkReturns
  <2>2. ASSUME NEW t \in Reloader, Reload(t)
        PROVE  G
    BY <1>6, <2>2 DEF Reload
  <2>3. ASSUME NEW p \in Pid, LoseTakeover(p)
        PROVE  G
    BY <1>6, <2>3 DEF LoseTakeover
  <2>4. CASE Graceful
    BY <1>6, <2>4 DEF Graceful, StopSignalRead
  <2>5. CASE Rough
    BY <1>6, <2>5 DEF Rough, StopSignalRead
  <2>6. CASE MasterKilled
    BY <1>6, <2>6 DEF MasterKilled
  <2> HIDE DEF G
  <2> QED
    BY <1>6, <2>1, <2>2, <2>3, <2>4, <2>5, <2>6 DEF MasterEnvironment
<1>7. ASSUME NEW p \in Pid, WorkerStep(p) \/ Crash(p), UNCHANGED masterVars
      PROVE  G
  BY <1>7 DEF WorkerStep, StartGoroutines, NotifyMaster, ReadQuit, End, WatchMaster, Crash
<1>8. Next => G
  <2> HIDE DEF G, TypeOK, masterVars, procVars
  <2> QED
    BY <1>2, <1>3, <1>4, <1>5, <1>6, <1>7 DEF Next, MasterStep, Environment
<1>9. G
  BY <1>1, <1>8
<1>10. crashes \in Nat /\ forkFails \in Nat
  OBVIOUS
<1>11. /\ crashes' = 0 => crashes = 0
       /\ forkFails' = 0 => forkFails = 0
  BY <1>9, <1>10
<1> QED
  BY <1>9, <1>11 DEF Calm

\* Every step of a calm server with spaced reloads keeps the parts of SpacedInv.
LEMMA SpacedStep ==
  ASSUME SpacedReloads = TRUE, TypeOK, TableInv, AnnounceInv, EndInv, SpacedInv, Calm, Calm', Next
  PROVE  SpacedParts'
<1> USE PidAssumption, MasterAssumption
    DEF TypeOK, ProcTypeOK, MasterTypeOK, WorkerTypeOK, MsgState, ChildState, PcState, NoPid,
        Thread, vars, procVars, masterVars, tableVars, readerVars, threadVars, boundVars,
        TableInv, LoopInv, HeldInv, ForkInv, UnusedInv, DeathInv, TableTracksRunning, AliveNotTold,
        AliveIsWaited, Running, Exited, InFork, Told, AnnounceInv, EndInv, SpacedInv, SpacedParts,
        Calm, Stopping, MarkInv, OrderlyInv, StartInv, AnnouncerInv, ReloadWaited, Serving
<1>1. ASSUME NEW t \in Thread, NEW p \in Pid, ForkExec(t, p), masterUp, UNCHANGED crashes
      PROVE  SpacedParts'
  BY <1>1 DEF ForkExec, NextPid, ForkReason
<1>2. ASSUME NEW t \in Thread, ForkStore(t), masterUp, UNCHANGED crashes
      PROVE  SpacedParts'
  BY <1>2 DEF ForkStore, ForkReturns
<1>3. ASSUME NEW t \in Thread, NEW p \in Pid, ReloadLoad(t, p), masterUp, UNCHANGED crashes
      PROVE  SpacedParts'
  BY <1>3 DEF ReloadLoad
<1>4. ASSUME NEW t \in Thread, ReloadStore(t), masterUp, UNCHANGED crashes
      PROVE  SpacedParts'
  BY <1>4 DEF ReloadStore
<1>5. ASSUME NEW t \in Thread, ReloadMarked(t), masterUp, UNCHANGED crashes
      PROVE  SpacedParts'
  <2>1. t # "watchChildren" /\ pc[t] = "mark"
    BY <1>5 DEF ReloadMarked, Reloader
  <2>2. /\ \A u \in Thread : pc'[u] # "mark"
        /\ pc'["watchChildren"] = pc["watchChildren"]
        /\ UNCHANGED <<wk, takeover, quitMsg, children, waiting, reader>>
    BY <1>5, <2>1 DEF ReloadMarked
  <2> QED
    BY <2>2
<1>6. ASSUME NEW p \in Pid, VisitDead(p), masterUp, UNCHANGED crashes
      PROVE  SpacedParts'
  BY <1>6 DEF VisitDead, Started
<1>7. ASSUME DeleteDead, masterUp, UNCHANGED crashes
      PROVE  SpacedParts'
  BY <1>7 DEF DeleteDead
<1>8. ASSUME NEW p \in Pid, WaitWorker(p), masterUp, UNCHANGED crashes
      PROVE  SpacedParts'
  BY <1>8 DEF WaitWorker, Exited
<1>9. ASSUME NEW p \in Pid, ReadTakeover(p), masterUp, UNCHANGED crashes
      PROVE  SpacedParts'
  BY <1>9 DEF ReadTakeover
<1>10. ASSUME NEW p \in Pid, NotifyStart(p), masterUp, UNCHANGED crashes
      PROVE  SpacedParts'
  BY <1>10 DEF NotifyStart, Keys
<1>11. ASSUME NEW p \in Pid, NEW q \in Pid, NotifyReload(p, q), masterUp, UNCHANGED crashes
      PROVE  SpacedParts'
  BY <1>11 DEF NotifyReload, NotifyWorker, SendQuit
<1>12. ASSUME MasterExit, masterUp, UNCHANGED crashes
      PROVE  SpacedParts'
  BY <1>12 DEF MasterExit
<1>13. ASSUME NEW q \in Pid, GracefulNotify(q), masterUp, UNCHANGED crashes
      PROVE  SpacedParts'
  BY <1>13 DEF GracefulNotify
<1>14. ASSUME NEW q \in Pid, RoughKill(q), masterUp, UNCHANGED crashes
      PROVE  SpacedParts'
  BY <1>14 DEF RoughKill
<1>15. ASSUME NEW t \in Thread, ForkFails(t), masterUp, UNCHANGED crashes
      PROVE  SpacedParts'
  <2>1. t # "main" /\ pc[t] = "fork" /\ ForkReturns(t)
    BY <1>15 DEF ForkFails
  <2>2. \A u \in Thread : pc[u] # "mark"
    BY <2>1
  <2>3. pc'[t] # "mark" /\ \A u \in Thread \ {t} : pc'[u] = pc[u]
    BY <2>1, ForkReturnsFrame
  <2>4. t # "watchChildren" /\ UNCHANGED <<wk, takeover, quitMsg, children, waiting, reader>>
    BY <1>15, <2>1 DEF ForkFails
  <2>5. (\A u \in Thread : pc[u] # "mark")'
    BY <2>2, <2>3
  <2>6. MarkInv' /\ OrderlyInv'
    BY <2>3, <2>4, <2>5
  <2>7. StartInv' /\ AnnouncerInv' /\ ReloadWaited'
    BY <2>4
  <2> QED
    BY <2>6, <2>7
<1>16. ASSUME NEW t \in Reloader, Reload(t), masterUp, UNCHANGED crashes
      PROVE  SpacedParts'
  BY <1>16 DEF Reload, Started, Keys, Reloader, Settled
<1>17. ASSUME NEW p \in Pid, LoseTakeover(p), masterUp, UNCHANGED crashes
      PROVE  SpacedParts'
  BY <1>17 DEF LoseTakeover
<1>18. ASSUME Graceful, masterUp, UNCHANGED crashes
      PROVE  SpacedParts'
  BY <1>18 DEF Graceful, StopSignalRead
<1>19. ASSUME Rough, masterUp, UNCHANGED crashes
      PROVE  SpacedParts'
  BY <1>19 DEF Rough, StopSignalRead
<1>20. ASSUME MasterKilled, masterUp, UNCHANGED crashes
      PROVE  SpacedParts'
  BY <1>20 DEF MasterKilled
<1>21. ASSUME NEW p \in Pid, StartGoroutines(p), UNCHANGED masterVars
      PROVE  SpacedParts'
  BY <1>21 DEF StartGoroutines
<1>22. ASSUME NEW p \in Pid, NotifyMaster(p), UNCHANGED masterVars
      PROVE  SpacedParts'
  BY <1>22 DEF NotifyMaster
<1>23. ASSUME NEW p \in Pid, ReadQuit(p), UNCHANGED masterVars
      PROVE  SpacedParts'
  BY <1>23 DEF ReadQuit
<1>24. ASSUME NEW p \in Pid, End(p), UNCHANGED masterVars
      PROVE  SpacedParts'
  BY <1>24 DEF End
<1>25. ASSUME NEW p \in Pid, WatchMaster(p), UNCHANGED masterVars
      PROVE  SpacedParts'
  BY <1>25 DEF WatchMaster
<1>26. ASSUME NEW p \in Pid, Crash(p), UNCHANGED masterVars
      PROVE  SpacedParts'
  BY <1>26 DEF Crash
<1> HIDE DEF TypeOK, ProcTypeOK, MasterTypeOK, WorkerTypeOK, Thread, vars, masterVars, TableInv,
             AnnounceInv, EndInv, SpacedInv, SpacedParts, Calm
<1> QED
  BY <1>1, <1>2, <1>3, <1>4, <1>5, <1>6, <1>7, <1>8, <1>9, <1>10, <1>11, <1>12, <1>13, <1>14,
     <1>15, <1>16, <1>17, <1>18, <1>19, <1>20, <1>21, <1>22, <1>23, <1>24, <1>25, <1>26
     DEF Next, MasterStep, ThreadStep, WatchChildrenStep, ReaderStep, StopStep, Environment,
         MasterEnvironment, WorkerStep

\* The service goes on: the steps that tell a worker to quit spare the one that
\* announced itself.
LEMMA ContinuityStep ==
  ASSUME SpacedReloads = TRUE, TypeOK, TableInv, SpacedInv, Continuity, Calm', Calm, Next
  PROVE  Continuity'
<1> USE PidAssumption, MasterAssumption
    DEF TypeOK, ProcTypeOK, MasterTypeOK, WorkerTypeOK, MsgState, ChildState, PcState, NoPid,
        Thread, vars, procVars, masterVars, tableVars, readerVars, threadVars, boundVars,
        Told, Calm, Stopping, SpacedInv, SpacedParts, Serving, Continuity
<1>1. ASSUME NEW t \in Thread, NEW p \in Pid, ForkExec(t, p), masterUp, UNCHANGED crashes
      PROVE  Continuity'
  BY <1>1 DEF ForkExec, NextPid, ForkReason
<1>2. ASSUME NEW t \in Thread, ForkStore(t), masterUp, UNCHANGED crashes
      PROVE  Continuity'
  BY <1>2 DEF ForkStore, ForkReturns
<1>3. ASSUME NEW t \in Thread, NEW p \in Pid, ReloadLoad(t, p), masterUp, UNCHANGED crashes
      PROVE  Continuity'
  BY <1>3 DEF ReloadLoad
<1>4. ASSUME NEW t \in Thread, ReloadStore(t), masterUp, UNCHANGED crashes
      PROVE  Continuity'
  BY <1>4 DEF ReloadStore
<1>5. ASSUME NEW t \in Thread, ReloadMarked(t), masterUp, UNCHANGED crashes
      PROVE  Continuity'
  BY <1>5 DEF ReloadMarked
<1>6. ASSUME NEW p \in Pid, VisitDead(p), masterUp, UNCHANGED crashes
      PROVE  Continuity'
  BY <1>6 DEF VisitDead, Started
<1>7. ASSUME DeleteDead, masterUp, UNCHANGED crashes
      PROVE  Continuity'
  BY <1>7 DEF DeleteDead
<1>8. ASSUME NEW p \in Pid, WaitWorker(p), masterUp, UNCHANGED crashes
      PROVE  Continuity'
  BY <1>8 DEF WaitWorker, Exited
<1>9. ASSUME NEW p \in Pid, ReadTakeover(p), masterUp, UNCHANGED crashes
      PROVE  Continuity'
  BY <1>9 DEF ReadTakeover
<1>10. ASSUME NEW p \in Pid, NotifyStart(p), masterUp, UNCHANGED crashes
      PROVE  Continuity'
  BY <1>10 DEF NotifyStart, Keys
<1>11. ASSUME NEW p \in Pid, NEW q \in Pid, NotifyReload(p, q), masterUp, UNCHANGED crashes
      PROVE  Continuity'
  BY <1>11 DEF NotifyReload, NotifyWorker, SendQuit, AnnouncerInv
<1>12. ASSUME MasterExit, masterUp, UNCHANGED crashes
      PROVE  Continuity'
  BY <1>12 DEF MasterExit
<1>13. ASSUME NEW q \in Pid, GracefulNotify(q), masterUp, UNCHANGED crashes
      PROVE  Continuity'
  BY <1>13 DEF GracefulNotify
<1>14. ASSUME NEW q \in Pid, RoughKill(q), masterUp, UNCHANGED crashes
      PROVE  Continuity'
  BY <1>14 DEF RoughKill
<1>15. ASSUME NEW t \in Thread, ForkFails(t), masterUp, UNCHANGED crashes
      PROVE  Continuity'
  BY <1>15 DEF ForkFails, ForkReturns
<1>16. ASSUME NEW t \in Reloader, Reload(t), masterUp, UNCHANGED crashes
      PROVE  Continuity'
  BY <1>16 DEF Reload, Started, Keys, Reloader, Settled
<1>17. ASSUME NEW p \in Pid, LoseTakeover(p), masterUp, UNCHANGED crashes
      PROVE  Continuity'
  BY <1>17 DEF LoseTakeover
<1>18. ASSUME Graceful, masterUp, UNCHANGED crashes
      PROVE  Continuity'
  BY <1>18 DEF Graceful, StopSignalRead
<1>19. ASSUME Rough, masterUp, UNCHANGED crashes
      PROVE  Continuity'
  BY <1>19 DEF Rough, StopSignalRead
<1>20. ASSUME MasterKilled, masterUp, UNCHANGED crashes
      PROVE  Continuity'
  BY <1>20 DEF MasterKilled
<1>21. ASSUME NEW p \in Pid, StartGoroutines(p), UNCHANGED masterVars
      PROVE  Continuity'
  BY <1>21 DEF StartGoroutines
<1>22. ASSUME NEW p \in Pid, NotifyMaster(p), UNCHANGED masterVars
      PROVE  Continuity'
  BY <1>22 DEF NotifyMaster, StartInv
<1>23. ASSUME NEW p \in Pid, ReadQuit(p), UNCHANGED masterVars
      PROVE  Continuity'
  BY <1>23 DEF ReadQuit
<1>24. ASSUME NEW p \in Pid, End(p), UNCHANGED masterVars
      PROVE  Continuity'
  BY <1>24 DEF End
<1>25. ASSUME NEW p \in Pid, WatchMaster(p), UNCHANGED masterVars
      PROVE  Continuity'
  BY <1>25 DEF WatchMaster
<1>26. ASSUME NEW p \in Pid, Crash(p), UNCHANGED masterVars
      PROVE  Continuity'
  BY <1>26 DEF Crash
<1> QED
  BY <1>1, <1>2, <1>3, <1>4, <1>5, <1>6, <1>7, <1>8, <1>9, <1>10, <1>11, <1>12, <1>13,
     <1>14, <1>15, <1>16, <1>17, <1>18, <1>19, <1>20, <1>21, <1>22, <1>23, <1>24, <1>25, <1>26 DEF Next, MasterStep, ThreadStep,
     WatchChildrenStep, ReaderStep, StopStep, Environment, MasterEnvironment, WorkerStep

-----------------------------------------------------------------------------
\* The workers counted and those owed are never more than WorkerNum.
UpperInv == Calm => Cardinality(Counted) + Cardinality(Owed) <= WorkerNum

\* A step that counts and owes nothing more.
LEMMA UpperFrame ==
  ASSUME FiniteInv, UpperInv, Calm, Counted' \subseteq Counted, Owed' \subseteq Owed
  PROVE  UpperInv'
<1>1. /\ Cardinality(Counted') <= Cardinality(Counted) /\ Cardinality(Owed') <= Cardinality(Owed)
      /\ IsFiniteSet(Counted') /\ IsFiniteSet(Owed')
  BY FS_Subset DEF FiniteInv
<1>2. /\ Cardinality(Counted) \in Nat /\ Cardinality(Owed) \in Nat
      /\ Cardinality(Counted') \in Nat /\ Cardinality(Owed') \in Nat
  BY <1>1, FS_CardinalityType DEF FiniteInv
<1>3. WorkerNum' = WorkerNum /\ WorkerNum \in Nat
  BY MasterAssumption
<1> QED
  BY <1>1, <1>2, <1>3 DEF UpperInv

\* fork stores its worker: one owed less, one counted more.
LEMMA ForkStoreUpper ==
  ASSUME TypeOK, TableInv, FiniteInv, UpperInv, Calm, NEW t \in Thread, ForkStore(t)
  PROVE  UpperInv'
<1> DEFINE h == held[t]
           e == <<t, left[t]>>
<1>1. pc[t] = "fork" /\ h \in Pid /\ children[h] = "absent" /\ LoopInv
  BY DEF ForkStore, TableInv, ForkInv, TypeOK, MasterTypeOK
<1>2. e \in Owed /\ Owed' = Owed \ {e}
  BY <1>1, ForkReturnsOwed DEF ForkStore
<1>3. h \notin Counted /\ Counted' = Counted \cup {h}
  BY <1>1 DEF Counted, ForkStore, TypeOK, MasterTypeOK
<1>4. /\ Cardinality(Counted') = Cardinality(Counted) + 1
      /\ Cardinality(Owed') = Cardinality(Owed) - 1
      /\ Cardinality(Counted) \in Nat /\ Cardinality(Owed) \in Nat
  BY <1>2, <1>3, FS_AddElement, FS_RemoveElement, FS_CardinalityType DEF FiniteInv
<1> QED
  BY <1>4, MasterAssumption DEF UpperInv

\* A reload that has marked finds nobody alive and nobody owing.
LEMMA ReloadMarkedUpper ==
  ASSUME TypeOK, LoopInv, SpacedInv, Calm, NEW t \in Thread, ReloadMarked(t)
  PROVE  UpperInv'
<1> DEFINE All == {t} \X (1..WorkerNum)
<1>1. /\ pc[t] = "mark" /\ left[t] = WorkerNum /\ WorkerNum \in Nat
      /\ held[t] = NoPid /\ todo[t] = {} /\ NoPid \notin Pid
      /\ pc' = [pc EXCEPT ![t] = "fork"] /\ UNCHANGED <<children, left, dead>>
  BY MasterAssumption, PidAssumption DEF ReloadMarked, LoopInv, tableVars
<1>2. /\ \A u \in Thread \ {t} : pc[u] # "fork"
      /\ \A p \in Pid : children[p] \notin {"alive", "crash"}
  BY <1>1 DEF SpacedInv, SpacedParts, MarkInv, OrderlyInv
<1>3. Counted' = {}
  BY <1>1, <1>2 DEF Counted
<1>4. Owed' \subseteq All
  <2>1. \A u \in Thread : pc'[u] = "fork" => u = t
    BY <1>1, <1>2 DEF TypeOK, MasterTypeOK
  <2> QED
    BY <2>1 DEF Owed
<1>5. IsFiniteSet(All) /\ Cardinality(All) = WorkerNum
  BY IterationsCount
<1>6. Cardinality(Owed') <= WorkerNum /\ Cardinality(Owed') \in Nat
  BY <1>4, <1>5, FS_Subset, FS_CardinalityType
<1> QED
  BY <1>1, <1>3, <1>6, FS_EmptySet DEF UpperInv

\* Every step of a calm server keeps what is counted and owed within WorkerNum.
LEMMA UpperStep ==
  ASSUME TypeOK, TableInv, FiniteInv, SpacedInv, UpperInv, Calm, Calm', Next
  PROVE  UpperInv'
<1> USE DEF TypeOK, MasterTypeOK, vars, procVars, masterVars, tableVars, threadVars, boundVars,
        Calm, Stopping, Counted, Owed, SpacedInv, SpacedParts, OrderlyInv
<1>1. ASSUME NEW t \in Thread, NEW p \in Pid, ForkExec(t, p), masterUp, UNCHANGED crashes
      PROVE  UpperInv'
  <2>1. Counted' \subseteq Counted /\ Owed' \subseteq Owed
    BY <1>1 DEF ForkExec, NextPid, ForkReason
  <2> QED
    BY <2>1, UpperFrame
<1>2. ASSUME NEW t \in Thread, ForkStore(t), masterUp, UNCHANGED crashes
      PROVE  UpperInv'
  BY <1>2, ForkStoreUpper
<1>3. ASSUME NEW t \in Thread, NEW p \in Pid, ReloadLoad(t, p), masterUp, UNCHANGED crashes
      PROVE  UpperInv'
  <2>1. Counted' \subseteq Counted /\ Owed' \subseteq Owed
    BY <1>3 DEF ReloadLoad
  <2> QED
    BY <2>1, UpperFrame
<1>4. ASSUME NEW t \in Thread, ReloadStore(t), masterUp, UNCHANGED crashes
      PROVE  UpperInv'
  <2>1. Counted' \subseteq Counted /\ Owed' \subseteq Owed
    BY <1>4 DEF ReloadStore
  <2> QED
    BY <2>1, UpperFrame
<1>5. ASSUME NEW t \in Thread, ReloadMarked(t), masterUp, UNCHANGED crashes
      PROVE  UpperInv'
  BY <1>5, ReloadMarkedUpper DEF TableInv
<1>6. ASSUME NEW p \in Pid, VisitDead(p), masterUp, UNCHANGED crashes
      PROVE  UpperInv'
  <2>1. Counted' \subseteq Counted /\ Owed' \subseteq Owed
    BY <1>6 DEF VisitDead, Started
  <2> QED
    BY <2>1, UpperFrame
<1>7. ASSUME DeleteDead, masterUp, UNCHANGED crashes
      PROVE  UpperInv'
  <2>1. Counted' \subseteq Counted /\ Owed' \subseteq Owed
    BY <1>7 DEF DeleteDead
  <2> QED
    BY <2>1, UpperFrame
<1>8. ASSUME NEW p \in Pid, WaitWorker(p), masterUp, UNCHANGED crashes
      PROVE  UpperInv'
  <2>1. Counted' \subseteq Counted /\ Owed' \subseteq Owed
    BY <1>8 DEF WaitWorker, Exited, ProcTypeOK
  <2> QED
    BY <2>1, UpperFrame
<1>9. ASSUME NEW p \in Pid, ReadTakeover(p), masterUp, UNCHANGED crashes
      PROVE  UpperInv'
  <2>1. Counted' \subseteq Counted /\ Owed' \subseteq Owed
    BY <1>9 DEF ReadTakeover
  <2> QED
    BY <2>1, UpperFrame
<1>10. ASSUME NEW p \in Pid, NotifyStart(p), masterUp, UNCHANGED crashes
      PROVE  UpperInv'
  <2>1. Counted' \subseteq Counted /\ Owed' \subseteq Owed
    BY <1>10 DEF NotifyStart, Keys
  <2> QED
    BY <2>1, UpperFrame
<1>11. ASSUME NEW p \in Pid, NEW q \in Pid, NotifyReload(p, q), masterUp, UNCHANGED crashes
      PROVE  UpperInv'
  <2>1. Counted' \subseteq Counted /\ Owed' \subseteq Owed
    BY <1>11 DEF NotifyReload, NotifyWorker, SendQuit
  <2> QED
    BY <2>1, UpperFrame
<1>12. ASSUME MasterExit, masterUp, UNCHANGED crashes
      PROVE  UpperInv'
  <2>1. Counted' \subseteq Counted /\ Owed' \subseteq Owed
    BY <1>12 DEF MasterExit
  <2> QED
    BY <2>1, UpperFrame
<1>13. ASSUME NEW q \in Pid, GracefulNotify(q), masterUp, UNCHANGED crashes
      PROVE  UpperInv'
  <2>1. Counted' \subseteq Counted /\ Owed' \subseteq Owed
    BY <1>13 DEF GracefulNotify
  <2> QED
    BY <2>1, UpperFrame
<1>14. ASSUME NEW q \in Pid, RoughKill(q), masterUp, UNCHANGED crashes
      PROVE  UpperInv'
  <2>1. Counted' \subseteq Counted /\ Owed' \subseteq Owed
    BY <1>14 DEF RoughKill
  <2> QED
    BY <2>1, UpperFrame
<1>15. ASSUME NEW t \in Thread, ForkFails(t), masterUp, UNCHANGED crashes
      PROVE  UpperInv'
  <2>1. pc[t] = "fork" /\ LoopInv /\ ForkReturns(t) /\ UNCHANGED <<children, dead>>
    BY <1>15 DEF ForkFails, TableInv
  <2>2. Owed' = Owed \ {<<t, left[t]>>}
    BY <2>1, ForkReturnsOwed
  <2> QED
    BY <2>1, <2>2, UpperFrame
<1>16. ASSUME NEW t \in Reloader, Reload(t), masterUp, UNCHANGED crashes
      PROVE  UpperInv'
  <2>1. Counted' \subseteq Counted /\ Owed' \subseteq Owed
    BY <1>16 DEF Reload, Started, Keys, Reloader, Settled
  <2> QED
    BY <2>1, UpperFrame
<1>17. ASSUME NEW p \in Pid, LoseTakeover(p), masterUp, UNCHANGED crashes
      PROVE  UpperInv'
  <2>1. Counted' \subseteq Counted /\ Owed' \subseteq Owed
    BY <1>17 DEF LoseTakeover
  <2> QED
    BY <2>1, UpperFrame
<1>18. ASSUME Graceful, masterUp, UNCHANGED crashes
      PROVE  UpperInv'
  <2>1. Counted' \subseteq Counted /\ Owed' \subseteq Owed
    BY <1>18 DEF Graceful, StopSignalRead
  <2> QED
    BY <2>1, UpperFrame
<1>19. ASSUME Rough, masterUp, UNCHANGED crashes
      PROVE  UpperInv'
  <2>1. Counted' \subseteq Counted /\ Owed' \subseteq Owed
    BY <1>19 DEF Rough, StopSignalRead
  <2> QED
    BY <2>1, UpperFrame
<1>20. ASSUME MasterKilled, masterUp, UNCHANGED crashes
      PROVE  UpperInv'
  <2>1. Counted' \subseteq Counted /\ Owed' \subseteq Owed
    BY <1>20 DEF MasterKilled
  <2> QED
    BY <2>1, UpperFrame
<1>21. ASSUME NEW p \in Pid, StartGoroutines(p), UNCHANGED masterVars
      PROVE  UpperInv'
  <2>1. Counted' \subseteq Counted /\ Owed' \subseteq Owed
    BY <1>21 DEF StartGoroutines
  <2> QED
    BY <2>1, UpperFrame
<1>22. ASSUME NEW p \in Pid, NotifyMaster(p), UNCHANGED masterVars
      PROVE  UpperInv'
  <2>1. Counted' \subseteq Counted /\ Owed' \subseteq Owed
    BY <1>22 DEF NotifyMaster
  <2> QED
    BY <2>1, UpperFrame
<1>23. ASSUME NEW p \in Pid, ReadQuit(p), UNCHANGED masterVars
      PROVE  UpperInv'
  <2>1. Counted' \subseteq Counted /\ Owed' \subseteq Owed
    BY <1>23 DEF ReadQuit
  <2> QED
    BY <2>1, UpperFrame
<1>24. ASSUME NEW p \in Pid, End(p), UNCHANGED masterVars
      PROVE  UpperInv'
  <2>1. Counted' \subseteq Counted /\ Owed' \subseteq Owed
    BY <1>24 DEF End
  <2> QED
    BY <2>1, UpperFrame
<1>25. ASSUME NEW p \in Pid, WatchMaster(p), UNCHANGED masterVars
      PROVE  UpperInv'
  <2>1. Counted' \subseteq Counted /\ Owed' \subseteq Owed
    BY <1>25 DEF WatchMaster
  <2> QED
    BY <2>1, UpperFrame
<1>26. ASSUME NEW p \in Pid, Crash(p), UNCHANGED masterVars
      PROVE  UpperInv'
  <2>1. Counted' \subseteq Counted /\ Owed' \subseteq Owed
    BY <1>26 DEF Crash
  <2> QED
    BY <2>1, UpperFrame
<1> QED
  BY <1>1, <1>2, <1>3, <1>4, <1>5, <1>6, <1>7, <1>8, <1>9, <1>10, <1>11, <1>12, <1>13,
     <1>14, <1>15, <1>16, <1>17, <1>18, <1>19, <1>20, <1>21, <1>22, <1>23, <1>24, <1>25, <1>26 DEF Next, MasterStep, ThreadStep,
     WatchChildrenStep, ReaderStep, StopStep, Environment, MasterEnvironment, WorkerStep

-----------------------------------------------------------------------------
\* Reloads asked for one at a time keep the calm of the pool.
LEMMA SpacedHolds ==
  ASSUME SpacedReloads = TRUE
  PROVE  Spec => [](SpacedInv /\ Continuity /\ UpperInv)
<1>1. Init => SpacedInv /\ Continuity /\ UpperInv
  <2> SUFFICES ASSUME Init
               PROVE  SpacedInv /\ Continuity /\ UpperInv
    OBVIOUS
  <2>1. SpacedInv /\ Continuity
    BY DEF Init, ProcInit, MasterInit, SpacedInv, SpacedParts, MarkInv, OrderlyInv, StartInv, AnnouncerInv,
           ReloadWaited, Continuity, Told, Thread
  <2>2. UpperInv
    BY OwedAtStart, FS_EmptySet, MasterAssumption DEF UpperInv
  <2> QED
    BY <2>1, <2>2
<1>2. /\ TypeOK /\ TableInv /\ AnnounceInv /\ CountInv /\ SpacedInv /\ Continuity /\ UpperInv
      /\ [Next]_vars
      => (SpacedInv /\ Continuity /\ UpperInv)'
  <2> SUFFICES ASSUME TypeOK, TableInv, AnnounceInv, CountInv, SpacedInv, Continuity, UpperInv,
                      [Next]_vars
               PROVE  (SpacedInv /\ Continuity /\ UpperInv)'
    OBVIOUS
  <2>1. CASE UNCHANGED vars
    BY <2>1 DEF vars, procVars, masterVars, tableVars, readerVars, threadVars, Calm, Stopping,
                SpacedInv, SpacedParts, MarkInv, OrderlyInv, StartInv, AnnouncerInv, ReloadWaited,
                Continuity, Running, Exited, Serving, Told, UpperInv, Counted, Owed
  <2>2. CASE Next /\ ~Calm'
    BY <2>2 DEF SpacedInv, Continuity, UpperInv, Calm
  <2>3. CASE Next /\ Calm'
    <3>1. Calm
      BY <2>3, NotTakenBack
    <3>2. SpacedInv'
      BY <2>3, <3>1, SpacedStep DEF SpacedInv, CountInv
    <3>3. Continuity'
      BY <2>3, <3>1, ContinuityStep
    <3>4. UpperInv'
      BY <2>3, <3>1, UpperStep DEF CountInv
    <3> QED
      BY <3>2, <3>3, <3>4
  <2> QED
    BY <2>1, <2>2, <2>3
<1> QED
  BY <1>1, <1>2, TypeOKHolds, TableInvHolds, Announced, CountHolds, PTL DEF Spec

\* Reloads asked for one at a time never interrupt the service, whatever forks
\* fail and whatever takeovers are lost: from the first worker that serves on,
\* and as long as none crashes, some worker serves that was not told to quit.
THEOREM ContinuityHolds ==
  ASSUME SpacedReloads = TRUE
  PROVE  Spec => []Continuity
BY SpacedHolds, PTL

\* Such reloads leave exactly WorkerNum workers for doStatus to count, as long
\* as no worker crashes and no fork fails.
THEOREM StatusCountHolds ==
  ASSUME SpacedReloads = TRUE
  PROVE  Spec => [](crashes = 0 => StatusCount)
<1>1. TypeOK /\ CountInv /\ NeverShort /\ UpperInv => (crashes = 0 => StatusCount)
  <2> SUFFICES ASSUME TypeOK, CountInv, NeverShort, UpperInv, crashes = 0, Settled, forkFails = 0
               PROVE  DoStatus = 200
    BY DEF StatusCount
  <2> DEFINE Alive == {p \in Pid : children[p] = "alive"}
  <2>1. Counted = Alive
    BY DEF Settled, Counted
  <2>2. Owed = {} /\ Calm
    BY DEF Settled, Owed, Calm, Stopping, Thread
  <2>3. Cardinality(Alive) \in Nat
    BY <2>1, FS_CardinalityType DEF CountInv, FiniteInv
  <2>4. Cardinality(Alive) <= WorkerNum
    BY <2>1, <2>2, <2>3, FS_EmptySet DEF UpperInv
  <2>5. Cardinality(Alive) >= WorkerNum
    BY DEF NeverShort
  <2> QED
    BY <2>3, <2>4, <2>5, MasterAssumption DEF DoStatus
<1> QED
  BY <1>1, TypeOKHolds, CountHolds, NeverShortHolds, SpacedHolds, PTL

\* Such reloads leave no dead worker in the tables, as long as no worker
\* crashes: every entry is a worker that runs.
THEOREM NoStaleEntryHolds ==
  ASSUME SpacedReloads = TRUE
  PROVE  Spec => [](crashes = 0 => NoStaleEntry)
<1>1. TypeOK /\ TableInv /\ SpacedInv => (crashes = 0 => NoStaleEntry)
  <2> SUFFICES ASSUME TypeOK, TableInv, SpacedInv, crashes = 0, Settled,
                      NEW p \in Pid, children[p] # "absent"
               PROVE  Running(p)
    BY DEF NoStaleEntry
  <2>1. Calm /\ masterUp
    BY DEF Settled, Calm, Stopping, Thread
  <2>2. children[p] \in {"alive", "reload"}
    BY DEF Settled, TypeOK, MasterTypeOK, ChildState
  <2>3. Running(p) \/ p \in waiting
    BY <2>1, <2>2 DEF TableInv, AliveIsWaited, SpacedInv, SpacedParts, ReloadWaited
  <2>4. p \in waiting => Running(p)
    BY <2>2 DEF Settled, TableInv, UnusedInv, Running, Exited, TypeOK, ProcTypeOK
  <2> QED
    BY <2>3, <2>4
<1> QED
  BY <1>1, TypeOKHolds, TableInvHolds, SpacedHolds, PTL
-----------------------------------------------------------------------------
(***************************************************************************)
(* The fourth part is about WoxNaming, the same server with its key in the *)
(* registry: the registry takes nothing from what is proved of the server  *)
(* itself, a worker serves only once its address is registered, and under  *)
(* reloads asked for one at a time the key outlives the worker that put it.*)
(***************************************************************************)

\* A worker comes to serve only from boot, by a step of its own.
LEMMA ServesFromBoot ==
  ASSUME TypeOK, Next, NEW p \in Pid, Serving(p)'
  PROVE  Serving(p) \/ (wk[p] = "boot" /\ wk'[p] = "starting")
<1> USE DEF Serving, procVars
<1>1. CASE MasterStep
  <2>1. CASE \E t \in Thread : ThreadStep(t)
    <3>1. PICK t \in Thread : ThreadStep(t)
      BY <2>1
    <3>2. CASE \E q \in Pid : ForkExec(t, q)
      BY <3>2 DEF ForkExec, TypeOK, ProcTypeOK
    <3>3. CASE ForkStore(t) \/ ReloadStore(t) \/ ReloadMarked(t)
      BY <3>3 DEF ForkStore, ReloadStore, ReloadMarked
    <3>4. CASE \E q \in Pid : ReloadLoad(t, q)
      BY <3>4 DEF ReloadLoad
    <3> QED
      BY <3>1, <3>2, <3>3, <3>4 DEF ThreadStep
  <2>2. CASE WatchChildrenStep
    BY <2>2 DEF WatchChildrenStep, VisitDead, DeleteDead
  <2>3. CASE \E q \in Pid : masterUp /\ WaitWorker(q)
    BY <2>3 DEF WaitWorker
  <2>4. CASE \E q \in Pid : ReaderStep(q)
    BY <2>4 DEF ReaderStep, ReadTakeover, NotifyStart, NotifyReload
  <2>5. CASE StopStep
    BY <2>5 DEF StopStep, MasterExit, GracefulNotify, RoughKill, TypeOK, ProcTypeOK
  <2> QED
    BY <1>1, <2>1, <2>2, <2>3, <2>4, <2>5 DEF MasterStep
<1>2. CASE \E q \in Pid : WorkerStep(q)
  BY <1>2 DEF WorkerStep, StartGoroutines, NotifyMaster, ReadQuit, End, WatchMaster,
              TypeOK, ProcTypeOK
<1>3. CASE Environment
  <2>1. CASE MasterEnvironment
    BY <2>1 DEF MasterEnvironment, ForkFails, Reload, LoseTakeover, Graceful, Rough,
                StopSignalRead, MasterKilled
  <2>2. CASE \E q \in Pid : Crash(q)
    BY <2>2 DEF Crash, TypeOK, ProcTypeOK
  <2> QED
    BY <1>3, <2>1, <2>2 DEF Environment
<1> QED
  BY <1>1, <1>2, <1>3 DEF Next

\* The server with its registry is a server: every step is one of Wox, or a
\* step of the registry that leaves the server alone.  So every invariant
\* proved of Wox holds here too.
LEMMA NamingImplementsWox == NamingSpec => Spec
<1>1. NamingInit => Init
  BY DEF NamingInit
<1>2. [NamingNext]_allVars => [Next]_vars
  BY DEF NamingNext, Register, Expire, LoseLease, allVars, vars
<1> QED
  BY <1>1, <1>2, PTL DEF NamingSpec, Spec

\* A worker that registers takes the key over.
LEMMA RegisterStep ==
  ASSUME NamingTypeOK, NEW p \in Pid, Register(p)
  PROVE  NamingTypeOK'
BY DEF NamingTypeOK, Register, Serving, vars, procVars

\* A key that goes, by its lease or with its process, leaves the rest alone.
LEMMA KeyGoesStep ==
  ASSUME NamingTypeOK, NEW p \in Pid, Expire(p) \/ LoseLease(p)
  PROVE  NamingTypeOK'
BY LeaseAssumption DEF NamingTypeOK, Expire, LoseLease, Serving, vars, procVars

\* A worker that serves has registered the address, and the key is always
\* under the lease of a worker that did.
THEOREM NamingTypeOKHolds == NamingSpec => []NamingTypeOK
<1>1. NamingInit => NamingTypeOK
  BY LeaseAssumption DEF NamingInit, Init, ProcInit, NamingTypeOK, Serving
<1>2. TypeOK /\ NamingTypeOK /\ [NamingNext]_allVars => NamingTypeOK'
  <2> SUFFICES ASSUME TypeOK, NamingTypeOK, [NamingNext]_allVars
               PROVE  NamingTypeOK'
    OBVIOUS
  <2>1. CASE Next /\ Registered /\ UNCHANGED namingVars
    <3>1. ASSUME NEW p \in Pid, Serving(p)'
          PROVE  p \in registered
      BY <2>1, <3>1, ServesFromBoot DEF Registered, NamingTypeOK
    <3> QED
      BY <2>1, <3>1 DEF NamingTypeOK, namingVars
  <2>2. CASE \E p \in Pid : Register(p) \/ Expire(p) \/ LoseLease(p)
    BY <2>2, RegisterStep, KeyGoesStep
  <2>3. CASE UNCHANGED allVars
    BY <2>3 DEF allVars, namingVars, vars, procVars, NamingTypeOK, Serving
  <2> QED
    BY <2>1, <2>2, <2>3 DEF NamingNext
<1> QED
  BY <1>1, <1>2, NamingImplementsWox, TypeOKHolds, PTL DEF NamingSpec

-----------------------------------------------------------------------------
\* Only a process that exists registers.
RegisteredInv == \A p \in registered : wk[p] # "unused"

\* A process that exists goes on existing, or has ended.
LEMMA ExistsStep ==
  ASSUME TypeOK, Next, NEW p \in Pid, wk'[p] = "unused"
  PROVE  wk[p] = "unused"
<1> USE DEF TypeOK, ProcTypeOK, procVars
<1>1. CASE \E t \in Thread : ThreadStep(t)
  BY <1>1 DEF ThreadStep, ForkExec, ForkStore, ReloadLoad, ReloadStore, ReloadMarked
<1>2. CASE WatchChildrenStep \/ \E q \in Pid : WaitWorker(q) \/ ReaderStep(q)
  BY <1>2 DEF WatchChildrenStep, VisitDead, DeleteDead, WaitWorker, ReaderStep, ReadTakeover,
              NotifyStart, NotifyReload
<1>3. CASE StopStep
  BY <1>3 DEF StopStep, MasterExit, GracefulNotify, RoughKill
<1>4. CASE MasterEnvironment
  BY <1>4 DEF MasterEnvironment, ForkFails, Reload, LoseTakeover, Graceful, Rough,
              StopSignalRead, MasterKilled
<1>5. CASE \E q \in Pid : WorkerStep(q) \/ Crash(q)
  BY <1>5 DEF WorkerStep, StartGoroutines, NotifyMaster, ReadQuit, End, WatchMaster, Crash
<1> QED
  BY <1>1, <1>2, <1>3, <1>4, <1>5 DEF Next, MasterStep, Environment

\* p runs and is not superseded.
Young(p) == Running(p) /\ children[p] # "reload"

\* The key is under the lease of a worker that was not told to quit; and if a
\* reload has superseded that worker, none of its successors has registered.
KeyInv ==
  Calm /\ leaseLosses = 0 /\ registered # {} =>
    /\ key # NoLease /\ Running(key) /\ ~Told(key)
    /\ children[key] = "reload" /\ ~Marking => \A p \in registered : ~Young(p)

\* Every step of the server keeps the key with such a worker.
LEMMA KeyServerStep ==
  ASSUME TypeOK, NamingTypeOK, RegisteredInv, TableInv, SpacedInv, KeyInv,
         Calm, leaseLosses = 0, registered # {},
         Next, UNCHANGED namingVars, Calm'
  PROVE  KeyInv'
<1> USE PidAssumption, MasterAssumption
    DEF TypeOK, ProcTypeOK, MasterTypeOK, ChildState, PcState, NoPid, NoLease, Thread, procVars, masterVars, tableVars, readerVars, threadVars, boundVars, namingVars, NamingTypeOK,
        KeyInv, Young, Marking, Running, Exited, Told, Serving, Calm, Stopping
<1>1. ASSUME NEW t \in Thread, NEW p \in Pid, ForkExec(t, p), masterUp, UNCHANGED crashes
      PROVE  KeyInv'
  BY <1>1 DEF ForkExec, NextPid, ForkReason, RegisteredInv
<1>2. ASSUME NEW t \in Thread, ForkStore(t), masterUp, UNCHANGED crashes
      PROVE  KeyInv'
  BY <1>2 DEF ForkStore, ForkReturns, TableInv, ForkInv
<1>3. ASSUME NEW t \in Thread, NEW p \in Pid, ReloadLoad(t, p), masterUp, UNCHANGED crashes
      PROVE  KeyInv'
  BY <1>3 DEF ReloadLoad
<1>4. ASSUME NEW t \in Thread, ReloadStore(t), masterUp, UNCHANGED crashes
      PROVE  KeyInv'
  BY <1>4 DEF ReloadStore
<1>5. ASSUME NEW t \in Thread, ReloadMarked(t), masterUp, UNCHANGED crashes
      PROVE  KeyInv'
  BY <1>5 DEF ReloadMarked, TableInv, LoopInv, TableTracksRunning, InFork, SpacedInv, SpacedParts, MarkInv, OrderlyInv, Reloader
<1>6. ASSUME NEW p \in Pid, VisitDead(p), masterUp, UNCHANGED crashes
      PROVE  KeyInv'
  BY <1>6 DEF VisitDead, Started
<1>7. ASSUME DeleteDead, masterUp, UNCHANGED crashes
      PROVE  KeyInv'
  BY <1>7 DEF DeleteDead, TableInv, DeathInv
<1>8. ASSUME NEW p \in Pid, WaitWorker(p), masterUp, UNCHANGED crashes
      PROVE  KeyInv'
  BY <1>8 DEF WaitWorker, Exited, TableInv
<1>9. ASSUME NEW p \in Pid, ReadTakeover(p), masterUp, UNCHANGED crashes
      PROVE  KeyInv'
  BY <1>9 DEF ReadTakeover
<1>10. ASSUME NEW p \in Pid, NotifyStart(p), masterUp, UNCHANGED crashes
      PROVE  KeyInv'
  BY <1>10 DEF NotifyStart, Keys
<1>11. ASSUME NEW p \in Pid, NEW q \in Pid, NotifyReload(p, q), masterUp, UNCHANGED crashes
      PROVE  KeyInv'
  BY <1>11 DEF NotifyReload, NotifyWorker, SendQuit, SpacedInv, SpacedParts, MarkInv, AnnouncerInv
<1>12. ASSUME MasterExit, masterUp, UNCHANGED crashes
      PROVE  KeyInv'
  BY <1>12 DEF MasterExit
<1>13. ASSUME NEW q \in Pid, GracefulNotify(q), masterUp, UNCHANGED crashes
      PROVE  KeyInv'
  BY <1>13 DEF GracefulNotify
<1>14. ASSUME NEW q \in Pid, RoughKill(q), masterUp, UNCHANGED crashes
      PROVE  KeyInv'
  BY <1>14 DEF RoughKill
<1>15. ASSUME NEW t \in Thread, ForkFails(t), masterUp, UNCHANGED crashes
      PROVE  KeyInv'
  <2>1. t # "main" /\ pc[t] = "fork" /\ ForkReturns(t)
    BY <1>15 DEF ForkFails
  <2>2. Marking' = Marking
    BY <2>1, ForkReturnsOwed DEF TableInv
  <2>3. UNCHANGED <<wk, quitMsg, children>>
    BY <1>15 DEF ForkFails
  <2> QED
    BY <2>2, <2>3
<1>16. ASSUME NEW t \in Reloader, Reload(t), masterUp, UNCHANGED crashes
      PROVE  KeyInv'
  BY <1>16 DEF Reload, Started, Keys, Reloader, Settled
<1>17. ASSUME NEW p \in Pid, LoseTakeover(p), masterUp, UNCHANGED crashes
      PROVE  KeyInv'
  BY <1>17 DEF LoseTakeover
<1>18. ASSUME Graceful, masterUp, UNCHANGED crashes
      PROVE  KeyInv'
  BY <1>18 DEF Graceful, StopSignalRead
<1>19. ASSUME Rough, masterUp, UNCHANGED crashes
      PROVE  KeyInv'
  BY <1>19 DEF Rough, StopSignalRead
<1>20. ASSUME MasterKilled, masterUp, UNCHANGED crashes
      PROVE  KeyInv'
  BY <1>20 DEF MasterKilled
<1>21. ASSUME NEW p \in Pid, StartGoroutines(p), UNCHANGED masterVars
      PROVE  KeyInv'
  BY <1>21 DEF StartGoroutines
<1>22. ASSUME NEW p \in Pid, NotifyMaster(p), UNCHANGED masterVars
      PROVE  KeyInv'
  BY <1>22 DEF NotifyMaster
<1>23. ASSUME NEW p \in Pid, ReadQuit(p), UNCHANGED masterVars
      PROVE  KeyInv'
  BY <1>23 DEF ReadQuit
<1>24. ASSUME NEW p \in Pid, End(p), UNCHANGED masterVars
      PROVE  KeyInv'
  BY <1>24 DEF End
<1>25. ASSUME NEW p \in Pid, WatchMaster(p), UNCHANGED masterVars
      PROVE  KeyInv'
  BY <1>25 DEF WatchMaster
<1>26. ASSUME NEW p \in Pid, Crash(p), UNCHANGED masterVars
      PROVE  KeyInv'
  BY <1>26 DEF Crash
<1> QED
  BY <1>1, <1>2, <1>3, <1>4, <1>5, <1>6, <1>7, <1>8, <1>9, <1>10, <1>11, <1>12, <1>13,
     <1>14, <1>15, <1>16, <1>17, <1>18, <1>19, <1>20, <1>21, <1>22, <1>23, <1>24, <1>25, <1>26 DEF Next, MasterStep, ThreadStep,
     WatchChildrenStep, ReaderStep, StopStep, Environment, MasterEnvironment, WorkerStep

\* A worker that registers takes the key over, before it can be superseded or
\* told to quit.
LEMMA KeyRegisterStep ==
  ASSUME TypeOK, SpacedInv, NEW p \in Pid, Register(p)
  PROVE  KeyInv'
<1>1. p # NoPid
  BY PidAssumption
<1>2. key' = p /\ wk[p] = "boot" /\ UNCHANGED <<wk, quitMsg, children, crashes, masterUp, pc>>
  BY DEF Register, vars, procVars, masterVars, tableVars, threadVars
<1>3. Calm => ~Told(p) /\ children[p] # "reload"
  BY <1>2 DEF SpacedInv, SpacedParts, StartInv
<1> QED
  BY <1>1, <1>2, <1>3 DEF KeyInv, NoLease, Running, Told, Calm, Stopping

\* No other step of the registry touches the key: its worker runs, and no
\* lease is lost.
LEMMA KeyGoesKept ==
  ASSUME TypeOK, NamingTypeOK, KeyInv, NEW p \in Pid, Expire(p) \/ LoseLease(p)
  PROVE  KeyInv'
<1>1. UNCHANGED <<wk, quitMsg, children, crashes, masterUp, pc, registered>>
  BY DEF Expire, LoseLease, vars, procVars, masterVars, tableVars, threadVars
<1>2. CASE Expire(p)
  BY <1>1, <1>2 DEF Expire, KeyInv, Running, Exited, Calm, Stopping
<1>3. CASE LoseLease(p)
  <2>1. leaseLosses' # 0
    BY <1>3, LeaseAssumption DEF LoseLease, NamingTypeOK
  <2> QED
    BY <2>1 DEF KeyInv
<1> QED
  BY <1>2, <1>3

-----------------------------------------------------------------------------
\* What a reload has still to mark was serving when the reload began, so no
\* worker is superseded while it boots.
StartedInv ==
  ~Stopping =>
    /\ \A t \in Thread : pc[t] = "mark" =>
         \A p \in Pid : p \in todo[t] \/ held[t] = p => wk[p] \notin {"unused", "boot", "starting"}
    /\ \A p \in Pid : wk[p] \in {"boot", "starting"} => children[p] # "reload"

\* Every step of a server that goes on keeps this.
LEMMA StartedStep ==
  ASSUME SpacedReloads = TRUE, TypeOK, TableInv, StartedInv, ~Stopping, ~Stopping', Next
  PROVE  StartedInv'
<1> USE PidAssumption, MasterAssumption
    DEF TypeOK, ProcTypeOK, MasterTypeOK, ChildState, PcState, NoPid, Thread, procVars, masterVars, tableVars, readerVars, threadVars, boundVars,
        StartedInv, Stopping
<1>1. ASSUME NEW t \in Thread, NEW p \in Pid, ForkExec(t, p), masterUp, UNCHANGED crashes
      PROVE  StartedInv'
  BY <1>1 DEF ForkExec, NextPid, ForkReason, TableInv, UnusedInv, HeldInv, LoopInv
<1>2. ASSUME NEW t \in Thread, ForkStore(t), masterUp, UNCHANGED crashes
      PROVE  StartedInv'
  BY <1>2 DEF ForkStore, ForkReturns, TableInv, LoopInv
<1>3. ASSUME NEW t \in Thread, NEW p \in Pid, ReloadLoad(t, p), masterUp, UNCHANGED crashes
      PROVE  StartedInv'
  BY <1>3 DEF ReloadLoad
<1>4. ASSUME NEW t \in Thread, ReloadStore(t), masterUp, UNCHANGED crashes
      PROVE  StartedInv'
  BY <1>4 DEF ReloadStore
<1>5. ASSUME NEW t \in Thread, ReloadMarked(t), masterUp, UNCHANGED crashes
      PROVE  StartedInv'
  BY <1>5 DEF ReloadMarked
<1>6. ASSUME NEW p \in Pid, VisitDead(p), masterUp, UNCHANGED crashes
      PROVE  StartedInv'
  BY <1>6 DEF VisitDead, Started
<1>7. ASSUME DeleteDead, masterUp, UNCHANGED crashes
      PROVE  StartedInv'
  BY <1>7 DEF DeleteDead
<1>8. ASSUME NEW p \in Pid, WaitWorker(p), masterUp, UNCHANGED crashes
      PROVE  StartedInv'
  BY <1>8 DEF WaitWorker, Exited
<1>9. ASSUME NEW p \in Pid, ReadTakeover(p), masterUp, UNCHANGED crashes
      PROVE  StartedInv'
  BY <1>9 DEF ReadTakeover
<1>10. ASSUME NEW p \in Pid, NotifyStart(p), masterUp, UNCHANGED crashes
      PROVE  StartedInv'
  BY <1>10 DEF NotifyStart, Keys
<1>11. ASSUME NEW p \in Pid, NEW q \in Pid, NotifyReload(p, q), masterUp, UNCHANGED crashes
      PROVE  StartedInv'
  BY <1>11 DEF NotifyReload, NotifyWorker, SendQuit
<1>12. ASSUME MasterExit, masterUp, UNCHANGED crashes
      PROVE  StartedInv'
  BY <1>12 DEF MasterExit
<1>13. ASSUME NEW q \in Pid, GracefulNotify(q), masterUp, UNCHANGED crashes
      PROVE  StartedInv'
  BY <1>13 DEF GracefulNotify
<1>14. ASSUME NEW q \in Pid, RoughKill(q), masterUp, UNCHANGED crashes
      PROVE  StartedInv'
  BY <1>14 DEF RoughKill
<1>15. ASSUME NEW t \in Thread, ForkFails(t), masterUp, UNCHANGED crashes
      PROVE  StartedInv'
  <2>1. t # "main" /\ pc[t] = "fork" /\ ForkReturns(t)
    BY <1>15 DEF ForkFails
  <2>2. pc'[t] # "mark" /\ \A u \in Thread \ {t} : pc'[u] = pc[u]
    BY <2>1, ForkReturnsFrame DEF TableInv
  <2>3. UNCHANGED <<wk, children, todo, held>>
    BY <1>15 DEF ForkFails
  <2> QED
    BY <2>2, <2>3
<1>16. ASSUME NEW t \in Reloader, Reload(t), masterUp, UNCHANGED crashes
      PROVE  StartedInv'
  BY <1>16 DEF Reload, Started, Keys, Reloader, Settled, TableInv, UnusedInv, HeldInv
<1>17. ASSUME NEW p \in Pid, LoseTakeover(p), masterUp, UNCHANGED crashes
      PROVE  StartedInv'
  BY <1>17 DEF LoseTakeover
<1>18. ASSUME Graceful, masterUp, UNCHANGED crashes
      PROVE  StartedInv'
  BY <1>18 DEF Graceful, StopSignalRead
<1>19. ASSUME Rough, masterUp, UNCHANGED crashes
      PROVE  StartedInv'
  BY <1>19 DEF Rough, StopSignalRead
<1>20. ASSUME MasterKilled, masterUp, UNCHANGED crashes
      PROVE  StartedInv'
  BY <1>20 DEF MasterKilled
<1>21. ASSUME NEW p \in Pid, StartGoroutines(p), UNCHANGED masterVars
      PROVE  StartedInv'
  BY <1>21 DEF StartGoroutines
<1>22. ASSUME NEW p \in Pid, NotifyMaster(p), UNCHANGED masterVars
      PROVE  StartedInv'
  BY <1>22 DEF NotifyMaster
<1>23. ASSUME NEW p \in Pid, ReadQuit(p), UNCHANGED masterVars
      PROVE  StartedInv'
  BY <1>23 DEF ReadQuit
<1>24. ASSUME NEW p \in Pid, End(p), UNCHANGED masterVars
      PROVE  StartedInv'
  BY <1>24 DEF End
<1>25. ASSUME NEW p \in Pid, WatchMaster(p), UNCHANGED masterVars
      PROVE  StartedInv'
  BY <1>25 DEF WatchMaster
<1>26. ASSUME NEW p \in Pid, Crash(p), UNCHANGED masterVars
      PROVE  StartedInv'
  BY <1>26 DEF Crash
<1> QED
  BY <1>1, <1>2, <1>3, <1>4, <1>5, <1>6, <1>7, <1>8, <1>9, <1>10, <1>11, <1>12, <1>13,
     <1>14, <1>15, <1>16, <1>17, <1>18, <1>19, <1>20, <1>21, <1>22, <1>23, <1>24, <1>25, <1>26 DEF Next, MasterStep, ThreadStep,
     WatchChildrenStep, ReaderStep, StopStep, Environment, MasterEnvironment, WorkerStep

\* The key is under the lease of a worker that stays.
Good == key # NoLease /\ Running(key) /\ (InFork(key) \/ children[key] = "alive")

\* Thread t will fork, or has forked a worker that has not registered yet.
ToFork(t) ==
  pc[t] = "fork" /\ (left[t] > 1 \/ held[t] = NoPid \/ held[t] \notin registered)

\* The crash of p is still to be made up for.
Lost(p) ==
  wk[p] = "exitN" /\ (InFork(p) \/ p \in waiting \/ (children[p] = "crash" /\ dead # p))

\* A worker will still register.
ToCome ==
  \/ Marking
  \/ \E t \in Thread : ToFork(t)
  \/ \E p \in Pid : Lost(p)
  \/ \E p \in Pid : wk[p] = "boot" /\ p \notin registered

\* The key is good, or it will be put again.
SettleInv == ~Stopping /\ leaseLosses = 0 /\ forkFails = 0 => Good \/ ToCome

\* fork stores its worker.
LEMMA SettleForkStore ==
  ASSUME TypeOK, NamingTypeOK, TableInv, EndInv, Good \/ ToCome,
         NEW t \in Thread, ForkStore(t), UNCHANGED namingVars
  PROVE  (Good \/ ToCome)'
<1> DEFINE h == held[t]
<1> USE DEF Good, ToCome, ToFork, Lost, Marking, Running, InFork
<1>1. /\ h \in Pid /\ h # NoPid /\ pc[t] = "fork" /\ left[t] \in Nat \ {0}
      /\ wk[h] # "unused" /\ ~Told(h) /\ children[h] = "absent"
      /\ \A u \in Thread \ {t} : pc[u] = "fork" => held[u] # h
  BY PidAssumption, MasterAssumption
     DEF ForkStore, TableInv, LoopInv, HeldInv, ForkInv, TypeOK, MasterTypeOK
<1>2. /\ children' = [children EXCEPT ![h] = "alive"] /\ waiting' = waiting \cup {h}
      /\ held' = [held EXCEPT ![t] = NoPid]
      /\ UNCHANGED <<wk, dead, registered, key>>
  BY DEF ForkStore, procVars, namingVars
<1>3. /\ pc'[t] = (IF left[t] > 1 THEN "fork" ELSE IF t = "watchChildren" THEN "delete" ELSE "idle")
      /\ \A u \in Thread \ {t} : pc'[u] = pc[u] /\ left'[u] = left[u] /\ held'[u] = held[u]
  BY <1>2 DEF ForkStore, ForkReturns, TypeOK, MasterTypeOK
<1>4. CASE left[t] > 1
  <2>1. pc'[t] = "fork" /\ held'[t] = NoPid
    BY <1>2, <1>3, <1>4 DEF TypeOK, MasterTypeOK
  <2> QED
    BY <2>1
<1>5. CASE ~(left[t] > 1) /\ h \notin registered
  <2>1. wk[h] \in {"boot", "exitN"}
    BY <1>1, <1>5 DEF EndInv, NamingTypeOK, Serving, TypeOK, ProcTypeOK
  <2>2. h \in waiting'
    BY <1>2
  <2> QED
    BY <1>1, <1>2, <1>5, <2>1, <2>2
<1>6. CASE ~(left[t] > 1) /\ h \in registered
  <2>1. ~ToFork(t)
    BY <1>1, <1>6
  <2>2. \A p \in Pid : InFork(p) => InFork(p)' \/ p = h
    BY <1>3
  <2>3. children'[h] = "alive" /\ \A p \in Pid \ {h} : children'[p] = children[p]
    BY <1>1, <1>2 DEF TypeOK, MasterTypeOK
  <2>4. CASE Good
    <3>1. key \in Pid
      BY <2>4 DEF NamingTypeOK
    <3> QED
      BY <1>2, <2>2, <2>3, <2>4, <3>1
  <2>5. CASE Marking
    BY <1>1, <1>3, <2>5
  <2>6. ASSUME NEW u \in Thread, ToFork(u)
        PROVE  ToFork(u)'
    BY <1>2, <1>3, <2>1, <2>6
  <2>7. ASSUME NEW p \in Pid, Lost(p)
        PROVE  Lost(p)'
    BY <1>1, <1>2, <2>2, <2>3, <2>7
  <2> QED
    BY <1>2, <2>4, <2>5, <2>6, <2>7
<1> QED
  BY <1>4, <1>5, <1>6

\* Every step of the server leaves the key good, or somebody to make it good.
LEMMA SettleServerStep ==
  ASSUME TypeOK, NamingTypeOK, RegisteredInv, TableInv, DeadInv, EndInv, StartedInv,
         Good \/ ToCome, Next, Registered, UNCHANGED namingVars, ~Stopping, ~Stopping', forkFails' = 0
  PROVE  (Good \/ ToCome)'
<1> USE PidAssumption, MasterAssumption
    DEF TypeOK, ProcTypeOK, MasterTypeOK, ChildState, PcState, NoPid, NoLease, Thread, procVars, masterVars, tableVars, readerVars, threadVars, boundVars, namingVars, NamingTypeOK,
        Good, ToCome, ToFork, Lost, Marking, Running, Exited, InFork, Told, Stopping
<1>1. ASSUME NEW t \in Thread, NEW p \in Pid, ForkExec(t, p), masterUp, UNCHANGED crashes
      PROVE  (Good \/ ToCome)'
  <2>1. p \notin registered
    BY <1>1 DEF ForkExec, NextPid, RegisteredInv
  <2>2. ToFork(t)'
    BY <1>1, <2>1 DEF ForkExec
  <2> QED
    BY <2>2
<1>2. ASSUME NEW t \in Thread, ForkStore(t), masterUp, UNCHANGED crashes
      PROVE  (Good \/ ToCome)'
  BY <1>2, SettleForkStore
<1>3. ASSUME NEW t \in Thread, NEW p \in Pid, ReloadLoad(t, p), masterUp, UNCHANGED crashes
      PROVE  (Good \/ ToCome)'
  BY <1>3 DEF ReloadLoad
<1>4. ASSUME NEW t \in Thread, ReloadStore(t), masterUp, UNCHANGED crashes
      PROVE  (Good \/ ToCome)'
  BY <1>4 DEF ReloadStore
<1>5. ASSUME NEW t \in Thread, ReloadMarked(t), masterUp, UNCHANGED crashes
      PROVE  (Good \/ ToCome)'
  BY <1>5 DEF ReloadMarked, TableInv, LoopInv
<1>6. ASSUME NEW p \in Pid, VisitDead(p), masterUp, UNCHANGED crashes
      PROVE  (Good \/ ToCome)'
  BY <1>6 DEF VisitDead, Started, TableInv, HeldInv, DeadInv, DeathInv, ForkInv
<1>7. ASSUME DeleteDead, masterUp, UNCHANGED crashes
      PROVE  (Good \/ ToCome)'
  BY <1>7 DEF DeleteDead, TableInv, DeathInv
<1>8. ASSUME NEW p \in Pid, WaitWorker(p), masterUp, UNCHANGED crashes
      PROVE  (Good \/ ToCome)'
  BY <1>8 DEF WaitWorker, Exited, TableInv, DeathInv, DeadInv, ForkInv, AliveNotTold,EndInv
<1>9. ASSUME NEW p \in Pid, ReadTakeover(p), masterUp, UNCHANGED crashes
      PROVE  (Good \/ ToCome)'
  BY <1>9 DEF ReadTakeover
<1>10. ASSUME NEW p \in Pid, NotifyStart(p), masterUp, UNCHANGED crashes
      PROVE  (Good \/ ToCome)'
  BY <1>10 DEF NotifyStart, Keys
<1>11. ASSUME NEW p \in Pid, NEW q \in Pid, NotifyReload(p, q), masterUp, UNCHANGED crashes
      PROVE  (Good \/ ToCome)'
  BY <1>11 DEF NotifyReload, NotifyWorker, SendQuit
<1>12. ASSUME MasterExit, masterUp, UNCHANGED crashes
      PROVE  (Good \/ ToCome)'
  BY <1>12 DEF MasterExit
<1>13. ASSUME NEW q \in Pid, GracefulNotify(q), masterUp, UNCHANGED crashes
      PROVE  (Good \/ ToCome)'
  BY <1>13 DEF GracefulNotify
<1>14. ASSUME NEW q \in Pid, RoughKill(q), masterUp, UNCHANGED crashes
      PROVE  (Good \/ ToCome)'
  BY <1>14 DEF RoughKill
<1>15. ASSUME NEW t \in Thread, ForkFails(t), masterUp, UNCHANGED crashes
      PROVE  (Good \/ ToCome)'
  BY <1>15 DEF ForkFails, ForkReturns
<1>16. ASSUME NEW t \in Reloader, Reload(t), masterUp, UNCHANGED crashes
      PROVE  (Good \/ ToCome)'
  BY <1>16 DEF Reload, Started, Keys, Reloader, Settled
<1>17. ASSUME NEW p \in Pid, LoseTakeover(p), masterUp, UNCHANGED crashes
      PROVE  (Good \/ ToCome)'
  BY <1>17 DEF LoseTakeover
<1>18. ASSUME Graceful, masterUp, UNCHANGED crashes
      PROVE  (Good \/ ToCome)'
  BY <1>18 DEF Graceful, StopSignalRead
<1>19. ASSUME Rough, masterUp, UNCHANGED crashes
      PROVE  (Good \/ ToCome)'
  BY <1>19 DEF Rough, StopSignalRead
<1>20. ASSUME MasterKilled, masterUp, UNCHANGED crashes
      PROVE  (Good \/ ToCome)'
  BY <1>20 DEF MasterKilled
<1>21. ASSUME NEW p \in Pid, StartGoroutines(p), UNCHANGED masterVars
      PROVE  (Good \/ ToCome)'
  BY <1>21 DEF StartGoroutines, Registered
<1>22. ASSUME NEW p \in Pid, NotifyMaster(p), UNCHANGED masterVars
      PROVE  (Good \/ ToCome)'
  BY <1>22 DEF NotifyMaster
<1>23. ASSUME NEW p \in Pid, ReadQuit(p), UNCHANGED masterVars
      PROVE  (Good \/ ToCome)'
  BY <1>23 DEF ReadQuit
<1>24. ASSUME NEW p \in Pid, End(p), UNCHANGED masterVars
      PROVE  (Good \/ ToCome)'
  BY <1>24 DEF End, TableInv, ForkInv, AliveNotTold
<1>25. ASSUME NEW p \in Pid, WatchMaster(p), UNCHANGED masterVars
      PROVE  (Good \/ ToCome)'
  BY <1>25 DEF WatchMaster
<1>26. ASSUME NEW p \in Pid, Crash(p), UNCHANGED masterVars
      PROVE  (Good \/ ToCome)'
  BY <1>26 DEF Crash, TableInv, TableTracksRunning
<1> QED
  BY <1>1, <1>2, <1>3, <1>4, <1>5, <1>6, <1>7, <1>8, <1>9, <1>10, <1>11, <1>12, <1>13,
     <1>14, <1>15, <1>16, <1>17, <1>18, <1>19, <1>20, <1>21, <1>22, <1>23, <1>24, <1>25, <1>26 DEF Next, MasterStep, ThreadStep,
     WatchChildrenStep, ReaderStep, StopStep, Environment, MasterEnvironment, WorkerStep

\* A worker that registers is forked to stay: it is not superseded.
LEMMA SettleRegister ==
  ASSUME TypeOK, TableInv, StartedInv, ~Stopping, NEW p \in Pid, Register(p)
  PROVE  Good'
<1>1. p # NoPid /\ wk[p] = "boot" /\ Running(p) /\ masterUp
  BY PidAssumption DEF Register, Running, Stopping
<1>2. children[p] # "reload"
  BY <1>1 DEF StartedInv
<1>3. InFork(p) \/ children[p] = "alive"
  BY <1>1, <1>2 DEF TableInv, TableTracksRunning
<1>4. key' = p /\ UNCHANGED <<wk, children, pc, held>>
  BY DEF Register, vars, procVars, masterVars, tableVars, threadVars
<1> QED
  BY <1>1, <1>3, <1>4 DEF Good, Running, InFork, NoLease

\* Every step of the registry leaves the key good, or somebody to make it good.
LEMMA SettleRegistryStep ==
  ASSUME TypeOK, NamingTypeOK, TableInv, StartedInv, SettleInv,
         NEW p \in Pid, Register(p) \/ Expire(p) \/ LoseLease(p)
  PROVE  SettleInv'
<1>1. UNCHANGED <<wk, children, waiting, masterUp, pc, held, left, dead, forkFails>>
  BY DEF Register, Expire, LoseLease, vars, procVars, masterVars, tableVars, threadVars, boundVars
<1>2. Stopping' = Stopping
  BY <1>1 DEF Stopping
<1>3. CASE Register(p)
  BY <1>2, <1>3, SettleRegister DEF SettleInv, Register
<1>4. CASE Expire(p)
  <2>1. ~Good /\ UNCHANGED <<registered, leaseLosses>>
    BY <1>4 DEF Expire, Good, Running, Exited
  <2>2. ToCome' = ToCome
    BY <1>1, <2>1 DEF ToCome, Marking, ToFork, Lost, InFork
  <2> QED
    BY <1>1, <1>2, <2>1, <2>2 DEF SettleInv
<1>5. CASE LoseLease(p)
  <2>1. leaseLosses' # 0
    BY <1>5, LeaseAssumption DEF LoseLease, NamingTypeOK
  <2> QED
    BY <2>1 DEF SettleInv
<1> QED
  BY <1>3, <1>4, <1>5

-----------------------------------------------------------------------------
\* What the theorems below rest on.
LEMMA KeyHolds ==
  ASSUME SpacedReloads = TRUE
  PROVE  NamingSpec => [](RegisteredInv /\ KeyInv /\ StartedInv /\ SettleInv)
<1> DEFINE Inv == RegisteredInv /\ KeyInv /\ StartedInv /\ SettleInv
<1>1. NamingInit => Inv
  <2> SUFFICES ASSUME NamingInit
               PROVE  Inv
    OBVIOUS
  <2>1. RegisteredInv /\ KeyInv /\ StartedInv
    BY DEF NamingInit, Init, ProcInit, MasterInit, RegisteredInv, KeyInv, StartedInv, Thread
  <2>2. ToFork("main")
    BY DEF NamingInit, Init, MasterInit, ToFork, Thread
  <2>3. SettleInv
    BY <2>2 DEF SettleInv, ToCome, Thread
  <2> QED
    BY <2>1, <2>3
<1>2. TypeOK /\ NamingTypeOK /\ TableInv /\ CountInv /\ SpacedInv /\ Inv /\ [NamingNext]_allVars => Inv'
  <2> SUFFICES ASSUME TypeOK, NamingTypeOK, TableInv, CountInv, SpacedInv, Inv, [NamingNext]_allVars
               PROVE  Inv'
    OBVIOUS
  <2>1. CASE Next /\ Registered /\ UNCHANGED namingVars
    <3>1. /\ ~Stopping' => ~Stopping
          /\ Calm' => Calm
          /\ forkFails' = 0 => forkFails = 0
      BY <2>1, NotTakenBack
    <3>2. RegisteredInv'
      BY <2>1, ExistsStep DEF RegisteredInv, namingVars, NamingTypeOK
    <3>3. KeyInv'
      <4>1. CASE Calm' /\ leaseLosses = 0 /\ registered # {}
        BY <2>1, <3>1, <4>1, KeyServerStep
      <4> QED
        BY <2>1, <4>1 DEF KeyInv, namingVars
    <3>4. StartedInv'
      <4>1. CASE ~Stopping'
        BY <2>1, <3>1, <4>1, StartedStep
      <4> QED
        BY <4>1 DEF StartedInv
    <3>5. SettleInv'
      <4>1. CASE ~Stopping' /\ leaseLosses = 0 /\ forkFails' = 0
        <5>1. Good \/ ToCome
          BY <3>1, <4>1 DEF SettleInv
        <5>2. (Good \/ ToCome)'
          BY <2>1, <3>1, <4>1, <5>1, SettleServerStep DEF CountInv
        <5> QED
          BY <5>2 DEF SettleInv
      <4> QED
        BY <2>1, <4>1 DEF SettleInv, namingVars
    <3> QED
      BY <3>2, <3>3, <3>4, <3>5
  <2>2. ASSUME NEW p \in Pid, Register(p) \/ Expire(p) \/ LoseLease(p)
        PROVE  Inv'
    <3>1. RegisteredInv'
      BY <2>2 DEF RegisteredInv, Register, Expire, LoseLease, vars, procVars
    <3>2. KeyInv'
      BY <2>2, KeyRegisterStep, KeyGoesKept
    <3>3. StartedInv'
      BY <2>2 DEF StartedInv, Stopping, Register, Expire, LoseLease, vars, procVars, masterVars,
                  tableVars, threadVars
    <3>4. SettleInv'
      BY <2>2, SettleRegistryStep
    <3> QED
      BY <3>1, <3>2, <3>3, <3>4
  <2>3. CASE UNCHANGED allVars
    BY <2>3 DEF allVars, namingVars, vars, procVars, masterVars, tableVars, readerVars, threadVars,
                boundVars, RegisteredInv, KeyInv, StartedInv, SettleInv, Calm, Stopping, Young,
                Marking, Running, Told, Good, ToCome, ToFork, Lost, InFork
  <2> QED
    BY <2>1, <2>2, <2>3 DEF NamingNext
<1> QED
  BY <1>1, <1>2, NamingImplementsWox, TypeOKHolds, NamingTypeOKHolds, TableInvHolds, CountHolds,
     SpacedHolds, PTL DEF NamingSpec

\* Across reloads asked for one at a time the address stays in the registry as
\* long as a worker serves that was not told to quit, whatever forks fail and
\* whatever takeovers are lost.
THEOREM KeyKeptHolds ==
  ASSUME SpacedReloads = TRUE
  PROVE  NamingSpec => []KeyKept
<1>1. NamingTypeOK /\ KeyInv => KeyKept
  BY DEF NamingTypeOK, KeyInv, KeyKept, Calm
<1> QED
  BY <1>1, KeyHolds, NamingTypeOKHolds, PTL

\* Once such a server has settled, the address is in the registry and belongs
\* to a worker that stays, whichever workers crashed on the way, unless a lease
\* was lost or a fork failed.
THEOREM KeySettledHolds ==
  ASSUME SpacedReloads = TRUE
  PROVE  NamingSpec => []KeySettled
<1>1. TypeOK /\ SettleInv => KeySettled
  <2> SUFFICES ASSUME TypeOK, SettleInv, Settled, leaseLosses = 0, forkFails = 0
               PROVE  key # NoLease /\ children[key] = "alive"
    BY DEF KeySettled
  <2>1. ~Stopping /\ \A p \in Pid : ~InFork(p)
    BY DEF Settled, Stopping, InFork, Thread
  <2>2. ~Marking /\ \A t \in Thread : ~ToFork(t)
    BY DEF Settled, Marking, ToFork
  <2>3. \A p \in Pid : ~Lost(p) /\ wk[p] # "boot"
    BY <2>1 DEF Settled, Lost, Exited
  <2>4. Good
    BY <2>1, <2>2, <2>3 DEF SettleInv, ToCome
  <2>5. ~InFork(key)
    BY DEF Settled, InFork
  <2> QED
    BY <2>4, <2>5 DEF Good
<1> QED
  BY <1>1, KeyHolds, NamingImplementsWox, TypeOKHolds, PTL
=============================================================================

---------------------------- MODULE WoxPidProofs ----------------------------
(***************************************************************************)
(* Proofs about WoxPid, for any number of masters, workers and kills.      *)
(***************************************************************************)
EXTENDS WoxPid, TLAPS

\* Every variable stays in its set.
LEMMA TypeInit == Init => TypeOK
BY PidFileAssumption DEF Init, TypeOK

LEMMA TypeStep == TypeOK /\ [Next]_vars => TypeOK'
<1> SUFFICES ASSUME TypeOK, [Next]_vars
             PROVE  TypeOK'
  OBVIOUS
<1> USE DEF TypeOK, workerVars, masterVars
<1>1. ASSUME NEW m \in Master, MasterNext(m)
      PROVE  TypeOK'
  <2>1. CASE Start(m) \/ SaveCreate(m) \/ SaveFails(m) \/ SaveWrite(m)
    BY <2>1 DEF Start, SaveCreate, SaveFails, SaveWrite, Move
  <2>2. CASE Stop(m) \/ Remove(m) \/ Exit(m)
    BY <2>2 DEF Stop, Remove, Exit, Move
  <2>3. CASE Killed(m)
    BY <2>3, PidFileAssumption DEF Killed
  <2>4. CASE \E w \in Worker : ForkWorker(m, w)
    BY <2>4 DEF ForkWorker
  <2> QED
    BY <1>1, <2>1, <2>2, <2>3, <2>4 DEF MasterNext
<1>2. CASE CleanUp
  BY <1>2 DEF CleanUp
<1>3. ASSUME NEW w \in Worker, WatchMaster(w) \/ EndOtherwise(w)
      PROVE  TypeOK'
  BY <1>3 DEF WatchMaster, WatchOpen, WatchRead, WatchTick, EndOtherwise
<1>4. CASE UNCHANGED vars
  BY <1>4 DEF vars
<1> QED
  BY <1>1, <1>2, <1>3, <1>4 DEF Next

\* The invariant holds before the first master starts.
LEMMA InvInit == Init => FileInv
BY DEF Init, FileInv, HoldsFile, OwnFile, ParentInv, OpenInv, CleanStop, Holds

\* The steps of one master: none takes the file of a master that holds it.
LEMMA MasterKeepsInv ==
  ASSUME TypeOK, FileInv, NEW m \in Master, MasterNext(m)
  PROVE  FileInv'
<1> USE DEF TypeOK, FileInv, Holds, workerVars, masterVars
<1>1. CASE Start(m) \/ SaveFails(m) \/ Stop(m) \/ Exit(m) \/ SaveWrite(m)
  <2> USE <1>1 DEF Start, SaveFails, Stop, Exit, SaveWrite, Move
  <2>1. HoldsFile' /\ OwnFile'
    BY DEF HoldsFile, OwnFile
  <2>2. ParentInv'
    BY DEF ParentInv
  <2>3. OpenInv'
    BY DEF OpenInv, ParentInv
  <2>4. CleanStop'
    BY PidFileAssumption DEF CleanStop, HoldsFile
  <2> QED
    BY <2>1, <2>2, <2>3, <2>4
<1>2. CASE SaveCreate(m)
  <2> USE <1>2 DEF SaveCreate, Move
  <2>1. HoldsFile' /\ OwnFile'
    BY PidFileAssumption DEF HoldsFile, OwnFile
  <2>2. ParentInv'
    BY DEF ParentInv
  <2>3. OpenInv'
    BY DEF OpenInv, ParentInv
  <2>4. CleanStop'
    BY DEF CleanStop
  <2> QED
    BY <2>1, <2>2, <2>3, <2>4
<1>3. CASE Remove(m)
  <2> USE <1>3 DEF Remove, Move
  <2>1. HoldsFile' /\ OwnFile'
    BY DEF HoldsFile, OwnFile
  <2>2. ParentInv' /\ OpenInv'
    BY DEF ParentInv, OpenInv
  <2>3. CleanStop'
    BY DEF CleanStop
  <2> QED
    BY <2>1, <2>2, <2>3
<1>4. CASE Killed(m)
  <2> USE <1>4 DEF Killed
  <2>1. HoldsFile' /\ OwnFile'
    BY DEF HoldsFile, OwnFile
  <2>2. ParentInv' /\ OpenInv'
    BY DEF ParentInv, OpenInv
  <2>3. CleanStop'
    BY PidFileAssumption DEF CleanStop
  <2> QED
    BY <2>1, <2>2, <2>3
<1>5. ASSUME NEW w \in Worker, ForkWorker(m, w)
      PROVE  FileInv'
  BY <1>5 DEF ForkWorker, HoldsFile, OwnFile, ParentInv, OpenInv, CleanStop
<1> QED
  BY <1>1, <1>2, <1>3, <1>4, <1>5 DEF MasterNext

\* The steps of one worker: what it opens is its master's file.
LEMMA WorkerKeepsInv ==
  ASSUME TypeOK, FileInv, NEW w \in Worker, WatchMaster(w) \/ EndOtherwise(w)
  PROVE  FileInv'
<1> USE DEF TypeOK, FileInv, Holds, masterVars
<1>1. HoldsFile' /\ OwnFile' /\ CleanStop'
  BY DEF WatchMaster, WatchOpen, WatchRead, WatchTick, EndOtherwise,
         HoldsFile, OwnFile, CleanStop
<1>2. ParentInv'
  BY DEF WatchMaster, WatchOpen, WatchRead, WatchTick, EndOtherwise, ParentInv
<1>3. OpenInv'
  BY DEF WatchMaster, WatchOpen, WatchRead, WatchTick, EndOtherwise,
         HoldsFile, ParentInv, OpenInv
<1> QED
  BY <1>1, <1>2, <1>3

\* Every step preserves the invariant.
LEMMA InvStep == TypeOK /\ FileInv /\ [Next]_vars => FileInv'
<1> SUFFICES ASSUME TypeOK, FileInv, [Next]_vars
             PROVE  FileInv'
  OBVIOUS
<1>1. CASE CleanUp
  BY <1>1 DEF CleanUp, TypeOK, FileInv, Holds, HoldsFile, OwnFile, ParentInv,
              OpenInv, CleanStop, workerVars
<1>2. CASE UNCHANGED vars
  BY <1>2 DEF vars, FileInv, Holds, HoldsFile, OwnFile, ParentInv, OpenInv, CleanStop
<1> QED
  BY <1>1, <1>2, MasterKeepsInv, WorkerKeepsInv DEF Next

\* The variables of WoxPid have their types in every reachable state.
THEOREM TypeOKHolds == Spec => []TypeOK
BY TypeInit, TypeStep, PTL DEF Spec

LEMMA FileInvHolds == Spec => []FileInv
BY TypeOKHolds, InvInit, InvStep, PTL DEF Spec

\* The invariant of the pid file holds in every reachable state.
THEOREM InvHolds == Spec => []IInv
BY TypeOKHolds, FileInvHolds, PTL DEF IInv

\* O_EXCL keeps two masters from running under one path.
THEOREM OneMasterHolds == Spec => []OneMaster
<1>1. FileInv => OneMaster
  BY DEF FileInv, HoldsFile, OneMaster
<1> QED
  BY <1>1, FileInvHolds, PTL

\* Unless a master was killed, a file at the path is a running master's.
THEOREM CleanStopHolds == Spec => []CleanStop
<1>1. FileInv => CleanStop
  BY DEF FileInv
<1> QED
  BY <1>1, FileInvHolds, PTL

\* watchMaster ends no worker whose master holds its file.
THEOREM NoFratricideHolds == Spec => NoFratricide
<1> DEFINE Step == \A w \in Worker :
             ws[w] # "orphan" /\ ws'[w] = "orphan" => ~Holds(parent[w])
<1>1. TypeOK /\ FileInv /\ [Next]_vars => [Step]_vars
  <2> SUFFICES ASSUME TypeOK, FileInv, Next,
                      NEW w \in Worker, ws[w] # "orphan", ws'[w] = "orphan",
                      Holds(parent[w])
               PROVE  FALSE
    OBVIOUS
  <2> USE DEF TypeOK, workerVars, masterVars
  <2>1. WatchMaster(w)
    BY DEF Next, MasterNext, Start, SaveCreate, SaveFails, SaveWrite, Stop, Remove,
           Exit, Killed, ForkWorker, CleanUp, Move, WatchMaster, WatchOpen, WatchRead,
           WatchTick, EndOtherwise
  <2>2. parent[w] \in Master /\ mst[parent[w]] \in {"up", "stopping"}
    BY <2>1 DEF FileInv, ParentInv, Holds, WatchMaster, WatchOpen, WatchRead, WatchTick
  <2>3. file = parent[w] /\ parent[w] \in written
    BY <2>2 DEF FileInv, OwnFile
  <2>4. CASE WatchOpen(w)
    BY <2>4, <2>2, <2>3, PidFileAssumption DEF WatchOpen
  <2>5. CASE WatchRead(w)
    BY <2>5, <2>3 DEF WatchRead, FileInv, OpenInv
  <2>6. CASE WatchTick(w)
    BY <2>6, <2>2 DEF WatchTick, Getppid, Exists, FileInv, OpenInv
  <2> QED
    BY <2>1, <2>4, <2>5, <2>6 DEF WatchMaster
<1> QED
  BY <1>1, TypeOKHolds, FileInvHolds, PTL DEF Spec, NoFratricide
=============================================================================

-------------------------- MODULE WoxServingProofs --------------------------
(***************************************************************************)
(* Proofs about WoxServing: a worker that ends by itself has answered its  *)
(* requests, its goroutines make up the worker of WoxWorker, the master's  *)
(* reader keeps up, and no request is reported twice.                      *)
(***************************************************************************)
EXTENDS WoxServing, WoxSumProofs

\* The reader of the quit message is past Close only when Close is done.
ReaderInv ==
  /\ reader # "read" => quitMsg = "read"
  /\ reader = "done" => shut = "done"
  /\ run = "ended" => reader = "done"

\* Shutdown that was in time leaves no connection and no request behind, and
\* none can come.
ShutInv ==
  shut = "done" /\ ~Http2 /\ ~timedOut => conns = 0 /\ inflight = 0

\* The connections are counted.
ConnInv == conns \in Nat /\ inflight \in Nat

ServingInv == ReaderInv /\ ShutInv /\ ConnInv

\* The invariant holds when the worker is forked.
LEMMA ServingInit == Init => ServingInv
BY DEF Init, HTTPInit, ServingInv, ReaderInv, ShutInv, ConnInv

\* Every step of the worker, its clients and its master preserves it.
LEMMA ServingStep == ServingInv /\ [Next]_vars => ServingInv'
<1> SUFFICES ASSUME ServingInv, [Next]_vars
             PROVE  ServingInv'
  OBVIOUS
<1> USE DEF ServingInv, ReaderInv, ShutInv, ConnInv, httpVars, connVars,
            statsVars, goVars, msgVars, masterVars, Rest
<1>1. CASE RunStep
  BY <1>1 DEF RunStep, StartGoroutines, NotifyMaster, End
<1>2. CASE WatchMaster
  BY <1>2 DEF WatchMaster
<1>3. CASE ReaderStep
  <2>1. CASE ReadQuit
    BY <2>1 DEF ReadQuit
  <2>2. CASE ReaderCloses
    BY <2>2 DEF ReaderCloses, Close
  <2>3. CASE ReaderDone
    BY <2>3 DEF ReaderDone
  <2> QED
    BY <1>3, <2>1, <2>2, <2>3 DEF ReaderStep
<1>4. CASE TakeStats \/ WriteStats \/ WatcherExits
  BY <1>4 DEF TakeStats, WriteStats, WatcherExits
<1>5. CASE ServeStep
  BY <1>5 DEF ServeStep, Serve, ServeReturns
<1>6. CASE QPSStep
  BY <1>6 DEF QPSStep, CalcQPS, Marshal, SendStats, Reset
<1>7. CASE CloseStep
  <2>1. ShutdownReturns /\ UNCHANGED Rest
    BY <1>7 DEF CloseStep
  <2>2. ~timedOut' => ~(inflight > 0)
    BY <2>1, Zenon DEF ShutdownReturns
  <2>3. conns' = 0 /\ inflight' = inflight /\ shut' = "done"
    BY <2>1 DEF ShutdownReturns
  <2>4. ReaderInv'
    BY <2>1 DEF ShutdownReturns
  <2>5. ConnInv'
    BY <2>3
  <2>6. ShutInv'
    <3>1. CASE timedOut'
      BY <3>1
    <3>2. CASE ~timedOut'
      BY <3>2, <2>2, <2>3
    <3> QED
      BY <3>1, <3>2
  <2> QED
    BY <2>4, <2>5, <2>6
<1>8. CASE (Accept \/ HandlerStart \/ HandlerEnd) /\ UNCHANGED Rest
  BY <1>8 DEF Accept, HandlerStart, HandlerEnd
<1>9. CASE MasterStep
  BY <1>9 DEF MasterStep, MasterReads, MasterReadsEOF, WaitWorker, DeleteDead
<1>10. CASE SendQuit \/ MasterDies
  BY <1>10 DEF SendQuit, MasterDies
<1>11. CASE UNCHANGED vars
  BY <1>11 DEF vars
<1> QED
  BY <1>1, <1>2, <1>3, <1>4, <1>5, <1>6, <1>7, <1>8, <1>9, <1>10, <1>11 DEF Next

\* A worker that ends because it was told to has answered every request it
\* had begun, if Shutdown was in time: for any number of connections, requests
\* and statistics, and any sizes of messages and buffers.
THEOREM DrainedHolds == Spec => []Drained
<1>1. ServingInv => Drained
  BY DEF ServingInv, ReaderInv, ShutInv, Drained
<1> QED
  BY <1>1, ServingInit, ServingStep, PTL DEF Spec

\* The goroutines of a worker make up the worker of WoxWorker.
THEOREM GoroutinesImplementWorker == Spec => ImplementsWorker
<1>1. ServingInv /\ [Next]_vars =>
        [Worker!WorkerStep(1) \/ MasterMove]_<<run, quitMsg, TakeoverStatus>>
  <2> SUFFICES ASSUME ServingInv, [Next]_vars,
                      <<run, quitMsg, TakeoverStatus>>' # <<run, quitMsg, TakeoverStatus>>
               PROVE  Worker!WorkerStep(1) \/ MasterMove
    OBVIOUS
  <2> USE DEF httpVars, connVars, statsVars, goVars, msgVars, masterVars, Rest,
              WorkerStatus, TakeoverStatus
  <2>1. CASE StartGoroutines
    BY <2>1 DEF StartGoroutines, Worker!WorkerStep, Worker!StartGoroutines
  <2>2. CASE NotifyMaster
    BY <2>2 DEF NotifyMaster, Worker!WorkerStep, Worker!NotifyMaster
  <2>3. CASE End
    BY <2>3 DEF End, ServingInv, ReaderInv, Worker!WorkerStep, Worker!End
  <2>4. CASE WatchMaster
    BY <2>4 DEF WatchMaster, Up, Worker!WorkerStep, Worker!WatchMaster, Worker!Serving
  <2>5. CASE ReadQuit
    BY <2>5 DEF ReadQuit, Up, Worker!WorkerStep, Worker!ReadQuit, Worker!Serving
  <2>6. CASE ReaderCloses \/ ReaderDone
    BY <2>6 DEF ReaderCloses, ReaderDone
  <2>7. CASE TakeStats \/ WriteStats \/ WatcherExits
    BY <2>7 DEF TakeStats, WriteStats, WatcherExits
  <2>8. CASE ServeStep \/ QPSStep \/ CloseStep
    BY <2>8 DEF ServeStep, QPSStep, CloseStep
  <2>9. CASE (Accept \/ HandlerStart \/ HandlerEnd) /\ UNCHANGED Rest
    BY <2>9
  <2>10. CASE MasterStep
    BY <2>10 DEF MasterStep, MasterReads, MasterReadsEOF, WaitWorker, DeleteDead, MasterMove
  <2>11. CASE SendQuit \/ MasterDies
    BY <2>11 DEF SendQuit, MasterDies, MasterMove
  <2>12. CASE UNCHANGED vars
    BY <2>12 DEF vars
  <2> QED
    BY <2>1, <2>2, <2>3, <2>4, <2>5, <2>6, <2>7, <2>8, <2>9, <2>10, <2>11, <2>12
       DEF Next, RunStep, ReaderStep
<1> QED
  BY <1>1, ServingInit, ServingStep, PTL DEF Spec, ImplementsWorker

-----------------------------------------------------------------------------
(***************************************************************************)
(* The stream, when the socket holds no more than one read takes.          *)
(***************************************************************************)
Message == [typ : {"stats", "takeover"}, val : Nat]
Unit    == [msg : Message, part : Nat \ {0}]

\* What is counted is a number.
CountInv ==
  /\ data \in Nat /\ out \in Nat /\ taken \in Nat
  /\ statsCh \in Seq(Nat)

\* The stream fits the socket and begins with a whole message.
WholeInv ==
  /\ stream \in Seq(Unit)
  /\ Len(stream) <= SockCap
  /\ stream # <<>> =>
       stream[1].part = 1 /\ Len(stream) >= Size(stream[1].msg)

\* A reader that stops was the reader of a worker that has ended.
StopInv == mreader = "stopped" => ~Live

LinkInv == CountInv /\ WholeInv /\ StopInv

\* The units of a message form a sequence that begins with its first part.
LEMMA UnitsType ==
  ASSUME NEW m \in Message
  PROVE  /\ Units(m) \in Seq(Unit)
         /\ Len(Units(m)) = Size(m) /\ Size(m) \in Nat \ {0}
         /\ Units(m)[1].part = 1 /\ Units(m)[1].msg = m
<1>1. Size(m) \in Nat \ {0}
  BY LinkAssumption DEF Size
<1>2. \A i \in 1..Size(m) : [msg |-> m, part |-> i] \in Unit
  BY <1>1 DEF Unit
<1>3. Units(m) \in [1..Size(m) -> Unit]
  BY <1>2 DEF Units
<1>4. Units(m) \in Seq(Unit) /\ Len(Units(m)) = Size(m)
  BY <1>1, <1>3
<1>5. Units(m)[1] = [msg |-> m, part |-> 1]
  BY <1>1 DEF Units
<1> QED
  BY <1>1, <1>4, <1>5

\* A write keeps a whole message at the head of the stream.
LEMMA WriteWhole ==
  ASSUME NEW m \in Message, WholeInv, WriteMsg(m)
  PROVE  WholeInv'
<1>1. /\ Units(m) \in Seq(Unit) /\ Len(Units(m)) = Size(m) /\ Size(m) \in Nat \ {0}
      /\ Units(m)[1].part = 1 /\ Units(m)[1].msg = m
  BY UnitsType
<1>2. stream \in Seq(Unit) /\ stream' = stream \o Units(m)
  BY DEF WholeInv, WriteMsg
<1>3. /\ stream' \in Seq(Unit)
      /\ Len(stream') = Len(stream) + Size(m)
  BY <1>1, <1>2, ConcatProperties
<1>4. Len(stream') <= SockCap
  BY <1>3 DEF WriteMsg, HasRoom
<1>5. CASE stream = <<>>
  <2>1. stream'[1] = Units(m)[1] /\ Len(stream') = Size(m)
    BY <1>1, <1>2, <1>3, <1>5
  <2> QED
    BY <1>1, <1>3, <1>4, <2>1 DEF WholeInv, Size
<1>6. CASE stream # <<>>
  <2>1. stream'[1] = stream[1]
    BY <1>1, <1>2, <1>6
  <2>2. stream[1].part = 1 /\ Len(stream) >= Size(stream[1].msg)
    BY <1>6 DEF WholeInv
  <2>3. Size(stream[1].msg) \in Nat
    BY LinkAssumption DEF Size
  <2>4. Len(stream') >= Size(stream'[1].msg)
    BY <1>1, <1>2, <1>3, <2>1, <2>2, <2>3
  <2> QED
    BY <1>3, <1>4, <2>1, <2>2, <2>4 DEF WholeInv, Size
<1> QED
  BY <1>5, <1>6

\* A read takes the whole stream and can decode its first message.
LEMMA ReadWhole ==
  ASSUME WholeInv, Len(stream) <= BufSize, stream # <<>>
  PROVE  /\ Received = stream /\ Decodes
         /\ Consume => stream' = <<>>
<1>1. stream \in Seq(Unit) /\ Len(stream) <= BufSize /\ BufSize \in Nat /\ SockCap \in Nat
  BY LinkAssumption DEF WholeInv
<1>2. Received = SubSeq(stream, 1, Len(stream))
  BY <1>1 DEF Received
<1>3. Received = stream
  BY <1>1, <1>2
<1>4. Decodes
  BY <1>3 DEF Decodes, WholeInv
<1>5. Consume => stream' = <<>>
  BY <1>1, <1>3 DEF Consume
<1> QED
  BY <1>3, <1>4, <1>5

\* It holds when the worker is forked.
LEMMA LinkInit == Init => LinkInv
BY LinkAssumption DEF Init, HTTPInit, LinkInv, CountInv, WholeInv, StopInv, Size

\* Every step of the worker, its clients and its master preserves it.
LEMMA LinkStep == LinkInv /\ Len(stream) <= BufSize /\ [Next]_vars => LinkInv'
<1> SUFFICES ASSUME LinkInv, Len(stream) <= BufSize, [Next]_vars
             PROVE  LinkInv'
  OBVIOUS
<1> DEFINE Same == UNCHANGED <<data, out, taken, statsCh, stream, run, mreader>>
<1>1. CASE Same
  BY <1>1 DEF LinkInv, CountInv, WholeInv, StopInv, Live, Size
<1>2. CASE StartGoroutines
  BY <1>2 DEF StartGoroutines, LinkInv, CountInv, WholeInv, StopInv, Live, Size,
       httpVars, statsVars, masterVars
<1>3. CASE NotifyMaster
  <2>1. CountInv'
    BY <1>3 DEF NotifyMaster, LinkInv, CountInv, httpVars, statsVars
  <2>2. WholeInv /\ StopInv
    BY DEF LinkInv
  <2>3. Takeover \in Message
    BY DEF Takeover, Message
  <2>4. WriteMsg(Takeover) \/ stream' = stream
    BY <1>3 DEF NotifyMaster
  <2>5. WholeInv'
    BY <2>2, <2>3, <2>4, WriteWhole DEF WholeInv, Size
  <2>6. StopInv'
    BY <1>3, <2>2 DEF NotifyMaster, StopInv, Live, masterVars
  <2> QED
    BY <2>1, <2>5, <2>6 DEF LinkInv
<1>4. CASE End \/ WatchMaster
  BY <1>4 DEF End, WatchMaster, LinkInv, CountInv, WholeInv, StopInv, Live, Size,
       httpVars, statsVars, masterVars
<1>5. CASE ReaderStep
  BY <1>1, <1>5 DEF ReaderStep, ReadQuit, ReaderCloses, ReaderDone, Close,
       httpVars, statsVars, masterVars
<1>6. CASE TakeStats
  <2>1. statsCh \in Seq(Nat) /\ statsCh # <<>> /\ taken' = Head(statsCh) /\ statsCh' = Tail(statsCh)
    BY <1>6 DEF TakeStats, LinkInv, CountInv
  <2>2. taken' \in Nat /\ statsCh' \in Seq(Nat)
    BY <2>1
  <2>3. UNCHANGED <<data, out, stream, run, mreader>>
    BY <1>6 DEF TakeStats, masterVars
  <2> QED
    BY <2>2, <2>3 DEF LinkInv, CountInv, WholeInv, StopInv, Live, Size
<1>7. CASE WriteStats
  <2>1. CountInv'
    BY <1>7 DEF WriteStats, LinkInv, CountInv, httpVars, statsVars
  <2>2. WholeInv /\ StopInv
    BY DEF LinkInv
  <2>3. Stats(taken) \in Message
    BY DEF Stats, Message, LinkInv, CountInv
  <2>4. WriteMsg(Stats(taken)) \/ stream' = stream
    BY <1>7 DEF WriteStats
  <2>5. WholeInv'
    BY <2>2, <2>3, <2>4, WriteWhole DEF WholeInv, Size
  <2>6. StopInv'
    BY <1>7, <2>2 DEF WriteStats, StopInv, Live, masterVars
  <2> QED
    BY <2>1, <2>5, <2>6 DEF LinkInv
<1>8. CASE WatcherExits
  BY <1>1, <1>8 DEF WatcherExits, httpVars, statsVars, masterVars
<1>9. CASE ServeStep \/ CloseStep
  BY <1>1, <1>9 DEF ServeStep, CloseStep, Serve, ServeReturns, ShutdownReturns, Rest,
       statsVars, goVars, masterVars
<1>10. CASE QPSStep
  <2>1. UNCHANGED <<stream, run, mreader, taken>>
    BY <1>10 DEF QPSStep, Rest, goVars, masterVars
  <2>2. CASE Marshal \/ Reset
    BY <2>1, <2>2 DEF Marshal, Reset, LinkInv, CountInv, WholeInv, StopInv, Live, Size
  <2>3. CASE SendStats
    <3>1. statsCh \in Seq(Nat) /\ out \in Nat /\ statsCh' = Append(statsCh, out)
      BY <2>3 DEF SendStats, LinkInv, CountInv
    <3>2. statsCh' \in Seq(Nat)
      BY <3>1
    <3>3. out' = 0 /\ data' = data
      BY <2>3 DEF SendStats
    <3> QED
      BY <2>1, <3>2, <3>3 DEF LinkInv, CountInv, WholeInv, StopInv, Live, Size
  <2> QED
    BY <1>10, <2>2, <2>3 DEF QPSStep, CalcQPS
<1>11. CASE (Accept \/ HandlerStart \/ HandlerEnd) /\ UNCHANGED Rest
  <2>1. UNCHANGED <<stream, run, mreader, taken>>
    BY <1>11 DEF Rest, goVars, masterVars
  <2>2. out' = out /\ statsCh' = statsCh /\ (data' = data \/ data' = data + 1)
    BY <1>11 DEF Accept, HandlerStart, HandlerEnd, statsVars
  <2> QED
    BY <2>1, <2>2 DEF LinkInv, CountInv, WholeInv, StopInv, Live, Size
<1>12. CASE MasterReads
  <2>1. CountInv'
    BY <1>12 DEF MasterReads, LinkInv, CountInv, httpVars, statsVars, goVars
  <2>2. WholeInv /\ StopInv
    BY DEF LinkInv
  <2>3. Decodes /\ stream' = <<>>
    BY <1>12, <2>2, ReadWhole DEF MasterReads
  <2>4. WholeInv'
    BY <2>3, LinkAssumption DEF WholeInv
  <2>5. mreader' = mreader /\ run' = run
    BY <1>12, <2>3 DEF MasterReads, goVars
  <2> QED
    BY <2>1, <2>2, <2>4, <2>5 DEF LinkInv, StopInv, Live
<1>13. CASE MasterReadsEOF
  BY <1>13 DEF MasterReadsEOF, LinkInv, CountInv, WholeInv, StopInv, Live, Size,
       httpVars, statsVars, goVars
<1>14. CASE WaitWorker \/ DeleteDead \/ SendQuit \/ MasterDies
  BY <1>1, <1>14 DEF WaitWorker, DeleteDead, SendQuit, MasterDies,
       httpVars, statsVars, goVars, masterVars
<1>15. CASE UNCHANGED vars
  BY <1>1, <1>15 DEF vars, httpVars, statsVars, goVars, masterVars
<1> QED
  BY <1>2, <1>3, <1>4, <1>5, <1>6, <1>7, <1>8, <1>9, <1>10, <1>11, <1>12, <1>13,
     <1>14, <1>15 DEF Next, RunStep, MasterStep

\* The master's reader of a worker only ends with the worker, as long as no
\* more gathers in the socket than one read takes: for any sizes of the
\* messages, the buffer and the socket.
THEOREM ReaderInSyncHolds == Spec => ReaderInSync
<1>1. LinkInv => (mreader = "stopped" => ~Live)
  BY DEF LinkInv, StopInv
<1> QED
  BY <1>1, LinkInit, LinkStep, PTL DEF Spec, ReaderInSync

-----------------------------------------------------------------------------
(***************************************************************************)
(* What is reported.  Until calcQPS resets the counter, what it has passed *)
(* on and the counter together are no more than the requests; after it has *)
(* passed the counter on, the counter no longer counts.                    *)
(***************************************************************************)
\* What calcQPS has passed on, wherever it is by now.
Passed ==
  reported + SumOf(statsCh) + SumOf(Vals(stream)) + (IF watcher = "write" THEN taken ELSE 0)

PassedInv ==
  /\ data <= count
  /\ qps = "reset" => Passed <= count
  /\ qps # "reset" => Passed + data <= count
  /\ qps = "send" => out <= data

\* The types, in the two parts that the steps change.
ServerInv == HTTPTypeOK /\ conns + inflight <= MaxConns

GoInv ==
  /\ run \in {"boot", "started", "wait", "ended", "killed"}
  /\ reader \in {"read", "close", "closing", "done"}
  /\ exitCh \in BOOLEAN
  /\ watcher \in {"select", "write", "done"}
  /\ taken \in 0..MaxRequests
  /\ quitMsg \in {"none", "sent", "read"}
  /\ takeover \in {"none", "sent", "read", "lost"}
  /\ masterUp \in BOOLEAN
  /\ mreader \in {"read", "stopped"}
  /\ entry \in {"alive", "dead", "deleted"}
  /\ reported \in 0..MaxRequests
  /\ stream \in Seq(Unit) /\ Len(stream) <= SockCap

TypeInv == ServerInv /\ GoInv

\* The values of a stream are a sequence of numbers.
LEMMA ValsType ==
  ASSUME NEW s \in Seq(Unit)
  PROVE  /\ Vals(s) \in Seq(Nat) /\ Len(Vals(s)) = Len(s) /\ DOMAIN Vals(s) = 1..Len(s)
         /\ SumOf(Vals(s)) \in Nat
<1>1. ASSUME NEW i \in 1..Len(s)
      PROVE  s[i].part \in Nat /\ s[i].msg.val \in Nat
  <2>1. s[i] \in Unit
    OBVIOUS
  <2> QED
    BY <2>1 DEF Unit, Message
<1>2. Vals(s) \in [1..Len(s) -> Nat] /\ Len(s) \in Nat
  BY <1>1 DEF Vals
<1>3. Vals(s) \in Seq(Nat) /\ Len(Vals(s)) = Len(s)
  BY <1>2
<1> QED
  BY <1>2, <1>3, SumSeqType

\* The value of a stream is that of its parts.
LEMMA ValsConcat ==
  ASSUME NEW s \in Seq(Unit), NEW t \in Seq(Unit)
  PROVE  SumOf(Vals(s \o t)) = SumOf(Vals(s)) + SumOf(Vals(t))
<1>1. s \o t \in Seq(Unit) /\ Len(s \o t) = Len(s) + Len(t) /\ Len(s) \in Nat /\ Len(t) \in Nat
  BY ConcatProperties
<1>2. Vals(s \o t) \in Seq(Nat) /\ Vals(s) \in Seq(Nat) /\ Vals(t) \in Seq(Nat)
  BY <1>1, ValsType
<1>3. /\ Len(Vals(s \o t)) = Len(s) + Len(t)
      /\ Len(Vals(s)) = Len(s) /\ Len(Vals(t)) = Len(t)
  BY <1>1, ValsType
<1>4. Vals(s) \o Vals(t) \in Seq(Nat) /\ Len(Vals(s) \o Vals(t)) = Len(s) + Len(t)
  <2> DEFINE v == Vals(s)
             w == Vals(t)
  <2>1. v \in Seq(Nat) /\ w \in Seq(Nat) /\ Len(v) = Len(s) /\ Len(w) = Len(t)
    BY <1>2, <1>3
  <2> HIDE DEF v, w
  <2>2. v \o w \in Seq(Nat) /\ Len(v \o w) = Len(v) + Len(w)
    BY <2>1, ConcatNumbers
  <2> QED
    BY <2>1, <2>2 DEF v, w
<1>5. ASSUME NEW i \in 1..(Len(s) + Len(t))
      PROVE  Vals(s \o t)[i] = (Vals(s) \o Vals(t))[i]
  <2>1. (s \o t)[i] = IF i <= Len(s) THEN s[i] ELSE t[i - Len(s)]
    BY ConcatProperties
  <2>2. (Vals(s) \o Vals(t))[i] = IF i <= Len(s) THEN Vals(s)[i] ELSE Vals(t)[i - Len(s)]
    <3> DEFINE v == Vals(s)
               w == Vals(t)
    <3>1. v \in Seq(Nat) /\ w \in Seq(Nat) /\ Len(v) = Len(s) /\ Len(w) = Len(t)
      BY <1>2, <1>3
    <3> HIDE DEF v, w
    <3>2. (v \o w)[i] = IF i <= Len(v) THEN v[i] ELSE w[i - Len(v)]
      BY <3>1, ConcatProperties
    <3> QED
      BY <3>1, <3>2 DEF v, w
  <2>3. i \in DOMAIN (s \o t) /\ Vals(s \o t)[i] = IF (s \o t)[i].part = 1 THEN (s \o t)[i].msg.val ELSE 0
    BY <1>1 DEF Vals
  <2>4. CASE i <= Len(s)
    <3>1. i \in DOMAIN s
      BY <2>4
    <3>2. Vals(s)[i] = IF s[i].part = 1 THEN s[i].msg.val ELSE 0
      BY <3>1 DEF Vals
    <3> QED
      BY <2>1, <2>2, <2>3, <2>4, <3>2
  <2>5. CASE ~(i <= Len(s))
    <3>1. i - Len(s) \in DOMAIN t
      BY <1>1, <2>5
    <3>2. Vals(t)[i - Len(s)] = IF t[i - Len(s)].part = 1 THEN t[i - Len(s)].msg.val ELSE 0
      BY <3>1 DEF Vals
    <3> QED
      BY <2>1, <2>2, <2>3, <2>5, <3>2
  <2> QED
    BY <2>4, <2>5
<1>6. Vals(s \o t) = Vals(s) \o Vals(t)
  <2> DEFINE p == Vals(s \o t)
             q == Vals(s) \o Vals(t)
  <2>1. p \in Seq(Nat) /\ q \in Seq(Nat) /\ Len(p) = Len(q) /\ \A i \in 1..Len(p) : p[i] = q[i]
    BY <1>2, <1>3, <1>4, <1>5
  <2> HIDE DEF p, q
  <2>2. p = q
    BY <2>1, SeqEqual
  <2> QED
    BY <2>2 DEF p, q
<1> QED
  BY <1>2, <1>6, SumConcat

\* A message brings its value into the stream once.
LEMMA UnitsSum ==
  ASSUME NEW m \in Message
  PROVE  SumOf(Vals(Units(m))) = m.val
<1> DEFINE u == Units(m)
           v == Vals(u)
<1>1. /\ u \in Seq(Unit) /\ Len(u) = Size(m) /\ Size(m) \in Nat \ {0}
      /\ \A i \in 1..Size(m) : u[i].part = i /\ u[i].msg = m
  BY UnitsType DEF Units
<1>2. v \in Seq(Nat) /\ DOMAIN v = 1..Size(m)
  BY <1>1, ValsType
<1>3. v[1] = m.val /\ \A i \in (1..Size(m)) \ {1} : v[i] = 0
  <2>1. DOMAIN u = 1..Size(m) /\ 1 \in 1..Size(m)
    BY <1>1
  <2>2. ASSUME NEW i \in 1..Size(m)
        PROVE  v[i] = IF i = 1 THEN m.val ELSE 0
    <3>1. v[i] = IF u[i].part = 1 THEN u[i].msg.val ELSE 0
      <4> HIDE DEF u
      <4> QED
        BY <2>1 DEF Vals
    <3>2. u[i].part = i /\ u[i].msg = m
      BY <1>1
    <3> HIDE DEF u, v
    <3> QED
      BY <3>1, <3>2
  <2> QED
    BY <2>1, <2>2
<1>4. m.val \in Nat
  BY DEF Message
<1> HIDE DEF u, v
<1> DEFINE I == 1..Size(m)
<1>5. IsFiniteSet(I) /\ 1 \in I
  <2>1. 1 \in Int /\ Size(m) \in Int
    BY <1>1
  <2>2. IsFiniteSet(1..Size(m))
    BY <2>1, FS_Interval
  <2> QED
    BY <1>1, <2>2
<1>6. \A i \in I : v[i] \in Nat
  BY <1>3, <1>4
<1>7. \A i \in I \ {1} : v[i] = 0
  BY <1>3
<1> HIDE DEF I
<1>8. SumOn(v, I) = v[1] + SumOn(v, I \ {1})
  BY <1>5, <1>6, SumRemove
<1>9. IsFiniteSet(I \ {1})
  BY <1>5, FS_Subset
<1>10. SumOn(v, I \ {1}) = 0
  BY <1>7, <1>9, SumZero
<1>11. SumOf(v) = m.val
  BY <1>2, <1>3, <1>4, <1>8, <1>10 DEF SumOf, I
<1> QED
  BY <1>11 DEF u, v

\* A sequence of numbers adds up to no less than its first.
LEMMA SumFirst ==
  ASSUME NEW s \in Seq(Nat), s # << >>
  PROVE  s[1] \in Nat /\ SumOf(s) >= s[1]
<1>1. 1 \in 1..Len(s) /\ DOMAIN s = 1..Len(s) /\ \A i \in 1..Len(s) : s[i] \in Nat
  OBVIOUS
<1>2. IsFiniteSet(1..Len(s)) /\ IsFiniteSet((1..Len(s)) \ {1})
  BY FS_Interval, FS_Subset
<1>3. SumOn(s, 1..Len(s)) = s[1] + SumOn(s, (1..Len(s)) \ {1})
  BY <1>1, <1>2, SumRemove
<1>4. SumOn(s, (1..Len(s)) \ {1}) \in Nat
  BY <1>1, <1>2, SumType
<1> QED
  BY <1>1, <1>3, <1>4 DEF SumOf

\* A read takes the value of the first unit out of the stream, if not more.
LEMMA ConsumeSum ==
  ASSUME stream \in Seq(Unit), stream # << >>, Consume
  PROVE  /\ stream' \in Seq(Unit) /\ Len(stream') <= Len(stream)
         /\ Received[1] = stream[1]
         /\ Vals(stream)[1] \in Nat
         /\ SumOf(Vals(stream')) + Vals(stream)[1] <= SumOf(Vals(stream))
<1> DEFINE k == IF Len(stream) < BufSize THEN Len(stream) ELSE BufSize
           a == SubSeq(stream, 1, k)
           b == SubSeq(stream, k + 1, Len(stream))
<1>1. k \in 1..Len(stream)
  BY LinkAssumption
<1>2. a \in Seq(Unit) /\ Len(a) = k /\ a[1] = stream[1]
  BY <1>1
<1>3. Received = a
  BY DEF Received
<1>4. b \in Seq(Unit) /\ Len(b) = Len(stream) - k
  BY <1>1
<1>5. stream' = b
  BY <1>2, <1>3 DEF Consume
<1>6. stream = a \o b
  <2>1. SubSeq(stream, 1, Len(stream)) = stream
    BY SubSeqFull
  <2>2. a \o b = SubSeq(stream, 1, Len(stream))
    <3> HIDE DEF k
    <3> QED
      BY <1>1, ConcatAdjacentSubSeq
  <2> QED
    BY <2>1, <2>2
<1> HIDE DEF k, a, b
<1>7. SumOf(Vals(stream)) = SumOf(Vals(a)) + SumOf(Vals(b))
  BY <1>2, <1>4, <1>6, ValsConcat
<1>8. Vals(a) \in Seq(Nat) /\ Vals(a) # << >> /\ Vals(a)[1] = Vals(stream)[1]
  <2>1. Vals(a) \in Seq(Nat) /\ Len(Vals(a)) = k /\ k \in Nat \ {0}
    BY <1>1, <1>2, ValsType
  <2>2. 1 \in DOMAIN a /\ 1 \in DOMAIN stream
    BY <1>1, <1>2
  <2>3. Vals(a)[1] = Vals(stream)[1]
    BY <1>2, <2>2 DEF Vals
  <2> QED
    BY <2>1, <2>3
<1>9. Vals(a)[1] \in Nat /\ SumOf(Vals(a)) >= Vals(a)[1]
  BY <1>8, SumFirst
<1>10. SumOf(Vals(a)) \in Nat /\ SumOf(Vals(b)) \in Nat
  BY <1>2, <1>4, ValsType
<1>11. Len(stream') <= Len(stream) /\ stream' \in Seq(Unit)
  BY <1>1, <1>4, <1>5
<1> QED
  BY <1>2, <1>3, <1>5, <1>7, <1>8, <1>9, <1>10, <1>11

\* The counters and the sums are numbers.
LEMMA PassedType ==
  ASSUME TypeInv
  PROVE  /\ statsCh \in Seq(Nat) /\ SumOf(statsCh) \in Nat /\ SumOf(Vals(stream)) \in Nat
         /\ reported \in Nat /\ taken \in Nat /\ out \in Nat /\ data \in Nat /\ count \in Nat
         /\ Passed \in Nat
<1>1. statsCh \in Seq(0..MaxRequests) /\ 0..MaxRequests \subseteq Nat
  BY HTTPAssumption DEF TypeInv, ServerInv, HTTPTypeOK
<1>2. statsCh \in Seq(Nat)
  BY <1>1, SeqMonotonic
<1>3. SumOf(statsCh) \in Nat
  BY <1>2, SumSeqType
<1>4. SumOf(Vals(stream)) \in Nat
  BY ValsType DEF TypeInv, GoInv
<1>5. reported \in Nat /\ taken \in Nat
  BY <1>1 DEF TypeInv, GoInv
<1>6. out \in Nat /\ data \in Nat /\ count \in Nat
  BY <1>1 DEF TypeInv, ServerInv, HTTPTypeOK
<1>7. Passed \in Nat
  BY <1>3, <1>4, <1>5 DEF Passed
<1> QED
  BY <1>2, <1>3, <1>4, <1>5, <1>6, <1>7

\* It holds when the worker is forked.
LEMMA ReportInit == Init => TypeInv /\ PassedInv
<1> SUFFICES ASSUME Init
             PROVE  TypeInv /\ PassedInv
  OBVIOUS
<1>1. statsCh = << >> /\ stream = << >> /\ stream \in Seq(Unit)
  BY DEF Init, HTTPInit
<1>2. statsCh \in Seq(Nat) /\ statsCh \in Seq(0..MaxRequests) /\ Len(statsCh) = 0
  BY <1>1
<1>3. ServerInv
  <2>1. {count, data, out} \subseteq 0..MaxRequests
    BY HTTPAssumption DEF Init, HTTPInit
  <2>2. Len(statsCh) <= ChanCap
    BY <1>2, HTTPAssumption
  <2>3. conns \in 0..MaxConns /\ inflight \in 0..MaxConns /\ conns + inflight <= MaxConns
    BY HTTPAssumption DEF Init, HTTPInit
  <2> QED
    BY <1>2, <2>1, <2>2, <2>3 DEF Init, HTTPInit, ServerInv, HTTPTypeOK
<1>4. GoInv
  <2>1. Len(stream) = 0
    BY <1>1
  <2>2. Len(stream) <= SockCap
    BY <2>1, LinkAssumption
  <2>3. taken \in 0..MaxRequests /\ reported \in 0..MaxRequests
    BY HTTPAssumption DEF Init
  <2> QED
    BY <1>1, <2>2, <2>3 DEF Init, GoInv
<1>5. SumOf(Vals(stream)) = 0
  <2>1. Vals(stream) \in Seq(Nat) /\ Len(Vals(stream)) = 0
    BY <1>1, ValsType
  <2>2. Vals(stream) = << >>
    BY <2>1
  <2> QED
    BY <2>1, <2>2, SumSeqType
<1>6. SumOf(statsCh) = 0
  BY <1>1, <1>2, SumSeqType
<1> QED
  BY <1>3, <1>4, <1>5, <1>6 DEF Init, HTTPInit, PassedInv, Passed, TypeInv

\* A message that is written adds its value to the stream.
LEMMA WriteSum ==
  ASSUME stream \in Seq(Unit), NEW m \in Message, WriteMsg(m)
  PROVE  /\ stream' \in Seq(Unit) /\ Len(stream') <= SockCap
         /\ SumOf(Vals(stream')) = SumOf(Vals(stream)) + m.val
<1>1. Units(m) \in Seq(Unit) /\ Len(Units(m)) = Size(m)
  BY UnitsType
<1>2. stream' = stream \o Units(m) /\ Len(stream) + Size(m) <= SockCap
  BY DEF WriteMsg, HasRoom
<1>3. stream \o Units(m) \in Seq(Unit) /\ Len(stream \o Units(m)) = Len(stream) + Len(Units(m))
  BY <1>1, ConcatProperties
<1>4. SumOf(Vals(stream \o Units(m))) = SumOf(Vals(stream)) + SumOf(Vals(Units(m)))
  BY <1>1, ValsConcat
<1> QED
  BY <1>1, <1>2, <1>3, <1>4, UnitsSum

\* Less of a sum keeps its bound.
LEMMA LessInSum ==
  ASSUME NEW a \in Nat, NEW b \in Nat, NEW c \in Nat, NEW d \in Nat, b <= a, a + c <= d
  PROVE  b + c <= d
  OBVIOUS

\* Every step of the worker, its clients and its master preserves it.
LEMMA ReportStep == TypeInv /\ PassedInv /\ [Next]_vars => TypeInv' /\ PassedInv'
<1> SUFFICES ASSUME TypeInv, PassedInv, [Next]_vars
             PROVE  TypeInv' /\ PassedInv'
  OBVIOUS
<1>0. /\ SumOf(statsCh) \in Nat /\ SumOf(Vals(stream)) \in Nat
      /\ reported \in Nat /\ taken \in Nat /\ out \in Nat /\ data \in Nat /\ count \in Nat
      /\ Passed \in Nat
  BY PassedType
<1>1. ASSUME UNCHANGED <<count, data, qps, out, statsCh, stream, reported, taken>>,
             (watcher' = "write") = (watcher = "write")
      PROVE  PassedInv'
  BY <1>1 DEF PassedInv, Passed
<1> DEFINE fewer == /\ UNCHANGED <<count, data, qps, out>>
                    /\ Passed' \in Nat /\ Passed' <= Passed
<1>2. ASSUME fewer
       PROVE  PassedInv'
  <2>1. /\ data' = data /\ count' = count /\ qps' = qps /\ out' = out
        /\ Passed' \in Nat /\ Passed' <= Passed
    BY <1>2
  <2>2. data' <= count' /\ (qps' = "send" => out' <= data')
    BY <2>1 DEF PassedInv
  <2>3. ASSUME qps = "reset"
        PROVE  Passed' <= count
    <3>1. Passed <= count
      BY <2>3 DEF PassedInv
    <3> QED
      BY <1>0, <2>1, <3>1
  <2>4. ASSUME qps # "reset"
        PROVE  Passed' + data <= count
    <3>1. Passed + data <= count
      BY <2>4 DEF PassedInv
    <3> QED
      BY <1>0, <2>1, <3>1, LessInSum
  <2> QED
    BY <2>1, <2>2, <2>3, <2>4 DEF PassedInv
<1>3. ASSUME UNCHANGED httpVars
      PROVE  ServerInv'
  BY <1>3 DEF TypeInv, ServerInv, HTTPTypeOK, httpVars, connVars, statsVars
<1>4. ASSUME UNCHANGED Rest
      PROVE  GoInv'
  BY <1>4 DEF TypeInv, GoInv, Rest, goVars, msgVars, masterVars
<1>5. CASE StartGoroutines \/ End \/ WatchMaster
  <2>1. /\ UNCHANGED <<httpVars, stream, reader, exitCh, watcher, taken, msgVars, masterVars>>
        /\ run' \in {"started", "ended", "killed"}
    BY <1>5 DEF StartGoroutines, End, WatchMaster
  <2>2. GoInv'
    BY <2>1 DEF TypeInv, GoInv, msgVars, masterVars
  <2>3. PassedInv'
    BY <1>1, <2>1 DEF httpVars, statsVars, masterVars
  <2> QED
    BY <1>3, <2>1, <2>2, <2>3 DEF TypeInv
<1>6. CASE NotifyMaster
  <2>1. UNCHANGED <<httpVars, reader, exitCh, watcher, taken, quitMsg, masterVars>>
    BY <1>6 DEF NotifyMaster
  <2>2. run' = "wait" /\ takeover' \in {"none", "sent", "read", "lost"}
    BY <1>6 DEF NotifyMaster, TypeInv, GoInv
  <2>3. WriteMsg(Takeover) \/ stream' = stream
    BY <1>6 DEF NotifyMaster
  <2>4. /\ stream' \in Seq(Unit) /\ Len(stream') <= SockCap
        /\ SumOf(Vals(stream')) = SumOf(Vals(stream))
    <3>1. Takeover \in Message /\ Takeover.val = 0
      BY DEF Takeover, Message
    <3>2. stream \in Seq(Unit) /\ Len(stream) <= SockCap
      BY DEF TypeInv, GoInv
    <3>3. CASE WriteMsg(Takeover)
      <4>1. /\ stream' \in Seq(Unit) /\ Len(stream') <= SockCap
            /\ SumOf(Vals(stream')) = SumOf(Vals(stream)) + Takeover.val
        BY <3>1, <3>2, <3>3, WriteSum
      <4> QED
        BY <3>1, <4>1, <1>0
    <3>4. CASE stream' = stream
      BY <3>2, <3>4
    <3> QED
      BY <2>3, <3>3, <3>4
  <2>5. GoInv'
    BY <2>1, <2>2, <2>4 DEF TypeInv, GoInv, masterVars
  <2>6. PassedInv'
    BY <2>1, <2>4 DEF PassedInv, Passed, httpVars, statsVars, masterVars
  <2> QED
    BY <1>3, <2>1, <2>5, <2>6 DEF TypeInv
<1>7. CASE ReaderStep
  <2>1. UNCHANGED <<stream, run, watcher, taken, takeover, masterVars>>
    BY <1>7 DEF ReaderStep, ReadQuit, ReaderCloses, ReaderDone, msgVars
  <2>2. reader' \in {"close", "closing", "done"}
    BY <1>7 DEF ReaderStep, ReadQuit, ReaderCloses, ReaderDone
  <2>3. exitCh' \in BOOLEAN /\ quitMsg' \in {"none", "sent", "read"}
    BY <1>7 DEF ReaderStep, ReadQuit, ReaderCloses, ReaderDone, msgVars, TypeInv, GoInv
  <2>4. /\ UNCHANGED <<serve, timedOut, conns, inflight, count, statsVars>>
        /\ shut' \in {"no", "drain", "done"}
    BY <1>7 DEF ReaderStep, ReadQuit, ReaderCloses, ReaderDone, Close, httpVars, connVars,
       TypeInv, ServerInv, HTTPTypeOK
  <2>5. ServerInv'
    BY <2>4 DEF TypeInv, ServerInv, HTTPTypeOK, statsVars
  <2>6. GoInv'
    BY <2>1, <2>2, <2>3 DEF TypeInv, GoInv, masterVars
  <2>7. PassedInv'
    BY <1>1, <2>1, <2>4 DEF statsVars, masterVars
  <2> QED
    BY <2>5, <2>6, <2>7 DEF TypeInv
<1>8. CASE TakeStats
  <2>1. /\ watcher = "select" /\ watcher' = "write" /\ statsCh # << >>
        /\ taken' = Head(statsCh) /\ statsCh' = Tail(statsCh)
        /\ UNCHANGED <<connVars, count, data, qps, out, stream, run, reader, exitCh, msgVars, masterVars>>
    BY <1>8 DEF TakeStats
  <2>2. statsCh \in Seq(0..MaxRequests) /\ Len(statsCh) <= ChanCap
    BY DEF TypeInv, ServerInv, HTTPTypeOK
  <2>3. /\ Head(statsCh) \in 0..MaxRequests /\ Tail(statsCh) \in Seq(0..MaxRequests)
        /\ Len(Tail(statsCh)) <= ChanCap
    BY <2>1, <2>2, HTTPAssumption
  <2>4. SumOf(statsCh) = Head(statsCh) + SumOf(Tail(statsCh)) /\ SumOf(Tail(statsCh)) \in Nat
    BY <2>1, PassedType, SumHead
  <2>5. ServerInv'
    BY <2>1, <2>3 DEF TypeInv, ServerInv, HTTPTypeOK, connVars
  <2>6. GoInv'
    BY <2>1, <2>3 DEF TypeInv, GoInv, msgVars, masterVars
  <2>7. reported' = reported /\ stream' = stream
    BY <2>1 DEF masterVars
  <2>8. Head(statsCh) \in Nat
    BY <2>3
  <2>9. Passed' = reported + SumOf(Tail(statsCh)) + SumOf(Vals(stream)) + Head(statsCh)
    BY <2>1, <2>7 DEF Passed
  <2>10. Passed = reported + SumOf(statsCh) + SumOf(Vals(stream)) + 0
    BY <2>1 DEF Passed
  <2>11. Passed' = Passed
    BY <2>4, <2>8, <2>9, <2>10, <1>0
  <2>12. PassedInv'
    BY <2>1, <2>11 DEF PassedInv
  <2> QED
    BY <2>5, <2>6, <2>12 DEF TypeInv
<1>9. CASE WriteStats
  <2>1. /\ watcher = "write" /\ watcher' = "select" /\ taken' = 0
        /\ UNCHANGED <<httpVars, run, reader, exitCh, msgVars, masterVars>>
        /\ WriteMsg(Stats(taken)) \/ stream' = stream
    BY <1>9 DEF WriteStats
  <2>2. /\ stream' \in Seq(Unit) /\ Len(stream') <= SockCap
        /\ SumOf(Vals(stream')) <= SumOf(Vals(stream)) + taken /\ SumOf(Vals(stream')) \in Nat
    <3>1. Stats(taken) \in Message /\ Stats(taken).val = taken
      BY <1>0 DEF Stats, Message
    <3>2. stream \in Seq(Unit) /\ Len(stream) <= SockCap
      BY DEF TypeInv, GoInv
    <3>3. CASE WriteMsg(Stats(taken))
      <4>1. /\ stream' \in Seq(Unit) /\ Len(stream') <= SockCap
            /\ SumOf(Vals(stream')) = SumOf(Vals(stream)) + Stats(taken).val
        BY <3>1, <3>2, <3>3, WriteSum
      <4> QED
        BY <3>1, <4>1, <1>0
    <3>4. CASE stream' = stream
      BY <3>2, <3>4, <1>0
    <3> QED
      BY <2>1, <3>3, <3>4
  <2>3. GoInv'
    BY <2>1, <2>2, HTTPAssumption DEF TypeInv, GoInv, msgVars, masterVars
  <2>4. Passed' = reported + SumOf(statsCh) + SumOf(Vals(stream')) + 0
    BY <2>1 DEF Passed, httpVars, statsVars, masterVars
  <2>5. Passed = reported + SumOf(statsCh) + SumOf(Vals(stream)) + taken
    BY <2>1 DEF Passed
  <2>6. Passed' <= Passed /\ Passed' \in Nat
    BY <2>2, <2>4, <2>5, <1>0
  <2>7. UNCHANGED <<count, data, out, qps>>
    BY <2>1 DEF httpVars, statsVars
  <2>8. PassedInv'
    BY <1>2, <2>6, <2>7
  <2> QED
    BY <1>3, <2>1, <2>3, <2>8 DEF TypeInv
<1>10. CASE WatcherExits
  <2>1. /\ UNCHANGED <<httpVars, stream, run, reader, exitCh, taken, msgVars, masterVars>>
        /\ watcher = "select" /\ watcher' = "done"
    BY <1>10 DEF WatcherExits
  <2>2. GoInv'
    BY <2>1 DEF TypeInv, GoInv, msgVars, masterVars
  <2>3. PassedInv'
    BY <1>1, <2>1 DEF httpVars, statsVars, masterVars
  <2> QED
    BY <1>3, <2>1, <2>2, <2>3 DEF TypeInv
<1>11. CASE ServeStep \/ CloseStep
  <2>1. UNCHANGED Rest /\ UNCHANGED <<inflight, count, statsVars>>
    BY <1>11 DEF ServeStep, CloseStep, Serve, ServeReturns, ShutdownReturns
  <2>2. /\ serve' \in {"off", "accept", "returned"} /\ shut' \in {"no", "drain", "done"}
        /\ timedOut' \in BOOLEAN
    <3>1. /\ serve \in {"off", "accept", "returned"} /\ shut \in {"no", "drain", "done"}
          /\ timedOut \in BOOLEAN
      BY DEF TypeInv, ServerInv, HTTPTypeOK
    <3>2. CASE ServeStep
      BY <3>1, <3>2 DEF ServeStep, Serve, ServeReturns
    <3>3. CASE CloseStep
      BY <3>1, <3>3 DEF CloseStep, ShutdownReturns
    <3> QED
      BY <1>11, <3>2, <3>3
  <2>3. conns' = conns \/ conns' = 0
    BY <1>11 DEF ServeStep, CloseStep, Serve, ServeReturns, ShutdownReturns
  <2>4. conns' \in 0..MaxConns /\ conns' + inflight' <= MaxConns
    BY <2>1, <2>3, HTTPAssumption DEF TypeInv, ServerInv, HTTPTypeOK
  <2>5. ServerInv'
    BY <2>1, <2>2, <2>4 DEF TypeInv, ServerInv, HTTPTypeOK, statsVars
  <2>6. PassedInv'
    BY <1>1, <2>1 DEF statsVars, Rest, goVars, masterVars
  <2> QED
    BY <1>4, <2>1, <2>5, <2>6 DEF TypeInv
<1>12. CASE QPSStep
  <2>1. UNCHANGED Rest /\ UNCHANGED <<connVars, count>>
    BY <1>12 DEF QPSStep, CalcQPS, Marshal, SendStats, Reset
  <2>2. UNCHANGED <<stream, reported, taken, watcher>>
    BY <2>1 DEF Rest, goVars, masterVars
  <2>3. CASE Marshal
    <3>1. qps = "tick" /\ qps' = "send" /\ out' = data /\ UNCHANGED <<data, statsCh>>
      BY <2>3 DEF Marshal
    <3>2. ServerInv'
      BY <2>1, <3>1 DEF TypeInv, ServerInv, HTTPTypeOK, connVars
    <3>3. Passed' = Passed
      BY <2>2, <3>1 DEF Passed
    <3>4. PassedInv'
      BY <2>1, <3>1, <3>3, <1>0 DEF PassedInv
    <3> QED
      BY <1>4, <2>1, <3>2, <3>4 DEF TypeInv
  <2>4. CASE SendStats
    <3>1. /\ qps = "send" /\ qps' = "reset" /\ out' = 0 /\ UNCHANGED data
          /\ statsCh' = Append(statsCh, out) /\ Len(statsCh) < ChanCap
      BY <2>4 DEF SendStats
    <3>2. statsCh \in Seq(0..MaxRequests) /\ out \in 0..MaxRequests
      BY DEF TypeInv, ServerInv, HTTPTypeOK
    <3>3. statsCh' \in Seq(0..MaxRequests) /\ Len(statsCh') <= ChanCap
      BY <3>1, <3>2, HTTPAssumption
    <3>4. ServerInv'
      BY <2>1, <3>1, <3>3, HTTPAssumption DEF TypeInv, ServerInv, HTTPTypeOK, connVars
    <3>5. SumOf(statsCh') = SumOf(statsCh) + out
      BY <3>1, PassedType, SumAppend
    <3>6. CASE watcher = "write"
      <4>1. Passed' = reported + SumOf(statsCh') + SumOf(Vals(stream)) + taken
        BY <2>2, <3>6 DEF Passed
      <4>2. Passed = reported + SumOf(statsCh) + SumOf(Vals(stream)) + taken
        BY <3>6 DEF Passed
      <4>3. Passed' = Passed + out
        BY <3>5, <4>1, <4>2, <1>0
      <4> QED
        BY <1>4, <2>1, <3>1, <3>4, <4>3, <1>0 DEF TypeInv, PassedInv
    <3>7. CASE watcher # "write"
      <4>1. Passed' = reported + SumOf(statsCh') + SumOf(Vals(stream)) + 0
        BY <2>2, <3>7 DEF Passed
      <4>2. Passed = reported + SumOf(statsCh) + SumOf(Vals(stream)) + 0
        BY <3>7 DEF Passed
      <4>3. Passed' = Passed + out
        BY <3>5, <4>1, <4>2, <1>0
      <4> QED
        BY <1>4, <2>1, <3>1, <3>4, <4>3, <1>0 DEF TypeInv, PassedInv
    <3> QED
      BY <3>6, <3>7
  <2>5. CASE Reset
    <3>1. qps = "reset" /\ qps' = "tick" /\ data' = 0 /\ UNCHANGED <<out, statsCh>>
      BY <2>5 DEF Reset
    <3>2. ServerInv'
      BY <2>1, <3>1, HTTPAssumption DEF TypeInv, ServerInv, HTTPTypeOK, connVars
    <3>3. Passed' = Passed
      BY <2>2, <3>1 DEF Passed
    <3>4. PassedInv'
      BY <2>1, <3>1, <3>3, <1>0 DEF PassedInv
    <3> QED
      BY <1>4, <2>1, <3>2, <3>4 DEF TypeInv
  <2> QED
    BY <1>12, <2>3, <2>4, <2>5 DEF QPSStep, CalcQPS
<1>13. CASE (Accept \/ HandlerEnd) /\ UNCHANGED Rest
  <2>1. UNCHANGED <<serve, shut, timedOut, count, statsVars>>
    BY <1>13 DEF Accept, HandlerEnd
  <2>2. /\ conns' \in 0..MaxConns /\ inflight' \in 0..MaxConns
        /\ conns' + inflight' <= MaxConns
    <3>1. /\ conns \in Nat /\ inflight \in Nat /\ MaxConns \in Nat
          /\ conns + inflight <= MaxConns
      BY HTTPAssumption DEF TypeInv, ServerInv, HTTPTypeOK
    <3>2. CASE Accept
      <4>1. conns + inflight < MaxConns /\ conns' = conns + 1 /\ inflight' = inflight
        BY <3>2 DEF Accept
      <4> QED
        BY <3>1, <4>1
    <3>3. CASE HandlerEnd
      <4>1. /\ inflight > 0 /\ inflight' = inflight - 1
            /\ conns' = conns + 1 \/ conns' = conns
        BY <3>3 DEF HandlerEnd
      <4> QED
        BY <3>1, <4>1
    <3> QED
      BY <1>13, <3>2, <3>3
  <2>3. ServerInv'
    BY <2>1, <2>2 DEF TypeInv, ServerInv, HTTPTypeOK, statsVars
  <2>4. PassedInv'
    BY <1>1, <1>13, <2>1 DEF statsVars, Rest, goVars, masterVars
  <2> QED
    BY <1>4, <1>13, <2>3, <2>4 DEF TypeInv
<1>14. CASE HandlerStart /\ UNCHANGED Rest
  <2>1. /\ conns > 0 /\ conns' = conns - 1 /\ inflight' = inflight + 1
        /\ count < MaxRequests /\ count' = count + 1 /\ data' = data + 1
        /\ UNCHANGED <<serve, shut, timedOut, qps, out, statsCh>>
    BY <1>14 DEF HandlerStart
  <2>2. UNCHANGED <<stream, reported, taken, watcher>>
    BY <1>14 DEF Rest, goVars, masterVars
  <2>3. data <= count
    BY DEF PassedInv
  <2>4. /\ conns' \in 0..MaxConns /\ inflight' \in 0..MaxConns
        /\ conns' + inflight' <= MaxConns
    BY <2>1, HTTPAssumption DEF TypeInv, ServerInv, HTTPTypeOK
  <2>5. count' \in 0..MaxRequests /\ data' \in 0..MaxRequests
    BY <2>1, <2>3, HTTPAssumption, <1>0
  <2>6. ServerInv'
    BY <2>1, <2>4, <2>5 DEF TypeInv, ServerInv, HTTPTypeOK
  <2>7. Passed' = Passed
    BY <2>1, <2>2 DEF Passed
  <2>8. PassedInv'
    BY <2>1, <2>7, <1>0 DEF PassedInv
  <2> QED
    BY <1>4, <1>14, <2>6, <2>8 DEF TypeInv
<1>15. CASE MasterReads
  <2>1. UNCHANGED <<httpVars, goVars, quitMsg, entry>> /\ stream # << >> /\ Consume
    BY <1>15 DEF MasterReads
  <2>2. stream \in Seq(Unit) /\ Len(stream) <= SockCap
    BY DEF TypeInv, GoInv
  <2>3. /\ stream' \in Seq(Unit) /\ Len(stream') <= Len(stream)
        /\ Received[1] = stream[1] /\ Vals(stream)[1] \in Nat
        /\ SumOf(Vals(stream')) + Vals(stream)[1] <= SumOf(Vals(stream))
    BY <2>1, <2>2, ConsumeSum
  <2>4. SumOf(Vals(stream')) \in Nat
    BY <2>3, ValsType
  <2>5. reported' = reported \/ reported' = reported + Vals(stream)[1]
    <3>1. CASE Decodes
      <4>1. stream[1].part = 1 /\ FirstMsg = stream[1].msg
        BY <2>3, <3>1 DEF Decodes, FirstMsg
      <4>2. 1 \in DOMAIN stream
        BY <2>1, <2>2
      <4>3. Vals(stream)[1] = FirstMsg.val
        BY <4>1, <4>2 DEF Vals
      <4> QED
        BY <1>15, <3>1, <4>3 DEF MasterReads
    <3>2. CASE ~Decodes
      BY <1>15, <3>2 DEF MasterReads
    <3> QED
      BY <3>1, <3>2
  <2>6. UNCHANGED <<count, data, qps, out, statsCh, watcher, taken>>
    BY <2>1 DEF httpVars, statsVars, goVars
  <2>7. reported' + SumOf(Vals(stream')) <= reported + SumOf(Vals(stream)) /\ reported' \in Nat
    BY <2>3, <2>4, <2>5, <1>0
  <2>8. Passed' <= Passed /\ Passed' \in Nat /\ reported' <= Passed'
    <3>1. CASE watcher = "write"
      <4>1. Passed' = reported' + SumOf(statsCh) + SumOf(Vals(stream')) + taken
        BY <2>6, <3>1 DEF Passed
      <4>2. Passed = reported + SumOf(statsCh) + SumOf(Vals(stream)) + taken
        BY <3>1 DEF Passed
      <4> QED
        BY <2>4, <2>7, <4>1, <4>2, <1>0
    <3>2. CASE watcher # "write"
      <4>1. Passed' = reported' + SumOf(statsCh) + SumOf(Vals(stream')) + 0
        BY <2>6, <3>2 DEF Passed
      <4>2. Passed = reported + SumOf(statsCh) + SumOf(Vals(stream)) + 0
        BY <3>2 DEF Passed
      <4> QED
        BY <2>4, <2>7, <4>1, <4>2, <1>0
    <3> QED
      BY <3>1, <3>2
  <2>9. PassedInv'
    BY <1>2, <2>6, <2>8
  <2>10. Passed <= count
    BY <1>0 DEF PassedInv
  <2>11. reported' \in 0..MaxRequests
    <3>1. count <= MaxRequests
      BY DEF TypeInv, ServerInv, HTTPTypeOK
    <3> QED
      BY <2>7, <2>8, <2>10, <3>1, <1>0, HTTPAssumption
  <2>12. mreader' \in {"read", "stopped"} /\ masterUp' \in BOOLEAN
    <3>1. mreader' = mreader \/ mreader' = "stopped"
      BY <1>15 DEF MasterReads
    <3>2. masterUp' = masterUp \/ masterUp' = (FirstMsg.typ = "stats" => entry # "deleted")
      BY <1>15 DEF MasterReads
    <3> QED
      BY <3>1, <3>2 DEF TypeInv, GoInv
  <2>13. takeover' \in {"none", "sent", "read", "lost"}
    <3>1. takeover' = takeover \/ takeover' = "read" \/ takeover' = "lost"
      BY <1>15 DEF MasterReads
    <3> QED
      BY <3>1 DEF TypeInv, GoInv
  <2>14. Len(stream') <= SockCap
    <3>1. Len(stream') \in Nat /\ Len(stream) \in Nat
      BY <2>2, <2>3
    <3> QED
      BY <2>2, <2>3, <3>1, LinkAssumption
  <2>15. GoInv'
    BY <2>1, <2>3, <2>11, <2>12, <2>13, <2>14 DEF TypeInv, GoInv, goVars
  <2> QED
    BY <1>3, <2>1, <2>9, <2>15 DEF TypeInv
<1>16. CASE MasterReadsEOF \/ WaitWorker \/ DeleteDead
  <2>1. UNCHANGED <<httpVars, stream, goVars, msgVars, masterUp, reported>>
    BY <1>16 DEF MasterReadsEOF, WaitWorker, DeleteDead
  <2>2. mreader' \in {"read", "stopped"} /\ entry' \in {"alive", "dead", "deleted"}
    BY <1>16 DEF MasterReadsEOF, WaitWorker, DeleteDead, TypeInv, GoInv
  <2>3. GoInv'
    BY <2>1, <2>2 DEF TypeInv, GoInv, goVars, msgVars
  <2>4. PassedInv'
    BY <1>1, <2>1 DEF httpVars, statsVars, goVars
  <2> QED
    BY <1>3, <2>1, <2>3, <2>4 DEF TypeInv
<1>17. CASE SendQuit \/ MasterDies
  <2>1. UNCHANGED <<httpVars, stream, goVars, takeover, mreader, entry, reported>>
    BY <1>17 DEF SendQuit, MasterDies, msgVars, masterVars
  <2>2. masterUp' \in BOOLEAN /\ quitMsg' \in {"none", "sent", "read"}
    BY <1>17 DEF SendQuit, MasterDies, msgVars, masterVars, TypeInv, GoInv
  <2>3. GoInv'
    BY <2>1, <2>2 DEF TypeInv, GoInv, goVars
  <2>4. PassedInv'
    BY <1>1, <2>1 DEF httpVars, statsVars, goVars
  <2> QED
    BY <1>3, <2>1, <2>3, <2>4 DEF TypeInv
<1>18. CASE UNCHANGED vars
  <2>1. UNCHANGED httpVars /\ UNCHANGED Rest
    BY <1>18 DEF vars, Rest
  <2>2. PassedInv'
    BY <1>1, <2>1 DEF httpVars, statsVars, Rest, goVars, masterVars
  <2> QED
    BY <1>3, <1>4, <2>1, <2>2 DEF TypeInv
<1> QED
  BY <1>5, <1>6, <1>7, <1>8, <1>9, <1>10, <1>11, <1>12, <1>13, <1>14, <1>15, <1>16, <1>17, <1>18
     DEF Next, RunStep, MasterStep

\* The types hold; in particular no counter leaves its range and neither the
\* channel nor the socket overflows, whatever their sizes.
THEOREM TypeOKHolds == Spec => []TypeOK
<1>1. TypeInv => TypeOK
  BY DEF TypeInv, ServerInv, GoInv, TypeOK
<1> QED
  BY <1>1, ReportInit, ReportStep, PTL DEF Spec

\* No request is reported twice: for any number of requests and any sizes of
\* messages, buffers and channels.
THEOREM NeverOverReportedHolds == Spec => []NeverOverReported
<1>1. TypeInv /\ PassedInv => NeverOverReported
  <2> SUFFICES ASSUME TypeInv, PassedInv
               PROVE  reported + OnTheWay <= count
    BY DEF NeverOverReported
  <2> DEFINE held == IF watcher = "write" THEN taken ELSE 0
             sending == IF qps = "send" THEN out ELSE 0
  <2>1. held \in Nat /\ sending \in Nat
    BY PassedType
  <2>2. /\ Passed = reported + SumOf(statsCh) + SumOf(Vals(stream)) + held
        /\ OnTheWay = SumOf(statsCh) + SumOf(Vals(stream)) + held + sending
    BY DEF Passed, OnTheWay
  <2>3. Passed + sending <= count
    BY PassedType DEF PassedInv
  <2>4. SumOf(statsCh) \in Nat /\ SumOf(Vals(stream)) \in Nat /\ reported \in Nat
    BY PassedType
  <2>5. Passed + sending = reported + OnTheWay
    <3> HIDE DEF held, sending
    <3> QED
      BY <2>1, <2>2, <2>4
  <2> QED
    BY <2>3, <2>5
<1> QED
  BY <1>1, ReportInit, ReportStep, PTL DEF Spec
=============================================================================

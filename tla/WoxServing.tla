----------------------------- MODULE WoxServing -----------------------------
(***************************************************************************)
(* One worker from the inside: the goroutines of run() (worker.go), its    *)
(* HTTP server (WoxHTTP), its stream to the master (WoxLink), and what the *)
(* master does about this worker: readMsg with the statistics table,       *)
(* waitWorker, and the deletion in watchChildren (master.go).              *)
(*                                                                         *)
(* It implements the life of a worker in WoxWorker, where the goroutines   *)
(* are a single step.                                                      *)
(***************************************************************************)
EXTENDS WoxHTTP, WoxLink, WoxSums

CONSTANT Reason   \* REASON in the environment of the worker

ASSUME ReasonAssumption == Reason \in {"start", "reload", "crash"}

VARIABLES
  run,       \* run(): "boot", "started" (goroutines run), "wait" (in wg.Wait),
             \* "ended" or "killed"
  reader,    \* the worker's readMsg: "read", "close", "closing" or "done"
  exitCh,    \* exitCh is closed
  watcher,   \* watchStats: "select", "write" or "done"
  taken,     \* the statistics watchStats has taken from statsCh and not written
  quitMsg, takeover,  \* as in WoxProcess; a takeover may also be "lost"
  masterUp,
  mreader,   \* the master's readMsg: "read" or "stopped"
  entry,     \* the worker in the master's tables: "alive", "dead" or "deleted"
  reported   \* the sum of all statistics stored in the master's table

goVars     == <<run, reader, exitCh, watcher, taken>>
msgVars    == <<quitMsg, takeover>>
masterVars == <<masterUp, mreader, entry, reported>>
vars       == <<httpVars, stream, goVars, msgVars, masterVars>>

Live == run \in {"boot", "started", "wait"}
Up   == run \in {"started", "wait"}

TypeOK ==
  /\ HTTPTypeOK
  /\ run \in {"boot", "started", "wait", "ended", "killed"}
  /\ reader \in {"read", "close", "closing", "done"}
  /\ exitCh \in BOOLEAN
  /\ watcher \in {"select", "write", "done"}
  /\ taken \in 0..MaxRequests
  /\ quitMsg \in {"none", "sent", "read"}
  /\ takeover \in {"none", "sent", "read", "lost"}
  /\ masterUp \in BOOLEAN
  /\ mreader \in {"read", "stopped"}
  /\ entry \in {"alive", "dead", "deleted"}
  /\ reported \in 0..MaxRequests
  /\ Len(stream) <= SockCap

Init ==
  /\ HTTPInit
  /\ stream = <<>>
  /\ run = "boot" /\ reader = "read" /\ exitCh = FALSE
  /\ watcher = "select" /\ taken = 0
  /\ quitMsg = "none" /\ takeover = "none"
  /\ masterUp = TRUE /\ mreader = "read" /\ entry = "alive" /\ reported = 0

-----------------------------------------------------------------------------
(***************************************************************************)
(* run() of the worker.                                                    *)
(***************************************************************************)
StartGoroutines ==
  /\ run = "boot"
  /\ run' = "started"
  /\ UNCHANGED <<httpVars, stream, reader, exitCh, watcher, taken, msgVars, masterVars>>

\* A write to a master that is gone fails.
NotifyMaster ==
  /\ run = "started"
  /\ run' = "wait"
  /\ IF Reason = "reload"
       THEN /\ takeover' = "sent"
            /\ WriteMsg(Takeover) \/ (~masterUp /\ UNCHANGED stream)
       ELSE UNCHANGED <<takeover, stream>>
  /\ UNCHANGED <<httpVars, reader, exitCh, watcher, taken, quitMsg, masterVars>>

\* Mutant: wg.Add(1) is missing for readMsg and for Serve.
EndEarly ==
  /\ run = "wait"
  /\ watcher = "select"
  /\ run' = "ended"
  /\ UNCHANGED <<httpVars, stream, reader, exitCh, watcher, taken, msgVars, masterVars>>

\* wg.Wait returns.
End ==
  /\ run = "wait"
  /\ reader = "done" /\ watcher = "done" /\ serve = "returned"
  /\ run' = "ended"
  /\ UNCHANGED <<httpVars, stream, reader, exitCh, watcher, taken, msgVars, masterVars>>

WatchMaster ==
  /\ Up /\ ~masterUp
  /\ run' = "killed"
  /\ UNCHANGED <<httpVars, stream, reader, exitCh, watcher, taken, msgVars, masterVars>>

-----------------------------------------------------------------------------
(***************************************************************************)
(* The worker's readMsg: at the quit message it closes exitCh, then the    *)
(* HTTP server, and returns when Close does.                               *)
(***************************************************************************)
\* Mutant: readMsg returns without close(exitCh).
ReadQuitExitChOpen ==
  /\ Up /\ reader = "read" /\ quitMsg = "sent"
  /\ quitMsg' = "read"
  /\ reader' = "close"
  /\ UNCHANGED <<httpVars, stream, run, exitCh, watcher, taken, takeover, masterVars>>

ReadQuit ==
  /\ Up /\ reader = "read" /\ quitMsg = "sent"
  /\ quitMsg' = "read"
  /\ exitCh' = TRUE
  /\ reader' = "close"
  /\ UNCHANGED <<httpVars, stream, run, watcher, taken, takeover, masterVars>>

ReaderCloses ==
  /\ Up /\ reader = "close"
  /\ Close
  /\ reader' = "closing"
  /\ UNCHANGED <<stream, run, exitCh, watcher, taken, msgVars, masterVars>>

ReaderDone ==
  /\ Up /\ reader = "closing" /\ shut = "done"
  /\ reader' = "done"
  /\ UNCHANGED <<httpVars, stream, run, exitCh, watcher, taken, msgVars, masterVars>>

-----------------------------------------------------------------------------
(***************************************************************************)
(* watchStats: select takes statistics or finds exitCh closed.             *)
(***************************************************************************)
TakeStats ==
  /\ Up /\ watcher = "select" /\ statsCh # <<>>
  /\ taken' = Head(statsCh)
  /\ statsCh' = Tail(statsCh)
  /\ watcher' = "write"
  /\ UNCHANGED <<connVars, count, data, qps, out, stream, run, reader, exitCh,
                 msgVars, masterVars>>

WriteStats ==
  /\ Up /\ watcher = "write"
  /\ WriteMsg(Stats(taken)) \/ (~masterUp /\ UNCHANGED stream)
  /\ watcher' = "select" /\ taken' = 0
  /\ UNCHANGED <<httpVars, run, reader, exitCh, msgVars, masterVars>>

WatcherExits ==
  /\ Up /\ watcher = "select" /\ exitCh
  /\ watcher' = "done"
  /\ UNCHANGED <<httpVars, stream, run, reader, exitCh, taken, msgVars, masterVars>>

-----------------------------------------------------------------------------
(***************************************************************************)
(* The master.                                                             *)
(***************************************************************************)
\* readMsg: statistics go into the table.  When watchChildren has deleted the
\* worker from it, resetWorker dereferences nil and the master panics.
MasterReads ==
  /\ masterUp /\ mreader = "read" /\ stream # <<>>
  /\ Consume
  /\ IF ~Decodes
       THEN mreader' = "stopped" /\ UNCHANGED <<masterUp, reported>>
       ELSE /\ UNCHANGED mreader
            /\ IF FirstMsg.typ = "stats" /\ entry # "deleted"
                 THEN reported' = reported + FirstMsg.val
                 ELSE UNCHANGED reported
            /\ masterUp' = (FirstMsg.typ = "stats" => entry # "deleted")
  /\ IF \E i \in DOMAIN Received : Received[i].msg = Takeover
       THEN takeover' = IF Decodes /\ FirstMsg = Takeover THEN "read" ELSE "lost"
       ELSE UNCHANGED takeover
  /\ UNCHANGED <<httpVars, goVars, quitMsg, entry>>

\* All ends of the worker's socket are closed and the stream is read.
MasterReadsEOF ==
  /\ masterUp /\ mreader = "read" /\ stream = <<>>
  /\ ~Live
  /\ mreader' = "stopped"
  /\ UNCHANGED <<httpVars, stream, goVars, msgVars, masterUp, entry, reported>>

WaitWorker ==
  /\ masterUp /\ entry = "alive" /\ ~Live
  /\ entry' = "dead"
  /\ UNCHANGED <<httpVars, stream, goVars, msgVars, masterUp, mreader, reported>>

DeleteDead ==
  /\ masterUp /\ entry = "dead"
  /\ entry' = "deleted"
  /\ UNCHANGED <<httpVars, stream, goVars, msgVars, masterUp, mreader, reported>>

\* notifyWorker or graceful tells the worker to quit.
SendQuit ==
  /\ masterUp /\ quitMsg = "none" /\ entry = "alive"
  /\ quitMsg' = "sent"
  /\ UNCHANGED <<httpVars, stream, goVars, takeover, masterVars>>

MasterDies ==
  /\ masterUp
  /\ masterUp' = FALSE
  /\ UNCHANGED <<httpVars, stream, goVars, msgVars, mreader, entry, reported>>

-----------------------------------------------------------------------------
Rest == <<stream, goVars, msgVars, masterVars>>

RunStep     == StartGoroutines \/ NotifyMaster \/ End
ReaderStep  == ReadQuit \/ ReaderCloses \/ ReaderDone
ServeStep   == Up /\ (Serve \/ ServeReturns) /\ UNCHANGED Rest
QPSStep     == Live /\ CalcQPS /\ UNCHANGED Rest
CloseStep   == Up /\ ShutdownReturns /\ UNCHANGED Rest
MasterStep  == MasterReads \/ MasterReadsEOF \/ WaitWorker \/ DeleteDead

Next ==
  \/ RunStep
  \/ WatchMaster
  \/ ReaderStep
  \/ TakeStats \/ WriteStats \/ WatcherExits
  \/ ServeStep
  \/ QPSStep
  \/ CloseStep
  \/ Up /\ (Accept \/ HandlerStart \/ HandlerEnd) /\ UNCHANGED Rest
  \/ MasterStep
  \/ SendQuit
  \/ MasterDies

Spec == Init /\ [][Next]_vars

(***************************************************************************)
(* Every goroutine that can run does.  A select that finds both of its     *)
(* cases ready again and again chooses each of them at times: it chooses   *)
(* at random.  Nothing is assumed of clients, handlers and quit messages.  *)
(***************************************************************************)
Fairness ==
  /\ WF_vars(RunStep) /\ WF_vars(WatchMaster) /\ WF_vars(ReaderStep)
  /\ WF_vars(ServeStep) /\ WF_vars(CloseStep)
  /\ WF_vars(WriteStats) /\ SF_vars(WatcherExits)
  /\ WF_vars(MasterReads)

FairSpec == Spec /\ Fairness
-----------------------------------------------------------------------------
\* The statistics in the units of a stream.
Vals(s) == [i \in DOMAIN s |-> IF s[i].part = 1 THEN s[i].msg.val ELSE 0]

\* The requests that calcQPS has marshalled and the master has not stored.
OnTheWay ==
  SumOf(statsCh) + SumOf(Vals(stream))
    + (IF watcher = "write" THEN taken ELSE 0) + (IF qps = "send" THEN out ELSE 0)

\* No request is reported twice: what the master has stored and what is on
\* its way there never exceed the requests counted, however calcQPS, the
\* handlers, watchStats and the reads of the stream interleave, and whatever
\* a read cuts off.  (Fewer may be reported: see Reset.)
NeverOverReported == reported + OnTheWay <= count

\* A worker that ends because it was told to has answered every request it
\* had begun, if Shutdown did not run out of time.
Drained == run = "ended" /\ ~Http2 /\ ~timedOut => inflight = 0

\* The master's reader of a worker only ends with the worker, as long as no
\* more gathers in the socket than one read takes.
ReaderInSync == [](Len(stream) <= BufSize) => [](mreader = "stopped" => ~Live)

\* The goroutines of a worker make up the worker of WoxWorker: whenever what
\* WoxWorker shows of the worker changes, it changes by one of its steps, or
\* the master has done it.
WorkerStatus ==
  IF run = "boot" THEN "boot"
  ELSE IF run = "started" THEN "starting"
  ELSE IF run = "wait" THEN "serving"
  ELSE IF run = "ended" THEN "exit0"
  ELSE "exitN"

TakeoverStatus == IF takeover = "lost" THEN "read" ELSE takeover

Worker == INSTANCE WoxWorker WITH
  Pid        <- {1},
  MaxCrashes <- 0,
  crashes    <- 0,
  wk         <- [p \in {1} |-> WorkerStatus],
  reason     <- [p \in {1} |-> Reason],
  takeover   <- [p \in {1} |-> TakeoverStatus],
  quitMsg    <- [p \in {1} |-> quitMsg]

MasterMove ==
  /\ UNCHANGED run
  /\ quitMsg' # quitMsg => quitMsg' = "sent"
  /\ TakeoverStatus' # TakeoverStatus => TakeoverStatus' = "read"

ImplementsWorker ==
  [][Worker!WorkerStep(1) \/ MasterMove]_<<run, quitMsg, TakeoverStatus>>

\* A worker that is told to quit ends, or its master does not read it any
\* more: nothing else keeps one of its goroutines from ending.
WorkerEnds == quitMsg = "sent" ~> ~Live \/ mreader = "stopped"
=============================================================================

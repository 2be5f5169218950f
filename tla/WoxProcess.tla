----------------------------- MODULE WoxProcess -----------------------------
(***************************************************************************)
(* What the master and its workers share: the operating system's view of   *)
(* the worker processes and the Unix socket pair between each worker and   *)
(* the master (master.go fork, worker.go newWorker, server.go readMsg).    *)
(*                                                                         *)
(* A worker pid goes through the states                                    *)
(*   "unused"    no such process yet                                       *)
(*   "boot"      forked; runs NewServer, newWorker and the head of run()   *)
(*   "starting"  the goroutines of run() are started, the takeover message *)
(*               is not sent yet                                           *)
(*   "serving"   run() waits for its goroutines                            *)
(*   "exit0"     exited with status 0                                      *)
(*   "exitN"     killed by a signal or exited with another status          *)
(* A pid names one process of a behaviour: the kernel hands pids out in    *)
(* increasing order and does not come back to a pid it has used.           *)
(***************************************************************************)
EXTENDS Naturals, FiniteSets

CONSTANT Pid  \* worker process ids

NoPid == 0    \* the value of an unset pid

ASSUME PidAssumption == Pid \subseteq Nat \ {NoPid}

VARIABLES
  masterUp,   \* the master process is running
  wk,         \* status of each worker process
  reason,     \* REASON in the environment of each worker
  takeover,   \* the worker's msgWorkerTakeover: "none", "sent" or "read"
  quitMsg     \* the master's msgWorkerQuit:     "none", "sent" or "read"

procVars == <<masterUp, wk, reason, takeover, quitMsg>>

MsgState == {"none", "sent", "read"}

ProcTypeOK ==
  /\ masterUp \in BOOLEAN
  /\ wk \in [Pid -> {"unused", "boot", "starting", "serving", "exit0", "exitN"}]
  /\ reason \in [Pid -> {"start", "reload", "crash"}]
  /\ takeover \in [Pid -> MsgState]
  /\ quitMsg \in [Pid -> MsgState]

ProcInit ==
  /\ masterUp = TRUE
  /\ wk = [p \in Pid |-> "unused"]
  /\ reason = [p \in Pid |-> "start"]
  /\ takeover = [p \in Pid |-> "none"]
  /\ quitMsg = [p \in Pid |-> "none"]

\* The pid the next ForkExec returns.
NextPid(p) == wk[p] = "unused" /\ \A q \in Pid : q < p => wk[q] # "unused"

Running(p) == wk[p] \in {"boot", "starting", "serving"}
Exited(p)  == wk[p] \in {"exit0", "exitN"}

\* The socket of newWorker is listened on and run() has started Serve.
Serving(p) == wk[p] \in {"starting", "serving"}

\* A quit message has been written to p's socket.
Told(p) == quitMsg[p] # "none"

\* WriteMsgUnix of msgWorkerQuit.  readMsg in the worker returns at the first
\* one it decodes, so only the first matters.
SendQuit(p) == quitMsg' = [quitMsg EXCEPT ![p] = IF @ = "none" THEN "sent" ELSE @]
=============================================================================

----------------------------- MODULE WoxWorker ------------------------------
(***************************************************************************)
(* The life of a worker process (worker.go): run() registers, starts its   *)
(* goroutines, announces itself to the master if it was forked by a        *)
(* reload, and waits for them; readMsg ends them when the master says      *)
(* quit; watchMaster kills the process when the master is gone.            *)
(***************************************************************************)
EXTENDS WoxProcess

CONSTANT MaxCrashes    \* bound: crashes of workers in a behaviour

ASSUME CrashAssumption == MaxCrashes \in Nat

VARIABLE crashes       \* crashes so far

WorkerTypeOK == crashes \in 0..MaxCrashes

WorkerInit == crashes = 0

(***************************************************************************)
(* run() reaches its goroutines: the socket is bound, the address is       *)
(* registered, readMsg, watchStats, Serve and watchMaster run.             *)
(***************************************************************************)
StartGoroutines(p) ==
  /\ wk[p] = "boot"
  /\ wk' = [wk EXCEPT ![p] = "starting"]
  /\ UNCHANGED <<masterUp, reason, takeover, quitMsg, crashes>>

(***************************************************************************)
(* The rest of run(): only a worker forked by a reload sends the takeover  *)
(* message.  readMsg already runs, so a quit may have been read before.    *)
(***************************************************************************)
NotifyMaster(p) ==
  /\ wk[p] = "starting"
  /\ wk' = [wk EXCEPT ![p] = "serving"]
  /\ IF reason[p] = "reload"
       THEN takeover' = [takeover EXCEPT ![p] = "sent"]
       ELSE UNCHANGED takeover
  /\ UNCHANGED <<masterUp, reason, quitMsg, crashes>>

\* Mutant: break leaves the switch, not the loop; the message is consumed.
ReadQuitBreak(p) ==
  /\ Serving(p)
  /\ quitMsg[p] = "sent"
  /\ quitMsg' = [quitMsg EXCEPT ![p] = "none"]
  /\ UNCHANGED <<masterUp, wk, reason, takeover, crashes>>

(***************************************************************************)
(* readMsg decodes msgWorkerQuit, closes exitCh and shuts the HTTP server  *)
(* down.                                                                   *)
(***************************************************************************)
ReadQuit(p) ==
  /\ Serving(p)
  /\ quitMsg[p] = "sent"
  /\ quitMsg' = [quitMsg EXCEPT ![p] = "read"]
  /\ UNCHANGED <<masterUp, wk, reason, takeover, crashes>>

(***************************************************************************)
(* readMsg, watchStats and Serve are done: wg.Wait returns, run() closes   *)
(* the socket and returns, and the program ends with status 0.             *)
(***************************************************************************)
End(p) ==
  /\ wk[p] = "serving"
  /\ quitMsg[p] = "read"
  /\ wk' = [wk EXCEPT ![p] = "exit0"]
  /\ UNCHANGED <<masterUp, reason, takeover, quitMsg, crashes>>

\* Mutant: the parent is looked at once, before the worker announces itself.
WatchMasterOnce(p) ==
  /\ ~masterUp
  /\ wk[p] = "starting"
  /\ wk' = [wk EXCEPT ![p] = "exitN"]
  /\ UNCHANGED <<masterUp, reason, takeover, quitMsg, crashes>>

(***************************************************************************)
(* watchMaster: the parent is not the master any more, os.Exit(1).  (Or    *)
(* its pid file cannot be read, or readMsg fails: log.Fatal, status 1.)    *)
(***************************************************************************)
WatchMaster(p) ==
  /\ ~masterUp
  /\ Serving(p)
  /\ wk' = [wk EXCEPT ![p] = "exitN"]
  /\ UNCHANGED <<masterUp, reason, takeover, quitMsg, crashes>>

(***************************************************************************)
(* A worker dies: a panic, a log.Fatal while it boots (etcd, the           *)
(* configuration, the address), or a signal.                               *)
(***************************************************************************)
Crash(p) ==
  /\ crashes < MaxCrashes
  /\ Running(p)
  /\ crashes' = crashes + 1
  /\ wk' = [wk EXCEPT ![p] = "exitN"]
  /\ UNCHANGED <<masterUp, reason, takeover, quitMsg>>

WorkerStep(p) ==
  \/ StartGoroutines(p)
  \/ NotifyMaster(p)
  \/ ReadQuit(p)
  \/ End(p)
  \/ WatchMaster(p)
=============================================================================

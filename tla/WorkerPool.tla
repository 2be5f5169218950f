----------------------------- MODULE WorkerPool -----------------------------
(***************************************************************************)
(* What a wox server promises about the retirement of its workers: a       *)
(* worker is told to quit only after a reload has superseded it and some   *)
(* worker forked by a reload has announced that it takes over, or because  *)
(* the server stops.  Workers may leave (crash) at any time.  Several may  *)
(* be superseded, or told, at once.                                        *)
(*                                                                         *)
(* Wox implements this specification one worker at a time; WoxConf, whose  *)
(* reloads and takeovers are single steps, many at a time.                 *)
(***************************************************************************)
CONSTANT Pid

VARIABLES
  status,     \* "none", "active", "superseded", "told" or "gone"
  announced,  \* the workers that have announced their takeover
  stopping    \* the server has been asked to stop gracefully

poolVars == <<status, announced, stopping>>

Present == {"active", "superseded", "told"}

PoolInit ==
  /\ status = [p \in Pid |-> "none"]
  /\ announced = {}
  /\ stopping = FALSE

Move(S, from, to) ==
  /\ \A p \in S : status[p] \in from
  /\ status' = [p \in Pid |-> IF p \in S THEN to ELSE status[p]]

Spawn(p) == Move({p}, {"none"}, "active") /\ UNCHANGED <<announced, stopping>>

Supersede(S) == Move(S, {"active"}, "superseded") /\ UNCHANGED <<announced, stopping>>

Announce(p) ==
  /\ status[p] \in Present
  /\ announced' = announced \cup {p}
  /\ UNCHANGED <<status, stopping>>

Tell(S) ==
  /\ \/ announced # {} /\ Move(S, {"superseded"}, "told")
     \/ stopping /\ Move(S, {"active", "superseded"}, "told")
  /\ UNCHANGED <<announced, stopping>>

Leave(p) == Move({p}, Present, "gone") /\ UNCHANGED <<announced, stopping>>

Stop == stopping' = TRUE /\ UNCHANGED <<status, announced>>

PoolNext ==
  \/ Stop
  \/ \E p \in Pid : Spawn(p) \/ Announce(p) \/ Leave(p)
  \/ \E S \in SUBSET {p \in Pid : status[p] \in {"active", "superseded"}} : Supersede(S) \/ Tell(S)

PoolSpec == PoolInit /\ [][PoolNext]_poolVars
=============================================================================

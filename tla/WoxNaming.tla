------------------------------ MODULE WoxNaming -----------------------------
(***************************************************************************)
(* The server of Wox and its address in the registry (naming/registry.go,  *)
(* worker.go register).  All workers of a host register the same key, the  *)
(* address of the host, each under a lease of its own: the key belongs to  *)
(* the lease of the worker that put it last, and goes when that lease      *)
(* does.  A worker puts the key when it boots, and never again.  A lease   *)
(* without the key is of no consequence and has no state here.             *)
(***************************************************************************)
EXTENDS Wox

CONSTANT MaxLeaseLosses  \* bound: leases lost by workers that go on

ASSUME LeaseAssumption == MaxLeaseLosses \in Nat

NoLease == NoPid

VARIABLES
  registered,  \* the workers whose Register has returned
  key,         \* whose lease the key belongs to, or NoLease: there is no key
  leaseLosses

namingVars == <<registered, key, leaseLosses>>
allVars == <<vars, namingVars>>

NamingTypeOK ==
  /\ registered \subseteq Pid
  /\ \A p \in Pid : Serving(p) => p \in registered
  /\ key \in registered \cup {NoLease}
  /\ leaseLosses \in 0..MaxLeaseLosses

NamingInit ==
  /\ Init
  /\ registered = {}
  /\ key = NoLease
  /\ leaseLosses = 0

\* Mutant: the key is put once and kept by its first owner.
RegisterOnce(p) ==
  /\ wk[p] = "boot" /\ p \notin registered
  /\ registered' = registered \cup {p}
  /\ key' = IF key = NoLease THEN p ELSE key
  /\ UNCHANGED <<vars, leaseLosses>>

\* Register: Grant, KeepAlive and Put, which takes the key over from the lease
\* it was under.  When etcd fails or takes two seconds the process ends (Crash).
Register(p) ==
  /\ wk[p] = "boot" /\ p \notin registered
  /\ registered' = registered \cup {p}
  /\ key' = p
  /\ UNCHANGED <<vars, leaseLosses>>

\* Mutant: Put without WithLease.
ExpireNever(p) == Exited(p) /\ key = p /\ UNCHANGED allVars

\* The process is gone and its lease has run out: etcd deletes the key.
Expire(p) ==
  /\ Exited(p) /\ key = p
  /\ key' = NoLease
  /\ UNCHANGED <<vars, registered, leaseLosses>>

\* The worker could not renew its lease in time; it only logs that.
LoseLease(p) ==
  /\ leaseLosses < MaxLeaseLosses
  /\ Running(p) /\ key = p
  /\ key' = NoLease
  /\ leaseLosses' = leaseLosses + 1
  /\ UNCHANGED <<vars, registered>>

\* Mutant: run does not wait for Register.
RegisteredOrNot == TRUE

\* run goes on when Register has returned.
Registered == \A p \in Pid : wk[p] = "boot" /\ wk'[p] = "starting" => p \in registered

NamingNext ==
  \/ Next /\ Registered /\ UNCHANGED namingVars
  \/ \E p \in Pid : Register(p) \/ Expire(p) \/ LoseLease(p)

NamingSpec == NamingInit /\ [][NamingNext]_allVars

\* etcd answers and leases run out; a worker starts once it has registered.
NamingFairness ==
  /\ \A p \in Pid : /\ WF_allVars(Register(p))
                    /\ WF_allVars(Expire(p))
                    /\ WF_allVars(WorkerStep(p) /\ Registered /\ UNCHANGED <<masterVars, namingVars>>)

NamingFairSpec == NamingSpec /\ NamingFairness
-----------------------------------------------------------------------------
\* While no worker crashes and no lease is lost, and until the server stops,
\* the address stays in the registry as long as a worker serves that was not
\* told to quit: across a reload it never depends on a worker that leaves.
KeyKept ==
  /\ crashes = 0 /\ leaseLosses = 0 /\ ~Stopping
  /\ \E p \in Pid : Serving(p) /\ ~Told(p)
  => key # NoLease

\* Once everything has settled the address is there and belongs to a worker
\* that stays, also when the worker that had put it crashed, unless a lease was
\* lost or a fork failed.
KeySettled ==
  Settled /\ leaseLosses = 0 /\ forkFails = 0 => key # NoLease /\ children[key] = "alive"

\* When the master is gone the address of its server leaves the registry.
KeyGoes == ~masterUp ~> key = NoLease
=============================================================================

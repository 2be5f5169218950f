# Verification of wox

wox is a Go library for HTTP servers. A program that uses it runs as a *master*
process and several *worker* processes. The workers serve HTTP on the same
address (`SO_REUSEPORT`). The master forks them, replaces those that crash,
reloads them on SIGHUP or when a watched etcd key changes, and stops them. A
worker and the master talk over a Unix socket pair.

This directory holds TLA+ models of that code, the TLC runs that check them on
small instances, and proofs checked by TLAPS.

## 1. Inventory

| Component | State | Operations | Source |
|---|---|---|---|
| Master | `children` (pid -> alive, reload, quit, crash), `uc` (pid -> connection), `stats`, pid file | `run`, `fork`, `waitWorker`, `watchChildren`, `watchTarget`, `watchSignal`, `readMsg`, `reload`, `notifyWorker`, `graceful`, `rough`, `doStatus`, `doStats` | `master.go` |
| Worker | its goroutines, `exitCh`, wait group, socket | `run`, `readMsg`, `watchStats`, `watchMaster`, `notifyMaster`, `register` | `worker.go` |
| Socket protocol | bytes in flight | `readMsg` (one recvmsg of 1024 bytes, one message decoded), `WriteMsgUnix` of stats, takeover, quit | `server.go` |
| Statistics | `requests.Data`, `statsCh` (100), `stats.Worker`, `stats.Master` | count a request, `calcQPS`, `watchStats`, `resetWorker`, `doStats` | `http.go`, `stats.go`, `decorator.go` |
| HTTP server | listener, handlers, proxy counter, limits | `AddHandler`, `AddProxyUpstream`, `Serve`, `Close`, `withLimit`, `withParse` | `http.go`, `decorator.go` |
| Configuration | the key in etcd, the file `confPath` | `Save` (get, truncate, write), `NewConf` (read), `Watch` | `confcenter/`, `server.go` |
| Naming | etcd keys and leases | `Register`, `Resolve`, `Watch` | `naming/` |
| Pid file | `pidPath` | `savePID` (`O_EXCL`), `removePID`, `watchMaster` | `master.go`, `worker.go` |
| Upstream client | round-robin counter, hash ring, circuit breaker | `NewRequest` | `upstream.go`, `client.go` |
| Listener, tracing, options, errors, examples, page | none that changes | library and system calls | the rest |

How they interact: the master calls `ForkExec`, so a worker is the same program
with `FORK=1` and `REASON` in its environment. The worker writes statistics and,
if `REASON` is reload, a takeover message; the master writes the quit message.
The master learns of a death from `Wait`, the worker of the master's from
`Getppid`. Inside the master, goroutines share `children` and `uc`, two
`sync.Map`s, with no lock around a load and the store that depends on it.

What is hard here:

* the goroutines of the master interleave inside `reload`, `fork`,
  `notifyWorker` and `watchChildren`; two reloads may run at once;
* a process exists before the tables know it;
* crashes at any point, of workers and of the master; forks that fail;
* a takeover that is read late, or dropped with the rest of a read buffer;
* signals lost while the watcher is busy;
* all processes of a start or a reload write and read one configuration file;
* all workers of a host share one key in the registry, each with its own lease;
* masters start, stop and die around one pid file that their workers read late;
* calls that are under way while the circuit breaker changes its state.

`PROJECT.json` lists each hazard at its line with the properties that watch it, or
with the reason why none does.

What makes each component correct:

* master and workers: the tables stay true to the processes; a reload replaces
  every worker without a moment in which nobody serves; the pool is as large as
  asked for when all is settled; nobody is retired without a successor; a worker
  that is told to quit ends; nobody outlives the master;
* statistics: no request is reported twice, the master's sum is that of its
  workers' last reports;
* HTTP server: a shut-down server ends, and answers what it has begun;
* configuration: no process starts from half a file;
* naming: the key of a host lives while a worker of the host serves, and goes with
  the server;
* pid file: at most one master; a restart succeeds; no worker takes its living
  master for dead;
* upstream: requests spread over the upstream's hosts; the breaker finds back.

## 2. Modules

```
WoxProcess      processes and messages: what the kernel and the sockets hold
  WoxWorker     the life of a worker
  WoxMaster     the master's goroutines and tables
    Wox         both composed; the properties; the inductive invariant
      MCWox     an assumption on the instances TLC checks
WorkerPool      abstract: when a worker may be retired; Wox implements it

WoxHTTP         a worker's HTTP server and its counters
WoxLink         the stream from a worker to the master
  WoxServing    one worker from the inside: its goroutines, with both of the
                above, and what the master does about it; it implements the
                worker of WoxWorker
    MCServing   an assumption on the instances TLC checks
    WoxServingProofs  the proofs about WoxServing
WoxSums         the sum of a function's values, for WoxServing and WoxStats
  WoxSumProofs  what the proofs need to know of sums

WoxNaming       EXTENDS Wox: the same server with its key in the registry
  MCNaming      an assumption on the instances TLC checks
  WoxProofs     the proofs about Wox (invariants, WorkerPool, the size and the
                continuity of the pool) and about WoxNaming
WoxConf         the configuration of all processes of a server; it implements
                WorkerPool too (MCConf, WoxConfProofs)
WoxPid          the pid file under several masters (WoxPidProofs)
WoxStats        the master's table of statistics (MCStats, WoxStatsProofs)
WoxUpstream     calls to an upstream (MCUpstream, WoxUpstreamProofs)
WoxBalance      the round robin of a proxy (WoxBalanceProofs)
```

There are two models of the server because its hard behaviours are of two kinds.
`Wox` has many workers and all interleavings of the master's goroutines, with a
worker as coarse as the master sees it. `WoxServing` has one worker with every
goroutine and every message. `ImplementsWorker` ties them together. The parts
that meet the server at one point only have modules of their own; `WoxNaming` is
composed with all of `Wox`, as what happens to the key depends on who lives.
`WoxConf` has a coarser master, whose reloads and takeovers are one step each;
that it retires workers as the one of `Wox` does is shown by `WorkerPool`, which
both implement.

### WoxProcess

| TLA+ | code |
|---|---|
| `wk[p]` | what the kernel knows of process `p`: `"unused"`, `"boot"` (forked, in `NewServer`, `newWorker` or `register`), `"starting"` (the goroutines of `run` run), `"serving"` (`run` waits), `"exit0"`, `"exitN"` |
| `reason[p]` | `REASON` in the environment of `p` |
| `takeover[p]`, `quitMsg[p]` | the one takeover message `p` may send; the first quit message for `p`. `"none"`, `"sent"` (in the socket), `"read"` |
| `masterUp` | the master process runs. When it is false its tables are frozen and no property speaks of them |

### WoxWorker

`StartGoroutines`, `NotifyMaster`, `ReadQuit`, `End`, `WatchMaster` are the
steps of `run`, `readMsg` and `watchMaster`. `readMsg` already runs when the
takeover is written, so a worker may read its quit first. `Crash` is any death
with a status other than 0.

### WoxMaster

Each goroutine that works on the tables is a *thread*: `main` (the forks of
`run`), `watchChildren`, `watchSignal`, and one per watched target. `waitWorker`
and `readMsg` run once per worker and need no thread: `waiting` and `reader` say
where they are.

| TLA+ | code |
|---|---|
| `children[p]`, `uc` | `m.children` (`"absent"`: not in the map), `m.uc` |
| `pc[t]` | `"idle"`, in the Range of `reload` (`"mark"`), in a `fork` (`"fork"`), before `children.Delete` (`"delete"`), in `graceful` (`"quitAll"`) or in `rough` (`"killAll"`) |
| `todo[t]`, `rtodo[p]` | the keys the thread's (the reader's) Range has still to visit |
| `held[t]` | the pid between a load and the store after it: in `reload` between reading alive and storing reload, in `fork` between `ForkExec` and `children.Store` |
| `left[t]` | iterations left of the loop around `fork` |
| `dead` | the pid `watchChildren` handles |

| action | code |
|---|---|
| `ForkExec`, `ForkStore`, `ForkFails` | `fork`, in the loops of `run` and `reload` and in `watchChildren` |
| `WaitWorker` | `waitWorker` |
| `VisitDead`, `DeleteDead` | a visit of `watchChildren`'s Range that finds crash or quit |
| `ReadTakeover`, `NotifyStart`, `NotifyReload`, `LoseTakeover` | `readMsg` of the master and the `notifyWorker` it calls |
| `Reload`, `ReloadLoad`, `ReloadStore`, `ReloadMarked` | `reload` |
| `Graceful`, `GracefulNotify`, `Rough`, `RoughKill`, `MasterExit` | `watchSignal`, `graceful`, `rough` |
| `MasterKilled` | the master dies |

What is abstracted, and why that is sound:

* `sync.Map.Range` visits the keys present when it starts and loads each value
  at the visit; that is how Go implements it for keys that are stored meanwhile.
  Each visit is a step. Visits that do nothing are not modelled in
  `watchChildren`.
* `aliveWorkers` counts in one step. During its Range a worker can only drop out
  of the count (a key stored later is not visited, and no state becomes alive
  again except a dead entry revived by a late store of `reload`), so the number
  it finds was the number at some moment of the Range.
* The stores of `uc` and `children` at the end of `fork` are one step. The only
  reader of both is `notifyWorker`, which comes to a pid through `children`,
  stored second.
* Timers are nondeterminism: a tick may come at any time.
* Pids are not reused. The kernel hands them out in increasing order; the models
  take the smallest unused one.
* `children.Store(crash)` and `children.Store(quit)` stand for their goroutine's
  `Wait` as well: the kernel's exit status is `wk`.
* A closed connection ends the other side's `readMsg`; a worker that meets one
  exits with status 1, as `WatchMaster` or `Crash` does. When `graceful` closes
  its connections just before it exits, such a death is `WatchMaster` a moment
  early.
* The program returns from `main` when `Go()` returns, as `example/echo` does.
  (The dispatch examples block for ever instead, so their retired workers never
  exit; that is the example's choice, not the library's.)
* Statistics messages are left out of `Wox`, except that their bytes may swallow
  a takeover (`LoseTakeover`); `WoxServing` has them.

### WorkerPool

A worker is active, then superseded by a reload, then told to quit, then gone. It
may be told only when superseded and when some worker has announced a takeover,
or when the server is stopping gracefully. Several workers may be superseded or
told in one step. `Wox` and `WoxConf` implement it. The mapping in `Wox`
(`PoolStatus`) reads a worker's status off `wk`, `quitMsg` and `children`, and
moves one worker at a time; in `WoxConf` a reload supersedes and a takeover tells
all the workers concerned at once, and the workers of a reload that have come to
serve are those that have announced themselves.

### WoxHTTP, WoxLink, WoxServing

| TLA+ | code |
|---|---|
| `run`, `reader`, `watcher`, `serve` | the goroutine of `run` and the three it waits for: `readMsg`, `watchStats`, `Serve` |
| `exitCh`, `shut`, `timedOut` | `exitCh` is closed; how far `Close` is, and whether `Shutdown` ran into its ten seconds |
| `conns`, `inflight` | connections that wait for a request, requests being handled |
| `count`, `data` | `httpRequestCount`; `requests.Data` of the one endpoint |
| `qps`, `out`, `statsCh`, `taken` | `calcQPS` between its two critical sections, the channel, and what `watchStats` has taken |
| `stream` | the bytes in the socket, each unit a part of a message |
| `mreader`, `entry`, `reported` | the master's `readMsg` for this worker, the worker's entry in `children` and `stats.Worker`, and the sum of what was stored there |

`MasterReads` is one turn of the master's loop: one recvmsg of at most `BufSize`
units (1024 bytes in the code), the decoding of the first message in them, and
what the message does. The rest of the buffer is forgotten, so a second message
in it is lost, and one that the buffer cut off leaves a tail that the next read
cannot decode: `readMsg` breaks its loop, and nobody reads this worker again.
Statistics that come after `watchChildren` has deleted the entry make
`resetWorker` dereference nil: the master panics (`masterUp`).

What is abstracted:

* the bytes in the middle of a message never decode as a message;
* a write goes into the socket in one piece when there is room for it and waits
  otherwise. Sizes count units, not bytes: what matters is whether a read ends
  inside a message;
* net/http: `Serve` returns once the server is closed, also if it is called after
  that (it fails with `ErrServerClosed`); `Shutdown` closes the connections that wait, waits for
  the requests in flight and gives up after ten seconds. With HTTP/2 `Close` only
  closes the listener;
* the two counters of a request go up in one step; the requests that go through
  `AddProxyUpstream` are counted in the same way and answered like any other;
* local variables are forgotten when they are dead (`out`, `taken`).

### WoxNaming

| TLA+ | code |
|---|---|
| `registered` | the workers whose `Register` has returned |
| `key` | whose lease the key of the host is under; `NoLease`: no key |
| `Register` | `naming.Registry.Register`: grant, keep alive and put. `run` waits for it (`Registered`) |
| `Expire`, `LoseLease` | etcd deletes the key with its lease: the owner is gone, or could not renew in time, which it only logs |

A lease that lost the key to a later put has no more effect, so only the last
owner is state. Its keep-alive ends with the process, `Expire` comes some time
later. A registration that fails ends the process: that is `Crash` of `WoxWorker`.

### WoxConf

| TLA+ | code |
|---|---|
| `etcd`, `Change` | the key; somebody sets it or deletes it |
| `Get`, `Open`, `Write`, `ReadConf` | `Resolver.Save` (get; open with `O_TRUNC`; write) and `NewConf`, in `NewServer` of every process; `Get` and `Open` may fail (`Fails`), and the process ends by `log.Fatal` |
| `file` | what was written over what, part by part |
| `Watch`, `pending` | `watchTarget`, which the master does not survive when its watch fails; an event it has not handled |
| `Fork`, `Replace`, `Reload`, `Announce`, `LoseTakeover`, `Quit` | `run`'s and `reload`'s forks, `watchChildren`, `reload`, a takeover with `notifyWorker`, a takeover that is dropped, a quit: `WoxMaster` in coarser steps |
| `ForkFails`, `forkFails` | a fork that fails: `run` ends by `log.Fatal`, `reload` and `watchChildren` log it and go on, the latter dropping the dead worker's entry |

One `Write` and one `ReadFile` are atomic (the file is smaller than a page and
Linux holds the inode's lock), the truncation is a step of its own. Versions may
differ in length, so that a shorter one written over a longer one leaves a tail.
The parser's verdict on a mixed file is open: it may serve or die. A write to the
open file is taken to succeed, as `Save` does, which looks at no error after the
open.

The master is coarser than that of `Wox` in two ways. The marking of a reload is one
step, and so are a takeover, the count of `aliveWorkers` and the Range of
`notifyWorker`, which in `Wox` are interleaved with everything else. With changes one
at a time little can come between them: no reload marks while takeovers of the last
one are unread, and what is stored meanwhile are new workers, in state alive, which
the Range skips, and deaths. And a worker that has come to serve does not crash here;
workers die while they boot. `NoStale` does not extend to such crashes with three
workers or more: a takeover handled while two superseded workers and the two others
of the reload are dead finds two instead of three, nobody is told to quit, and the
replacements announce nothing, so the third superseded worker stays. `Wox` has those
crashes (`NeverShort`).

### WoxPid

`mst` is where each master is between `savePID`, its forks, `removePID` and its
end; `file` is the creator of what `pidPath` leads to; a worker opens the file,
reads it and compares with `Getppid` at every tick (`WatchOpen`, `WatchRead`,
`WatchTick`). `Killed` is every end that leaves the file: kill, panic, `log.Fatal`.
`CleanUp` is an operator who removes such a file by hand, as the library offers no
other way to start again. Pids of masters are not reused while a worker lives
that expects them.

### WoxStats

`life` is the order in which `fork`, `waitWorker` and `watchChildren` treat a
worker; `worker`, `master` are the tables of `stats`; `ReadStats` is a statistics
message in the master's `readMsg`, `DoStats` the page. All of them hold the mutex
of `stats` while they touch it, and each section is a step. The names of endpoints
are never removed from a table, only their counts, as in the code.

### WoxUpstream

A caller is a goroutine in `NewRequest`: `Admit` (`beforeRequest` of the breaker),
`Choose` (the host, and the errors before the post), `Answer`, `Swallow`,
`TimesOut` (the post), each of the ends with `afterRequest`. The breaker is a
library; it is modelled from `NewUpstream`'s settings: its generations, its
counts and its three states. The interval and the time-out of the breaker may end
at any time. `counter` wraps at `Modulus`, 2^64 in the code.

`policy` is the ring or the round robin `NewUpstream` was asked for. `MaxUnbuildable`
bounds the calls that fail before the post.

### WoxBalance

`Director` of a proxy: an atomic counter modulo its width and the host it picks.

## 3. Properties

| property | what it says |
|---|---|
| `TypeOK` | types; in particular the loop of forks never goes below zero (a part of `IInv`) |
| `TableTracksRunning` | a running worker that is not inside a `fork` is in `children` as alive or reload, in `uc`, and waited for |
| `AliveNotTold` | a worker counted by `doStatus` has not been told to quit, unless the master stops gracefully |
| `AliveIsWaited` | a worker counted by `doStatus` runs, or its death is still to be recorded |
| `IInv` | the inductive invariant: the four above and what they need |
| `Continuity` | with reloads one at a time and no crash, somebody serves who has not been told to quit, even if forks fail and takeovers are lost |
| `NeverShort` | settled and without a failed fork, at least `workerNum` workers are alive, whatever crashes and reloads overlap |
| `PoolBounded` | settled, at most `workerNum` workers are alive for each goroutine that reloads, and one for each crash, however reloads overlap |
| `StatusCount` | settled and without a failed fork, exactly `workerNum` are alive (what `doStatus` calls 200) |
| `NoStaleEntry` | settled, every entry of `children` is of a running worker |
| `ImplementsPool` | `Wox` implements `WorkerPool`; `WoxConf` has a property of the same name |
| `NoOrphans` | when the master is gone every worker ends |
| `DeadForgotten` | every death is recorded and its entry leaves the tables, unless a late store of `reload` has brought the entry back |
| `ReloadEnds` | a superseded worker ends, unless a crash, a failed fork or a lost takeover came in between |
| `NeverOverReported` | what the master stored, with what is still on its way in `calcQPS`, `statsCh`, `watchStats` and the socket, is never more than the requests counted |
| `Drained` | a worker that was told to quit and ends by itself has answered every request it began, unless `Shutdown` timed out (HTTP/1) |
| `ReaderInSync` | the master's reader of a worker ends only with the worker, if never more gathers in the socket than one read takes |
| `ImplementsWorker` | the goroutines of `WoxServing` do what `WoxWorker` says of a worker |
| `WorkerEnds` | a worker told to quit ends, unless the master's reader has stopped |

| module | property | what it says |
|---|---|---|
| `WoxNaming` | `NamingTypeOK` | types; a serving worker has registered, and the key is under a registered worker's lease |
| | `KeyKept` | without crashes and lost leases, until the server stops, the key is there while somebody serves who was not told to quit, across every reload |
| | `KeySettled` | settled, the key is under the lease of a worker that stays, also after crashes |
| | `KeyGoes` | the key of a server whose master is gone goes |
| `WoxConf` | `ServesWhole` | nobody serves a mixture of two versions, though all processes of a reload write the file at the same time |
| | `Fresh` | settled, every worker counted alive serves what is in etcd, and at least `WorkerNum` are, but for one for each fork that failed |
| | `NoStale` | settled after a reload one of whose takeovers got through, and with at most one failed fork, nobody serves an older configuration, superseded workers included |
| | `ImplementsPool` | `WoxConf` implements `WorkerPool`: whoever is told to quit was superseded, and a worker of a reload serves |
| `WoxPid` | `OneMaster`, `OwnFile` | one master holds the file, and from its first fork to its removal it is there and names it (`OwnFile` and `TypeOK` are parts of `IInv`) |
| | `CleanStop` | without kills, a file at the path is a running master's |
| | `NoFratricide` | `watchMaster` ends no worker whose master holds the file |
| | `OrphansEnd` | a worker whose master is gone ends, although a new master's file may be in the place |
| `WoxStats` | `PageAddsUp` | the totals of the page are the sums of its parts, whoever came and went |
| | `NoEarlyPanic` | a step in which the master dies reads the message of a worker whose entry is deleted, never one that comes before the entry (an action property) |
| `WoxUpstream` | `HalfOpenWaits` | a half-open breaker that lets nobody through waits for a call of its present generation, whose end will count, whatever calls of earlier generations still end |
| | `Recovers` | when all hosts are well for good the breaker closes for good |
| | `NoFlapping` | while no host answers the breaker stays closed, or stays away from closed |
| `WoxBalance` | `EvenSpread` | hosts differ by one request, and one more for each wrap of the counter |

*Settled* means that no thread is at work, no message is unread, no death
unrecorded and no recorded one unhandled.

## 4. Runs

All runs but `upstream` use `CHECK_DEADLOCK FALSE`: when the bounds are used up,
or the master and the workers are gone, nothing is left to do. Callers of an
upstream go on for ever, so there TLC looks for deadlocks as well.

| run | instance | shows |
|---|---|---|
| `faults` | 1 worker, 4 pids, SIGHUP and one target, 2 reloads, 1 crash, 1 failed fork, 2 lost takeovers | `IInv` with `TypeOK`, `NeverShort`, `PoolBounded` under overlapping reloads and faults |
| `stops` | 1 worker, 3 pids, SIGHUP and one target, 1 reload, 1 crash, all three ways to stop, fair | with a stop at any point, the invariants of the tables, the refinement, and that reloads, deaths and stops come to their end |
| `spaced` | 2 workers, 6 pids, 2 reloads each asked for in a settled state, 1 failed fork, 1 lost takeover, with the registry | `Continuity`, `StatusCount`, `NoStaleEntry`, and `KeyKept` with two workers on the key |
| `naming_faults` | 1 worker, 4 pids, 2 spaced reloads, 1 each of crashes, failed forks, lost takeovers, lost leases, the death of the master, fair | `KeySettled`, `KeyGoes` |
| `serving` | 2 connections, 2 requests, HTTP/1, a socket larger than a read, so that reads cut messages and lose some | `Drained`, `NeverOverReported`, `ImplementsWorker`, and `WoxServing`'s `TypeOK` |
| `serving_live` | 1 connection, 1 request, HTTP/2, cut messages, fair | `WorkerEnds`, `ReaderInSync` |
| `pid` | 3 masters, 2 workers, 1 kill, fair | the safety of the pid file, and `OrphansEnd` |
| `conf` | 2 workers (3 asked for, 2 CPUs), 6 pids, 2 versions of lengths 2 and 1, 2 changes, 1 failed fork, 1 lost takeover | `ServesWhole`, `Fresh`, `NoStale`, `ImplementsPool` |
| `stats` | 2 workers, 2 endpoints, counts 0 and 1, symmetric | `PageAddsUp`, `NoEarlyPanic`, and `WoxStats`'s `TypeOK` |
| `upstream` | 3 callers, 2 hosts by round robin or on a ring, a call that cannot be built, a read time-out, fair | `HalfOpenWaits`, `Recovers`, `NoFlapping`, and `WoxUpstream`'s `TypeOK` |
| `balance` | 3 hosts, a counter modulo 8, 150 requests | `EvenSpread` over many wraps |
| `overlap` | 1 worker, 2 reloads that may overlap, no faults | **violation** of `StatusCount`, see Findings |

Bounds: `MaxReloads`, `MaxForkFails`, `MaxCrashes`, `MaxLosses` bound how often the
environment acts; `Pid` is large enough for every fork they allow, so no fork
waits for want of a pid (`PidsSuffice`, which TLC evaluates). Two reloads are the
fewest that overlap, and the hazards found need two threads and one dead worker.
One worker wanted makes every count a boundary; `spaced` wants
two, so that a reload has several takeovers and the first of them finds the old
and the new generation mixed. `SpacedReloads` states the assumption under which
continuity and the exact count hold; without it both fail (see Findings).

Fairness (`Fairness` in `Wox`): weak fairness of each thread, of the goroutines
of each worker and of each worker process. The Go scheduler and the kernel run
whatever can run. Nothing is assumed of the environment: crashes, signals,
reloads, failed forks and lost takeovers may happen or not.

In `WoxServing`, `Fairness` is weak for the worker's goroutines and the
master's reader, and strong for `WatcherExits`: a `select` with two ready cases
chooses at random, so it does not take statistics for ever when `exitCh` is
closed. Nothing is assumed of clients, of handlers (`Shutdown` has its time-out)
or of the master's other steps. A channel of capacity 1 instead of 100 blocks
`calcQPS` sooner; two requests are enough for one to fall between the marshal and
the reset of the other's tick; the socket holds two statistics messages and the
buffer one and a half, the smallest sizes at which a read ends inside a message.
`ReaderInSync` has the assumption in its statement: a worker writes one short
message a second, and a master that is not late by many seconds keeps up. The
socket of the runs holds more, so both sides of the assumption occur.

The parts beside the server: `conf` has pids for a start and two reloads, or for a
start and one reload and two replacements; a worker that dies while booting and
finds no pid is left unreplaced, and that is no settled state. The lengths of the
versions make both directions of overwriting matter. Three
masters are the fewest with one that is killed, one that fails to start, and one
that succeeds after a clean-up. In `upstream` the breaker trips at three requests
with six tenths failed and closes after two successes, so three callers can
overlap every change of its state; `MaxCount` caps what one interval counts, at
the trip. The counter modulo 4 wraps within a behaviour. In `balance` 8 is no
multiple of 3, so each wrap costs one request; a test with 2^64 never gets there.

Assumptions stated as constants: `SpacedChanges` and `SpacedReloads` (one change
or reload at a time) are needed: `ServesWhole`, `Fresh` and `KeyKept` fail without
them. `ReadTimeout` is needed for `Recovers`: without one a call that a hanging
host has swallowed keeps its place in a half-open breaker for ever.

Fairness of `WoxUpstream`: callers keep coming, a call goes on, the time-out of an
open breaker passes; the end of an interval is not assumed. `WoxPid`: the goroutine
`watchMaster` runs. `WoxNaming`: etcd answers, a lease whose owner is gone runs
out, and the worker's steps are fair as in `Wox`.

Every property of a passing run has a mutant: a definition of the model changed
as a bug would change the code (the operators marked *Mutant*), with which TLC
finds the property violated. They are not part of the specification.

## 5. Findings

`overlap`: `doStatus` takes every number of alive workers other than `workerNum`
for a fault (`master.go:363`, `"WorkersNum is %d, not %d\n"`). Two reloads that
overlap, which nothing in the code prevents, leave up to twice as many: each
forks `workerNum` workers, and the workers the second one stores after the
takeovers of the first are never retired. `NeverShort` and `WorkerPool` hold all
the same: the pool is too large, never too small. Nor does it grow with every
overlap: a reload marks all it finds, so what stays is at most the workers of one
reload for each goroutine that reloads (`PoolBounded`).

More limits of the code show in the assumptions. Of `serving_live`: with more than
1024 bytes in the socket the reader may stop, the socket fills, and `watchStats`
then blocks in its write for ever, so that a worker told to quit does not end
(`ReloadEnds` of `Wox` holds while the master reads). Of `Drained`: with HTTP/2
requests in flight are abandoned, and so are those of a worker that sees its
master gone two seconds after a graceful stop. Of `NeverOverReported`: the other
direction fails, requests counted between the marshal and the reset of `calcQPS`
are never reported. Two more limits show in the assumptions of `spaced`:

* `Continuity` and `StatusCount` are checked and proved for reloads asked for one
  at a time. When a takeover of one reload is handled after the next reload has
  marked the workers, every worker is in state reload and all of them are told
  to quit.
* `Continuity` and `NoStaleEntry` are checked and proved without crashes. With one, the
  store in `reload` may put a dead worker back into the tables for good, and a
  worker forked to replace one that crashed before its takeover announces none.

Of the other modules:

* each process truncates the configuration file (`confcenter/resolver.go:36`)
  before it writes it. Another worker of the same start may read it in between:
  an empty file parses as a configuration without an address, and `GetLocalAddr`
  panics (`naming/registry.go:84`). In `WoxConf` such a worker dies while it boots
  (`ReadConf`) and is replaced; `Fresh` shows that the pool recovers all the same;
* `withLimit` (`decorator.go:67`) makes a new limiter, full of tokens, for each
  request, so that the option of `http.go:172` refuses nobody and `return Err503Rsp`
  (`decorator.go:72`) is never reached;
* a call of an upstream without a read time-out that meets a host that hangs keeps
  its place in a half-open breaker for ever.

## 6. Proofs

`WoxProofs` proves, for every `Pid`, `Target`, `WorkerNum`, `StopSignal` and all
bounds (the assumptions `PidAssumption`, `MasterAssumption`, `CrashAssumption`; the
watched targets are finitely many, `WorkerNum` is not 0):

* `TypeOKHolds`: `Spec => []TypeOK`;
* `InvCorrect`: `Spec => []IInv`, and from its part `TableInv` `RunningTracked`,
  `AliveUntold`, `AliveWaited`.

`TypeOK` needs `LoopInv`: a thread in a fork has one left, or `left` would become
negative. The three invariants of the tables are not inductive. A store of
`fork` keeps them only if nobody else knows the new process (`ForkInv`), which
holds because a new pid was never used (`UnusedInv`) and a thread only holds a
pid between its load and its store (`HeldInv`). The deletion in `watchChildren`
keeps them only if the deleted worker is dead (`DeathInv`), which is not a matter
of its state in the tables: a late store of `reload` may have changed it.
`TableInv` is their conjunction, `IInv` adds `TypeOK`; `InvStep` has one step per
action. The actions that share `ForkReturns` or `NotifyWorker` use a lemma about it.

Its second part is `WoxImplementsPool`: `Spec => ImplementsPool`. Besides
`IInv` it needs `AnnounceInv`: a goroutine that retires workers has read a
takeover. `PoolStep` names the move of `WorkerPool` each action makes: a fork
spawns, a store of reload supersedes, a visit of `notifyWorker` tells, a death
leaves, the first message of a reloaded worker announces, and all others stutter.

The third part is about the pool. `NeverShortHolds`, `Spec => []NeverShort`, counts
two sets. `Counted` are the workers alive in the tables and the crashes
`watchChildren` has not turned to; `Owed` has a pair for each iteration a loop of
forks has left. `CreditInv`: together they are never fewer than `WorkerNum`, unless
a fork failed, the master stops gracefully, or a reload is marking. A store of
`fork`, a crash and the visit to it move one from one set to the other; a reload
that has marked owes `WorkerNum` by itself, whatever other reloads do meanwhile.
The deletion of an entry takes nothing away because a late store of `reload` makes
no dead worker alive (`AliveIsWaited`, `DeathInv`), and an orderly end takes
nothing away because the worker had been told (`EndInv`, `AliveNotTold`). So it is
the other invariants that make the count work.

`PoolBoundedHolds`, `Spec => []PoolBounded`, counts from above, and there no reload
may be left out: they may overlap in any number. What bounds them is that a reload,
when it starts, has still to mark everything alive (`BeingMarked`), and so takes
over the whole pool but for what others fork after it. `Kept` is what is alive and
not about to be marked, `Due` has the iterations of all loops of forks, those of
the reloads that still mark included, and `Fallen` the crashes to be replaced.
`Budget`: `Kept`, `Due` and `Fallen` are together at most `WorkerNum` for each
goroutine that reloads (`Slots`), and one for each crash. A start of a reload empties
`Kept`, and all that can be due then is `Slots` and the one fork of `watchChildren`,
which a crash has paid for (`Handled`). Every other step moves one from `Due` to
`Kept` or from `Fallen` to `Due`, or takes away. It holds until the master kills its
workers (`Tended`), when a death need not be a crash; `CrashInv` says that before
this only a crash is recorded as one.

The rest is under `SpacedReloads = TRUE`, an assumption without which it fails (see
Findings), while no worker has crashed and the master is not stopping (`Calm`):

* `ContinuityHolds`: `Spec => []Continuity`, with failed forks and lost takeovers.
  The argument follows one reload through `SpacedInv`. While it marks, nothing else
  is under way and every worker that is alive is still to be marked (`MarkInv`), so
  the workers it supersedes all serve and none is told (`StartInv`). A takeover can
  only come from a worker of that reload, which serves, is not superseded and not
  told (`AnnouncerInv`); as `notifyWorker` tells only superseded workers, the
  announcer is the one that goes on serving. `OrderlyInv` excludes the ends and the
  forks that would break this;
* `StatusCountHolds`: `Spec => [](crashes = 0 => StatusCount)`. One bound is
  `NeverShort`, the other `UpperInv`: `Counted` and `Owed` together are never more
  than `WorkerNum`. It is the spacing that makes a reload start from no owed fork;
* `NoStaleEntryHolds`: `Spec => [](crashes = 0 => NoStaleEntry)` from `ReloadWaited`
  and `AliveWaited`.

`WoxServingProofs` proves, for all constants with `HTTPAssumption`,
`LinkAssumption` and `ReasonAssumption`:

* `DrainedHolds` from `ServingInv`: `run` returns after the reader, the reader
  after `Close`, and a `Shutdown` in time leaves no connection on which another
  request could begin;
* `GoroutinesImplementWorker` (safety: each step is one of `WoxWorker` or of the
  master), from the same invariant: `End` needs to know that the quit message was
  read;
* `ReaderInSyncHolds` from `LinkInv`: the stream begins with a whole message. A
  write keeps that (`WriteWhole`) and a read takes all there is (`ReadWhole`);
* `NeverOverReportedHolds` and `TypeOKHolds` from `PassedInv`, without any
  assumption on the sizes: what `calcQPS` has passed on (`Passed`: stored, in the
  socket, in `statsCh`, taken) together with the present count is at most the
  requests, and between the send and the reset what was passed on is at most that
  by itself. A write adds the value of its message to the stream once, in its first
  part (`WriteSum`); a read takes out at least what it stores, whatever it drops
  (`ConsumeSum`). `TypeOK` needs the same invariant: that `reported` stays in its
  range is a consequence.

`WoxSumProofs` has the facts about sums. A sum is a fold over a finite set, which is
a recursive function on its subsets; that there is one is shown by taking a smallest
subset for which there is none (`SubsetInduction`, `SumsExists`). From this follow
what the proofs use: a sum is a number, any element can be taken out first
(`SumRemove`), and sums of appended and concatenated sequences add up (`SumAppend`,
`SumConcat`).

`WoxStatsProofs` proves, for finite sets of workers and endpoints and any counts
(`StatsAssumption`): `TypeOKHolds`; `PageAddsUpHolds`, from `EntryInv` (the total of an
entry is that of its endpoints) and `SentInv` (a message names all the endpoints of its
worker's entry, so that `resetWorker` followed by the new counts leaves no old one
behind); and `NoEarlyPanicHolds`, `Spec => NoEarlyPanic`, an action property: from
`fork` to `watchChildren` a worker has an entry (`TypeOK`), so the step that finds
none reads what a deleted worker left.

`WoxPidProofs` proves, for all constants with `PidFileAssumption`, `TypeOKHolds`,
`InvHolds` (`IInv`), `OneMasterHolds`, `CleanStopHolds` and `NoFratricideHolds`.
`NoFratricide` needs the most: a worker's parent wrote its pid before it forked
(`ParentInv`), so that what the worker opened while its master holds the file is
the master's own (`OpenInv`).

`WoxBalanceProofs` proves `EvenSpreadHolds` for every number of hosts and every
`Modulus`, 2^64 included. The invariant says how the requests of the present turn
of the counter are spread: host `h` has had one for each counter value congruent
to it, and each wrap leaves a difference of at most one.

The fourth part of `WoxProofs`, with `LeaseAssumption`, is about the server with its
key. Each step of `WoxNaming` is one of `Wox` or touches the key alone (the lemma
`NamingImplementsWox`), so the invariants of `Wox` may be used; `NamingTypeOKHolds`.
With `SpacedReloads = TRUE` there are two more:

* `KeyKeptHolds` from `KeyInv`: the key is under the lease of a running worker that
  was not told to quit, and if a reload has superseded that worker, none of its
  successors has registered. A successor registers before it announces itself, and
  takes the key over by that, so the old owner is told only after the key has left it;
* `KeySettledHolds`, with crashes, from `SettleInv`: the key is under the lease of a
  worker that stays, or somebody will still register: a reload is marking, a fork is
  to come, a crash is to be made up for, or a worker boots. `StartedInv` says that no
  worker is superseded while it boots.

`WoxConfProofs` proves, under `ConfAssumption`, `TypeOKHolds` and `EnoughHolds`
(the workers counted alive, the forks still to make and the forks that failed are
never fewer than `WorkerNum`: a failed fork in `watchChildren` or in `reload` takes
one from the first two), and with `SpacedChanges` `ServesWholeHolds`, `FreshHolds`
and `NoStaleHolds`. The
invariant follows the file through a boot: as long as a process is between its
get and its read, nobody has a version other than the one in etcd (`BootInv`), so
what is in the file is that version or nothing (`FileInv`). `NoStale` needs to know
how many workers a takeover finds. `Elders` are the workers that serve and have no
takeover unread. When the change comes all who serve are elders and nothing else is
under way (`QuietInv`); they are as many as the pool but for the forks that failed,
and stay so while one of them is stale, as only a takeover tells them to quit
(`CrowdInv`). The announcer is none of them, so with one failed fork at most it finds
enough, and all the old ones are told (`FoundInv`). With three workers and two failed
forks the announcer may find one elder and itself, and `NoStale` fails: hence its
hypothesis. `ConfImplementsPool`, `Spec => ImplementsPool`, needs no spacing
and no knowledge of the file: a takeover is handled for a worker that serves and
was forked by a reload (`Heralds`), and such a worker is in `announced`.

`WoxUpstreamProofs` proves, for any callers, hosts, `Modulus` and settings of the breaker
(`UpstreamAssumption`): `TypeOKHolds` and `HalfOpenWaitsHolds` from `UpstreamInv`, and
`NoFlappingHolds`. The invariant counts the calls of the breaker's present generation:
those under way and those that failed, or succeeded, are never more than the breaker
has admitted in it (`CountInv`), and while it is half open it has seen only successes,
too few to close, and waits for all the others (`HalfInv`). Calls of earlier
generations, which still end, count for nothing. `NoFlapping` is a temporal formula
but needs no fairness: while every host fails or hangs no call succeeds, so a breaker
that is away from closed stays away from it (`StaysAway`), and one that never is was
closed all along.

Only model-checked: the liveness properties (`NoOrphans`, `DeadForgotten`, `ReloadEnds`,
`WorkerEnds`, `OrphansEnd`, `KeyGoes`, `Recovers`), which hold under fairness only. What
follows from fairness, as anything about ENABLED, is out of this prover's reach. Every
invariant, every action property and every refinement the runs check has a theorem. Some
theorems have a hypothesis on a constant, and it is the value the constant has in their
runs: `SpacedReloads` for `Continuity`, `StatusCount`, `NoStaleEntry`, `KeyKept` and
`KeySettled`, `SpacedChanges` for `ServesWhole`, `Fresh` and `NoStale`. `TypeOK` of
`WoxConf` is proved and in no run.

## 7. Plan

What a next step would model:

1. requests in flight against the two seconds of `graceful`;
2. servers that watch each other's registry keys, as several `WoxNaming`.

## 8. Not modelled

* The `SO_REUSEPORT` listener: system calls without state of their own.
* Tracing, metrics, errors, options, version, the statistics page and
  `doStatsHTML`: constants, calls of libraries, and layout.
* Parsing of requests and answers, beyond whether it fails.
* `withLimit`: it keeps nothing from one request to the next (see Findings).
* `GetLocalAddr` and `GetExternalAddr`: they look at network interfaces. Their
  assertion is a step of `WoxConf`.
* Servers that watch each other's keys, so that a reload of one reloads the
  other: a composition of several `WoxNaming`.
* The examples and tools are programs that use the library.

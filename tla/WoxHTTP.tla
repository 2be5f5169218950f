------------------------------ MODULE WoxHTTP -------------------------------
(***************************************************************************)
(* The HTTP server of a worker (http.go) and its statistics: Serve accepts *)
(* connections, a handler counts its request (withParse, decorator.go),    *)
(* calcQPS moves the count to the channel statsCh once a second, and Close *)
(* shuts the server down.  One endpoint is enough: each has its own count. *)
(***************************************************************************)
EXTENDS Naturals, Sequences

CONSTANTS
  Http2,       \* opt.HTTPVersion is "2.0"
  ChanCap,     \* capacity of statsCh
  MaxConns,    \* bound: connections at a time
  MaxRequests  \* bound: requests in a behaviour

ASSUME HTTPAssumption ==
  /\ Http2 \in BOOLEAN
  /\ ChanCap \in Nat \ {0}
  /\ MaxConns \in Nat
  /\ MaxRequests \in Nat

VARIABLES
  serve,     \* the goroutine of Serve: "off", "accept" or "returned"
  shut,      \* Close: "no", "drain" (in Shutdown) or "done"
  timedOut,  \* the ten seconds of Shutdown have passed
  conns,     \* connections that wait for a request
  inflight,  \* requests being handled
  count,     \* httpRequestCount, which is never reset
  data,      \* requests.Data of the endpoint
  qps,       \* calcQPS: "tick", "send" or "reset"
  out,       \* what calcQPS has marshalled and not sent (0: nothing)
  statsCh

connVars  == <<serve, shut, timedOut, conns, inflight>>
statsVars == <<data, qps, out, statsCh>>
httpVars  == <<connVars, count, statsVars>>

HTTPTypeOK ==
  /\ serve \in {"off", "accept", "returned"}
  /\ shut \in {"no", "drain", "done"}
  /\ timedOut \in BOOLEAN
  /\ conns \in 0..MaxConns
  /\ inflight \in 0..MaxConns
  /\ {count, data, out} \subseteq 0..MaxRequests
  /\ qps \in {"tick", "send", "reset"}
  /\ statsCh \in Seq(0..MaxRequests) /\ Len(statsCh) <= ChanCap

HTTPInit ==
  /\ serve = "off" /\ shut = "no" /\ timedOut = FALSE
  /\ conns = 0 /\ inflight = 0
  /\ count = 0 /\ data = 0
  /\ qps = "tick" /\ out = 0 /\ statsCh = <<>>

-----------------------------------------------------------------------------
\* Serve returns at once if Close came first, as it does when Close comes later.
Serve ==
  /\ serve = "off"
  /\ serve' = IF shut = "no" THEN "accept" ELSE "returned"
  /\ UNCHANGED <<shut, timedOut, conns, inflight, count, statsVars>>

ServeReturns ==
  /\ serve = "accept" /\ shut # "no"
  /\ serve' = "returned"
  /\ UNCHANGED <<shut, timedOut, conns, inflight, count, statsVars>>

Accept ==
  /\ serve = "accept" /\ shut = "no"
  /\ conns + inflight < MaxConns
  /\ conns' = conns + 1
  /\ UNCHANGED <<serve, shut, timedOut, inflight, count, statsVars>>

\* withParse up to the call of the handler, on a connection that is open.
HandlerStart ==
  /\ conns > 0 /\ count < MaxRequests
  /\ conns' = conns - 1
  /\ inflight' = inflight + 1
  /\ count' = count + 1
  /\ data' = data + 1
  /\ UNCHANGED <<serve, shut, timedOut, qps, out, statsCh>>

\* The response is written.  The connection stays open unless Shutdown has
\* been called; closing the listener, as with HTTP/2, does nothing to it.
HandlerEnd ==
  /\ inflight > 0
  /\ inflight' = inflight - 1
  /\ conns' = IF shut = "no" \/ Http2 THEN conns + 1 ELSE conns
  /\ UNCHANGED <<serve, shut, timedOut, count, statsVars>>

-----------------------------------------------------------------------------
Marshal ==
  /\ qps = "tick"
  /\ out' = data
  /\ qps' = "send"
  /\ UNCHANGED <<connVars, count, data, statsCh>>

SendStats ==
  /\ qps = "send"
  /\ Len(statsCh) < ChanCap
  /\ statsCh' = Append(statsCh, out)
  /\ qps' = "reset" /\ out' = 0
  /\ UNCHANGED <<connVars, count, data>>

\* Mutant: the counters go on from tick to tick.
NoReset ==
  /\ qps = "reset"
  /\ qps' = "tick"
  /\ UNCHANGED <<connVars, count, data, out, statsCh>>

Reset ==
  /\ qps = "reset"
  /\ data' = 0
  /\ qps' = "tick"
  /\ UNCHANGED <<connVars, count, out, statsCh>>

CalcQPS == Marshal \/ SendStats \/ Reset

-----------------------------------------------------------------------------
\* Mutant: the listener is closed and nobody waits for the handlers.
CloseListenerOnly ==
  /\ shut = "no"
  /\ shut' = "done"
  /\ UNCHANGED <<serve, timedOut, conns, inflight, count, statsVars>>

\* Close: Shutdown, or just the listener with HTTP/2.
Close ==
  /\ shut = "no"
  /\ shut' = IF Http2 THEN "done" ELSE "drain"
  /\ UNCHANGED <<serve, timedOut, conns, inflight, count, statsVars>>

\* Shutdown closes the connections that wait for a request, and returns when
\* none is left or after ten seconds.
ShutdownReturns ==
  /\ shut = "drain"
  /\ shut' = "done"
  /\ conns' = 0
  /\ timedOut' = (inflight > 0)
  /\ UNCHANGED <<serve, inflight, count, statsVars>>
=============================================================================

------------------------------ MODULE WoxLink -------------------------------
(***************************************************************************)
(* The way from a worker to the master: a Unix stream socket on which the  *)
(* worker writes messages (notifyMaster, worker.go) and which the master   *)
(* reads BufSize bytes at a time (readMsg, server.go).  Each read decodes  *)
(* the first message of its buffer and forgets the rest.  The stream is a  *)
(* sequence of units, each a part of a message.                            *)
(***************************************************************************)
EXTENDS Naturals, Sequences

CONSTANTS
  BufSize,      \* units of the buffer of readMsg
  SockCap,      \* units the socket holds before a write blocks
  StatsSize,    \* units of a statistics message
  TakeoverSize  \* units of a takeover message

ASSUME LinkAssumption ==
  /\ {BufSize, StatsSize, TakeoverSize} \subseteq Nat \ {0}
  /\ SockCap \in Nat
  /\ SockCap >= StatsSize /\ SockCap >= TakeoverSize

VARIABLE stream

Stats(v) == [typ |-> "stats", val |-> v]
Takeover == [typ |-> "takeover", val |-> 0]

Size(m) == IF m.typ = "stats" THEN StatsSize ELSE TakeoverSize

Units(m) == [i \in 1..Size(m) |-> [msg |-> m, part |-> i]]

\* A write goes into the socket as a whole, or waits.
HasRoom(m) == Len(stream) + Size(m) <= SockCap
WriteMsg(m) == HasRoom(m) /\ stream' = stream \o Units(m)

\* Mutant: the buffer is taken for two units smaller.
ReceivedShort ==
  SubSeq(stream, 1, IF Len(stream) < BufSize - 2 THEN Len(stream) ELSE BufSize - 2)

\* What one recvmsg returns: all that is there, as far as the buffer goes.
Received == SubSeq(stream, 1, IF Len(stream) < BufSize THEN Len(stream) ELSE BufSize)

\* The decoder needs the head of a message and all of it.
Decodes == Received[1].part = 1 /\ Len(Received) >= Size(Received[1].msg)
FirstMsg == Received[1].msg

Consume == stream' = SubSeq(stream, Len(Received) + 1, Len(stream))
=============================================================================

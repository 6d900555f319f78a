----------------------------- MODULE TcpSession ------------------------------
(***************************************************************************)
(* TcpServerSession (zNet/TcpServerSession.go): the goroutines receive,    *)
(* process and heartbeatCheck of one session, and its callers of Close and *)
(* Send.  The peer, the connection and the dispatcher are external.  The   *)
(* send queue is the one of OutboundQueue, of which only the length, the   *)
(* token of ready and closed matter here.                                  *)
(***************************************************************************)
EXTENDS Naturals

CONSTANTS ChanSize,    \* capacity of receiveChan and of the send queue
          MaxPackets,  \* bound: packets that the peer sends
          MaxSends,    \* bound: packets that the application sends
          Closers      \* the callers of Close

VARIABLES
  canceled,     \* the context of the session
  conn,         \* "open", "lost" (the peer is gone) or "closed"
  incoming,     \* packets the peer may still send
  received,     \* length of receiveChan
  receivePc, processPc, heartbeatPc,
  queued, queueReady, queueClosed,  \* sendQueue
  sends,        \* packets the application may still send
  callback,     \* closeOnce and onClose: who runs the callback, "done" afterwards
  removed,      \* how often onClose was called
  closePc       \* where every caller of Close is

sessionVars == <<canceled, conn, incoming, received, receivePc, processPc, heartbeatPc, queued,
                 queueReady, queueClosed, sends, callback, removed, closePc>>

\* Start: the context and the three goroutines
Start ==
  /\ canceled = FALSE /\ conn = "open" /\ incoming = MaxPackets /\ received = 0
  /\ receivePc = "loop" /\ processPc = "select" /\ heartbeatPc = "select"
  /\ queued = 0 /\ queueReady = FALSE /\ queueClosed = FALSE /\ sends = MaxSends
  /\ callback = "none" /\ removed = 0 /\ closePc = [c \in Closers |-> "idle"]

\* The counter of wg is zero.
AllDone == receivePc = "done" /\ processPc = "done" /\ heartbeatPc = "done"

sendQueueVars == <<queued, queueReady, queueClosed, sends>>
callbackVars == <<callback, removed>>

-----------------------------------------------------------------------------
(* closeOnce: the second caller of Do waits until the callback of the first has returned *)

TriggerOnCloseMutant(g) ==
  /\ callback \in {"none", "done"}
  /\ callback' = g /\ removed' = removed + 1
TriggerOnClose(g) ==
  /\ callback = "none"
  /\ callback' = g /\ removed' = removed + 1

CallbackReturns(g) == callback = g /\ callback' = "done" /\ UNCHANGED removed
CallbackRan == callback = "done" /\ UNCHANGED callbackVars

-----------------------------------------------------------------------------
(* receive *)

\* The check of the context at the beginning of the loop
ReceiveLoop ==
  /\ receivePc = "loop"
  /\ receivePc' = IF canceled THEN "cancel" ELSE "read"
  /\ UNCHANGED <<incoming, received>>

\* ReadFull of header and body, and the checks of the packet: an application packet goes to
\* receiveChan; a heartbeat or a negotiation frame ends in the next round; an error, a limit
\* or an unacceptable packet ends the loop.
ReceiveRead ==
  /\ receivePc = "read"
  /\ \/ /\ conn \in {"open", "lost"} /\ incoming > 0
        /\ incoming' = incoming - 1 /\ receivePc' \in {"push", "loop", "cancel"}
     \/ conn # "open" /\ receivePc' = "cancel" /\ UNCHANGED incoming
  /\ UNCHANGED received

\* receiveChan <- &netPacket blocks while the channel is full, whatever the context is.
ReceivePush ==
  /\ receivePc = "push" /\ received < ChanSize
  /\ received' = received + 1 /\ receivePc' = "loop"
  /\ UNCHANGED incoming

ReceiveCancel ==
  /\ receivePc = "cancel"
  /\ canceled' = TRUE /\ receivePc' = "trigger"
  /\ UNCHANGED <<conn, incoming, received, processPc, heartbeatPc, sendQueueVars, callbackVars, closePc>>

ReceiveTrigger ==
  /\ receivePc = "trigger"
  /\ \/ TriggerOnClose("receive") /\ UNCHANGED receivePc
     \/ (CallbackReturns("receive") \/ CallbackRan) /\ receivePc' = "done"
  /\ UNCHANGED <<canceled, conn, incoming, received, processPc, heartbeatPc, sendQueueVars, closePc>>

ReceiveStep ==
  \/ /\ ReceiveLoop \/ ReceiveRead \/ ReceivePush
     /\ UNCHANGED <<canceled, conn, processPc, heartbeatPc, sendQueueVars, callbackVars, closePc>>
  \/ ReceiveCancel \/ ReceiveTrigger

-----------------------------------------------------------------------------
(* process *)

\* The select: a received packet, a token of ready, or the end of the context
ProcessSelect ==
  /\ processPc = "select"
  /\ \/ received > 0 /\ received' = received - 1 /\ processPc' = "dispatch" /\ UNCHANGED queueReady
     \/ queueReady /\ queueReady' = FALSE /\ processPc' = "dequeue" /\ UNCHANGED received
     \/ canceled /\ processPc' = "drain" /\ UNCHANGED <<received, queueReady>>
  /\ UNCHANGED <<canceled, conn, incoming, receivePc, heartbeatPc, queued, queueClosed, sends, callbackVars, closePc>>

\* processPacket: the dispatcher may send on its own session, and the one who makes room in
\* the queue is process itself: only the deadline of Send ends the waiting.
SendDeadlineMutant == FALSE
SendDeadline == TRUE

ProcessDispatch(next) ==
  /\ \/ processPc' = next /\ UNCHANGED sendQueueVars
     \/ /\ sends > 0 /\ ~queueClosed /\ queued < ChanSize
        /\ sends' = sends - 1 /\ queued' = queued + 1 /\ queueReady' = TRUE
        /\ UNCHANGED <<queueClosed, processPc>>
     \/ /\ sends > 0 /\ ~queueClosed /\ queued >= ChanSize
        /\ sends' = sends - 1
        /\ processPc' = IF next = "select" THEN "blocked" ELSE "drainBlocked"
        /\ UNCHANGED <<queued, queueReady, queueClosed>>
  /\ UNCHANGED <<canceled, conn, incoming, received, receivePc, heartbeatPc, callbackVars, closePc>>

ProcessBlocked(next) ==
  /\ SendDeadline \/ queueClosed
  /\ processPc' = next
  /\ UNCHANGED <<canceled, conn, incoming, received, receivePc, heartbeatPc, sendQueueVars, callbackVars, closePc>>

\* TryDequeue and sendOutbound; an error of the connection is only logged.
ProcessSend ==
  /\ processPc = "dequeue"
  /\ processPc' = "select"
  /\ queued' = IF queued > 0 THEN queued - 1 ELSE 0
  /\ queueReady' = (queueReady \/ queued > 1)
  /\ UNCHANGED <<canceled, conn, incoming, received, receivePc, heartbeatPc, queueClosed, sends, callbackVars, closePc>>

\* After the end of the context: the rest of receiveChan, ...
ProcessDrain ==
  /\ processPc = "drain"
  /\ \/ received > 0 /\ received' = received - 1 /\ processPc' = "drainDispatch"
     \/ received = 0 /\ processPc' = "closeQueue" /\ UNCHANGED received
  /\ UNCHANGED <<canceled, conn, incoming, receivePc, heartbeatPc, sendQueueVars, callbackVars, closePc>>

\* ... the rest of the queue, which is closed first, ...
ProcessCloseQueue ==
  /\ processPc = "closeQueue"
  /\ queueClosed' = TRUE /\ queueReady' = TRUE /\ processPc' = "drainQueue"
  /\ UNCHANGED <<canceled, conn, incoming, received, receivePc, heartbeatPc, queued, sends, callbackVars, closePc>>

ProcessDrainQueue ==
  /\ processPc = "drainQueue"
  /\ \/ queued > 0 /\ queued' = queued - 1
        /\ processPc' \in IF conn = "closed" THEN {"closeConn"} ELSE {"drainQueue", "closeConn"}
     \/ queued = 0 /\ processPc' = "closeConn" /\ UNCHANGED queued
  /\ UNCHANGED <<canceled, conn, incoming, received, receivePc, heartbeatPc, queueReady, queueClosed, sends, callbackVars, closePc>>

\* ... and the connection.
ProcessCloseConn ==
  /\ processPc = "closeConn"
  /\ conn' = "closed" /\ processPc' = "trigger"
  /\ UNCHANGED <<canceled, incoming, received, receivePc, heartbeatPc, sendQueueVars, callbackVars, closePc>>

ProcessTrigger ==
  /\ processPc = "trigger"
  /\ \/ TriggerOnClose("process") /\ UNCHANGED processPc
     \/ (CallbackReturns("process") \/ CallbackRan) /\ processPc' = "done"
  /\ UNCHANGED <<canceled, conn, incoming, received, receivePc, heartbeatPc, sendQueueVars, closePc>>

ProcessStep ==
  \/ ProcessSelect \/ ProcessSend \/ ProcessDrain \/ ProcessCloseQueue \/ ProcessDrainQueue
  \/ ProcessCloseConn \/ ProcessTrigger
  \/ processPc = "dispatch" /\ ProcessDispatch("select")
  \/ processPc = "drainDispatch" /\ ProcessDispatch("drain")
  \/ processPc = "blocked" /\ ProcessBlocked("dispatch")
  \/ processPc = "drainBlocked" /\ ProcessBlocked("drainDispatch")

-----------------------------------------------------------------------------
(* heartbeatCheck, Close, Send of another goroutine, and the peer *)

HeartbeatTimeout ==
  /\ heartbeatPc = "select"
  /\ canceled' = TRUE /\ heartbeatPc' = "done"
  /\ UNCHANGED <<conn, incoming, received, receivePc, processPc, sendQueueVars, callbackVars, closePc>>

HeartbeatDone ==
  /\ heartbeatPc = "select" /\ canceled
  /\ heartbeatPc' = "done"
  /\ UNCHANGED <<canceled, conn, incoming, received, receivePc, processPc, sendQueueVars, callbackVars, closePc>>

CloseQueue(c) ==
  /\ closePc[c] = "idle"
  /\ queueClosed' = TRUE /\ queueReady' = (queueReady \/ ~queueClosed)
  /\ closePc' = [closePc EXCEPT ![c] = "cancel"]
  /\ UNCHANGED <<canceled, conn, incoming, received, receivePc, processPc, heartbeatPc, queued, sends, callbackVars>>

CloseCancel(c) ==
  /\ closePc[c] = "cancel"
  /\ canceled' = TRUE /\ closePc' = [closePc EXCEPT ![c] = "conn"]
  /\ UNCHANGED <<conn, incoming, received, receivePc, processPc, heartbeatPc, sendQueueVars, callbackVars>>

CloseConn(c) ==
  /\ closePc[c] = "conn"
  /\ conn' = "closed" /\ closePc' = [closePc EXCEPT ![c] = "wait"]
  /\ UNCHANGED <<canceled, incoming, received, receivePc, processPc, heartbeatPc, sendQueueVars, callbackVars>>

CloseJoin(c) ==
  /\ closePc[c] = "wait" /\ AllDone
  /\ closePc' = [closePc EXCEPT ![c] = "returned"]
  /\ UNCHANGED <<canceled, conn, incoming, received, receivePc, processPc, heartbeatPc, sendQueueVars, callbackVars>>

Send ==
  /\ sends > 0 /\ ~queueClosed /\ queued < ChanSize
  /\ sends' = sends - 1 /\ queued' = queued + 1 /\ queueReady' = TRUE
  /\ UNCHANGED <<canceled, conn, incoming, received, receivePc, processPc, heartbeatPc, queueClosed, callbackVars, closePc>>

PeerLost ==
  /\ conn = "open" /\ conn' = "lost"
  /\ UNCHANGED <<canceled, incoming, received, receivePc, processPc, heartbeatPc, sendQueueVars, callbackVars, closePc>>

CloseStep(c) == CloseCancel(c) \/ CloseConn(c) \/ CloseJoin(c)

SessionNext ==
  \/ ReceiveStep \/ ProcessStep \/ HeartbeatTimeout \/ HeartbeatDone \/ Send \/ PeerLost
  \/ \E c \in Closers : CloseQueue(c) \/ CloseStep(c)

\* Every goroutine that can run does; dispatchers and callbacks return.
SessionFairness ==
  /\ WF_sessionVars(ReceiveStep) /\ WF_sessionVars(ProcessStep) /\ WF_sessionVars(HeartbeatDone)
  /\ \A c \in Closers : WF_sessionVars(CloseStep(c))

SessionSpec == Start /\ [][SessionNext]_sessionVars /\ SessionFairness

-----------------------------------------------------------------------------
(* Properties *)

\* The remove callback of a session runs once, although receive, process and Close race, and
\* it has returned before any caller of Close returns ("guarantees its remove callback runs
\* once even when receive/process/Close race", TcpServer.go).
RemovedOnce ==
  /\ removed <= 1
  /\ AllDone \/ (\E c \in Closers : closePc[c] = "returned") => callback = "done" /\ removed = 1

\* A session that has begun to end, because of its peer, a heartbeat or Close, does end: no
\* goroutine stays blocked on receiveChan, on the send queue or on the other goroutines.
SessionEnds == canceled \/ conn # "open" ~> AllDone /\ conn = "closed"
=============================================================================

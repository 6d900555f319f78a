----------------------------- MODULE UdpServer -----------------------------
(***************************************************************************)
(* UdpServer and UdpServerSession (zNet/UdpServer.go,                      *)
(* UdpServerSession.go).  One goroutine reads every datagram, finds or     *)
(* creates the session of its address and puts the packet into that        *)
(* session's receiveChan, waiting while it is full.  A session's process   *)
(* goroutine empties the channel until the session's context is done (a    *)
(* heartbeat that stayed out, or Close); then it drains the channel and    *)
(* the send queue and removes the session from the server.                 *)
(***************************************************************************)
EXTENDS Naturals, FiniteSets

CONSTANTS Addrs,           \* client addresses
          ChanSize,        \* of the configuration
          MaxClientCount,  \* of the configuration
          MaxSessions,     \* bound: sessions that are created
          MaxDatagrams     \* bound: datagrams that arrive

VARIABLES
  listener,    \* "open" or "closed"
  reader,      \* program counter of the read loop
  from,        \* the address of the datagram in hand
  target,      \* the session the datagram in hand goes to
  arrived,     \* datagrams read
  addr,        \* per session: its address
  life,        \* per session: "none", "stored", "running", "cancelled", "drained", "ended"
  receiveChan, \* per session: packets in its channel
  sessionMap,  \* clientSessionMap
  closePc,     \* program counter of Close
  closingSid,  \* the session Close waits for, 0 for none
  stored       \* the sessions stored while the Range of Close goes on

udpVars == <<listener, reader, from, target, arrived, addr, life, receiveChan, sessionMap, closePc, closingSid,
             stored>>

Sids == 1..MaxSessions

UdpTypeOK ==
  /\ listener \in {"open", "closed"} /\ reader \in {"read", "lookup", "start", "push", "done"}
  /\ target \in {0} \cup Sids /\ arrived \in 0..MaxDatagrams
  /\ life \in [Sids -> {"none", "stored", "running", "cancelled", "drained", "ended"}]
  /\ receiveChan \in [Sids -> 0..ChanSize] /\ sessionMap \subseteq Sids
  /\ closePc \in {"no", "range", "wait", "returned"} /\ closingSid \in {0} \cup Sids
  /\ stored \subseteq Sids

\* Start has bound the socket.
UdpInit ==
  /\ listener = "open" /\ reader = "read" /\ from \in Addrs /\ target = 0 /\ arrived = 0
  /\ addr = [s \in Sids |-> from] /\ life = [s \in Sids |-> "none"]
  /\ receiveChan = [s \in Sids |-> 0] /\ sessionMap = {}
  /\ closePc = "no" /\ closingSid = 0 /\ stored = {}

-----------------------------------------------------------------------------
(* The read loop, handleUdpPacket and handlePacket *)

ReadAt(p) == reader' = p /\ UNCHANGED <<listener, closePc, closingSid>>

ReadFromUDP ==
  /\ reader = "read"
  /\ \/ /\ listener = "open" /\ arrived < MaxDatagrams
        /\ from' \in Addrs /\ arrived' = arrived + 1 /\ ReadAt("lookup")
     \/ listener = "closed" /\ ReadAt("done") /\ UNCHANGED <<from, arrived>>
  /\ UNCHANGED <<target, addr, life, receiveChan, sessionMap, stored>>

\* getSessionByAddr finds the session, or createSession stores a new one; a limit refuses.
HandleUdpPacket ==
  /\ reader = "lookup"
  /\ LET found == {s \in sessionMap : addr[s] = from} IN
     \/ /\ target' \in found /\ ReadAt("push") /\ UNCHANGED <<addr, life, sessionMap, stored>>
     \/ /\ found = {} /\ Cardinality(sessionMap) < MaxClientCount
        /\ target' \in {s \in Sids : life[s] = "none" /\ \A r \in 1..(s - 1) : life[r] # "none"}
        /\ addr' = [addr EXCEPT ![target'] = from]
        /\ life' = [life EXCEPT ![target'] = "stored"]
        /\ sessionMap' = sessionMap \cup {target'}
        /\ stored' = IF closePc = "range" THEN stored \cup {target'} ELSE stored
        /\ ReadAt("start")
     \/ ReadAt("read") /\ target' = 0 /\ UNCHANGED <<addr, life, sessionMap, stored>>
  /\ UNCHANGED <<from, arrived, receiveChan>>

\* onAddSession, and Start of the session
StartSession ==
  /\ reader = "start"
  /\ life' = [life EXCEPT ![target] = "running"]
  /\ ReadAt("push")
  /\ UNCHANGED <<from, target, arrived, addr, receiveChan, sessionMap, stored>>

\* handlePacket: a packet of the key exchange, a heartbeat or an invalid frame ends here.
HandlePacket ==
  /\ reader = "push"
  /\ \/ /\ receiveChan[target] < ChanSize
        /\ receiveChan' = [receiveChan EXCEPT ![target] = @ + 1]
     \/ UNCHANGED receiveChan
  /\ ReadAt("read") /\ target' = 0
  /\ UNCHANGED <<from, arrived, addr, life, sessionMap, stored>>

\* The same with an application packet, which must go into the channel.
HandleAppPacket == HandlePacket /\ receiveChan' # receiveChan

-----------------------------------------------------------------------------
(* The session *)

SessionAt(s, p) ==
  /\ life' = [life EXCEPT ![s] = p]
  /\ UNCHANGED <<listener, reader, from, target, arrived, addr, closePc, closingSid, stored>>

\* processReceivedPacket; also when the context is done, until the channel is empty.
Process(s) ==
  /\ life[s] \in {"running", "cancelled"} /\ receiveChan[s] > 0
  /\ receiveChan' = [receiveChan EXCEPT ![s] = @ - 1]
  /\ SessionAt(s, life[s]) /\ UNCHANGED sessionMap

\* heartbeatCheck
HeartbeatCheck(s) ==
  /\ life[s] = "running" /\ SessionAt(s, "cancelled") /\ UNCHANGED <<receiveChan, sessionMap>>

\* len(receiveChan) was 0: sendQueue is closed and sent.
Drained(s) ==
  /\ life[s] = "cancelled" /\ receiveChan[s] = 0
  /\ SessionAt(s, "drained") /\ UNCHANGED <<receiveChan, sessionMap>>

\* triggerOnClose: RemoveSession
RemoveSession(s) ==
  /\ life[s] = "drained"
  /\ sessionMap' = sessionMap \ {s}
  /\ SessionAt(s, "ended") /\ UNCHANGED receiveChan

-----------------------------------------------------------------------------
(* Close *)

CloseListener ==
  /\ closePc = "no" /\ listener' = "closed" /\ closePc' = "range"
  /\ UNCHANGED <<reader, from, target, arrived, addr, life, receiveChan, sessionMap, closingSid, stored>>

\* Close of a session of the Range cancels it; one that has not started has no context yet.
CloseSession(s) ==
  /\ closePc = "range" /\ closingSid = 0 /\ s \in sessionMap
  /\ closingSid' = s
  /\ life' = [life EXCEPT ![s] = IF @ = "running" THEN "cancelled" ELSE @]
  /\ UNCHANGED <<listener, reader, from, target, arrived, addr, receiveChan, sessionMap, closePc, stored>>

\* wg.Wait of the session, and Delete
CloseDelete ==
  /\ closePc = "range" /\ closingSid # 0 /\ life[closingSid] \in {"stored", "ended"}
  /\ sessionMap' = sessionMap \ {closingSid} /\ closingSid' = 0
  /\ UNCHANGED <<listener, reader, from, target, arrived, addr, life, receiveChan, closePc, stored>>

\* The Range is over; it may have missed a session that was stored meanwhile.
CloseWait ==
  /\ closePc = "range" /\ closingSid = 0 /\ sessionMap \subseteq stored
  /\ closePc' = "wait"
  /\ UNCHANGED <<listener, reader, from, target, arrived, addr, life, receiveChan, sessionMap, closingSid, stored>>

CloseReturns ==
  /\ closePc = "wait" /\ reader = "done" /\ closePc' = "returned"
  /\ UNCHANGED <<listener, reader, from, target, arrived, addr, life, receiveChan, sessionMap, closingSid, stored>>

-----------------------------------------------------------------------------
ReaderStep == ReadFromUDP \/ HandleUdpPacket \/ StartSession \/ HandleAppPacket
ProcessStep(s) == Process(s) \/ Drained(s) \/ RemoveSession(s)
CloseStep == CloseDelete \/ CloseWait \/ CloseReturns \/ \E s \in Sids : CloseSession(s)

UdpNext ==
  \/ ReaderStep \/ HandlePacket \/ CloseListener \/ CloseStep
  \/ \E s \in Sids : ProcessStep(s) \/ HeartbeatCheck(s)

\* Goroutines run, and when nothing is read any more every heartbeat stays out.  A packet for
\* the application waits for room in the channel.
UdpFairness ==
  /\ WF_udpVars(ReaderStep) /\ WF_udpVars(CloseStep)
  /\ \A s \in Sids : WF_udpVars(ProcessStep(s)) /\ WF_udpVars(reader = "done" /\ HeartbeatCheck(s))

UdpSpec == UdpInit /\ [][UdpNext]_udpVars /\ UdpFairness

-----------------------------------------------------------------------------
(* Properties *)

\* "Close() // 关闭服务器" (Server, Interface.go): Close of the UDP server returns.
UdpCloseReturns == closePc # "no" ~> closePc = "returned"
=============================================================================

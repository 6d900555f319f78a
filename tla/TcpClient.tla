----------------------------- MODULE TcpClient -----------------------------
(***************************************************************************)
(* TcpClient (zNet/TcpClient.go) and the life of its TcpClientSession      *)
(* (zNet/TcpClientSession.go).  An application goroutine calls Connect,    *)
(* possibly again while the client is connected (a manual reconnect), and  *)
(* finally Close.  The monitor goroutine, started by the first successful  *)
(* Connect, looks for a closed session every second and reconnects; it     *)
(* runs the same connect as the application, so the two may be inside      *)
(* connect at once.  There is no lock: every atomic access is a step.      *)
(* AutoReconnect is on; DialContext, the key exchange and                  *)
(* negotiateProtocol succeed or fail (ProtocolNegotiation has the latter   *)
(* in detail).                                                             *)
(***************************************************************************)
EXTENDS Naturals

CONSTANTS MaxSessions,        \* bound: connections that are established
          MaxReconnectTimes,  \* of TcpClientConfig, positive: 0 would be no limit
          AppConnects         \* bound: calls of Connect by the application

VARIABLES
  state,           \* cli.state
  session,         \* cli.session, 0 for nil
  conns,           \* per session: "none", "open", "dropped" (receive left), "closed" (Close)
  reconnectCount,  \* cli.reconnectCount
  cancelled,       \* cli.ctx is done
  monitor,         \* program counter of monitorConnection and handleDisconnect
  connect,         \* per caller of connect: its program counter
  mine,            \* per caller: the session it is setting up, then the one it replaced
  calls,           \* calls of Connect the application has made
  closing          \* program counter of Close

clientVars == <<state, session, conns, reconnectCount, cancelled, monitor, connect, mine, calls, closing>>

Sessions == 1..MaxSessions
Dialers == {"app", "monitor"}

ClientTypeOK ==
  /\ state \in {"Disconnected", "Connecting", "Connected", "Reconnecting"}
  /\ session \in {0} \cup Sessions
  /\ conns \in [Sessions -> {"none", "open", "dropped", "closed"}]
  /\ reconnectCount \in 0..MaxReconnectTimes /\ cancelled \in BOOLEAN
  /\ monitor \in {"none", "watch", "check", "lost", "retry", "sleep", "connect", "done"}
  /\ connect \in [Dialers -> {"out", "begin", "dial", "negotiate", "swap", "closeOld", "connected"}]
  /\ mine \in [Dialers -> {0} \cup Sessions]
  /\ calls \in 0..AppConnects /\ closing \in {"no", "wait", "session", "state", "returned"}

ClientInit ==
  /\ state = "Disconnected" /\ session = 0 /\ conns = [k \in Sessions |-> "none"]
  /\ reconnectCount = 0 /\ cancelled = FALSE /\ monitor = "none"
  /\ connect = [d \in Dialers |-> "out"] /\ mine = [d \in Dialers |-> 0]
  /\ calls = 0 /\ closing = "no"

IsClosed(k) == conns[k] # "open"

-----------------------------------------------------------------------------
(* connect *)

At(d, p) == connect' = [connect EXCEPT ![d] = p]

ConnectBegin(d) ==
  /\ connect[d] = "begin"
  /\ state' = "Connecting" /\ At(d, "dial")
  /\ UNCHANGED <<session, conns, reconnectCount, cancelled, monitor, mine, calls, closing>>

\* How a failed call goes on: the application has its error, handleDisconnect tries again.
Failed(d) ==
  /\ state' = "Disconnected" /\ At(d, "out")
  /\ mine' = [mine EXCEPT ![d] = 0]
  /\ monitor' = IF d = "monitor" THEN "retry" ELSE monitor

\* DialContext or the key exchange fails.
DialFails(d) ==
  /\ connect[d] = "dial" /\ Failed(d)
  /\ UNCHANGED <<session, conns, reconnectCount, cancelled, calls, closing>>

\* The connection stands: Init and Start of the session.
Dials(d) ==
  /\ connect[d] = "dial"
  /\ \E k \in Sessions : /\ conns[k] = "none" /\ \A j \in 1..(k - 1) : conns[j] # "none"
                         /\ conns' = [conns EXCEPT ![k] = "open"]
                         /\ mine' = [mine EXCEPT ![d] = k]
  /\ At(d, "negotiate")
  /\ UNCHANGED <<state, session, reconnectCount, cancelled, monitor, calls, closing>>

NegotiateFails(d) ==
  /\ connect[d] = "negotiate"
  /\ conns' = [conns EXCEPT ![mine[d]] = "closed"]
  /\ Failed(d)
  /\ UNCHANGED <<session, reconnectCount, cancelled, calls, closing>>

Negotiated(d) ==
  /\ connect[d] = "negotiate" /\ At(d, "swap")
  /\ UNCHANGED <<state, session, conns, reconnectCount, cancelled, monitor, mine, calls, closing>>

\* session.Swap: the session it returns is closed next.
Swap(d) ==
  /\ connect[d] = "swap"
  /\ session' = mine[d] /\ mine' = [mine EXCEPT ![d] = session]
  /\ At(d, "closeOld")
  /\ UNCHANGED <<state, conns, reconnectCount, cancelled, monitor, calls, closing>>

CloseOld(d) ==
  /\ connect[d] = "closeOld"
  /\ conns' = IF mine[d] = 0 THEN conns ELSE [conns EXCEPT ![mine[d]] = "closed"]
  /\ mine' = [mine EXCEPT ![d] = 0]
  /\ At(d, "connected")
  /\ UNCHANGED <<state, session, reconnectCount, cancelled, monitor, calls, closing>>

\* Connected; monitorOnce starts the monitor.  handleDisconnect returns to the monitor's loop.
SetConnected(d) ==
  /\ connect[d] = "connected" /\ At(d, "out")
  /\ state' = "Connected" /\ reconnectCount' = 0
  /\ monitor' = IF d = "monitor" \/ monitor = "none" THEN "watch" ELSE monitor
  /\ UNCHANGED <<session, conns, cancelled, mine, calls, closing>>

ConnectStep(d) ==
  \/ ConnectBegin(d) \/ DialFails(d) \/ Dials(d) \/ NegotiateFails(d) \/ Negotiated(d)
  \/ Swap(d) \/ CloseOld(d) \/ SetConnected(d)

-----------------------------------------------------------------------------
(* monitorConnection and handleDisconnect *)

MonitorAt(p) == monitor' = p /\ UNCHANGED <<session, conns, cancelled, mine, calls, closing>>

\* The timer of select fired; GetState comes before the look at the session.
MonitorTick ==
  /\ monitor = "watch" /\ state = "Connected"
  /\ MonitorAt("check") /\ UNCHANGED <<state, reconnectCount, connect>>

\* ctx.Done
MonitorDone ==
  /\ monitor = "watch" /\ cancelled
  /\ MonitorAt("done") /\ UNCHANGED <<state, reconnectCount, connect>>

MonitorCheck ==
  /\ monitor = "check"
  /\ MonitorAt(IF IsClosed(session) THEN "lost" ELSE "watch")
  /\ UNCHANGED <<state, reconnectCount, connect>>

HandleDisconnect ==
  /\ monitor = "lost"
  /\ state' = "Disconnected" /\ MonitorAt("retry") /\ UNCHANGED <<reconnectCount, connect>>

\* Counting the attempts of the wrong client: the loop leaves before its first attempt
RetryMutant ==
  /\ monitor = "retry"
  /\ MonitorAt("watch") /\ UNCHANGED <<state, reconnectCount, connect>>

Retry ==
  /\ monitor = "retry"
  /\ IF cancelled \/ reconnectCount >= MaxReconnectTimes
     THEN MonitorAt("watch") /\ UNCHANGED state
     ELSE MonitorAt("sleep") /\ state' = "Reconnecting"
  /\ UNCHANGED <<reconnectCount, connect>>

Reconnect ==
  /\ monitor = "sleep" /\ reconnectCount < MaxReconnectTimes
  /\ reconnectCount' = reconnectCount + 1
  /\ At("monitor", "begin") /\ MonitorAt("connect") /\ UNCHANGED state

MonitorStep == MonitorTick \/ MonitorDone \/ MonitorCheck \/ HandleDisconnect \/ Retry \/ Reconnect

-----------------------------------------------------------------------------
(* The application and the network *)

\* Connect
Connect ==
  /\ connect["app"] = "out" /\ closing = "no" /\ calls < AppConnects
  /\ calls' = calls + 1 /\ At("app", "begin")
  /\ UNCHANGED <<state, session, conns, reconnectCount, cancelled, monitor, mine, closing>>

\* receive leaves its loop: a read error, a bad header or version; its defers set closed.
Drop(k) ==
  /\ conns[k] = "open" /\ conns' = [conns EXCEPT ![k] = "dropped"]
  /\ UNCHANGED <<state, session, reconnectCount, cancelled, monitor, connect, mine, calls, closing>>

CloseCancel ==
  /\ closing = "no" /\ connect["app"] = "out"
  /\ closing' = "wait" /\ cancelled' = TRUE
  /\ UNCHANGED <<state, session, conns, reconnectCount, monitor, connect, mine, calls>>

\* wg.Wait
CloseWait ==
  /\ closing = "wait" /\ monitor \in {"none", "done"}
  /\ closing' = "session"
  /\ UNCHANGED <<state, session, conns, reconnectCount, cancelled, monitor, connect, mine, calls>>

CloseSession ==
  /\ closing = "session"
  /\ conns' = IF session = 0 THEN conns ELSE [conns EXCEPT ![session] = "closed"]
  /\ closing' = "state"
  /\ UNCHANGED <<state, session, reconnectCount, cancelled, monitor, connect, mine, calls>>

CloseReturns ==
  /\ closing = "state"
  /\ state' = "Disconnected" /\ closing' = "returned"
  /\ UNCHANGED <<session, conns, reconnectCount, cancelled, monitor, connect, mine, calls>>

CloseStep == CloseWait \/ CloseSession \/ CloseReturns

-----------------------------------------------------------------------------
ClientNext ==
  \/ Connect \/ CloseCancel \/ MonitorStep \/ CloseStep
  \/ \E d \in Dialers : ConnectStep(d)
  \/ \E k \in Sessions : Drop(k)

\* Goroutines run, timers fire, and dialing and the handshake have deadlines; a select that
\* finds ctx.Done ready again and again takes it.  When the application connects or closes, and
\* whether a connection drops, is open.
ClientFairness ==
  /\ WF_clientVars(MonitorStep) /\ SF_clientVars(MonitorDone) /\ WF_clientVars(CloseStep)
  /\ \A d \in Dialers : WF_clientVars(ConnectStep(d))

ClientSpec == ClientInit /\ [][ClientNext]_clientVars /\ ClientFairness

-----------------------------------------------------------------------------
(* Properties *)

\* "重复调用 Connect（如手动重连）若只 Store 不 Close 旧会话，旧会话的 goroutine 与底层 conn
\* 会泄漏" (connect): of all sessions that two overlapping calls of connect and the monitor set
\* up none is left open when Close returns; and after that the client stays disconnected.
ClosedLeavesNothing ==
  closing = "returned" => /\ state = "Disconnected" /\ monitor \in {"none", "done"}
                          /\ \A k \in Sessions : conns[k] \in {"none", "closed"}

Lost == session # 0 /\ conns[session] = "dropped"

\* The session in use was lost: the client gets another one, gives up after MaxReconnectTimes
\* attempts, or is closed (monitorConnection, "支持自动重连").
AutoReconnects == Lost ~> ~Lost \/ reconnectCount = MaxReconnectTimes \/ closing # "no"

\* The same for an application that leaves reconnecting to the client; and Close returns, and
\* leaves nothing.
LossRecovered ==
  /\ []ClosedLeavesNothing
  /\ Lost /\ calls = 1 ~> ~Lost \/ reconnectCount = MaxReconnectTimes \/ closing # "no" \/ calls > 1
  /\ closing # "no" ~> closing = "returned"
=============================================================================

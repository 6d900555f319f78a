----------------------------- MODULE MCNetwork -------------------------------
(***************************************************************************)
(* The network layer for TLC.  Its parts are checked side by side, each    *)
(* against a free environment: under says which of them a behaviour is     *)
(* about, and only that part takes steps.                                  *)
(***************************************************************************)
EXTENDS OutboundQueue, TcpSession

CONSTANTS Conns, MaxClientCount, Shutdowns,                        \* TcpServer
          MaxSessions, MaxReconnectTimes, AppConnects              \* TcpClient

VARIABLES under,
  closing, listener, startPc, acceptPc, conns, clientSessionMap, admission, shutdownPc, closer,
  state, session, clientConns, reconnectCount, cancelled, monitor, connect, mine, calls, clientClosing

serverVars == <<closing, listener, startPc, acceptPc, conns, clientSessionMap, admission, shutdownPc, closer>>
clientVars == <<state, session, clientConns, reconnectCount, cancelled, monitor, connect, mine, calls, clientClosing>>
vars == <<under, queueVars, sessionVars, serverVars, clientVars>>

Server == INSTANCE TcpServer
Client == INSTANCE TcpClient WITH conns <- clientConns, closing <- clientClosing

\* Only the part a behaviour is about ranges over its initial states.
Init ==
  /\ under \in {"queue", "session", "server", "client"}
  /\ QueueInit /\ (under # "queue" => coalesceKey = [f \in Frames |-> CHOOSE k \in CoalesceKeys : TRUE])
  /\ Start /\ Server!ServerInit /\ Client!ClientInit

Next ==
  \/ under = "queue" /\ QueueNext /\ UNCHANGED <<under, sessionVars, serverVars, clientVars>>
  \/ under = "session" /\ SessionNext /\ UNCHANGED <<under, queueVars, serverVars, clientVars>>
  \/ under = "server" /\ Server!ServerNext /\ UNCHANGED <<under, queueVars, sessionVars, clientVars>>
  \/ under = "client" /\ Client!ClientNext /\ UNCHANGED <<under, queueVars, sessionVars, serverVars>>

\* The fairness of the four modules, for the part that takes steps
Fairness ==
  /\ \A p \in Reliable \cup BestEffort :
       WF_queueVars(under = "queue" /\ fate[p] = "woken" /\ Enqueue(p))
  /\ WF_queueVars(under = "queue" /\ Receive)
  /\ WF_queueVars(under = "queue" /\ ContextDone)
  /\ WF_queueVars(under = "queue" /\ TryDequeue)
  /\ WF_sessionVars(under = "session" /\ ReceiveStep)
  /\ WF_sessionVars(under = "session" /\ ProcessStep)
  /\ WF_sessionVars(under = "session" /\ HeartbeatDone)
  /\ \A c \in Closers : WF_sessionVars(under = "session" /\ CloseStep(c))
  /\ WF_serverVars(under = "server" /\ Server!AcceptLoop)
  /\ WF_serverVars(under = "server" /\ Server!Accept)
  /\ WF_serverVars(under = "server" /\ Server!CloseStep)
  /\ WF_serverVars(under = "server" /\ Server!StartCheck)
  /\ \A c \in Conns : WF_serverVars(under = "server" /\ Server!AddSessionStep(c))
  /\ \A s \in Shutdowns : /\ WF_serverVars(under = "server" /\ Server!AdmissionReturns(s))
                           /\ WF_serverVars(under = "server" /\ Server!CloseReturns(s))
  /\ WF_clientVars(under = "client" /\ Client!MonitorStep)
  /\ SF_clientVars(under = "client" /\ Client!MonitorDone)
  /\ WF_clientVars(under = "client" /\ Client!CloseStep)
  /\ \A d \in Client!Dialers : WF_clientVars(under = "client" /\ Client!ConnectStep(d))

Spec == Init /\ [][Next]_vars /\ Fairness

-----------------------------------------------------------------------------
(* The properties of the parts that are instances, under the names they have there *)

\* CloseAdmission and Close return; after the first no session is registered, after the second
\* none is left (TcpServer).
ShutdownReturns == Server!ShutdownReturns

\* A lost session is replaced, or the client gives up; Close returns and leaves nothing (TcpClient).
LossRecovered == Client!LossRecovered
=============================================================================

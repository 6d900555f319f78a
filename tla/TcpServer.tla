------------------------------ MODULE TcpServer ------------------------------
(***************************************************************************)
(* TcpServer (zNet/TcpServer.go): Start, the accept loop, AddSession for   *)
(* every connection, CloseAdmission and Close.  Of a session only what     *)
(* TcpSession shows is used: once it has been started it may end at any    *)
(* time, its remove callback runs once, and its Close returns after that.  *)
(***************************************************************************)
EXTENDS Naturals, FiniteSets

CONSTANTS Conns,           \* the connections clients make
          MaxClientCount,
          Shutdowns        \* the callers of Close and of CloseAdmission

VARIABLES
  closing, listener,
  startPc,           \* Start
  acceptPc,          \* the accept loop
  conns,             \* where AddSession of every connection is, or its session
  clientSessionMap,
  admission,         \* CloseAdmission: admissionOnce and its steps
  shutdownPc,        \* every caller: "admission" or "close", and how far it is
  closer             \* the steps of closeOnce

serverVars == <<closing, listener, startPc, acceptPc, conns, clientSessionMap, admission, shutdownPc, closer>>

InFlight == {"accepted", "handshake", "handshaken", "store", "enqueue", "add"}

ServerInit ==
  /\ closing = FALSE /\ listener = "none" /\ startPc = "idle" /\ acceptPc = "none"
  /\ conns = [c \in Conns |-> "none"] /\ clientSessionMap = {}
  /\ admission = "idle" /\ shutdownPc = [s \in Shutdowns |-> "idle"] /\ closer = "idle"

\* The counter of wg: the accept loop and the calls of AddSession
Busy == acceptPc \notin {"none", "done"} \/ \E c \in Conns : conns[c] \in InFlight

-----------------------------------------------------------------------------
(* Start *)

StartAt(p) ==
  /\ startPc' = p
  /\ UNCHANGED <<closing, conns, clientSessionMap, admission, shutdownPc, closer>>

StartListen ==
  /\ startPc = "idle"
  /\ \/ closing /\ StartAt("failed") /\ UNCHANGED <<listener, acceptPc>>
     \/ ~closing /\ StartAt("listening") /\ UNCHANGED <<listener, acceptPc>>

StartStore ==
  /\ startPc = "listening"
  /\ listener' = "open"
  /\ StartAt("stored") /\ UNCHANGED acceptPc

StartCheck ==
  /\ startPc = "stored"
  /\ IF closing THEN listener' = "closed" /\ StartAt("failed") ELSE StartAt("add") /\ UNCHANGED listener
  /\ UNCHANGED acceptPc

\* wg.Add and the goroutine
StartAccept ==
  /\ startPc = "add"
  /\ acceptPc' = "loop"
  /\ StartAt("started") /\ UNCHANGED listener

-----------------------------------------------------------------------------
(* The accept loop *)

AcceptAt(p) ==
  /\ acceptPc' = p
  /\ UNCHANGED <<closing, listener, startPc, clientSessionMap, admission, shutdownPc, closer>>

\* Looking at closing only when there is room
AcceptLoopMutant ==
  /\ acceptPc = "loop"
  /\ Cardinality(clientSessionMap) < MaxClientCount
  /\ AcceptAt(IF closing THEN "done" ELSE "accept")
  /\ UNCHANGED conns

AcceptLoop ==
  /\ acceptPc = "loop"
  /\ IF closing THEN AcceptAt("done")
     ELSE Cardinality(clientSessionMap) < MaxClientCount /\ AcceptAt("accept")
  /\ UNCHANGED conns

\* AcceptTCP; a connection may also be refused (AllowConnection).
Accept ==
  /\ acceptPc = "accept"
  /\ \/ /\ listener = "open"
        /\ \E c \in Conns : /\ conns[c] = "none"
                            /\ \E p \in {"accepted", "refused"} : conns' = [conns EXCEPT ![c] = p]
        /\ AcceptAt("loop")
     \/ listener = "closed" /\ AcceptAt("done") /\ UNCHANGED conns

-----------------------------------------------------------------------------
(* AddSession and the session *)

ConnAt(c, p) ==
  /\ conns' = [conns EXCEPT ![c] = p]
  /\ UNCHANGED <<closing, listener, startPc, acceptPc, admission, shutdownPc, closer>>

AddSession(c) ==
  /\ conns[c] = "accepted"
  /\ ConnAt(c, IF closing THEN "refused" ELSE "handshake")
  /\ UNCHANGED clientSessionMap

\* PerformKeyExchangeWithDeadline succeeds, fails or times out.
AddSessionHandshake(c) ==
  /\ conns[c] = "handshake"
  /\ ConnAt(c, "handshaken") \/ ConnAt(c, "refused")
  /\ UNCHANGED clientSessionMap

AddSessionCheck(c) ==
  /\ conns[c] = "handshaken"
  /\ ConnAt(c, IF closing THEN "refused" ELSE "store")
  /\ UNCHANGED clientSessionMap

AddSessionStore(c) ==
  /\ conns[c] = "store"
  /\ clientSessionMap' = clientSessionMap \cup {c}
  /\ ConnAt(c, "enqueue")

\* enqueueProtocolNegotiation; when it fails the session is taken back.
AddSessionEnqueue(c) ==
  /\ conns[c] = "enqueue"
  /\ \/ ConnAt(c, "add") /\ UNCHANGED clientSessionMap
     \/ ConnAt(c, "refused") /\ clientSessionMap' = clientSessionMap \ {c}

\* onAddSession and Start of the session
AddSessionStart(c) ==
  /\ conns[c] = "add"
  /\ ConnAt(c, "running") /\ UNCHANGED clientSessionMap

\* The session ends for a reason of its own: RemoveSession, and then the last goroutine.
SessionEnding(c) == conns[c] = "running" /\ ConnAt(c, "ending") /\ UNCHANGED clientSessionMap
RemoveSession(c) ==
  /\ conns[c] = "ending"
  /\ clientSessionMap' = clientSessionMap \ {c}
  /\ ConnAt(c, "ended")

-----------------------------------------------------------------------------
(* CloseAdmission and Close *)

AdmissionAt(p) ==
  /\ admission' = p
  /\ UNCHANGED <<startPc, acceptPc, conns, clientSessionMap, closer>>

\* Both begin with admissionOnce.Do; Close only in closeOnce.Do.
CloseCall(s) ==
  /\ shutdownPc[s] = "idle"
  /\ \E k \in {"admission", "close"} : shutdownPc' = [shutdownPc EXCEPT ![s] = k]
  /\ UNCHANGED <<closing, listener, startPc, acceptPc, conns, clientSessionMap, admission, closer>>

CloserBegins ==
  /\ closer = "idle" /\ \E s \in Shutdowns : shutdownPc[s] = "close"
  /\ closer' = "admission"
  /\ UNCHANGED <<closing, listener, startPc, acceptPc, conns, clientSessionMap, admission, shutdownPc>>

AdmissionClosing ==
  /\ admission = "idle"
  /\ closer = "admission" \/ \E s \in Shutdowns : shutdownPc[s] = "admission"
  /\ closing' = TRUE
  /\ AdmissionAt("listener") /\ UNCHANGED <<listener, shutdownPc>>

AdmissionListener ==
  /\ admission = "listener"
  /\ listener' = IF listener = "open" THEN "closed" ELSE listener
  /\ AdmissionAt("wait") /\ UNCHANGED <<closing, shutdownPc>>

AdmissionWait ==
  /\ admission = "wait" /\ ~Busy
  /\ AdmissionAt("done") /\ UNCHANGED <<closing, listener, shutdownPc>>

\* CloseAdmission returns to the callers that waited for admissionDone.
AdmissionReturns(s) ==
  /\ shutdownPc[s] = "admission" /\ admission = "done"
  /\ shutdownPc' = [shutdownPc EXCEPT ![s] = "admitted"]
  /\ UNCHANGED <<closing, listener, startPc, acceptPc, conns, clientSessionMap, admission, closer>>

\* Range closes the sessions: Close of a session returns when it has ended, and RemoveSession
\* has deleted it from the map.
CloseSessions ==
  /\ closer = "admission" /\ admission = "done"
  /\ closer' = "sessions"
  /\ UNCHANGED <<closing, listener, startPc, acceptPc, conns, clientSessionMap, admission, shutdownPc>>

CloseSession(c) ==
  /\ closer = "sessions" /\ c \in clientSessionMap /\ conns[c] = "running"
  /\ ConnAt(c, "ending") /\ UNCHANGED clientSessionMap

\* The worker pool is stopped, and closeDone closed.
CloseDone ==
  /\ closer = "sessions" /\ clientSessionMap = {}
  /\ closer' = "done"
  /\ UNCHANGED <<closing, listener, startPc, acceptPc, conns, clientSessionMap, admission, shutdownPc>>

CloseReturns(s) ==
  /\ shutdownPc[s] = "close" /\ closer = "done"
  /\ shutdownPc' = [shutdownPc EXCEPT ![s] = "closed"]
  /\ UNCHANGED <<closing, listener, startPc, acceptPc, conns, clientSessionMap, admission, closer>>

-----------------------------------------------------------------------------
AddSessionStep(c) ==
  \/ AddSession(c) \/ AddSessionHandshake(c) \/ AddSessionCheck(c) \/ AddSessionStore(c)
  \/ AddSessionEnqueue(c) \/ AddSessionStart(c) \/ RemoveSession(c)
CloseStep ==
  \/ CloserBegins \/ AdmissionClosing \/ AdmissionListener \/ AdmissionWait
  \/ CloseSessions \/ CloseDone \/ \E c \in Conns : CloseSession(c)

ServerNext ==
  \/ StartListen \/ StartStore \/ StartCheck \/ StartAccept \/ AcceptLoop \/ Accept \/ CloseStep
  \/ \E c \in Conns : AddSessionStep(c) \/ SessionEnding(c)
  \/ \E s \in Shutdowns : CloseCall(s) \/ AdmissionReturns(s) \/ CloseReturns(s)

\* Goroutines run; the key exchange has a deadline; a session whose end has begun ends.
ServerFairness ==
  /\ WF_serverVars(AcceptLoop) /\ WF_serverVars(Accept) /\ WF_serverVars(CloseStep)
  /\ WF_serverVars(StartCheck)
  /\ \A c \in Conns : WF_serverVars(AddSessionStep(c))
  /\ \A s \in Shutdowns : WF_serverVars(AdmissionReturns(s)) /\ WF_serverVars(CloseReturns(s))

ServerSpec == ServerInit /\ [][ServerNext]_serverVars /\ ServerFairness

-----------------------------------------------------------------------------
(* Properties *)

\* CloseAdmission "waits for the accept loop and any in-flight handshakes to leave the
\* registration path": once it is over no session is registered any more, and once Close is
\* over none is left, whatever the accept loop, the handshakes and a concurrent Start do.
ShutdownFinal ==
  /\ [][admission = "done" => clientSessionMap' \subseteq clientSessionMap]_serverVars
  /\ [](closer = "done" => clientSessionMap = {} /\ \A c \in Conns : conns[c] \in {"none", "refused", "ended"})

ShuttingDown == {s \in Shutdowns : shutdownPc[s] \notin {"idle", "admitted", "closed"}}

\* CloseAdmission and Close return, also when the server is full ("满员时关服死锁"), during a
\* handshake, and when they are called by several goroutines; and what they return after is final.
ShutdownReturns ==
  /\ ShutdownFinal
  /\ (ShuttingDown # {}) ~> (ShuttingDown = {})
=============================================================================

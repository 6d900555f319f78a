------------------------ MODULE ProtocolNegotiation ------------------------
(***************************************************************************)
(* The protocol version of a connection (zNet/protocol_version.go,         *)
(* protocol_handshake.go), between a TcpClientSession and a                *)
(* TcpServerSession.  Each end sends a frame with its policy and derives   *)
(* the compatibility from the other's; the first result is frozen by a     *)
(* compare-and-swap.  In the client two goroutines race: receive, which    *)
(* handles frames and packets, and negotiateProtocol, which waits for      *)
(* receive's one-shot result and falls back to the legacy version when its *)
(* timer is first.  The two directions of the connection are FIFO queues;  *)
(* frames are well formed.                                                 *)
(***************************************************************************)
EXTENDS Naturals, Sequences, FiniteSets

CONSTANTS Policies,  \* the ProtocolVersionPolicy values an endpoint may be configured with
          MaxApp     \* bound: application packets per end

ASSUME PoliciesAssumption ==
  \A p \in Policies : /\ p.enabled \in BOOLEAN /\ p.acceptLegacy \in BOOLEAN
                      /\ p.min \in Nat /\ p.max \in Nat

Ends == {"client", "server"}
Other(e) == CHOOSE o \in Ends : o # e

VARIABLES
  policy,    \* per end: its policy
  agreed,    \* per end: ProtocolVersionNegotiator.current, {} for nil
  wire,      \* per end: the packets on their way to it
  alive,     \* per end: its receive goroutine runs and the session is not closed
  apps,      \* per end: application packets sent
  accepted,  \* application packets that passed the version check: [to, under]
  result,    \* protocolResult of the client: "none", "nil", "error", or "taken"
  pc         \* negotiateProtocol of the client

negotiationVars == <<policy, agreed, wire, alive, apps, accepted, result, pc>>

-----------------------------------------------------------------------------
(* Policies *)

Disabled == [enabled |-> FALSE, min |-> 0, max |-> 0, capabilities |-> {}, acceptLegacy |-> FALSE]

Validate(p) == IF p.enabled THEN 0 < p.min /\ p.min <= p.max ELSE p = Disabled

Legacy == [version |-> 0, capabilities |-> {}]

Larger(a, b) == IF a > b THEN a ELSE b
Smaller(a, b) == IF a < b THEN a ELSE b

\* NegotiateProtocolCompatibility: the compatibility, or {} for an error.
Compatibility(local, peer) ==
  IF ~local.enabled \/ ~peer.enabled
  THEN IF (local.enabled \/ peer.enabled) /\ ~local.acceptLegacy /\ ~peer.acceptLegacy THEN {} ELSE {Legacy}
  ELSE IF Larger(local.min, peer.min) > Smaller(local.max, peer.max) THEN {}
  ELSE {[version |-> Smaller(local.max, peer.max),
         capabilities |-> local.capabilities \cap peer.capabilities]}

NegotiationTypeOK ==
  /\ policy \in [Ends -> Policies] /\ \A e \in Ends : Cardinality(agreed[e]) <= 1
  /\ alive \in [Ends -> BOOLEAN] /\ apps \in [Ends -> 0..MaxApp]
  /\ result \in {"none", "nil", "error", "taken"}
  /\ pc \in {"send", "wait", "fallback", "connected", "failed"}

Frame(e) == [kind |-> "frame", version |-> policy[e].max, peer |-> policy[e]]

\* The server queues its frame before the session starts (AddSession).
NegotiationInit ==
  /\ policy \in [Ends -> {p \in Policies : Validate(p)}]
  /\ agreed = [e \in Ends |-> {}]
  /\ wire = [e \in Ends |-> IF e = "client" /\ policy["server"].enabled THEN <<Frame("server")>> ELSE <<>>]
  /\ alive = [e \in Ends |-> TRUE]
  /\ apps = [e \in Ends |-> 0] /\ accepted = {}
  /\ result = "none" /\ pc = IF policy["client"].enabled THEN "send" ELSE "connected"

-----------------------------------------------------------------------------
(* ProtocolVersionNegotiator *)

\* What Negotiate leaves in current: CompareAndSwap(nil, c).
Freeze(e, c) == IF agreed[e] = {} THEN c ELSE agreed[e]

\* Negotiate succeeds: the candidate is frozen, or is what was frozen before.
Agrees(e, c) == c # {} /\ agreed[e] \in {{}, c}

\* What an end works with; an end with a disabled policy is legacy.
Effective(e) == IF policy[e].enabled THEN agreed[e] ELSE {Legacy}

\* Checking the version only until it is established
PassesMutant(e, version) ==
  \/ ~policy[e].enabled
  \/ agreed[e] = {} /\ version = 0 /\ Agrees(e, Compatibility(policy[e], Disabled))
  \/ agreed[e] # {}

\* ValidateInboundPacketVersion for an application packet
Passes(e, version) ==
  \/ ~policy[e].enabled
  \/ agreed[e] = {} /\ version = 0 /\ Agrees(e, Compatibility(policy[e], Disabled))
  \/ \E c \in agreed[e] : c.version = version

-----------------------------------------------------------------------------
(* Both ends *)

\* protocolResultOnce
Notify(e, r) == result' = IF e = "client" /\ result = "none" THEN r ELSE result

\* writePacket, buildOutboundPacket: OutboundPacketVersion allows it.
SendApp(e) ==
  /\ alive[e] /\ apps[e] < MaxApp
  /\ \E c \in Effective(e) :
       wire' = [wire EXCEPT ![Other(e)] = Append(@, [kind |-> "app", version |-> c.version, under |-> c])]
  /\ apps' = [apps EXCEPT ![e] = @ + 1]
  /\ UNCHANGED <<policy, agreed, alive, accepted, result, pc>>

Read(e, p) == alive[e] /\ wire[e] # <<>> /\ p = Head(wire[e]) /\ wire' = [wire EXCEPT ![e] = Tail(@)]

\* receive leaves its loop; in the client with a result for negotiateProtocol.
Break(e) == alive' = [alive EXCEPT ![e] = FALSE] /\ Notify(e, "error")

\* A frame: AcceptProtocolNegotiation.  A disabled end dispatches it like any other packet.
ReceiveFrame(e) ==
  /\ wire[e] # <<>> /\ Head(wire[e]).kind = "frame" /\ Read(e, Head(wire[e]))
  /\ LET c == Compatibility(policy[e], Head(wire[e]).peer) IN
     IF ~policy[e].enabled THEN UNCHANGED <<agreed, alive, result>>
     ELSE /\ agreed' = [agreed EXCEPT ![e] = Freeze(e, c)]
          /\ IF Agrees(e, c) THEN Notify(e, "nil") /\ UNCHANGED alive ELSE Break(e)
  /\ UNCHANGED <<policy, apps, accepted, pc>>

\* An application packet; with version 0 it establishes the legacy mode where that is allowed.
ReceiveApp(e) ==
  /\ wire[e] # <<>> /\ Head(wire[e]).kind = "app" /\ Read(e, Head(wire[e]))
  /\ LET packet == Head(wire[e]) IN
     IF Passes(e, packet.version)
     THEN /\ agreed' = [agreed EXCEPT ![e] = IF policy[e].enabled THEN Freeze(e, {Legacy}) ELSE @]
          /\ accepted' = accepted \cup {[to |-> e, under |-> packet.under]}
          /\ Notify(e, IF policy[e].enabled THEN "nil" ELSE "none") /\ UNCHANGED alive
     ELSE Break(e) /\ UNCHANGED <<agreed, accepted>>
  /\ UNCHANGED <<policy, apps, pc>>

\* The connection breaks, or is closed by the other end.
ReadError(e) ==
  /\ alive[e] /\ Break(e)
  /\ UNCHANGED <<policy, agreed, wire, apps, accepted, pc>>

-----------------------------------------------------------------------------
(* negotiateProtocol of the client *)

\* How it returns; connect closes the session on an error.
Returns(ok) ==
  /\ pc' = IF ok THEN "connected" ELSE "failed"
  /\ alive' = IF ok THEN alive ELSE [alive EXCEPT !["client"] = FALSE]

\* The frame is written, or the session is closed or the write fails.
NegotiateSend ==
  /\ pc = "send"
  /\ \/ /\ alive["client"]
        /\ wire' = [wire EXCEPT !["server"] = Append(@, Frame("client"))]
        /\ pc' = "wait" /\ UNCHANGED alive
     \/ Returns(FALSE) /\ UNCHANGED wire
  /\ UNCHANGED <<policy, agreed, apps, accepted, result>>

NegotiateResult ==
  /\ pc = "wait" /\ result \in {"nil", "error"}
  /\ Returns(result = "nil") /\ result' = "taken"
  /\ UNCHANGED <<policy, agreed, wire, apps, accepted>>

\* The timer is first, or the caller's context is done (an error): Snapshot, AcceptLegacy.
NegotiateTimeout ==
  /\ pc = "wait"
  /\ \/ Returns(FALSE)
     \/ agreed["client"] # {} /\ Returns(TRUE)
     \/ agreed["client"] = {} /\ ~policy["client"].acceptLegacy /\ Returns(FALSE)
     \/ agreed["client"] = {} /\ policy["client"].acceptLegacy /\ pc' = "fallback" /\ UNCHANGED alive
  /\ UNCHANGED <<policy, agreed, wire, apps, accepted, result>>

\* Negotiate(ProtocolVersionPolicy{}); after a conflict Snapshot has what receive froze.
NegotiateFallback ==
  /\ pc = "fallback"
  /\ agreed' = [agreed EXCEPT !["client"] = Freeze("client", Compatibility(policy["client"], Disabled))]
  /\ Returns(agreed'["client"] # {})
  /\ UNCHANGED <<policy, wire, apps, accepted, result>>

-----------------------------------------------------------------------------
NegotiationNext ==
  \/ NegotiateSend \/ NegotiateResult \/ NegotiateTimeout \/ NegotiateFallback
  \/ \E e \in Ends : SendApp(e) \/ ReceiveFrame(e) \/ ReceiveApp(e) \/ ReadError(e)

NegotiationSpec == NegotiationInit /\ [][NegotiationNext]_negotiationVars

-----------------------------------------------------------------------------
(* Properties *)

Offered(e, v) == policy[e].enabled /\ v \in policy[e].min .. policy[e].max

\* The compatibilities the ends work with, and the packets that have passed between them
Agreement ==
  /\ \A a \in accepted : Effective(a.to) = {a.under} /\ Effective(Other(a.to)) = {a.under}
  /\ \A e \in Ends : \A c \in agreed[e] :
       IF c = Legacy THEN \E o \in Ends : policy[o].acceptLegacy
       ELSE /\ \A o \in Ends : Offered(o, c.version)
            /\ ~ \E v \in (c.version + 1) .. policy[e].max : \A o \in Ends : Offered(o, v)
  /\ pc = "connected" => Effective("client") # {}

\* "enforces the frozen session version before an application payload is decoded": whatever the
\* order of frames, packets and the client's timer, a packet passes the check only when sender
\* and receiver work with one compatibility, capabilities included.  That is the highest version
\* both ends offer, or legacy where an end accepts it; and Connect succeeds only with one.  Nor does
\* what an end has agreed on change within the session ("a conflicting result is rejected to
\* prevent in-session downgrade").
StaysAgreed == Agreement' /\ \A e \in Ends : agreed[e] # {} => agreed'[e] = agreed[e]

\* Every step of a connection leaves its ends agreed, and keeps what they agreed on.
SessionAgreed == [][StaysAgreed]_negotiationVars
=============================================================================

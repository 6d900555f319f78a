------------------------------ MODULE Delivery -------------------------------
(***************************************************************************)
(* An outbox and an inbox (zConsistency) at the two ends of a transport    *)
(* that loses and duplicates, with crashes of either end.  The stores are  *)
(* durable and act as MemoryOutbox and MemoryInbox say, which SQLOutbox is *)
(* shown to implement.  The loops that call them belong to the application *)
(* (they are not in the repository) and follow the contract of store_v2.go *)
(* and the README: a socket write makes a message Transported, a business  *)
(* ACK makes it Applied, and only Applied is completed.                    *)
(*                                                                         *)
(* useTx: the receiver binds the inbox to the *sql.Tx of its effect        *)
(* (SQLExecutor); otherwise each inbox operation commits on its own.       *)
(***************************************************************************)
EXTENDS Naturals

CONSTANTS Messages, Handlers,
          MaxRetries, MaxAttempts,  \* see MemoryOutbox
          MaxLosses,   \* bound on failed or lost transmissions, below MaxRetries: not all fail
          MaxCrashes   \* bound on crashes

VARIABLES
  useTx,            \* does not change
  box, entry,       \* the stores
  asked,            \* messages the application has enqueued
  net, acks,        \* copies of each message, and acknowledgements, on their way
  sender, sending,  \* the retry loop of the sender, and its message
  acker, acking,    \* the sender's handling of an acknowledgement
  handler, req,     \* the receiver's handlers, and their messages
  effects,          \* how often the business effect of a message was applied
  losses, crashes

storeVars == <<box, entry, asked>>
netVars == <<net, acks, losses>>
sendVars == <<sender, sending, acker, acking>>
recvVars == <<useTx, handler, req, effects>>
deliveryVars == <<storeVars, netVars, sendVars, recvVars, crashes>>

Out == INSTANCE MemoryOutbox
In == INSTANCE MemoryInbox WITH Requests <- Messages

AnyMessage == CHOOSE m \in Messages : TRUE

DeliveryInit ==
  /\ Out!Init /\ In!InboxInit
  /\ useTx \in BOOLEAN
  /\ asked = {} /\ acks = {} /\ net = [m \in Messages |-> 0]
  /\ sender = "idle" /\ sending = AnyMessage
  /\ acker = "idle" /\ acking = AnyMessage
  /\ handler = [h \in Handlers |-> "idle"]
  /\ req = [h \in Handlers |-> AnyMessage]
  /\ effects = [m \in Messages |-> 0]
  /\ losses = 0 /\ crashes = 0

-----------------------------------------------------------------------------
(* The sender *)

Enqueue(m) ==
  /\ m \notin asked
  /\ Out!Enqueue(m)
  /\ asked' = asked \cup {m}
  /\ UNCHANGED <<entry, netVars, sendVars, recvVars, crashes>>

BecomeDue(m) ==
  /\ Out!BecomeDue(m) /\ ~box[m].due
  /\ UNCHANGED <<entry, asked, netVars, sendVars, recvVars, crashes>>

\* The retry loop takes a message from ListRetryableContext.
Pick ==
  /\ sender = "idle"
  /\ \E m \in Out!Retryable : sending' = m
  /\ sender' = "send"
  /\ UNCHANGED <<storeVars, netVars, acker, acking, recvVars, crashes>>

Transmit ==
  /\ sender = "send"
  /\ \/ net' = [net EXCEPT ![sending] = @ + 1] /\ sender' = "mark" /\ UNCHANGED losses
     \/ losses < MaxLosses /\ losses' = losses + 1 /\ sender' = "failed" /\ UNCHANGED net
  /\ UNCHANGED <<storeVars, acks, sending, acker, acking, recvVars, crashes>>

\* MarkTransported after the socket write; the ACK may have overtaken it.
Mark ==
  /\ sender = "mark"
  /\ \/ Out!MarkTransported(sending)
     \/ Out!State(sending) # "enqueued" /\ UNCHANGED box
  /\ sender' = "record"
  /\ UNCHANGED <<entry, asked, netVars, sending, acker, acking, recvVars, crashes>>

Record ==
  /\ sender \in {"record", "failed"}
  /\ \/ Out!RecordAttempt(sending, sender = "failed")
     \/ ~Out!Unresolved(sending) /\ UNCHANGED box
  /\ sender' = "idle"
  /\ UNCHANGED <<entry, asked, netVars, sending, acker, acking, recvVars, crashes>>

\* Retries are exhausted, and the last attempt had its time.
Expire(m) ==
  /\ sender = "idle"
  /\ Out!Unresolved(m) /\ box[m].attempts >= MaxRetries /\ box[m].due
  /\ Out!MoveToDeadLetter(m)
  /\ UNCHANGED <<entry, asked, netVars, sendVars, recvVars, crashes>>

\* A business ACK: the message was transported, whatever the retry loop thinks.
Ack ==
  /\ acker = "idle"
  /\ \E m \in acks :
       /\ acking' = m
       /\ acks' = acks \ {m}
       /\ \/ Out!MarkTransported(m)
          \/ Out!State(m) # "enqueued" /\ UNCHANGED box
  /\ acker' = "apply"
  /\ UNCHANGED <<entry, asked, net, losses, sender, sending, recvVars, crashes>>

Apply ==
  /\ acker = "apply"
  /\ \/ Out!MarkApplied(acking) /\ acker' = "complete"
     \/ Out!State(acking) = "applied" /\ acker' = "complete" /\ UNCHANGED box
     \/ Out!State(acking) \notin {"transported", "applied"} /\ acker' = "idle" /\ UNCHANGED box
  /\ UNCHANGED <<entry, asked, netVars, sender, sending, acking, recvVars, crashes>>

Complete ==
  /\ acker = "complete"
  /\ \/ Out!Complete(acking, "applied")
     \/ Out!State(acking) # "applied" /\ UNCHANGED box
  /\ acker' = "idle"
  /\ UNCHANGED <<entry, asked, netVars, sender, sending, acking, recvVars, crashes>>

-----------------------------------------------------------------------------
(* The transport *)

Lose ==
  /\ losses < MaxLosses /\ losses' = losses + 1
  /\ \/ \E m \in Messages : net[m] > 0 /\ net' = [net EXCEPT ![m] = @ - 1] /\ UNCHANGED acks
     \/ \E m \in acks : acks' = acks \ {m} /\ UNCHANGED net
  /\ UNCHANGED <<storeVars, sendVars, recvVars, crashes>>

\* A delivered message may be delivered again.
Arrive(m) == net[m] > 0 /\ (net' = [net EXCEPT ![m] = @ - 1] \/ net' = net)

-----------------------------------------------------------------------------
(* The receiver *)

\* Acquire, the effect and MarkProcessed commit together, or not at all.
HandleTx(h) ==
  /\ useTx /\ handler[h] = "idle"
  /\ \E m \in Messages :
       /\ Arrive(m)
       /\ req' = [req EXCEPT ![h] = m]
       /\ entry' = [entry EXCEPT ![m] = "processed"]
       /\ effects' = [effects EXCEPT ![m] = IF In!AcquireResult(m) = "accepted" THEN @ + 1 ELSE @]
  /\ handler' = [handler EXCEPT ![h] = "reply"]
  /\ UNCHANGED <<box, asked, acks, losses, sendVars, useTx, crashes>>

Acquire(h) ==
  /\ ~useTx /\ handler[h] = "idle"
  /\ \E m \in Messages :
       /\ Arrive(m)
       /\ req' = [req EXCEPT ![h] = m]
       /\ In!Acquire(m)
       /\ handler' = [handler EXCEPT ![h] = CASE In!AcquireResult(m) = "accepted" -> "owner"
                                             [] In!AcquireResult(m) = "processed" -> "reply"
                                             [] In!AcquireResult(m) = "inProgress" -> "idle"]
  /\ UNCHANGED <<box, asked, acks, losses, sendVars, useTx, effects, crashes>>

\* The effect, or Abandon when it is refused.
Effect(h) ==
  /\ handler[h] = "owner"
  /\ \/ /\ effects' = [effects EXCEPT ![req[h]] = @ + 1]
        /\ handler' = [handler EXCEPT ![h] = "mark"]
        /\ UNCHANGED <<entry, losses>>
     \/ /\ losses < MaxLosses /\ losses' = losses + 1
        /\ In!Abandon(req[h])
        /\ handler' = [handler EXCEPT ![h] = "idle"]
        /\ UNCHANGED effects
  /\ UNCHANGED <<box, asked, net, acks, sendVars, useTx, req, crashes>>

MarkProcessed(h) ==
  /\ handler[h] = "mark"
  /\ In!MarkProcessed(req[h])
  /\ handler' = [handler EXCEPT ![h] = "reply"]
  /\ UNCHANGED <<box, asked, netVars, sendVars, useTx, req, effects, crashes>>

Reply(h) ==
  /\ handler[h] = "reply"
  /\ acks' = acks \cup {req[h]}
  /\ handler' = [handler EXCEPT ![h] = "idle"]
  /\ UNCHANGED <<storeVars, net, losses, sendVars, useTx, req, effects, crashes>>

\* The retention of the inbox is longer than a message can still arrive.
Cleanup ==
  /\ \E S \in SUBSET {m \in asked : net[m] = 0 /\ ~Out!Unresolved(m) /\ ~(sending = m /\ sender # "idle")} :
       S # {} /\ In!Cleanup(S)
  /\ UNCHANGED <<box, asked, netVars, sendVars, recvVars, crashes>>

-----------------------------------------------------------------------------
(* Crashes lose what is not in a store *)

CrashSender ==
  /\ crashes < MaxCrashes /\ crashes' = crashes + 1
  /\ sender' = "idle" /\ acker' = "idle"
  /\ UNCHANGED <<storeVars, netVars, sending, acking, recvVars>>

CrashReceiver ==
  /\ crashes < MaxCrashes /\ crashes' = crashes + 1
  /\ handler' = [h \in Handlers |-> "idle"]
  /\ UNCHANGED <<storeVars, netVars, sendVars, useTx, req, effects>>

-----------------------------------------------------------------------------
SenderStep == Pick \/ Transmit \/ Mark \/ Record \/ \E m \in Messages : Expire(m)
AckerStep == Ack \/ Apply \/ Complete
HandlerStep(h) == HandleTx(h) \/ Acquire(h) \/ Effect(h) \/ MarkProcessed(h) \/ Reply(h)

DeliveryNext ==
  \/ \E m \in Messages : Enqueue(m) \/ BecomeDue(m)
  \/ SenderStep \/ AckerStep \/ Lose \/ Cleanup \/ CrashSender \/ CrashReceiver
  \/ \E h \in Handlers : HandlerStep(h)

DeliverySpec == DeliveryInit /\ [][DeliveryNext]_deliveryVars

\* Time passes, both ends keep running (after a crash, again), and a message that
\* stays in the transport arrives.
DeliveryFairness ==
  /\ \A m \in Messages : WF_deliveryVars(BecomeDue(m))
  /\ WF_deliveryVars(SenderStep) /\ WF_deliveryVars(AckerStep)
  /\ \A h \in Handlers : WF_deliveryVars(HandlerStep(h))

FairDelivery == DeliverySpec /\ DeliveryFairness

-----------------------------------------------------------------------------
\* The business effect of a message is applied at most once, under redelivery,
\* duplication and crashes of either end; and a message leaves the outbox, or is Applied,
\* only after its effect was applied: one that could not be delivered stays as a dead letter.
EffectOnce ==
  \A m \in Messages :
    /\ effects[m] <= 1
    /\ m \in asked /\ Out!State(m) \in {"applied", "absent"} => effects[m] > 0

\* A restart loses no message in flight: while fewer transmissions fail than there are
\* retries, its effect is applied in the end (header of sql_store.go).
RestartLosesNothing == \A m \in Messages : (m \in asked) ~> (effects[m] > 0)

\* Every message is Applied or becomes a dead letter; it may stay Applied, for no list of
\* the store shows it to a sender that crashed before Complete.  And where the receiver
\* binds the inbox to the transaction of the effect, a restart loses nothing.
EveryMessageResolved ==
  /\ \A m \in Messages : (m \in asked) ~> (Out!State(m) \in {"applied", "absent", "deadLetter"})
  /\ useTx => RestartLosesNothing
=============================================================================

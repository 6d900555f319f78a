---------------------------- MODULE OutboundQueue ----------------------------
(***************************************************************************)
(* outboundQueue (zNet/delivery.go), the bounded send queue of a server    *)
(* session, with any number of senders and the session's process goroutine *)
(* as its only consumer (zNet/TcpServerSession.go).  Every action is one   *)
(* critical section of the queue's mutex, or one step of a select.  Each   *)
(* packet is sent once, by a goroutine of its own.                         *)
(***************************************************************************)
EXTENDS Naturals, Sequences, Functions

CONSTANTS Reliable, BestEffort, Frames,  \* the packets of the three delivery classes
          CoalesceKeys, Capacity

VARIABLES
  items, latest, ready, closed,  \* the queue; ready is its channel of one token
  coalesceKey,                   \* SendOptions.CoalesceKey of every frame
  fate,                          \* where the call that sends the packet is, or what became of it
  consumer,                      \* where process is
  admitted,  \* history: the commands and events Enqueue accepted, without the ones sent
  offered    \* history: the newest frame of every stream that has got a slot

queueVars == <<items, latest, ready, closed, coalesceKey, fate, consumer, admitted, offered>>

NoFrame == "none"
Commands == Reliable \cup BestEffort
Packets == Commands \cup Frames

ASSUME ClassesAssumption == Commands \cap Frames = {} /\ NoFrame \notin Frames

QueueInit ==
  /\ items = <<>> /\ latest = [k \in CoalesceKeys |-> NoFrame] /\ ready = FALSE /\ closed = FALSE
  /\ coalesceKey \in [Frames -> CoalesceKeys]
  /\ fate = [p \in Packets |-> "new"]
  /\ consumer = "select"
  /\ admitted = <<>> /\ offered = [k \in CoalesceKeys |-> NoFrame]

Becomes(p, f) == fate' = [fate EXCEPT ![p] = f]

\* signalChangedLocked: every sender that waits on the closed channel goes on.
SignalChanged(f) == fate' = [p \in Packets |-> IF f[p] = "waiting" THEN "woken" ELSE f[p]]

Push(p) == items' = Append(items, p) /\ ready' = TRUE

-----------------------------------------------------------------------------
\* One round of the loop of Enqueue.
Enqueue(p) ==
  /\ p \in Commands /\ fate[p] \in {"new", "woken"}
  /\ \/ closed /\ Becomes(p, "rejected") /\ UNCHANGED <<items, ready, admitted>>
     \/ /\ ~closed /\ Len(items) < Capacity
        /\ Push(p) /\ Becomes(p, "queued") /\ admitted' = Append(admitted, p)
     \/ /\ ~closed /\ Len(items) >= Capacity
        /\ Becomes(p, IF p \in BestEffort THEN "rejected" ELSE "waiting")
        /\ UNCHANGED <<items, ready, admitted>>
  /\ UNCHANGED <<latest, closed, coalesceKey, consumer, offered>>

\* The context of a waiting sender ends.
EnqueueCanceled(p) ==
  /\ fate[p] \in {"waiting", "woken"}
  /\ Becomes(p, "rejected")
  /\ UNCHANGED <<items, latest, ready, closed, coalesceKey, consumer, admitted, offered>>

\* The frame p takes the slot of the frame o, which may have another key.
Overwrite(o, p) ==
  /\ items' = [i \in DOMAIN items |-> IF items[i] = o THEN p ELSE items[i]]
  /\ ready' = TRUE
  /\ fate' = [fate EXCEPT ![o] = "replaced", ![p] = "queued"]

\* Replacing the oldest packet, whatever its class is
OldestFrameMutant(o) == items # <<>> /\ o = Head(items)

\* The oldest frame in the queue
OldestFrame(o) ==
  \E i \in DOMAIN items : /\ items[i] = o /\ o \in Frames
                          /\ \A j \in 1..(i - 1) : items[j] \notin Frames

EnqueueLatest(p) ==
  LET k == coalesceKey[p]
      full == Len(items) >= Capacity
  IN
  /\ p \in Frames /\ fate[p] = "new"
  /\ \/ closed /\ Becomes(p, "rejected") /\ UNCHANGED <<items, latest, ready, offered>>
     \/ /\ ~closed /\ latest[k] # NoFrame
        /\ Overwrite(latest[k], p)
        /\ latest' = [latest EXCEPT ![k] = p] /\ offered' = [offered EXCEPT ![k] = p]
     \/ /\ ~closed /\ latest[k] = NoFrame /\ full
        /\ \E o \in Packets :
             /\ OldestFrame(o) /\ Overwrite(o, p)
             /\ latest' = [j \in CoalesceKeys |-> IF j = k THEN p ELSE IF latest[j] = o THEN NoFrame
                                                 ELSE latest[j]]
             /\ offered' = [offered EXCEPT ![k] = p]
     \/ /\ ~closed /\ latest[k] = NoFrame /\ full /\ \A o \in Packets : ~OldestFrame(o)
        /\ Becomes(p, "dropped") /\ UNCHANGED <<items, latest, ready, offered>>
     \/ /\ ~closed /\ latest[k] = NoFrame /\ ~full
        /\ Push(p) /\ Becomes(p, "queued")
        /\ latest' = [latest EXCEPT ![k] = p] /\ offered' = [offered EXCEPT ![k] = p]
  /\ UNCHANGED <<closed, coalesceKey, consumer, admitted>>

\* Close of the session, of the server or of process itself
Close ==
  /\ ~closed
  /\ closed' = TRUE /\ ready' = TRUE
  /\ SignalChanged(fate)
  /\ UNCHANGED <<items, latest, coalesceKey, consumer, admitted, offered>>

-----------------------------------------------------------------------------
\* process receives the token of Ready ...
Receive ==
  /\ consumer = "select" /\ ready
  /\ ready' = FALSE /\ consumer' = "ready"
  /\ UNCHANGED <<items, latest, closed, coalesceKey, fate, admitted, offered>>

\* ... or sees that the context is cancelled, and drains the queue until it is empty ("ended") or
\* a send fails ("broken").
ContextDone ==
  /\ consumer = "select" /\ closed
  /\ consumer' = "drain"
  /\ UNCHANGED <<items, latest, ready, closed, coalesceKey, fate, admitted, offered>>

\* The rest of the queue announces itself when a packet is taken.
ReadyAfterMutant(rest) == ready
ReadyAfter(rest) == ready \/ rest # <<>>

\* process sends the packet it took.  An error is logged and the packet gone; in the drain it also
\* ends the loop, and what is behind the packet stays in the queue.
SendOutbound(outcome) ==
  consumer' = CASE consumer = "ready" -> "select"
                [] consumer = "drain" /\ outcome = "sent" -> "drain"
                [] consumer = "drain" /\ outcome = "failed" -> "broken"

TryDequeue ==
  /\ consumer \in {"ready", "drain"}
  /\ \/ /\ items = <<>>
        /\ consumer' = IF consumer = "drain" THEN "ended" ELSE "select"
        /\ UNCHANGED <<items, latest, ready, fate, admitted>>
     \/ /\ items # <<>>
        /\ LET p == Head(items) IN
             /\ items' = Tail(items)
             /\ latest' = IF p \in Frames THEN [latest EXCEPT ![coalesceKey[p]] = NoFrame] ELSE latest
             /\ ready' = ReadyAfter(Tail(items))
             /\ admitted' = IF p \in Commands THEN Tail(admitted) ELSE admitted
             /\ \E outcome \in {"sent", "failed"} :
                  SignalChanged([fate EXCEPT ![p] = outcome]) /\ SendOutbound(outcome)
  /\ UNCHANGED <<closed, coalesceKey, offered>>

-----------------------------------------------------------------------------
QueueNext ==
  \/ \E p \in Packets : Enqueue(p) \/ EnqueueCanceled(p) \/ EnqueueLatest(p)
  \/ Close \/ Receive \/ ContextDone \/ TryDequeue

\* A sender that is woken runs again; process runs, and its context ends after Close.
QueueFairness ==
  /\ \A p \in Commands : WF_queueVars(fate[p] = "woken" /\ Enqueue(p))
  /\ WF_queueVars(Receive) /\ WF_queueVars(ContextDone) /\ WF_queueVars(TryDequeue)

QueueSpec == QueueInit /\ [][QueueNext]_queueVars /\ QueueFairness

-----------------------------------------------------------------------------
(* Properties *)

\* Where the accepted commands and events are in the queue: in the order of their acceptance
CommandSlots(slot) ==
  /\ \A m, n \in DOMAIN admitted : m < n => slot[m] < slot[n]
  /\ \A n \in DOMAIN admitted : items[slot[n]] = admitted[n]
  /\ \A i \in DOMAIN items : items[i] \in Commands => \E n \in DOMAIN admitted : slot[n] = i

\* Whatever the frames that overwrite each other do to the slots, the commands and events that
\* Enqueue accepted leave the queue in the order of their acceptance, none evicted ("最新帧不能挤掉
\* 可靠命令或尽力事件"); and the queue holds one frame of a stream, the newest one that was taken.
QueueExact ==
  /\ \E slot \in [DOMAIN admitted -> DOMAIN items] : CommandSlots(slot)
  /\ \A k \in CoalesceKeys :
       LET queuedFrames == {p \in Range(items) \cap Frames : coalesceKey[p] = k} IN
       /\ queuedFrames = {latest[k]} \ {NoFrame}
       /\ queuedFrames \subseteq {offered[k]}

\* Every call that sends ends, and every packet that is in the queue leaves it, sends that fail
\* included: a waiting reliable sender is woken by the slot that becomes free or by Close, and the
\* one token of ready announces all the packets.  Only a send that fails in the drain after the
\* end of the session leaves packets in the queue: process breaks off there and takes no more.
PacketsResolved ==
  LET Unresolved == {p \in Packets : \/ fate[p] \in {"waiting", "woken"}
                                     \/ fate[p] = "queued" /\ consumer # "broken"}
  IN (Unresolved # {}) ~> (Unresolved = {})
=============================================================================

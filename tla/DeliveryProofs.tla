--------------------------- MODULE DeliveryProofs ----------------------------
(***************************************************************************)
(* Proofs about Delivery: the effect of a message is applied at most once, *)
(* and no message leaves the outbox before, for any messages and handlers  *)
(* and any number of losses, duplicates, retries and crashes.              *)
(***************************************************************************)
EXTENDS Delivery, TLAPS

\* Leaves with arithmetic or a large case split cite SMT.
USE Zenon

-----------------------------------------------------------------------------
(* Rows of the outbox *)

Rows == [sent : BOOLEAN, acked : BOOLEAN, dead : BOOLEAN, attempts : Nat, due : BOOLEAN]
Boxes == [Messages -> Rows \cup {Out!Absent}]

LEMMA RowFact == ASSUME NEW r \in Rows PROVE r # Out!Absent
  <1>1. DOMAIN r = {"sent", "acked", "dead", "attempts", "due"} BY SMT DEF Rows
  <1>2. DOMAIN Out!Absent = {"stored"} BY SMT DEF Out!Absent
  <1>3. "stored" \notin {"sent", "acked", "dead", "attempts", "due"} OBVIOUS
  <1> QED BY <1>1, <1>2, <1>3

LEMMA StateFact ==
  ASSUME NEW r \in Rows
  PROVE  /\ Out!StateOf(r) = "enqueued" <=> ~r.dead /\ ~r.acked /\ ~r.sent
         /\ Out!StateOf(r) = "transported" <=> ~r.dead /\ ~r.acked /\ r.sent
         /\ Out!StateOf(r) = "applied" <=> ~r.dead /\ r.acked
         /\ Out!StateOf(r) = "deadLetter" <=> r.dead
         /\ Out!StateOf(r) # "absent"
  <1>1. r # Out!Absent BY RowFact
  <1>2. r.dead \in BOOLEAN /\ r.acked \in BOOLEAN /\ r.sent \in BOOLEAN BY SMT DEF Rows
  <1>3. CASE r.dead BY <1>1, <1>2, <1>3 DEF Out!StateOf
  <1>4. CASE ~r.dead /\ r.acked BY <1>1, <1>2, <1>4 DEF Out!StateOf
  <1>5. CASE ~r.dead /\ ~r.acked /\ r.sent BY <1>1, <1>2, <1>5 DEF Out!StateOf
  <1>6. CASE ~r.dead /\ ~r.acked /\ ~r.sent BY <1>1, <1>2, <1>6 DEF Out!StateOf
  <1> QED BY <1>2, <1>3, <1>4, <1>5, <1>6

LEMMA AbsentFact == Out!StateOf(Out!Absent) = "absent"
  BY DEF Out!StateOf

LEMMA PresentFact ==
  ASSUME box \in Boxes, NEW m \in Messages, Out!State(m) # "absent"
  PROVE  box[m] \in Rows
  BY AbsentFact DEF Boxes, Out!State

\* A row is replaced by r.
LEMMA RowStep ==
  ASSUME box \in Boxes, NEW m \in Messages, NEW r \in Rows \cup {Out!Absent},
         box' = [box EXCEPT ![m] = r]
  PROVE  /\ box' \in Boxes
         /\ Out!State(m)' = Out!StateOf(r)
         /\ \A n \in Messages \ {m} : Out!State(n)' = Out!State(n)
  <1>1. box' \in Boxes BY SMT DEF Boxes
  <1>2. box'[m] = r /\ \A n \in Messages \ {m} : box'[n] = box[n] BY DEF Boxes
  <1> QED BY <1>1, <1>2 DEF Out!State

\* What each operation of the outbox does to the state of a message.
LEMMA EnqueueRow ==
  ASSUME box \in Boxes, NEW m \in Messages, Out!Enqueue(m)
  PROVE  /\ box' \in Boxes /\ Out!State(m)' = "enqueued"
         /\ \A n \in Messages \ {m} : Out!State(n)' = Out!State(n)
  <1>1. PICK r : r = Out!NewRow OBVIOUS
  <1>2. r \in Rows /\ ~r.dead /\ ~r.acked /\ ~r.sent BY SMT, <1>1 DEF Out!NewRow, Rows
  <1>3. box' = [box EXCEPT ![m] = r] BY <1>1 DEF Out!Enqueue
  <1> QED BY <1>2, <1>3, RowStep, StateFact

LEMMA TransportedRow ==
  ASSUME box \in Boxes, NEW m \in Messages, Out!MarkTransported(m)
  PROVE  /\ box' \in Boxes /\ Out!State(m) = "enqueued" /\ Out!State(m)' = "transported"
         /\ \A n \in Messages \ {m} : Out!State(n)' = Out!State(n)
  <1>1. Out!State(m) = "enqueued" BY DEF Out!MarkTransported
  <1>2. box[m] \in Rows /\ ~box[m].dead /\ ~box[m].acked
    BY <1>1, PresentFact, StateFact DEF Out!State
  <1>3. PICK r : r = [box[m] EXCEPT !.sent = TRUE] OBVIOUS
  <1>4. r \in Rows /\ ~r.dead /\ ~r.acked /\ r.sent BY <1>2, <1>3 DEF Rows
  <1>5. box' = [box EXCEPT ![m] = r] BY <1>3 DEF Out!MarkTransported
  <1> QED BY <1>1, <1>4, <1>5, RowStep, StateFact

LEMMA AppliedRow ==
  ASSUME box \in Boxes, NEW m \in Messages, Out!MarkApplied(m)
  PROVE  /\ box' \in Boxes /\ Out!State(m)' = "applied"
         /\ \A n \in Messages \ {m} : Out!State(n)' = Out!State(n)
  <1>1. Out!State(m) = "transported" BY DEF Out!MarkApplied
  <1>2. box[m] \in Rows /\ ~box[m].dead BY <1>1, PresentFact, StateFact DEF Out!State
  <1>3. PICK r : r = [box[m] EXCEPT !.acked = TRUE] OBVIOUS
  <1>4. r \in Rows /\ ~r.dead /\ r.acked BY <1>2, <1>3 DEF Rows
  <1>5. box' = [box EXCEPT ![m] = r] BY <1>3 DEF Out!MarkApplied
  <1> QED BY <1>4, <1>5, RowStep, StateFact

LEMMA DeadRow ==
  ASSUME box \in Boxes, NEW m \in Messages, Out!MoveToDeadLetter(m)
  PROVE  /\ box' \in Boxes /\ Out!State(m)' = "deadLetter"
         /\ \A n \in Messages \ {m} : Out!State(n)' = Out!State(n)
  <1>1. box[m] \in Rows BY PresentFact DEF Out!MoveToDeadLetter, Out!Unresolved
  <1>2. PICK r : r = [box[m] EXCEPT !.dead = TRUE] OBVIOUS
  <1>3. r \in Rows /\ r.dead BY <1>1, <1>2 DEF Rows
  <1>4. box' = [box EXCEPT ![m] = r] BY <1>2 DEF Out!MoveToDeadLetter
  <1> QED BY <1>3, <1>4, RowStep, StateFact

LEMMA CompleteRow ==
  ASSUME box \in Boxes, NEW m \in Messages, NEW t, Out!Complete(m, t)
  PROVE  /\ box' \in Boxes /\ Out!State(m) = t /\ Out!State(m)' = "absent"
         /\ \A n \in Messages \ {m} : Out!State(n)' = Out!State(n)
  <1>1. Out!State(m) = t /\ box' = [box EXCEPT ![m] = Out!Absent] BY DEF Out!Complete
  <1> QED BY <1>1, RowStep, AbsentFact

LEMMA DueRow ==
  ASSUME box \in Boxes, NEW m \in Messages, Out!BecomeDue(m)
  PROVE  box' \in Boxes /\ \A n \in Messages : Out!State(n)' = Out!State(n)
  <1>1. box[m] \in Rows BY DEF Out!BecomeDue, Boxes
  <1>2. PICK r : r = [box[m] EXCEPT !.due = TRUE] OBVIOUS
  <1>3. r \in Rows /\ r.dead = box[m].dead /\ r.acked = box[m].acked /\ r.sent = box[m].sent
    BY <1>1, <1>2 DEF Rows
  <1>4. box' = [box EXCEPT ![m] = r] BY <1>2 DEF Out!BecomeDue
  <1>5. Out!StateOf(r) = Out!StateOf(box[m]) BY <1>1, <1>3, RowFact DEF Out!StateOf
  <1> QED BY <1>3, <1>4, <1>5, RowStep DEF Out!State

LEMMA AttemptRow ==
  ASSUME box \in Boxes, NEW m \in Messages, NEW failed \in BOOLEAN, Out!RecordAttempt(m, failed)
  PROVE  /\ box' \in Boxes /\ Out!Unresolved(m) /\ Out!State(m)' \in {"enqueued", "transported"}
         /\ \A n \in Messages \ {m} : Out!State(n)' = Out!State(n)
  <1>1. Out!Unresolved(m) BY DEF Out!RecordAttempt
  <1>2. box[m] \in Rows /\ ~box[m].dead /\ ~box[m].acked
    BY <1>1, PresentFact, StateFact DEF Out!State, Out!Unresolved
  <1>3. PICK r : r = [box[m] EXCEPT !.attempts = @ + 1, !.due = FALSE, !.sent = @ /\ ~failed] OBVIOUS
  <1>4. r \in Rows
    <2>1. box[m].attempts + 1 \in Nat BY SMT, <1>2 DEF Rows
    <2>2. (box[m].sent /\ ~failed) \in BOOLEAN OBVIOUS
    <2> QED BY <1>2, <1>3, <2>1, <2>2 DEF Rows
  <1>5. ~r.dead /\ ~r.acked BY <1>2, <1>3 DEF Rows
  <1>6. box' = [box EXCEPT ![m] = r] BY <1>3 DEF Out!RecordAttempt
  <1>7. Out!StateOf(r) \in {"enqueued", "transported"} BY <1>4, <1>5, StateFact
  <1> QED BY <1>1, <1>4, <1>6, <1>7, RowStep

-----------------------------------------------------------------------------
(* The inductive invariant *)

TypeOK ==
  /\ useTx \in BOOLEAN
  /\ box \in Boxes
  /\ entry \in [Messages -> {"none", "inProgress", "processed"}]
  /\ asked \subseteq Messages /\ acks \subseteq Messages
  /\ net \in [Messages -> Nat] /\ effects \in [Messages -> {0, 1}]
  /\ handler \in [Handlers -> {"idle", "owner", "mark", "reply"}]
  /\ DOMAIN req = Handlers
  /\ \A h \in Handlers : handler[h] # "idle" => req[h] \in Messages
  /\ sender # "idle" => sending \in Messages
  /\ acker # "idle" => acking \in Messages

\* No copy of m will arrive any more.
Over(m) ==
  /\ m \in asked /\ ~Out!Unresolved(m)
  /\ net[m] = 0 /\ ~(sending = m /\ sender # "idle")

\* What the entry of m says about its effect.  In progress, with no owner after a crash,
\* it says nothing; and where it was cleaned up, no copy of m can start over.
EntryInv ==
  \A m \in Messages :
    /\ entry[m] = "processed" => effects[m] = 1
    /\ entry[m] = "none" /\ effects[m] = 1 => Over(m)
    /\ useTx => entry[m] # "inProgress"

Owns(h) == handler[h] \in {"owner", "mark"}

\* A request has one owner at most, who knows whether the effect was applied.
OwnerInv ==
  /\ \A h \in Handlers : Owns(h) => entry[req[h]] = "inProgress"
  /\ \A h \in Handlers : handler[h] = "owner" => effects[req[h]] = 0
  /\ \A h \in Handlers : handler[h] = "mark" => effects[req[h]] = 1
  /\ \A h, k \in Handlers : Owns(h) /\ Owns(k) /\ req[h] = req[k] => h = k

\* Who acknowledges, or handles an acknowledgement, does so after the effect.
AckInv ==
  /\ \A h \in Handlers : handler[h] = "reply" => effects[req[h]] = 1
  /\ \A m \in acks : effects[m] = 1
  /\ acker # "idle" => effects[acking] = 1

LeftInv == \A m \in asked : Out!State(m) \in {"applied", "absent"} => effects[m] = 1

DInv == TypeOK /\ EntryInv /\ OwnerInv /\ AckInv /\ LeftInv

LEMMA InvImpliesEffectOnce == DInv => EffectOnce
  <1> SUFFICES ASSUME DInv, NEW m \in Messages
               PROVE  /\ effects[m] <= 1
                      /\ m \in asked /\ Out!State(m) \in {"applied", "absent"} => effects[m] > 0
    BY DEF EffectOnce
  <1>1. effects[m] \in {0, 1} BY DEF DInv, TypeOK
  <1>2. effects[m] <= 1 BY SMT, <1>1
  <1>3. ASSUME effects[m] = 1 PROVE effects[m] > 0 BY SMT, <1>3
  <1> QED BY <1>2, <1>3 DEF DInv, LeftInv

LEMMA InvInit == DeliveryInit => DInv
  <1> SUFFICES ASSUME DeliveryInit PROVE DInv OBVIOUS
  <1> USE DEF DeliveryInit
  <1>1. box \in Boxes BY DEF Out!Init, Boxes
  <1>2. entry = [m \in Messages |-> "none"] BY DEF In!InboxInit
  <1>3. TypeOK BY SMT, <1>1, <1>2 DEF TypeOK
  <1>4. \A m \in Messages : effects[m] = 0 OBVIOUS
  <1>5. 0 # 1 BY SMT
  <1>6. EntryInv BY <1>2, <1>4, <1>5 DEF EntryInv
  <1>7. OwnerInv /\ AckInv /\ LeftInv BY DEF OwnerInv, AckInv, LeftInv, Owns
  <1> QED BY <1>3, <1>6, <1>7 DEF DInv

-----------------------------------------------------------------------------
(* The sender *)

\* A step of the sender or the transport: what no copy can arrive of stays so, and a message
\* leaves the outbox after its effect.
LEMMA SenderSide ==
  ASSUME DInv, TypeOK', UNCHANGED <<entry, recvVars>>, acks' \subseteq acks,
         \A m \in Messages : Over(m) => Over(m)',
         acker' # "idle" => effects[acking'] = 1,
         LeftInv'
  PROVE  DInv'
  <1>1. EntryInv' BY DEF DInv, EntryInv, recvVars
  <1>2. OwnerInv' BY DEF DInv, OwnerInv, Owns, recvVars
  <1>3. AckInv' BY DEF DInv, AckInv, recvVars
  <1> QED BY <1>1, <1>2, <1>3 DEF DInv

\* The same where the outbox does not change.
LEMMA BoxKept ==
  ASSUME DInv, UNCHANGED <<box, asked, recvVars>>
  PROVE  /\ LeftInv'
         /\ \A m \in Messages : Out!Unresolved(m)' = Out!Unresolved(m)
  BY DEF DInv, LeftInv, recvVars, Out!State, Out!Unresolved

\* A step on the row of m, with no effect on what is in flight.
LEMMA BoxStep ==
  ASSUME DInv, UNCHANGED <<entry, asked, netVars, recvVars>>,
         NEW m \in Messages, box' \in Boxes,
         \A n \in Messages \ {m} : Out!State(n)' = Out!State(n),
         Out!Unresolved(m)' => Out!Unresolved(m),
         m \in asked /\ Out!State(m)' \in {"applied", "absent"} => effects[m] = 1,
         UNCHANGED sending, sender' # "idle" => sender # "idle",
         acker' # "idle" => acker # "idle", UNCHANGED acking
  PROVE  DInv'
  <1>1. TypeOK' BY DEF DInv, TypeOK, netVars, recvVars
  <1>2. ASSUME NEW n \in Messages PROVE Out!Unresolved(n)' => Out!Unresolved(n)
    BY DEF Out!Unresolved
  <1>3. ASSUME NEW n \in Messages, Over(n) PROVE Over(n)'
    BY <1>2, <1>3 DEF Over, netVars
  <1>4. LeftInv' BY DEF DInv, TypeOK, LeftInv, recvVars
  <1>5. acker' # "idle" => effects[acking'] = 1 BY DEF DInv, AckInv
  <1> QED BY <1>1, <1>3, <1>4, <1>5, SenderSide DEF netVars

LEMMA EnqueueKeeps ==
  ASSUME DInv, NEW m \in Messages, Enqueue(m)
  PROVE  DInv'
  <1>1. /\ box' \in Boxes /\ Out!State(m)' = "enqueued"
        /\ \A n \in Messages \ {m} : Out!State(n)' = Out!State(n)
    BY EnqueueRow DEF DInv, TypeOK, Enqueue
  <1>2. m \notin asked /\ asked' = asked \cup {m} BY DEF Enqueue
  <1>3. UNCHANGED <<entry, netVars, sendVars, recvVars>> BY DEF Enqueue
  <1>4. TypeOK' BY <1>1, <1>2, <1>3 DEF DInv, TypeOK, netVars, sendVars, recvVars
  <1>5. ASSUME NEW n \in Messages, Over(n) PROVE Over(n)'
    <2>1. n # m /\ n \in asked BY <1>2, <1>5 DEF Over
    <2>2. Out!Unresolved(n)' = Out!Unresolved(n) BY <1>1, <2>1 DEF Out!Unresolved
    <2> QED BY <1>2, <1>3, <1>5, <2>2 DEF Over, netVars, sendVars
  <1>6. ASSUME NEW n \in asked', Out!State(n)' \in {"applied", "absent"} PROVE effects'[n] = 1
    <2>1. n # m BY <1>1, <1>6
    <2>2. n \in asked /\ n \in Messages BY <1>2, <2>1 DEF DInv, TypeOK
    <2>3. Out!State(n) \in {"applied", "absent"} BY <1>1, <1>6, <2>1, <2>2
    <2> QED BY <1>3, <2>2, <2>3 DEF DInv, LeftInv, recvVars
  <1>7. LeftInv' BY <1>6 DEF LeftInv
  <1>8. acker' # "idle" => effects[acking'] = 1 BY <1>3 DEF DInv, AckInv, sendVars
  <1> QED BY <1>3, <1>4, <1>5, <1>7, <1>8, SenderSide DEF netVars

LEMMA BecomeDueKeeps ==
  ASSUME DInv, NEW m \in Messages, BecomeDue(m)
  PROVE  DInv'
  <1>1. box' \in Boxes /\ \A n \in Messages : Out!State(n)' = Out!State(n)
    BY DueRow DEF DInv, TypeOK, BecomeDue
  <1>2. Out!Unresolved(m)' => Out!Unresolved(m) BY <1>1 DEF Out!Unresolved
  <1>3. UNCHANGED <<entry, asked, netVars, sendVars, recvVars>> BY DEF BecomeDue
  <1>4. m \in asked /\ Out!State(m)' \in {"applied", "absent"} => effects[m] = 1
    BY <1>1 DEF DInv, LeftInv
  <1> QED BY <1>1, <1>2, <1>3, <1>4, BoxStep DEF sendVars

LEMMA PickKeeps ==
  ASSUME DInv, Pick
  PROVE  DInv'
  <1>1. PICK m \in Out!Retryable : sending' = m BY DEF Pick
  <1>2. m \in Messages /\ Out!Unresolved(m) BY <1>1 DEF Out!Retryable
  <1>3. UNCHANGED <<storeVars, netVars, acker, acking, recvVars>> BY DEF Pick
  <1>4. TypeOK' BY <1>1, <1>2, <1>3 DEF DInv, TypeOK, storeVars, netVars, recvVars
  <1>5. LeftInv' /\ \A n \in Messages : Out!Unresolved(n)' = Out!Unresolved(n)
    BY <1>3, BoxKept DEF storeVars
  <1>6. ASSUME NEW n \in Messages, Over(n) PROVE Over(n)'
    BY <1>1, <1>2, <1>3, <1>5, <1>6 DEF Over, storeVars, netVars
  <1>7. acker' # "idle" => effects[acking'] = 1 BY <1>3 DEF DInv, AckInv
  <1> QED BY <1>3, <1>4, <1>5, <1>6, <1>7, SenderSide DEF storeVars, netVars

LEMMA TransmitKeeps ==
  ASSUME DInv, Transmit
  PROVE  DInv'
  <1>1. sender = "send" /\ sending \in Messages BY DEF DInv, TypeOK, Transmit
  <1>2. UNCHANGED <<storeVars, acks, sending, acker, acking, recvVars>> BY DEF Transmit
  <1>3. /\ net' \in [Messages -> Nat]
        /\ \A n \in Messages : n # sending => net'[n] = net[n]
    BY SMT, <1>1 DEF DInv, TypeOK, Transmit
  <1>4. TypeOK' BY <1>1, <1>2, <1>3 DEF DInv, TypeOK, storeVars, recvVars
  <1>5. LeftInv' /\ \A n \in Messages : Out!Unresolved(n)' = Out!Unresolved(n)
    BY <1>2, BoxKept DEF storeVars
  <1>6. ASSUME NEW n \in Messages, Over(n) PROVE Over(n)'
    <2>1. n # sending BY <1>1, <1>6 DEF Over
    <2> QED BY <1>2, <1>3, <1>5, <1>6, <2>1 DEF Over, storeVars
  <1>7. acker' # "idle" => effects[acking'] = 1 BY <1>2 DEF DInv, AckInv
  <1> QED BY <1>2, <1>4, <1>5, <1>6, <1>7, SenderSide DEF storeVars

\* Steps of the sender or its acknowledgements that leave the outbox as it is.
LEMMA BoxSame ==
  ASSUME DInv, UNCHANGED <<box, entry, asked, netVars, recvVars, sending, acking>>,
         sender' # "idle" => sender # "idle", acker' # "idle" => acker # "idle"
  PROVE  DInv'
  <1>1. TypeOK' BY DEF DInv, TypeOK, netVars, recvVars
  <1>2. LeftInv' /\ \A n \in Messages : Out!Unresolved(n)' = Out!Unresolved(n) BY BoxKept
  <1>3. ASSUME NEW n \in Messages, Over(n) PROVE Over(n)' BY <1>2, <1>3 DEF Over, netVars
  <1>4. acker' # "idle" => effects[acking'] = 1 BY DEF DInv, AckInv
  <1> QED BY <1>1, <1>2, <1>3, <1>4, SenderSide DEF netVars

LEMMA MarkKeeps ==
  ASSUME DInv, Mark
  PROVE  DInv'
  <1>1. sender = "mark" /\ sending \in Messages BY DEF DInv, TypeOK, Mark
  <1>2. UNCHANGED <<entry, asked, netVars, sending, acker, acking, recvVars>> BY DEF Mark
  <1>3. CASE UNCHANGED box BY <1>1, <1>2, <1>3, BoxSame
  <1>4. CASE Out!MarkTransported(sending)
    <2>1. PICK m \in Messages : m = sending BY <1>1
    <2>2. Out!MarkTransported(m) BY <1>4, <2>1
    <2>3. /\ box' \in Boxes /\ Out!State(m) = "enqueued" /\ Out!State(m)' = "transported"
          /\ \A n \in Messages \ {m} : Out!State(n)' = Out!State(n)
      BY <2>2, TransportedRow DEF DInv, TypeOK
    <2>4. Out!Unresolved(m) BY <2>3 DEF Out!Unresolved
    <2> QED BY <1>1, <1>2, <2>3, <2>4, BoxStep
  <1> QED BY <1>3, <1>4 DEF Mark

LEMMA RecordKeeps ==
  ASSUME DInv, Record
  PROVE  DInv'
  <1>1. sender # "idle" /\ sending \in Messages BY DEF DInv, TypeOK, Record
  <1>2. UNCHANGED <<entry, asked, netVars, sending, acker, acking, recvVars>> BY DEF Record
  <1>3. CASE UNCHANGED box BY <1>1, <1>2, <1>3, BoxSame
  <1>4. CASE Out!RecordAttempt(sending, sender = "failed")
    <2>1. PICK m \in Messages, failed \in BOOLEAN : m = sending /\ failed = (sender = "failed") BY <1>1
    <2>2. Out!RecordAttempt(m, failed) BY <1>4, <2>1
    <2>3. /\ box' \in Boxes /\ Out!Unresolved(m) /\ Out!State(m)' \in {"enqueued", "transported"}
          /\ \A n \in Messages \ {m} : Out!State(n)' = Out!State(n)
      BY <2>2, AttemptRow DEF DInv, TypeOK
    <2> QED BY <1>1, <1>2, <2>3, BoxStep
  <1> QED BY <1>3, <1>4 DEF Record

LEMMA ExpireKeeps ==
  ASSUME DInv, NEW m \in Messages, Expire(m)
  PROVE  DInv'
  <1>1. /\ box' \in Boxes /\ Out!State(m)' = "deadLetter"
        /\ \A n \in Messages \ {m} : Out!State(n)' = Out!State(n)
    BY DeadRow DEF DInv, TypeOK, Expire
  <1>2. UNCHANGED <<entry, asked, netVars, sendVars, recvVars>> BY DEF Expire
  <1>3. ~Out!Unresolved(m)' BY <1>1 DEF Out!Unresolved
  <1> QED BY <1>1, <1>2, <1>3, BoxStep DEF sendVars

LEMMA ApplyKeeps ==
  ASSUME DInv, Apply
  PROVE  DInv'
  <1>1. acker = "apply" /\ acking \in Messages BY DEF DInv, TypeOK, Apply
  <1>2. UNCHANGED <<entry, asked, netVars, sender, sending, acking, recvVars>> BY DEF Apply
  <1>3. CASE UNCHANGED box BY <1>1, <1>2, <1>3, BoxSame
  <1>4. CASE Out!MarkApplied(acking)
    <2>1. PICK m \in Messages : m = acking BY <1>1
    <2>2. Out!MarkApplied(m) /\ effects[m] = 1 BY <1>1, <1>4, <2>1 DEF DInv, AckInv
    <2>3. /\ box' \in Boxes /\ Out!State(m)' = "applied"
          /\ \A n \in Messages \ {m} : Out!State(n)' = Out!State(n)
      BY <2>2, AppliedRow DEF DInv, TypeOK
    <2>4. ~Out!Unresolved(m)' BY <2>3 DEF Out!Unresolved
    <2> QED BY <1>1, <1>2, <2>2, <2>3, <2>4, BoxStep
  <1> QED BY <1>3, <1>4 DEF Apply

LEMMA CompleteKeeps ==
  ASSUME DInv, Complete
  PROVE  DInv'
  <1>1. acker = "complete" /\ acking \in Messages BY DEF DInv, TypeOK, Complete
  <1>2. UNCHANGED <<entry, asked, netVars, sender, sending, acking, recvVars>> BY DEF Complete
  <1>3. CASE UNCHANGED box BY <1>1, <1>2, <1>3, BoxSame
  <1>4. CASE Out!Complete(acking, "applied")
    <2>1. PICK m \in Messages : m = acking BY <1>1
    <2>2. Out!Complete(m, "applied") /\ effects[m] = 1 BY <1>1, <1>4, <2>1 DEF DInv, AckInv
    <2>3. /\ box' \in Boxes /\ Out!State(m)' = "absent"
          /\ \A n \in Messages \ {m} : Out!State(n)' = Out!State(n)
      BY <2>2, CompleteRow DEF DInv, TypeOK
    <2>4. ~Out!Unresolved(m)' BY <2>3 DEF Out!Unresolved
    <2> QED BY <1>1, <1>2, <2>2, <2>3, <2>4, BoxStep
  <1> QED BY <1>3, <1>4 DEF Complete

LEMMA AckKeeps ==
  ASSUME DInv, Ack
  PROVE  DInv'
  <1>1. PICK m \in acks : /\ acking' = m
                          /\ acks' = acks \ {m}
                          /\ \/ Out!MarkTransported(m)
                             \/ Out!State(m) # "enqueued" /\ UNCHANGED box
    BY DEF Ack
  <1>2. m \in Messages /\ effects[m] = 1 BY DEF DInv, TypeOK, AckInv
  <1>3. UNCHANGED <<entry, asked, net, losses, sender, sending, recvVars>> BY DEF Ack
  <1>4. /\ box' \in Boxes
        /\ Out!Unresolved(m)' => Out!Unresolved(m)
        /\ \A n \in Messages \ {m} : Out!State(n)' = Out!State(n)
    <2>1. CASE UNCHANGED box BY <2>1 DEF DInv, TypeOK, Out!State, Out!Unresolved
    <2>2. CASE Out!MarkTransported(m)
      <3>1. /\ box' \in Boxes /\ Out!State(m) = "enqueued"
            /\ \A n \in Messages \ {m} : Out!State(n)' = Out!State(n)
        BY <1>2, <2>2, TransportedRow DEF DInv, TypeOK
      <3> QED BY <3>1 DEF Out!Unresolved
    <2> QED BY <1>1, <2>1, <2>2
  <1>5. TypeOK' BY <1>1, <1>2, <1>3, <1>4 DEF DInv, TypeOK, recvVars
  <1>6. ASSUME NEW n \in Messages PROVE Out!Unresolved(n)' => Out!Unresolved(n)
    BY <1>4 DEF Out!Unresolved
  <1>7. ASSUME NEW n \in Messages, Over(n) PROVE Over(n)' BY <1>3, <1>6, <1>7 DEF Over
  <1>8. LeftInv' BY <1>2, <1>3, <1>4 DEF DInv, TypeOK, LeftInv, recvVars
  <1> QED BY <1>1, <1>2, <1>3, <1>5, <1>7, <1>8, SenderSide

LEMMA LoseKeeps ==
  ASSUME DInv, Lose
  PROVE  DInv'
  <1>1. UNCHANGED <<storeVars, sendVars, recvVars>> BY DEF Lose
  <1>2. acks' \subseteq acks BY DEF Lose
  <1>3. /\ net' \in [Messages -> Nat]
        /\ \A n \in Messages : net[n] = 0 => net'[n] = 0
    BY SMT DEF DInv, TypeOK, Lose
  <1>4. TypeOK' BY <1>1, <1>2, <1>3 DEF DInv, TypeOK, storeVars, sendVars, recvVars
  <1>5. LeftInv' /\ \A n \in Messages : Out!Unresolved(n)' = Out!Unresolved(n)
    BY <1>1, BoxKept DEF storeVars
  <1>6. ASSUME NEW n \in Messages, Over(n) PROVE Over(n)'
    BY <1>1, <1>3, <1>5, <1>6 DEF Over, storeVars, sendVars
  <1>7. acker' # "idle" => effects[acking'] = 1 BY <1>1 DEF DInv, AckInv, sendVars
  <1> QED BY <1>1, <1>2, <1>4, <1>5, <1>6, <1>7, SenderSide DEF storeVars

LEMMA CrashSenderKeeps ==
  ASSUME DInv, CrashSender
  PROVE  DInv'
  BY BoxSame DEF CrashSender, storeVars
-----------------------------------------------------------------------------
(* The receiver *)

\* A step of the receiver brings no copy of a message back, and never takes an effect back.
LEMMA ReceiverSide ==
  ASSUME DInv, UNCHANGED <<box, asked, sendVars>>,
         net' \in [Messages -> Nat],
         \A n \in Messages : net[n] = 0 => net'[n] = 0,
         \A n \in Messages : effects[n] = 1 => effects'[n] = 1
  PROVE  /\ \A n \in Messages : Over(n) => Over(n)'
         /\ LeftInv'
         /\ acker' # "idle" => effects'[acking'] = 1
  <1>1. ASSUME NEW n \in Messages PROVE Out!State(n)' = Out!State(n) BY DEF Out!State
  <1>2. ASSUME NEW n \in Messages, Over(n) PROVE Over(n)'
    BY <1>1, <1>2 DEF Over, sendVars, Out!Unresolved
  <1>3. LeftInv' BY <1>1 DEF DInv, TypeOK, LeftInv
  <1>4. acker' # "idle" => effects'[acking'] = 1 BY DEF DInv, TypeOK, AckInv, sendVars
  <1> QED BY <1>2, <1>3, <1>4

LEMMA ArriveFact ==
  ASSUME DInv, NEW m \in Messages, Arrive(m)
  PROVE  /\ net' \in [Messages -> Nat]
         /\ \A n \in Messages : net[n] = 0 => net'[n] = 0
         /\ ~Over(m)
         /\ entry[m] = "none" => effects[m] = 0
  <1>1. net \in [Messages -> Nat] BY DEF DInv, TypeOK
  <1>2. /\ net' \in [Messages -> Nat]
        /\ \A n \in Messages : net[n] = 0 => net'[n] = 0
        /\ net[m] # 0
    BY SMT, <1>1 DEF Arrive
  <1>3. ~Over(m) BY <1>2 DEF Over
  <1> QED BY <1>2, <1>3 DEF DInv, TypeOK, EntryInv

LEMMA HandleTxKeeps ==
  ASSUME DInv, NEW h \in Handlers, HandleTx(h)
  PROVE  DInv'
  <1>1. PICK m \in Messages :
           /\ Arrive(m)
           /\ req' = [req EXCEPT ![h] = m]
           /\ entry' = [entry EXCEPT ![m] = "processed"]
           /\ effects' = [effects EXCEPT ![m] = IF In!AcquireResult(m) = "accepted" THEN @ + 1 ELSE @]
    BY DEF HandleTx
  <1>2. /\ useTx /\ handler[h] = "idle" /\ handler' = [handler EXCEPT ![h] = "reply"]
        /\ UNCHANGED <<box, asked, acks, sendVars, useTx>>
    BY DEF HandleTx
  <1>3. /\ net' \in [Messages -> Nat]
        /\ \A n \in Messages : net[n] = 0 => net'[n] = 0
        /\ entry[m] = "none" => effects[m] = 0
    BY <1>1, ArriveFact
  <1>4. entry[m] \in {"none", "processed"} BY <1>2 DEF DInv, TypeOK, EntryInv
  <1>5. effects'[m] = 1
    <2>1. effects'[m] = IF In!AcquireResult(m) = "accepted" THEN effects[m] + 1 ELSE effects[m]
      BY <1>1 DEF DInv, TypeOK
    <2>2. CASE entry[m] = "none"
      <3>1. In!AcquireResult(m) = "accepted" BY <2>2 DEF In!AcquireResult
      <3>2. effects[m] = 0 BY <1>3, <2>2
      <3> QED BY SMT, <2>1, <3>1, <3>2
    <2>3. CASE entry[m] = "processed"
      <3>1. In!AcquireResult(m) = "processed" BY <2>3 DEF In!AcquireResult
      <3>2. effects[m] = 1 BY <2>3 DEF DInv, EntryInv
      <3> QED BY <2>1, <3>1, <3>2
    <2> QED BY <1>4, <2>2, <2>3
  <1>6. \A n \in Messages : n # m => effects'[n] = effects[n] BY <1>1 DEF DInv, TypeOK
  <1>7. effects' \in [Messages -> {0, 1}]
    <2>1. \A n \in Messages : effects'[n] \in {0, 1} BY <1>5, <1>6 DEF DInv, TypeOK
    <2>2. effects' = [n \in Messages |-> effects'[n]] BY <1>1 DEF DInv, TypeOK
    <2> QED BY <2>1, <2>2
  <1>8. \A n \in Messages : effects[n] = 1 => effects'[n] = 1 BY <1>5, <1>6
  <1>9. /\ \A n \in Messages : Over(n) => Over(n)'
        /\ LeftInv'
        /\ acker' # "idle" => effects'[acking'] = 1
    BY <1>2, <1>3, <1>8, ReceiverSide
  <1>10. /\ handler'[h] = "reply" /\ req'[h] = m
         /\ \A k \in Handlers : k # h => handler'[k] = handler[k] /\ req'[k] = req[k]
    BY <1>1, <1>2 DEF DInv, TypeOK
  <1>11. entry'[m] = "processed" /\ \A n \in Messages : n # m => entry'[n] = entry[n]
    BY <1>1 DEF DInv, TypeOK
  <1>12. TypeOK' BY <1>1, <1>2, <1>3, <1>7, <1>10 DEF DInv, TypeOK, sendVars
  <1>13. EntryInv' BY <1>2, <1>5, <1>6, <1>9, <1>11 DEF DInv, EntryInv
  <1>14. ASSUME NEW k \in Handlers PROVE ~Owns(k)
    <2>1. Owns(k) => req[k] \in Messages /\ entry[req[k]] = "inProgress"
      BY DEF DInv, TypeOK, OwnerInv, Owns
    <2> QED BY <1>2, <2>1 DEF DInv, EntryInv
  <1>15. \A k \in Handlers : ~Owns(k)' BY <1>10, <1>14 DEF Owns
  <1>16. OwnerInv' BY <1>15 DEF OwnerInv, Owns
  <1>17. \A k \in Handlers : handler'[k] = "reply" => effects'[req'[k]] = 1
    BY <1>5, <1>8, <1>10 DEF DInv, TypeOK, AckInv
  <1>18. AckInv' BY <1>2, <1>8, <1>9, <1>17 DEF DInv, TypeOK, AckInv
  <1> QED BY <1>9, <1>12, <1>13, <1>16, <1>18 DEF DInv

LEMMA AcquireKeeps ==
  ASSUME DInv, NEW h \in Handlers, Acquire(h)
  PROVE  DInv'
  <1>1. PICK m \in Messages :
           /\ Arrive(m)
           /\ req' = [req EXCEPT ![h] = m]
           /\ In!Acquire(m)
           /\ handler' = [handler EXCEPT ![h] = CASE In!AcquireResult(m) = "accepted" -> "owner"
                                                 [] In!AcquireResult(m) = "processed" -> "reply"
                                                 [] In!AcquireResult(m) = "inProgress" -> "idle"]
    BY DEF Acquire
  <1>2. ~useTx /\ handler[h] = "idle" /\ UNCHANGED <<box, asked, acks, sendVars, useTx, effects>>
    BY DEF Acquire
  <1>3. /\ net' \in [Messages -> Nat]
        /\ \A n \in Messages : net[n] = 0 => net'[n] = 0
        /\ entry[m] = "none" => effects[m] = 0
    BY <1>1, ArriveFact
  <1>4. /\ \A n \in Messages : Over(n) => Over(n)'
        /\ LeftInv'
        /\ acker' # "idle" => effects'[acking'] = 1
    BY <1>2, <1>3, ReceiverSide
  <1>5. /\ req'[h] = m
        /\ \A k \in Handlers : k # h => handler'[k] = handler[k] /\ req'[k] = req[k]
        /\ DOMAIN req' = Handlers
    BY <1>1 DEF DInv, TypeOK
  <1>6. /\ entry' \in [Messages -> {"none", "inProgress", "processed"}]
        /\ entry'[m] = IF entry[m] = "none" THEN "inProgress" ELSE entry[m]
        /\ \A n \in Messages : n # m => entry'[n] = entry[n]
    BY SMT, <1>1 DEF In!Acquire, DInv, TypeOK
  <1>7. EntryInv' BY <1>2, <1>4, <1>6 DEF DInv, EntryInv
  <1>8. handler'[h] = CASE In!AcquireResult(m) = "accepted" -> "owner"
                        [] In!AcquireResult(m) = "processed" -> "reply"
                        [] In!AcquireResult(m) = "inProgress" -> "idle"
    BY <1>1 DEF DInv, TypeOK
  <1>9. /\ entry[m] = "none" => handler'[h] = "owner"
        /\ entry[m] = "processed" => handler'[h] = "reply"
        /\ entry[m] = "inProgress" => handler'[h] = "idle"
    <2>1. ASSUME entry[m] = "none" PROVE handler'[h] = "owner"
      <3>1. In!AcquireResult(m) = "accepted" BY <2>1 DEF In!AcquireResult
      <3> QED BY <1>8, <3>1
    <2>2. ASSUME entry[m] = "processed" PROVE handler'[h] = "reply"
      <3>1. In!AcquireResult(m) = "processed" BY <2>2 DEF In!AcquireResult
      <3> QED BY <1>8, <3>1
    <2>3. ASSUME entry[m] = "inProgress" PROVE handler'[h] = "idle"
      <3>1. In!AcquireResult(m) = "inProgress" BY <2>3 DEF In!AcquireResult
      <3> QED BY <1>8, <3>1
    <2> QED BY <2>1, <2>2, <2>3
  <1>10. entry[m] \in {"none", "inProgress", "processed"} BY DEF DInv, TypeOK
  <1>11. handler'[h] \in {"idle", "owner", "reply"} BY <1>9, <1>10
  <1>12. handler' \in [Handlers -> {"idle", "owner", "mark", "reply"}]
    <2>1. PICK v : handler' = [handler EXCEPT ![h] = v] BY <1>1
    <2>2. v \in {"idle", "owner", "reply"} BY <1>11, <2>1 DEF DInv, TypeOK
    <2> QED BY SMT, <2>1, <2>2 DEF DInv, TypeOK
  <1>13. TypeOK' BY <1>2, <1>3, <1>5, <1>6, <1>12 DEF DInv, TypeOK, sendVars
  <1>14. ASSUME Owns(h)' PROVE entry[m] = "none" /\ effects[m] = 0 /\ handler'[h] = "owner"
    BY <1>3, <1>9, <1>10, <1>14 DEF Owns
  <1>15. ASSUME NEW k \in Handlers, k # h, Owns(k)'
         PROVE  /\ Owns(k) /\ req'[k] = req[k] /\ req[k] \in Messages /\ entry[req[k]] = "inProgress"
                /\ entry'[req[k]] = "inProgress" /\ handler'[k] = handler[k]
    <2>1. Owns(k) /\ req'[k] = req[k] /\ handler'[k] = handler[k] BY <1>5, <1>15 DEF Owns
    <2>2. entry[req[k]] = "inProgress" /\ req[k] \in Messages BY <2>1 DEF DInv, TypeOK, OwnerInv, Owns
    <2> QED BY <1>6, <2>1, <2>2
  <1>16. OwnerInv'
    <2>1. ASSUME NEW k \in Handlers, Owns(k)' PROVE entry'[req'[k]] = "inProgress"
      BY <1>5, <1>6, <1>14, <1>15, <2>1
    <2>2. ASSUME NEW k \in Handlers, handler'[k] = "owner" PROVE effects'[req'[k]] = 0
      <3>1. Owns(k)' BY <2>2 DEF Owns
      <3>2. CASE k = h BY <1>2, <1>5, <1>14, <2>2, <3>1, <3>2
      <3>3. CASE k # h
        <4>1. req'[k] = req[k] /\ handler[k] = handler'[k] BY <1>15, <3>1, <3>3
        <4> QED BY <1>2, <2>2, <4>1 DEF DInv, OwnerInv
      <3> QED BY <3>2, <3>3
    <2>3. ASSUME NEW k \in Handlers, handler'[k] = "mark" PROVE effects'[req'[k]] = 1
      <3>1. Owns(k)' BY <2>3 DEF Owns
      <3>2. CASE k = h BY <1>2, <1>5, <1>14, <2>3, <3>1, <3>2
      <3>3. CASE k # h
        <4>1. req'[k] = req[k] /\ handler[k] = handler'[k] BY <1>15, <3>1, <3>3
        <4> QED BY <1>2, <2>3, <4>1 DEF DInv, OwnerInv
      <3> QED BY <3>2, <3>3
    <2>4. ASSUME NEW k \in Handlers, NEW l \in Handlers, Owns(k)', Owns(l)', req'[k] = req'[l]
          PROVE k = l
      <3>1. CASE k = h /\ l # h BY <1>5, <1>14, <1>15, <2>4, <3>1
      <3>2. CASE l = h /\ k # h BY <1>5, <1>14, <1>15, <2>4, <3>2
      <3>3. CASE k # h /\ l # h BY <1>15, <2>4, <3>3 DEF DInv, OwnerInv
      <3> QED BY <3>1, <3>2, <3>3
    <2> QED BY <2>1, <2>2, <2>3, <2>4 DEF OwnerInv
  <1>17. \A k \in Handlers : handler'[k] = "reply" => effects'[req'[k]] = 1
    <2>1. handler'[h] = "reply" => effects'[req'[h]] = 1
      BY <1>2, <1>5, <1>9, <1>10 DEF DInv, EntryInv
    <2> QED BY <1>2, <1>5, <2>1 DEF DInv, AckInv
  <1>18. AckInv' BY <1>2, <1>4, <1>17 DEF DInv, AckInv
  <1> QED BY <1>4, <1>7, <1>13, <1>16, <1>18 DEF DInv
\* The owner goes on: other handlers keep what they have.
LEMMA OthersKept ==
  ASSUME DInv, NEW h \in Handlers, Owns(h), NEW v, UNCHANGED req,
         handler' = [handler EXCEPT ![h] = v]
  PROVE  /\ handler'[h] = v /\ req[h] \in Messages
         /\ \A k \in Handlers : k # h => handler'[k] = handler[k]
         /\ \A k \in Handlers : k # h /\ Owns(k) => req[k] # req[h]
  <1>1. handler'[h] = v /\ \A k \in Handlers : k # h => handler'[k] = handler[k] BY DEF DInv, TypeOK
  <1>2. req[h] \in Messages BY DEF DInv, TypeOK, Owns
  <1> QED BY <1>1, <1>2 DEF DInv, OwnerInv

LEMMA EffectKeeps ==
  ASSUME DInv, NEW h \in Handlers, Effect(h)
  PROVE  DInv'
  <1>1. Owns(h) /\ handler[h] = "owner" BY DEF Effect, Owns
  <1>2. UNCHANGED <<box, asked, net, acks, sendVars, useTx, req>> BY DEF Effect
  <1>3. PICK m : m = req[h] OBVIOUS
  <1>4. m \in Messages /\ entry[m] = "inProgress" /\ effects[m] = 0
    BY <1>1, <1>3 DEF DInv, TypeOK, OwnerInv, Owns
  <1>5. net' \in [Messages -> Nat] /\ \A n \in Messages : net[n] = 0 => net'[n] = 0
    BY <1>2 DEF DInv, TypeOK
  <1>6. CASE /\ effects' = [effects EXCEPT ![req[h]] = @ + 1]
             /\ handler' = [handler EXCEPT ![h] = "mark"]
             /\ UNCHANGED entry
    <2>1. /\ handler'[h] = "mark"
          /\ \A k \in Handlers : k # h => handler'[k] = handler[k]
          /\ \A k \in Handlers : k # h /\ Owns(k) => req[k] # m
      BY <1>1, <1>2, <1>3, <1>6, OthersKept
    <2>2. effects' = [effects EXCEPT ![m] = 1]
      <3>1. effects[m] + 1 = 1 BY SMT, <1>4
      <3> QED BY <1>3, <1>6, <3>1
    <2>3. /\ effects'[m] = 1 /\ effects' \in [Messages -> {0, 1}]
          /\ \A n \in Messages : n # m => effects'[n] = effects[n]
      BY <1>4, <2>2 DEF DInv, TypeOK
    <2>4. \A n \in Messages : effects[n] = 1 => effects'[n] = 1 BY <2>3
    <2>5. /\ \A n \in Messages : Over(n) => Over(n)'
          /\ LeftInv'
          /\ acker' # "idle" => effects'[acking'] = 1
      BY <1>2, <1>5, <2>4, ReceiverSide
    <2>6. handler' \in [Handlers -> {"idle", "owner", "mark", "reply"}] BY <1>6 DEF DInv, TypeOK
    <2>7. TypeOK' BY <1>2, <1>3, <1>4, <1>5, <1>6, <2>1, <2>3, <2>6 DEF DInv, TypeOK, sendVars
    <2>8. EntryInv' BY <1>2, <1>4, <1>6, <2>3, <2>5 DEF DInv, EntryInv
    <2>9. ASSUME NEW k \in Handlers PROVE Owns(k)' <=> Owns(k)
      <3>1. CASE k = h BY <1>1, <2>1, <3>1 DEF Owns
      <3>2. CASE k # h BY <2>1, <3>2 DEF Owns
      <3> QED BY <3>1, <3>2
    <2>10. OwnerInv'
      <3>1. ASSUME NEW k \in Handlers, handler'[k] = "owner" PROVE effects'[req'[k]] = 0
        <4>1. k # h /\ handler[k] = "owner" BY <2>1, <3>1
        <4>2. req[k] # m /\ req[k] \in Messages BY <2>1, <4>1 DEF Owns, DInv, TypeOK
        <4> QED BY <1>2, <2>3, <4>1, <4>2 DEF DInv, OwnerInv
      <3>2. ASSUME NEW k \in Handlers, handler'[k] = "mark" PROVE effects'[req'[k]] = 1
        <4>1. CASE k = h BY <1>2, <1>3, <2>3, <4>1
        <4>2. CASE k # h
          <5>1. handler[k] = "mark" BY <2>1, <3>2, <4>2
          <5> QED BY <1>2, <2>4, <5>1 DEF DInv, TypeOK, OwnerInv
        <4> QED BY <4>1, <4>2
      <3> QED BY <1>2, <1>6, <2>9, <3>1, <3>2 DEF DInv, OwnerInv
    <2>11. \A k \in Handlers : handler'[k] = "reply" => effects'[req'[k]] = 1
      BY <1>2, <2>1, <2>4 DEF DInv, TypeOK, AckInv
    <2>12. AckInv' BY <1>2, <2>4, <2>5, <2>11 DEF DInv, TypeOK, AckInv
    <2> QED BY <2>5, <2>7, <2>8, <2>10, <2>12 DEF DInv
  <1>7. CASE /\ In!Abandon(req[h])
             /\ handler' = [handler EXCEPT ![h] = "idle"]
             /\ UNCHANGED effects
    <2>1. /\ handler'[h] = "idle"
          /\ \A k \in Handlers : k # h => handler'[k] = handler[k]
          /\ \A k \in Handlers : k # h /\ Owns(k) => req[k] # m
      BY <1>1, <1>2, <1>3, <1>7, OthersKept
    <2>2. entry' = [entry EXCEPT ![m] = "none"] BY <1>3, <1>7 DEF In!Abandon
    <2>3. /\ entry' \in [Messages -> {"none", "inProgress", "processed"}] /\ entry'[m] = "none"
          /\ \A n \in Messages : n # m => entry'[n] = entry[n]
      BY <1>4, <2>2 DEF DInv, TypeOK
    <2>4. /\ \A n \in Messages : Over(n) => Over(n)'
          /\ LeftInv'
          /\ acker' # "idle" => effects'[acking'] = 1
      BY <1>2, <1>5, <1>7, ReceiverSide
    <2>5. handler' \in [Handlers -> {"idle", "owner", "mark", "reply"}] BY <1>7 DEF DInv, TypeOK
    <2>6. TypeOK' BY <1>2, <1>5, <1>7, <2>1, <2>3, <2>5 DEF DInv, TypeOK, sendVars
    <2>7. 0 # 1 BY SMT
    <2>8. EntryInv' BY <1>2, <1>4, <1>7, <2>3, <2>4, <2>7 DEF DInv, EntryInv
    <2>9. ASSUME NEW k \in Handlers, Owns(k)'
          PROVE  /\ Owns(k) /\ k # h /\ handler'[k] = handler[k]
                 /\ req[k] # m /\ req[k] \in Messages
      <3>1. k # h BY <2>1, <2>9 DEF Owns
      <3>2. handler'[k] = handler[k] BY <2>1, <3>1
      <3>3. Owns(k) BY <2>9, <3>2 DEF Owns
      <3>4. req[k] \in Messages BY <3>3 DEF DInv, TypeOK, Owns
      <3> QED BY <2>1, <3>1, <3>2, <3>3, <3>4
    <2>10. \A k \in Handlers : Owns(k)' => entry'[req'[k]] = "inProgress"
      BY <1>2, <2>3, <2>9 DEF DInv, OwnerInv
    <2>11. \A k \in Handlers : handler'[k] \in {"owner", "mark", "reply"} => handler[k] = handler'[k]
      BY <2>1
    <2>12. OwnerInv'
      <3>1. \A k \in Handlers : handler'[k] = "owner" => effects'[req'[k]] = 0
        BY <1>2, <1>7, <2>11 DEF DInv, OwnerInv
      <3>2. \A k \in Handlers : handler'[k] = "mark" => effects'[req'[k]] = 1
        BY <1>2, <1>7, <2>11 DEF DInv, OwnerInv
      <3>3. \A k, l \in Handlers : Owns(k)' /\ Owns(l)' /\ req'[k] = req'[l] => k = l
        BY <1>2, <2>9 DEF DInv, OwnerInv
      <3> QED BY <2>10, <3>1, <3>2, <3>3 DEF OwnerInv
    <2>13. \A k \in Handlers : handler'[k] = "reply" => effects'[req'[k]] = 1
      BY <1>2, <1>7, <2>11 DEF DInv, AckInv
    <2>14. AckInv' BY <1>2, <1>7, <2>4, <2>13 DEF DInv, AckInv
    <2> QED BY <2>4, <2>6, <2>8, <2>12, <2>14 DEF DInv
  <1> QED BY <1>6, <1>7 DEF Effect
\* Who owns a request was its owner before, and its entry is as it was.
LEMMA HandlersKept ==
  ASSUME DInv, UNCHANGED <<req, effects>>,
         \A k \in Handlers : Owns(k)' => /\ handler[k] = handler'[k]
                                         /\ entry'[req[k]] = entry[req[k]]
  PROVE  OwnerInv'
  <1>1. ASSUME NEW k \in Handlers, Owns(k)' PROVE Owns(k) /\ handler[k] = handler'[k]
    BY <1>1 DEF Owns
  <1>2. \A k \in Handlers : Owns(k)' => entry'[req'[k]] = "inProgress"
    BY <1>1 DEF DInv, OwnerInv
  <1>3. \A k \in Handlers : handler'[k] = "owner" => effects'[req'[k]] = 0
    BY <1>1 DEF DInv, OwnerInv, Owns
  <1>4. \A k \in Handlers : handler'[k] = "mark" => effects'[req'[k]] = 1
    BY <1>1 DEF DInv, OwnerInv, Owns
  <1>5. \A k, l \in Handlers : Owns(k)' /\ Owns(l)' /\ req'[k] = req'[l] => k = l
    BY <1>1 DEF DInv, OwnerInv
  <1> QED BY <1>2, <1>3, <1>4, <1>5 DEF OwnerInv

LEMMA MarkProcessedKeeps ==
  ASSUME DInv, NEW h \in Handlers, MarkProcessed(h)
  PROVE  DInv'
  <1>1. /\ Owns(h) /\ handler[h] = "mark" /\ handler' = [handler EXCEPT ![h] = "reply"]
        /\ UNCHANGED <<box, asked, netVars, sendVars, useTx, req, effects>>
    BY DEF MarkProcessed, Owns
  <1>2. PICK m : m = req[h] OBVIOUS
  <1>3. m \in Messages /\ entry[m] = "inProgress" /\ effects[m] = 1
    BY <1>1, <1>2 DEF DInv, TypeOK, OwnerInv, Owns
  <1>4. /\ handler'[h] = "reply"
        /\ \A k \in Handlers : k # h => handler'[k] = handler[k]
        /\ \A k \in Handlers : k # h /\ Owns(k) => req[k] # m
    BY <1>1, <1>2, OthersKept
  <1>5. entry' = [entry EXCEPT ![m] = "processed"] BY <1>2 DEF MarkProcessed, In!MarkProcessed
  <1>6. /\ entry' \in [Messages -> {"none", "inProgress", "processed"}] /\ entry'[m] = "processed"
        /\ \A n \in Messages : n # m => entry'[n] = entry[n]
    BY <1>3, <1>5 DEF DInv, TypeOK
  <1>7. net' \in [Messages -> Nat] /\ \A n \in Messages : net[n] = 0 => net'[n] = 0
    BY <1>1 DEF DInv, TypeOK, netVars
  <1>8. /\ \A n \in Messages : Over(n) => Over(n)'
        /\ LeftInv'
        /\ acker' # "idle" => effects'[acking'] = 1
    BY <1>1, <1>7, ReceiverSide
  <1>9. handler' \in [Handlers -> {"idle", "owner", "mark", "reply"}] BY <1>1 DEF DInv, TypeOK
  <1>10. TypeOK' BY <1>1, <1>2, <1>3, <1>4, <1>6, <1>7, <1>9 DEF DInv, TypeOK, sendVars, netVars
  <1>11. EntryInv'
    <2>1. useTx => FALSE BY <1>3 DEF DInv, EntryInv
    <2> QED BY <1>1, <1>3, <1>6, <1>8, <2>1 DEF DInv, EntryInv
  <1>12. ASSUME NEW k \in Handlers, Owns(k)'
         PROVE  handler[k] = handler'[k] /\ entry'[req[k]] = entry[req[k]]
    <2>1. k # h BY <1>4, <1>12 DEF Owns
    <2>2. handler'[k] = handler[k] BY <1>4, <2>1
    <2>3. Owns(k) BY <1>12, <2>2 DEF Owns
    <2>4. req[k] # m /\ req[k] \in Messages BY <1>4, <2>1, <2>3 DEF DInv, TypeOK, Owns
    <2> QED BY <1>6, <2>2, <2>4
  <1>13. OwnerInv' BY <1>1, <1>12, HandlersKept
  <1>14. \A k \in Handlers : handler'[k] = "reply" => effects'[req'[k]] = 1
    <2>1. effects'[req'[h]] = 1 BY <1>1, <1>2, <1>3
    <2> QED BY <1>1, <1>4, <2>1 DEF DInv, AckInv
  <1>15. AckInv' BY <1>1, <1>8, <1>14 DEF DInv, AckInv, netVars
  <1> QED BY <1>8, <1>10, <1>11, <1>13, <1>15 DEF DInv

LEMMA ReplyKeeps ==
  ASSUME DInv, NEW h \in Handlers, Reply(h)
  PROVE  DInv'
  <1>1. /\ handler[h] = "reply" /\ handler' = [handler EXCEPT ![h] = "idle"]
        /\ acks' = acks \cup {req[h]}
        /\ UNCHANGED <<storeVars, net, sendVars, useTx, req, effects>>
    BY DEF Reply
  <1>2. req[h] \in Messages /\ effects[req[h]] = 1 BY <1>1 DEF DInv, TypeOK, AckInv
  <1>3. net' \in [Messages -> Nat] /\ \A n \in Messages : net[n] = 0 => net'[n] = 0
    BY <1>1 DEF DInv, TypeOK
  <1>4. /\ \A n \in Messages : Over(n) => Over(n)'
        /\ LeftInv'
        /\ acker' # "idle" => effects'[acking'] = 1
    BY <1>1, <1>3, ReceiverSide DEF storeVars
  <1>5. handler'[h] = "idle" /\ \A k \in Handlers : k # h => handler'[k] = handler[k]
    BY <1>1 DEF DInv, TypeOK
  <1>6. handler' \in [Handlers -> {"idle", "owner", "mark", "reply"}] BY <1>1 DEF DInv, TypeOK
  <1>7. TypeOK' BY <1>1, <1>2, <1>3, <1>5, <1>6 DEF DInv, TypeOK, sendVars, storeVars
  <1>8. EntryInv' BY <1>1, <1>4 DEF DInv, EntryInv, storeVars
  <1>9. \A k \in Handlers : handler'[k] # "idle" => handler[k] = handler'[k] BY <1>5
  <1>10. \A k \in Handlers : Owns(k)' => handler[k] = handler'[k] BY <1>9 DEF Owns
  <1>11. OwnerInv' BY <1>1, <1>10, HandlersKept DEF storeVars
  <1>12. \A n \in acks' : effects'[n] = 1 BY <1>1, <1>2 DEF DInv, AckInv
  <1>13. AckInv' BY <1>1, <1>4, <1>9, <1>12 DEF DInv, AckInv
  <1> QED BY <1>4, <1>7, <1>8, <1>11, <1>13 DEF DInv

LEMMA CleanupKeeps ==
  ASSUME DInv, Cleanup
  PROVE  DInv'
  <1>1. PICK S \in SUBSET {m \in asked : /\ net[m] = 0 /\ ~Out!Unresolved(m)
                                        /\ ~(sending = m /\ sender # "idle")} :
           In!Cleanup(S)
    BY DEF Cleanup
  <1>2. UNCHANGED <<box, asked, netVars, sendVars, recvVars>> BY DEF Cleanup
  <1>3. \A m \in S : Over(m) BY <1>1 DEF Over
  <1>4. /\ \A m \in S : entry[m] = "processed"
        /\ entry' = [m \in Messages |-> IF m \in S THEN "none" ELSE entry[m]]
    BY <1>1 DEF In!Cleanup
  <1>5. entry' \in [Messages -> {"none", "inProgress", "processed"}] BY <1>4 DEF DInv, TypeOK
  <1>6. \A m \in Messages : entry'[m] = entry[m] \/ (m \in S /\ entry[m] = "processed" /\ entry'[m] = "none")
    BY <1>4
  <1>7. net' \in [Messages -> Nat] /\ \A n \in Messages : net[n] = 0 => net'[n] = 0
    BY <1>2 DEF DInv, TypeOK, netVars
  <1>8. /\ \A n \in Messages : Over(n) => Over(n)'
        /\ LeftInv'
        /\ acker' # "idle" => effects'[acking'] = 1
    BY <1>2, <1>7, ReceiverSide DEF recvVars
  <1>9. TypeOK' BY <1>2, <1>5 DEF DInv, TypeOK, sendVars, netVars, recvVars
  <1>10. EntryInv'
    <2>1. ASSUME NEW m \in Messages
          PROVE  /\ entry'[m] = "processed" => effects'[m] = 1
                 /\ entry'[m] = "none" /\ effects'[m] = 1 => Over(m)'
                 /\ useTx' => entry'[m] # "inProgress"
      <3>1. CASE entry'[m] = entry[m] BY <1>2, <1>8, <3>1 DEF DInv, EntryInv, recvVars
      <3>2. CASE m \in S /\ entry'[m] = "none" BY <1>3, <1>8, <3>2
      <3> QED BY <1>6, <3>1, <3>2
    <2> QED BY <2>1 DEF EntryInv
  <1>11. ASSUME NEW k \in Handlers, Owns(k)'
         PROVE  handler[k] = handler'[k] /\ entry'[req[k]] = entry[req[k]]
    <2>1. Owns(k) /\ handler[k] = handler'[k] BY <1>2, <1>11 DEF Owns, recvVars
    <2>2. req[k] \in Messages /\ entry[req[k]] = "inProgress" BY <2>1 DEF DInv, TypeOK, OwnerInv, Owns
    <2> QED BY <1>6, <2>1, <2>2
  <1>12. OwnerInv' BY <1>2, <1>11, HandlersKept DEF recvVars
  <1>13. AckInv' BY <1>2 DEF DInv, AckInv, sendVars, netVars, recvVars
  <1> QED BY <1>8, <1>9, <1>10, <1>12, <1>13 DEF DInv

LEMMA CrashReceiverKeeps ==
  ASSUME DInv, CrashReceiver
  PROVE  DInv'
  <1>1. /\ handler' = [h \in Handlers |-> "idle"]
        /\ UNCHANGED <<storeVars, netVars, sendVars, useTx, req, effects>>
    BY DEF CrashReceiver
  <1>2. \A k \in Handlers : handler'[k] = "idle" BY <1>1
  <1>3. net' \in [Messages -> Nat] /\ \A n \in Messages : net[n] = 0 => net'[n] = 0
    BY <1>1 DEF DInv, TypeOK, netVars
  <1>4. /\ \A n \in Messages : Over(n) => Over(n)'
        /\ LeftInv'
        /\ acker' # "idle" => effects'[acking'] = 1
    BY <1>1, <1>3, ReceiverSide DEF storeVars
  <1>5. TypeOK' BY <1>1, <1>2 DEF DInv, TypeOK, storeVars, netVars, sendVars
  <1>6. EntryInv' BY <1>1, <1>4 DEF DInv, EntryInv, storeVars
  <1>7. OwnerInv' BY <1>2 DEF OwnerInv, Owns
  <1>8. AckInv' BY <1>1, <1>2, <1>4 DEF DInv, AckInv, netVars
  <1> QED BY <1>4, <1>5, <1>6, <1>7, <1>8 DEF DInv

-----------------------------------------------------------------------------
\* Under losses, duplicates, retries and crashes of either end, with or without a
\* transaction around the effect, the effect of a message is applied at most once, and a
\* message is Applied in the outbox, or has left it, only after its effect (store_v2.go:
\* Acquire and Cleanup of the inbox, MarkApplied and Complete of the outbox).
THEOREM EffectsOnce == DeliverySpec => []EffectOnce
  <1>1. DeliveryInit => DInv BY InvInit
  <1>2. DInv /\ [DeliveryNext]_deliveryVars => DInv'
    <2> SUFFICES ASSUME DInv, [DeliveryNext]_deliveryVars PROVE DInv' OBVIOUS
    <2>1. CASE \E m \in Messages : Enqueue(m) \/ BecomeDue(m)
      BY <2>1, EnqueueKeeps, BecomeDueKeeps
    <2>2. CASE SenderStep
      BY <2>2, PickKeeps, TransmitKeeps, MarkKeeps, RecordKeeps, ExpireKeeps DEF SenderStep
    <2>3. CASE AckerStep BY <2>3, AckKeeps, ApplyKeeps, CompleteKeeps DEF AckerStep
    <2>4. CASE Lose BY <2>4, LoseKeeps
    <2>5. CASE Cleanup BY <2>5, CleanupKeeps
    <2>6. CASE CrashSender BY <2>6, CrashSenderKeeps
    <2>7. CASE CrashReceiver BY <2>7, CrashReceiverKeeps
    <2>8. CASE \E h \in Handlers : HandlerStep(h)
      BY <2>8, HandleTxKeeps, AcquireKeeps, EffectKeeps, MarkProcessedKeeps, ReplyKeeps DEF HandlerStep
    <2>9. CASE UNCHANGED deliveryVars
      BY <2>9, BoxSame DEF deliveryVars, storeVars, sendVars
    <2> QED BY <2>1, <2>2, <2>3, <2>4, <2>5, <2>6, <2>7, <2>8, <2>9 DEF DeliveryNext
  <1>3. DInv => EffectOnce BY InvImpliesEffectOnce
  <1> QED BY <1>1, <1>2, <1>3, PTL DEF DeliverySpec
=============================================================================

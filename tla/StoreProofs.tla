---------------------------- MODULE StoreProofs -----------------------------
(***************************************************************************)
(* Proofs about SQLOutbox, SQLInbox and AsyncWriter, for any messages,     *)
(* requests, clients, handlers and writers: the outbox table moves as the  *)
(* memory store does, nil is returned only for a transition that was made, *)
(* the inbox has one owner per request and forgets no processed one, and   *)
(* the Close of a log writes all it had accepted.                          *)
(***************************************************************************)
EXTENDS SQLOutbox, SQLInbox, AsyncWriter, TLAPS

\* Leaves with arithmetic or a large case split cite SMT.
USE Zenon

-----------------------------------------------------------------------------
(* Rows of the outbox *)

Rows == [sent : BOOLEAN, acked : BOOLEAN, dead : BOOLEAN, attempts : Nat, due : BOOLEAN]
Boxes == [Messages -> Rows \cup {Absent}]
Ongoing == [op : Ops, m : Messages]  \* the calls in progress
Calls == Ongoing \cup {NoCall}
Labels == {"idle", "check", "update"}

OutboxType ==
  /\ box \in Boxes
  /\ pc \in [Clients -> Labels]
  /\ call \in [Clients -> Calls]
  /\ ret \in [Clients -> {"none", "nil", "error"}]

LEMMA RowFact == ASSUME NEW r \in Rows PROVE r # Absent
  <1>1. DOMAIN r = {"sent", "acked", "dead", "attempts", "due"} BY SMT DEF Rows
  <1>2. DOMAIN Absent = {"stored"} BY SMT DEF Absent
  <1>3. "stored" \notin {"sent", "acked", "dead", "attempts", "due"} OBVIOUS
  <1> QED BY <1>1, <1>2, <1>3

\* outboxState, column by column.
LEMMA StateFact ==
  ASSUME NEW r \in Rows
  PROVE  /\ StateOf(r) = "enqueued" <=> ~r.dead /\ ~r.acked /\ ~r.sent
         /\ StateOf(r) = "transported" <=> ~r.dead /\ ~r.acked /\ r.sent
         /\ StateOf(r) = "applied" <=> ~r.dead /\ r.acked
         /\ StateOf(r) = "deadLetter" <=> r.dead
         /\ StateOf(r) # "absent"
  <1>1. r # Absent BY RowFact
  <1>2. r.dead \in BOOLEAN /\ r.acked \in BOOLEAN /\ r.sent \in BOOLEAN BY SMT DEF Rows
  <1>3. CASE r.dead BY <1>1, <1>2, <1>3 DEF StateOf
  <1>4. CASE ~r.dead /\ r.acked BY <1>1, <1>2, <1>4 DEF StateOf
  <1>5. CASE ~r.dead /\ ~r.acked /\ r.sent BY <1>1, <1>2, <1>5 DEF StateOf
  <1>6. CASE ~r.dead /\ ~r.acked /\ ~r.sent BY <1>1, <1>2, <1>6 DEF StateOf
  <1> QED BY <1>2, <1>3, <1>4, <1>5, <1>6

LEMMA AbsentFact == StateOf(Absent) = "absent"
  BY DEF StateOf

\* A row that a WHERE clause can match.
LEMMA WhereFact ==
  ASSUME OutboxType, NEW m \in Messages, NEW P, Where(m, P)
  PROVE  box[m] \in Rows /\ P
  BY DEF OutboxType, Boxes, Where

LEMMA Patch ==
  ASSUME NEW r \in Rows
  PROVE  /\ \A b \in BOOLEAN : /\ [r EXCEPT !.sent = b] \in Rows /\ [r EXCEPT !.acked = b] \in Rows
                               /\ [r EXCEPT !.dead = b] \in Rows /\ [r EXCEPT !.due = b] \in Rows
         /\ \A n \in Nat : [r EXCEPT !.attempts = n] \in Rows
  BY DEF Rows

LEMMA AttemptRow ==
  ASSUME NEW r \in Rows, NEW b \in BOOLEAN
  PROVE  [r EXCEPT !.attempts = @ + 1, !.due = FALSE, !.sent = @ /\ b] \in Rows
  <1>1. r.attempts + 1 \in Nat BY SMT DEF Rows
  <1>2. PICK s : s = [r EXCEPT !.attempts = @ + 1] OBVIOUS
  <1>3. PICK t : t = [s EXCEPT !.due = FALSE] OBVIOUS
  <1>4. s \in Rows BY <1>1, <1>2, Patch
  <1>5. t \in Rows BY <1>3, <1>4, Patch
  <1>6. (t.sent /\ b) \in BOOLEAN OBVIOUS
  <1>7. [t EXCEPT !.sent = @ /\ b] \in Rows BY <1>5, <1>6, Patch
  <1> QED BY <1>2, <1>3, <1>7

LEMMA MemoryType ==
  ASSUME box \in Boxes, [Next]_box
  PROVE  box' \in Boxes
  <1>1. ASSUME NEW m \in Messages, State(m) # "absent" PROVE box[m] \in Rows
    BY <1>1, AbsentFact DEF Boxes, State
  <1>2. ASSUME NEW m \in Messages, NEW r \in Rows \cup {Absent}, box' = [box EXCEPT ![m] = r]
        PROVE  box' \in Boxes
    BY SMT, <1>2 DEF Boxes
  <1>3. ASSUME NEW m \in Messages, Enqueue(m) PROVE box' \in Boxes
    <2>1. NewRow \in Rows BY SMT DEF NewRow, Rows
    <2> QED BY <1>2, <1>3, <2>1 DEF Enqueue
  <1>4. ASSUME NEW m \in Messages, MarkTransported(m) \/ MarkApplied(m) PROVE box' \in Boxes
    <2>1. box[m] \in Rows BY <1>1, <1>4 DEF MarkTransported, MarkApplied
    <2>2. [box[m] EXCEPT !.sent = TRUE] \in Rows /\ [box[m] EXCEPT !.acked = TRUE] \in Rows
      BY <2>1, Patch
    <2>3. CASE MarkTransported(m) BY <1>2, <2>2, <2>3 DEF MarkTransported
    <2>4. CASE MarkApplied(m) BY <1>2, <2>2, <2>4 DEF MarkApplied
    <2> QED BY <1>4, <2>3, <2>4
  <1>5. ASSUME NEW m \in Messages, NEW failed \in BOOLEAN, RecordAttempt(m, failed) PROVE box' \in Boxes
    <2>1. box[m] \in Rows BY <1>1, <1>5 DEF RecordAttempt, Unresolved
    <2>2. [box[m] EXCEPT !.attempts = @ + 1, !.due = FALSE, !.sent = @ /\ ~failed] \in Rows
      BY <2>1, AttemptRow
    <2>3. PICK q : q = [box[m] EXCEPT !.attempts = @ + 1, !.due = FALSE, !.sent = @ /\ ~failed]
      OBVIOUS
    <2>4. box' = [box EXCEPT ![m] = q] BY <1>5, <2>3 DEF RecordAttempt
    <2> QED BY <1>2, <2>2, <2>3, <2>4
  <1>6. ASSUME NEW m \in Messages, MoveToDeadLetter(m) PROVE box' \in Boxes
    <2>1. box[m] \in Rows BY <1>1, <1>6 DEF MoveToDeadLetter, Unresolved
    <2>2. [box[m] EXCEPT !.dead = TRUE] \in Rows BY <2>1, Patch
    <2> QED BY <1>2, <1>6, <2>2 DEF MoveToDeadLetter
  <1>7. ASSUME NEW m \in Messages, BecomeDue(m) PROVE box' \in Boxes
    <2>1. box[m] \in Rows BY <1>7 DEF BecomeDue, Boxes
    <2>2. [box[m] EXCEPT !.due = TRUE] \in Rows BY <2>1, Patch
    <2> QED BY <1>2, <1>7, <2>2 DEF BecomeDue
  <1>8. ASSUME NEW m \in Messages, NEW t, Complete(m, t) PROVE box' \in Boxes
    BY <1>2, <1>8 DEF Complete
  <1>9. ASSUME NEW S, Purge(S) PROVE box' \in Boxes
    BY SMT, <1>9 DEF Purge, Boxes
  <1> QED BY <1>3, <1>4, <1>5, <1>6, <1>7, <1>8, <1>9 DEF Next

\* A call in progress is about a message, and only RecordAttempt reads before it writes.
CallInv == \A c \in Clients :
  /\ pc[c] # "idle" => call[c] \in Ongoing
  /\ pc[c] = "update" => call[c].op \in {"attempt", "failedAttempt"}

-----------------------------------------------------------------------------
(* Each statement is a step of the memory store, or changes no row *)

LEMMA MarkTransportedMaps ==
  ASSUME OutboxType, NEW c \in Clients, NEW m \in Messages, SQLMarkTransported(c, m)
  PROVE  Next \/ box' = box
  <1>1. CASE Where(m, ~box[m].sent /\ ~box[m].acked /\ ~box[m].dead)
    <2>1. box[m] \in Rows /\ ~box[m].sent /\ ~box[m].acked /\ ~box[m].dead BY <1>1, WhereFact
    <2>2. State(m) = "enqueued" BY <2>1, StateFact DEF State
    <2> QED BY <1>1, <2>2 DEF SQLMarkTransported, MarkTransported, Next
  <1> QED BY <1>1 DEF SQLMarkTransported, Miss

LEMMA MarkAppliedMaps ==
  ASSUME OutboxType, NEW c \in Clients, NEW m \in Messages, SQLMarkApplied(c, m)
  PROVE  Next \/ box' = box
  <1>1. CASE Where(m, box[m].sent /\ ~box[m].acked /\ ~box[m].dead)
    <2>1. box[m] \in Rows /\ box[m].sent /\ ~box[m].acked /\ ~box[m].dead BY <1>1, WhereFact
    <2>2. State(m) = "transported" BY <2>1, StateFact DEF State
    <2> QED BY <1>1, <2>2 DEF SQLMarkApplied, MarkApplied, Next
  <1> QED BY <1>1 DEF SQLMarkApplied, Miss

\* A dead letter is matched again, and stays what it is.
LEMMA MoveToDeadLetterMaps ==
  ASSUME OutboxType, NEW c \in Clients, NEW m \in Messages, SQLMoveToDeadLetter(c, m)
  PROVE  Next \/ box' = box
  <1>1. CASE Where(m, ~box[m].acked)
    <2>1. box[m] \in Rows /\ ~box[m].acked BY <1>1, WhereFact
    <2>2. box' = [box EXCEPT ![m].dead = TRUE, ![m].acked = FALSE]
      BY <1>1 DEF SQLMoveToDeadLetter
    <2>3. CASE box[m].dead
      <3>1. box[m].dead = TRUE /\ box[m].acked = FALSE BY <2>1, <2>3 DEF Rows
      <3>2. [box[m] EXCEPT !.dead = TRUE, !.acked = FALSE] = box[m] BY <2>1, <3>1 DEF Rows
      <3>3. box' = [box EXCEPT ![m] = box[m]] BY <2>2, <3>2
      <3> QED BY <3>3 DEF OutboxType, Boxes
    <2>4. CASE ~box[m].dead
      <3>1. Unresolved(m) BY <2>1, <2>4, StateFact DEF Unresolved, State
      <3>2. box[m].acked = FALSE BY <2>1 DEF Rows
      <3>3. [box[m] EXCEPT !.dead = TRUE, !.acked = FALSE] = [box[m] EXCEPT !.dead = TRUE]
        BY <2>1, <3>2 DEF Rows
      <3>4. box' = [box EXCEPT ![m].dead = TRUE] BY <2>2, <3>3
      <3> QED BY <3>1, <3>4 DEF MoveToDeadLetter, Next
    <2> QED BY <2>3, <2>4
  <1> QED BY <1>1 DEF SQLMoveToDeadLetter, Miss

LEMMA CompleteMaps ==
  ASSUME OutboxType, NEW c \in Clients, NEW m \in Messages,
         NEW terminal \in {"transported", "applied"}, SQLComplete(c, m, terminal)
  PROVE  Next \/ box' = box
  <1> DEFINE P == /\ ~box[m].dead
                  /\ IF terminal = "applied" THEN box[m].acked ELSE box[m].sent /\ ~box[m].acked
  <1>1. CASE Where(m, P)
    <2>1. box[m] \in Rows /\ P BY <1>1, WhereFact
    <2>2. State(m) = terminal BY <2>1, StateFact DEF State
    <2> QED BY <1>1, <2>2 DEF SQLComplete, Complete, Next
  <1> QED BY <1>1 DEF SQLComplete, Miss

LEMMA AttemptMaps ==
  ASSUME OutboxType, CallInv, NEW c \in Clients, AttemptUpdate(c)
  PROVE  Next \/ box' = box
  <1> DEFINE m == call[c].m
             failed == call[c].op = "failedAttempt"
  <1>1. m \in Messages BY SMT DEF AttemptUpdate, CallInv, Ongoing
  <1>2. CASE Where(m, ~box[m].acked /\ ~box[m].dead)
    <2>1. box[m] \in Rows /\ ~box[m].acked /\ ~box[m].dead BY <1>1, <1>2, WhereFact
    <2>2. Unresolved(m) BY <2>1, StateFact DEF Unresolved, State
    <2>3. RecordAttempt(m, failed) BY <1>2, <2>2 DEF AttemptUpdate, RecordAttempt
    <2> QED BY <1>1, <2>3 DEF Next
  <1> QED BY <1>2 DEF AttemptUpdate, Miss

LEMMA OutboxMaps == ASSUME OutboxType, CallInv, SQLNext PROVE Next \/ box' = box
  <1>1. ASSUME NEW m \in Messages, SQLEnqueue(m) \/ SQLBecomeDue(m) PROVE Next
    BY <1>1 DEF SQLEnqueue, SQLBecomeDue, Next
  <1>2. ASSUME SQLPurge PROVE Next BY <1>2 DEF SQLPurge, Next
  <1>3. ASSUME NEW c \in Clients, NEW m \in Messages, NEW failed, AttemptRead(c, m, failed)
        PROVE  box' = box
    BY <1>3 DEF AttemptRead
  <1>4. ASSUME NEW c \in Clients, Check(c) \/ StoreError(c) PROVE box' = box
    BY <1>4 DEF Check, StoreError
  <1> QED BY <1>1, <1>2, <1>3, <1>4, MarkTransportedMaps, MarkAppliedMaps, MoveToDeadLetterMaps,
             CompleteMaps, AttemptMaps DEF SQLNext

-----------------------------------------------------------------------------
(* What a call has seen *)

\* One statement: client c leaves for label l with result r, and the others stay.
LEMMA GotoFact ==
  ASSUME OutboxType, NEW c \in Clients, NEW l, NEW r, Goto(c, l, r)
  PROVE  /\ pc'[c] = l /\ ret'[c] = r
         /\ \A d \in Clients \ {c} : pc'[d] = pc[d] /\ ret'[d] = ret[d]
  BY DEF Goto, OutboxType

LEMMA SeenOther ==
  ASSUME NEW S, Watch(S), NEW c \in Clients \ S
  PROVE  seen[c] \subseteq seen'[c]
  <1>1. CASE pc[c] # "idle" BY <1>1 DEF Watch
  <1>2. CASE pc[c] = "idle" BY <1>2 DEF Watch
  <1> QED BY <1>1, <1>2

LEMMA SeenOwn ==
  ASSUME NEW c \in Clients, Watch({c})
  PROVE  State(call'[c].m) \in seen'[c] /\ StateOf(box'[call'[c].m]) \in seen'[c]
  BY DEF Watch

OutInv == OutboxType /\ CallInv /\ NilMeansDone

\* A statement of c in a call about message m that is an op: what the invariant asks of it.
LEMMA CallStep ==
  ASSUME OutInv, box' \in Boxes, NEW c \in Clients, NEW l \in Labels,
         NEW r \in {"none", "nil", "error"}, Goto(c, l, r), NEW k \in Ongoing,
         call' = [call EXCEPT ![c] = k],
         l = "update" => k.op \in {"attempt", "failedAttempt"},
         r = "nil" /\ k.op \in Targets => k.op \in {State(k.m), StateOf(box'[k.m])}
  PROVE  OutInv'
  <1>1. /\ pc'[c] = l /\ ret'[c] = r
        /\ \A d \in Clients \ {c} : pc'[d] = pc[d] /\ ret'[d] = ret[d]
    BY GotoFact DEF OutInv
  <1>2. call'[c] = k /\ \A d \in Clients \ {c} : call'[d] = call[d] BY DEF OutInv, OutboxType
  <1>3. OutboxType'
    <2>1. call' \in [Clients -> Calls] BY SMT DEF OutInv, OutboxType, Calls
    <2>2. pc' \in [Clients -> Labels] BY SMT DEF OutInv, OutboxType, Goto
    <2>3. ret' \in [Clients -> {"none", "nil", "error"}] BY SMT DEF OutInv, OutboxType, Goto
    <2> QED BY <2>1, <2>2, <2>3 DEF OutboxType
  <1>4. CallInv'
    <2>1. ASSUME NEW d \in Clients
          PROVE  /\ pc'[d] # "idle" => call'[d] \in Ongoing
                 /\ pc'[d] = "update" => call'[d].op \in {"attempt", "failedAttempt"}
      <3>1. CASE d = c BY <1>1, <1>2, <3>1
      <3>2. CASE d # c BY <1>1, <1>2, <3>2 DEF OutInv, CallInv
      <3> QED BY <3>1, <3>2
    <2> QED BY <2>1 DEF CallInv
  <1>5. NilMeansDone'
    <2> Watch({c}) BY DEF Goto
    <2>1. ASSUME NEW d \in Clients, ret'[d] = "nil", call'[d].op \in Targets
          PROVE  call'[d].op \in seen'[d]
      <3>1. CASE d = c
        <4>1. k.op \in {State(k.m), StateOf(box'[k.m])} BY <1>1, <1>2, <2>1, <3>1
        <4>2. State(call'[c].m) \in seen'[c] /\ StateOf(box'[call'[c].m]) \in seen'[c] BY SeenOwn
        <4> QED BY <1>2, <3>1, <4>1, <4>2
      <3>2. CASE d # c
        <4>1. call[d].op \in seen[d] BY <1>1, <1>2, <2>1, <3>2 DEF OutInv, NilMeansDone
        <4>2. d \in Clients \ {c} BY <3>2
        <4>3. seen[d] \subseteq seen'[d] BY <4>2, SeenOther
        <4> QED BY <1>2, <3>2, <4>1, <4>3
      <3> QED BY <3>1, <3>2
    <2> QED BY <2>1 DEF NilMeansDone
  <1> QED BY <1>3, <1>4, <1>5 DEF OutInv

LEMMA DoneStep ==
  ASSUME OutInv, box' \in Boxes, NEW c \in Clients, NEW k \in Ongoing,
         call' = [call EXCEPT ![c] = k],
         Miss(c) \/ (Done(c) /\ (k.op \in Targets => k.op = StateOf(box'[k.m])))
  PROVE  OutInv'
  <1>1. CASE Miss(c) BY <1>1, CallStep DEF Miss, Labels
  <1>2. CASE Done(c) /\ (k.op \in Targets => k.op = StateOf(box'[k.m]))
    BY <1>2, CallStep DEF Done, Labels
  <1> QED BY <1>1, <1>2

\* A step of nobody's call.
LEMMA QuietStep ==
  ASSUME OutInv, box' \in Boxes, UNCHANGED <<pc, call, ret>>, Watch({})
  PROVE  OutInv'
  <1>1. OutboxType' /\ CallInv' BY DEF OutInv, OutboxType, CallInv
  <1>2. ASSUME NEW c \in Clients PROVE seen[c] \subseteq seen'[c]
    <2>1. c \in Clients \ {} OBVIOUS
    <2> QED BY <2>1, SeenOther
  <1> QED BY <1>1, <1>2 DEF OutInv, NilMeansDone

LEMMA CallFact ==
  ASSUME NEW op \in Ops, NEW m \in Messages, NEW k, k = [op |-> op, m |-> m]
  PROVE  k \in Ongoing /\ k.op = op /\ k.m = m
  BY SMT DEF Ongoing

LEMMA StatementInv ==
  ASSUME OutInv, box' \in Boxes, NEW c \in Clients, NEW m \in Messages,
         \/ SQLMarkTransported(c, m) \/ SQLMarkApplied(c, m) \/ SQLMoveToDeadLetter(c, m)
  PROVE  OutInv'
  <1>1. box \in Boxes /\ box'[m] \in Rows \cup {Absent} BY DEF OutInv, OutboxType, Boxes
  <1>2. ASSUME NEW op \in Targets, Issue(c, op, m),
               Miss(c) \/ (Done(c) /\ StateOf(box'[m]) = op)
        PROVE  OutInv'
    <2>1. op \in Ops BY <1>2 DEF Ops
    <2>2. PICK k : k = [op |-> op, m |-> m] OBVIOUS
    <2>3. call' = [call EXCEPT ![c] = k] BY <1>2, <2>2 DEF Issue
    <2>4. k \in Ongoing /\ k.op = op /\ k.m = m BY <2>1, <2>2, CallFact
    <2>5. Miss(c) \/ (Done(c) /\ (k.op \in Targets => k.op = StateOf(box'[k.m]))) BY <1>2, <2>4
    <2> QED BY <2>3, <2>4, <2>5, DoneStep
  <1>3. ASSUME NEW r \in Rows, box' = [box EXCEPT ![m] = r] PROVE box'[m] = r
    BY <1>1, <1>3 DEF Boxes
  <1>4. CASE SQLMarkTransported(c, m)
    <2>1. CASE Where(m, ~box[m].sent /\ ~box[m].acked /\ ~box[m].dead)
      <3>1. box[m] \in Rows /\ ~box[m].acked /\ ~box[m].dead BY <2>1, WhereFact DEF OutInv
      <3>2. PICK r : r = [box[m] EXCEPT !.sent = TRUE] OBVIOUS
      <3>3. r \in Rows /\ r.sent /\ ~r.acked /\ ~r.dead BY <3>1, <3>2, Patch DEF Rows
      <3>4. box' = [box EXCEPT ![m] = r] BY <1>4, <2>1, <3>2 DEF SQLMarkTransported
      <3>5. StateOf(box'[m]) = "transported" BY <1>3, <3>3, <3>4, StateFact
      <3> QED BY <1>2, <1>4, <2>1, <3>5 DEF SQLMarkTransported, Targets
    <2>2. CASE Miss(c) /\ Issue(c, "transported", m) BY <1>2, <2>2 DEF Targets
    <2> QED BY <1>4, <2>1, <2>2 DEF SQLMarkTransported
  <1>5. CASE SQLMarkApplied(c, m)
    <2>1. CASE Where(m, box[m].sent /\ ~box[m].acked /\ ~box[m].dead)
      <3>1. box[m] \in Rows /\ ~box[m].dead BY <2>1, WhereFact DEF OutInv
      <3>2. PICK r : r = [box[m] EXCEPT !.acked = TRUE] OBVIOUS
      <3>3. r \in Rows /\ r.acked /\ ~r.dead BY <3>1, <3>2, Patch DEF Rows
      <3>4. box' = [box EXCEPT ![m] = r] BY <1>5, <2>1, <3>2 DEF SQLMarkApplied
      <3>5. StateOf(box'[m]) = "applied" BY <1>3, <3>3, <3>4, StateFact
      <3> QED BY <1>2, <1>5, <2>1, <3>5 DEF SQLMarkApplied, Targets
    <2>2. CASE Miss(c) /\ Issue(c, "applied", m) BY <1>2, <2>2 DEF Targets
    <2> QED BY <1>5, <2>1, <2>2 DEF SQLMarkApplied
  <1>6. CASE SQLMoveToDeadLetter(c, m)
    <2>1. CASE Where(m, ~box[m].acked)
      <3>1. box[m] \in Rows BY <2>1, WhereFact DEF OutInv
      <3>2. PICK r : r = [box[m] EXCEPT !.dead = TRUE, !.acked = FALSE] OBVIOUS
      <3>3. r \in Rows /\ r.dead BY <3>1, <3>2 DEF Rows
      <3>4. box' = [box EXCEPT ![m] = r] BY <1>6, <2>1, <3>2 DEF SQLMoveToDeadLetter
      <3>5. StateOf(box'[m]) = "deadLetter" BY <1>3, <3>3, <3>4, StateFact
      <3> QED BY <1>2, <1>6, <2>1, <3>5 DEF SQLMoveToDeadLetter, Targets
    <2>2. CASE Miss(c) /\ Issue(c, "deadLetter", m) BY <1>2, <2>2 DEF Targets
    <2> QED BY <1>6, <2>1, <2>2 DEF SQLMoveToDeadLetter
  <1> QED BY <1>4, <1>5, <1>6

LEMMA CompleteInv ==
  ASSUME OutInv, box' \in Boxes, NEW c \in Clients, NEW m \in Messages, NEW terminal,
         SQLComplete(c, m, terminal)
  PROVE  OutInv'
  <1>1. PICK op \in Ops \ Targets : Issue(c, op, m)
    BY DEF SQLComplete, Ops, Targets
  <1>2. PICK k : k = [op |-> op, m |-> m] OBVIOUS
  <1>3. call' = [call EXCEPT ![c] = k] BY <1>1, <1>2 DEF Issue
  <1>4. k \in Ongoing /\ k.op \notin Targets BY <1>1, <1>2, CallFact
  <1>5. Miss(c) \/ Done(c) BY DEF SQLComplete
  <1> QED BY <1>3, <1>4, <1>5, DoneStep

LEMMA AttemptReadInv ==
  ASSUME OutInv, box' \in Boxes, NEW c \in Clients, NEW m \in Messages, NEW failed,
         AttemptRead(c, m, failed)
  PROVE  OutInv'
  <1>1. PICK op \in {"attempt", "failedAttempt"} : Issue(c, op, m) BY DEF AttemptRead
  <1>2. PICK k : k = [op |-> op, m |-> m] OBVIOUS
  <1>3. call' = [call EXCEPT ![c] = k] BY <1>1, <1>2 DEF Issue
  <1>4. k \in Ongoing /\ k.op = op BY <1>1, <1>2, CallFact DEF Ops
  <1>5. CASE Goto(c, "update", "none") BY <1>1, <1>3, <1>4, <1>5, CallStep DEF Labels
  <1>6. CASE Goto(c, "idle", "error") BY <1>3, <1>4, <1>6, CallStep DEF Labels
  <1> QED BY <1>5, <1>6 DEF AttemptRead

LEMMA RestInv ==
  ASSUME OutInv, box' \in Boxes, NEW c \in Clients, Check(c) \/ AttemptUpdate(c) \/ StoreError(c)
  PROVE  OutInv'
  <1>1. PICK k \in Ongoing : k = call[c]
    BY DEF OutInv, CallInv, Check, AttemptUpdate, StoreError
  <1>2. call' = [call EXCEPT ![c] = k]
    BY <1>1 DEF OutInv, OutboxType, Check, AttemptUpdate, StoreError
  <1>3. CASE Check(c)
    <2>1. CASE State(k.m) = k.op
      <3>1. Goto(c, "idle", "nil") BY <1>1, <1>3, <2>1 DEF Check
      <3> QED BY <1>2, <2>1, <3>1, CallStep DEF Labels
    <2>2. CASE State(k.m) # k.op
      <3>1. Goto(c, "idle", "error") BY <1>1, <1>3, <2>2 DEF Check
      <3> QED BY <1>2, <3>1, CallStep DEF Labels
    <2> QED BY <2>1, <2>2
  <1>4. CASE AttemptUpdate(c)
    <2>1. k.op \notin Targets BY <1>1, <1>4 DEF AttemptUpdate, OutInv, CallInv, Targets
    <2>2. Miss(c) \/ Done(c) BY <1>4 DEF AttemptUpdate
    <2> QED BY <1>2, <2>1, <2>2, DoneStep
  <1>5. CASE StoreError(c) BY <1>2, <1>5, CallStep DEF StoreError, Labels
  <1> QED BY <1>3, <1>4, <1>5

LEMMA OutboxStep == OutInv /\ [SQLNext]_vars => OutInv'
  <1> SUFFICES ASSUME OutInv, [SQLNext]_vars PROVE OutInv' OBVIOUS
  <1>1. CASE UNCHANGED vars
    BY <1>1 DEF vars, OutInv, OutboxType, CallInv, NilMeansDone
  <1>2. CASE SQLNext
    <2>1. box' \in Boxes BY <1>2, OutboxMaps, MemoryType DEF OutInv, OutboxType
    <2>2. ASSUME NEW m \in Messages, SQLEnqueue(m) \/ SQLBecomeDue(m) PROVE OutInv'
      BY <2>1, <2>2, QuietStep DEF SQLEnqueue, SQLBecomeDue
    <2>3. CASE SQLPurge BY <2>1, <2>3, QuietStep DEF SQLPurge
    <2> QED BY <1>2, <2>1, <2>2, <2>3, StatementInv, CompleteInv, AttemptReadInv, RestInv DEF SQLNext
  <1> QED BY <1>1, <1>2

LEMMA OutboxStart == SQLInit => OutInv
  <1> SUFFICES ASSUME SQLInit PROVE OutInv OBVIOUS
  <1>1. OutboxType BY SMT DEF SQLInit, Init, OutboxType, Boxes, Calls, Labels
  <1>2. CallInv /\ NilMeansDone BY DEF SQLInit, CallInv, NilMeansDone
  <1> QED BY <1>1, <1>2 DEF OutInv

LEMMA OutboxInvariance == SQLSpec => []OutInv
  BY OutboxStart, OutboxStep, PTL DEF SQLSpec

\* A transition that returned nil was made during the call, by it or by another one: the
\* Get after a statement that matched no row cannot take another state for the target.
THEOREM NilIsTrue == SQLSpec => []NilMeansDone
  <1>1. OutInv => NilMeansDone BY DEF OutInv
  <1> QED BY <1>1, OutboxInvariance, PTL

\* Every statement of the SQL store does what one operation of the memory store does, or
\* changes no row: its WHERE clause is as strong as the check under the lock, also in
\* RecordAttempt, which decided on a row it had read before.
THEOREM OutboxRefinement == SQLSpec => ImplementsMemoryOutbox
  <1>1. SQLInit => Init BY DEF SQLInit
  <1>2. OutInv /\ [SQLNext]_vars => [Next]_box BY OutboxMaps DEF OutInv, vars
  <1> QED BY <1>1, <1>2, OutboxInvariance, PTL DEF SQLSpec, Spec, ImplementsMemoryOutbox

-----------------------------------------------------------------------------
(* The inbox *)

InboxType ==
  /\ entry \in [Requests -> {"none", "inProgress", "processed"}]
  /\ handler \in [Handlers -> Owning \cup {"idle", "acquireStatus"}]
  /\ req \in [Handlers -> Requests]
  /\ answer \in [Handlers -> {"none", "accepted", "inProgress", "processed", "error"}]

\* The row of a request that is being processed is there, and the history is in the table.
InInv ==
  /\ InboxType /\ OneOwner
  /\ \A h \in Handlers : handler[h] \in Owning => entry[req[h]] # "none"
  /\ done = {m \in Requests : entry[m] = "processed"}

LEMMA MoveFact ==
  ASSUME InboxType, NEW h \in Handlers, NEW l, NEW r, Move(h, l, r)
  PROVE  /\ handler'[h] = l /\ answer'[h] = r
         /\ \A k \in Handlers \ {h} : handler'[k] = handler[k] /\ answer'[k] = answer[k]
  BY DEF Move, InboxType

LEMMA MoveType ==
  ASSUME InboxType, NEW h \in Handlers, NEW l \in Owning \cup {"idle", "acquireStatus"},
         NEW r \in {"none", "accepted", "inProgress", "processed", "error"}, Move(h, l, r)
  PROVE  /\ handler' \in [Handlers -> Owning \cup {"idle", "acquireStatus"}]
         /\ answer' \in [Handlers -> {"none", "accepted", "inProgress", "processed", "error"}]
  BY SMT DEF Move, InboxType

\* A handler stays or leaves, and no row changes.
LEMMA LeaveInv ==
  ASSUME InInv, NEW h \in Handlers, NEW l \in Owning \cup {"idle", "acquireStatus"},
         NEW r \in {"none", "accepted", "inProgress", "processed", "error"}, Move(h, l, r),
         l \in Owning => handler[h] \in Owning, UNCHANGED <<entry, req, done>>
  PROVE  InInv'
  <1>1. InboxType' BY MoveType DEF InInv, InboxType
  <1>2. \A k \in Handlers : handler'[k] \in Owning => handler[k] \in Owning
    <2>1. handler'[h] = l /\ \A k \in Handlers \ {h} : handler'[k] = handler[k]
      BY MoveFact DEF InInv
    <2> QED BY <2>1
  <1>3. OneOwner' BY <1>2 DEF InInv, OneOwner
  <1> QED BY <1>1, <1>2, <1>3 DEF InInv

LEMMA AcquireInv ==
  ASSUME InInv, NEW h \in Handlers, NEW m \in Requests, AcquireInsert(h, m)
  PROVE  InInv'
  <1>1. req'[h] = m /\ \A k \in Handlers \ {h} : req'[k] = req[k]
    BY DEF InInv, InboxType, AcquireInsert
  <1>2. req' \in [Handlers -> Requests] BY SMT DEF InInv, InboxType, AcquireInsert
  <1>3. entry' \in [Requests -> {"none", "inProgress", "processed"}]
    BY SMT DEF InInv, InboxType, AcquireInsert, Acquire
  <1>4. entry'[m] # "none" /\ \A q \in Requests : entry[q] # "none" => entry'[q] = entry[q]
    BY DEF InInv, InboxType, AcquireInsert, Acquire
  <1>5. \A q \in Requests : entry'[q] = "processed" <=> entry[q] = "processed"
    BY DEF InInv, InboxType, AcquireInsert, Acquire
  <1>6. done' = {q \in Requests : entry'[q] = "processed"} BY <1>5 DEF InInv, AcquireInsert
  <1>7. PICK l, r : /\ Move(h, l, r) /\ l \in {"owner", "idle", "acquireStatus"}
                    /\ r \in {"none", "accepted", "error"} /\ (l = "owner" => entry[m] = "none")
    <2>1. CASE entry[m] = "none" BY <2>1 DEF AcquireInsert
    <2>2. CASE entry[m] # "none"
      <3>1. Move(h, "acquireStatus", "none") BY <2>2 DEF AcquireInsert
      <3>2. "acquireStatus" # "owner" OBVIOUS
      <3> QED BY <3>1, <3>2
    <2> QED BY <2>1, <2>2
  <1>8. InboxType' BY <1>2, <1>3, <1>7, MoveType DEF InInv, InboxType, Owning
  <1>9. handler'[h] = l /\ \A k \in Handlers \ {h} : handler'[k] = handler[k]
    BY <1>7, MoveFact DEF InInv
  <1>10. handler'[h] \in Owning => entry[m] = "none" BY <1>7, <1>9 DEF Owning
  <1>11. ASSUME NEW k \in Handlers \ {h}, handler'[k] \in Owning
         PROVE  handler[k] \in Owning /\ req'[k] = req[k] /\ entry[req[k]] # "none" /\ req[k] \in Requests
    BY <1>1, <1>9, <1>11 DEF InInv, InboxType
  <1>12. ASSUME NEW k \in Handlers, handler'[k] \in Owning PROVE entry'[req'[k]] # "none"
    <2>1. CASE k = h BY <1>1, <1>4, <2>1
    <2>2. CASE k # h BY <1>4, <1>11, <1>12, <2>2
    <2> QED BY <2>1, <2>2
  <1>13. OneOwner'
    <2>1. ASSUME NEW j \in Handlers, NEW k \in Handlers, handler'[j] \in Owning, handler'[k] \in Owning,
                 req'[j] = req'[k]
          PROVE  j = k
      <3>1. CASE j # h /\ k # h BY <1>11, <2>1, <3>1 DEF InInv, OneOwner
      <3>2. CASE j = h /\ k # h BY <1>1, <1>10, <1>11, <2>1, <3>2
      <3>3. CASE j # h /\ k = h BY <1>1, <1>10, <1>11, <2>1, <3>3
      <3> QED BY <3>1, <3>2, <3>3
    <2> QED BY <2>1 DEF OneOwner
  <1> QED BY <1>6, <1>8, <1>12, <1>13 DEF InInv

\* MarkProcessed and Abandon change the row of the request of their owner h.
LEMMA FinishInv ==
  ASSUME InInv, NEW h \in Handlers, handler[h] \in Owning, UNCHANGED req,
         NEW v \in {"none", "processed"}, entry' = [entry EXCEPT ![req[h]] = v],
         entry[req[h]] = "inProgress",
         done' = IF v = "processed" THEN done \cup {req[h]} ELSE done,
         NEW l \in {"idle", "owner"}, Move(h, l, answer[h]), v = "none" => l = "idle"
  PROVE  InInv'
  <1>1. req[h] \in Requests /\ answer[h] \in {"none", "accepted", "inProgress", "processed", "error"}
    BY DEF InInv, InboxType
  <1>2. InboxType'
    <2>1. entry' \in [Requests -> {"none", "inProgress", "processed"}] BY SMT DEF InInv, InboxType
    <2>2. InboxType /\ l \in Owning \cup {"idle", "acquireStatus"} BY DEF InInv, Owning
    <2>3. /\ handler' \in [Handlers -> Owning \cup {"idle", "acquireStatus"}]
          /\ answer' \in [Handlers -> {"none", "accepted", "inProgress", "processed", "error"}]
      BY <1>1, <2>2, MoveType
    <2> QED BY <2>1, <2>2, <2>3 DEF InboxType
  <1>3. entry'[req[h]] = v /\ \A q \in Requests \ {req[h]} : entry'[q] = entry[q]
    BY <1>1 DEF InInv, InboxType
  <1>4. done' = {q \in Requests : entry'[q] = "processed"}
    <2>1. done = {q \in Requests : entry[q] = "processed"} BY DEF InInv
    <2> QED BY SMT, <1>1, <1>3, <2>1
  <1>5. handler'[h] = l /\ \A k \in Handlers \ {h} : handler'[k] = handler[k]
    BY MoveFact DEF InInv
  <1>6. \A k \in Handlers : handler'[k] \in Owning => handler[k] \in Owning BY <1>5
  <1>7. OneOwner' BY <1>6 DEF InInv, OneOwner
  <1>8. ASSUME NEW k \in Handlers, handler'[k] \in Owning PROVE entry'[req'[k]] # "none"
    <2>1. CASE k = h BY <1>3, <1>5, <1>8, <2>1 DEF Owning
    <2>2. CASE k # h
      <3>1. req[k] # req[h] BY <1>6, <1>8, <2>2 DEF InInv, OneOwner
      <3>2. entry[req[k]] # "none" /\ req[k] \in Requests BY <1>6, <1>8 DEF InInv, InboxType
      <3> QED BY <1>3, <3>1, <3>2
    <2> QED BY <2>1, <2>2
  <1> QED BY <1>2, <1>4, <1>7, <1>8 DEF InInv

LEMMA CleanupInv == ASSUME InInv, SQLCleanup PROVE InInv'
  <1>1. PICK S \in SUBSET Requests : /\ Cleanup(S)
                                     /\ \A h \in Handlers : handler[h] \in Owning => req[h] \notin S
    BY DEF SQLCleanup
  <1>2. UNCHANGED <<handler, req, answer>> /\ done' = {m \in done : entry'[m] # "none"}
    BY DEF SQLCleanup
  <1>3. \A q \in Requests : entry'[q] = IF q \in S THEN "none" ELSE entry[q] BY <1>1 DEF Cleanup
  <1>4. InboxType'
    <2>1. entry' \in [Requests -> {"none", "inProgress", "processed"}]
      BY SMT, <1>1 DEF InInv, InboxType, Cleanup
    <2> QED BY <1>2, <2>1 DEF InInv, InboxType
  <1>5. OneOwner' BY <1>2 DEF InInv, OneOwner
  <1>6. \A h \in Handlers : handler'[h] \in Owning => entry'[req'[h]] # "none"
    BY <1>1, <1>2, <1>3 DEF InInv, InboxType
  <1>7. done' = {q \in Requests : entry'[q] = "processed"}
    <2>1. done = {q \in Requests : entry[q] = "processed"} BY DEF InInv
    <2> QED BY SMT, <1>2, <1>3, <2>1
  <1> QED BY <1>4, <1>5, <1>6, <1>7 DEF InInv

LEMMA InboxStep == InInv /\ [SQLInboxNext]_inboxVars => InInv'
  <1> SUFFICES ASSUME InInv, [SQLInboxNext]_inboxVars PROVE InInv' OBVIOUS
  <1>1. CASE UNCHANGED inboxVars BY <1>1 DEF inboxVars, InInv, InboxType, OneOwner
  <1>2. ASSUME NEW h \in Handlers, AcquireStatus(h) \/ FinishStatus(h) \/ OwnerGivesUp(h) PROVE InInv'
    <2>1. answer[h] \in {"none", "accepted", "inProgress", "processed", "error"}
          /\ entry[req[h]] \in {"none", "inProgress", "processed"}
      BY DEF InInv, InboxType
    <2>2. CASE AcquireStatus(h)
      <3>1. PICK r : Move(h, "idle", r) /\ r \in {"error", "inProgress", "processed"}
        BY <2>1, <2>2 DEF AcquireStatus, AcquireResult
      <3> QED BY <2>2, <3>1, LeaveInv DEF AcquireStatus, Owning
    <2>3. CASE FinishStatus(h) BY <2>1, <2>3, LeaveInv DEF FinishStatus, Owning
    <2>4. CASE OwnerGivesUp(h) BY <2>4, LeaveInv DEF OwnerGivesUp, Owning
    <2> QED BY <1>2, <2>2, <2>3, <2>4
  <1>3. ASSUME NEW h \in Handlers, SQLMarkProcessed(h) PROVE InInv'
    <2>1. CASE entry[req[h]] = "inProgress"
      <3>1. PICK l \in {"idle", "owner"} : Move(h, l, answer[h]) BY <1>3, <2>1 DEF SQLMarkProcessed
      <3> QED BY <1>3, <2>1, <3>1, FinishInv DEF SQLMarkProcessed, MarkProcessed, Owning
    <2>2. CASE entry[req[h]] # "inProgress"
      BY <1>3, <2>2, LeaveInv DEF SQLMarkProcessed, Owning, InInv, InboxType
    <2> QED BY <2>1, <2>2
  <1>4. ASSUME NEW h \in Handlers, SQLAbandon(h) PROVE InInv'
    <2>1. CASE entry[req[h]] = "inProgress"
      BY <1>4, <2>1, FinishInv DEF SQLAbandon, Abandon, Owning
    <2>2. CASE entry[req[h]] # "inProgress"
      BY <1>4, <2>2, LeaveInv DEF SQLAbandon, Owning, InInv, InboxType
    <2> QED BY <2>1, <2>2
  <1> QED BY <1>1, <1>2, <1>3, <1>4, AcquireInv, CleanupInv DEF SQLInboxNext

LEMMA InboxInvariance == SQLInboxSpec => []InInv
  <1>1. SQLInboxInit => InInv
    BY SMT DEF SQLInboxInit, InboxInit, InInv, InboxType, OneOwner, Owning
  <1> QED BY <1>1, InboxStep, PTL DEF SQLInboxSpec

\* At most one handler owns a request, however redeliveries, failing statements and
\* Cleanup interleave: a row that an owner needs is never taken away under it.
THEOREM SingleOwner == SQLInboxSpec => []OneOwner
  <1>1. InInv => OneOwner BY DEF InInv
  <1> QED BY <1>1, InboxInvariance, PTL

\* Processed is answered for processed requests only, and these are not handed out again.
THEOREM DedupHolds == SQLInboxSpec => ProcessedMeansDone
  <1>1. InInv /\ [SQLInboxNext]_inboxVars =>
          \A h \in Handlers : /\ answer[h] # "processed" /\ answer'[h] = "processed" => req[h] \in done
                              /\ handler[h] = "idle" /\ handler'[h] = "owner" => req'[h] \notin done
    <2> SUFFICES ASSUME InInv, [SQLInboxNext]_inboxVars, NEW h \in Handlers
                 PROVE  /\ answer[h] # "processed" /\ answer'[h] = "processed" => req[h] \in done
                        /\ handler[h] = "idle" /\ handler'[h] = "owner" => req'[h] \notin done
      OBVIOUS
    <2>1. InboxType /\ done = {q \in Requests : entry[q] = "processed"} BY DEF InInv
    <2>2. ASSUME NEW k \in Handlers, NEW l, NEW r, Move(k, l, r), r # "processed" \/ r = answer[k],
                 l # "owner" \/ handler[k] = "owner"
          PROVE  /\ answer[h] # "processed" => answer'[h] # "processed"
                 /\ handler[h] = "idle" => handler'[h] # "owner"
      <3>1. /\ handler'[k] = l /\ answer'[k] = r
            /\ \A j \in Handlers \ {k} : handler'[j] = handler[j] /\ answer'[j] = answer[j]
        BY <2>1, <2>2, MoveFact
      <3>2. CASE h = k BY <2>2, <3>1, <3>2
      <3>3. CASE h # k BY <3>1, <3>3
      <3> QED BY <3>2, <3>3
    <2>3. ASSUME NEW k \in Handlers, NEW m \in Requests, AcquireInsert(k, m)
          PROVE  /\ answer[h] # "processed" => answer'[h] # "processed"
                 /\ handler[h] = "idle" /\ handler'[h] = "owner" => req'[h] \notin done
      <3>1. CASE entry[m] = "none" /\ Move(k, "owner", "accepted")
        <4>1. /\ handler'[k] = "owner" /\ answer'[k] = "accepted"
              /\ \A j \in Handlers \ {k} : handler'[j] = handler[j] /\ answer'[j] = answer[j]
          BY <2>1, <3>1, MoveFact
        <4>2. req'[k] = m /\ m \notin done BY <2>1, <2>3, <3>1 DEF AcquireInsert, InboxType
        <4>3. CASE h = k BY <4>1, <4>2, <4>3
        <4>4. CASE h # k BY <4>1, <4>4
        <4> QED BY <4>3, <4>4
      <3>2. CASE Move(k, "idle", "error") BY <2>2, <3>2
      <3>3. CASE Move(k, "acquireStatus", "none") BY <2>2, <3>3
      <3> QED BY <2>3, <3>1, <3>2, <3>3 DEF AcquireInsert
    <2>4. ASSUME NEW k \in Handlers, AcquireStatus(k)
          PROVE  /\ answer[h] # "processed" /\ answer'[h] = "processed" => req[h] \in done
                 /\ handler[h] = "idle" => handler'[h] # "owner"
      <3>1. PICK r : Move(k, "idle", r) /\ (r = "processed" => entry[req[k]] = "processed")
        <4>1. CASE entry[req[k]] = "none"
          <5>1. Move(k, "idle", "error") BY <2>4, <4>1 DEF AcquireStatus
          <5>2. "error" # "processed" OBVIOUS
          <5> QED BY <5>1, <5>2
        <4>2. CASE entry[req[k]] = "inProgress"
          <5>1. AcquireResult(req[k]) = "inProgress" BY <4>2 DEF AcquireResult
          <5>2. "inProgress" # "none" /\ "inProgress" # "processed" OBVIOUS
          <5> QED BY <2>4, <4>2, <5>1, <5>2 DEF AcquireStatus
        <4>3. CASE entry[req[k]] = "processed" BY <2>4, <4>3 DEF AcquireStatus
        <4> QED BY <2>1, <4>1, <4>2, <4>3 DEF InboxType
      <3>2. /\ handler'[k] = "idle" /\ answer'[k] = r
            /\ \A j \in Handlers \ {k} : handler'[j] = handler[j] /\ answer'[j] = answer[j]
        BY <2>1, <3>1, MoveFact
      <3>3. CASE h = k BY <2>1, <3>1, <3>2, <3>3 DEF InboxType
      <3>4. CASE h # k BY <3>2, <3>4
      <3> QED BY <3>3, <3>4
    <2>5. ASSUME NEW k \in Handlers,
                 SQLMarkProcessed(k) \/ SQLAbandon(k) \/ FinishStatus(k) \/ OwnerGivesUp(k)
          PROVE  /\ answer[h] # "processed" => answer'[h] # "processed"
                 /\ handler[h] = "idle" => handler'[h] # "owner"
      <3>1. \E l, r : /\ Move(k, l, r) /\ (r # "processed" \/ r = answer[k])
                      /\ l # "owner" \/ handler[k] = "owner"
        <4>1. CASE SQLMarkProcessed(k) BY <4>1 DEF SQLMarkProcessed
        <4>2. CASE SQLAbandon(k)
          <5>1. Move(k, "idle", answer[k]) \/ Move(k, "abandonStatus", answer[k])
            BY <4>2 DEF SQLAbandon
          <5>2. "idle" # "owner" /\ "abandonStatus" # "owner" OBVIOUS
          <5> QED BY <5>1, <5>2
        <4>3. CASE FinishStatus(k)
          <5>1. Move(k, "idle", answer[k]) BY <4>3 DEF FinishStatus
          <5>2. "idle" # "owner" OBVIOUS
          <5> QED BY <5>1, <5>2
        <4>4. CASE OwnerGivesUp(k)
          <5>1. Move(k, "idle", "error") BY <4>4 DEF OwnerGivesUp
          <5>2. "error" # "processed" /\ "idle" # "owner" OBVIOUS
          <5> QED BY <5>1, <5>2
        <4> QED BY <2>5, <4>1, <4>2, <4>3, <4>4
      <3> QED BY <2>2, <3>1
    <2>6. CASE SQLCleanup \/ UNCHANGED inboxVars BY <2>6 DEF SQLCleanup, inboxVars
    <2> QED BY <2>3, <2>4, <2>5, <2>6 DEF SQLInboxNext
  <1> QED BY <1>1, InboxInvariance, PTL DEF SQLInboxSpec, ProcessedMeansDone

-----------------------------------------------------------------------------
(* AsyncWriter *)

LEMMA Appended ==
  ASSUME NEW S, NEW seq \in Seq(S), NEW x \in S
  PROVE  /\ Append(seq, x) \in Seq(S) /\ Append(seq, x) # <<>> /\ Len(Append(seq, x)) = Len(seq) + 1
         /\ \A i \in 1..Len(seq) : Append(seq, x)[i] = seq[i]
         /\ Append(seq, x)[Len(seq) + 1] = x
BY SMT

\* Where a message whose Write has returned may be
Kept(w) ==
  \/ w \in dropped \cup output
  \/ \E i \in 1..Len(buffer) : buffer[i] = w
  \/ \E c \in Consumers : hand[c] = <<w>>

Hands == {<<>>} \cup {<<w>> : w \in Writers}

\* What Close finds when it has waited for run
LogInv ==
  /\ buffer \in Seq(Writers) /\ hand \in [Consumers -> Hands]
  /\ writer \in [Writers -> {"idle", "send", "returned"}]
  /\ \A w \in Writers : writer[w] = "returned" => Kept(w)
  /\ early \subseteq {w \in Writers : writer[w] = "returned"}
  /\ closeLog \in {"flush", "returned"} => run = "done"
  /\ run = "done" => hand["run"] = <<>>
  /\ closeLog = "returned" => hand["close"] = <<>>
  /\ ClosePersists

LEMMA LogInitially == LogInit => LogInv
  <1> SUFFICES ASSUME LogInit PROVE LogInv OBVIOUS
  <1>1. <<>> \in Seq(Writers) /\ <<>> \in Hands BY SMT DEF Hands
  <1> QED BY SMT, <1>1 DEF LogInit, LogInv, ClosePersists, Consumers

\* The messages stay where they are, and none returns.
LEMMA LogSide ==
  ASSUME LogInv, UNCHANGED <<buffer, hand, writer, output, dropped>>, early' = early,
         closeLog' \in {"flush", "returned"} => run' = "done",
         run' = "done" => hand["run"] = <<>>,
         closeLog' = "returned" => closeLog = "returned"
  PROVE  LogInv'
  <1>1. \A w : Kept(w)' <=> Kept(w) BY DEF Kept
  <1>2. ClosePersists' BY DEF LogInv, ClosePersists
  <1> QED BY <1>1, <1>2 DEF LogInv

LEMMA LogWrite == ASSUME LogInv, NEW w \in Writers, Write(w) PROVE LogInv'
  <1>1. PICK p \in {"send", "returned"} :
          writer' = [writer EXCEPT ![w] = p] /\ (p = "returned" => w \in dropped')
    BY DEF Write
  <1>2. dropped \subseteq dropped' /\ UNCHANGED <<buffer, output, run, hand, early, closeLog>> BY DEF Write
  <1>3. writer[w] = "idle" BY DEF Write
  <1>4. \A v \in Writers : Kept(v) => Kept(v)' BY <1>2 DEF Kept
  <1>5. Kept(w)' \/ writer'[w] # "returned" BY <1>1 DEF Kept, LogInv
  <1>6. \A v \in Writers : writer'[v] = "returned" => Kept(v)' BY SMT, <1>1, <1>4, <1>5 DEF LogInv
  <1>7. early' \subseteq {v \in Writers : writer'[v] = "returned"} BY SMT, <1>1, <1>2, <1>3 DEF LogInv
  <1>8. writer' \in [Writers -> {"idle", "send", "returned"}] BY SMT, <1>1 DEF LogInv
  <1>9. ClosePersists' BY <1>2 DEF ClosePersists, LogInv
  <1> QED BY <1>2, <1>6, <1>7, <1>8, <1>9 DEF LogInv

LEMMA LogWriteSend == ASSUME LogInv, NEW w \in Writers, WriteSend(w) PROVE LogInv'
  <1>1. writer' = [writer EXCEPT ![w] = "returned"] /\ writer[w] = "send" BY DEF WriteSend
  <1>2. UNCHANGED <<output, run, hand, early, closeLog>> BY DEF WriteSend
  <1>3. /\ buffer' \in Seq(Writers) /\ dropped \subseteq dropped'
        /\ \A v : (\E i \in 1..Len(buffer) : buffer[i] = v) => \E i \in 1..Len(buffer') : buffer'[i] = v
        /\ w \in dropped' \/ \E i \in 1..Len(buffer') : buffer'[i] = w
    <2>0. buffer \in Seq(Writers) BY DEF LogInv
    <2>1. CASE buffer' = Append(buffer, w) /\ UNCHANGED dropped
      <3>1. /\ buffer' \in Seq(Writers) /\ Len(buffer') = Len(buffer) + 1 /\ buffer'[Len(buffer) + 1] = w
            /\ \A i \in 1..Len(buffer) : buffer'[i] = buffer[i]
        BY SMT, <2>0, <2>1, Appended
      <3>2. Len(buffer) \in Nat BY SMT, <2>0
      <3> QED BY SMT, <3>1, <3>2, <2>1
    <2>2. CASE dropped' = dropped \cup {w} /\ UNCHANGED buffer BY <2>0, <2>2
    <2> QED BY <2>1, <2>2 DEF WriteSend
  <1>4. \A v \in Writers : Kept(v) => Kept(v)' BY <1>2, <1>3 DEF Kept
  <1>5. Kept(w)' BY <1>3 DEF Kept
  <1>6. \A v \in Writers : writer'[v] = "returned" => Kept(v)' BY SMT, <1>1, <1>4, <1>5 DEF LogInv
  <1>7. early' \subseteq {v \in Writers : writer'[v] = "returned"} BY SMT, <1>1, <1>2 DEF LogInv
  <1>8. writer' \in [Writers -> {"idle", "send", "returned"}] BY SMT, <1>1 DEF LogInv
  <1>9. ClosePersists' BY <1>2, <1>3 DEF ClosePersists, LogInv
  <1> QED BY <1>2, <1>3, <1>6, <1>7, <1>8, <1>9 DEF LogInv

\* run does not take after it is done, nor Close after it has returned.
LEMMA LogTake == ASSUME LogInv, NEW c \in Consumers, Take(c) PROVE LogInv'
  <1>1. /\ buffer \in Seq(Writers) /\ buffer # <<>> /\ hand[c] = <<>>
        /\ UNCHANGED <<writer, output, dropped, run, early, closeLog>> /\ buffer' = Tail(buffer)
    BY DEF Take, LogInv
  <1>2. PICK h \in Writers : h = Head(buffer) BY SMT, <1>1
  <1>3. hand' = [hand EXCEPT ![c] = <<h>>] BY <1>2 DEF Take
  <1>4. /\ buffer' \in Seq(Writers)
        /\ \A v : (\E i \in 1..Len(buffer) : buffer[i] = v) => v = h \/ \E i \in 1..Len(buffer') : buffer'[i] = v
    BY SMT, <1>1, <1>2
  <1>5. hand' \in [Consumers -> Hands] BY SMT, <1>3 DEF LogInv, Hands
  <1>6. hand'[c] = <<h>> /\ \A d \in Consumers \ {c} : hand'[d] = hand[d] BY <1>3 DEF LogInv
  <1>7. \A v \in Writers : Kept(v) => Kept(v)'
    <2> SUFFICES ASSUME NEW v \in Writers, Kept(v) PROVE Kept(v)' OBVIOUS
    <2>1. CASE v \in dropped \cup output BY <1>1, <2>1 DEF Kept
    <2>2. CASE \E i \in 1..Len(buffer) : buffer[i] = v BY <1>4, <1>6, <2>2 DEF Kept
    <2>3. CASE \E d \in Consumers : hand[d] = <<v>>
      <3>1. PICK d \in Consumers : hand[d] = <<v>> BY <2>3
      <3>2. <<v>> # <<>> OBVIOUS
      <3>3. d # c BY <1>1, <3>1, <3>2
      <3> QED BY <1>6, <3>1, <3>3 DEF Kept
    <2> QED BY <2>1, <2>2, <2>3 DEF Kept
  <1>8. /\ run = "done" => c # "run"
        /\ closeLog = "returned" => c # "close"
    BY DEF Take, Consuming, Consumers
  <1>9. /\ run = "done" => hand'["run"] = <<>>
        /\ closeLog = "returned" => hand'["close"] = <<>>
    BY <1>6, <1>8 DEF LogInv, Consumers
  <1>10. ClosePersists'
    <2> SUFFICES ASSUME closeLog = "returned", NEW w \in early PROVE w \in output \cup dropped \/ hand'["sync"] = <<w>>
      BY <1>1 DEF ClosePersists
    <2>1. w \in output \cup dropped \/ hand["sync"] = <<w>> BY DEF ClosePersists, LogInv
    <2>2. <<w>> # <<>> OBVIOUS
    <2> QED BY <1>1, <1>6, <2>1, <2>2 DEF Consumers
  <1> QED BY <1>1, <1>4, <1>5, <1>7, <1>9, <1>10 DEF LogInv

LEMMA LogWriteOut == ASSUME LogInv, NEW c \in Consumers, WriteOut(c) PROVE LogInv'
  <1>1. hand[c] # <<>> /\ UNCHANGED <<buffer, writer, dropped, run, early, closeLog>> BY DEF WriteOut
  <1>2. PICK h \in Writers : hand[c] = <<h>> BY <1>1 DEF LogInv, Hands
  <1>3. output' = output \cup {h} BY SMT, <1>2 DEF WriteOut
  <1>4. hand' \in [Consumers -> Hands] /\ hand'[c] = <<>> /\ \A d \in Consumers \ {c} : hand'[d] = hand[d]
    BY SMT DEF WriteOut, LogInv, Hands
  <1>5. \A v : <<v>> = <<h>> => v = h BY SMT
  <1>6. \A v \in Writers : Kept(v) => Kept(v)' BY <1>1, <1>2, <1>3, <1>4, <1>5 DEF Kept
  <1>7. /\ run = "done" => hand'["run"] = <<>>
        /\ closeLog = "returned" => hand'["close"] = <<>>
    BY <1>4 DEF LogInv, Consumers
  <1>8. ClosePersists' BY <1>1, <1>2, <1>3, <1>4, <1>5 DEF ClosePersists, LogInv, Consumers
  <1> QED BY <1>1, <1>4, <1>6, <1>7, <1>8 DEF LogInv

LEMMA LogCloseCAS == ASSUME LogInv, CloseCAS PROVE LogInv'
  <1>1. /\ closeLog' = "stop" /\ UNCHANGED <<buffer, hand, writer, output, dropped, run>>
        /\ early' = {w \in Writers : writer'[w] = "returned"}
    BY DEF CloseCAS
  <1>2. \A w : Kept(w)' <=> Kept(w) BY <1>1 DEF Kept
  <1>3. ClosePersists' BY <1>1 DEF ClosePersists
  <1> QED BY <1>1, <1>2, <1>3 DEF LogInv

\* run is done and the buffer is empty: what is left is in output, dropped or the hand of Sync.
LEMMA LogCloseReturn == ASSUME LogInv, CloseReturn PROVE LogInv'
  <1>1. /\ closeLog = "flush" /\ hand["close"] = <<>> /\ buffer = <<>> /\ closeLog' = "returned"
        /\ UNCHANGED <<buffer, hand, writer, output, dropped, early, run>>
    BY DEF CloseReturn
  <1>2. hand["run"] = <<>> /\ run = "done" BY <1>1 DEF LogInv
  <1>3. \A w \in early : Kept(w) BY DEF LogInv
  <1>4. 1..Len(buffer) = {} BY SMT, <1>1
  <1>5. \A w : <<w>> # <<>> OBVIOUS
  <1>6. \A w \in early : w \in output \cup dropped \/ hand["sync"] = <<w>>
    BY <1>1, <1>2, <1>3, <1>4, <1>5 DEF Kept, Consumers
  <1>7. ClosePersists' BY <1>1, <1>6 DEF ClosePersists
  <1>8. \A w : Kept(w)' <=> Kept(w) BY <1>1 DEF Kept
  <1> QED BY <1>1, <1>2, <1>7, <1>8 DEF LogInv

LEMMA LogKept == LogInv /\ [LogNext]_logVars => LogInv'
  <1> SUFFICES ASSUME LogInv, [LogNext]_logVars PROVE LogInv' OBVIOUS
  <1>1. CASE RunStop \/ RunDone \/ Sync
    BY SMT, <1>1, LogSide DEF RunStop, RunDone, Sync, LogInv
  <1>2. CASE CloseStop \/ CloseWait
    BY SMT, <1>2, LogSide DEF CloseStop, CloseWait, LogInv
  <1>3. CASE UNCHANGED logVars
    BY SMT, <1>3, LogSide DEF logVars, LogInv
  <1> QED
    BY <1>1, <1>2, <1>3, LogWrite, LogWriteSend, LogTake, LogWriteOut, LogCloseCAS, LogCloseReturn DEF LogNext

\* For any writers and buffer size, Close writes out every message whose Write had returned before
\* it began, unless it was counted as dropped or a Sync is writing it (ClosePersists:
\* AsyncWriter.Close).
THEOREM CloseFlushes == LogSpec => []ClosePersists
  <1>1. LogInv => ClosePersists BY DEF LogInv
  <1> QED BY <1>1, LogInitially, LogKept, PTL DEF LogSpec
=============================================================================

---------------------------- MODULE MemoryOutbox ----------------------------
(***************************************************************************)
(* The V2 operations of the outbox (zConsistency/memory_store_v2.go and    *)
(* store_v2.go).  The store's lock makes each operation one step, so this  *)
(* module is also the contract that SQLOutbox is shown to implement and    *)
(* that Delivery builds on.  An operation that returns an error leaves the *)
(* store alone, and is simply not enabled here.                            *)
(*                                                                         *)
(* Of the times of a message only one thing matters: whether NextRetryAt   *)
(* has come (due).                                                         *)
(***************************************************************************)
EXTENDS Naturals

CONSTANTS
  Messages,
  MaxRetries,  \* of the store: ListRetryable skips a message with that many attempts
  MaxAttempts  \* bound on the attempts recorded for a message

VARIABLE box   \* for each message its row (like NewRow), or Absent

Absent == [stored |-> FALSE]

NewRow == [sent |-> FALSE, acked |-> FALSE, dead |-> FALSE, attempts |-> 0, due |-> FALSE]

\* outboxState
StateOf(row) ==
  CASE row = Absent -> "absent"
    [] row # Absent /\ row.dead -> "deadLetter"
    [] row # Absent /\ ~row.dead /\ row.acked -> "applied"
    [] row # Absent /\ ~row.dead /\ ~row.acked /\ row.sent -> "transported"
    [] OTHER -> "enqueued"

State(m) == StateOf(box[m])

Unresolved(m) == State(m) \in {"enqueued", "transported"}

Init == box = [m \in Messages |-> Absent]

Enqueue(m) ==
  /\ box[m] = Absent
  /\ box' = [box EXCEPT ![m] = NewRow]

\* transition, to Transported and to Applied
MarkTransported(m) ==
  /\ State(m) = "enqueued"
  /\ box' = [box EXCEPT ![m].sent = TRUE]

MarkApplied(m) ==
  /\ State(m) = "transported"
  /\ box' = [box EXCEPT ![m].acked = TRUE]

\* RecordAttempt, with a cause when the attempt failed.
RecordAttempt(m, failed) ==
  /\ Unresolved(m)
  /\ box[m].attempts < MaxAttempts
  /\ box' = [box EXCEPT ![m].attempts = @ + 1,
                        ![m].due = FALSE,
                        ![m].sent = @ /\ ~failed]

MoveToDeadLetterMutant(m) ==
  /\ State(m) = "enqueued"
  /\ box' = [box EXCEPT ![m].dead = TRUE]

MoveToDeadLetter(m) ==
  /\ Unresolved(m)
  /\ box' = [box EXCEPT ![m].dead = TRUE]

Complete(m, terminal) ==
  /\ terminal \in {"transported", "applied"}
  /\ State(m) = terminal
  /\ box' = [box EXCEPT ![m] = Absent]

\* PurgeDeadLettersContext: which dead letters are old enough is a choice.
Purge(S) ==
  /\ \A m \in S : State(m) = "deadLetter"
  /\ box' = [m \in Messages |-> IF m \in S THEN Absent ELSE box[m]]

\* NextRetryAt comes.
BecomeDue(m) ==
  /\ box[m] # Absent
  /\ box' = [box EXCEPT ![m].due = TRUE]

\* ListRetryableContext
Retryable == {m \in Messages : Unresolved(m) /\ box[m].attempts < MaxRetries /\ box[m].due}

Next ==
  \/ \E m \in Messages : \/ Enqueue(m) \/ MarkTransported(m) \/ MarkApplied(m)
                         \/ MoveToDeadLetter(m) \/ BecomeDue(m)
                         \/ \E failed \in BOOLEAN : RecordAttempt(m, failed)
                         \/ \E terminal \in {"transported", "applied"} : Complete(m, terminal)
  \/ \E S \in SUBSET Messages : Purge(S)

Spec == Init /\ [][Next]_box
=============================================================================

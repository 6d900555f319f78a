------------------------------ MODULE SQLOutbox ------------------------------
(***************************************************************************)
(* SQLOutbox (zConsistency/sql_store_v2.go) on a *sql.DB that several      *)
(* goroutines or processes share.  One action is one SQL statement, which  *)
(* the database executes atomically; between the statements of one call    *)
(* those of others run.  Whether a row matches is decided by the WHERE     *)
(* clause alone, so each statement spells it out over the columns, and the *)
(* states of MemoryOutbox are only used where the code calls outboxState.  *)
(***************************************************************************)
EXTENDS MemoryOutbox

CONSTANT Clients

VARIABLES
  pc,    \* "idle", "check": zero rows affected, Get follows, "update": RecordAttempt has read
  call,  \* operation and message of the call, the last one when idle
  ret,   \* its result
  seen   \* history: the states the message went through during the call

vars == <<box, pc, call, ret, seen>>

Targets == {"transported", "applied", "deadLetter"}
Ops == Targets \cup {"attempt", "failedAttempt", "completeTransported", "completeApplied"}
NoCall == [op |-> "none", m |-> CHOOSE m \in Messages : TRUE]

SQLInit ==
  /\ Init
  /\ pc = [c \in Clients |-> "idle"]
  /\ call = [c \in Clients |-> NoCall]
  /\ ret = [c \in Clients |-> "none"]
  /\ seen = [c \in Clients |-> {}]

-----------------------------------------------------------------------------
(* One statement of client c for operation op on m *)

Issue(c, op, m) ==
  /\ pc[c] = "idle"
  /\ call' = [call EXCEPT ![c] = [op |-> op, m |-> m]]

\* The history, once box' and call' are known; Who is the client of the statement.
Watch(Who) ==
  seen' = [c \in Clients |->
    LET m == call'[c].m IN
    CASE c \in Who -> (IF pc[c] = "idle" THEN {} ELSE seen[c]) \cup {State(m), StateOf(box'[m])}
      [] c \notin Who /\ pc[c] # "idle" -> seen[c] \cup {StateOf(box'[m])}
      [] OTHER -> seen[c]]

Goto(c, l, r) ==
  /\ pc' = [pc EXCEPT ![c] = l]
  /\ ret' = [ret EXCEPT ![c] = r]
  /\ Watch({c})

\* A statement took effect; its caller learns so, or gets an error all the same.
Done(c) == \E r \in {"nil", "error"} : Goto(c, "idle", r)

Where(m, P) == box[m] # Absent /\ P
Miss(c) == box' = box /\ Goto(c, "check", "none")

-----------------------------------------------------------------------------
SQLEnqueue(m) == Enqueue(m) /\ UNCHANGED <<pc, call, ret>> /\ Watch({})

SQLMarkTransported(c, m) ==
  /\ Issue(c, "transported", m)
  /\ IF Where(m, ~box[m].sent /\ ~box[m].acked /\ ~box[m].dead)
     THEN box' = [box EXCEPT ![m].sent = TRUE] /\ Done(c)
     ELSE Miss(c)

SQLMarkApplied(c, m) ==
  /\ Issue(c, "applied", m)
  /\ IF Where(m, box[m].sent /\ ~box[m].acked /\ ~box[m].dead)
     THEN box' = [box EXCEPT ![m].acked = TRUE] /\ Done(c)
     ELSE Miss(c)

SQLMoveToDeadLetterMutant(c, m) ==
  /\ Issue(c, "deadLetter", m)
  /\ IF Where(m, TRUE)
     THEN box' = [box EXCEPT ![m].dead = TRUE, ![m].acked = FALSE] /\ Done(c)
     ELSE Miss(c)

SQLMoveToDeadLetter(c, m) ==
  /\ Issue(c, "deadLetter", m)
  /\ IF Where(m, ~box[m].acked)
     THEN box' = [box EXCEPT ![m].dead = TRUE, ![m].acked = FALSE] /\ Done(c)
     ELSE Miss(c)

SQLComplete(c, m, terminal) ==
  /\ Issue(c, IF terminal = "applied" THEN "completeApplied" ELSE "completeTransported", m)
  /\ IF Where(m, /\ ~box[m].dead
                 /\ IF terminal = "applied" THEN box[m].acked ELSE box[m].sent /\ ~box[m].acked)
     THEN box' = [box EXCEPT ![m] = Absent] /\ Done(c)
     ELSE Miss(c)

CheckMutant(c) ==
  /\ pc[c] = "check"
  /\ UNCHANGED <<box, call>>
  /\ Goto(c, "idle", IF State(call[c].m) = "absent" THEN "error" ELSE "nil")

\* The Get after a statement that affected no row: nil when it had been done already.
Check(c) ==
  /\ pc[c] = "check"
  /\ UNCHANGED <<box, call>>
  /\ Goto(c, "idle", IF State(call[c].m) = call[c].op THEN "nil" ELSE "error")

\* RecordAttempt begins with a Get.
AttemptRead(c, m, failed) ==
  /\ Issue(c, IF failed THEN "failedAttempt" ELSE "attempt", m)
  /\ box' = box
  /\ IF Unresolved(m) THEN Goto(c, "update", "none") ELSE Goto(c, "idle", "error")

AttemptUpdate(c) ==
  /\ pc[c] = "update"
  /\ call' = call
  /\ LET m == call[c].m IN
     IF Where(m, ~box[m].acked /\ ~box[m].dead)
     THEN /\ box[m].attempts < MaxAttempts
          /\ box' = [box EXCEPT ![m].attempts = @ + 1, ![m].due = FALSE,
                                ![m].sent = @ /\ call[c].op # "failedAttempt"]
          /\ Done(c)
     ELSE Miss(c)

\* A statement fails without effect: the call returns the error of the store.
StoreError(c) ==
  /\ pc[c] # "idle"
  /\ UNCHANGED <<box, call>>
  /\ Goto(c, "idle", "error")

SQLPurge ==
  /\ \E S \in SUBSET Messages : S # {} /\ Purge(S)
  /\ UNCHANGED <<pc, call, ret>>
  /\ Watch({})

SQLBecomeDue(m) == BecomeDue(m) /\ UNCHANGED <<pc, call, ret>> /\ Watch({})

SQLNext ==
  \/ \E m \in Messages : SQLEnqueue(m) \/ SQLBecomeDue(m)
  \/ \E c \in Clients, m \in Messages :
       \/ SQLMarkTransported(c, m) \/ SQLMarkApplied(c, m) \/ SQLMoveToDeadLetter(c, m)
       \/ \E terminal \in {"transported", "applied"} : SQLComplete(c, m, terminal)
       \/ \E failed \in BOOLEAN : AttemptRead(c, m, failed)
  \/ \E c \in Clients : Check(c) \/ AttemptUpdate(c) \/ StoreError(c)
  \/ SQLPurge

SQLSpec == SQLInit /\ [][SQLNext]_vars

-----------------------------------------------------------------------------
\* The SQL store follows the contract of the memory store (docs: Memory and SQL keep
\* the same state contract), although RecordAttempt writes on a stale read and every
\* other operation is one guarded statement.
ImplementsMemoryOutbox == Spec

\* A transition that returns nil was made, by this call or by another one during it:
\* the message was in the target state at some moment of the call.
NilMeansDone ==
  \A c \in Clients : ret[c] = "nil" /\ call[c].op \in Targets => call[c].op \in seen[c]
=============================================================================

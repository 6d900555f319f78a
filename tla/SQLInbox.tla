------------------------------ MODULE SQLInbox -------------------------------
(***************************************************************************)
(* SQLInbox (zConsistency/sql_store_v2.go) shared by the handlers of       *)
(* redelivered requests.  One action is one SQL statement.  A handler that *)
(* is Accepted applies the effect and marks the request processed, or      *)
(* abandons it; only the owner of an attempt calls these two, as the       *)
(* interface demands.                                                      *)
(***************************************************************************)
EXTENDS MemoryInbox

CONSTANT Handlers

VARIABLES
  handler,  \* where each handler is
  req,      \* the request it is handling
  answer,   \* result of its last Acquire
  done      \* history: requests processed and not cleaned up since

inboxVars == <<entry, handler, req, answer, done>>

Owning == {"owner", "processedStatus", "abandonStatus"}

SQLInboxInit ==
  /\ InboxInit
  /\ handler = [h \in Handlers |-> "idle"]
  /\ req \in [Handlers -> Requests]
  /\ answer = [h \in Handlers |-> "none"]
  /\ done = {}

Move(h, l, r) ==
  /\ handler' = [handler EXCEPT ![h] = l]
  /\ answer' = [answer EXCEPT ![h] = r]

-----------------------------------------------------------------------------
(* Acquire: INSERT IGNORE, then Status when the row was there *)

AcquireInsertMutant(h, m) ==
  /\ handler[h] = "idle"
  /\ req' = [req EXCEPT ![h] = m]
  /\ \/ /\ Acquire(m)
        /\ IF entry[m] = "none"
           THEN Move(h, "owner", "accepted")
           ELSE Move(h, "acquireStatus", "none")
     \/ UNCHANGED entry /\ Move(h, "owner", "accepted")
  /\ UNCHANGED done

\* The row may be inserted and the caller still get an error: it fails closed.
AcquireInsert(h, m) ==
  /\ handler[h] = "idle"
  /\ req' = [req EXCEPT ![h] = m]
  /\ Acquire(m)
  /\ IF entry[m] = "none"
     THEN Move(h, "owner", "accepted") \/ Move(h, "idle", "error")
     ELSE Move(h, "acquireStatus", "none")
  /\ UNCHANGED done

AcquireStatusMutant(h) ==
  /\ handler[h] = "acquireStatus"
  /\ Move(h, "idle", IF entry[req[h]] = "inProgress" THEN "inProgress" ELSE "processed")
  /\ UNCHANGED <<entry, req, done>>

\* The owner may have abandoned the request since: Status finds no row.
AcquireStatus(h) ==
  /\ handler[h] = "acquireStatus"
  /\ Move(h, "idle", IF entry[req[h]] = "none" THEN "error" ELSE AcquireResult(req[h]))
  /\ UNCHANGED <<entry, req, done>>

-----------------------------------------------------------------------------
(* The owner finishes; an error leaves it the choice to try again *)

SQLMarkProcessed(h) ==
  /\ handler[h] = "owner"
  /\ IF entry[req[h]] = "inProgress"
     THEN /\ MarkProcessed(req[h])
          /\ done' = done \cup {req[h]}
          /\ \E l \in {"idle", "owner"} : Move(h, l, answer[h])
     ELSE Move(h, "processedStatus", answer[h]) /\ UNCHANGED <<entry, done>>
  /\ UNCHANGED req

\* After an error of Abandon the handler gives up all the same.
SQLAbandon(h) ==
  /\ handler[h] = "owner"
  /\ IF entry[req[h]] = "inProgress"
     THEN Abandon(req[h]) /\ Move(h, "idle", answer[h])
     ELSE Move(h, "abandonStatus", answer[h]) /\ UNCHANGED entry
  /\ UNCHANGED <<req, done>>

\* Status, after MarkProcessed or Abandon affected no row.
FinishStatus(h) ==
  /\ handler[h] \in {"processedStatus", "abandonStatus"}
  /\ Move(h, "idle", answer[h])
  /\ UNCHANGED <<entry, req, done>>

\* Any statement of the owner may fail without effect.
OwnerGivesUp(h) ==
  /\ handler[h] \in Owning \cup {"acquireStatus"}
  /\ Move(h, "idle", "error")
  /\ UNCHANGED <<entry, req, done>>

\* The retention is longer than the work on a request: nobody is at it any more.
SQLCleanup ==
  /\ \E S \in SUBSET Requests :
       /\ S # {} /\ Cleanup(S)
       /\ \A h \in Handlers : handler[h] \in Owning => req[h] \notin S
  /\ done' = {m \in done : entry'[m] # "none"}
  /\ UNCHANGED <<handler, req, answer>>

SQLInboxNext ==
  \/ \E h \in Handlers : \/ \E m \in Requests : AcquireInsert(h, m)
                         \/ AcquireStatus(h) \/ SQLMarkProcessed(h) \/ SQLAbandon(h)
                         \/ FinishStatus(h) \/ OwnerGivesUp(h)
  \/ SQLCleanup

SQLInboxSpec == SQLInboxInit /\ [][SQLInboxNext]_inboxVars

-----------------------------------------------------------------------------
\* Only one handler at a time has the right to process a request, although Acquire
\* returns errors after the row was inserted and handlers of redeliveries overlap.
OneOwner ==
  \A h, k \in Handlers :
    handler[h] \in Owning /\ handler[k] \in Owning /\ req[h] = req[k] => h = k

\* Acquire answers Processed, on which the caller acknowledges, only when the request
\* was processed; a row abandoned between its two statements is not taken for one.  The other
\* way round, a processed request is not handed out again before Cleanup forgets it, also
\* when its owner was told of an error and abandons it.
ProcessedMeansDone ==
  [][\A h \in Handlers :
       /\ answer[h] # "processed" /\ answer'[h] = "processed" => req[h] \in done
       /\ handler[h] = "idle" /\ handler'[h] = "owner" => req'[h] \notin done]_inboxVars
=============================================================================

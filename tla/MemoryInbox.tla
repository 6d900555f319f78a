----------------------------- MODULE MemoryInbox -----------------------------
(***************************************************************************)
(* The V2 operations of the inbox (zConsistency/memory_store_v2.go).  The  *)
(* store's lock makes each operation one step; SQLInbox implements them    *)
(* with several statements.                                                *)
(***************************************************************************)
CONSTANT Requests

VARIABLE entry   \* the entry of each request id

InboxInit == entry = [m \in Requests |-> "none"]

AcquireResultMutant(m) == IF entry[m] = "processed" THEN "processed" ELSE "accepted"

\* The result of Acquire; only Accepted changes the entry.
AcquireResult(m) ==
  CASE entry[m] = "none" -> "accepted"
    [] entry[m] = "inProgress" -> "inProgress"
    [] entry[m] = "processed" -> "processed"

Acquire(m) ==
  entry' = [entry EXCEPT ![m] = IF @ = "none" THEN "inProgress" ELSE @]

MarkProcessed(m) ==
  /\ entry[m] # "none"
  /\ entry' = [entry EXCEPT ![m] = "processed"]

Abandon(m) ==
  /\ entry[m] = "inProgress"
  /\ entry' = [entry EXCEPT ![m] = "none"]

\* CleanupContext forgets processed requests, some or all.
Cleanup(S) ==
  /\ \A m \in S : entry[m] = "processed"
  /\ entry' = [m \in Requests |-> IF m \in S THEN "none" ELSE entry[m]]

InboxNext ==
  \/ \E m \in Requests : Acquire(m) \/ MarkProcessed(m) \/ Abandon(m)
  \/ \E S \in SUBSET Requests : Cleanup(S)

InboxSpec == InboxInit /\ [][InboxNext]_entry
=============================================================================

------------------------------ MODULE MCStores -------------------------------
(***************************************************************************)
(* SQLOutbox and SQLInbox for TLC.  They use different tables and share    *)
(* nothing, so a behaviour is about one of them: under says which.         *)
(***************************************************************************)
EXTENDS SQLOutbox, SQLInbox, TLC

VARIABLE under

MCInit ==
  /\ under \in {"outbox", "inbox"} /\ SQLInit /\ SQLInboxInit
  /\ \A h, k \in Handlers : req[h] = req[k]

MCNext ==
  \/ under = "outbox" /\ SQLNext /\ UNCHANGED <<under, inboxVars>>
  \/ under = "inbox" /\ SQLInboxNext /\ UNCHANGED <<under, vars>>

MCSpec == MCInit /\ [][MCNext]_<<under, vars, inboxVars>>

Symmetry == Permutations(Clients) \cup Permutations(Handlers) \cup Permutations(Requests)
=============================================================================

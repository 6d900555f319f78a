---------------------------- MODULE AtomicCommit ----------------------------
(***************************************************************************)
(* What a coordinator promises its participants: a single decision, commit *)
(* only when all are prepared, and no participant step against it.  A      *)
(* participant may still finish preparing after the decision to abort; it  *)
(* is then undone like the others.  There is no recovery log, so nothing   *)
(* is promised about participants whose commit keeps failing.              *)
(***************************************************************************)
CONSTANT RM
VARIABLES decision, rm

avars == <<decision, rm>>

Init == decision = "open" /\ rm = [r \in RM |-> "working"]

Move(r, from, to) == rm[r] = from /\ rm' = [rm EXCEPT ![r] = to]

Prepare(r) == decision # "commit" /\ Move(r, "working", "prepared") /\ UNCHANGED decision

Commit(r) == decision = "commit" /\ Move(r, "prepared", "committed") /\ UNCHANGED decision

Undo(r) == decision = "abort" /\ Move(r, "prepared", "undone") /\ UNCHANGED decision

DecideCommit == /\ decision = "open"
                /\ \A r \in RM : rm[r] = "prepared"
                /\ decision' = "commit"
                /\ UNCHANGED rm

DecideAbort == decision = "open" /\ decision' = "abort" /\ UNCHANGED rm

Next == \/ DecideCommit
        \/ DecideAbort
        \/ \E r \in RM : Prepare(r) \/ Commit(r) \/ Undo(r)

Spec == Init /\ [][Next]_avars
=============================================================================

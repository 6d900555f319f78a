----------------------------- MODULE MCOwnership -----------------------------
(***************************************************************************)
(* The ownership store for TLC.  A behaviour is about the handles with all *)
(* operations ("calls"), about the handles when requests are delayed, with *)
(* the operations that write ("late"), or about Watch, which only reads    *)
(* and is checked against every history of the key ("watch").  Handles are *)
(* interchangeable: it is enough to look at one order of Acquire.          *)
(***************************************************************************)
EXTENDS Ownership, OwnershipWatch

VARIABLE under

MCInit == under \in {"calls", "late", "watch"} /\ Init /\ WatchInit

InOrder == \A g, h \in Handles : g < h /\ acq[h] # "idle" => acq[g] # "idle"
OnlyWrites == \A c \in Callers : call[c].op \in {"none", "guarded", "release"}

MCNext ==
  \/ /\ under \in {"calls", "late"} /\ Next /\ UNCHANGED <<under, watchVars>>
     /\ InOrder' /\ IF under = "late" THEN OnlyWrites' ELSE late' = {}
  \/ under = "watch" /\ WatchNext /\ UNCHANGED <<under, vars>>

MCSpec == MCInit /\ [][MCNext]_<<under, vars, watchVars>> /\ Fairness
=============================================================================

---------------------------- MODULE PoolInvariant ---------------------------
(***************************************************************************)
(* The types of Pool and the inductive invariant behind its guarantees.    *)
(***************************************************************************)
EXTENDS Pool

-----------------------------------------------------------------------------
(* What the callers do, and the types *)

Building == {"build", "add", "addReserved"}
Evicting == {"evict", "sweep"}
Admitted == {"holding", "entered"}
Looking == {"measure", "reap"}
Free == {"idle", "again", "wait"} \cup Looking
Labels == Free \cup Building \cup Evicting \cup Admitted

EntryType ==
  /\ nextID \in Nat /\ nextID <= MaxID
  /\ life \in [Ids -> {"none", "creating", "active", "destroying", "gone"}]
  /\ keyOf \in [Ids -> Keys]
  /\ pinned \subseteq Ids /\ empty \subseteq Ids
  /\ reserved \in [Ids -> Nat]
  /\ occ \in [Ids -> Nat] /\ closes \in [Ids -> Nat]

\* A snapshot, or what was measured of it.
Numbers(f) == \A c \in Callers :
  DOMAIN f[c] \subseteq Ids /\ \A i \in DOMAIN f[c] : f[c][i] \in Nat

VersionType == fresh \in [Callers -> SUBSET Ids] /\ same \subseteq Callers

CallType ==
  /\ pc \in [Callers -> Labels]
  /\ want \in [Callers -> Keys \X Nat]
  /\ DOMAIN snap = Callers /\ DOMAIN seen = Callers /\ Numbers(snap) /\ Numbers(seen)
  /\ creating \in [Callers -> Ids \cup {0}]
  /\ mine \in [Callers -> SUBSET Ids]

TypeOK == EntryType /\ VersionType /\ CallType

-----------------------------------------------------------------------------
(* The inductive invariant *)

\* Ids are used once, placeholders are empty, and Close is called once, on what is gone.
IdInv == \A i \in Ids :
  /\ i > nextID => life[i] = "none"
  /\ life[i] \in {"none", "creating"} => occ[i] = 0
  /\ closes[i] > 0 => closes[i] = 1 /\ life[i] = "gone"

\* What a caller has in mine is in the state that goes with what it does.
InHand(c) ==
  /\ pc[c] \in Building => \E i \in Ids : mine[c] = {i} /\ life[i] = "creating"
  /\ pc[c] \in Evicting => \A i \in mine[c] : life[i] = "destroying"
  /\ pc[c] \in Admitted => \E i \in Ids : mine[c] = {i} /\ Active(i)

\* Instances that are built or evicted have one caller that does it.
OwnInv ==
  /\ \A c \in Callers : InHand(c)
  /\ \A c, d \in Callers :
       c # d /\ {pc[c], pc[d]} \subseteq Building \cup Evicting => mine[c] \cap mine[d] = {}
  /\ \A i \in Ids : life[i] = "creating" => \E c \in Callers : pc[c] \in Building /\ i \in mine[c]

\* Callers on whose behalf a slot of i is reserved.
Holders(i) ==
  {c \in Callers : pc[c] \in {"build", "addReserved"} \cup Admitted /\ mine[c] = {i}}

ReservedExact == \A i \in Ids : reserved[i] = Cardinality(Holders(i))

\* What the capacity bounds.
Load(i) == occ[i] + Cardinality(Pending(i))

\* An occupancy that was measured may be stale, but as long as the revision is the same it is
\* not too small by more than the reservations of now.
StaleInv == \A c \in Callers :
  /\ pc[c] \notin Looking => DOMAIN seen[c] = {}
  /\ pc[c] \in Looking => \A i \in fresh[c] \cap DOMAIN seen[c] :
       Active(i) => Load(i) <= seen[c][i] + reserved[i]

SweepInv == \A c \in Callers : pc[c] = "sweep" => \A i \in mine[c] : occ[i] = 0

\* A caller that saw no build in progress, and whose key version is current, is right.
VersionInv == \A c \in Callers :
  /\ pc[c] = "measure" /\ c \in same /\ creating[c] = 0 => \A i \in Group(want[c][1]) : Active(i)
  /\ pc[c] = "wait" => creating[c] \in Ids

OneBuild == \A c, d \in Callers : \A i \in mine[c], j \in mine[d] :
  pc[c] = "build" /\ pc[d] = "build" /\ keyOf[i] = keyOf[j] => c = d

IInv == /\ IdInv /\ OwnInv /\ ReservedExact /\ StaleInv /\ WithinCapacity /\ SweepInv
        /\ VersionInv /\ OneBuild

-----------------------------------------------------------------------------
(* Abbreviations *)

\* The call of nobody but c moves.
Others(c) == \A d \in Callers \ {c} :
  /\ pc'[d] = pc[d] /\ mine'[d] = mine[d] /\ want'[d] = want[d]
  /\ snap'[d] = snap[d] /\ seen'[d] = seen[d] /\ creating'[d] = creating[d]

\* The sets of the critical section of Reap, for the instances over whose grace is over.
Current(c) == {i \in DOMAIN snap[c] : NotStale(c, i)}
Busy(c) == {i \in Current(c) : seen[c][i] > 0 \/ reserved[i] > 0}
Marked(c) == empty \cap Current(c)
Touched(c, over) ==
  (Busy(c) \cap Marked(c)) \cup (Current(c) \ (Busy(c) \cup Marked(c))) \cup over
ReapOver(c, over) ==
  /\ empty' = (empty \ (Busy(c) \cup over)) \cup (Current(c) \ (Busy(c) \cup Marked(c)))
  /\ life' = [i \in Ids |-> IF i \in over THEN "destroying" ELSE life[i]]
  /\ UNCHANGED <<nextID, keyOf, pinned, reserved>>
  /\ Finish(c, IF over = {} THEN "idle" ELSE "sweep", over)
  /\ Bump(Touched(c, over), {keyOf[i] : i \in Touched(c, over)})

\* What there is to know of the number of callers that hold something.
Counting ==
  /\ Cardinality({}) = 0
  /\ \A S \in SUBSET Callers :
       /\ Cardinality(S) \in Nat
       /\ Cardinality(S) = 0 => S = {}
       /\ \A T \in SUBSET S : Cardinality(T) <= Cardinality(S)
       /\ \A c \in Callers \ S : Cardinality(S \cup {c}) = Cardinality(S) + 1
=============================================================================

----------------------------- MODULE PoolProofs -----------------------------
(***************************************************************************)
(* What Pool guarantees for every set of keys and callers, any number of   *)
(* instances and all capacities that AcquireChecked accepts.  The steps of *)
(* a caller and of the occupants keep the parts of the inductive invariant, *)
(* the types are kept, callers can be counted, and so the invariant is     *)
(* inductive.                                                              *)
(***************************************************************************)
EXTENDS PoolInvariant, FiniteSetTheorems, TLAPS

\* Leaves with arithmetic or a large case split cite SMT.
USE Zenon

-----------------------------------------------------------------------------
(* Steps of one caller *)

LEMMA FinishFact ==
  ASSUME TypeOK, NEW c \in Callers, NEW l, NEW S, Finish(c, l, S)
  PROVE  Others(c) /\ pc'[c] = l /\ mine'[c] = S /\ seen'[c] = NoFcn /\ creating'[c] = 0
  BY DEF TypeOK, CallType, Finish, Goto, Others

LEMMA RetryFact ==
  ASSUME TypeOK, NEW c \in Callers, NEW l, NEW i, Retry(c, l, i)
  PROVE  /\ Others(c) /\ pc'[c] = l /\ mine' = mine /\ seen'[c] = NoFcn /\ creating'[c] = i
         /\ \A d \in Callers : fresh'[d] \subseteq fresh[d]
         /\ same' \subseteq same
  BY DEF TypeOK, VersionType, CallType, Retry, Goto, Others

LEMMA BumpFact ==
  ASSUME TypeOK, NEW S, NEW K, Bump(S, K)
  PROVE  /\ \A d \in Callers : fresh'[d] \subseteq fresh[d] \ S
         /\ \A d \in same' : (d \in same /\ want[d][1] \notin K) \/ Group(want[d][1])' = {}
  BY DEF TypeOK, VersionType, Bump

LEMMA CandidateFact ==
  ASSUME TypeOK, NEW c \in Callers, NEW cand \in Candidates(c)
  PROVE  cand[1] \in DOMAIN snap[c] /\ cand[1] \in Ids /\ cand[2] \in {SoftCap, HardCap}
  BY SMT DEF TypeOK, CallType, Numbers, Candidates

LEMMA ReapFact ==
  ASSUME TypeOK, NEW c \in Callers, Reap(c)
  PROVE  /\ Current(c) \subseteq Ids
         /\ \E over \in SUBSET (Marked(c) \ Busy(c)) : ReapOver(c, over)
  <1>1. Current(c) \subseteq Ids BY DEF TypeOK, CallType, Numbers, Current
  <1> QED BY <1>1 DEF Reap, Current, Busy, Marked, Touched, ReapOver

LEMMA CountStep ==
  ASSUME Counting, NEW S \in SUBSET Callers, NEW T \in SUBSET Callers, NEW c \in Callers,
         \A d \in Callers : d # c => (d \in T <=> d \in S)
  PROVE  /\ Cardinality(S) \in Nat /\ Cardinality(T) \in Nat
         /\ (c \in T <=> c \in S) => Cardinality(T) = Cardinality(S)
         /\ c \in T /\ c \notin S => Cardinality(T) = Cardinality(S) + 1
         /\ c \notin T /\ c \in S => Cardinality(T) + 1 = Cardinality(S)
  <1>1. Cardinality(S) \in Nat /\ Cardinality(T) \in Nat BY DEF Counting
  <1>2. ASSUME c \in T <=> c \in S PROVE T = S BY SMT, <1>2
  <1>3. ASSUME c \in T, c \notin S PROVE Cardinality(T) = Cardinality(S) + 1
    <2>1. T = S \cup {c} BY <1>3
    <2> QED BY <1>3, <2>1 DEF Counting
  <1>4. ASSUME c \notin T, c \in S PROVE Cardinality(T) + 1 = Cardinality(S)
    <2>1. S = T \cup {c} BY <1>4
    <2> QED BY <1>4, <2>1 DEF Counting
  <1> QED BY <1>1, <1>2, <1>3, <1>4

LEMMA PendingStep ==
  ASSUME Counting, NEW c \in Callers, Others(c), NEW i \in Ids
  PROVE  /\ Cardinality(Pending(i)) \in Nat /\ Cardinality(Pending(i)') \in Nat
         /\ (c \in Pending(i)' <=> c \in Pending(i))
              => Cardinality(Pending(i)') = Cardinality(Pending(i))
         /\ c \in Pending(i)' /\ c \notin Pending(i)
              => Cardinality(Pending(i)') = Cardinality(Pending(i)) + 1
         /\ c \notin Pending(i)' /\ c \in Pending(i)
              => Cardinality(Pending(i)') + 1 = Cardinality(Pending(i))
  <1>1. Pending(i) \subseteq Callers /\ Pending(i)' \subseteq Callers BY DEF Pending
  <1>2. \A d \in Callers : d # c => (d \in Pending(i)' <=> d \in Pending(i))
    BY DEF Others, Pending
  <1> QED BY <1>1, <1>2, CountStep

LEMMA HoldersStep ==
  ASSUME Counting, NEW c \in Callers, Others(c), NEW i \in Ids
  PROVE  /\ Cardinality(Holders(i)) \in Nat /\ Cardinality(Holders(i)') \in Nat
         /\ (c \in Holders(i)' <=> c \in Holders(i))
              => Cardinality(Holders(i)') = Cardinality(Holders(i))
         /\ c \in Holders(i)' /\ c \notin Holders(i)
              => Cardinality(Holders(i)') = Cardinality(Holders(i)) + 1
         /\ c \notin Holders(i)' /\ c \in Holders(i)
              => Cardinality(Holders(i)') + 1 = Cardinality(Holders(i))
  <1>1. Holders(i) \subseteq Callers /\ Holders(i)' \subseteq Callers BY DEF Holders
  <1>2. \A d \in Callers : d # c => (d \in Holders(i)' <=> d \in Holders(i))
    BY DEF Others, Holders
  <1> QED BY <1>1, <1>2, CountStep

\* Who is admitted and has not entered is among those for whom a slot is reserved.
LEMMA PendingReserved ==
  ASSUME Counting, ReservedExact, NEW i \in Ids
  PROVE  /\ Cardinality(Pending(i)) \in Nat /\ Cardinality(Pending(i)) <= reserved[i]
         /\ reserved[i] = 0 => Holders(i) = {}
  <1>1. Pending(i) \subseteq Holders(i) BY DEF Pending, Holders, Admitted
  <1>2. Holders(i) \subseteq Callers /\ Pending(i) \subseteq Callers BY DEF Holders, Pending
  <1> QED BY <1>1, <1>2 DEF ReservedExact, Counting

LEMMA LoadType ==
  ASSUME Counting, TypeOK, NEW i \in Ids
  PROVE  Load(i) \in Nat /\ Cardinality(Pending(i)) \in Nat
  <1>1. Pending(i) \subseteq Callers BY DEF Pending
  <1> QED BY SMT, <1>1 DEF Load, TypeOK, EntryType, Counting

-----------------------------------------------------------------------------
(* What keeps the parts of the invariant *)

LEMMA StaleStep ==
  ASSUME Counting, TypeOK, TypeOK', StaleInv, NEW c \in Callers, Others(c), NEW S,
         DOMAIN seen'[c] = {},
         \A d \in Callers \ {c} : fresh'[d] \subseteq fresh[d] \ S,
         \A i \in Ids \ S : Active(i)' => Active(i) /\ Load(i)' + reserved[i] <= Load(i) + reserved'[i]
  PROVE  StaleInv'
  <1> SUFFICES ASSUME NEW d \in Callers, NEW i \in fresh'[d] \cap DOMAIN seen'[d],
                      pc'[d] \in Looking, Active(i)'
               PROVE  Load(i)' <= seen'[d][i] + reserved'[i]
    <2> SUFFICES ASSUME NEW d \in Callers, pc'[d] \notin Looking PROVE DOMAIN seen'[d] = {}
      BY DEF StaleInv
    <2> QED BY DEF StaleInv, Others
  <1>1. d # c OBVIOUS
  <1>2. i \in fresh[d] \cap DOMAIN seen[d] /\ i \notin S /\ seen'[d] = seen[d] /\ pc[d] \in Looking
    BY <1>1 DEF Others
  <1>3. i \in Ids /\ seen[d][i] \in Nat /\ reserved[i] \in Nat /\ reserved'[i] \in Nat
    BY <1>2 DEF TypeOK, EntryType, CallType, Numbers
  <1>4. Active(i) /\ Load(i)' + reserved[i] <= Load(i) + reserved'[i] BY <1>2, <1>3
  <1>5. Load(i) <= seen[d][i] + reserved[i] BY <1>2, <1>4 DEF StaleInv
  <1>6. Load(i) \in Nat /\ Load(i)' \in Nat
    BY SMT, <1>3, PendingStep DEF TypeOK, EntryType, Load
  <1> QED BY SMT, <1>2, <1>3, <1>4, <1>5, <1>6

LEMMA VersionStep ==
  ASSUME TypeOK, TypeOK', VersionInv, NEW c \in Callers, Others(c), NEW K,
         pc'[c] = "measure" /\ creating'[c] = 0 => (\A i \in Group(want[c][1]) : Active(i))',
         pc'[c] = "wait" => creating'[c] \in Ids,
         \A d \in same' \ {c} : (d \in same /\ want[d][1] \notin K) \/ Group(want[d][1])' = {},
         \A i \in Ids : life'[i] = "creating" =>
                          (life[i] = "creating" /\ keyOf'[i] = keyOf[i]) \/ keyOf'[i] \in K
  PROVE  VersionInv'
  <1>1. ASSUME NEW d \in Callers, pc'[d] = "wait" PROVE creating'[d] \in Ids
    BY <1>1 DEF VersionInv, Others
  <1>2. ASSUME NEW d \in Callers, pc'[d] = "measure", d \in same', creating'[d] = 0,
               NEW i \in Group(want[d][1])'
        PROVE  Active(i)'
    <2>1. CASE d = c BY <1>2, <2>1
    <2>2. CASE d # c
      <3>1. pc[d] = "measure" /\ creating[d] = 0 /\ want'[d] = want[d] BY <1>2, <2>2 DEF Others
      <3>2. d \in same /\ want[d][1] \notin K BY <1>2, <2>2, <3>1
      <3>3. CASE life'[i] = "creating"
        <4>1. life[i] = "creating" /\ i \in Group(want[d][1])
          BY <1>2, <3>1, <3>2, <3>3 DEF Group
        <4>2. Active(i) BY <3>1, <3>2, <4>1 DEF VersionInv
        <4> QED BY <4>1, <4>2 DEF Active
      <3> QED BY <1>2, <3>3 DEF Group, Active
    <2> QED BY <2>1, <2>2
  <1> QED BY <1>1, <1>2 DEF VersionInv

LEMMA VersionKept ==
  ASSUME TypeOK, TypeOK', VersionInv, NEW c \in Callers, Others(c),
         pc'[c] \notin {"measure", "wait"},
         \A d \in same' \ {c} : d \in same \/ Group(want[d][1])' = {},
         \A i \in Ids : life'[i] = "creating" => life[i] = "creating" /\ keyOf'[i] = keyOf[i]
  PROVE  VersionInv'
  <1>1. \A d \in same' \ {c} : (d \in same /\ want[d][1] \notin {}) \/ Group(want[d][1])' = {}
    OBVIOUS
  <1>2. \A i \in Ids : life'[i] = "creating" =>
          (life[i] = "creating" /\ keyOf'[i] = keyOf[i]) \/ keyOf'[i] \in {}
    OBVIOUS
  <1>3. pc'[c] = "measure" /\ creating'[c] = 0 => (\A i \in Group(want[c][1]) : Active(i))'
    OBVIOUS
  <1>4. pc'[c] = "wait" => creating'[c] \in Ids OBVIOUS
  <1> QED BY <1>1, <1>2, <1>3, <1>4, VersionStep

LEMMA OwnStep ==
  ASSUME TypeOK, OwnInv, NEW c \in Callers, Others(c),
         \A d \in Callers \ {c} : \A i \in mine[d] :
           pc[d] \in Building \cup Evicting \cup Admitted => life'[i] = life[i],
         pc'[c] \in Building => \E i \in Ids : mine'[c] = {i} /\ life'[i] = "creating",
         pc'[c] \in Evicting => \A i \in mine'[c] : life'[i] = "destroying",
         pc'[c] \in Admitted => \E i \in Ids : mine'[c] = {i} /\ life'[i] = "active",
         pc'[c] \in Building \cup Evicting => \A d \in Callers \ {c} :
           pc[d] \in Building \cup Evicting => mine'[c] \cap mine[d] = {},
         \A i \in Ids : life'[i] = "creating" =>
           \/ life[i] = "creating" /\ ~(pc[c] \in Building /\ i \in mine[c])
           \/ pc'[c] \in Building /\ i \in mine'[c]
  PROVE  OwnInv'
  <1>1. ASSUME NEW d \in Callers
        PROVE  InHand(d)'
    <2>1. CASE d = c BY <2>1 DEF Active, InHand
    <2>2. CASE d # c
      <3>1. pc'[d] = pc[d] /\ mine'[d] = mine[d] BY <2>2 DEF Others
      <3>2. pc[d] \in Building => \E i \in Ids : mine[d] = {i} /\ life'[i] = "creating"
        BY SMT, <2>2 DEF OwnInv, InHand
      <3>3. pc[d] \in Evicting => \A i \in mine[d] : life'[i] = "destroying" BY SMT, <2>2 DEF OwnInv, InHand
      <3>4. pc[d] \in Admitted => \E i \in Ids : mine[d] = {i} /\ life'[i] = "active"
        BY SMT, <2>2 DEF OwnInv, InHand, Active
      <3> QED BY <3>1, <3>2, <3>3, <3>4 DEF Active, InHand
    <2> QED BY <2>1, <2>2
  <1>2. ASSUME NEW d \in Callers, NEW e \in Callers, d # e,
               {pc'[d], pc'[e]} \subseteq Building \cup Evicting
        PROVE  mine'[d] \cap mine'[e] = {}
    <2>1. CASE d = c BY <1>2, <2>1 DEF Others
    <2>2. CASE e = c BY SMT, <1>2, <2>2 DEF Others
    <2>3. CASE d # c /\ e # c BY SMT, <1>2, <2>3 DEF OwnInv, InHand, Others
    <2> QED BY <2>1, <2>2, <2>3
  <1>3. ASSUME NEW i \in Ids, life'[i] = "creating"
        PROVE  \E d \in Callers : pc'[d] \in Building /\ i \in mine'[d]
    <2>1. CASE pc'[c] \in Building /\ i \in mine'[c] BY <2>1
    <2>2. CASE life[i] = "creating" /\ ~(pc[c] \in Building /\ i \in mine[c])
      <3>1. PICK d \in Callers : pc[d] \in Building /\ i \in mine[d] BY <2>2 DEF OwnInv, InHand
      <3> QED BY <2>2, <3>1 DEF Others
    <2> QED BY <1>3, <2>1, <2>2
  <1> QED BY <1>1, <1>2, <1>3 DEF OwnInv

LEMMA BuildStep ==
  ASSUME TypeOK, OneBuild, NEW c \in Callers, Others(c), pc'[c] # "build",
         \A d \in Callers \ {c} : \A i \in mine[d] : pc[d] = "build" => keyOf'[i] = keyOf[i]
  PROVE  OneBuild'
  BY SMT DEF OneBuild, Others

\* A step of a caller that has nothing in hand, before and after, and leaves the entries alone.
LEMMA QuietStep ==
  ASSUME Counting, TypeOK, TypeOK', IInv, NEW c \in Callers, Others(c), pc[c] \in Free, pc'[c] \in Free,
         UNCHANGED <<nextID, life, keyOf, reserved, occ, closes>>
  PROVE  /\ IdInv' /\ OwnInv' /\ ReservedExact' /\ WithinCapacity' /\ SweepInv' /\ OneBuild'
         /\ \A i \in Ids : Load(i)' = Load(i)
  <1> USE DEF Free, Building, Evicting, Admitted, Looking
  <1>1. IdInv' BY DEF IInv, IdInv
  <1>2. OwnInv' BY OwnStep DEF IInv
  <1>3. ReservedExact'
    <2>1. ASSUME NEW i \in Ids PROVE Cardinality(Holders(i)') = Cardinality(Holders(i))
      BY HoldersStep DEF Holders
    <2> QED BY <2>1 DEF IInv, ReservedExact
  <1>4. \A i \in Ids : Load(i)' = Load(i)
    <2>1. ASSUME NEW i \in Ids PROVE Cardinality(Pending(i)') = Cardinality(Pending(i))
      BY PendingStep DEF Pending
    <2> QED BY <2>1 DEF Load
  <1>5. WithinCapacity' BY <1>4 DEF IInv, WithinCapacity, Load, Active
  <1>6. SweepInv' BY DEF IInv, SweepInv, Others
  <1>7. OneBuild' BY BuildStep DEF IInv
  <1> QED BY <1>1, <1>2, <1>3, <1>4, <1>5, <1>6, <1>7

LEMMA QuietInv ==
  ASSUME Counting, TypeOK, TypeOK', IInv, NEW c \in Callers, Others(c), pc[c] \in Free, pc'[c] \in Free,
         UNCHANGED <<nextID, life, keyOf, reserved, occ, closes>>,
         DOMAIN seen'[c] = {},
         \A d \in Callers \ {c} : fresh'[d] \subseteq fresh[d],
         \A d \in same' \ {c} : d \in same \/ Group(want[d][1])' = {},
         pc'[c] = "measure" /\ creating'[c] = 0 => (\A i \in Group(want[c][1]) : Active(i))',
         pc'[c] = "wait" => creating'[c] \in Ids
  PROVE  IInv'
  <1>1. /\ IdInv' /\ OwnInv' /\ ReservedExact' /\ WithinCapacity' /\ SweepInv' /\ OneBuild'
        /\ \A i \in Ids : Load(i)' = Load(i)
    BY QuietStep
  <1>2. StaleInv'
    <2>1. ASSUME NEW i \in Ids \ {}, Active(i)'
          PROVE  Active(i) /\ Load(i)' + reserved[i] <= Load(i) + reserved'[i]
      <3>1. Load(i) \in Nat BY SMT, PendingStep DEF Load, TypeOK, EntryType
      <3> QED BY SMT, <1>1, <2>1, <3>1 DEF Active, TypeOK, EntryType
    <2>2. \A d \in Callers \ {c} : fresh'[d] \subseteq fresh[d] \ {} OBVIOUS
    <2> QED BY <2>1, <2>2, StaleStep DEF IInv
  <1>3. VersionInv'
    <2>1. \A d \in same' \ {c} : (d \in same /\ want[d][1] \notin {}) \/ Group(want[d][1])' = {}
      OBVIOUS
    <2>2. \A i \in Ids : life'[i] = "creating" =>
            (life[i] = "creating" /\ keyOf'[i] = keyOf[i]) \/ keyOf'[i] \in {}
      OBVIOUS
    <2> QED BY <2>1, <2>2, VersionStep DEF IInv
  <1> QED BY <1>1, <1>2, <1>3 DEF IInv

LEMMA RetryInv ==
  ASSUME Counting, TypeOK, TypeOK', IInv, NEW c \in Callers, pc[c] \in {"measure", "wait"},
         \/ Retry(c, "again", 0)
         \/ Retry(c, "wait", creating[c]) /\ creating[c] # 0,
         UNCHANGED appVars
  PROVE  IInv'
  <1>1. /\ Others(c) /\ seen'[c] = NoFcn /\ same' \subseteq same
        /\ pc'[c] \in {"again", "wait"} /\ (pc'[c] = "wait" => creating'[c] \in Ids)
        /\ \A d \in Callers : fresh'[d] \subseteq fresh[d]
    BY SMT, RetryFact DEF TypeOK, CallType
  <1>2. UNCHANGED <<nextID, life, keyOf, reserved, occ, closes>> BY DEF Retry, poolVars, appVars
  <1>3. DOMAIN seen'[c] = {} BY <1>1 DEF NoFcn
  <1>4. pc[c] \in Free /\ pc'[c] \in Free /\ pc'[c] # "measure" BY <1>1 DEF Free, Looking
  <1>5. \A d \in same' \ {c} : d \in same \/ Group(want[d][1])' = {} BY <1>1
  <1> QED BY <1>1, <1>2, <1>3, <1>4, <1>5, QuietInv

LEMMA SnapshotInv ==
  ASSUME Counting, TypeOK, TypeOK', IInv, NEW c \in Callers, Snapshot(c)
  PROVE  IInv'
  <1>1. Others(c) /\ pc[c] \in Free /\ pc'[c] = "measure" /\ seen'[c] = NoFcn
    BY DEF Snapshot, Others, Goto, TypeOK, CallType, Free
  <1>2. UNCHANGED <<nextID, life, keyOf, reserved, occ, closes>> BY DEF Snapshot, poolVars, appVars
  <1>3. \A d \in Callers \ {c} : fresh'[d] \subseteq fresh[d]
    BY DEF Snapshot, TypeOK, VersionType
  <1>4. \A d \in same' \ {c} : d \in same BY DEF Snapshot
  <1>5. ASSUME creating'[c] = 0 PROVE (\A i \in Group(want[c][1]) : Active(i))'
    <2> DEFINE group == Group(want'[c][1])
    <2>1. ASSUME NEW i \in group \ {j \in group : Active(j)},
                 creating' = [creating EXCEPT ![c] = i]
          PROVE  FALSE
      BY SMT, <1>5, <2>1 DEF TypeOK, CallType, Group, Ids
    <2>2. group = {j \in group : Active(j)} BY <2>1 DEF Snapshot
    <2> QED BY <1>2, <2>2 DEF Group, Active
  <1> QED BY <1>1, <1>2, <1>3, <1>4, <1>5, QuietInv DEF Free, Looking, NoFcn

LEMMA ReapSnapshotInv ==
  ASSUME Counting, TypeOK, TypeOK', IInv, NEW c \in Callers, ReapSnapshot(c)
  PROVE  IInv'
  <1>1. Others(c) /\ pc[c] \in Free /\ pc'[c] = "reap"
    BY DEF ReapSnapshot, Others, Goto, TypeOK, CallType, Free
  <1>2. UNCHANGED <<nextID, life, keyOf, reserved, occ, closes>>
    BY DEF ReapSnapshot, poolVars, appVars
  <1>3. \A d \in Callers \ {c} : fresh'[d] \subseteq fresh[d]
    BY DEF ReapSnapshot, TypeOK, VersionType
  <1>4. \A d \in same' \ {c} : d \in same BY DEF ReapSnapshot
  <1>5. DOMAIN seen'[c] = {} BY DEF ReapSnapshot, IInv, StaleInv, Looking
  <1> QED BY <1>1, <1>2, <1>3, <1>4, <1>5, QuietInv DEF Free, Looking

LEMMA MeasureInv ==
  ASSUME Counting, TypeOK, TypeOK', IInv, NEW c \in Callers, Measure(c)
  PROVE  IInv'
  <1>1. PICK i \in DOMAIN snap[c] \ DOMAIN seen[c] :
          seen' = [seen EXCEPT ![c] = [j \in DOMAIN @ \cup {i} |-> IF j = i THEN occ[i] ELSE @[j]]]
    BY DEF Measure
  <1>2. /\ UNCHANGED <<nextID, life, keyOf, reserved, occ, closes>>
        /\ UNCHANGED <<fresh, same, pc, want, snap, creating, mine>>
    BY DEF Measure, poolVars, appVars, versionVars
  <1>3. pc[c] \in Looking BY DEF Measure, Looking
  <1>4. Others(c) BY <1>1, <1>2 DEF Others, TypeOK, CallType
  <1>5. /\ IdInv' /\ OwnInv' /\ ReservedExact' /\ WithinCapacity' /\ SweepInv' /\ OneBuild'
        /\ \A j \in Ids : Load(j)' = Load(j)
    BY <1>2, <1>3, <1>4, QuietStep DEF Free
  <1>6. VersionInv' BY <1>2 DEF IInv, VersionInv, Group, Active
  <1>7. StaleInv'
    <2>1. ASSUME NEW d \in Callers, pc'[d] \notin Looking PROVE DOMAIN seen'[d] = {}
      BY <1>2, <1>3, <1>4, <2>1 DEF IInv, StaleInv, Others
    <2>2. ASSUME NEW d \in Callers, pc'[d] \in Looking, NEW j \in fresh'[d] \cap DOMAIN seen'[d],
                 Active(j)'
          PROVE  Load(j)' <= seen'[d][j] + reserved'[j]
      <3>1. j \in Ids /\ Active(j) /\ reserved'[j] = reserved[j]
        BY <1>2, <2>2 DEF TypeOK, VersionType, Active
      <3>2. CASE d = c /\ j = i
        <4>1. seen'[d][j] = occ[j] BY <1>1, <3>2 DEF TypeOK, CallType
        <4>2. Load(j) <= occ[j] + reserved[j]
          BY SMT, <3>1, PendingReserved DEF IInv, Load, TypeOK, EntryType
        <4> QED BY <1>2, <1>5, <3>1, <4>1, <4>2
      <3>3. CASE ~(d = c /\ j = i)
        <4>1. j \in DOMAIN seen[d] /\ seen'[d][j] = seen[d][j]
          BY <1>1, <2>2, <3>3 DEF TypeOK, CallType
        <4>2. Load(j) <= seen[d][j] + reserved[j]
          BY <1>2, <2>2, <3>1, <4>1 DEF IInv, StaleInv
        <4> QED BY <1>5, <3>1, <4>1, <4>2
      <3> QED BY <3>2, <3>3
    <2> QED BY <2>1, <2>2 DEF StaleInv
  <1> QED BY <1>5, <1>6, <1>7 DEF IInv

-----------------------------------------------------------------------------
(* Entries that are reserved or created *)

LEMMA OwnedLife ==
  ASSUME OwnInv, NEW d \in Callers, NEW i \in mine[d]
  PROVE  /\ pc[d] \in Building => mine[d] = {i} /\ life[i] = "creating"
         /\ pc[d] \in Evicting => life[i] = "destroying"
         /\ pc[d] \in Admitted => mine[d] = {i} /\ life[i] = "active"
  BY SMT DEF OwnInv, InHand, Active

LEMMA ReserveInv ==
  ASSUME Counting, TypeOK, TypeOK', IInv, NEW c \in Callers, pc[c] \in Free, NEW i \in Ids,
         Active(i), Load(i) < HardCap,
         Reserve(i), Finish(c, "holding", {i}), Bump({i}, {keyOf[i]}), UNCHANGED appVars
  PROVE  IInv'
  <1> USE DEF Free, Building, Evicting, Admitted, Looking
  <1>1. /\ Others(c) /\ pc'[c] = "holding" /\ mine'[c] = {i} /\ DOMAIN seen'[c] = {}
        /\ UNCHANGED <<nextID, life, keyOf, occ, closes>>
        /\ reserved'[i] = reserved[i] + 1
        /\ \A j \in Ids \ {i} : reserved'[j] = reserved[j]
    BY SMT, FinishFact DEF Reserve, appVars, NoFcn, TypeOK, EntryType
  <1>2. /\ \A d \in Callers : fresh'[d] \subseteq fresh[d] \ {i}
        /\ \A d \in same' : (d \in same /\ want[d][1] \notin {keyOf[i]}) \/ Group(want[d][1])' = {}
    BY BumpFact
  <1>3. \A j \in Ids : c \notin Pending(j) /\ c \notin Holders(j) BY DEF Pending, Holders
  <1>4. c \in Pending(i)' /\ c \in Holders(i)' BY <1>1 DEF Pending, Holders
  <1>5. \A j \in Ids \ {i} : c \notin Pending(j)' /\ c \notin Holders(j)'
    BY <1>1 DEF Pending, Holders
  <1>6. Load(i)' = Load(i) + 1
    BY SMT, <1>1, <1>3, <1>4, PendingStep DEF Load, TypeOK, EntryType
  <1>7. ASSUME NEW j \in Ids \ {i} PROVE Load(j)' = Load(j)
    BY <1>1, <1>3, <1>5, PendingStep DEF Load
  <1>8. IdInv' BY <1>1 DEF IInv, IdInv
  <1>9. OwnInv' BY <1>1, OwnStep DEF IInv, Active
  <1>10. ReservedExact'
    <2>1. ASSUME NEW j \in Ids PROVE reserved'[j] = Cardinality(Holders(j)')
      BY <1>1, <1>3, <1>4, <1>5, HoldersStep DEF IInv, ReservedExact
    <2> QED BY <2>1 DEF ReservedExact
  <1>11. StaleInv'
    <2>1. ASSUME NEW j \in Ids \ {i}, Active(j)'
          PROVE  Active(j) /\ Load(j)' + reserved[j] <= Load(j) + reserved'[j]
      BY SMT, <1>1, <1>7, <2>1, LoadType DEF Active, TypeOK, EntryType
    <2> QED BY <1>1, <1>2, <2>1, StaleStep DEF IInv
  <1>12. WithinCapacity'
    <2>1. ASSUME NEW j \in Ids, Active(j)' PROVE Load(j)' <= HardCap
      <3>1. CASE j = i BY SMT, <1>6, <3>1, LoadType, PoolAssumption
      <3>2. CASE j # i
        <4>1. Load(j) <= HardCap BY <1>1, <2>1 DEF IInv, WithinCapacity, Load, Active
        <4> QED BY <1>7, <3>2, <4>1
      <3> QED BY <3>1, <3>2
    <2> QED BY <2>1 DEF WithinCapacity, Load
  <1>13. SweepInv' BY <1>1 DEF IInv, SweepInv, Others
  <1>14. VersionInv' BY <1>1, <1>2, VersionKept DEF IInv
  <1>15. OneBuild' BY <1>1, BuildStep DEF IInv
  <1> QED BY <1>8, <1>9, <1>10, <1>11, <1>12, <1>13, <1>14, <1>15 DEF IInv

LEMMA CreateInv ==
  ASSUME Counting, TypeOK, TypeOK', IInv, NEW c \in Callers, pc[c] \in Free,
         NEW k \in Keys, NEW pin \in BOOLEAN, NEW r \in {0, 1}, NEW l \in Building,
         r = 1 <=> l # "add", l = "build" => \A i \in Group(k) : Active(i),
         NewEntry(k, pin, r), Finish(c, l, {nextID + 1}), Bump({nextID + 1}, {k}), UNCHANGED appVars
  PROVE  IInv'
  <1>0. PICK n \in Ids : n = nextID + 1 BY SMT, PoolAssumption DEF NewEntry, TypeOK, EntryType, Ids
  <1> USE DEF Free, Building, Evicting, Admitted, Looking
  <1>1. /\ Others(c) /\ pc'[c] = l /\ mine'[c] = {n} /\ DOMAIN seen'[c] = {}
        /\ UNCHANGED <<occ, closes>>
    BY <1>0, FinishFact DEF NewEntry, appVars, NoFcn
  <1>2. n \in Ids /\ life[n] = "none" /\ nextID' = n /\ n > nextID
    BY SMT, <1>0 DEF IInv, IdInv, NewEntry, TypeOK, EntryType
  <1>3. /\ life'[n] = "creating" /\ keyOf'[n] = k /\ reserved'[n] = r
        /\ \A j \in Ids \ {n} : life'[j] = life[j] /\ keyOf'[j] = keyOf[j] /\ reserved'[j] = reserved[j]
    BY <1>0 DEF NewEntry, TypeOK, EntryType
  <1>4. /\ \A d \in Callers : fresh'[d] \subseteq fresh[d] \ {n}
        /\ \A d \in same' : (d \in same /\ want[d][1] \notin {k}) \/ Group(want[d][1])' = {}
    BY SMT, <1>0, BumpFact
  <1>5. ASSUME NEW d \in Callers, pc[d] \in Building \cup Evicting \cup Admitted
        PROVE  n \notin mine[d]
    BY <1>2, <1>5, OwnedLife DEF IInv
  <1>6. ASSUME NEW j \in Ids PROVE Load(j)' = Load(j)
    <2>1. c \notin Pending(j) /\ c \notin Pending(j)' BY <1>1 DEF Pending
    <2> QED BY <1>1, <2>1, PendingStep DEF Load
  <1>7. IdInv' BY SMT, <1>1, <1>2, <1>3 DEF IInv, IdInv, TypeOK, EntryType
  <1>8. OwnInv'
    <2>1. ASSUME NEW d \in Callers \ {c}, NEW i \in mine[d],
                 pc[d] \in Building \cup Evicting \cup Admitted
          PROVE  life'[i] = life[i]
      BY <1>3, <1>5, <2>1 DEF TypeOK, CallType
    <2>2. \A d \in Callers \ {c} : pc[d] \in Building \cup Evicting => mine'[c] \cap mine[d] = {}
      BY <1>1, <1>5
    <2> QED BY <1>1, <1>2, <1>3, <2>1, <2>2, OwnStep DEF IInv
  <1>9. ReservedExact'
    <2>1. ASSUME NEW j \in Ids \ {n} PROVE reserved'[j] = Cardinality(Holders(j)')
      <3>1. c \notin Holders(j) /\ c \notin Holders(j)' BY <1>1 DEF Holders
      <3> QED BY <1>1, <1>3, <3>1, HoldersStep DEF IInv, ReservedExact
    <2>2. Holders(n) = {} BY <1>5 DEF Holders
    <2>3. Cardinality(Holders(n)) = 0 BY <2>2 DEF Counting
    <2>4. c \in Holders(n)' <=> r = 1 BY <1>1 DEF Holders
    <2>5. reserved'[n] = Cardinality(Holders(n)')
      <3>1. c \notin Holders(n) BY <2>2
      <3>2. CASE r = 1
        <4>1. Cardinality(Holders(n)') = Cardinality(Holders(n)) + 1
          BY <1>1, <2>4, <3>1, <3>2, HoldersStep
        <4> QED BY SMT, <1>3, <2>3, <3>2, <4>1
      <3>3. CASE r = 0
        <4>1. Cardinality(Holders(n)') = Cardinality(Holders(n))
          BY SMT, <1>1, <2>4, <3>1, <3>3, HoldersStep
        <4> QED BY <1>3, <2>3, <3>3, <4>1
      <3> QED BY <3>2, <3>3
    <2> QED BY <2>1, <2>5 DEF ReservedExact
  <1>10. StaleInv'
    <2>1. ASSUME NEW j \in Ids \ {n}, Active(j)'
          PROVE  Active(j) /\ Load(j)' + reserved[j] <= Load(j) + reserved'[j]
      BY SMT, <1>3, <1>6, <2>1, LoadType DEF Active, TypeOK, EntryType
    <2> QED BY <1>1, <1>4, <2>1, StaleStep DEF IInv
  <1>11. WithinCapacity'
    <2>1. ASSUME NEW j \in Ids, Active(j)' PROVE Load(j)' <= HardCap
      BY <1>3, <1>6, <2>1 DEF IInv, WithinCapacity, Load, Active
    <2> QED BY <2>1 DEF WithinCapacity, Load
  <1>12. SweepInv' BY <1>1 DEF IInv, SweepInv, Others
  <1>13. VersionInv'
    <2>1. \A j \in Ids : life'[j] = "creating" =>
            (life[j] = "creating" /\ keyOf'[j] = keyOf[j]) \/ keyOf'[j] \in {k}
      BY <1>3
    <2>2. \A d \in same' \ {c} : (d \in same /\ want[d][1] \notin {k}) \/ Group(want[d][1])' = {}
      BY <1>4
    <2>3. pc'[c] \notin {"measure", "wait"} BY <1>1
    <2> QED BY <1>1, <2>1, <2>2, <2>3, VersionStep DEF IInv
  <1>14. OneBuild'
    <2>1. ASSUME NEW d \in Callers \ {c}, NEW i \in mine[d], pc[d] = "build"
          PROVE  keyOf'[i] = keyOf[i] /\ (l = "build" => keyOf[i] # k)
      <3>1. i \in Ids \ {n} /\ life[i] = "creating" BY SMT, <1>5, <2>1, OwnedLife DEF IInv, TypeOK, CallType
      <3>2. keyOf'[i] = keyOf[i] BY <1>3, <3>1
      <3>3. l = "build" => keyOf[i] # k BY <3>1 DEF Group, Active
      <3> QED BY <3>2, <3>3
    <2> QED BY SMT, <1>1, <1>3, <2>1 DEF IInv, OneBuild, Others
  <1> QED BY <1>7, <1>8, <1>9, <1>10, <1>11, <1>12, <1>13, <1>14 DEF IInv

-----------------------------------------------------------------------------
(* Entries that are published, discarded or taken out of service; occupants *)

LEMMA PublishInv ==
  ASSUME Counting, TypeOK, TypeOK', IInv, NEW c \in Callers, FinishCreation(c)
  PROVE  IInv'
  <1> USE DEF Free, Building, Evicting, Admitted, Looking
  <1>0. PICK i \in mine[c] :
          /\ life' = [life EXCEPT ![i] = "active"]
          /\ IF pc[c] = "add" THEN Finish(c, "idle", {}) ELSE Finish(c, "holding", {i})
          /\ UNCHANGED <<nextID, keyOf, pinned, reserved, empty>>
          /\ Bump({i}, {keyOf[i]})
    BY DEF FinishCreation
  <1>1. /\ Others(c) /\ DOMAIN seen'[c] = {} /\ UNCHANGED <<nextID, keyOf, reserved, occ, closes>>
        /\ pc'[c] = IF pc[c] = "add" THEN "idle" ELSE "holding"
        /\ mine'[c] = IF pc[c] = "add" THEN {} ELSE {i}
    BY <1>0, FinishFact DEF FinishCreation, appVars, NoFcn
  <1>2. i \in Ids /\ mine[c] = {i} /\ life[i] = "creating" /\ pc[c] \in Building
    BY OwnedLife DEF FinishCreation, IInv, TypeOK, CallType
  <1>3. life'[i] = "active" /\ \A j \in Ids \ {i} : life'[j] = life[j]
    BY <1>0, <1>2 DEF TypeOK, EntryType
  <1>4. /\ \A d \in Callers : fresh'[d] \subseteq fresh[d] \ {i}
        /\ \A d \in same' : (d \in same /\ want[d][1] \notin {keyOf[i]}) \/ Group(want[d][1])' = {}
    BY <1>0, BumpFact
  <1>5. ASSUME NEW d \in Callers \ {c}, pc[d] \in Building \cup Evicting \cup Admitted
        PROVE  i \notin mine[d]
    BY SMT, <1>2, <1>5, OwnedLife DEF IInv, OwnInv, InHand
  <1>6. Cardinality(Pending(i)) = 0 /\ c \notin Pending(i)
    <2>1. Pending(i) = {} BY <1>2, <1>5 DEF Pending
    <2> QED BY <2>1 DEF Counting
  <1>7. Load(i)' \in Nat /\ Load(i)' <= 1
    <2>1. Cardinality(Pending(i)') <= 1 BY SMT, <1>1, <1>2, <1>6, PendingStep
    <2>2. occ'[i] = 0 BY <1>1, <1>2 DEF IInv, IdInv
    <2>3. Cardinality(Pending(i)') \in Nat BY <1>1, <1>2, PendingStep
    <2> QED BY SMT, <2>1, <2>2, <2>3 DEF Load
  <1>8. ASSUME NEW j \in Ids \ {i} PROVE Load(j)' = Load(j)
    <2>1. c \notin Pending(j) /\ c \notin Pending(j)' BY <1>1, <1>2 DEF Pending
    <2> QED BY <1>1, <2>1, PendingStep DEF Load
  <1>9. IdInv' BY <1>1, <1>2, <1>3 DEF IInv, IdInv
  <1>10. OwnInv'
    <2>1. ASSUME NEW d \in Callers \ {c}, NEW j \in mine[d],
                 pc[d] \in Building \cup Evicting \cup Admitted
          PROVE  life'[j] = life[j]
      BY <1>3, <1>5, <2>1 DEF TypeOK, CallType
    <2>2. pc'[c] \in Admitted => \E j \in Ids : mine'[c] = {j} /\ life'[j] = "active"
      BY <1>1, <1>2, <1>3
    <2>3. pc'[c] \in Free \cup Admitted BY <1>1
    <2> QED BY <1>1, <1>2, <1>3, <2>1, <2>2, <2>3, OwnStep DEF IInv
  <1>11. ReservedExact'
    <2>1. ASSUME NEW j \in Ids PROVE c \in Holders(j)' <=> c \in Holders(j)
      BY <1>1, <1>2 DEF Holders
    <2> QED BY <1>1, <2>1, HoldersStep DEF IInv, ReservedExact
  <1>12. StaleInv'
    <2>1. ASSUME NEW j \in Ids \ {i}, Active(j)'
          PROVE  Active(j) /\ Load(j)' + reserved[j] <= Load(j) + reserved'[j]
      BY SMT, <1>1, <1>3, <1>8, <2>1, LoadType DEF Active, TypeOK, EntryType
    <2> QED BY <1>1, <1>4, <2>1, StaleStep DEF IInv
  <1>13. WithinCapacity'
    <2>1. ASSUME NEW j \in Ids, Active(j)' PROVE Load(j)' <= HardCap
      <3>1. CASE j = i BY SMT, <1>7, <3>1, PoolAssumption
      <3>2. CASE j # i BY <1>3, <1>8, <2>1, <3>2 DEF IInv, WithinCapacity, Load, Active
      <3> QED BY <3>1, <3>2
    <2> QED BY <2>1 DEF WithinCapacity, Load
  <1>14. SweepInv' BY <1>1 DEF IInv, SweepInv, Others
  <1>15. VersionInv' BY <1>1, <1>3, <1>4, VersionKept DEF IInv
  <1>16. OneBuild' BY <1>1, BuildStep DEF IInv
  <1> QED BY <1>9, <1>10, <1>11, <1>12, <1>13, <1>14, <1>15, <1>16 DEF IInv

\* An entry goes: its builder failed, or it was evicted.
LEMMA DiscardInv ==
  ASSUME Counting, TypeOK, TypeOK', IInv, NEW c \in Callers, NEW i \in mine[c], Discard(i), Others(c),
         \/ pc[c] \in Building /\ closes' = closes
         \/ pc[c] \in Evicting /\ closes' = [closes EXCEPT ![i] = @ + 1],
         \/ pc'[c] = "idle"
         \/ pc'[c] = pc[c] /\ pc[c] \in Evicting /\ mine'[c] \subseteq mine[c] \ {i},
         DOMAIN seen'[c] = {},
         \A d \in Callers \ {c} : fresh'[d] \subseteq fresh[d],
         \A d \in same' \ {c} : d \in same \/ Group(want[d][1])' = {}
  PROVE  IInv'
  <1> USE DEF Free, Building, Evicting, Admitted, Looking
  <1>1. i \in Ids /\ pc[c] \in Building \cup Evicting BY DEF TypeOK, CallType
  <1>2. life[i] \in {"creating", "destroying"} /\ (pc[c] \in Evicting => life[i] = "destroying")
    BY OwnedLife DEF IInv
  <1>3. /\ life'[i] = "gone" /\ occ'[i] = 0 /\ reserved'[i] = 0 /\ nextID' = nextID
        /\ \A j \in Ids \ {i} : /\ life'[j] = life[j] /\ keyOf'[j] = keyOf[j]
                                /\ reserved'[j] = reserved[j] /\ occ'[j] = occ[j]
    BY <1>1 DEF Discard, TypeOK, EntryType
  <1>4. ASSUME NEW d \in Callers \ {c}, pc[d] \in Building \cup Evicting \cup Admitted
        PROVE  i \notin mine[d]
    BY SMT, <1>1, <1>2, <1>4, OwnedLife DEF IInv, OwnInv, InHand
  <1>5. ASSUME NEW j \in Ids \ {i} PROVE Load(j)' = Load(j)
    <2>1. c \notin Pending(j) /\ c \notin Pending(j)' BY <1>1 DEF Pending
    <2> QED BY <1>3, <2>1, PendingStep DEF Load
  <1>6. IdInv'
    <2>1. \A j \in Ids \ {i} : closes'[j] = closes[j] BY DEF TypeOK, EntryType
    <2>2. closes'[i] > 0 => closes'[i] = 1
      BY SMT, <1>1, <1>2 DEF IInv, IdInv, TypeOK, EntryType
    <2> QED BY <1>1, <1>2, <1>3, <2>1, <2>2 DEF IInv, IdInv
  <1>7. OwnInv'
    <2>1. ASSUME NEW d \in Callers \ {c}, NEW j \in mine[d],
                 pc[d] \in Building \cup Evicting \cup Admitted
          PROVE  life'[j] = life[j]
      BY <1>3, <1>4, <2>1 DEF TypeOK, CallType
    <2>2. ASSUME pc'[c] \in Evicting, NEW j \in mine'[c] PROVE life'[j] = "destroying"
      <3>1. j \in mine[c] /\ j # i /\ j \in Ids BY <2>2 DEF TypeOK, CallType
      <3> QED BY <1>3, <2>2, <3>1, OwnedLife DEF IInv
    <2>3. pc'[c] \in Evicting => \A d \in Callers \ {c} :
            pc[d] \in Building \cup Evicting => mine'[c] \cap mine[d] = {}
      BY SMT DEF IInv, OwnInv, InHand
    <2>4. \A j \in Ids : life'[j] = "creating" =>
            life[j] = "creating" /\ ~(pc[c] \in Building /\ j \in mine[c])
      BY SMT, <1>1, <1>3, OwnedLife DEF IInv
    <2>5. pc'[c] \in {"idle"} \cup Evicting OBVIOUS
    <2> QED BY <2>1, <2>2, <2>3, <2>4, <2>5, OwnStep DEF IInv
  <1>8. ReservedExact'
    <2>1. ASSUME NEW j \in Ids \ {i} PROVE reserved'[j] = Cardinality(Holders(j)')
      <3>1. c \notin Holders(j) /\ c \notin Holders(j)' BY OwnedLife DEF Holders, IInv
      <3> QED BY <1>3, <3>1, HoldersStep DEF IInv, ReservedExact
    <2>2. Holders(i)' = {} BY SMT, <1>4 DEF Holders, Others
    <2> QED BY <1>3, <2>1, <2>2 DEF ReservedExact, Counting
  <1>9. StaleInv'
    <2>1. ASSUME NEW j \in Ids \ {}, Active(j)'
          PROVE  Active(j) /\ Load(j)' + reserved[j] <= Load(j) + reserved'[j]
      BY SMT, <1>3, <1>5, <2>1, LoadType DEF Active, TypeOK, EntryType
    <2>2. \A d \in Callers \ {c} : fresh'[d] \subseteq fresh[d] \ {} OBVIOUS
    <2> QED BY <2>1, <2>2, StaleStep DEF IInv
  <1>10. WithinCapacity'
    <2>1. ASSUME NEW j \in Ids, Active(j)' PROVE Load(j)' <= HardCap
      BY <1>3, <1>5, <2>1 DEF IInv, WithinCapacity, Load, Active
    <2> QED BY <2>1 DEF WithinCapacity, Load
  <1>11. SweepInv' BY SMT, <1>3 DEF IInv, SweepInv, Others, TypeOK, CallType
  <1>12. VersionInv' BY <1>3, VersionKept DEF IInv
  <1>13. OneBuild'
    <2>1. \A d \in Callers \ {c} : \A j \in mine[d] : pc[d] = "build" => keyOf'[j] = keyOf[j]
      BY <1>3, <1>4 DEF TypeOK, CallType
    <2> QED BY <2>1, BuildStep DEF IInv
  <1> QED BY <1>6, <1>7, <1>8, <1>9, <1>10, <1>11, <1>12, <1>13 DEF IInv

\* DestroyChecked and Reap take the entries in over out of service.
LEMMA DoomInv ==
  ASSUME Counting, TypeOK, TypeOK', IInv, NEW c \in Callers, pc[c] \in Free, NEW over \in SUBSET Ids,
         \A i \in over : Active(i) /\ reserved[i] = 0,
         NEW l \in Evicting, l = "sweep" => \A i \in over : occ[i] = 0,
         \A i \in Ids : life'[i] = IF i \in over THEN "destroying" ELSE life[i],
         UNCHANGED <<nextID, keyOf, reserved, occ, closes>>,
         Finish(c, l, over), NEW S, NEW K, Bump(S, K)
  PROVE  IInv'
  <1> USE DEF Free, Building, Evicting, Admitted, Looking
  <1>1. Others(c) /\ pc'[c] = l /\ mine'[c] = over /\ DOMAIN seen'[c] = {}
    BY FinishFact DEF NoFcn
  <1>2. /\ \A d \in Callers : fresh'[d] \subseteq fresh[d] \ S
        /\ \A d \in same' : d \in same \/ Group(want[d][1])' = {}
    BY BumpFact
  <1>3. ASSUME NEW d \in Callers, pc[d] \in Building \cup Evicting \cup Admitted
        PROVE  mine[d] \cap over = {}
    <2> SUFFICES ASSUME NEW i \in mine[d], i \in over PROVE FALSE OBVIOUS
    <2>1. life[i] = "active" /\ Holders(i) = {}
      BY PendingReserved DEF Active, IInv
    <2> QED BY <1>3, <2>1, OwnedLife DEF Holders, IInv
  <1>4. ASSUME NEW j \in Ids PROVE Load(j)' = Load(j)
    <2>1. c \notin Pending(j) /\ c \notin Pending(j)' BY <1>1 DEF Pending
    <2> QED BY <1>1, <2>1, PendingStep DEF Load
  <1>5. IdInv' BY DEF IInv, IdInv, Active
  <1>6. OwnInv'
    <2>1. ASSUME NEW d \in Callers \ {c}, NEW i \in mine[d],
                 pc[d] \in Building \cup Evicting \cup Admitted
          PROVE  life'[i] = life[i]
      BY <1>3, <2>1 DEF TypeOK, CallType
    <2>2. \A d \in Callers \ {c} : pc[d] \in Building \cup Evicting => mine'[c] \cap mine[d] = {}
      BY <1>1, <1>3
    <2> QED BY <1>1, <2>1, <2>2, OwnStep DEF IInv
  <1>7. ReservedExact'
    <2>1. ASSUME NEW j \in Ids PROVE c \in Holders(j)' <=> c \in Holders(j)
      BY <1>1 DEF Holders
    <2> QED BY <1>1, <2>1, HoldersStep DEF IInv, ReservedExact
  <1>8. \A j \in Ids : Active(j)' => Active(j) BY DEF Active
  <1>9. StaleInv'
    <2>1. ASSUME NEW j \in Ids \ S, Active(j)'
          PROVE  Active(j) /\ Load(j)' + reserved[j] <= Load(j) + reserved'[j]
      BY SMT, <1>4, <1>8, <2>1, LoadType DEF TypeOK, EntryType
    <2> QED BY <1>1, <1>2, <2>1, StaleStep DEF IInv
  <1>10. WithinCapacity' BY <1>4, <1>8 DEF IInv, WithinCapacity, Load
  <1>11. SweepInv' BY <1>1 DEF IInv, SweepInv, Others
  <1>12. VersionInv' BY <1>1, <1>2, VersionKept DEF IInv
  <1>13. OneBuild' BY <1>1, BuildStep DEF IInv
  <1> QED BY <1>5, <1>6, <1>7, <1>9, <1>10, <1>11, <1>12, <1>13 DEF IInv

LEMMA DestroyInv ==
  ASSUME Counting, TypeOK, TypeOK', IInv, NEW c \in Callers, DestroyChecked(c)
  PROVE  IInv'
  <1>1. PICK i \in Ids :
          /\ Destroyable(i)
          /\ life' = [life EXCEPT ![i] = "destroying"]
          /\ UNCHANGED <<nextID, keyOf, pinned, reserved, empty>>
          /\ Finish(c, "evict", {i})
          /\ Bump({i}, {keyOf[i]})
    BY DEF DestroyChecked
  <1>2. \A j \in Ids : life'[j] = IF j \in {i} THEN "destroying" ELSE life[j]
    BY <1>1 DEF TypeOK, EntryType
  <1>3. UNCHANGED <<nextID, keyOf, reserved, occ, closes>> /\ pc[c] \in Free
    BY <1>1 DEF DestroyChecked, appVars, Free
  <1>4. \A j \in {i} : Active(j) /\ reserved[j] = 0 BY <1>1 DEF Destroyable
  <1>5. "evict" \in Evicting /\ "evict" # "sweep" BY DEF Evicting
  <1> QED BY <1>1, <1>2, <1>3, <1>4, <1>5, DoomInv

LEMMA ReapInv ==
  ASSUME Counting, TypeOK, TypeOK', IInv, NEW c \in Callers, Reap(c)
  PROVE  IInv'
  <1>1. PICK over \in SUBSET (Marked(c) \ Busy(c)) : ReapOver(c, over) BY ReapFact
  <1>2. over \subseteq Ids BY ReapFact DEF Marked
  <1>3. /\ UNCHANGED <<nextID, keyOf, reserved, occ, closes>>
        /\ \A i \in Ids : life'[i] = IF i \in over THEN "destroying" ELSE life[i]
    BY <1>1 DEF ReapOver, Reap, appVars
  <1>4. pc[c] = "reap" /\ DOMAIN seen[c] = DOMAIN snap[c] BY DEF Reap, Measured
  <1>5. CASE over # {}
    <2>1. ASSUME NEW i \in over PROVE Active(i) /\ reserved[i] = 0 /\ occ[i] = 0
      <3>1. i \in DOMAIN seen[c] /\ i \in fresh[c] /\ Active(i) /\ i \in Ids
        BY <1>2, <1>4 DEF Marked, Current, NotStale
      <3>2. ~(seen[c][i] > 0) /\ ~(reserved[i] > 0) BY DEF Busy, Marked
      <3>3. seen[c][i] = 0 /\ reserved[i] = 0
        BY SMT, <3>1, <3>2 DEF TypeOK, EntryType, CallType, Numbers
      <3>4. Load(i) <= seen[c][i] + reserved[i] BY <1>4, <3>1 DEF IInv, StaleInv, Looking
      <3>5. occ[i] = 0 BY SMT, <3>1, <3>3, <3>4, LoadType DEF Load, TypeOK, EntryType
      <3> QED BY <3>1, <3>3, <3>5
    <2>2. /\ Finish(c, "sweep", over)
          /\ Bump(Touched(c, over), {keyOf[i] : i \in Touched(c, over)})
      BY <1>1, <1>5 DEF ReapOver
    <2>3. "sweep" \in Evicting /\ pc[c] \in Free BY <1>4 DEF Evicting, Free, Looking
    <2> QED BY <1>2, <1>3, <2>1, <2>2, <2>3, DoomInv
  <1>6. CASE over = {}
    <2>1. /\ Finish(c, "idle", {})
          /\ Bump(Touched(c, over), {keyOf[i] : i \in Touched(c, over)})
      BY <1>1, <1>6 DEF ReapOver
    <2>2. Others(c) /\ pc'[c] = "idle" /\ DOMAIN seen'[c] = {} BY <2>1, FinishFact DEF NoFcn
    <2>3. /\ \A d \in Callers : fresh'[d] \subseteq fresh[d]
          /\ \A d \in same' \ {c} : d \in same \/ Group(want[d][1])' = {}
      BY <2>1, BumpFact
    <2>4. life' = life BY SMT, <1>3, <1>6 DEF TypeOK, EntryType
    <2>5. pc[c] \in Free /\ pc'[c] \in Free BY <1>4, <2>2 DEF Free, Looking
    <2> QED BY <1>3, <2>2, <2>3, <2>4, <2>5, QuietInv
  <1> QED BY <1>5, <1>6

LEMMA EnterInv ==
  ASSUME Counting, TypeOK, TypeOK', IInv, NEW c \in Callers, Enter(c)
  PROVE  IInv'
  <1>0. PICK i \in mine[c] : occ' = [occ EXCEPT ![i] = @ + 1] BY DEF Enter
  <1> USE DEF Free, Building, Evicting, Admitted, Looking
  <1>1. /\ Others(c) /\ pc[c] = "holding" /\ pc'[c] = "entered" /\ mine'[c] = mine[c]
        /\ UNCHANGED <<nextID, life, keyOf, reserved, closes, fresh, same>>
    BY DEF Enter, Goto, Others, poolVars, versionVars, TypeOK, CallType
  <1>2. i \in Ids /\ mine[c] = {i} /\ life[i] = "active"
    BY <1>1, OwnedLife DEF IInv, TypeOK, CallType
  <1>3. occ'[i] = occ[i] + 1 /\ \A j \in Ids \ {i} : occ'[j] = occ[j]
    BY <1>0, <1>2 DEF TypeOK, EntryType
  <1>4. DOMAIN seen'[c] = {} BY <1>1 DEF Enter, IInv, StaleInv
  <1>5. ASSUME NEW j \in Ids PROVE Load(j)' = Load(j)
    <2>1. CASE j = i
      <3>1. c \in Pending(j) /\ c \notin Pending(j)' BY <1>1, <1>2, <2>1 DEF Pending
      <3> QED BY SMT, <1>1, <1>3, <2>1, <3>1, PendingStep DEF Load, TypeOK, EntryType
    <2>2. CASE j # i
      <3>1. c \notin Pending(j) /\ c \notin Pending(j)' BY <1>1, <1>2, <2>2 DEF Pending
      <3> QED BY <1>1, <1>3, <2>2, <3>1, PendingStep DEF Load
    <2> QED BY <2>1, <2>2
  <1>6. IdInv' BY <1>1, <1>2, <1>3 DEF IInv, IdInv
  <1>7. OwnInv' BY <1>1, <1>2, OwnStep DEF IInv
  <1>8. ReservedExact'
    <2>1. ASSUME NEW j \in Ids PROVE c \in Holders(j)' <=> c \in Holders(j)
      BY <1>1 DEF Holders
    <2> QED BY <1>1, <2>1, HoldersStep DEF IInv, ReservedExact
  <1>9. StaleInv'
    <2>1. ASSUME NEW j \in Ids \ {}, Active(j)'
          PROVE  Active(j) /\ Load(j)' + reserved[j] <= Load(j) + reserved'[j]
      BY SMT, <1>1, <1>5, <2>1, LoadType DEF Active, TypeOK, EntryType
    <2>2. \A d \in Callers \ {c} : fresh'[d] \subseteq fresh[d] \ {} BY <1>1
    <2> QED BY <1>1, <1>4, <2>1, <2>2, StaleStep DEF IInv
  <1>10. WithinCapacity' BY <1>1, <1>5 DEF IInv, WithinCapacity, Load, Active
  <1>11. SweepInv'
    <2> SUFFICES ASSUME NEW d \in Callers, pc'[d] = "sweep", NEW j \in mine'[d] PROVE occ'[j] = 0
      BY DEF SweepInv
    <2>1. pc[d] = "sweep" /\ j \in mine[d] /\ j \in Ids BY <1>1 DEF Others, TypeOK, CallType
    <2>2. j # i BY <1>2, <2>1, OwnedLife DEF IInv
    <2> QED BY <1>3, <2>1, <2>2 DEF IInv, SweepInv
  <1>12. VersionInv' BY <1>1, VersionKept DEF IInv
  <1>13. OneBuild' BY <1>1, BuildStep DEF IInv
  <1> QED BY <1>6, <1>7, <1>8, <1>9, <1>10, <1>11, <1>12, <1>13 DEF IInv

LEMMA ReleaseInv ==
  ASSUME Counting, TypeOK, TypeOK', IInv, NEW c \in Callers, Release(c)
  PROVE  IInv'
  <1>0. PICK i \in Ids :
          /\ \/ pc[c] \in {"holding", "entered"} /\ i \in mine[c]
             \/ pc[c] = "idle" /\ reserved[i] = 0
          /\ IF CanRelease(i)
             THEN /\ reserved' = [reserved EXCEPT ![i] = @ - 1]
                  /\ UNCHANGED <<nextID, life, keyOf, pinned, empty>>
                  /\ Bump({i}, {keyOf[i]})
             ELSE UNCHANGED <<poolVars, versionVars>>
    BY DEF Release
  <1> USE DEF Free, Building, Evicting, Admitted, Looking
  <1>1. /\ Others(c) /\ pc'[c] = "idle" /\ mine'[c] = {} /\ DOMAIN seen'[c] = {}
        /\ UNCHANGED <<occ, closes>>
    BY FinishFact DEF Release, NoFcn, appVars
  <1>2. CASE pc[c] = "idle"
    <2>1. ~CanRelease(i) BY SMT, <1>0, <1>2 DEF CanRelease
    <2>2. UNCHANGED <<poolVars, versionVars>> BY <1>0, <2>1
    <2>3. UNCHANGED <<nextID, life, keyOf, reserved, occ, closes, fresh, same>>
      BY <1>1, <2>2 DEF poolVars, versionVars
    <2>4. pc[c] \in Free /\ pc'[c] \in Free BY <1>1, <1>2
    <2> QED BY <1>1, <2>3, <2>4, QuietInv
  <1>3. CASE pc[c] \in Admitted
    <2>1. mine[c] = {i} /\ life[i] = "active" BY <1>0, <1>3, OwnedLife DEF IInv
    <2>2. c \in Holders(i) /\ c \notin Holders(i)' BY <1>1, <1>3, <2>1 DEF Holders
    <2>3. CanRelease(i)
      BY SMT, <1>1, <2>1, <2>2, HoldersStep DEF CanRelease, Active, IInv, ReservedExact
    <2>4. /\ UNCHANGED <<nextID, life, keyOf>>
          /\ reserved'[i] + 1 = reserved[i] /\ \A j \in Ids \ {i} : reserved'[j] = reserved[j]
      BY SMT, <1>0, <2>3 DEF CanRelease, TypeOK, EntryType
    <2>5. /\ \A d \in Callers : fresh'[d] \subseteq fresh[d] \ {i}
          /\ \A d \in same' : d \in same \/ Group(want[d][1])' = {}
      BY <1>0, <2>3, BumpFact
    <2>6. ASSUME NEW j \in Ids PROVE Load(j)' <= Load(j)
      <3>1. c \notin Pending(j)' BY <1>1 DEF Pending
      <3> QED BY SMT, <1>1, <3>1, PendingStep DEF Load, TypeOK, EntryType
    <2>7. IdInv' BY <1>1, <2>4 DEF IInv, IdInv
    <2>8. OwnInv' BY <1>1, <1>3, <2>4, OwnStep DEF IInv
    <2>9. ReservedExact'
      <3>1. ASSUME NEW j \in Ids \ {i} PROVE reserved'[j] = Cardinality(Holders(j)')
        <4>1. c \notin Holders(j) /\ c \notin Holders(j)' BY <1>1, <2>1 DEF Holders
        <4> QED BY <1>1, <2>4, <4>1, HoldersStep DEF IInv, ReservedExact
      <3>2. reserved'[i] = Cardinality(Holders(i)')
        <4>1. Cardinality(Holders(i)') + 1 = Cardinality(Holders(i)) BY <1>1, <2>2, HoldersStep
        <4>2. Cardinality(Holders(i)') \in Nat BY <1>1, HoldersStep
        <4> QED BY SMT, <2>4, <4>1, <4>2 DEF IInv, ReservedExact, TypeOK, EntryType
      <3> QED BY <3>1, <3>2 DEF ReservedExact
    <2>10. StaleInv'
      <3>1. ASSUME NEW j \in Ids \ {i}, Active(j)'
            PROVE  Active(j) /\ Load(j)' + reserved[j] <= Load(j) + reserved'[j]
        <4>1. Load(j)' \in Nat BY SMT, <1>1, PendingStep DEF Load, TypeOK, EntryType
        <4> QED BY SMT, <2>4, <2>6, <3>1, <4>1, LoadType DEF Active, TypeOK, EntryType
      <3> QED BY <1>1, <2>5, <3>1, StaleStep DEF IInv
    <2>11. WithinCapacity'
      <3>1. ASSUME NEW j \in Ids, Active(j)' PROVE Load(j)' <= HardCap
        <4>1. Load(j) <= HardCap BY <2>4, <3>1 DEF IInv, WithinCapacity, Load, Active
        <4>2. Load(j)' \in Nat BY SMT, <1>1, PendingStep DEF Load, TypeOK, EntryType
        <4> QED BY SMT, <2>6, <4>1, <4>2, LoadType, PoolAssumption
      <3> QED BY <3>1 DEF WithinCapacity, Load
    <2>12. SweepInv' BY <1>1 DEF IInv, SweepInv, Others
    <2>13. VersionInv' BY <1>1, <2>4, <2>5, VersionKept DEF IInv
    <2>14. OneBuild' BY <1>1, <2>4, BuildStep DEF IInv
    <2> QED BY <2>7, <2>8, <2>9, <2>10, <2>11, <2>12, <2>13, <2>14 DEF IInv
  <1> QED BY <1>0, <1>2, <1>3

LEMMA LeaveInv == Counting /\ TypeOK /\ TypeOK' /\ IInv /\ Leave => IInv'
  <1> SUFFICES ASSUME Counting, TypeOK, TypeOK', IInv, Leave PROVE IInv' OBVIOUS
  <1>1. PICK i \in Ids : occ[i] > 0 /\ occ' = [occ EXCEPT ![i] = @ - 1] BY DEF Leave
  <1>2. /\ UNCHANGED <<nextID, life, keyOf, reserved, closes, fresh, same>>
        /\ UNCHANGED <<pc, want, snap, seen, creating, mine>>
    BY DEF Leave, poolVars, versionVars, callVars
  <1>3. \A j \in Ids : occ'[j] <= occ[j] /\ (occ[j] = 0 => occ'[j] = 0)
    BY SMT, <1>1 DEF TypeOK, EntryType
  <1>4. ASSUME NEW j \in Ids
        PROVE  /\ Load(j)' <= Load(j) /\ Load(j)' \in Nat
               /\ Cardinality(Holders(j)') = Cardinality(Holders(j))
    <2>1. Pending(j)' = Pending(j) /\ Holders(j)' = Holders(j) BY <1>2 DEF Pending, Holders
    <2> QED BY SMT, <1>3, <2>1, LoadType DEF Load, TypeOK, EntryType
  <1>5. IdInv' BY <1>2, <1>3 DEF IInv, IdInv
  <1>6. OwnInv' BY <1>2 DEF IInv, OwnInv, InHand, Active
  <1>7. ReservedExact' BY <1>2, <1>4 DEF IInv, ReservedExact
  <1>8. StaleInv'
    <2>1. ASSUME NEW d \in Callers, pc'[d] \notin Looking PROVE DOMAIN seen'[d] = {}
      BY <1>2, <2>1 DEF IInv, StaleInv
    <2>2. ASSUME NEW d \in Callers, pc'[d] \in Looking, NEW j \in fresh'[d] \cap DOMAIN seen'[d],
                 Active(j)'
          PROVE  Load(j)' <= seen'[d][j] + reserved'[j]
      <3>1. j \in Ids /\ seen[d][j] \in Nat /\ reserved[j] \in Nat
        BY <1>2, <2>2 DEF TypeOK, EntryType, CallType, Numbers
      <3>2. Load(j) <= seen[d][j] + reserved[j]
        BY <1>2, <2>2 DEF IInv, StaleInv, Active
      <3> QED BY SMT, <1>2, <1>4, <3>1, <3>2, LoadType
    <2> QED BY <2>1, <2>2 DEF StaleInv
  <1>9. WithinCapacity'
    <2>1. ASSUME NEW j \in Ids, Active(j)' PROVE Load(j)' <= HardCap
      <3>1. Load(j) <= HardCap BY <1>2, <2>1 DEF IInv, WithinCapacity, Load, Active
      <3> QED BY SMT, <1>4, <3>1, LoadType, PoolAssumption
    <2> QED BY <2>1 DEF WithinCapacity, Load
  <1>10. SweepInv' BY <1>2, <1>3 DEF IInv, SweepInv, TypeOK, CallType
  <1>11. VersionInv' BY <1>2 DEF IInv, VersionInv, Group, Active
  <1>12. OneBuild' BY <1>2 DEF IInv, OneBuild
  <1> QED BY <1>5, <1>6, <1>7, <1>8, <1>9, <1>10, <1>11, <1>12 DEF IInv

-----------------------------------------------------------------------------
(* The actions in terms of the steps above *)

LEMMA TakeCandidateInv ==
  ASSUME Counting, TypeOK, TypeOK', IInv, NEW c \in Callers, TakeCandidate(c)
  PROVE  IInv'
  <1>1. PICK cand \in Candidates(c) :
          IF NotStale(c, cand[1]) /\ seen[c][cand[1]] + reserved[cand[1]] < cand[2]
          THEN /\ Reserve(cand[1]) /\ Finish(c, "holding", {cand[1]})
               /\ Bump({cand[1]}, {keyOf[cand[1]]})
          ELSE Retry(c, "again", 0)
    BY DEF TakeCandidate
  <1>2. pc[c] = "measure" /\ DOMAIN seen[c] = DOMAIN snap[c] /\ UNCHANGED appVars
    BY DEF TakeCandidate, Measured
  <1>3. CASE Retry(c, "again", 0) BY <1>2, <1>3, RetryInv
  <1>4. CASE /\ NotStale(c, cand[1]) /\ seen[c][cand[1]] + reserved[cand[1]] < cand[2]
             /\ Reserve(cand[1]) /\ Finish(c, "holding", {cand[1]})
             /\ Bump({cand[1]}, {keyOf[cand[1]]})
    <2>1. PICK i \in Ids : i = cand[1] BY CandidateFact
    <2>2. i \in DOMAIN seen[c] /\ cand[2] \in {SoftCap, HardCap} BY <1>2, <2>1, CandidateFact
    <2>3. Active(i) /\ i \in fresh[c] BY <1>4, <2>1 DEF NotStale
    <2>4. Load(i) <= seen[c][i] + reserved[i] BY <1>2, <2>2, <2>3 DEF IInv, StaleInv, Looking
    <2>5. seen[c][i] \in Nat /\ reserved[i] \in Nat
      BY <2>2 DEF TypeOK, EntryType, CallType, Numbers
    <2>6. Load(i) < HardCap
      BY SMT, <1>4, <2>1, <2>2, <2>4, <2>5, LoadType, PoolAssumption
    <2>7. pc[c] \in Free BY <1>2 DEF Free, Looking
    <2> QED BY <1>2, <1>4, <2>1, <2>3, <2>6, <2>7, ReserveInv
  <1> QED BY <1>1, <1>3, <1>4

LEMMA NoCandidateInv ==
  ASSUME Counting, TypeOK, TypeOK', IInv, NEW c \in Callers, NoCandidate(c)
  PROVE  IInv'
  <1>1. pc[c] = "measure" /\ UNCHANGED appVars BY DEF NoCandidate, Measured
  <1>2. CASE Retry(c, "again", 0) BY <1>1, <1>2, RetryInv
  <1>3. CASE creating[c] # 0 /\ Retry(c, "wait", creating[c]) BY <1>1, <1>3, RetryInv
  <1>4. CASE /\ SameVersion(c) /\ creating[c] = 0
             /\ NewEntry(want[c][1], FALSE, 1)
             /\ Finish(c, "build", {nextID + 1})
             /\ Bump({nextID + 1}, {want[c][1]})
    <2>1. PICK k \in Keys : k = want[c][1] BY DEF TypeOK, CallType
    <2>2. \A i \in Group(k) : Active(i)
      BY <1>1, <1>4, <2>1 DEF IInv, VersionInv, SameVersion
    <2>3. pc[c] \in Free /\ "build" \in Building BY <1>1 DEF Free, Looking, Building
    <2>4. 1 \in {0, 1} /\ FALSE \in BOOLEAN /\ "build" # "add" OBVIOUS
    <2> QED BY <1>1, <1>4, <2>1, <2>2, <2>3, <2>4, CreateInv
  <1> QED BY <1>2, <1>3, <1>4 DEF NoCandidate

LEMMA AddInv ==
  ASSUME Counting, TypeOK, TypeOK', IInv, NEW c \in Callers, Add(c)
  PROVE  IInv'
  <1>1. PICK k \in Keys, pin \in BOOLEAN, r \in {0, 1} :
          /\ NewEntry(k, pin, r)
          /\ Finish(c, IF r = 1 THEN "addReserved" ELSE "add", {nextID + 1})
          /\ Bump({nextID + 1}, {k})
    BY DEF Add
  <1>2. PICK l \in Building : l = IF r = 1 THEN "addReserved" ELSE "add" BY DEF Building
  <1>3. (r = 1 <=> l # "add") /\ l # "build" BY <1>2
  <1>4. pc[c] \in Free /\ UNCHANGED appVars BY DEF Add, Free
  <1>5. Finish(c, l, {nextID + 1}) BY <1>1, <1>2
  <1> QED BY <1>1, <1>3, <1>4, <1>5, CreateInv

LEMMA ReserveCheckedInv ==
  ASSUME Counting, TypeOK, TypeOK', IInv, NEW c \in Callers, ReserveChecked(c)
  PROVE  IInv'
  <1>1. PICK i \in Ids :
          /\ Active(i)
          /\ occ[i] + reserved[i] < HardCap
          /\ Reserve(i)
          /\ Finish(c, "holding", {i})
          /\ Bump({i}, {keyOf[i]})
    BY DEF ReserveChecked
  <1>2. pc[c] \in Free /\ UNCHANGED appVars BY DEF ReserveChecked, Free
  <1>3. Load(i) < HardCap
    BY SMT, <1>1, PendingReserved, PoolAssumption DEF Load, IInv, TypeOK, EntryType
  <1> QED BY <1>1, <1>2, <1>3, ReserveInv

LEMMA FailCreationInv ==
  ASSUME Counting, TypeOK, TypeOK', IInv, NEW c \in Callers, FailCreation(c)
  PROVE  IInv'
  <1>1. PICK i \in mine[c] : Discard(i) /\ Finish(c, "idle", {}) /\ Bump({i}, {keyOf[i]})
    BY DEF FailCreation
  <1>2. pc[c] \in Building /\ closes' = closes BY DEF FailCreation, Building
  <1>3. Others(c) /\ pc'[c] = "idle" /\ DOMAIN seen'[c] = {} BY <1>1, FinishFact DEF NoFcn
  <1>4. /\ \A d \in Callers \ {c} : fresh'[d] \subseteq fresh[d]
        /\ \A d \in same' \ {c} : d \in same \/ Group(want[d][1])' = {}
    BY <1>1, BumpFact
  <1> QED BY <1>1, <1>2, <1>3, <1>4, DiscardInv

LEMMA EvictInv ==
  ASSUME Counting, TypeOK, TypeOK', IInv, NEW c \in Callers, Evict(c)
  PROVE  IInv'
  <1>1. PICK i \in mine[c] :
          /\ closes' = [closes EXCEPT ![i] = @ + 1]
          /\ Discard(i)
          /\ IF mine[c] = {i}
             THEN Finish(c, "idle", {})
             ELSE /\ mine' = [mine EXCEPT ![c] = @ \ {i}]
                  /\ UNCHANGED <<pc, want, snap, seen, creating>>
    BY DEF Evict
  <1>2. pc[c] \in Evicting /\ UNCHANGED <<fresh, same>> BY DEF Evict, Evicting, versionVars
  <1>3. CASE mine[c] = {i}
    <2>1. Others(c) /\ pc'[c] = "idle" /\ DOMAIN seen'[c] = {} BY <1>1, <1>3, FinishFact DEF NoFcn
    <2> QED BY <1>1, <1>2, <2>1, DiscardInv
  <1>4. CASE mine[c] # {i}
    <2>1. Others(c) /\ pc'[c] = pc[c] /\ mine'[c] \subseteq mine[c] \ {i} /\ seen'[c] = seen[c]
      BY <1>1, <1>4 DEF Others, TypeOK, CallType
    <2>2. DOMAIN seen'[c] = {} BY <1>2, <2>1 DEF IInv, StaleInv, Evicting, Looking
    <2> QED BY <1>1, <1>2, <2>1, <2>2, DiscardInv
  <1> QED BY <1>3, <1>4

-----------------------------------------------------------------------------
(* Types *)

LEMMA AnyKeyType == AnyKey \in Keys
  BY PoolAssumption DEF AnyKey

LEMMA InitType == Init => TypeOK
  <1> SUFFICES ASSUME Init PROVE TypeOK OBVIOUS
  <1>1. EntryType BY SMT, AnyKeyType, PoolAssumption DEF Init, EntryType, Ids
  <1>2. VersionType BY DEF Init, VersionType
  <1>3. CallType BY AnyKeyType DEF Init, CallType, Labels, Free, NoFcn, Numbers
  <1> QED BY <1>1, <1>2, <1>3 DEF TypeOK

LEMMA FinishType ==
  ASSUME CallType, NEW c \in Callers, NEW l \in Labels, NEW S \in SUBSET Ids, Finish(c, l, S)
  PROVE  CallType'
  <1>1. (pc \in [Callers -> Labels] /\ mine \in [Callers -> SUBSET Ids])'
    BY DEF CallType, Finish, Goto
  <1>2. (want \in [Callers -> Keys \X Nat])' BY AnyKeyType DEF CallType, Finish
  <1>3. (creating \in [Callers -> Ids \cup {0}])' BY DEF CallType, Finish
  <1>4. (DOMAIN snap = Callers /\ Numbers(snap))' BY DEF CallType, Finish, Numbers, NoFcn
  <1>5. (DOMAIN seen = Callers /\ Numbers(seen))' BY DEF CallType, Finish, Numbers, NoFcn
  <1> QED BY <1>1, <1>2, <1>3, <1>4, <1>5 DEF CallType

LEMMA BumpType ==
  ASSUME VersionType, NEW S, NEW K, Bump(S, K)
  PROVE  VersionType'
  BY DEF VersionType, Bump

LEMMA RetryType ==
  ASSUME TypeOK, NEW c \in Callers, NEW l \in Labels, NEW i \in Ids \cup {0}, Retry(c, l, i),
         UNCHANGED appVars
  PROVE  TypeOK'
  <1>1. EntryType' BY DEF TypeOK, EntryType, Retry, poolVars, appVars
  <1>2. VersionType' BY DEF TypeOK, VersionType, Retry
  <1>3. (pc \in [Callers -> Labels] /\ mine \in [Callers -> SUBSET Ids])'
    BY DEF TypeOK, CallType, Retry, Goto
  <1>4. (want \in [Callers -> Keys \X Nat] /\ creating \in [Callers -> Ids \cup {0}])'
    BY DEF TypeOK, CallType, Retry
  <1>5. (DOMAIN snap = Callers /\ Numbers(snap))'
    BY DEF TypeOK, CallType, Retry, Numbers, NoFcn
  <1>6. (DOMAIN seen = Callers /\ Numbers(seen))'
    BY DEF TypeOK, CallType, Retry, Numbers, NoFcn
  <1> QED BY <1>1, <1>2, <1>3, <1>4, <1>5, <1>6 DEF TypeOK, CallType

LEMMA NewEntryType ==
  ASSUME EntryType, NEW k \in Keys, NEW pin \in BOOLEAN, NEW r \in Nat, NewEntry(k, pin, r),
         UNCHANGED appVars
  PROVE  EntryType' /\ nextID + 1 \in Ids
  <1>1. nextID + 1 \in Ids /\ (nextID \in Nat /\ nextID <= MaxID)'
    BY SMT, PoolAssumption DEF EntryType, NewEntry, Ids
  <1> QED BY <1>1 DEF EntryType, NewEntry, appVars

LEMMA DiscardType ==
  ASSUME EntryType, NEW i \in Ids, Discard(i), closes' \in [Ids -> Nat]
  PROVE  EntryType'
  <1>1. (keyOf \in [Ids -> Keys])' BY AnyKeyType DEF EntryType, Discard
  <1>2. (life \in [Ids -> {"none", "creating", "active", "destroying", "gone"}])'
    BY DEF EntryType, Discard
  <1>3. (reserved \in [Ids -> Nat] /\ occ \in [Ids -> Nat])' BY DEF EntryType, Discard
  <1> QED BY <1>1, <1>2, <1>3 DEF EntryType, Discard

LEMMA SnapshotType ==
  ASSUME TypeOK, NEW c \in Callers, Snapshot(c)
  PROVE  TypeOK'
  <1>1. EntryType' BY DEF TypeOK, EntryType, Snapshot, poolVars, appVars
  <1>2. VersionType' BY DEF TypeOK, VersionType, Snapshot, Group
  <1>3. (want \in [Callers -> Keys \X Nat])'
    <2>1. CASE pc[c] = "again" BY <2>1 DEF TypeOK, CallType, Snapshot
    <2>2. CASE pc[c] = "idle"
      <3>1. PICK k \in Keys, a \in 0..nextID : want' = [want EXCEPT ![c] = <<k, a>>]
        BY <2>2 DEF Snapshot
      <3>2. a \in Nat BY SMT DEF TypeOK, EntryType
      <3> QED BY <3>1, <3>2 DEF TypeOK, CallType
    <2> QED BY <2>1, <2>2 DEF Snapshot
  <1>4. (pc \in [Callers -> Labels] /\ mine \in [Callers -> SUBSET Ids])'
    BY DEF TypeOK, CallType, Snapshot, Goto, Labels, Free, Looking
  <1>5. (creating \in [Callers -> Ids \cup {0}])' BY DEF TypeOK, CallType, Snapshot, Group
  <1>6. (DOMAIN snap = Callers /\ Numbers(snap))'
    BY DEF TypeOK, EntryType, CallType, Snapshot, Numbers, Group
  <1>7. (DOMAIN seen = Callers /\ Numbers(seen))'
    BY DEF TypeOK, CallType, Snapshot, Numbers, NoFcn
  <1> QED BY <1>1, <1>2, <1>3, <1>4, <1>5, <1>6, <1>7 DEF TypeOK, CallType

LEMMA LookType ==
  ASSUME TypeOK, NEW c \in Callers, Measure(c) \/ ReapSnapshot(c)
  PROVE  TypeOK'
  <1>1. EntryType' BY DEF TypeOK, EntryType, Measure, ReapSnapshot, poolVars, appVars
  <1>2. VersionType' BY DEF TypeOK, VersionType, Measure, ReapSnapshot, versionVars
  <1>3. (/\ pc \in [Callers -> Labels] /\ mine \in [Callers -> SUBSET Ids]
         /\ want \in [Callers -> Keys \X Nat] /\ creating \in [Callers -> Ids \cup {0}])'
    BY DEF TypeOK, CallType, Measure, ReapSnapshot, Goto, Labels, Free, Looking
  <1>4. (DOMAIN snap = Callers /\ Numbers(snap))'
    BY SMT DEF TypeOK, EntryType, CallType, Measure, ReapSnapshot, Numbers
  <1>5. (DOMAIN seen = Callers /\ Numbers(seen))'
    <2>1. CASE ReapSnapshot(c) BY <2>1 DEF TypeOK, CallType, ReapSnapshot, Numbers
    <2>2. CASE Measure(c)
      <3>1. PICK i \in DOMAIN snap[c] \ DOMAIN seen[c] :
              seen' = [seen EXCEPT ![c] = [j \in DOMAIN @ \cup {i} |-> IF j = i THEN occ[i] ELSE @[j]]]
        BY <2>2 DEF Measure
      <3>2. i \in Ids /\ occ[i] \in Nat BY DEF TypeOK, EntryType, CallType, Numbers
      <3>3. DOMAIN seen' = Callers BY <3>1 DEF TypeOK, CallType
      <3>4. ASSUME NEW d \in Callers
            PROVE  DOMAIN seen'[d] \subseteq Ids /\ \A j \in DOMAIN seen'[d] : seen'[d][j] \in Nat
        <4>1. CASE d # c BY <3>1, <4>1 DEF TypeOK, CallType, Numbers
        <4>2. CASE d = c
          <5>1. seen'[d] = [j \in DOMAIN seen[c] \cup {i} |-> IF j = i THEN occ[i] ELSE seen[c][j]]
            BY <3>1, <4>2 DEF TypeOK, CallType
          <5> QED BY <3>2, <5>1 DEF TypeOK, CallType, Numbers
        <4> QED BY <4>1, <4>2
      <3> QED BY <3>3, <3>4 DEF Numbers
    <2> QED BY <2>1, <2>2
  <1> QED BY <1>1, <1>2, <1>3, <1>4, <1>5 DEF TypeOK, CallType

LEMMA ReserveType ==
  ASSUME EntryType, NEW i \in Ids, Reserve(i), UNCHANGED appVars
  PROVE  EntryType'
  BY SMT DEF EntryType, Reserve, appVars

LEMMA AcquireType ==
  ASSUME TypeOK, NEW c \in Callers, TakeCandidate(c) \/ NoCandidate(c) \/ WaitReady(c)
  PROVE  TypeOK'
  <1> USE DEF Labels, Free, Looking, Building, Evicting, Admitted
  <1>1. ASSUME NEW l \in {"again", "wait"}, NEW i \in Ids \cup {0}, Retry(c, l, i), UNCHANGED appVars
        PROVE  TypeOK'
    BY <1>1, RetryType
  <1>2. CASE TakeCandidate(c)
    <2>1. PICK cand \in Candidates(c) :
            IF NotStale(c, cand[1]) /\ seen[c][cand[1]] + reserved[cand[1]] < cand[2]
            THEN /\ Reserve(cand[1]) /\ Finish(c, "holding", {cand[1]})
                 /\ Bump({cand[1]}, {keyOf[cand[1]]})
            ELSE Retry(c, "again", 0)
      BY <1>2 DEF TakeCandidate
    <2>2. CASE Retry(c, "again", 0) BY <1>1, <1>2, <2>2 DEF TakeCandidate
    <2>3. CASE /\ Reserve(cand[1]) /\ Finish(c, "holding", {cand[1]})
               /\ Bump({cand[1]}, {keyOf[cand[1]]})
      <3>1. EntryType' BY <1>2, <2>3, CandidateFact, ReserveType DEF TypeOK, TakeCandidate
      <3>2. VersionType' BY <2>3, BumpType DEF TypeOK
      <3>3. CallType' BY SMT, <2>3, CandidateFact, FinishType DEF TypeOK
      <3> QED BY <3>1, <3>2, <3>3 DEF TypeOK
    <2> QED BY <2>1, <2>2, <2>3
  <1>3. CASE NoCandidate(c)
    <2>1. CASE Retry(c, "again", 0) BY <1>1, <1>3, <2>1 DEF NoCandidate
    <2>2. CASE Retry(c, "wait", creating[c])
      BY <1>1, <1>3, <2>2 DEF NoCandidate, TypeOK, CallType
    <2>3. CASE /\ NewEntry(want[c][1], FALSE, 1) /\ Finish(c, "build", {nextID + 1})
               /\ Bump({nextID + 1}, {want[c][1]})
      <3>0. want[c][1] \in Keys BY DEF TypeOK, CallType
      <3>1. EntryType' /\ nextID + 1 \in Ids
        BY <1>3, <2>3, <3>0, NewEntryType DEF TypeOK, NoCandidate
      <3>2. VersionType' BY <2>3, BumpType DEF TypeOK
      <3>3. CallType' BY <2>3, <3>1, FinishType DEF TypeOK
      <3> QED BY <3>1, <3>2, <3>3 DEF TypeOK
    <2> QED BY <1>3, <2>1, <2>2, <2>3 DEF NoCandidate
  <1>4. CASE WaitReady(c) BY <1>1, <1>4 DEF WaitReady
  <1> QED BY <1>2, <1>3, <1>4

LEMMA ReturnType ==
  ASSUME TypeOK, EntryType', NEW c \in Callers, NEW l \in Labels, NEW S \in SUBSET Ids, Finish(c, l, S),
         VersionType'
  PROVE  TypeOK'
  BY FinishType DEF TypeOK

LEMMA BuilderType ==
  ASSUME TypeOK, NEW c \in Callers, Add(c) \/ FinishCreation(c) \/ FailCreation(c)
  PROVE  TypeOK'
  <1> USE DEF Labels, Free, Looking, Building, Evicting, Admitted
  <1>1. CASE Add(c)
    <2>1. PICK k \in Keys, pin \in BOOLEAN, r \in {0, 1} :
            /\ NewEntry(k, pin, r)
            /\ Finish(c, IF r = 1 THEN "addReserved" ELSE "add", {nextID + 1})
            /\ Bump({nextID + 1}, {k})
      BY <1>1 DEF Add
    <2>2. EntryType' /\ nextID + 1 \in Ids BY <1>1, <2>1, NewEntryType DEF TypeOK, Add
    <2>3. VersionType' BY <2>1, BumpType DEF TypeOK
    <2> QED BY <2>1, <2>2, <2>3, ReturnType
  <1>2. CASE FinishCreation(c)
    <2>1. PICK i \in mine[c] :
            /\ life' = [life EXCEPT ![i] = "active"]
            /\ IF pc[c] = "add" THEN Finish(c, "idle", {}) ELSE Finish(c, "holding", {i})
            /\ UNCHANGED <<nextID, keyOf, pinned, reserved, empty>>
            /\ Bump({i}, {keyOf[i]})
      BY <1>2 DEF FinishCreation
    <2>2. i \in Ids BY DEF TypeOK, CallType
    <2>3. EntryType' BY <1>2, <2>1, <2>2 DEF TypeOK, EntryType, FinishCreation, appVars
    <2>4. VersionType' BY <2>1, BumpType DEF TypeOK
    <2> QED BY SMT, <2>1, <2>2, <2>3, <2>4, ReturnType
  <1>3. CASE FailCreation(c)
    <2>1. PICK i \in mine[c] : Discard(i) /\ Finish(c, "idle", {}) /\ Bump({i}, {keyOf[i]})
      BY <1>3 DEF FailCreation
    <2>2. i \in Ids BY DEF TypeOK, CallType
    <2>3. EntryType' BY <1>3, <2>1, <2>2, DiscardType DEF TypeOK, EntryType, FailCreation
    <2>4. VersionType' BY <2>1, BumpType DEF TypeOK
    <2> QED BY SMT, <2>1, <2>2, <2>3, <2>4, ReturnType
  <1> QED BY <1>1, <1>2, <1>3

LEMMA HolderType ==
  ASSUME TypeOK, NEW c \in Callers, ReserveChecked(c) \/ Enter(c) \/ Release(c)
  PROVE  TypeOK'
  <1> USE DEF Labels, Free, Looking, Building, Evicting, Admitted
  <1>1. CASE ReserveChecked(c)
    <2>1. PICK i \in Ids : Reserve(i) /\ Finish(c, "holding", {i}) /\ Bump({i}, {keyOf[i]})
      BY <1>1 DEF ReserveChecked
    <2>2. EntryType' BY <1>1, <2>1, ReserveType DEF TypeOK, ReserveChecked
    <2>3. VersionType' BY <2>1, BumpType DEF TypeOK
    <2> QED BY <2>1, <2>2, <2>3, ReturnType
  <1>2. CASE Enter(c)
    <2>1. PICK i \in mine[c] : occ' = [occ EXCEPT ![i] = @ + 1] BY <1>2 DEF Enter
    <2>2. EntryType' BY SMT, <1>2, <2>1 DEF TypeOK, EntryType, CallType, Enter, poolVars
    <2>3. VersionType' BY <1>2 DEF TypeOK, VersionType, Enter, versionVars
    <2>4. CallType' BY <1>2 DEF TypeOK, CallType, Numbers, Enter, Goto
    <2> QED BY <2>2, <2>3, <2>4 DEF TypeOK
  <1>3. CASE Release(c)
    <2>1. PICK i \in Ids :
            IF CanRelease(i)
            THEN /\ reserved' = [reserved EXCEPT ![i] = @ - 1]
                 /\ UNCHANGED <<nextID, life, keyOf, pinned, empty>>
                 /\ Bump({i}, {keyOf[i]})
            ELSE UNCHANGED <<poolVars, versionVars>>
      BY <1>3 DEF Release
    <2>2. Finish(c, "idle", {}) /\ UNCHANGED appVars BY <1>3 DEF Release
    <2>3. EntryType' BY SMT, <2>1, <2>2 DEF TypeOK, EntryType, CanRelease, poolVars, appVars
    <2>4. VersionType' BY <2>1, BumpType DEF TypeOK, VersionType, versionVars
    <2> QED BY SMT, <2>2, <2>3, <2>4, ReturnType
  <1> QED BY <1>1, <1>2, <1>3

LEMMA EvictType ==
  ASSUME TypeOK, NEW c \in Callers, DestroyChecked(c) \/ Evict(c)
  PROVE  TypeOK'
  <1> USE DEF Labels, Free, Looking, Building, Evicting, Admitted
  <1>1. CASE DestroyChecked(c)
    <2>1. PICK i \in Ids :
            /\ life' = [life EXCEPT ![i] = "destroying"]
            /\ UNCHANGED <<nextID, keyOf, pinned, reserved, empty>>
            /\ Finish(c, "evict", {i})
            /\ Bump({i}, {keyOf[i]})
      BY <1>1 DEF DestroyChecked
    <2>2. EntryType' BY <1>1, <2>1 DEF TypeOK, EntryType, DestroyChecked, appVars
    <2>3. VersionType' BY <2>1, BumpType DEF TypeOK
    <2> QED BY <2>1, <2>2, <2>3, ReturnType
  <1>2. CASE Evict(c)
    <2>1. PICK i \in mine[c] :
            /\ closes' = [closes EXCEPT ![i] = @ + 1]
            /\ Discard(i)
            /\ IF mine[c] = {i}
               THEN Finish(c, "idle", {})
               ELSE /\ mine' = [mine EXCEPT ![c] = @ \ {i}]
                    /\ UNCHANGED <<pc, want, snap, seen, creating>>
      BY <1>2 DEF Evict
    <2>2. i \in Ids BY DEF TypeOK, CallType
    <2>3. EntryType' BY SMT, <2>1, <2>2, DiscardType DEF TypeOK, EntryType
    <2>4. VersionType' BY <1>2 DEF TypeOK, VersionType, Evict, versionVars
    <2>5. CASE mine[c] = {i} BY SMT, <2>1, <2>3, <2>4, <2>5, ReturnType
    <2>6. CASE mine[c] # {i}
      <3>1. CallType' BY SMT, <2>1, <2>6 DEF TypeOK, CallType, Numbers
      <3> QED BY <2>3, <2>4, <3>1 DEF TypeOK
    <2> QED BY <2>5, <2>6
  <1> QED BY <1>1, <1>2

LEMMA ReapType ==
  ASSUME TypeOK, NEW c \in Callers, Reap(c)
  PROVE  TypeOK'
  <1>1. PICK over \in SUBSET (Marked(c) \ Busy(c)) : ReapOver(c, over) BY ReapFact
  <1>2. Current(c) \subseteq Ids /\ over \subseteq Ids BY ReapFact DEF Marked
  <1>3. UNCHANGED appVars BY DEF Reap
  <1>4. EntryType' BY <1>1, <1>2, <1>3 DEF TypeOK, EntryType, ReapOver, appVars
  <1>5. VersionType' BY <1>1, BumpType DEF TypeOK, ReapOver
  <1>6. CASE over = {} BY <1>1, <1>2, <1>4, <1>5, <1>6, ReturnType DEF ReapOver, Labels, Free
  <1>7. CASE over # {} BY <1>1, <1>2, <1>4, <1>5, <1>7, ReturnType DEF ReapOver, Labels, Free, Evicting
  <1> QED BY <1>6, <1>7

LEMMA LeaveType == TypeOK /\ Leave => TypeOK'
  <1> SUFFICES ASSUME TypeOK, Leave PROVE TypeOK' OBVIOUS
  <1>1. EntryType' BY SMT DEF TypeOK, EntryType, Leave, poolVars
  <1>2. VersionType' /\ CallType'
    BY DEF TypeOK, VersionType, CallType, Numbers, Leave, versionVars, callVars
  <1> QED BY <1>1, <1>2 DEF TypeOK

LEMMA TypeStep == TypeOK /\ [Next]_vars => TypeOK'
  <1> SUFFICES ASSUME TypeOK, [Next]_vars PROVE TypeOK' OBVIOUS
  <1>1. CASE UNCHANGED vars
    BY <1>1 DEF vars, poolVars, versionVars, callVars, appVars, TypeOK, EntryType, VersionType,
      CallType, Numbers
  <1>2. CASE Leave BY <1>2, LeaveType
  <1>3. ASSUME NEW c \in Callers, Step(c) \/ Invoke(c) PROVE TypeOK'
    BY <1>3, SnapshotType, LookType, AcquireType, BuilderType, HolderType, EvictType, ReapType
      DEF Step, Invoke
  <1> QED BY <1>1, <1>2, <1>3 DEF Next

\* The bookkeeping of the pool and of its callers keeps its types; in particular reservations
\* and occupancies never go negative.
THEOREM PoolTyped == Spec => []TypeOK
  BY InitType, TypeStep, PTL DEF Spec

-----------------------------------------------------------------------------
(* The invariant *)

LEMMA CallersCounted == Counting
  <1>1. Cardinality({}) = 0 BY FS_EmptySet
  <1>2. ASSUME NEW S \in SUBSET Callers
        PROVE  /\ Cardinality(S) \in Nat
               /\ Cardinality(S) = 0 => S = {}
               /\ \A T \in SUBSET S : Cardinality(T) <= Cardinality(S)
               /\ \A c \in Callers \ S : Cardinality(S \cup {c}) = Cardinality(S) + 1
    <2>1. IsFiniteSet(S) BY PoolAssumption, FS_Subset
    <2>2. Cardinality(S) \in Nat BY <2>1, FS_CardinalityType
    <2>3. Cardinality(S) = 0 => S = {} BY <2>1, FS_EmptySet
    <2>4. \A T \in SUBSET S : Cardinality(T) <= Cardinality(S) BY <2>1, FS_Subset
    <2>5. \A c \in Callers \ S : Cardinality(S \cup {c}) = Cardinality(S) + 1
      BY <2>1, FS_AddElement
    <2> QED BY <2>2, <2>3, <2>4, <2>5
  <1> QED BY <1>1, <1>2 DEF Counting

LEMMA InitInv == Init => IInv
  <1> SUFFICES ASSUME Init PROVE IInv OBVIOUS
  <1> USE DEF Init, Building, Evicting, Admitted, Looking
  <1>1. IdInv BY SMT DEF IdInv, Ids
  <1>2. OwnInv BY DEF OwnInv, InHand
  <1>3. ASSUME NEW i \in Ids PROVE Pending(i) = {} /\ Holders(i) = {} BY DEF Pending, Holders
  <1>4. ReservedExact BY <1>3, CallersCounted DEF ReservedExact, Counting
  <1>5. StaleInv BY DEF StaleInv, NoFcn
  <1>6. WithinCapacity BY DEF WithinCapacity, Active
  <1>7. SweepInv /\ OneBuild BY DEF SweepInv, OneBuild
  <1>8. VersionInv BY DEF VersionInv
  <1> QED BY <1>1, <1>2, <1>4, <1>5, <1>6, <1>7, <1>8 DEF IInv

LEMMA InvStep == TypeOK /\ TypeOK' /\ IInv /\ [Next]_vars => IInv'
  <1> SUFFICES ASSUME TypeOK, TypeOK', IInv, [Next]_vars PROVE IInv' OBVIOUS
  <1>1. CASE UNCHANGED vars
    <2> USE <1>1 DEF vars, poolVars, versionVars, callVars, appVars, IInv
    <2>1. IdInv' /\ SweepInv' /\ OneBuild' BY SMT DEF IdInv, SweepInv, OneBuild
    <2>2. OwnInv' BY DEF OwnInv, InHand, Active
    <2>3. ReservedExact' BY DEF ReservedExact, Holders
    <2>4. StaleInv' BY DEF StaleInv, Load, Pending, Active
    <2>5. WithinCapacity' BY DEF WithinCapacity, Pending, Active
    <2>6. VersionInv' BY DEF VersionInv, Group, Active
    <2> QED BY <2>1, <2>2, <2>3, <2>4, <2>5, <2>6
  <1>2. CASE Leave BY <1>2, CallersCounted, LeaveInv
  <1>3. ASSUME NEW c \in Callers, WaitReady(c) PROVE IInv'
    BY <1>3, CallersCounted, RetryInv DEF WaitReady
  <1>4. ASSUME NEW c \in Callers, Step(c) PROVE IInv'
    BY <1>3, <1>4, CallersCounted, SnapshotInv, MeasureInv, TakeCandidateInv, NoCandidateInv, PublishInv,
      FailCreationInv, ReapInv, EvictInv DEF Step
  <1>5. ASSUME NEW c \in Callers, Invoke(c) PROVE IInv'
    BY <1>5, CallersCounted, SnapshotInv, AddInv, ReserveCheckedInv, EnterInv, ReleaseInv, DestroyInv,
      ReapSnapshotInv DEF Invoke
  <1> QED BY <1>1, <1>2, <1>4, <1>5 DEF Next

LEMMA Invariance == Spec => [](TypeOK /\ IInv)
  <1>1. Init => TypeOK /\ IInv BY InitType, InitInv
  <1>2. (TypeOK /\ IInv) /\ [Next]_vars => (TypeOK /\ IInv)' BY TypeStep, InvStep
  <1> QED BY <1>1, <1>2, PTL DEF Spec

\* Admission never overbooks (AcquireChecked, Reserve, Release and the application that enters
\* before it releases): occupants plus admitted callers that have not entered are at most
\* hardCap, for any number of concurrent callers.
THEOREM NeverOverbooked == Spec => []WithinCapacity
  BY Invariance, PTL DEF IInv

\* The reservations of an instance are exactly the callers that build it reserved or were
\* admitted to it and have not released: none leaks and none is given back twice.
THEOREM ReservationsExact == Spec => []ReservedExact
  BY Invariance, PTL DEF IInv

\* An admitted caller finds its instance active and not closed; Close is called at most once,
\* on an instance out of the indexes; Reap evicts nobody.
THEOREM AdmittedSafe == Spec => []AdmittedInstanceLives
  <1>1. ASSUME TypeOK, IInv PROVE AdmittedInstanceLives
    <2>1. ASSUME NEW c \in Callers, pc[c] \in {"holding", "entered"}, NEW i \in mine[c]
          PROVE  Active(i) /\ closes[i] = 0
      <3>1. life[i] = "active" /\ i \in Ids
        BY <1>1, <2>1, OwnedLife DEF Admitted, IInv, TypeOK, CallType
      <3> QED BY SMT, <1>1, <3>1 DEF Active, IInv, IdInv, TypeOK, EntryType
    <2>2. \A c \in Callers : pc[c] = "sweep" => \A i \in mine[c] : occ[i] = 0
      BY <1>1 DEF IInv, SweepInv
    <2>3. \A i \in Ids : closes[i] > 0 => closes[i] = 1 /\ life[i] = "gone"
      BY <1>1 DEF IInv, IdInv
    <2> QED BY <2>1, <2>2, <2>3 DEF AdmittedInstanceLives
  <1> QED BY <1>1, Invariance, PTL

\* AcquireChecked has at most one build in progress per key, and whoever waits for a build
\* waits for an entry that somebody is still building, or whose build is over.
THEOREM BuildsOnce == Spec => []OneBuildPerKey
  <1>1. ASSUME TypeOK, IInv PROVE OneBuildPerKey
    BY <1>1 DEF OneBuildPerKey, IInv, OneBuild, OwnInv, InHand, VersionInv, Building
  <1> QED BY <1>1, Invariance, PTL
=============================================================================

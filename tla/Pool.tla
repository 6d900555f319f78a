-------------------------------- MODULE Pool --------------------------------
(***************************************************************************)
(* zInstance/pool.go: on-demand instances with admission reservations and  *)
(* idle reaping.  One action is one critical section of p.mu, one          *)
(* Occupancy call, or the return of a builder or of onEvict and Close,     *)
(* which all run outside the lock.                                         *)
(*                                                                         *)
(* A revision or key version is only ever compared with the copy a caller  *)
(* took, so the model keeps the outcome of the comparison instead of the   *)
(* counter: fresh[c] holds the ids whose revision c has seen, same the     *)
(* callers whose key version is current.  Ids are never reused, so the     *)
(* generation says nothing the id does not.                                *)
(***************************************************************************)
EXTENDS Naturals, FiniteSets

CONSTANTS Keys, Callers,
          MaxID,            \* bound on the number of instances ever created
          SoftCap, HardCap  \* the capacities passed to AcquireChecked

\* AcquireChecked refuses other capacities; there are finitely many goroutines.
ASSUME PoolAssumption ==
  /\ Keys # {} /\ IsFiniteSet(Callers) /\ MaxID \in Nat
  /\ SoftCap \in Nat \ {0} /\ HardCap \in Nat \ {0} /\ SoftCap <= HardCap

Ids == 1..MaxID

VARIABLES
  nextID,
  life,      \* entry.state; "gone" once evicted or when its builder failed
  keyOf, pinned, reserved,
  empty,     \* ids whose emptySince is set
  fresh, same,
  pc,        \* of each caller
  want,      \* key and affinity of the call
  snap,      \* ids in the snapshot, with the reservations seen
  seen,      \* occupancies measured so far
  creating,  \* the entry whose ready channel was in the snapshot, or 0
  mine,      \* ids the caller builds, holds a reservation on, or has to evict
  occ,       \* Occupancy of each instance, changed by the application
  closes     \* number of Close calls per instance

poolVars == <<nextID, life, keyOf, pinned, reserved, empty>>
versionVars == <<fresh, same>>
callVars == <<pc, want, snap, seen, creating, mine>>
appVars == <<occ, closes>>
vars == <<poolVars, versionVars, callVars, appVars>>

NoFcn == [x \in {} |-> 0]
AnyKey == CHOOSE k \in Keys : TRUE

Init ==
  /\ nextID = 0
  /\ life = [i \in Ids |-> "none"]
  /\ keyOf = [i \in Ids |-> AnyKey]
  /\ pinned = {} /\ empty = {}
  /\ reserved = [i \in Ids |-> 0]
  /\ fresh = [c \in Callers |-> {}] /\ same = {}
  /\ pc = [c \in Callers |-> "idle"]
  /\ want = [c \in Callers |-> <<AnyKey, 0>>]
  /\ snap = [c \in Callers |-> NoFcn] /\ seen = [c \in Callers |-> NoFcn]
  /\ creating = [c \in Callers |-> 0]
  /\ mine = [c \in Callers |-> {}]
  /\ occ = [i \in Ids |-> 0] /\ closes = [i \in Ids |-> 0]

-----------------------------------------------------------------------------
(* Bookkeeping *)

Active(i) == life[i] = "active"
\* The group p.byKey[k]: removeLocked runs where the state leaves Creating or Active.
Group(k) == {i \in Ids : life[i] \in {"creating", "active"} /\ keyOf[i] = k}

\* revision++ of the entries in S and bumpKeyVersionLocked of their keys K.  The
\* version of an empty group is dropped from the map and reads 0 again, which is
\* what a caller that saw the group empty has.
Bump(S, K) ==
  /\ fresh' = [c \in Callers |-> IF pc'[c] \in {"measure", "reap"} THEN fresh[c] \ S ELSE {}]
  /\ same' = {c \in {d \in Callers : pc'[d] = "measure"} :
                LET k == want[c][1]
                    saw0 == snap[c] = NoFcn /\ creating[c] = 0
                IN  IF k \in K THEN Group(k)' = {} /\ saw0 ELSE c \in same}

\* The call of c goes on at l, or returns with the ids in S.
Goto(c, l) == pc' = [pc EXCEPT ![c] = l]
Finish(c, l, S) ==
  /\ Goto(c, l)
  /\ mine' = [mine EXCEPT ![c] = S]
  /\ want' = [want EXCEPT ![c] = <<AnyKey, 0>>]
  /\ snap' = [snap EXCEPT ![c] = NoFcn]
  /\ seen' = [seen EXCEPT ![c] = NoFcn]
  /\ creating' = [creating EXCEPT ![c] = 0]

\* The loop of AcquireChecked starts again, or waits; the snapshot is dropped.
Retry(c, l, i) ==
  /\ Goto(c, l)
  /\ snap' = [snap EXCEPT ![c] = NoFcn]
  /\ seen' = [seen EXCEPT ![c] = NoFcn]
  /\ creating' = [creating EXCEPT ![c] = i]
  /\ fresh' = [fresh EXCEPT ![c] = {}]
  /\ same' = same \ {c}
  /\ UNCHANGED <<poolVars, want, mine>>

\* newEntryLocked
NewEntry(k, pin, r) ==
  /\ nextID < MaxID
  /\ nextID' = nextID + 1
  /\ life' = [life EXCEPT ![nextID + 1] = "creating"]
  /\ keyOf' = [keyOf EXCEPT ![nextID + 1] = k]
  /\ pinned' = IF pin THEN pinned \cup {nextID + 1} ELSE pinned
  /\ reserved' = [reserved EXCEPT ![nextID + 1] = r]
  /\ UNCHANGED empty

\* The entry is unreachable: its fields are garbage, and its occupants are out.
Discard(i) ==
  /\ life' = [life EXCEPT ![i] = "gone"]
  /\ keyOf' = [keyOf EXCEPT ![i] = AnyKey]
  /\ pinned' = pinned \ {i} /\ empty' = empty \ {i}
  /\ reserved' = [reserved EXCEPT ![i] = 0]
  /\ occ' = [occ EXCEPT ![i] = 0]
  /\ UNCHANGED nextID

\* reserved++, emptySince reset.
Reserve(i) ==
  /\ reserved' = [reserved EXCEPT ![i] = @ + 1]
  /\ empty' = empty \ {i}
  /\ UNCHANGED <<nextID, life, keyOf, pinned>>

-----------------------------------------------------------------------------
(* AcquireChecked *)

\* snapshotGroup
Snapshot(c) ==
  /\ \/ pc[c] = "idle" /\ \E k \in Keys, a \in 0..nextID : want' = [want EXCEPT ![c] = <<k, a>>]
     \/ pc[c] = "again" /\ UNCHANGED want
  /\ LET group == Group(want'[c][1])
         ready == {i \in group : Active(i)}
     IN  /\ snap' = [snap EXCEPT ![c] = [i \in ready |-> reserved[i]]]
         /\ seen' = [seen EXCEPT ![c] = NoFcn]
         /\ fresh' = [fresh EXCEPT ![c] = ready]
         /\ IF group = ready THEN creating' = [creating EXCEPT ![c] = 0]
            ELSE \E i \in group \ ready : creating' = [creating EXCEPT ![c] = i]
  /\ same' = same \cup {c}
  /\ Goto(c, "measure")
  /\ UNCHANGED <<poolVars, mine, appVars>>

\* measureOccupancy: one Occupancy call, for AcquireChecked or Reap.
Measure(c) ==
  /\ pc[c] \in {"measure", "reap"}
  /\ \E i \in DOMAIN snap[c] \ DOMAIN seen[c] :
       seen' = [seen EXCEPT ![c] = [j \in DOMAIN @ \cup {i} |-> IF j = i THEN occ[i] ELSE @[j]]]
  /\ UNCHANGED <<poolVars, versionVars, pc, want, snap, creating, mine, appVars>>

Measured(c, l) == pc[c] = l /\ DOMAIN seen[c] = DOMAIN snap[c]
Effective(c, i) == seen[c][i] + snap[c][i]

\* selectCandidate: the pairs (instance, limit) it may return; among the least
\* occupied instances the order of a map iteration decides.
Candidates(c) ==
  LET a == want[c][2]
      below == {i \in DOMAIN snap[c] : Effective(c, i) < SoftCap}
  IN  IF a \in DOMAIN snap[c] /\ Effective(c, a) < HardCap
      THEN {<<a, HardCap>>}
      ELSE {<<i, SoftCap>> : i \in {j \in below : \A h \in below : Effective(c, j) <= Effective(c, h)}}

NotStaleMutant(c, i) == Active(i)

\* The snapshot entry is still current: active, same generation, same revision.
NotStale(c, i) == Active(i) /\ i \in fresh[c]

\* The critical section that reserves the candidate, or retries.
TakeCandidate(c) ==
  /\ Measured(c, "measure")
  /\ \E cand \in Candidates(c) :
       LET i == cand[1] IN
       IF NotStale(c, i) /\ seen[c][i] + reserved[i] < cand[2]
       THEN Reserve(i) /\ Finish(c, "holding", {i}) /\ Bump({i}, {keyOf[i]})
       ELSE Retry(c, "again", 0)
  /\ UNCHANGED appVars

SameVersionMutant(c) == TRUE

SameVersion(c) == c \in same

\* No candidate: retry on a new key version, wait for a build, or build.
NoCandidate(c) ==
  /\ Measured(c, "measure")
  /\ Candidates(c) = {}
  /\ \/ ~SameVersion(c) /\ Retry(c, "again", 0)
     \/ SameVersion(c) /\ creating[c] # 0 /\ Retry(c, "wait", creating[c])
     \/ /\ SameVersion(c) /\ creating[c] = 0
        /\ NewEntry(want[c][1], FALSE, 1)
        /\ Finish(c, "build", {nextID + 1})
        /\ Bump({nextID + 1}, {want[c][1]})
  /\ UNCHANGED appVars

\* <-creating
WaitReady(c) ==
  /\ pc[c] = "wait"
  /\ life[creating[c]] # "creating"
  /\ Retry(c, "again", 0)
  /\ UNCHANGED appVars

-----------------------------------------------------------------------------
(* AddChecked, AddReservedChecked and the builders *)

Add(c) ==
  /\ pc[c] = "idle"
  /\ \E k \in Keys, pin \in BOOLEAN, r \in {0, 1} :
       /\ NewEntry(k, pin, r)
       /\ Finish(c, IF r = 1 THEN "addReserved" ELSE "add", {nextID + 1})
       /\ Bump({nextID + 1}, {k})
  /\ UNCHANGED appVars

\* build returns and finishCreation publishes the instance.
FinishCreation(c) ==
  /\ pc[c] \in {"build", "add", "addReserved"}
  /\ \E i \in mine[c] :
       /\ life' = [life EXCEPT ![i] = "active"]
       /\ IF pc[c] = "add" THEN Finish(c, "idle", {}) ELSE Finish(c, "holding", {i})
       /\ UNCHANGED <<nextID, keyOf, pinned, reserved, empty>>
       /\ Bump({i}, {keyOf[i]})
  /\ UNCHANGED appVars

\* build fails or panics and failCreation takes the placeholder back.
FailCreation(c) ==
  /\ pc[c] \in {"build", "add", "addReserved"}
  /\ \E i \in mine[c] :
       /\ Discard(i)
       /\ Finish(c, "idle", {})
       /\ Bump({i}, {keyOf[i]})
  /\ UNCHANGED closes

-----------------------------------------------------------------------------
(* Reservations and occupants *)

\* ReserveChecked applies no capacity; the application that decides to use it is
\* taken to keep to HardCap itself.
ReserveChecked(c) ==
  /\ pc[c] = "idle"
  /\ \E i \in Ids :
       /\ Active(i)
       /\ occ[i] + reserved[i] < HardCap
       /\ Reserve(i)
       /\ Finish(c, "holding", {i})
       /\ Bump({i}, {keyOf[i]})
  /\ UNCHANGED appVars

\* The application puts the admitted occupant into the instance.
Enter(c) ==
  /\ pc[c] = "holding"
  /\ \E i \in mine[c] : occ' = [occ EXCEPT ![i] = @ + 1]
  /\ Goto(c, "entered")
  /\ UNCHANGED <<poolVars, versionVars, want, snap, seen, creating, mine, closes>>

\* An occupant leaves.
Leave ==
  /\ \E i \in Ids : occ[i] > 0 /\ occ' = [occ EXCEPT ![i] = @ - 1]
  /\ UNCHANGED <<poolVars, versionVars, callVars, closes>>

CanRelease(i) == Active(i) /\ reserved[i] > 0

\* Release, after the occupant entered or gave up.  A call too many, on an entry
\* without reservations, is a no-op.
Release(c) ==
  /\ Finish(c, "idle", {})
  /\ \E i \in Ids :
       /\ \/ pc[c] \in {"holding", "entered"} /\ i \in mine[c]
          \/ pc[c] = "idle" /\ reserved[i] = 0
       /\ IF CanRelease(i)
          THEN /\ reserved' = [reserved EXCEPT ![i] = @ - 1]
               /\ UNCHANGED <<nextID, life, keyOf, pinned, empty>>
               /\ Bump({i}, {keyOf[i]})
          ELSE UNCHANGED <<poolVars, versionVars>>
  /\ UNCHANGED appVars

-----------------------------------------------------------------------------
(* DestroyChecked and Reap *)

DestroyableMutant(i) == Active(i)

\* DestroyChecked refuses placeholders and reserved instances, not occupied ones.
Destroyable(i) == Active(i) /\ reserved[i] = 0

DestroyChecked(c) ==
  /\ pc[c] = "idle"
  /\ \E i \in Ids :
       /\ Destroyable(i)
       /\ life' = [life EXCEPT ![i] = "destroying"]
       /\ UNCHANGED <<nextID, keyOf, pinned, reserved, empty>>
       /\ Finish(c, "evict", {i})
       /\ Bump({i}, {keyOf[i]})
  /\ UNCHANGED appVars

\* snapshotReapCandidates
ReapSnapshot(c) ==
  /\ pc[c] = "idle"
  /\ LET ready == {i \in Ids : Active(i) /\ i \notin pinned} IN
       /\ snap' = [snap EXCEPT ![c] = [i \in ready |-> reserved[i]]]
       /\ fresh' = [fresh EXCEPT ![c] = ready]
  /\ Goto(c, "reap")
  /\ UNCHANGED <<poolVars, same, want, seen, creating, mine, appVars>>

\* The critical section of Reap.  Busy instances lose their mark, idle ones get one,
\* and marked ones go when their grace is over, which may be the case or not.
Reap(c) ==
  /\ Measured(c, "reap")
  /\ LET current == {i \in DOMAIN snap[c] : NotStale(c, i)}
         busy == {i \in current : seen[c][i] > 0 \/ reserved[i] > 0}
         marked == empty \cap current
     IN  \E over \in SUBSET (marked \ busy) :
           /\ empty' = (empty \ (busy \cup over)) \cup (current \ (busy \cup marked))
           /\ life' = [i \in Ids |-> IF i \in over THEN "destroying" ELSE life[i]]
           /\ UNCHANGED <<nextID, keyOf, pinned, reserved>>
           /\ Finish(c, IF over = {} THEN "idle" ELSE "sweep", over)
           /\ LET touched == (busy \cap marked) \cup (current \ (busy \cup marked)) \cup over
              IN  Bump(touched, {keyOf[i] : i \in touched})
  /\ UNCHANGED appVars

\* evict: onEvict, then Close, instance by instance.
Evict(c) ==
  /\ pc[c] \in {"evict", "sweep"}
  /\ \E i \in mine[c] :
       /\ closes' = [closes EXCEPT ![i] = @ + 1]
       /\ Discard(i)
       /\ IF mine[c] = {i}
          THEN Finish(c, "idle", {})
          ELSE /\ mine' = [mine EXCEPT ![c] = @ \ {i}]
               /\ UNCHANGED <<pc, want, snap, seen, creating>>
  /\ UNCHANGED versionVars

-----------------------------------------------------------------------------
Step(c) == \/ (pc[c] = "again" /\ Snapshot(c)) \/ Measure(c) \/ TakeCandidate(c)
           \/ NoCandidate(c) \/ WaitReady(c) \/ FinishCreation(c) \/ FailCreation(c)
           \/ Reap(c) \/ Evict(c)

Invoke(c) == \/ (pc[c] = "idle" /\ Snapshot(c)) \/ Add(c) \/ ReserveChecked(c)
             \/ Enter(c) \/ Release(c) \/ DestroyChecked(c) \/ ReapSnapshot(c)

Next == Leave \/ \E c \in Callers : Step(c) \/ Invoke(c)

Spec == Init /\ [][Next]_vars

-----------------------------------------------------------------------------
\* Reservations whose occupant has not entered yet.
Pending(i) == {c \in Callers : pc[c] = "holding" /\ mine[c] = {i}}

\* Admission never overbooks: occupants plus admitted callers that have not entered
\* stay within hardCap, although Occupancy is read without the lock, may be stale when
\* the slot is taken, and an occupant enters before its reservation is released.
WithinCapacity ==
  \A i \in Ids : Active(i) => occ[i] + Cardinality(Pending(i)) <= HardCap

\* A caller that was admitted finds its instance: neither Reap nor DestroyChecked
\* overtakes an outstanding reservation.  Close is called at most once per instance, and
\* never on one still in the indexes; and Reap never takes an instance with somebody in
\* it, whatever happened between its snapshot, its Occupancy calls and its critical section.
AdmittedInstanceLives ==
  /\ \A c \in Callers :
       /\ pc[c] \in {"holding", "entered"} => \A i \in mine[c] : Active(i) /\ closes[i] = 0
       /\ pc[c] = "sweep" => \A i \in mine[c] : occ[i] = 0
  /\ \A i \in Ids : closes[i] > 0 => closes[i] = 1 /\ life[i] = "gone"

\* AcquireChecked builds one instance per key at a time: callers that find no room wait for
\* the build in progress instead of starting another.  And they are woken: the ready channel
\* they wait on is closed, or a builder that will close it, by an instance, an error or a
\* panic, is still at work.
OneBuildPerKey ==
  /\ \A c, d \in Callers : \A i \in mine[c], j \in mine[d] :
       pc[c] = "build" /\ pc[d] = "build" /\ keyOf[i] = keyOf[j] => c = d
  /\ \A c \in Callers : pc[c] = "wait" =>
       \/ life[creating[c]] # "creating"
       \/ \E d \in Callers : pc[d] \in {"build", "add", "addReserved"} /\ creating[c] \in mine[d]
=============================================================================

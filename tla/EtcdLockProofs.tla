--------------------------- MODULE EtcdLockProofs ---------------------------
(***************************************************************************)
(* For any number of lock objects and acquisitions: the guarded writes of  *)
(* successive owners carry fencing tokens that never decrease, and a loss  *)
(* of the lock is noticed, also by a Release that fails.                   *)
(*                                                                         *)
(* The argument is mutual exclusion in etcd.  A handle is an Owner when    *)
(* the comparisons of GuardedTxn would let it write, or when TryLock has   *)
(* just created its key and will read the token.  There is at most one     *)
(* Owner, because TryLock goes on only when there was no other key, and    *)
(* its key has a newer revision than any write so far.  The second result  *)
(* rests on the order in which the monitor and the Release write the one   *)
(* flag and read the other.                                                *)
(***************************************************************************)
EXTENDS EtcdLock, TLAPS

Maybe == LockHandles \cup {NoHandle}
Labels == {"free", "try", "undo", "revoke", "get", "check", "releaseTxn", "withdraw", "withdrawn"}

TypeInv ==
  /\ created \in [LockHandles -> Nat] /\ fence \in [LockHandles -> Nat]
  /\ rev \in Nat /\ fenced \in Nat
  /\ mu \in [Locks -> Labels] /\ held \in [Locks -> Maybe]
  /\ gen \in [Locks -> Nat] /\ current \in [Locks -> Maybe]
  /\ locks \in Locks \cup {NoLock} /\ unlocking \in Maybe

\* The call that holds the mutex of a lock object is about a handle of this object.
HeldInv == \A l \in Locks : mu[l] # "free" => held[l] \in LockHandles /\ held[l][1] = l

Owner(h) == Present(h) /\ (OwnsLock(h) \/ (mu[h[1]] = "get" /\ held[h[1]] = h))

TokenInv ==
  /\ fenced <= rev
  /\ \A h \in LockHandles : created[h] <= rev /\ fence[h] <= rev
  /\ \A h \in LockHandles : Owner(h) => fenced <= created[h]
  /\ \A g, h \in LockHandles : Owner(g) /\ Owner(h) => g = h

IInv == TypeInv /\ HeldInv /\ TokenInv

Kept == IInv' /\ fenced' >= fenced

-----------------------------------------------------------------------------
(* Steps that make no Owner *)

\* A handle belongs to a lock object.
LEMMA HandleLock == \A h \in LockHandles : h[1] \in Locks
BY DEF LockHandles

\* etcd deletes some keys, or none, and nobody begins to read a token.
Quiet ==
  /\ created' \in [LockHandles -> Nat] /\ \A h \in LockHandles : created'[h] \in {0, created[h]}
  /\ UNCHANGED <<rev, fenced, fence>>
  /\ \A l \in Locks : mu'[l] = "get" => mu[l] = "get" /\ held'[l] = held[l]

\* Such a step keeps the tokens in order.
LEMMA QuietKeeps ==
  ASSUME IInv, Quiet
  PROVE  TokenInv' /\ fenced' >= fenced
<1>1. \A h \in LockHandles : Owner(h)' => Owner(h) /\ created'[h] = created[h]
  BY HandleLock DEF Quiet, Owner, OwnsLock, Present, IInv, TypeInv
<1>2. \A h \in LockHandles : created'[h] <= rev /\ fence[h] <= rev
  BY DEF Quiet, IInv, TypeInv, TokenInv
<1>3. fenced' <= rev' /\ fenced' >= fenced
  BY DEF Quiet, IInv, TypeInv, TokenInv
<1>4. \A h \in LockHandles : Owner(h)' => fenced' <= created'[h]
  BY <1>1 DEF Quiet, IInv, TokenInv
<1>5. \A g, h \in LockHandles : Owner(g)' /\ Owner(h)' => g = h
  BY <1>1 DEF IInv, TokenInv
<1> QED BY <1>2, <1>3, <1>4, <1>5 DEF TokenInv, Quiet

\* What a step does to the lock objects and the lock manager
ObjectsKept ==
  /\ mu' \in [Locks -> Labels] /\ held' \in [Locks -> Maybe]
  /\ gen' \in [Locks -> Nat] /\ current' \in [Locks -> Maybe]
  /\ locks' \in Locks \cup {NoLock} /\ unlocking' \in Maybe
  /\ HeldInv'

\* The parts make the invariant.
LEMMA Together ==
  ASSUME IInv, Quiet, ObjectsKept
  PROVE  Kept
BY QuietKeeps DEF Quiet, ObjectsKept, IInv, TypeInv, Kept

\* A step that leaves the keys, the tokens and the lock objects alone keeps it.
LEMMA ObjectsUnchanged ==
  ASSUME IInv, UNCHANGED <<created, rev, fenced, fence, mu, held, gen, current>>,
         locks' \in Locks \cup {NoLock}, unlocking' \in Maybe
  PROVE  Kept
<1>1. Quiet /\ ObjectsKept
  BY DEF Quiet, ObjectsKept, IInv, TypeInv, HeldInv
<1> QED BY <1>1, Together

-----------------------------------------------------------------------------
(* The steps of a handle *)

\* Deleting a key is quiet.
LEMMA DeleteIsQuiet ==
  ASSUME IInv, NEW h \in LockHandles, DeleteKey(h)
  PROVE  created' \in [LockHandles -> Nat] /\ \A g \in LockHandles : created'[g] \in {0, created[g]}
BY DEF DeleteKey, IInv, TypeInv

\* l.current is forgotten or stays.
LEMMA ForgetKeeps ==
  ASSUME IInv, NEW h \in LockHandles, Forget(h)
  PROVE  current' \in [Locks -> Maybe]
BY HandleLock DEF Forget, IInv, TypeInv, Maybe

\* The lease ends, the monitor, and the calls of GuardedTxn and Validate
LEMMA HandleKeeps ==
  ASSUME IInv, NEW h \in LockHandles,
         \/ LeaseExpires(h) \/ LockMonitorObserves(h) \/ LockMonitorMarks(h) \/ LockMonitorClears(h)
         \/ GuardBegin(h) \/ GuardTxn(h) \/ GuardClears(h)
  PROVE  Kept
<1>1. CASE LeaseExpires(h)
  <2>1. DeleteKey(h) /\ UNCHANGED <<rev, fenced, fence, mu, held, gen, current, locks, unlocking>>
    BY <1>1 DEF LeaseExpires, EndLockLease, objectVars, handleVars, managerVars
  <2>2. Quiet /\ ObjectsKept
    BY <2>1, DeleteIsQuiet DEF Quiet, ObjectsKept, IInv, TypeInv, HeldInv
  <2> QED BY <2>2, Together
<1>2. CASE LockMonitorObserves(h) \/ LockMonitorMarks(h) \/ GuardBegin(h)
  <2>1. UNCHANGED <<created, rev, fenced, fence, mu, held, gen, current, locks, unlocking>>
    BY <1>2 DEF LockMonitorObserves, LockMonitorMarks, GuardBegin, etcdVars, objectVars, managerVars
  <2> QED BY <2>1, ObjectsUnchanged DEF IInv, TypeInv
<1>3. CASE LockMonitorClears(h) \/ GuardClears(h)
  <2>1. UNCHANGED <<created, rev, fenced, fence, mu, held, gen, locks, unlocking>> /\ Forget(h)
    BY <1>3 DEF LockMonitorClears, GuardClears, etcdVars, managerVars
  <2>2. Quiet /\ ObjectsKept
    BY <2>1, ForgetKeeps DEF Quiet, ObjectsKept, IInv, TypeInv, HeldInv
  <2> QED BY <2>2, Together
<1>4. CASE GuardTxn(h)
  <2>1. UNCHANGED <<created, rev, fence, mu, held, gen, current, locks, unlocking>>
    BY <1>4 DEF GuardTxn, objectVars, managerVars
  <2>2. CASE UNCHANGED fenced
    BY <2>1, <2>2, ObjectsUnchanged DEF IInv, TypeInv
  <2>3. CASE OwnsLock(h) /\ fenced' = fence[h]
    <3>1. Owner(h) /\ fenced' = created[h] /\ fenced' \in Nat
      BY <2>3 DEF Owner, OwnsLock, IInv, TypeInv
    <3>2. fenced' >= fenced /\ fenced' <= rev
      BY <3>1 DEF IInv, TypeInv, TokenInv
    <3>3. \A g \in LockHandles : Owner(g)' <=> Owner(g)
      BY <2>1 DEF Owner, OwnsLock, Present
    <3>4. TokenInv'
      BY <2>1, <3>1, <3>2, <3>3 DEF IInv, TypeInv, TokenInv
    <3>5. TypeInv' /\ HeldInv'
      BY <2>1, <3>1 DEF IInv, TypeInv, HeldInv
    <3> QED BY <3>2, <3>4, <3>5 DEF Kept, IInv
  <2> QED BY <1>4, <2>2, <2>3 DEF GuardTxn
<1> QED BY <1>1, <1>2, <1>3, <1>4

\* Release of a handle takes the mutex of its lock object.
LEMMA ReleaseLockedKeeps ==
  ASSUME IInv, NEW h \in LockHandles, ReleaseLocked(h),
         locks' \in Locks \cup {NoLock}, unlocking' \in Maybe
  PROVE  Kept
<1>1. /\ h[1] \in Locks /\ mu' = [mu EXCEPT ![h[1]] = "releaseTxn"] /\ held' = [held EXCEPT ![h[1]] = h]
      /\ UNCHANGED <<created, rev, fenced, fence, gen, current>>
  BY HandleLock DEF ReleaseLocked, etcdVars
<1>2. Quiet
  BY <1>1 DEF Quiet, IInv, TypeInv
<1>3. ObjectsKept
  BY <1>1 DEF ObjectsKept, IInv, TypeInv, HeldInv, Maybe, Labels
<1> QED BY <1>2, <1>3, Together

-----------------------------------------------------------------------------
(* The steps of a lock object *)

\* Acquire takes the mutex with a new handle of the lock object.
LEMMA AcquireKeeps ==
  ASSUME MaxAcquire \in Nat, IInv, NEW l \in Locks, Acquire(l)
  PROVE  Kept
<1> DEFINE h == <<l, gen[l] + 1>>
<1>1. h \in LockHandles /\ h[1] = l
  BY DEF Acquire, IInv, TypeInv, LockHandles
<1>2. UNCHANGED <<created, rev, fenced, fence, locks, unlocking>> /\ current' = [current EXCEPT ![l] = NoHandle]
  BY DEF Acquire, handleVars, managerVars
<1>3. CASE UNCHANGED <<mu, held, gen>>
  <2>1. Quiet /\ ObjectsKept
    BY <1>2, <1>3 DEF Quiet, ObjectsKept, IInv, TypeInv, HeldInv, Maybe
  <2> QED BY <2>1, Together
<1>4. CASE /\ gen' = [gen EXCEPT ![l] = @ + 1] /\ held' = [held EXCEPT ![l] = h]
           /\ \E p \in {"try", "revoke"} : mu' = [mu EXCEPT ![l] = p]
  <2>1. Quiet
    BY <1>2, <1>4 DEF Quiet, IInv, TypeInv
  <2>2. gen' \in [Locks -> Nat] /\ mu' \in [Locks -> Labels] /\ current' \in [Locks -> Maybe]
    BY <1>2, <1>4 DEF IInv, TypeInv, Labels, Maybe
  <2>3. held' \in [Locks -> Maybe] /\ HeldInv'
    BY <1>1, <1>4 DEF IInv, TypeInv, HeldInv, Maybe
  <2> QED BY <1>2, <2>1, <2>2, <2>3, Together DEF ObjectsKept, IInv, TypeInv
<1> QED BY <1>3, <1>4 DEF Acquire

\* The steps that end with the mutex free, or go on with another label than "get".
LEMMA GoesOn ==
  ASSUME IInv, NEW l \in Locks, mu[l] # "free",
         created' \in [LockHandles -> Nat], \A h \in LockHandles : created'[h] \in {0, created[h]},
         UNCHANGED <<rev, fenced, fence, gen, locks, unlocking>>, current' \in [Locks -> Maybe],
         \/ \E p \in Labels \ {"get"} : mu' = [mu EXCEPT ![l] = p] /\ UNCHANGED held
         \/ mu' = [mu EXCEPT ![l] = "free"] /\ held' = [held EXCEPT ![l] = NoHandle]
  PROVE  Kept
<1>1. Quiet
  BY DEF Quiet, IInv, TypeInv
<1>2. mu' \in [Locks -> Labels] /\ held' \in [Locks -> Maybe] /\ HeldInv'
  BY DEF IInv, TypeInv, HeldInv, Labels, Maybe
<1> QED BY <1>1, <1>2, Together DEF ObjectsKept, IInv, TypeInv

\* TryLock makes an Owner only when no key was there, and the new key is newer than every write.
LEMMA TryLockKeeps ==
  ASSUME IInv, NEW l \in Locks, TryLock(l)
  PROVE  Kept
<1>1. PICK h \in LockHandles : h = held[l] /\ h[1] = l /\ mu[l] = "try"
  BY DEF TryLock, IInv, HeldInv
<1>2. UNCHANGED <<fenced, fence, held, gen, current, locks, unlocking>>
  BY DEF TryLock, At, etcdVars, handleVars, managerVars
<1>3. CASE UNCHANGED etcdVars /\ At(l, "revoke")
  BY Zenon, <1>1, <1>2, <1>3, GoesOn DEF etcdVars, At, IInv, TypeInv, Labels
<1>4. ASSUME CreateKey(h), NEW p \in {IF NoOwner THEN "get" ELSE "undo", "revoke"}, At(l, p)
      PROVE  Kept
  <2>1. /\ created' = [created EXCEPT ![h] = rev + 1] /\ rev' = rev + 1 /\ rev' \in Nat
        /\ created' \in [LockHandles -> Nat] /\ created'[h] = rev + 1
        /\ \A g \in LockHandles \ {h} : created'[g] = created[g]
    BY <1>1, <1>4 DEF CreateKey, IInv, TypeInv
  <2>2. mu' = [mu EXCEPT ![l] = p] /\ mu' \in [Locks -> Labels] /\ mu'[l] = p
    BY <1>4 DEF At, IInv, TypeInv, Labels
  <2>3. TypeInv' /\ HeldInv'
    BY <1>1, <1>2, <2>1, <2>2 DEF IInv, TypeInv, HeldInv
  <2>4. /\ fenced' <= rev' /\ fenced' <= created'[h] /\ fenced' >= fenced
        /\ \A g \in LockHandles : created'[g] <= rev' /\ fence'[g] <= rev'
    BY <1>1, <1>2, <2>1 DEF IInv, TypeInv, TokenInv
  <2>5. CASE p = "get" /\ NoOwner
    <3>1. \A g \in LockHandles : Owner(g)' => g = h
      BY <2>1, <2>5 DEF NoOwner, Present, Owner
    <3> QED BY <2>3, <2>4, <3>1 DEF Kept, IInv, TokenInv
  <2>6. CASE p # "get"
    <3>1. ~Owner(h)'
      BY <1>1, <1>2, <2>1, <2>2, <2>6 DEF Owner, OwnsLock, IInv, TypeInv, TokenInv
    <3>2. \A g \in LockHandles \ {h} : Owner(g)' => Owner(g)
      <4> SUFFICES ASSUME NEW g \in LockHandles \ {h}, Owner(g)'
                   PROVE  Owner(g)
        OBVIOUS
      <4>1. created'[g] = created[g] /\ fence'[g] = fence[g] /\ g[1] \in Locks
        BY <1>2, <2>1, HandleLock
      <4>2. mu'[g[1]] = "get" => mu[g[1]] = "get"
        BY <2>2, <2>6, <4>1 DEF IInv, TypeInv
      <4> QED BY <1>2, <4>1, <4>2 DEF Owner, OwnsLock, Present
    <3>3. \A g \in LockHandles : Owner(g)' => Owner(g) /\ created'[g] = created[g]
      BY <2>1, <3>1, <3>2
    <3>4. TokenInv'
      BY <1>2, <2>4, <3>3 DEF IInv, TokenInv
    <3> QED BY <2>3, <2>4, <3>4 DEF Kept, IInv
  <2> QED BY <2>5, <2>6
<1> QED BY <1>1, <1>3, <1>4 DEF TryLock

\* The Get of Acquire reads the token of the key that TryLock created.
LEMMA AcquireGetKeeps ==
  ASSUME IInv, NEW l \in Locks, AcquireGet(l)
  PROVE  Kept
<1>1. PICK h \in LockHandles : h = held[l] /\ h[1] = l /\ mu[l] = "get"
  BY DEF AcquireGet, IInv, HeldInv
<1>2. UNCHANGED <<created, rev, fenced, held, gen, locks, unlocking>>
  BY DEF AcquireGet, At, etcdVars, managerVars
<1>3. CASE At(l, "revoke") /\ UNCHANGED fence
  BY Zenon, <1>1, <1>2, <1>3, GoesOn DEF At, IInv, TypeInv, Labels
<1>4. CASE /\ Present(h) /\ fence' = [fence EXCEPT ![h] = created[h]]
           /\ current' = [current EXCEPT ![l] = h] /\ mu' = [mu EXCEPT ![l] = "check"]
  <2>1. /\ TypeInv'
        /\ fence'[h] = created[h] /\ \A g \in LockHandles \ {h} : fence'[g] = fence[g]
    BY <1>1, <1>2, <1>4 DEF IInv, TypeInv, Labels, Maybe
  <2>2. HeldInv'
    BY <1>1, <1>2, <1>4 DEF IInv, TypeInv, HeldInv
  <2>3. \A g \in LockHandles : Owner(g)' => Owner(g)
    <3>1. Owner(h)
      BY <1>1, <1>4 DEF Owner
    <3>2. \A g \in LockHandles \ {h} : Owner(g)' => Owner(g)
      BY <1>2, <1>4, <2>1, HandleLock DEF Owner, OwnsLock, Present, IInv, TypeInv
    <3> QED BY <3>1, <3>2
  <2>4. TokenInv'
    BY <1>1, <1>2, <2>1, <2>3 DEF IInv, TypeInv, TokenInv
  <2> QED BY <1>2, <2>1, <2>2, <2>4 DEF Kept, IInv, TypeInv
<1> QED BY <1>1, <1>3, <1>4 DEF AcquireGet

\* The other steps of a call that holds the mutex
LEMMA ObjectKeeps ==
  ASSUME IInv, NEW l \in Locks,
         \/ TryLockUndo(l) \/ Revoke(l) \/ AcquireReturn(l)
         \/ ReleaseTxn(l) \/ ReleaseWithdraw(l) \/ ReleaseFailed(l)
  PROVE  Kept
<1> DEFINE h == held[l]
<1>0. mu[l] # "free" /\ UNCHANGED <<rev, fenced, fence, gen, locks, unlocking>>
  BY DEF TryLockUndo, Revoke, AcquireReturn, ReleaseTxn, ReleaseWithdraw, ReleaseFailed, At, EndLockLease,
         ReturnRelease, etcdVars, handleVars, managerVars
<1>1. h \in LockHandles /\ h[1] = l
  BY <1>0 DEF IInv, HeldInv
<1>2. created' \in [LockHandles -> Nat] /\ \A g \in LockHandles : created'[g] \in {0, created[g]}
  <2>1. CASE UNCHANGED created
    BY <2>1 DEF IInv, TypeInv
  <2>2. CASE DeleteKey(h)
    BY <1>1, <2>2, DeleteIsQuiet
  <2>3. CASE created' = [created EXCEPT ![h] = IF OwnsLock(h) THEN 0 ELSE @]
    BY <1>1, <2>3 DEF IInv, TypeInv
  <2> QED BY Zenon, <2>1, <2>2, <2>3
          DEF TryLockUndo, Revoke, AcquireReturn, ReleaseTxn, ReleaseWithdraw, ReleaseFailed, EndLockLease, etcdVars
<1>3. current' \in [Locks -> Maybe]
  <2>1. CASE UNCHANGED current
    BY <2>1 DEF IInv, TypeInv
  <2>2. CASE Forget(h)
    BY <1>1, <2>2, ForgetKeeps
  <2>3. CASE AcquireReturn(l)
    BY <2>3 DEF AcquireReturn, IInv, TypeInv, Maybe
  <2> QED BY Zenon, <2>1, <2>2, <2>3 DEF TryLockUndo, Revoke, ReleaseTxn, ReleaseWithdraw, ReleaseFailed, At
<1>4. \/ \E p \in Labels \ {"get"} : mu' = [mu EXCEPT ![l] = p] /\ UNCHANGED held
      \/ mu' = [mu EXCEPT ![l] = "free"] /\ held' = [held EXCEPT ![l] = NoHandle]
  <2>1. CASE TryLockUndo(l)
    BY <2>1 DEF TryLockUndo, At, Labels
  <2>2. CASE Revoke(l) \/ AcquireReturn(l) \/ ReleaseFailed(l)
    BY Zenon, <2>2 DEF Revoke, AcquireReturn, ReleaseFailed, Leave
  <2>3. CASE ReleaseTxn(l) \/ ReleaseWithdraw(l)
    BY Zenon, <2>3 DEF ReleaseTxn, ReleaseWithdraw, At, Leave, Labels
  <2> QED BY <2>1, <2>2, <2>3
<1> QED BY <1>0, <1>2, <1>3, <1>4, GoesOn

-----------------------------------------------------------------------------
(* The lock manager and the watchdog, and all steps together *)

\* They read the lock object under its mutex, and release it like any other caller.
LEMMA ManagerKeeps ==
  ASSUME IInv,
         \/ \E l \in Locks : GetLock(l)
         \/ ReleaseLock \/ ReleaseLockUnlocks \/ ReleaseLockDeletes \/ CheckLocks \/ CheckLocksReleases
  PROVE  Kept
<1>1. CASE ReleaseLockUnlocks
  <2>1. unlocking' \in Maybe /\ locks' \in Locks \cup {NoLock}
    BY <1>1 DEF ReleaseLockUnlocks, IInv, TypeInv, Maybe
  <2>2. CASE ReleaseLocked(unlocking)
    <3>1. unlocking \in LockHandles
      BY <2>2 DEF ReleaseLocked, IsValid, IInv, TypeInv, Maybe
    <3> QED BY <2>1, <2>2, <3>1, ReleaseLockedKeeps
  <2>3. CASE UNCHANGED <<etcdVars, objectVars, handleVars>>
    BY <2>1, <2>3, ObjectsUnchanged DEF etcdVars, objectVars, handleVars
  <2> QED BY <1>1, <2>2, <2>3 DEF ReleaseLockUnlocks
<1>2. CASE \/ \E l \in Locks : GetLock(l)
           \/ ReleaseLock \/ ReleaseLockDeletes \/ CheckLocks \/ CheckLocksReleases
  <2>1. UNCHANGED <<created, rev, fenced, fence, mu, held, gen, current>>
    BY <1>2 DEF GetLock, ReleaseLock, ReleaseLockDeletes, CheckLocks, CheckLocksReleases, etcdVars, objectVars,
                handleVars
  <2>2. locks' \in Locks \cup {NoLock}
    BY <1>2 DEF GetLock, ReleaseLock, ReleaseLockDeletes, CheckLocks, CheckLocksReleases, IInv, TypeInv
  <2>3. unlocking' \in Maybe
    BY <1>2 DEF GetLock, ReleaseLock, ReleaseLockDeletes, CheckLocks, CheckLocksReleases, ReleaseLockReads, IInv,
                TypeInv
  <2> QED BY <2>1, <2>2, <2>3, ObjectsUnchanged
<1> QED BY <1>1, <1>2

\* The invariant is inductive, and no step takes the fencing token of the last write back.
LEMMA StepKeeps ==
  ASSUME MaxAcquire \in Nat, IInv, [LockNext]_lockVars
  PROVE  Kept
<1>1. CASE UNCHANGED lockVars
  BY <1>1, ObjectsUnchanged DEF lockVars, etcdVars, objectVars, handleVars, managerVars, IInv, TypeInv
<1>2. ASSUME NEW h \in LockHandles, Release(h)
      PROVE  Kept
  BY <1>2, ReleaseLockedKeeps DEF Release, managerVars, IInv, TypeInv
<1>3. CASE LockNext
  BY <1>2, <1>3, HandleKeeps, AcquireKeeps, TryLockKeeps, AcquireGetKeeps, ObjectKeeps, ManagerKeeps DEF LockNext
<1> QED BY <1>1, <1>3

\* The invariant holds at the start.
LEMMA InitIInv == LockInit => IInv
<1> SUFFICES ASSUME LockInit PROVE IInv
  OBVIOUS
<1>1. TypeInv /\ HeldInv
  BY DEF LockInit, TypeInv, HeldInv, Labels, Maybe
<1>2. \A h \in LockHandles : created[h] = 0 /\ fence[h] = 0 /\ ~Owner(h)
  BY DEF LockInit, Owner, Present
<1>3. TokenInv
  BY <1>2 DEF LockInit, TokenInv
<1> QED BY <1>1, <1>3 DEF IInv

\* Guarded writes carry fencing tokens that never decrease, however many processes contend and
\* however late an owner learns that its lease is gone (ownershipComparisons in GuardedTxn).
THEOREM TokenOrder ==
  ASSUME MaxAcquire \in Nat
  PROVE  LockSpec => WritesInTokenOrder
<1>1. LockInit => IInv
  BY InitIInv
<1>2. IInv /\ [LockNext]_lockVars => IInv'
  BY StepKeeps DEF Kept
<1>3. IInv /\ [LockNext]_lockVars => [fenced' >= fenced]_lockVars
  BY StepKeeps DEF Kept
<1> QED BY <1>1, <1>2, <1>3, PTL DEF LockSpec, WritesInTokenOrder

\* At most one handle at a time passes the comparisons of GuardedTxn (mutual exclusion).
OneOwnerAtATime == \A g, h \in LockHandles : OwnsLock(g) /\ OwnsLock(h) => g = h

\* Two handles never both pass the comparisons, whoever still believes to hold the lock.
THEOREM MutualExclusion ==
  ASSUME MaxAcquire \in Nat
  PROVE  LockSpec => []OneOwnerAtATime
<1>1. LockInit => IInv
  BY InitIInv
<1>2. IInv /\ [LockNext]_lockVars => IInv'
  BY StepKeeps DEF Kept
<1>3. IInv => OneOwnerAtATime
  BY DEF IInv, TokenInv, Owner, OwnsLock, OneOwnerAtATime
<1> QED BY <1>1, <1>2, <1>3, PTL DEF LockSpec

-----------------------------------------------------------------------------
(* The monitor against a Release that fails *)

LossTypes ==
  /\ hstate \in [LockHandles -> {"none", "active", "lost", "released"}]
  /\ mon \in [LockHandles -> {"none", "watch", "observed", "clear", "done"}]
  /\ hintent \in [LockHandles -> BOOLEAN] /\ hloss \in [LockHandles -> BOOLEAN]

\* A Release of the handle holds the mutex and has not come to its end.
Releasing(h, labels) == mu[h[1]] \in labels /\ held[h[1]] = h

\* What the monitor saw is in lossObserved, the intent is announced only by a Release under way,
\* and a monitor that left the verdict to a Release did so while that Release had still to look.
LossAt(h) ==
  /\ mon[h] \in {"observed", "clear", "done"} => hloss[h]
  /\ mon[h] = "clear" => hstate[h] # "active"
  /\ hintent[h] /\ hstate[h] = "active" => Releasing(h, {"releaseTxn", "withdraw"})
  /\ mon[h] = "done" /\ hstate[h] = "active" => Releasing(h, {"releaseTxn", "withdraw", "withdrawn"})
  /\ hintent[h] => hstate[h] # "none"

\* A handle does not exist before its acquisition, nor until the Get has read its token.
FreshInv ==
  /\ \A h \in LockHandles : hstate[h] # "none" => h[2] <= gen[h[1]]
  /\ \A l \in Locks : mu[l] # "free" => held[l][2] <= gen[l]
  /\ \A l \in Locks : mu[l] \in {"try", "undo", "get"} => hstate[held[l]] = "none"

LossInv == LossTypes /\ (\A h \in LockHandles : LossAt(h)) /\ FreshInv

\* Finishing a handle makes no loss unnoticed.
LEMMA FinishLoses ==
  ASSUME LossInv, NEW h \in LockHandles, NEW s \in {"lost", "released"}, FinishLock(h, s)
  PROVE  /\ hstate' \in [LockHandles -> {"none", "active", "lost", "released"}]
         /\ hstate'[h] # "active"
         /\ \A g \in LockHandles : hstate'[g] = "none" <=> hstate[g] = "none"
         /\ \A g \in LockHandles : hstate'[g] = "active" => hstate[g] = "active"
         /\ \A g \in LockHandles \ {h} : hstate'[g] = hstate[g]
BY DEF LossInv, LossTypes, FinishLock

\* A handle to which nothing happens keeps its part.
LEMMA SameAt ==
  ASSUME NEW g \in LockHandles, LossAt(g), mu'[g[1]] = mu[g[1]], held'[g[1]] = held[g[1]],
         hstate'[g] = hstate[g], hloss'[g] = hloss[g], mon'[g] = mon[g], hintent'[g] = hintent[g]
  PROVE  LossAt(g)'
BY DEF LossAt, Releasing

\* Calls that go on, or end, while no handle begins to exist, keep FreshInv.
LEMMA FreshStays ==
  ASSUME FreshInv, UNCHANGED gen,
         \A h \in LockHandles : hstate'[h] = "none" <=> hstate[h] = "none",
         \A l \in Locks :
           mu'[l] = "free" \/ /\ mu[l] # "free" /\ held'[l] = held[l] /\ held[l] \in LockHandles
                              /\ mu'[l] \in {"try", "undo", "get"} => mu[l] \in {"try", "undo", "get"}
  PROVE  FreshInv'
<1>1. \A h \in LockHandles : hstate'[h] # "none" => h[2] <= gen'[h[1]]
  BY DEF FreshInv
<1>2. \A l \in Locks : mu'[l] # "free" => held'[l][2] <= gen'[l]
  BY DEF FreshInv
<1>3. \A l \in Locks : mu'[l] \in {"try", "undo", "get"} => hstate'[held'[l]] = "none"
  BY DEF FreshInv
<1> QED BY <1>1, <1>2, <1>3 DEF FreshInv

\* The steps of the monitor and of GuardedTxn
LEMMA HandleNotices ==
  ASSUME IInv, LossInv, NEW h \in LockHandles,
         \/ LeaseExpires(h) \/ LockMonitorObserves(h) \/ LockMonitorMarks(h) \/ LockMonitorClears(h)
         \/ GuardBegin(h) \/ GuardTxn(h) \/ GuardClears(h)
  PROVE  LossInv'
<1>0. UNCHANGED <<mu, held, gen, hintent>>
  BY DEF LeaseExpires, LockMonitorObserves, LockMonitorMarks, LockMonitorClears, GuardBegin, GuardTxn,
         GuardClears, objectVars, handleVars
<1>1. CASE UNCHANGED <<hstate, mon, hloss>>
  BY Zenon, <1>0, <1>1 DEF LossInv, LossTypes, LossAt, FreshInv, Releasing
<1>2. ASSUME UNCHANGED <<hstate, hloss>> \/ (UNCHANGED hstate /\ hloss' = [hloss EXCEPT ![h] = TRUE]),
             NEW p \in {"observed", "done"}, mon' = [mon EXCEPT ![h] = p],
             LossAt(h)'
      PROVE  LossInv'
  <2>1. LossTypes'
    BY Zenon, <1>0, <1>2 DEF LossInv, LossTypes
  <2>2. FreshInv'
    BY <1>0, <1>2 DEF LossInv, FreshInv
  <2>3. ASSUME NEW g \in LockHandles, g # h PROVE LossAt(g)'
    <3>1. hstate'[g] = hstate[g] /\ hloss'[g] = hloss[g] /\ mon'[g] = mon[g]
      BY <1>2, <2>3 DEF LossInv, LossTypes
    <3> QED BY <1>0, <3>1, SameAt DEF LossInv
  <2> QED BY <1>2, <2>1, <2>2, <2>3 DEF LossInv
<1>3. CASE LockMonitorObserves(h) \/ LockMonitorClears(h) \/ (LockMonitorMarks(h) /\ hintent[h])
  <2>1. CASE LockMonitorObserves(h)
    <3>1. UNCHANGED hstate /\ hloss'[h] = TRUE /\ mon'[h] = "observed"
      BY <2>1 DEF LockMonitorObserves, LossInv, LossTypes
    <3>2. LossAt(h)'
      BY Zenon, <1>0, <3>1 DEF LossInv, LossAt, Releasing
    <3> QED BY <1>2, <2>1, <3>2 DEF LockMonitorObserves
  <2>2. CASE LockMonitorClears(h) \/ (LockMonitorMarks(h) /\ hintent[h])
    <3>1. /\ UNCHANGED <<hstate, hloss>> /\ mon'[h] = "done" /\ mon' = [mon EXCEPT ![h] = "done"]
          /\ mon[h] = "clear" \/ (mon[h] = "observed" /\ hintent[h])
      BY Zenon, <2>2 DEF LockMonitorClears, LockMonitorMarks, LossInv, LossTypes
    <3>2. LossAt(h)'
      BY Zenon, <1>0, <3>1 DEF LossInv, LossAt, Releasing
    <3> QED BY <1>2, <3>1, <3>2
  <2> QED BY <1>3, <2>1, <2>2
<1>5. ASSUME FinishLock(h, "lost"), UNCHANGED hloss,
             \/ UNCHANGED mon
             \/ mon[h] = "observed" /\ mon' = [mon EXCEPT ![h] = "clear"]
      PROVE  LossInv'
  <2>1. LossTypes'
    BY <1>0, <1>5, FinishLoses DEF LossInv, LossTypes
  <2>2. /\ hstate'[h] # "active"
        /\ \A g \in LockHandles : hstate'[g] = "none" <=> hstate[g] = "none"
        /\ \A g \in LockHandles \ {h} : hstate'[g] = hstate[g]
    BY <1>5, FinishLoses
  <2>3. FreshInv'
    <3>1. \A l \in Locks : mu[l] # "free" => held[l] \in LockHandles
      BY DEF IInv, HeldInv
    <3> QED BY <1>0, <2>2, <3>1, FreshStays DEF LossInv
  <2>4. mon'[h] = mon[h] \/ (mon[h] = "observed" /\ mon'[h] = "clear")
    BY <1>5 DEF LossInv, LossTypes
  <2>5. LossAt(h)'
    BY Zenon, <1>0, <1>5, <2>2, <2>4 DEF LossInv, LossAt, Releasing
  <2>6. ASSUME NEW g \in LockHandles, g # h PROVE LossAt(g)'
    <3>1. mon'[g] = mon[g]
      BY <1>5, <2>6 DEF LossInv, LossTypes
    <3> QED BY Zenon, <1>0, <1>5, <2>2, <2>6, <3>1, SameAt DEF LossInv
  <2> QED BY <2>1, <2>3, <2>5, <2>6 DEF LossInv
<1> QED BY <1>1, <1>3, <1>5
        DEF LeaseExpires, LockMonitorMarks, GuardBegin, GuardTxn, GuardClears, handleVars

\* A step of the call that holds the mutex of l and leaves the lifecycle of the handles alone: it
\* goes on, or it gives the mutex back when no handle needs it to look at a loss.
LEMMA CallGoesOn ==
  ASSUME IInv, LossInv, NEW l \in Locks, mu[l] # "free", LossTypes',
         \A h \in LockHandles :
           /\ hstate'[h] = hstate[h] /\ hloss'[h] = hloss[h] /\ mon'[h] = mon[h] /\ hintent'[h] = hintent[h],
         gen' = gen,
         \/ \E p \in Labels : /\ mu' = [mu EXCEPT ![l] = p] /\ UNCHANGED held
                              /\ p \in {"try", "undo", "get"} => mu[l] \in {"try", "undo", "get"}
         \/ mu' = [mu EXCEPT ![l] = "free"] /\ held' = [held EXCEPT ![l] = NoHandle],
         mu[l] \in {"releaseTxn", "withdraw", "withdrawn"} => mu'[l] = "withdraw" /\ mu[l] = "releaseTxn"
  PROVE  LossInv'
<1>0. \A m \in Locks \ {l} : mu'[m] = mu[m] /\ held'[m] = held[m]
  BY DEF IInv, TypeInv
<1>1. FreshInv'
  <2>1. \A m \in Locks : mu[m] # "free" => held[m] \in LockHandles
    BY DEF IInv, HeldInv
  <2>2. \/ mu'[l] = "free"
        \/ held'[l] = held[l] /\ (mu'[l] \in {"try", "undo", "get"} => mu[l] \in {"try", "undo", "get"})
    BY DEF IInv, TypeInv
  <2>3. \A m \in Locks :
          mu'[m] = "free" \/ /\ mu[m] # "free" /\ held'[m] = held[m] /\ held[m] \in LockHandles
                             /\ mu'[m] \in {"try", "undo", "get"} => mu[m] \in {"try", "undo", "get"}
    BY <1>0, <2>1, <2>2
  <2> QED BY <2>3, FreshStays DEF LossInv
<1>2. ASSUME NEW g \in LockHandles PROVE LossAt(g)'
  <2>1. CASE g[1] # l
    BY <1>0, <2>1, HandleLock, SameAt DEF LossInv
  <2>2. CASE g[1] = l /\ mu[l] \in {"releaseTxn", "withdraw", "withdrawn"}
    <3>1. mu[l] = "releaseTxn" /\ mu'[l] = "withdraw" /\ held'[l] = held[l]
      BY <2>2 DEF IInv, TypeInv
    <3>2. LossAt(g)
      BY DEF LossInv
    <3> QED BY <2>2, <3>1, <3>2 DEF LossAt, Releasing
  <2>3. CASE g[1] = l /\ mu[l] \notin {"releaseTxn", "withdraw", "withdrawn"}
    <3>1. LossAt(g)
      BY DEF LossInv
    <3> QED BY <2>3, <3>1 DEF LossAt, Releasing
  <2> QED BY <2>1, <2>2, <2>3
<1> QED BY <1>1, <1>2 DEF LossInv

\* The steps of Acquire after the lease, and of the revocation
LEMMA AcquireNotices ==
  ASSUME IInv, LossInv, NEW l \in Locks,
         TryLock(l) \/ TryLockUndo(l) \/ Revoke(l) \/ AcquireReturn(l)
  PROVE  LossInv'
<1>1. UNCHANGED <<hstate, hloss, mon, hintent, gen>> /\ mu[l] \in {"try", "undo", "revoke", "check"}
  BY Zenon DEF TryLock, TryLockUndo, Revoke, AcquireReturn, At, handleVars
<1>2. \/ \E p \in Labels : /\ mu' = [mu EXCEPT ![l] = p] /\ UNCHANGED held
                           /\ p \in {"try", "undo", "get"} => mu[l] \in {"try", "undo", "get"}
      \/ mu' = [mu EXCEPT ![l] = "free"] /\ held' = [held EXCEPT ![l] = NoHandle]
  BY Zenon DEF TryLock, TryLockUndo, Revoke, AcquireReturn, At, Leave, Labels
<1>3. LossTypes'
  BY <1>1 DEF LossInv, LossTypes
<1> QED BY <1>1, <1>2, <1>3, CallGoesOn

\* The beginning of Acquire: its handle is a new one.
LEMMA NewLeaseNotices ==
  ASSUME MaxAcquire \in Nat, IInv, LossInv, NEW l \in Locks, Acquire(l)
  PROVE  LossInv'
<1>1. UNCHANGED <<hstate, hloss, mon, hintent>> /\ mu[l] = "free"
  BY DEF Acquire, handleVars
<1>2. CASE UNCHANGED <<mu, held, gen>>
  BY <1>1, <1>2 DEF LossInv, LossTypes, LossAt, FreshInv, Releasing
<1>3. ASSUME NEW p \in {"try", "revoke"}, mu' = [mu EXCEPT ![l] = p],
             gen' = [gen EXCEPT ![l] = @ + 1], held' = [held EXCEPT ![l] = <<l, gen[l] + 1>>],
             gen[l] < MaxAcquire
      PROVE  LossInv'
  <2> DEFINE n == gen[l] + 1
  <2>1. gen[l] \in Nat /\ n \in 1..MaxAcquire
    BY <1>3 DEF IInv, TypeInv
  <2>2. PICK h \in LockHandles : h = <<l, n>> /\ h[1] = l /\ h[2] = n
    <3>1. <<l, n>> \in LockHandles /\ <<l, n>>[1] = l /\ <<l, n>>[2] = n
      BY <2>1 DEF LockHandles
    <3> QED BY <3>1
  <2>3. hstate[h] = "none"
    <3>1. ~(h[2] <= gen[h[1]])
      BY <2>1, <2>2
    <3> QED BY <3>1 DEF LossInv, FreshInv
  <2>4. held'[l] = h /\ gen'[l] = n /\ mu'[l] = p
    BY <1>3, <2>2 DEF IInv, TypeInv
  <2>5. \A m \in Locks \ {l} : held'[m] = held[m] /\ gen'[m] = gen[m] /\ mu'[m] = mu[m]
    BY <1>3 DEF IInv, TypeInv
  <2>6. \A g \in LockHandles : hstate[g] # "none" => g[2] <= gen'[g[1]]
    <3> SUFFICES ASSUME NEW g \in LockHandles, hstate[g] # "none" PROVE g[2] <= gen'[g[1]]
      OBVIOUS
    <3>1. g[2] <= gen[g[1]] /\ g[2] \in Nat /\ g[1] \in Locks
      BY DEF LossInv, FreshInv, LockHandles
    <3>2. CASE g[1] = l
      BY <2>1, <2>4, <3>1, <3>2
    <3>3. CASE g[1] # l
      BY <2>5, <3>1, <3>3
    <3> QED BY <3>2, <3>3
  <2>7. FreshInv'
    <3>0. held'[l][2] <= gen'[l]
      BY <2>1, <2>2, <2>4
    <3>1. \A m \in Locks : mu'[m] # "free" => held'[m][2] <= gen'[m]
      BY <2>5, <3>0 DEF LossInv, FreshInv
    <3>2. \A m \in Locks : mu'[m] \in {"try", "undo", "get"} => hstate[held'[m]] = "none"
      BY <2>3, <2>4, <2>5 DEF LossInv, FreshInv
    <3> QED BY <1>1, <2>6, <3>1, <3>2 DEF FreshInv
  <2>8. ASSUME NEW g \in LockHandles PROVE LossAt(g)'
    BY <1>1, <2>5, HandleLock DEF LossInv, LossAt, Releasing
  <2> QED BY <1>1, <2>7, <2>8 DEF LossInv, LossTypes
<1> QED BY <1>2, <1>3 DEF Acquire

\* The Get of Acquire: the monitor of the new handle begins.
LEMMA GetNotices ==
  ASSUME IInv, LossInv, NEW l \in Locks, AcquireGet(l)
  PROVE  LossInv'
<1>1. mu[l] = "get" /\ UNCHANGED <<held, gen, hintent, hloss>>
  BY DEF AcquireGet, At
<1>2. CASE UNCHANGED <<hstate, mon>> /\ At(l, "revoke")
  <2>1. LossTypes'
    BY <1>1, <1>2 DEF LossInv, LossTypes
  <2> QED BY Zenon, <1>1, <1>2, <2>1, CallGoesOn DEF At, Labels
<1>3. ASSUME hstate' = [hstate EXCEPT ![held[l]] = "active"], mon' = [mon EXCEPT ![held[l]] = "watch"],
             mu' = [mu EXCEPT ![l] = "check"]
      PROVE  LossInv'
  <2>1. PICK h \in LockHandles : h = held[l] /\ h[1] = l
    BY <1>1 DEF IInv, HeldInv
  <2>2. hstate[h] = "none" /\ ~hintent[h] /\ h[2] <= gen[l]
    BY <1>1, <2>1 DEF LossInv, FreshInv, LossAt
  <2>3. LossTypes'
    BY <1>1, <1>3, <2>1 DEF LossInv, LossTypes
  <2>4. FreshInv'
    <3>1. hstate'[h] = "active" /\ \A g \in LockHandles \ {h} : hstate'[g] = hstate[g]
      BY <1>3, <2>1 DEF LossInv, LossTypes
    <3>2. mu'[l] = "check" /\ \A m \in Locks \ {l} : mu'[m] = mu[m]
      BY <1>3 DEF IInv, TypeInv
    <3>3. \A g \in LockHandles : hstate'[g] # "none" => g[2] <= gen'[g[1]]
      BY <1>1, <2>1, <2>2, <3>1 DEF LossInv, FreshInv
    <3>4. \A m \in Locks : mu'[m] # "free" => held'[m][2] <= gen'[m]
      BY <1>1, <3>2 DEF LossInv, FreshInv
    <3>5. \A m \in Locks \ {l} : mu[m] # "free" => held[m] \in LockHandles /\ held[m] # h
      BY <2>1 DEF IInv, HeldInv
    <3>6. \A m \in Locks : mu'[m] \in {"try", "undo", "get"} => hstate'[held'[m]] = "none"
      BY <1>1, <3>1, <3>2, <3>5 DEF LossInv, FreshInv
    <3> QED BY <3>3, <3>4, <3>6 DEF FreshInv
  <2>5. ASSUME NEW g \in LockHandles PROVE LossAt(g)'
    BY <1>1, <1>3, <2>1, <2>2, HandleLock DEF LossInv, LossTypes, LossAt, Releasing, IInv, TypeInv
  <2> QED BY <2>3, <2>4, <2>5 DEF LossInv
<1> QED BY <1>2, <1>3 DEF AcquireGet

\* A Release begins with the announcement of its intent.
LEMMA ReleaseBeginNotices ==
  ASSUME IInv, LossInv, NEW h \in LockHandles, ReleaseLocked(h)
  PROVE  LossInv'
<1>1. PICK l \in Locks : l = h[1]
  BY HandleLock
<1>2. /\ mu[l] = "free" /\ mu' = [mu EXCEPT ![l] = "releaseTxn"] /\ held' = [held EXCEPT ![l] = h]
      /\ hintent' = [hintent EXCEPT ![h] = TRUE] /\ hstate[h] = "active"
      /\ UNCHANGED <<gen, hstate, hloss, mon>>
  BY <1>1 DEF ReleaseLocked, IsValid
<1>3. LossTypes'
  BY <1>2 DEF LossInv, LossTypes
<1>4. FreshInv'
  BY <1>1, <1>2 DEF LossInv, FreshInv, IInv, TypeInv
<1>5. ASSUME NEW g \in LockHandles PROVE LossAt(g)'
  BY <1>1, <1>2, HandleLock DEF LossInv, LossTypes, LossAt, Releasing, IInv, TypeInv
<1> QED BY <1>3, <1>4, <1>5 DEF LossInv

\* A Release that has its answer finishes the handle, and one whose request failed withdraws the
\* intent first and looks at the loss after it, in this order.
LEMMA ReleaseEndNotices ==
  ASSUME IInv, LossInv, NEW l \in Locks, ReleaseTxn(l) \/ ReleaseWithdraw(l) \/ ReleaseFailed(l)
  PROVE  LossInv'
<1>0. mu[l] \in {"releaseTxn", "withdraw", "withdrawn"} /\ UNCHANGED <<gen, hloss, mon>>
  BY Zenon DEF ReleaseTxn, ReleaseWithdraw, ReleaseFailed, At
<1>1. PICK h \in LockHandles : h = held[l] /\ h[1] = l
  BY <1>0 DEF IInv, HeldInv
<1>2. ASSUME NEW s \in {"lost", "released"}, FinishLock(h, s), UNCHANGED hintent,
             \/ mu' = [mu EXCEPT ![l] = "revoke"] /\ UNCHANGED held
             \/ mu' = [mu EXCEPT ![l] = "free"] /\ held' = [held EXCEPT ![l] = NoHandle]
      PROVE  LossInv'
  <2>1. LossTypes' /\ hstate'[h] # "active" /\ \A g \in LockHandles :
          /\ hstate'[g] = "none" <=> hstate[g] = "none"
          /\ hstate'[g] = "active" => hstate[g] = "active"
          /\ g # h => hstate'[g] = hstate[g]
    BY <1>0, <1>2, FinishLoses DEF LossInv, LossTypes
  <2>2. \A m \in Locks \ {l} : mu'[m] = mu[m] /\ held'[m] = held[m]
    BY <1>2 DEF IInv, TypeInv
  <2>3. mu'[l] = "free" \/ (mu'[l] = "revoke" /\ held'[l] = held[l])
    BY <1>2 DEF IInv, TypeInv
  <2>4. FreshInv'
    <3>1. \A m \in Locks : mu[m] # "free" => held[m] \in LockHandles
      BY DEF IInv, HeldInv
    <3>2. \A m \in Locks :
            mu'[m] = "free" \/ /\ mu[m] # "free" /\ held'[m] = held[m] /\ held[m] \in LockHandles
                               /\ mu'[m] \in {"try", "undo", "get"} => mu[m] \in {"try", "undo", "get"}
      BY Zenon, <1>0, <2>2, <2>3, <3>1
    <3> QED BY <1>0, <2>1, <3>2, FreshStays DEF LossInv
  <2>5. ASSUME NEW g \in LockHandles PROVE LossAt(g)'
    <3>1. CASE g[1] # l
      BY Zenon, <1>0, <1>1, <1>2, <2>1, <2>2, <3>1, HandleLock, SameAt DEF LossInv
    <3>2. CASE g = h
      BY <1>0, <1>2, <2>1, <3>2 DEF LossInv, LossAt
    <3>3. CASE g[1] = l /\ g # h
      BY Zenon, <1>0, <1>1, <1>2, <2>1, <3>3 DEF LossInv, LossAt, Releasing
    <3> QED BY <3>1, <3>2, <3>3
  <2> QED BY <2>1, <2>4, <2>5 DEF LossInv
<1>3. CASE ReleaseTxn(l)
  <2>1. CASE FinishLock(h, "released") /\ mu' = [mu EXCEPT ![l] = "revoke"] /\ UNCHANGED held
    BY <1>2, <1>3, <2>1 DEF ReleaseTxn
  <2>2. CASE FinishLock(h, "lost") /\ Leave(l)
    BY <1>2, <1>3, <2>2 DEF ReleaseTxn, Leave
  <2>3. CASE At(l, "withdraw") /\ UNCHANGED hstate /\ mu[l] = "releaseTxn"
    <3>1. LossTypes' /\ UNCHANGED hintent
      BY Zenon, <1>0, <1>3, <2>3 DEF ReleaseTxn, LossInv, LossTypes
    <3>2. mu'[l] = "withdraw"
      BY <2>3 DEF At, IInv, TypeInv
    <3> QED BY Zenon, <1>0, <2>3, <3>1, <3>2, CallGoesOn DEF At, Labels
  <2> QED BY Zenon, <1>1, <1>3, <2>1, <2>2, <2>3 DEF ReleaseTxn
<1>4. CASE ReleaseWithdraw(l)
  <2>1. /\ mu[l] = "withdraw" /\ mu' = [mu EXCEPT ![l] = "withdrawn"] /\ UNCHANGED <<held, hstate>>
        /\ hintent' = [hintent EXCEPT ![h] = FALSE]
    BY <1>1, <1>4 DEF ReleaseWithdraw, At
  <2>2. LossTypes'
    BY <1>0, <2>1 DEF LossInv, LossTypes
  <2>3. FreshInv'
    BY Zenon, <1>0, <2>1 DEF LossInv, FreshInv, IInv, TypeInv
  <2>4. ASSUME NEW g \in LockHandles PROVE LossAt(g)'
    BY <1>0, <1>1, <2>1, HandleLock DEF LossInv, LossTypes, LossAt, Releasing, IInv, TypeInv
  <2> QED BY <2>2, <2>3, <2>4 DEF LossInv
<1>5. CASE ReleaseFailed(l)
  <2>1. /\ mu[l] = "withdrawn" /\ UNCHANGED hintent
        /\ mu' = [mu EXCEPT ![l] = "free"] /\ held' = [held EXCEPT ![l] = NoHandle]
    BY <1>5 DEF ReleaseFailed, Leave
  <2>2. CASE hloss[h]
    BY <1>1, <1>2, <1>5, <2>1, <2>2 DEF ReleaseFailed
  <2>3. CASE ~hloss[h]
    <3>1. UNCHANGED hstate /\ LossTypes'
      BY <1>0, <1>1, <1>5, <2>1, <2>3 DEF ReleaseFailed, LossInv, LossTypes
    <3>2. FreshInv'
      BY Zenon, <1>0, <2>1, <3>1 DEF LossInv, FreshInv, IInv, TypeInv
    <3>3. ASSUME NEW g \in LockHandles PROVE LossAt(g)'
      BY Zenon, <1>0, <1>1, <2>1, <2>3, <3>1, HandleLock DEF LossInv, LossAt, Releasing, IInv, TypeInv
    <3> QED BY <3>1, <3>2, <3>3 DEF LossInv
  <2> QED BY <2>2, <2>3
<1> QED BY <1>3, <1>4, <1>5

\* All steps together
LEMMA StepNotices ==
  ASSUME MaxAcquire \in Nat, IInv, LossInv, [LockNext]_lockVars
  PROVE  LossInv'
<1>1. CASE UNCHANGED <<mu, held, gen, hstate, hintent, hloss, mon>>
  BY <1>1 DEF LossInv, LossTypes, LossAt, FreshInv, Releasing
<1>2. CASE \/ UNCHANGED lockVars \/ \E l \in Locks : GetLock(l)
           \/ ReleaseLock \/ ReleaseLockDeletes \/ CheckLocks \/ CheckLocksReleases
  BY <1>1, <1>2 DEF GetLock, ReleaseLock, ReleaseLockDeletes, CheckLocks, CheckLocksReleases, lockVars,
                    objectVars, handleVars
<1>3. CASE ReleaseLockUnlocks
  <2>1. CASE ReleaseLocked(unlocking)
    <3>1. unlocking \in LockHandles
      BY <2>1 DEF ReleaseLocked, IsValid, IInv, TypeInv, Maybe
    <3> QED BY <2>1, <3>1, ReleaseBeginNotices
  <2> QED BY <1>1, <1>3, <2>1 DEF ReleaseLockUnlocks, objectVars, handleVars
<1>4. ASSUME NEW h \in LockHandles, Release(h)
      PROVE  LossInv'
  BY <1>4, ReleaseBeginNotices DEF Release
<1> QED BY <1>2, <1>3, <1>4, HandleNotices, NewLeaseNotices, AcquireNotices, GetNotices, ReleaseEndNotices
        DEF LockNext

\* A loss the monitor observes is not lost between it and a Release whose request failed: the
\* order "withdraw releaseIntent, then read lossObserved" (finishFailedReleaseLocked) against
\* "set lossObserved, then read releaseIntent" (observeOwnershipLoss) leaves no gap.
THEOREM NoLossMissed ==
  ASSUME MaxAcquire \in Nat
  PROVE  LockSpec => []LockLossNotMissed
<1>1. LockInit => IInv /\ LossInv
  <2> SUFFICES ASSUME LockInit PROVE LossInv
    BY InitIInv
  <2>1. LossTypes
    BY DEF LockInit, LossTypes
  <2>2. \A h \in LockHandles : hstate[h] = "none" /\ mon[h] = "none" /\ ~hintent[h]
    BY DEF LockInit
  <2>3. FreshInv
    BY <2>2 DEF LockInit, FreshInv
  <2> QED BY <2>1, <2>2, <2>3 DEF LossInv, LossAt
<1>2. IInv /\ LossInv /\ [LockNext]_lockVars => IInv' /\ LossInv'
  BY StepKeeps, StepNotices DEF Kept
<1>3. LossInv => LockLossNotMissed
  BY DEF LossInv, LossAt, Releasing, LockLossNotMissed
<1> QED BY <1>1, <1>2, <1>3, PTL DEF LockSpec
=============================================================================

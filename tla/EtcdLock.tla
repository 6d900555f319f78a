------------------------------ MODULE EtcdLock ------------------------------
(***************************************************************************)
(* EtcdLock, LockManager and LockWatchdog (zDistributed/etcd_lock.go,      *)
(* lock_manager.go, watchdog.go) on one resource key.  etcd and its        *)
(* concurrency.Mutex are external: the owner is the key with the smallest  *)
(* create revision, and one action is one request.  A request whose caller *)
(* got an error may have been executed or not; leases expire at any time.  *)
(* The handle <<l, n>> stands for the n-th acquisition of the lock object  *)
(* l, its lease, and its owner key, which is unique to the lease.          *)
(***************************************************************************)
EXTENDS Naturals

CONSTANTS Locks, Managed, MaxAcquire, RetryCount, MaxFailures

VARIABLES
  created,   \* the create revision of every owner key, 0 when it is absent
  rev, leases,
  fenced,    \* history: the fencing token of the last guarded write etcd executed
  mu,        \* where the call that holds l.mu is, "free" when there is none
  held,      \* the handle this call is about
  gen,       \* the acquisitions of l so far
  attempt,
  current,
  fence,     \* LockHandle.fencingToken
  hstate, hintent, hloss,   \* lockHandleLifecycle: state, releaseIntent, lossObserved
  mon,       \* where monitorOwnership of the handle is
  guard,     \* where a call of GuardedTxn or Validate with the handle is
  locks,     \* LockManager.locks: the lock object of the key, NoLock when there is none
  made,      \* the lock objects that exist: GetLock creates the Managed ones
  manager,   \* where ReleaseLock is, which holds lockMutex from its first step
  unlocking, \* the handle its Unlock has read
  failures   \* LockWatchdog.failures

NoHandle == <<0, 0>>
NoLock == 0
LockHandles == Locks \X (1..MaxAcquire)

etcdVars == <<created, rev, leases, fenced>>
objectVars == <<mu, held, gen, attempt, current>>
handleVars == <<fence, hstate, hintent, hloss, mon, guard>>
managerVars == <<locks, made, manager, unlocking, failures>>
lockVars == <<etcdVars, objectVars, handleVars, managerVars>>

LockInit ==
  /\ created = [h \in LockHandles |-> 0] /\ rev = 0 /\ leases = {} /\ fenced = 0
  /\ mu = [l \in Locks |-> "free"] /\ held = [l \in Locks |-> NoHandle]
  /\ gen = [l \in Locks |-> 0] /\ attempt = [l \in Locks |-> 0]
  /\ current = [l \in Locks |-> NoHandle]
  /\ fence = [h \in LockHandles |-> 0] /\ hstate = [h \in LockHandles |-> "none"]
  /\ hintent = [h \in LockHandles |-> FALSE] /\ hloss = [h \in LockHandles |-> FALSE]
  /\ mon = [h \in LockHandles |-> "none"] /\ guard = [h \in LockHandles |-> "idle"]
  /\ locks = NoLock /\ made = Locks \ Managed
  /\ manager = "free" /\ unlocking = NoHandle /\ failures = 0

-----------------------------------------------------------------------------
(* etcd *)

Present(h) == created[h] > 0
NoOwner == \A h \in LockHandles : ~Present(h)
DeleteKey(h) == created' = [created EXCEPT ![h] = 0]
CreateKey(h) == created' = [created EXCEPT ![h] = rev + 1] /\ rev' = rev + 1

\* ownershipComparisons
OwnsLockMutant(h) == TRUE
OwnsLock(h) == Present(h) /\ created[h] = fence[h]

EndLockLease(h) == leases' = leases \ {h} /\ DeleteKey(h) /\ UNCHANGED <<rev, fenced>>

LeaseExpires(h) ==
  /\ h \in leases
  /\ EndLockLease(h)
  /\ UNCHANGED <<objectVars, handleVars, managerVars>>

-----------------------------------------------------------------------------
(* Acquire: it holds l.mu from the beginning to the end *)

At(l, p) == mu' = [mu EXCEPT ![l] = p] /\ UNCHANGED <<held, gen, attempt, current>>
Leave(l) ==
  /\ mu' = [mu EXCEPT ![l] = "free"] /\ held' = [held EXCEPT ![l] = NoHandle]
  /\ attempt' = [attempt EXCEPT ![l] = 0]

IsValid(h) == h # NoHandle /\ hstate[h] = "active"

\* A valid current handle is returned as it is.  Otherwise Grant and NewSession.
Acquire(l) ==
  LET h == <<l, gen[l] + 1>> IN
  /\ l \in made /\ mu[l] = "free" /\ gen[l] < MaxAcquire
  /\ ~IsValid(current[l])
  /\ current' = [current EXCEPT ![l] = NoHandle]
  /\ \/ UNCHANGED <<mu, held, gen, leases>>
     \/ /\ leases' = leases \cup {h} /\ gen' = [gen EXCEPT ![l] = @ + 1]
        /\ held' = [held EXCEPT ![l] = h]
        /\ \E p \in {"try", "revoke"} : mu' = [mu EXCEPT ![l] = p]
  /\ UNCHANGED <<created, rev, fenced, attempt, handleVars, managerVars>>

\* The transaction of mutex.TryLock: it creates the key and reads the owner.
TryLock(l) ==
  LET h == held[l] IN
  /\ mu[l] = "try"
  /\ \/ /\ h \in leases /\ CreateKey(h) /\ UNCHANGED <<leases, fenced>>
        /\ \E p \in {IF NoOwner THEN "get" ELSE "undo", "revoke"} : At(l, p)
     \/ UNCHANGED etcdVars /\ At(l, "revoke")
  /\ UNCHANGED <<handleVars, managerVars>>

\* TryLock, not the owner, deletes its key; tryAcquire waits and tries again.
TryLockUndo(l) ==
  /\ mu[l] = "undo"
  /\ \/ /\ DeleteKey(held[l]) /\ attempt[l] < RetryCount
        /\ mu' = [mu EXCEPT ![l] = "try"] /\ attempt' = [attempt EXCEPT ![l] = @ + 1]
        /\ UNCHANGED <<held, gen, current>>
     \/ (DeleteKey(held[l]) \/ UNCHANGED created) /\ At(l, "revoke")
  /\ UNCHANGED <<rev, leases, fenced, handleVars, managerVars>>

\* When the mutex holder is ReleaseLock's Unlock, its result decides about the deletion.
ReturnRelease(l, ok) ==
  /\ manager' = IF manager = "wait" /\ l = locks THEN (IF ok THEN "delete" ELSE "free")
                 ELSE manager
  /\ UNCHANGED <<locks, made, unlocking, failures>>

\* revokeLease after a failure of Acquire or after Release; its error is ignored.
Revoke(l) ==
  /\ mu[l] = "revoke"
  /\ EndLockLease(held[l]) \/ UNCHANGED etcdVars
  /\ Leave(l) /\ ReturnRelease(l, TRUE)
  /\ UNCHANGED <<gen, current, handleVars>>

\* Get, newLockHandle and the start of the monitor
AcquireGet(l) ==
  LET h == held[l] IN
  /\ mu[l] = "get"
  /\ \/ /\ Present(h)
        /\ fence' = [fence EXCEPT ![h] = created[h]]
        /\ hstate' = [hstate EXCEPT ![h] = "active"]
        /\ mon' = [mon EXCEPT ![h] = "watch"]
        /\ current' = [current EXCEPT ![l] = h]
        /\ mu' = [mu EXCEPT ![l] = "check"] /\ UNCHANGED <<held, gen, attempt>>
     \/ At(l, "revoke") /\ UNCHANGED <<fence, hstate, mon>>
  /\ UNCHANGED <<etcdVars, hintent, hloss, guard, managerVars>>

\* The select on handle.Done at the end of Acquire
AcquireReturn(l) ==
  /\ mu[l] = "check"
  /\ current' = [current EXCEPT ![l] = IF IsValid(@) THEN @ ELSE NoHandle]
  /\ Leave(l) /\ UNCHANGED <<gen, etcdVars, handleVars, managerVars>>

-----------------------------------------------------------------------------
(* The monitor, GuardedTxn and Validate *)

\* finish: the first state is final.
FinishLock(h, s) == hstate' = [hstate EXCEPT ![h] = IF @ = "active" THEN s ELSE @]

\* l.current is cleared when it is this handle.
Forget(h) == current' = [current EXCEPT ![h[1]] = IF @ = h THEN NoHandle ELSE @]

\* The session ends, the watch breaks, or the owner key is deleted: whatever the reason,
\* observeOwnershipLoss sets lossObserved, and then reads releaseIntent.
LockMonitorObserves(h) ==
  /\ mon[h] = "watch"
  /\ hloss' = [hloss EXCEPT ![h] = TRUE] /\ mon' = [mon EXCEPT ![h] = "observed"]
  /\ UNCHANGED <<etcdVars, objectVars, fence, hstate, hintent, guard, managerVars>>

LockMonitorMarks(h) ==
  /\ mon[h] = "observed"
  /\ IF hintent[h] THEN UNCHANGED hstate /\ mon' = [mon EXCEPT ![h] = "done"]
                   ELSE FinishLock(h, "lost") /\ mon' = [mon EXCEPT ![h] = "clear"]
  /\ UNCHANGED <<etcdVars, objectVars, fence, hintent, hloss, guard, managerVars>>

\* The second half of markLost takes l.mu.
LockMonitorClears(h) ==
  /\ mon[h] = "clear" /\ mu[h[1]] = "free"
  /\ Forget(h) /\ mon' = [mon EXCEPT ![h] = "done"]
  /\ UNCHANGED <<etcdVars, mu, held, gen, attempt, fence, hstate, hintent, hloss, guard, managerVars>>

GuardBegin(h) ==
  /\ guard[h] = "idle" /\ IsValid(h) /\ ~(mu[h[1]] = "check" /\ held[h[1]] = h)
  /\ guard' = [guard EXCEPT ![h] = "txn"]
  /\ UNCHANGED <<etcdVars, objectVars, fence, hstate, hintent, hloss, mon, managerVars>>

\* The transaction of GuardedTxn (of Validate when it writes nothing)
GuardTxn(h) ==
  /\ guard[h] = "txn"
  /\ \/ /\ OwnsLock(h) /\ fenced' \in {fenced, fence[h]}
        /\ guard' = [guard EXCEPT ![h] = "idle"] /\ UNCHANGED hstate
     \/ /\ ~OwnsLock(h) /\ FinishLock(h, "lost")
        /\ guard' = [guard EXCEPT ![h] = "clear"] /\ UNCHANGED fenced
     \/ UNCHANGED <<fenced, hstate>> /\ guard' = [guard EXCEPT ![h] = "idle"]
  /\ UNCHANGED <<created, rev, leases, objectVars, fence, hintent, hloss, mon, managerVars>>

GuardClears(h) ==
  /\ guard[h] = "clear" /\ mu[h[1]] = "free"
  /\ Forget(h) /\ guard' = [guard EXCEPT ![h] = "idle"]
  /\ UNCHANGED <<etcdVars, mu, held, gen, attempt, fence, hstate, hintent, hloss, mon, managerVars>>

-----------------------------------------------------------------------------
(* Release and Unlock *)

\* Release of an active handle, by Release or Unlock; of another one it returns at once.
ReleaseLocked(h) ==
  LET l == h[1] IN
  /\ mu[l] = "free" /\ IsValid(h)
  /\ mu' = [mu EXCEPT ![l] = "releaseTxn"] /\ held' = [held EXCEPT ![l] = h]
  /\ hintent' = [hintent EXCEPT ![h] = TRUE]
  /\ UNCHANGED <<gen, attempt, current, etcdVars, fence, hstate, hloss, mon, guard>>

Release(h) == ReleaseLocked(h) /\ UNCHANGED managerVars

ReleaseTxn(l) ==
  LET h == held[l] IN
  /\ mu[l] = "releaseTxn"
  /\ \/ /\ OwnsLock(h) /\ DeleteKey(h) /\ FinishLock(h, "released") /\ Forget(h)
        /\ mu' = [mu EXCEPT ![l] = "revoke"] /\ UNCHANGED <<held, gen, attempt, managerVars>>
     \/ /\ ~OwnsLock(h) /\ FinishLock(h, "lost") /\ Forget(h)
        /\ Leave(l) /\ ReturnRelease(l, FALSE) /\ UNCHANGED <<gen, created>>
     \/ /\ created' \in {created, [created EXCEPT ![h] = IF OwnsLock(h) THEN 0 ELSE @]}
        /\ At(l, "withdraw") /\ UNCHANGED <<hstate, managerVars>>
  /\ UNCHANGED <<rev, leases, fenced, fence, hintent, hloss, mon, guard>>

\* finishFailedReleaseLocked: releaseIntent is withdrawn, and then lossObserved is read.
ReleaseWithdraw(l) ==
  /\ mu[l] = "withdraw"
  /\ hintent' = [hintent EXCEPT ![held[l]] = FALSE]
  /\ At(l, "withdrawn")
  /\ UNCHANGED <<etcdVars, fence, hstate, hloss, mon, guard, managerVars>>

\* Withdrawing it without looking at what the monitor has seen in the meantime
ReleaseFailedMutant(l) ==
  /\ mu[l] = "withdrawn"
  /\ Leave(l) /\ ReturnRelease(l, FALSE)
  /\ UNCHANGED <<gen, current, etcdVars, handleVars>>

ReleaseFailed(l) ==
  LET h == held[l] IN
  /\ mu[l] = "withdrawn"
  /\ IF hloss[h] THEN FinishLock(h, "lost") /\ Forget(h) ELSE UNCHANGED <<hstate, current>>
  /\ Leave(l) /\ ReturnRelease(l, FALSE)
  /\ UNCHANGED <<gen, etcdVars, fence, hintent, hloss, mon, guard>>

-----------------------------------------------------------------------------
(* LockManager and LockWatchdog *)

GetLock(l) ==
  /\ manager = "free" /\ locks = NoLock /\ l \in Managed \ made
  /\ locks' = l /\ made' = made \cup {l}
  /\ UNCHANGED <<etcdVars, objectVars, handleVars, manager, unlocking, failures>>

\* ReleaseLock (ReleaseAll, for the one key): Unlock reads current under l.mu ...
ReleaseLockReads ==
  /\ manager' = IF current[locks] = NoHandle THEN "delete" ELSE "unlock"
  /\ unlocking' = current[locks]

ReleaseLock ==
  /\ manager = "free" /\ locks # NoLock /\ mu[locks] = "free"
  /\ ReleaseLockReads
  /\ UNCHANGED <<etcdVars, objectVars, handleVars, locks, made, failures>>

\* ... and calls Release without it.
ReleaseLockUnlocks ==
  LET h == unlocking IN
  /\ manager = "unlock" /\ mu[locks] = "free"
  /\ \/ ReleaseLocked(h) /\ manager' = "wait"
     \/ /\ ~IsValid(h) /\ manager' = IF hstate[h] = "released" THEN "delete" ELSE "free"
        /\ UNCHANGED <<etcdVars, objectVars, handleVars>>
  /\ unlocking' = NoHandle /\ UNCHANGED <<locks, made, failures>>

\* The lock object is removed after its Unlock has succeeded.
ReleaseLockDeletes ==
  /\ manager = "delete"
  /\ locks' = NoLock /\ manager' = "free"
  /\ UNCHANGED <<etcdVars, objectVars, handleVars, made, unlocking, failures>>

IsLocked(l) == IsValid(current[l])

\* One round of checkLocks: it counts how often in a row the lock is not held, ...
CheckLocks ==
  /\ manager = "free" /\ locks # NoLock /\ mu[locks] = "free" /\ failures < MaxFailures
  /\ failures' = IF IsLocked(locks) THEN 0 ELSE failures + 1
  /\ UNCHANGED <<etcdVars, objectVars, handleVars, locks, made, manager, unlocking>>

\* ... and at MaxFailures it calls ReleaseLock, which may find the lock acquired meanwhile.
CheckLocksReleases ==
  /\ manager = "free" /\ failures = MaxFailures
  /\ \/ locks = NoLock /\ UNCHANGED <<manager, unlocking>>
     \/ locks # NoLock /\ mu[locks] = "free" /\ ReleaseLockReads
  /\ failures' = 0
  /\ UNCHANGED <<etcdVars, objectVars, handleVars, locks, made>>

-----------------------------------------------------------------------------
LockNext ==
  \/ \E h \in LockHandles :
       \/ LeaseExpires(h) \/ LockMonitorObserves(h) \/ LockMonitorMarks(h) \/ LockMonitorClears(h)
       \/ GuardBegin(h) \/ GuardTxn(h) \/ GuardClears(h) \/ Release(h)
  \/ \E l \in Locks :
       \/ Acquire(l) \/ TryLock(l) \/ TryLockUndo(l) \/ Revoke(l) \/ AcquireGet(l) \/ AcquireReturn(l)
       \/ ReleaseTxn(l) \/ ReleaseWithdraw(l) \/ ReleaseFailed(l) \/ GetLock(l)
  \/ ReleaseLock \/ ReleaseLockUnlocks \/ ReleaseLockDeletes
  \/ CheckLocks \/ CheckLocksReleases

LockSpec == LockInit /\ [][LockNext]_lockVars

-----------------------------------------------------------------------------
(* Properties *)

\* The writes GuardedTxn commits carry fencing tokens that never decrease, although an owner
\* learns that it has lost its lease long after a successor has acquired the lock: "monotonically
\* increasing for successive owners of the same resource key" (lock.go, LockHandle).
WritesInTokenOrder == [][fenced' >= fenced]_lockVars

\* The loss that the monitor observes is not lost between it and a Release whose request failed
\* (the comment of finishFailedReleaseLocked): once the monitor has ended, and no Release that
\* may still notice is under way, the handle is no longer active.
LockLossNotMissed ==
  \A h \in LockHandles :
    mon[h] = "done" /\ held[h[1]] # h => hstate[h] # "active"
=============================================================================

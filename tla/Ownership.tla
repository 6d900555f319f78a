----------------------------- MODULE Ownership ------------------------------
(***************************************************************************)
(* EtcdOwnershipStore (zDistributed/etcd_ownership.go) on one resource     *)
(* key: Acquire, Renew, Validate, GuardedTxn, Release and the monitor of   *)
(* every handle.  etcd is external: one action is one request that it      *)
(* executes.  A request whose caller got an error may have been executed   *)
(* already, may be executed later (it is then in late), or never.  Leases  *)
(* expire at any time.  A handle h stands for one call of Acquire, for the *)
(* lease this call is granted, and for the handle it returns.              *)
(***************************************************************************)
EXTENDS Naturals, FiniteSets

CONSTANTS Handles, Callers, Tokens, MaxLate

ASSUME OwnershipAssumption == "absent" \notin Tokens /\ 0 \notin Handles /\ MaxLate \in Nat

VARIABLES
  key,       \* the owner key in etcd: value, ModRevision and lease
  rev,       \* the revision of etcd
  leases,    \* the leases that are alive
  late,      \* requests that etcd may still execute although the caller got an error
  acq,       \* where the call of Acquire is
  token,     \* its candidateToken
  expected,  \* its expectedRevision, until the transaction is sent
  record,    \* OwnershipHandle.record
  state,     \* ownershipHandleLifecycle.state, "none" before there is a handle
  releaseIntent,
  lossObserved,
  monitor,   \* where the goroutine monitorOwnership is
  pc,        \* where a caller of one of the other operations is
  call,      \* its operation and handle
  written    \* history: the epoch of the last guarded write etcd executed

etcd == <<key, rev, leases, late, written>>
acquiring == <<acq, token, expected, record>>
lifecycle == <<state, releaseIntent, lossObserved, monitor>>
calling == <<pc, call>>
vars == <<etcd, acquiring, lifecycle, calling>>

NoKey == [value |-> "absent", mod |-> 0, lease |-> 0]
NoCall == [op |-> "none", h |-> 0]
Ops == {"renew", "validate", "guarded", "release"}

Init ==
  /\ key = NoKey /\ rev = 1 /\ leases = {} /\ late = {} /\ written = 0
  /\ acq = [h \in Handles |-> "idle"]
  /\ token \in [Handles -> Tokens]
  /\ expected = [h \in Handles |-> 0]
  /\ record = [h \in Handles |-> NoKey]
  /\ state = [h \in Handles |-> "none"]
  /\ releaseIntent = [h \in Handles |-> FALSE]
  /\ lossObserved = [h \in Handles |-> FALSE]
  /\ monitor = [h \in Handles |-> "none"]
  /\ pc = [c \in Callers |-> "idle"]
  /\ call = [c \in Callers |-> NoCall]

-----------------------------------------------------------------------------
(* Requests that etcd executes atomically *)

\* ownershipComparisons
OwnsMutant(h) == key.value = record[h].value /\ key.lease # 0
Owns(h) ==
  /\ key.value = record[h].value
  /\ key.mod = record[h].mod
  /\ key.lease = record[h].lease

\* The If of Acquire: Version = 0 (the key is absent) or ModRevision = expectedRevision.
MayTake(r) == key.mod = r

\* The Then of Acquire; etcd refuses to attach a key to a lease that is gone.
Put(h) ==
  /\ h \in leases
  /\ key' = [value |-> token[h], mod |-> rev + 1, lease |-> h]
  /\ rev' = rev + 1

Delete == key' = NoKey /\ rev' = rev + 1

\* The end of a lease deletes the key attached to it.
EndLease(h) ==
  /\ leases' = leases \ {h}
  /\ IF key.lease = h THEN Delete ELSE UNCHANGED <<key, rev>>

\* What the request [op, h, expected] does to etcd when it is executed.
Execute(op, h, r) ==
  /\ CASE op = "acquire" /\ MayTake(r) /\ h \in leases -> Put(h) /\ UNCHANGED written
       [] op = "release" /\ Owns(h) -> Delete /\ UNCHANGED written
       [] op = "guarded" /\ Owns(h) -> written' = record[h].mod /\ UNCHANGED <<key, rev>>
       [] OTHER -> UNCHANGED <<key, rev, written>>
  /\ UNCHANGED leases

\* The caller gets an error: the request was executed, or it still may be, or it is lost.
Fails(op, h, r) ==
  \/ Execute(op, h, r) /\ UNCHANGED late
  \/ /\ op \in {"acquire", "release", "guarded"} /\ Cardinality(late) < MaxLate
     /\ late' = late \cup {[op |-> op, h |-> h, expected |-> r]}
     /\ UNCHANGED <<key, rev, leases, written>>
  \/ UNCHANGED etcd

ExecuteLate(q) ==
  /\ q \in late
  /\ Execute(q.op, q.h, q.expected)
  /\ late' = late \ {q}
  /\ UNCHANGED <<acquiring, lifecycle, calling>>

Expire(h) ==
  /\ h \in leases
  /\ EndLease(h)
  /\ UNCHANGED <<late, written, acquiring, lifecycle, calling>>

-----------------------------------------------------------------------------
(* Acquire *)

AcquireAt(h, l) == acq' = [acq EXCEPT ![h] = l]

\* expectedRevision is 0 or was read from a record: the one that is there, or an older one,
\* which 1 stands for, because no ModRevision comes twice.
Expectable == {0, 1, key.mod}

\* Grant and KeepAlive
AcquireGrant(h) ==
  /\ acq[h] = "idle"
  /\ expected' \in {[expected EXCEPT ![h] = r] : r \in Expectable}
  /\ \/ AcquireAt(h, "txn") /\ leases' = leases \cup {h}
     \/ AcquireAt(h, "failed") /\ UNCHANGED leases
  /\ UNCHANGED <<key, rev, late, written, token, record, lifecycle, calling>>

AcquireTxn(h) ==
  LET r == expected[h] IN
  /\ acq[h] = "txn"
  /\ \/ /\ MayTake(r) /\ Put(h) /\ AcquireAt(h, "get")
        /\ UNCHANGED <<leases, late, written>>
     \/ /\ ~MayTake(r) /\ AcquireAt(h, "revoke") /\ UNCHANGED etcd
     \/ /\ Fails("acquire", h, r) /\ AcquireAt(h, "revoke")
  /\ expected' = [expected EXCEPT ![h] = 0]
  /\ UNCHANGED <<token, record, lifecycle, calling>>

\* Every failure after the grant cancels the keepalive and revokes the lease, if it can.
AcquireRevoke(h) ==
  /\ acq[h] = "revoke"
  /\ \/ EndLease(h) /\ UNCHANGED <<late, written>>
     \/ UNCHANGED etcd
  /\ AcquireAt(h, "failed")
  /\ UNCHANGED <<token, expected, record, lifecycle, calling>>

\* The owner record that the Get of Acquire accepts.
Accepts(h) == key.value = token[h] /\ key.lease = h /\ key.mod > 0

\* Get, newOwnershipHandle and the start of the monitor.
AcquireGet(h) ==
  /\ acq[h] = "get"
  /\ \/ /\ Accepts(h)
        /\ record' = [record EXCEPT ![h] = key]
        /\ state' = [state EXCEPT ![h] = "active"]
        /\ monitor' = [monitor EXCEPT ![h] = "watch"]
        /\ AcquireAt(h, "check")
     \/ AcquireAt(h, "revoke") /\ UNCHANGED <<record, state, monitor>>
  /\ UNCHANGED <<etcd, token, expected, releaseIntent, lossObserved, calling>>

\* The select on handle.Done at the end of Acquire.
AcquireReturn(h) ==
  /\ acq[h] = "check"
  /\ AcquireAt(h, IF state[h] = "active" THEN "ok" ELSE "failed")
  /\ UNCHANGED <<etcd, token, expected, record, lifecycle, calling>>

-----------------------------------------------------------------------------
(* The lifecycle of a handle and its monitor *)

\* finish: the first state is final.
Finish(h, s) == state' = [state EXCEPT ![h] = IF @ = "active" THEN s ELSE @]

\* The watch begins after the revision of the record, so every change of the key is an
\* event that differs from the record.
SeesLossMutant(h) == h \notin leases
SeesLoss(h) == h \notin leases \/ ~Owns(h)

Observe(h) ==
  /\ monitor[h] = "watch"
  /\ lossObserved' = [lossObserved EXCEPT ![h] = TRUE]
  /\ monitor' = [monitor EXCEPT ![h] = "observed"]
  /\ UNCHANGED <<etcd, acquiring, state, releaseIntent, calling>>

\* A watch event, or the end of the keepalive channel with the lease.
MonitorEvent(h) == SeesLoss(h) /\ Observe(h)

\* The watch is cancelled, or the keepalive ends for another reason.
MonitorBreaks(h) == Observe(h)

\* observeOwnershipLoss after it has set lossObserved.
MonitorMark(h) ==
  /\ monitor[h] = "observed"
  /\ IF releaseIntent[h] THEN UNCHANGED state ELSE Finish(h, "lost")
  /\ monitor' = [monitor EXCEPT ![h] = "done"]
  /\ UNCHANGED <<etcd, acquiring, releaseIntent, lossObserved, calling>>

MonitorDone(h) ==
  /\ monitor[h] = "watch" /\ state[h] # "active"
  /\ monitor' = [monitor EXCEPT ![h] = "done"]
  /\ UNCHANGED <<etcd, acquiring, state, releaseIntent, lossObserved, calling>>

-----------------------------------------------------------------------------
(* Renew, Validate, GuardedTxn and Release, by caller c on the handle of its call *)

Goto(c, l) ==
  /\ pc' = [pc EXCEPT ![c] = l]
  /\ call' = [call EXCEPT ![c] = IF l = "idle" THEN NoCall ELSE @]

\* releaseMu is held during Renew and Release.
Locked(h) == \E c \in Callers : pc[c] # "idle" /\ call[c].h = h /\ call[c].op \in {"renew", "release"}

\* validateHandle, or the checks of the state under releaseMu.
Begin(c, op, h) ==
  /\ pc[c] = "idle"
  /\ acq[h] = "ok" /\ state[h] = "active"
  /\ op \in {"renew", "release"} => ~Locked(h)
  /\ call' = [call EXCEPT ![c] = [op |-> op, h |-> h]]
  /\ pc' = [pc EXCEPT ![c] = CASE op = "renew" -> "keepAlive"
                               [] op = "release" -> "intent"
                               [] OTHER -> "txn"]
  /\ UNCHANGED <<etcd, acquiring, lifecycle>>

\* KeepAliveOnce of Renew; the lease may be gone.
RenewKeepAlive(c) ==
  /\ pc[c] = "keepAlive"
  /\ \/ call[c].h \in leases /\ Goto(c, "txn")
     \/ call[c].h \notin leases /\ Goto(c, "markLost")
     \/ Goto(c, "idle")
  /\ UNCHANGED <<etcd, acquiring, lifecycle>>

\* validateRemote and GuardedTxn
Txn(c) ==
  LET h == call[c].h IN
  /\ pc[c] = "txn"
  /\ \/ Owns(h) /\ Execute(call[c].op, h, 0) /\ UNCHANGED late /\ Goto(c, "idle")
     \/ ~Owns(h) /\ UNCHANGED etcd /\ Goto(c, "markLost")
     \/ Fails(call[c].op, h, 0) /\ Goto(c, "idle")
  /\ UNCHANGED <<acquiring, lifecycle>>

MarkLost(c) ==
  /\ pc[c] = "markLost"
  /\ Finish(call[c].h, "lost")
  /\ Goto(c, "idle")
  /\ UNCHANGED <<etcd, acquiring, releaseIntent, lossObserved, monitor>>

ReleaseIntent(c) ==
  /\ pc[c] = "intent"
  /\ releaseIntent' = [releaseIntent EXCEPT ![call[c].h] = TRUE]
  /\ Goto(c, "releaseTxn")
  /\ UNCHANGED <<etcd, acquiring, state, lossObserved, monitor>>

ReleaseTxn(c) ==
  LET h == call[c].h IN
  /\ pc[c] = "releaseTxn"
  /\ \/ Owns(h) /\ Execute("release", h, 0) /\ UNCHANGED late /\ Goto(c, "released")
     \/ ~Owns(h) /\ UNCHANGED etcd /\ Goto(c, "markLost")
     \/ Fails("release", h, 0) /\ Goto(c, "withdraw")
  /\ UNCHANGED <<acquiring, lifecycle>>

\* After an error: the intent is withdrawn first, and then lossObserved is read.
ReleaseWithdraw(c) ==
  /\ pc[c] = "withdraw"
  /\ releaseIntent' = [releaseIntent EXCEPT ![call[c].h] = FALSE]
  /\ Goto(c, "withdrawn")
  /\ UNCHANGED <<etcd, acquiring, state, lossObserved, monitor>>

ReleaseFailed(c) ==
  /\ pc[c] = "withdrawn"
  /\ IF lossObserved[call[c].h] THEN Finish(call[c].h, "lost") ELSE UNCHANGED state
  /\ Goto(c, "idle")
  /\ UNCHANGED <<etcd, acquiring, releaseIntent, lossObserved, monitor>>

ReleaseFinish(c) ==
  /\ pc[c] = "released"
  /\ Finish(call[c].h, "released")
  /\ Goto(c, "revoke")
  /\ UNCHANGED <<etcd, acquiring, releaseIntent, lossObserved, monitor>>

\* revokeLease of Release, whose error is ignored
ReleaseRevoke(c) ==
  /\ pc[c] = "revoke"
  /\ EndLease(call[c].h) \/ UNCHANGED <<key, rev, leases>>
  /\ Goto(c, "idle")
  /\ UNCHANGED <<late, written, acquiring, lifecycle>>

-----------------------------------------------------------------------------
CallStep(c) ==
  \/ RenewKeepAlive(c) \/ Txn(c) \/ MarkLost(c)
  \/ ReleaseIntent(c) \/ ReleaseTxn(c) \/ ReleaseWithdraw(c) \/ ReleaseFailed(c)
  \/ ReleaseFinish(c) \/ ReleaseRevoke(c)

Next ==
  \/ \E h \in Handles :
       \/ AcquireGrant(h) \/ AcquireTxn(h) \/ AcquireRevoke(h) \/ AcquireGet(h) \/ AcquireReturn(h)
       \/ MonitorEvent(h) \/ MonitorBreaks(h) \/ MonitorMark(h) \/ MonitorDone(h) \/ Expire(h)
  \/ \E q \in late : ExecuteLate(q)
  \/ \E c \in Callers : CallStep(c) \/ \E op \in Ops, h \in Handles : Begin(c, op, h)

Spec == Init /\ [][Next]_vars

Fairness ==
  /\ \A h \in Handles : WF_vars(MonitorEvent(h)) /\ WF_vars(MonitorMark(h))
  /\ \A c \in Callers : WF_vars(CallStep(c))

FairSpec == Spec /\ Fairness

-----------------------------------------------------------------------------
\* No two handles have the same epoch: the Get in Acquire, a separate request after the
\* transaction, never adopts the record of a later owner, also one with the same token.
EpochsDistinct ==
  \A g, h \in Handles : g # h /\ state[g] # "none" /\ state[h] # "none" => record[g].mod # record[h].mod

\* Guarded writes reach etcd in the order of their epochs: once an owner has written, no
\* former owner does, not even by a request that was delayed, or after it was restarted
\* with the same token (ownershipComparisons).
WritesInEpochOrder == [][written' >= written]_written

\* A handle whose record is no longer in etcd does not stay valid (monitorOwnership).
LossNoticed ==
  \A h \in Handles : state[h] = "active" /\ ~Owns(h) ~> state[h] # "active"
=============================================================================

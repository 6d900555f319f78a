-------------------------- MODULE OwnershipProofs ---------------------------
(***************************************************************************)
(* For any number of handles, callers, tokens and delayed requests:        *)
(* guarded writes reach etcd in the order of their epochs, and no two      *)
(* handles share an epoch.                                                 *)
(*                                                                         *)
(* The invariant speaks of three things.  EtcdInv: no epoch is ahead of    *)
(* the revision of etcd, and the last write is not newer than the record   *)
(* that is there.  RecordInv: what a handle holds was in etcd under its    *)
(* own lease, so a handle that takes the record in etcd shares it with     *)
(* no other.                                                               *)
(* CallInv: only a handle that exists is used for a guarded write, also by *)
(* a request that etcd executes late.                                      *)
(*                                                                         *)
(* WatchInv is about the consumer of a watch: it has the record of the     *)
(* revision the watch has reached, also while a broken one is set up again *)
(* (EtcdOwnershipStore.Watch, for any history of the key).                 *)
(***************************************************************************)
EXTENDS Ownership, OwnershipWatch, TLAPS

Keys == [value : Tokens \cup {"absent"}, mod : Nat, lease : Handles \cup {0}]
States == {"none", "active", "lost", "released"}
Labels == {"idle", "keepAlive", "intent", "txn", "markLost", "releaseTxn", "withdraw", "withdrawn", "released",
           "revoke"}

TypeInv ==
  /\ key \in Keys /\ rev \in Nat /\ written \in Nat
  /\ token \in [Handles -> Tokens] /\ record \in [Handles -> Keys]
  /\ state \in [Handles -> States]
  /\ pc \in [Callers -> Labels]
  /\ call \in [Callers -> [op : Ops \cup {"none"}, h : Handles \cup {0}]]

EtcdInv ==
  /\ key.mod <= rev /\ written <= rev
  /\ key.mod # 0 => written <= key.mod

RecordInv ==
  /\ \A h \in Handles : state[h] # "none" =>
       /\ record[h].mod > 0 /\ record[h].mod <= rev /\ record[h].lease = h
       /\ record[h].mod = key.mod => record[h] = key
  /\ EpochsDistinct

CallInv ==
  /\ \A c \in Callers : pc[c] # "idle" => call[c].h \in Handles /\ state[call[c].h] # "none"
  /\ \A q \in late : q.h \in Handles /\ (q.op = "guarded" => state[q.h] # "none")

IInv == TypeInv /\ EtcdInv /\ RecordInv /\ CallInv

-----------------------------------------------------------------------------
(* What etcd does keeps its part of the invariant *)

\* The part of the invariant about etcd and the records, with the order of the writes
EtcdKept == key' \in Keys /\ rev' \in Nat /\ written' \in Nat /\ EtcdInv' /\ RecordInv' /\ written' >= written

\* Requests that change neither the key nor the last write keep it.
LEMMA EtcdUnchanged ==
  ASSUME IInv, UNCHANGED <<key, rev, written, record, state>>
  PROVE  EtcdKept
BY DEF IInv, TypeInv, EtcdInv, RecordInv, EpochsDistinct, EtcdKept

\* The Then of Acquire gives the key an epoch that is newer than every other.
LEMMA PutKeeps ==
  ASSUME IInv, NEW h \in Handles, Put(h), UNCHANGED <<written, record, state>>
  PROVE  EtcdKept
<1>0. token[h] \in Tokens \cup {"absent"} /\ rev + 1 \in Nat /\ h \in Handles \cup {0}
  BY DEF IInv, TypeInv
<1>1. key' \in Keys /\ rev' = rev + 1 /\ key'.mod = rev + 1
  BY <1>0 DEF Keys, Put
<1>2. \A g \in Handles : state[g] # "none" => record[g].mod # key'.mod
  BY <1>1 DEF IInv, TypeInv, RecordInv, EpochsDistinct, Keys
<1>3. EtcdInv'
  BY <1>1 DEF IInv, TypeInv, EtcdInv, Keys
<1>4. RecordInv'
  BY <1>1, <1>2 DEF IInv, TypeInv, RecordInv, EpochsDistinct, Keys
<1> QED BY <1>1, <1>3, <1>4 DEF EtcdKept, IInv, TypeInv

\* Deleting the key leaves no record equal to it.
LEMMA DeleteKeeps ==
  ASSUME IInv, Delete, UNCHANGED <<written, record, state>>
  PROVE  EtcdKept
<1>1. key' \in Keys /\ rev' = rev + 1 /\ key'.mod = 0
  BY DEF IInv, TypeInv, Keys, Delete, NoKey
<1>2. EtcdInv'
  BY <1>1 DEF IInv, TypeInv, EtcdInv, Keys
<1>3. RecordInv'
  BY <1>1 DEF IInv, TypeInv, RecordInv, EpochsDistinct, Keys
<1> QED BY <1>1, <1>2, <1>3 DEF EtcdKept, IInv, TypeInv

\* The end of a lease keeps it.
LEMMA EndLeaseKeeps ==
  ASSUME IInv, NEW h, EndLease(h), UNCHANGED <<written, record, state>>
  PROVE  EtcdKept
BY DeleteKeeps, EtcdUnchanged DEF EndLease

\* A request keeps it; the comparisons of a guarded write make sure that its epoch is the one
\* of the record that is there.
LEMMA ExecuteKeeps ==
  ASSUME IInv, NEW h \in Handles, NEW op, NEW r, Execute(op, h, r), UNCHANGED <<record, state>>,
         op = "guarded" => state[h] # "none"
  PROVE  EtcdKept
<1>1. CASE op = "acquire" /\ MayTake(r) /\ h \in leases
  BY <1>1, PutKeeps DEF Execute
<1>2. CASE op = "release" /\ Owns(h)
  BY <1>2, DeleteKeeps DEF Execute
<1>3. CASE op = "guarded" /\ Owns(h)
  <2>1. written' = record[h].mod /\ UNCHANGED <<key, rev>>
    BY <1>3 DEF Execute
  <2>2. record[h].mod = key.mod /\ record[h].mod > 0 /\ key.mod \in Nat
    BY <1>3 DEF Owns, IInv, RecordInv, TypeInv, Keys
  <2>3. EtcdInv' /\ written' >= written /\ written' \in Nat
    BY <2>1, <2>2 DEF IInv, TypeInv, EtcdInv, Keys
  <2>4. RecordInv'
    BY <2>1 DEF IInv, RecordInv, EpochsDistinct
  <2> QED BY <2>1, <2>3, <2>4 DEF EtcdKept, IInv, TypeInv
<1>4. CASE ~(op = "acquire" /\ MayTake(r) /\ h \in leases) /\ ~(op = "release" /\ Owns(h))
           /\ ~(op = "guarded" /\ Owns(h))
  BY <1>4, EtcdUnchanged DEF Execute
<1> QED BY <1>1, <1>2, <1>3, <1>4

\* A request whose caller gets an error keeps it, and what it leaves in late may be executed later.
LEMMA FailsKeeps ==
  ASSUME IInv, NEW h \in Handles, NEW op, NEW r, Fails(op, h, r), UNCHANGED <<record, state>>,
         op = "guarded" => state[h] # "none"
  PROVE  /\ EtcdKept
         /\ \A q \in late' : q.h \in Handles /\ (q.op = "guarded" => state[q.h] # "none")
<1>1. CASE Execute(op, h, r) /\ UNCHANGED late
  BY <1>1, ExecuteKeeps DEF IInv, CallInv
<1>2. CASE late' = late \cup {[op |-> op, h |-> h, expected |-> r]} /\ UNCHANGED <<key, rev, leases, written>>
  BY <1>2, EtcdUnchanged DEF IInv, CallInv
<1>3. CASE UNCHANGED etcd
  BY <1>3, EtcdUnchanged DEF IInv, CallInv, etcd
<1> QED BY <1>1, <1>2, <1>3 DEF Fails

-----------------------------------------------------------------------------
(* What the callers and the lifecycle of a handle do *)

\* A caller that goes on works with a handle that exists.
CallersKept ==
  /\ pc' \in [Callers -> Labels]
  /\ call' \in [Callers -> [op : Ops \cup {"none"}, h : Handles \cup {0}]]
  /\ \A c \in Callers : pc'[c] # "idle" => call'[c].h \in Handles /\ state'[call'[c].h] # "none"

\* A handle never goes back to not existing.
StateKept == state' \in [Handles -> States] /\ \A h \in Handles : state[h] # "none" => state'[h] # "none"

\* Goto keeps the handle of the call, or ends the call.
LEMMA GotoKeeps ==
  ASSUME IInv, NEW c \in Callers, NEW l \in Labels, pc[c] # "idle", Goto(c, l), StateKept
  PROVE  CallersKept
<1>1. pc' \in [Callers -> Labels] /\ pc'[c] = l /\ \A d \in Callers \ {c} : pc'[d] = pc[d]
  BY DEF IInv, TypeInv, Goto
<1>2. /\ call' \in [Callers -> [op : Ops \cup {"none"}, h : Handles \cup {0}]]
      /\ \A d \in Callers : d # c \/ l # "idle" => call'[d] = call[d]
  BY DEF IInv, TypeInv, Goto, NoCall
<1>3. ASSUME NEW d \in Callers, pc'[d] # "idle"
      PROVE  call'[d].h \in Handles /\ state'[call'[d].h] # "none"
  <2>1. pc[d] # "idle" /\ call'[d] = call[d]
    BY <1>1, <1>2, <1>3
  <2> QED BY <2>1 DEF IInv, CallInv, StateKept
<1> QED BY <1>1, <1>2, <1>3 DEF CallersKept

\* Nothing changes for the callers when only the state of a handle does.
LEMMA CallersIdle ==
  ASSUME IInv, UNCHANGED calling, StateKept
  PROVE  CallersKept
BY DEF IInv, TypeInv, CallInv, calling, StateKept, CallersKept

\* finish keeps a handle that exists in existence.
LEMMA FinishKeeps ==
  ASSUME IInv, NEW h \in Handles, NEW s \in {"lost", "released"}, Finish(h, s),
         UNCHANGED <<key, rev, written, record>>
  PROVE  StateKept /\ EtcdKept
<1>1. state' \in [Handles -> States] /\ \A g \in Handles : state[g] # "none" <=> state'[g] # "none"
  BY DEF IInv, TypeInv, Finish, States
<1>2. EtcdKept
  BY <1>1 DEF IInv, TypeInv, EtcdInv, RecordInv, EpochsDistinct, EtcdKept
<1> QED BY <1>1, <1>2 DEF StateKept

\* The three parts make the invariant, with what waits in late.
LEMMA Together ==
  ASSUME IInv, EtcdKept, CallersKept, StateKept, UNCHANGED token, record' \in [Handles -> Keys],
         \A q \in late' : q.h \in Handles /\ (q.op = "guarded" => state[q.h] # "none")
  PROVE  IInv' /\ written' >= written
<1>1. TypeInv'
  BY DEF IInv, TypeInv, EtcdKept, CallersKept, StateKept
<1>2. CallInv'
  BY DEF CallersKept, StateKept, CallInv
<1> QED BY <1>1, <1>2 DEF IInv, EtcdKept

-----------------------------------------------------------------------------
(* Every step *)

\* The steps of Acquire
LEMMA AcquireKeeps ==
  ASSUME IInv, NEW h \in Handles,
         AcquireGrant(h) \/ AcquireTxn(h) \/ AcquireRevoke(h) \/ AcquireGet(h) \/ AcquireReturn(h)
  PROVE  IInv' /\ written' >= written
<1>1. CASE AcquireGrant(h) \/ AcquireReturn(h)
  <2>1. UNCHANGED <<key, rev, late, written, token, record, state, calling>>
    BY <1>1 DEF AcquireGrant, AcquireReturn, etcd, lifecycle
  <2>2. StateKept /\ record' \in [Handles -> Keys]
    BY <2>1 DEF StateKept, IInv, TypeInv
  <2> QED BY <2>1, <2>2, EtcdUnchanged, CallersIdle, Together DEF IInv, CallInv
<1>2. CASE AcquireTxn(h)
  <2>1. UNCHANGED <<token, record, state, calling>>
    BY <1>2 DEF AcquireTxn, lifecycle
  <2>2. StateKept /\ record' \in [Handles -> Keys]
    BY <2>1 DEF StateKept, IInv, TypeInv
  <2>3. EtcdKept /\ \A q \in late' : q.h \in Handles /\ (q.op = "guarded" => state[q.h] # "none")
    <3>1. CASE Put(h) /\ UNCHANGED <<late, written>>
      BY <3>1, <2>1, PutKeeps DEF IInv, CallInv
    <3>2. CASE UNCHANGED etcd
      BY <3>2, <2>1, EtcdUnchanged DEF etcd, IInv, CallInv
    <3>3. CASE Fails("acquire", h, expected[h])
      BY <3>3, <2>1, FailsKeeps
    <3> QED BY <1>2, <3>1, <3>2, <3>3 DEF AcquireTxn
  <2> QED BY <2>1, <2>2, <2>3, CallersIdle, Together
<1>3. CASE AcquireRevoke(h)
  <2>1. UNCHANGED <<token, record, state, calling, late, written>>
    BY <1>3 DEF AcquireRevoke, lifecycle, etcd
  <2>2. StateKept /\ record' \in [Handles -> Keys]
    BY <2>1 DEF StateKept, IInv, TypeInv
  <2>3. EtcdKept
    BY <1>3, <2>1, EndLeaseKeeps, EtcdUnchanged DEF AcquireRevoke, etcd
  <2> QED BY <2>1, <2>2, <2>3, CallersIdle, Together DEF IInv, CallInv
<1>4. CASE AcquireGet(h)
  <2>1. UNCHANGED <<key, rev, late, written, token, calling>>
    BY <1>4 DEF AcquireGet, etcd
  <2>2. CASE UNCHANGED <<record, state>>
    <3>1. StateKept /\ record' \in [Handles -> Keys]
      BY <2>2 DEF StateKept, IInv, TypeInv
    <3> QED BY <2>1, <2>2, <3>1, EtcdUnchanged, CallersIdle, Together DEF IInv, CallInv
  <2>3. CASE /\ Accepts(h)
             /\ record' = [record EXCEPT ![h] = key]
             /\ state' = [state EXCEPT ![h] = "active"]
    <3>1. StateKept /\ record' \in [Handles -> Keys]
      BY <2>3 DEF StateKept, States, IInv, TypeInv
    <3>2. /\ record'[h] = key /\ key.mod > 0 /\ key.mod <= rev /\ key.lease = h
          /\ \A g \in Handles \ {h} : record'[g] = record[g] /\ state'[g] = state[g]
      BY <2>3 DEF Accepts, IInv, TypeInv, EtcdInv
    <3>3. RecordInv'
      BY <2>1, <3>2 DEF IInv, RecordInv, EpochsDistinct
    <3>4. EtcdKept
      BY <2>1, <3>3 DEF EtcdKept, EtcdInv, IInv, TypeInv
    <3> QED BY <2>1, <3>1, <3>4, CallersIdle, Together DEF IInv, CallInv
  <2> QED BY <1>4, <2>2, <2>3 DEF AcquireGet
<1> QED BY <1>1, <1>2, <1>3, <1>4

\* The monitor, the end of a lease, and a request that is executed late
LEMMA ExternalKeeps ==
  ASSUME IInv,
         \/ \E h \in Handles : \/ MonitorEvent(h) \/ MonitorBreaks(h) \/ MonitorMark(h) \/ MonitorDone(h)
                               \/ Expire(h)
         \/ \E q \in late : ExecuteLate(q)
  PROVE  IInv' /\ written' >= written
<1>1. ASSUME NEW h \in Handles, MonitorEvent(h) \/ MonitorBreaks(h) \/ MonitorDone(h)
      PROVE  IInv' /\ written' >= written
  <2>1. UNCHANGED <<key, rev, late, written, token, record, state, calling>>
    BY <1>1 DEF MonitorEvent, MonitorBreaks, MonitorDone, Observe, etcd, acquiring
  <2>2. StateKept /\ record' \in [Handles -> Keys]
    BY <2>1 DEF StateKept, IInv, TypeInv
  <2> QED BY <2>1, <2>2, EtcdUnchanged, CallersIdle, Together DEF IInv, CallInv
<1>2. ASSUME NEW h \in Handles, MonitorMark(h)
      PROVE  IInv' /\ written' >= written
  <2>1. UNCHANGED <<key, rev, late, written, token, record, calling>>
    BY <1>2 DEF MonitorMark, etcd, acquiring
  <2>2. StateKept /\ EtcdKept /\ record' \in [Handles -> Keys]
    <3>1. CASE UNCHANGED state
      BY <2>1, <3>1, EtcdUnchanged DEF StateKept, IInv, TypeInv
    <3>2. CASE Finish(h, "lost")
      BY <2>1, <3>2, FinishKeeps DEF IInv, TypeInv
    <3> QED BY <1>2, <3>1, <3>2 DEF MonitorMark
  <2> QED BY <2>1, <2>2, CallersIdle, Together DEF IInv, CallInv
<1>3. ASSUME NEW h \in Handles, Expire(h)
      PROVE  IInv' /\ written' >= written
  <2>1. UNCHANGED <<late, written, token, record, state, calling>>
    BY <1>3 DEF Expire, acquiring, lifecycle
  <2>2. StateKept /\ record' \in [Handles -> Keys]
    BY <2>1 DEF StateKept, IInv, TypeInv
  <2>3. EtcdKept
    BY <1>3, <2>1, EndLeaseKeeps DEF Expire
  <2> QED BY <2>1, <2>2, <2>3, CallersIdle, Together DEF IInv, CallInv
<1>4. ASSUME NEW q \in late, ExecuteLate(q)
      PROVE  IInv' /\ written' >= written
  <2>1. UNCHANGED <<token, record, state, calling>> /\ late' = late \ {q} /\ Execute(q.op, q.h, q.expected)
    BY <1>4 DEF ExecuteLate, acquiring, lifecycle
  <2>2. StateKept /\ record' \in [Handles -> Keys]
    BY <2>1 DEF StateKept, IInv, TypeInv
  <2>3. EtcdKept
    BY <2>1, ExecuteKeeps DEF IInv, CallInv
  <2> QED BY <2>1, <2>2, <2>3, CallersIdle, Together DEF IInv, CallInv
<1> QED BY <1>1, <1>2, <1>3, <1>4

\* A new call is only made on a handle that is active.
LEMMA BeginKeeps ==
  ASSUME IInv, NEW c \in Callers, NEW op \in Ops, NEW h \in Handles, Begin(c, op, h)
  PROVE  IInv' /\ written' >= written
<1>1. UNCHANGED <<key, rev, late, written, token, record, state>>
  BY DEF Begin, etcd, acquiring, lifecycle
<1>2. StateKept /\ record' \in [Handles -> Keys]
  BY <1>1 DEF StateKept, IInv, TypeInv
<1>3. CallersKept
  <2>1. /\ pc' \in [Callers -> Labels]
        /\ \A d \in Callers \ {c} : pc'[d] = pc[d] /\ call'[d] = call[d]
    BY DEF Begin, IInv, TypeInv, Labels, Ops
  <2>2. /\ call' \in [Callers -> [op : Ops \cup {"none"}, h : Handles \cup {0}]]
        /\ call'[c].h = h
    BY DEF Begin, IInv, TypeInv
  <2>3. state'[h] # "none"
    BY <1>1 DEF Begin
  <2> QED BY <1>1, <2>1, <2>2, <2>3 DEF CallersKept, IInv, CallInv
<1> QED BY <1>1, <1>2, <1>3, EtcdUnchanged, Together DEF IInv, CallInv

\* The steps of Renew, Validate, GuardedTxn and Release
LEMMA CallKeeps ==
  ASSUME IInv, NEW c \in Callers, CallStep(c)
  PROVE  IInv' /\ written' >= written
<1>0. pc[c] # "idle" /\ UNCHANGED acquiring
  BY Zenon DEF CallStep, RenewKeepAlive, Txn, MarkLost, ReleaseIntent, ReleaseTxn, ReleaseWithdraw, ReleaseFailed,
         ReleaseFinish, ReleaseRevoke
<1> DEFINE h == call[c].h
<1>h. h \in Handles /\ state[h] # "none"
  BY <1>0 DEF IInv, CallInv
<1>r. UNCHANGED <<token, record>> /\ record' \in [Handles -> Keys]
  BY <1>0 DEF acquiring, IInv, TypeInv
<1>1. CASE RenewKeepAlive(c) \/ ReleaseIntent(c) \/ ReleaseWithdraw(c)
  <2>1. UNCHANGED <<key, rev, late, written, state>> /\ \E l \in Labels : Goto(c, l)
    BY <1>1 DEF RenewKeepAlive, ReleaseIntent, ReleaseWithdraw, etcd, lifecycle, Labels
  <2>2. StateKept
    BY <2>1 DEF StateKept, IInv, TypeInv
  <2> QED BY <1>0, <1>r, <2>1, <2>2, EtcdUnchanged, GotoKeeps, Together DEF IInv, CallInv
<1>2. CASE MarkLost(c) \/ ReleaseFailed(c) \/ ReleaseFinish(c)
  <2>1. UNCHANGED <<key, rev, late, written>> /\ \E l \in Labels : Goto(c, l)
    BY <1>2 DEF MarkLost, ReleaseFailed, ReleaseFinish, etcd, Labels
  <2>2. StateKept /\ EtcdKept
    <3>1. CASE UNCHANGED state
      BY <1>r, <2>1, <3>1, EtcdUnchanged DEF StateKept, IInv, TypeInv
    <3>2. CASE \E s \in {"lost", "released"} : Finish(h, s)
      BY <1>h, <1>r, <2>1, <3>2, FinishKeeps
    <3> QED BY <1>2, <3>1, <3>2 DEF MarkLost, ReleaseFailed, ReleaseFinish
  <2> QED BY <1>0, <1>r, <2>1, <2>2, GotoKeeps, Together DEF IInv, CallInv
<1>3. CASE Txn(c) \/ ReleaseTxn(c)
  <2>1. UNCHANGED state /\ \E l \in Labels : Goto(c, l)
    BY <1>3 DEF Txn, ReleaseTxn, lifecycle, Labels
  <2>2. StateKept
    BY <2>1 DEF StateKept, IInv, TypeInv
  <2>3. EtcdKept /\ \A q \in late' : q.h \in Handles /\ (q.op = "guarded" => state[q.h] # "none")
    <3>1. CASE \E op : Execute(op, h, 0) /\ UNCHANGED late
      BY <1>h, <1>r, <2>1, <3>1, ExecuteKeeps DEF IInv, CallInv
    <3>2. CASE UNCHANGED etcd
      BY <1>r, <2>1, <3>2, EtcdUnchanged DEF etcd, IInv, CallInv
    <3>3. CASE \E op : Fails(op, h, 0)
      BY <1>h, <1>r, <2>1, <3>3, FailsKeeps
    <3> QED BY <1>3, <3>1, <3>2, <3>3 DEF Txn, ReleaseTxn
  <2> QED BY <1>0, <1>r, <2>1, <2>2, <2>3, GotoKeeps, Together
<1>4. CASE ReleaseRevoke(c)
  <2>1. UNCHANGED <<late, written, state>> /\ \E l \in Labels : Goto(c, l)
    BY <1>4 DEF ReleaseRevoke, lifecycle, Labels
  <2>2. StateKept
    BY <2>1 DEF StateKept, IInv, TypeInv
  <2>3. EtcdKept
    BY <1>4, <1>r, <2>1, EndLeaseKeeps, EtcdUnchanged DEF ReleaseRevoke
  <2> QED BY <1>0, <1>r, <2>1, <2>2, <2>3, GotoKeeps, Together DEF IInv, CallInv
<1> QED BY <1>1, <1>2, <1>3, <1>4 DEF CallStep

\* The invariant is inductive, and no step takes the writes back.
LEMMA StepKeeps ==
  ASSUME IInv, [Next]_vars
  PROVE  IInv' /\ written' >= written
<1>1. CASE UNCHANGED vars
  <2>1. UNCHANGED <<key, rev, late, written, token, record, state, calling>>
    BY <1>1 DEF vars, etcd, acquiring, lifecycle
  <2>2. StateKept /\ record' \in [Handles -> Keys]
    BY <2>1 DEF StateKept, IInv, TypeInv
  <2> QED BY <2>1, <2>2, EtcdUnchanged, CallersIdle, Together DEF IInv, CallInv
<1>2. CASE Next
  BY <1>2, AcquireKeeps, ExternalKeeps, BeginKeeps, CallKeeps DEF Next
<1> QED BY <1>1, <1>2

\* The invariant holds at the start.
LEMMA InitIInv == Init => IInv
<1> SUFFICES ASSUME Init PROVE IInv
  OBVIOUS
<1>1. TypeInv
  BY DEF Init, TypeInv, Keys, NoKey, NoCall, States, Ops, Labels
<1>2. EtcdInv /\ RecordInv /\ CallInv
  BY DEF Init, EtcdInv, RecordInv, EpochsDistinct, CallInv, NoKey
<1> QED BY <1>1, <1>2 DEF IInv

\* The invariant of every behaviour
LEMMA Inductive == Spec => []IInv
BY InitIInv, StepKeeps, PTL DEF Spec

\* Guarded writes reach etcd in the order of their epochs: no former owner writes after a later
\* one, whatever is delayed, lost, expired or restarted (ownershipComparisons in GuardedTxn).
THEOREM EpochOrder == Spec => WritesInEpochOrder
<1>1. IInv /\ [Next]_vars => [written' >= written]_written
  BY StepKeeps
<1> QED BY <1>1, Inductive, PTL DEF Spec, WritesInEpochOrder

\* No two handles that Acquire has made share an epoch, not even two of a process that was
\* restarted with its old token (the comparison with the lease after the Get of Acquire).
THEOREM OneHandlePerEpoch == Spec => []EpochsDistinct
<1>1. IInv => EpochsDistinct
  BY DEF IInv, RecordInv
<1> QED BY <1>1, Inductive, PTL

-----------------------------------------------------------------------------
(* OwnershipWatch *)

\* Leaves with arithmetic or a large case split cite SMT.
USE Zenon

Records == {None} \cup [owner : Owners, mod : Nat]

\* A record is in etcd from the revision that wrote it until the next change.
Lasts(h) ==
  /\ h # <<>>
  /\ \A r \in 1..Len(h) : h[r] # None => /\ h[r].mod \in 1..r
                                         /\ \A k \in h[r].mod .. r : h[k] = h[r]

Looking == watchPc \in {"watch", "reconcile"}

\* The consumer has what the watch has delivered, also while a new one is being set up.
WatchInv ==
  /\ hist \in Seq(Records) /\ Lasts(hist)
  /\ watchPc \in {"idle", "watch", "reconcile"} /\ typed = TRUE /\ present \in BOOLEAN
  /\ watchPc = "idle" => view = None /\ lastEventRevision = 0
  /\ Looking => /\ pos \in 1..Len(hist) /\ lastEventRevision \in 0..pos
                /\ view = hist[pos] /\ (present <=> view # None)
                /\ present => lastRecord = view

LEMMA AppendLasts ==
  ASSUME NEW h \in Seq(Records), Lasts(h), NEW x \in Records,
         x = None \/ x.mod = Len(h) + 1 \/ x = h[Len(h)]
  PROVE  /\ Append(h, x) \in Seq(Records) /\ Lasts(Append(h, x))
         /\ Len(Append(h, x)) = Len(h) + 1 /\ \A i \in 1..Len(h) : Append(h, x)[i] = h[i]
<1> DEFINE t == Append(h, x)
<1>1. /\ t \in Seq(Records) /\ t # <<>> /\ Len(h) \in Nat /\ Len(t) = Len(h) + 1 /\ t[Len(h) + 1] = x
      /\ \A i \in 1..Len(h) : t[i] = h[i]
  BY SMT
<1>2. Len(h) \in 1..Len(h)
  BY SMT DEF Lasts
<1> HIDE DEF t
<1>3. ASSUME NEW r \in 1..Len(t), t[r] # None
      PROVE  t[r].mod \in 1..r /\ \A k \in t[r].mod .. r : t[k] = t[r]
  <2>1. CASE r \in 1..Len(h)
    <3>1. t[r] = h[r] /\ h[r].mod \in 1..r /\ \A k \in h[r].mod .. r : h[k] = h[r]
      BY <1>1, <1>3, <2>1 DEF Lasts
    <3>2. \A k \in h[r].mod .. r : k \in 1..Len(h)
      BY <1>1, <2>1, <3>1, SMT
    <3> QED
      BY <1>1, <3>1, <3>2
  <2>2. CASE r = Len(h) + 1 /\ x.mod = Len(h) + 1
    <3>1. t[r] = x /\ x.mod \in 1..r /\ \A k \in x.mod .. r : k = r
      BY <1>1, <2>2, SMT
    <3> QED
      BY <3>1
  <2>3. CASE r = Len(h) + 1 /\ x = h[Len(h)]
    <3>1. t[r] = x /\ x # None
      BY <1>1, <1>3, <2>3
    <3>2. x.mod \in 1..Len(h) /\ \A k \in x.mod .. Len(h) : h[k] = x
      BY <1>2, <2>3, <3>1 DEF Lasts
    <3>3. x.mod \in 1..r /\ \A k \in x.mod .. r : k = r \/ (k \in x.mod .. Len(h) /\ k \in 1..Len(h))
      BY <1>1, <2>3, <3>2, SMT
    <3> QED
      BY <1>1, <3>1, <3>2, <3>3
  <2>4. r \in 1..Len(h) \/ r = Len(h) + 1
    BY <1>1, SMT
  <2> QED
    BY <1>1, <1>3, <2>1, <2>2, <2>3, <2>4
<1>4. Lasts(t)
  BY <1>1, <1>3 DEF Lasts
<1> QED
  BY <1>1, <1>4 DEF t

LEMMA WriteInv ==
  ASSUME WatchInv, NEW x \in Records, Write(x),
         x = None \/ x.mod = Len(hist) + 1 \/ x = hist[Len(hist)]
  PROVE  WatchInv'
<1>1. /\ UNCHANGED <<watchPc, pos, lastRecord, present, lastEventRevision, view, typed>>
      /\ hist' = Append(hist, x) /\ hist \in Seq(Records) /\ Lasts(hist)
  BY DEF Write, loop, WatchInv
<1>2. /\ hist' \in Seq(Records) /\ Lasts(hist')
      /\ Len(hist') = Len(hist) + 1 /\ \A i \in 1..Len(hist) : hist'[i] = hist[i]
  BY <1>1, AppendLasts
<1>3. 1..Len(hist) \subseteq 1..Len(hist')
  BY <1>1, <1>2, SMT
<1> QED
  BY <1>1, <1>2, <1>3 DEF WatchInv, Looking

\* What is in etcd now
LEMMA CurrentFact ==
  ASSUME WatchInv
  PROVE  /\ Rev = Len(hist) /\ Rev \in Nat /\ Rev \in 1..Rev /\ Current = hist[Rev] /\ Current \in Records
         /\ Current # None => /\ Current.mod \in 1..Rev
                              /\ \A k \in 1..Rev : Current.mod <= k => hist[k] = Current
<1>1. hist \in Seq(Records) /\ hist # <<>>
  BY DEF WatchInv, Lasts
<1>2. Rev = Len(hist) /\ Rev \in Nat /\ Rev \in 1..Rev /\ Current = hist[Rev] /\ Current \in Records
  BY <1>1, SMT DEF Rev, Current
<1>3. Current # None => Current.mod \in 1..Rev /\ \A k \in Current.mod .. Rev : hist[k] = Current
  BY <1>2 DEF WatchInv, Lasts
<1>4. ASSUME Current # None, NEW k \in 1..Rev, Current.mod <= k PROVE k \in Current.mod .. Rev
  BY <1>2, <1>3, <1>4, SMT
<1> QED
  BY <1>2, <1>3, <1>4

LEMMA OwnerThere == ASSUME NEW r \in Records, r # None PROVE r.owner # ""
BY OwnersAssumption DEF Records

LEMMA NoneIs == None \in Records /\ None.mod = 0
BY DEF Records, None

LEMMA EtcdWrites ==
  ASSUME WatchInv, (\E o \in Owners : PutKey(o)) \/ DeleteKey \/ WriteAnotherKey
  PROVE  WatchInv'
<1>1. ASSUME NEW o \in Owners, PutKey(o) PROVE WatchInv'
  <2>1. PICK x : x = [owner |-> o, mod |-> Rev + 1]
    OBVIOUS
  <2>2. Rev + 1 \in Nat /\ Rev = Len(hist)
    BY CurrentFact, SMT
  <2>3. x \in Records /\ x.mod = Len(hist) + 1
    BY <2>1, <2>2 DEF Records
  <2> QED
    BY <1>1, <2>1, <2>3, WriteInv DEF PutKey
<1>2. CASE DeleteKey
  BY <1>2, NoneIs, WriteInv DEF DeleteKey
<1>3. CASE WriteAnotherKey
  BY <1>3, CurrentFact, WriteInv DEF WriteAnotherKey
<1> QED
  BY <1>1, <1>2, <1>3

LEMMA WatchBegins == WatchInv /\ Watch => WatchInv'
<1> SUFFICES ASSUME WatchInv, Watch PROVE WatchInv'
  OBVIOUS
<1>1. /\ watchPc = "idle" /\ lastRecord' = Current /\ (present' = (Current # None))
      /\ pos' = Rev /\ watchPc' = "watch" /\ hist' = hist
  BY DEF Watch
<1>2. view = None /\ lastEventRevision = 0 /\ typed = TRUE
  BY <1>1 DEF WatchInv
<1>3. /\ view' = Current /\ typed' = TRUE
      /\ lastEventRevision' = IF Current # None THEN Current.mod ELSE 0
  BY <1>2 DEF Watch, Emit, EmitNothing
<1>4. lastEventRevision' \in 0..Rev
  BY <1>3, CurrentFact, SMT
<1> QED
  BY <1>1, <1>3, <1>4, CurrentFact DEF WatchInv, Looking

LEMMA DeliverStep == WatchInv /\ Deliver => WatchInv'
<1> SUFFICES ASSUME WatchInv, Deliver PROVE WatchInv'
  OBVIOUS
<1>1. PICK r : r = pos + 1
  OBVIOUS
<1>2. /\ watchPc = "watch" /\ pos < Rev /\ pos' = r /\ UNCHANGED <<hist, watchPc>>
      /\ IF hist[r] = hist[pos] \/ r <= lastEventRevision
         THEN EmitNothing /\ UNCHANGED <<present, lastRecord>>
         ELSE /\ Emit(EventType(r), IF hist[r] = None THEN hist[pos] ELSE hist[r], r)
              /\ present' = (hist[r] # None)
              /\ lastRecord' = IF hist[r] = None THEN lastRecord ELSE hist[r]
  BY <1>1 DEF Deliver
<1>3. /\ pos \in 1..Rev /\ lastEventRevision \in 0..pos /\ view = hist[pos] /\ (present <=> view # None)
      /\ present => lastRecord = view
      /\ hist \in Seq(Records) /\ typed = TRUE /\ Rev = Len(hist) /\ Rev \in Nat
  BY <1>2, CurrentFact DEF WatchInv, Looking
<1>4. /\ r \in 1..Rev /\ ~(r <= lastEventRevision) /\ r - 1 = pos /\ r \in 0..r
      /\ \A l : l \in 0..pos => l \in 0..r
  BY <1>1, <1>2, <1>3, SMT
<1>5. CASE hist[r] = hist[pos]
  BY <1>2, <1>3, <1>4, <1>5 DEF WatchInv, Looking, EmitNothing
<1>6. CASE hist[r] # hist[pos]
  <2>1. /\ Emit(EventType(r), IF hist[r] = None THEN hist[pos] ELSE hist[r], r)
        /\ (present' = (hist[r] # None))
        /\ lastRecord' = IF hist[r] = None THEN lastRecord ELSE hist[r]
    BY <1>2, <1>4, <1>6
  <2>2. hist[pos] \in Records
    BY <1>3, SMT
  <2>3. lastEventRevision' = r /\ view' = hist[r]
    BY <2>1 DEF Emit, EventType
  <2>4. typed' = TRUE
    <3>1. CASE hist[r] = None
      <4>1. EventType(r) = "released" /\ view # None /\ hist[pos].owner # ""
        BY <1>3, <1>6, <2>2, <3>1, OwnerThere DEF EventType
      <4> QED
        BY <1>3, <2>1, <3>1, <4>1 DEF Emit
    <3>2. CASE hist[r] # None /\ hist[pos] = None
      <4>1. EventType(r) = "acquired" /\ view = None
        BY <1>3, <1>4, <3>2 DEF EventType
      <4> QED
        BY <1>3, <2>1, <3>2, <4>1 DEF Emit
    <3>3. CASE hist[r] # None /\ hist[pos] # None
      <4>1. EventType(r) = "changed" /\ view # None
        BY <1>3, <1>4, <3>3 DEF EventType
      <4> QED
        BY <1>3, <2>1, <3>3, <4>1 DEF Emit
    <3> QED
      BY <3>1, <3>2, <3>3
  <2> QED
    BY <1>2, <1>3, <1>4, <2>1, <2>3, <2>4 DEF WatchInv, Looking
<1> QED
  BY <1>5, <1>6

LEMMA WatchEndsStep == WatchInv /\ WatchEnds => WatchInv'
<1> SUFFICES ASSUME WatchInv, WatchEnds PROVE WatchInv'
  OBVIOUS
<1>1. /\ UNCHANGED <<hist, pos, lastRecord, present, lastEventRevision, view, typed>>
      /\ Looking /\ watchPc' = "reconcile"
  BY DEF WatchEnds, Looking
<1> QED
  BY <1>1 DEF WatchInv, Looking

LEMMA ReconcileStep == WatchInv /\ Reconcile => WatchInv'
<1> SUFFICES ASSUME WatchInv, Reconcile PROVE WatchInv'
  OBVIOUS
<1>1. watchPc = "reconcile" /\ Resume /\ watchPc' = "watch" /\ hist' = hist
  BY DEF Reconcile
<1>2. /\ pos \in 1..Rev /\ lastEventRevision \in 0..pos /\ view = hist[pos] /\ (present <=> view # None)
      /\ present => lastRecord = view
      /\ hist \in Seq(Records) /\ Lasts(hist) /\ typed = TRUE /\ present \in BOOLEAN
  BY <1>1, CurrentFact DEF WatchInv, Looking
<1>3. /\ Rev = Len(hist) /\ Rev \in Nat /\ Rev \in 1..Rev /\ Current = hist[Rev] /\ Current \in Records
      /\ Current # None => /\ Current.mod \in 1..Rev
                           /\ \A k \in 1..Rev : Current.mod <= k => hist[k] = Current
  BY CurrentFact
<1>4. SUFFICES /\ lastEventRevision' \in 0..Rev /\ view' = Current /\ typed' = TRUE
               /\ present' \in BOOLEAN /\ (present' <=> view' # None)
               /\ present' => lastRecord' = view'
  <2>1. ASSUME lastEventRevision' \in 0..Rev PROVE pos' = Rev
    BY <1>1, <1>3, <2>1, SMT DEF Resume
  <2> QED
    BY <1>1, <1>2, <1>3, <2>1 DEF WatchInv, Looking
<1>5. lastEventRevision \in 0..Rev
  BY <1>2, <1>3, SMT
<1>6. CASE /\ Current # None /\ Current.mod > lastEventRevision
           /\ Emit(IF present THEN "changed" ELSE "acquired", Current, Current.mod)
           /\ lastRecord' = Current /\ present' = TRUE
  <2>1. lastEventRevision' = Current.mod /\ view' = Current
    BY <1>6 DEF Emit
  <2>2. Current.mod \in 0..Rev
    BY <1>3, <1>6, SMT
  <2>3. typed' = TRUE
    <3>1. CASE present
      BY <1>2, <1>6, <3>1 DEF Emit
    <3>2. CASE ~present
      BY <1>2, <1>6, <3>2 DEF Emit
    <3> QED
      BY <3>1, <3>2
  <2> QED
    BY <1>6, <2>1, <2>2, <2>3
<1>7. CASE /\ Current = None /\ present /\ Rev > lastEventRevision
           /\ Emit("released", lastRecord, Rev)
           /\ ForgetOwner /\ UNCHANGED lastRecord
  <2>1. hist[pos] \in Records
    BY <1>2, <1>3, SMT
  <2>2. view # None /\ lastRecord.owner # ""
    BY <1>2, <1>7, <2>1, OwnerThere
  <2>3. lastEventRevision' = Rev /\ view' = None /\ typed' = TRUE /\ present' = FALSE
    BY <1>2, <1>7, <2>2 DEF Emit, ForgetOwner
  <2>4. Rev \in 0..Rev
    BY <1>3, SMT
  <2> QED
    BY <1>7, <2>3, <2>4
<1>8. CASE /\ IF Current # None THEN Current.mod <= lastEventRevision ELSE ~present \/ Rev <= lastEventRevision
           /\ EmitNothing /\ UNCHANGED <<present, lastRecord>>
  <2>1. view = Current
    <3>1. CASE Current # None
      <4>1. Current.mod <= pos
        BY <1>2, <1>3, <1>8, <3>1, SMT
      <4> QED
        BY <1>2, <1>3, <3>1, <4>1
    <3>2. CASE Current = None /\ ~present
      BY <1>2, <3>2
    <3>3. CASE Current = None /\ Rev <= lastEventRevision
      <4>1. pos = Rev
        BY <1>2, <1>3, <3>3, SMT
      <4> QED
        BY <1>2, <1>3, <4>1
    <3> QED
      BY <1>8, <3>1, <3>2, <3>3
  <2> QED
    BY <1>2, <1>5, <1>8, <2>1 DEF EmitNothing
<1> QED
  BY <1>6, <1>7, <1>8 DEF Reconcile

LEMMA WatchInitInv == WatchInit => WatchInv
<1> SUFFICES ASSUME WatchInit PROVE WatchInv
  OBVIOUS
<1> USE DEF WatchInit
<1>1. hist \in Seq(Records) /\ hist # <<>> /\ Len(hist) = 1 /\ hist[1] = None
  BY NoneIs, SMT
<1>2. \A r \in 1..1 : r = 1
  BY SMT
<1>3. Lasts(hist)
  BY <1>1, <1>2 DEF Lasts
<1> QED
  BY <1>1, <1>3 DEF WatchInv, Looking

\* For any history of the key and any number of broken watches, the consumer of
\* EtcdOwnershipStore.Watch is told a consistent story and knows the record that the
\* watch has reached (watchLoop, sendOwnershipEvent).
THEOREM ConsumerIsExact == WatchSpec => []ViewExact
<1>1. WatchInv /\ [WatchNext]_watchVars => WatchInv'
  <2> SUFFICES ASSUME WatchInv, [WatchNext]_watchVars PROVE WatchInv'
    OBVIOUS
  <2>1. CASE UNCHANGED watchVars
    BY <2>1 DEF watchVars, WatchInv, Looking
  <2>2. CASE WatchNext
    BY <2>2, EtcdWrites, WatchBegins, DeliverStep, WatchEndsStep, ReconcileStep DEF WatchNext
  <2> QED
    BY <2>1, <2>2
<1>2. WatchInv => ViewExact
  BY DEF WatchInv, Looking, ViewExact
<1> QED
  BY <1>1, <1>2, WatchInitInv, PTL DEF WatchSpec
=============================================================================

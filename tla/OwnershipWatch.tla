--------------------------- MODULE OwnershipWatch ---------------------------
(***************************************************************************)
(* EtcdOwnershipStore.Watch (zDistributed/etcd_ownership.go) on one        *)
(* resource key, with a consumer that replays the events it receives.      *)
(* etcd is external: its history of the key, a watch that delivers every   *)
(* change from a revision on and may end at any time, and linearizable     *)
(* reads.                                                                  *)
(***************************************************************************)
EXTENDS Naturals, Sequences

CONSTANTS Owners, MaxRev

\* validateAcquire refuses a blank token.
ASSUME OwnersAssumption == "" \notin Owners

VARIABLES
  hist,        \* the owner record after every revision of etcd
  watchPc,     \* where watchLoop is
  pos,         \* the revision up to which the etcd watch has delivered
  lastRecord, present, lastEventRevision,
  view,        \* what the consumer believes the owner record is
  typed        \* whether the types of all the events it received made sense to it

watchVars == <<hist, watchPc, pos, lastRecord, present, lastEventRevision, view, typed>>
loop == <<watchPc, pos, lastRecord, present, lastEventRevision, view, typed>>

None == [owner |-> "", mod |-> 0]
Rev == Len(hist)
Current == hist[Rev]

WatchInit ==
  /\ hist = <<None>>
  /\ watchPc = "idle" /\ pos = 0
  /\ lastRecord = None /\ present = FALSE /\ lastEventRevision = 0
  /\ view = None /\ typed = TRUE

-----------------------------------------------------------------------------
(* etcd *)

Write(record) ==
  /\ Rev < MaxRev
  /\ hist' = Append(hist, record)
  /\ UNCHANGED loop

PutKey(o) == Write([owner |-> o, mod |-> Rev + 1])
DeleteKey == Current # None /\ Write(None)
WriteAnotherKey == Write(Current)

-----------------------------------------------------------------------------
(* watchLoop *)

\* sendOwnershipEvent: "acquired" and "changed" carry the record of the owner, "released"
\* the record of the owner that is gone.
Emit(type, record, revision) ==
  /\ lastEventRevision' = revision
  /\ view' = IF type = "released" THEN None ELSE record
  /\ typed' = (typed /\ CASE type = "acquired" -> view = None
                          [] type = "changed" -> view # None
                          [] type = "released" -> view # None /\ record.owner # "")

EmitNothing == UNCHANGED <<lastEventRevision, view, typed>>

\* Watch and the beginning of watchLoop: the snapshot is the first event.
Watch ==
  /\ watchPc = "idle"
  /\ IF Current # None THEN Emit("acquired", Current, Current.mod) ELSE EmitNothing
  /\ lastRecord' = Current /\ present' = (Current # None)
  /\ pos' = Rev
  /\ watchPc' = "watch"
  /\ UNCHANGED hist

\* ownershipEventFromEtcd
EventType(r) ==
  IF hist[r] = None THEN "released" ELSE IF hist[r - 1] = None THEN "acquired" ELSE "changed"

\* The next event of the etcd watch; a revision that did not change the key has none.
Deliver ==
  LET r == pos + 1 IN
  /\ watchPc = "watch" /\ pos < Rev
  /\ pos' = r
  /\ IF hist[r] = hist[pos] \/ r <= lastEventRevision
     THEN EmitNothing /\ UNCHANGED <<present, lastRecord>>
     ELSE /\ Emit(EventType(r), IF hist[r] = None THEN hist[pos] ELSE hist[r], r)
          /\ present' = (hist[r] # None)
          /\ lastRecord' = IF hist[r] = None THEN lastRecord ELSE hist[r]
  /\ UNCHANGED <<hist, watchPc>>

\* The etcd watch is closed or cancelled, or a response has an error.
WatchEnds ==
  /\ watchPc = "watch"
  /\ watchPc' = "reconcile"
  /\ UNCHANGED <<hist, pos, lastRecord, present, lastEventRevision, view, typed>>

\* The next revision to watch from is the one after the snapshot or after the last event.
Resume == pos' = IF Rev >= lastEventRevision' THEN Rev ELSE lastEventRevision'

\* The release that was missed is told once.
ForgetOwnerMutant == UNCHANGED present
ForgetOwner == present' = FALSE

\* getSnapshot succeeds and tells the consumer what it has missed, in one event.
Reconcile ==
  /\ watchPc = "reconcile"
  /\ \/ /\ Current # None /\ Current.mod > lastEventRevision
        /\ Emit(IF present THEN "changed" ELSE "acquired", Current, Current.mod)
        /\ lastRecord' = Current /\ present' = TRUE
     \/ /\ Current = None /\ present /\ Rev > lastEventRevision
        /\ Emit("released", lastRecord, Rev)
        /\ ForgetOwner /\ UNCHANGED lastRecord
     \/ /\ IF Current # None THEN Current.mod <= lastEventRevision ELSE ~present \/ Rev <= lastEventRevision
        /\ EmitNothing /\ UNCHANGED <<present, lastRecord>>
  /\ Resume
  /\ watchPc' = "watch"
  /\ UNCHANGED hist

WatchNext ==
  \/ \E o \in Owners : PutKey(o)
  \/ DeleteKey \/ WriteAnotherKey
  \/ Watch \/ Deliver \/ WatchEnds \/ Reconcile

WatchSpec == WatchInit /\ [][WatchNext]_watchVars

-----------------------------------------------------------------------------
\* Although watches end and changes are missed, a consumer that replays the events of
\* watchLoop never receives one that contradicts what it knows, and while the etcd watch
\* lasts it knows exactly the record of the revision that the watch has reached.
ViewExact ==
  /\ typed
  /\ watchPc = "watch" => view = hist[pos] /\ present = (view # None)
=============================================================================

------------------------------ MODULE EventBus ------------------------------
(***************************************************************************)
(* EventBus (zEvent/event_bus.go): subscribers, goroutines that publish an *)
(* event each through the executor or synchronously, and goroutines that   *)
(* close the bus.  One action per critical section of mu; Close waits on   *)
(* the condition variable stateChanged, whose waiters are explicit, since  *)
(* two kinds of waiter share it.  The executor is a worker pool of another *)
(* library: a bounded queue and a worker, whose Stop drains the queue.     *)
(* Handlers return and do not close the bus.                               *)
(***************************************************************************)
EXTENDS Naturals, Sequences, SequencesExt

CONSTANTS Publishers, Closers, Subscriptions, QueueSize

VARIABLES
  busState, handlers, inFlightSubmissions,
  executor,        \* "none" (NewEventBus), "borrowed" or "owned" (NewEventBusWithPool)
  queue, worker,   \* the executor: tasks accepted, and the task being run
  poolOpen,        \* the executor accepts tasks
  publish,         \* program counter of each publisher
  snapshot,        \* the handlers each publisher's event will be given to
  closer           \* program counter of each goroutine in Close

busVars == <<busState, handlers, inFlightSubmissions, executor, queue, worker, poolOpen, publish, snapshot, closer>>
poolVars == <<queue, worker, poolOpen>>

NoTask == "idle"

EventBusInit ==
  /\ busState = "open" /\ handlers = <<>> /\ inFlightSubmissions = 0
  /\ executor \in {"none", "borrowed", "owned"}
  /\ queue = <<>> /\ worker = NoTask /\ poolOpen = (executor # "none")
  /\ publish = [p \in Publishers |-> "idle"] /\ snapshot = [p \in Publishers |-> <<>>]
  /\ closer = [c \in Closers |-> "idle"]

-----------------------------------------------------------------------------
(* Subscriptions *)

SubscribeChecked(h) ==
  /\ busState = "open" /\ h \notin ToSet(handlers)
  /\ handlers' = Append(handlers, h)
  /\ UNCHANGED <<busState, inFlightSubmissions, executor, poolVars, publish, snapshot, closer>>

UnsubscribeChecked(h) ==
  /\ busState = "open" /\ h \in ToSet(handlers)
  /\ handlers' = SelectSeq(handlers, LAMBDA x : x # h)
  /\ UNCHANGED <<busState, inFlightSubmissions, executor, poolVars, publish, snapshot, closer>>

-----------------------------------------------------------------------------
(* Publishing *)

\* beginAsyncPublish: admission and the snapshot, under mu
BeginAsyncPublish(p) ==
  /\ publish[p] = "idle"
  /\ IF busState # "open" \/ handlers = <<>> \/ executor = "none"
     THEN publish' = [publish EXCEPT ![p] = "rejected"] /\ UNCHANGED <<inFlightSubmissions, snapshot>>
     ELSE /\ publish' = [publish EXCEPT ![p] = "submit"]
          /\ snapshot' = [snapshot EXCEPT ![p] = handlers]
          /\ inFlightSubmissions' = inFlightSubmissions + 1
  /\ UNCHANGED <<busState, handlers, executor, poolVars, closer>>

\* executor.Submit, outside mu: a full or stopped executor refuses.
Submit(p) ==
  /\ publish[p] = "submit"
  /\ IF poolOpen /\ Len(queue) < QueueSize
     THEN queue' = Append(queue, p) /\ publish' = [publish EXCEPT ![p] = "accepted"]
     ELSE UNCHANGED queue /\ publish' = [publish EXCEPT ![p] = "refused"]
  /\ UNCHANGED <<busState, handlers, inFlightSubmissions, executor, worker, poolOpen, snapshot, closer>>

\* stateChanged.Signal: any one waiter wakes up
WokenByMutant ==
  LET Awake(c) == [closer EXCEPT ![c] = IF @ = "drain" THEN "drainWoken" ELSE "awaitWoken"]
      waiting == {c \in Closers : closer[c] \in {"drain", "await"}}
  IN IF waiting = {} THEN {closer} ELSE {Awake(c) : c \in waiting}

\* stateChanged.Broadcast: every waiter wakes up; the one possible value of closer after it
WokenBy ==
  {[c \in Closers |-> CASE closer[c] = "drain" -> "drainWoken"
                        [] closer[c] = "await" -> "awaitWoken"
                        [] OTHER -> closer[c]]}

FinishAsyncSubmission(p) ==
  /\ publish[p] \in {"accepted", "refused"}
  /\ publish' = [publish EXCEPT ![p] = IF @ = "accepted" THEN "submitted" ELSE "rejected"]
  /\ inFlightSubmissions' = inFlightSubmissions - 1
  /\ IF inFlightSubmissions' = 0 THEN closer' \in WokenBy ELSE UNCHANGED closer
  /\ UNCHANGED <<busState, handlers, executor, poolVars, snapshot>>

PublishSyncChecked(p) ==
  /\ publish[p] = "idle" /\ busState = "open"
  /\ publish' = [publish EXCEPT ![p] = "running"]
  /\ snapshot' = [snapshot EXCEPT ![p] = handlers]
  /\ UNCHANGED <<busState, handlers, inFlightSubmissions, executor, poolVars, closer>>

\* runHandlers: the next handler of the snapshot, in the publisher's goroutine or the worker's;
\* a panic is recovered.
RunHandler(p) ==
  /\ publish[p] = "running" \/ worker = p
  /\ snapshot[p] # <<>>
  /\ snapshot' = [snapshot EXCEPT ![p] = Tail(@)]
  /\ UNCHANGED <<busState, handlers, inFlightSubmissions, executor, poolVars, publish, closer>>

SyncReturns(p) ==
  /\ publish[p] = "running" /\ snapshot[p] = <<>>
  /\ publish' = [publish EXCEPT ![p] = "handled"]
  /\ UNCHANGED <<busState, handlers, inFlightSubmissions, executor, poolVars, snapshot, closer>>

WorkerTakes ==
  /\ worker = NoTask /\ queue # <<>>
  /\ worker' = Head(queue) /\ queue' = Tail(queue)
  /\ UNCHANGED <<busState, handlers, inFlightSubmissions, executor, poolOpen, publish, snapshot, closer>>

WorkerDone ==
  /\ worker # NoTask /\ snapshot[worker] = <<>>
  /\ worker' = NoTask
  /\ UNCHANGED <<busState, handlers, inFlightSubmissions, executor, queue, poolOpen, publish, snapshot, closer>>

-----------------------------------------------------------------------------
(* Close *)

\* The loop on inFlightSubmissions; it ends by clearing the handlers.
Drained(c) ==
  IF inFlightSubmissions > 0
  THEN closer' = [closer EXCEPT ![c] = "drain"] /\ UNCHANGED handlers
  ELSE closer' = [closer EXCEPT ![c] = "stop"] /\ handlers' = <<>>

Close(c) ==
  /\ closer[c] = "idle"
  /\ CASE busState = "open"    -> busState' = "closing" /\ Drained(c)
       [] busState = "closing" -> closer' = [closer EXCEPT ![c] = "await"] /\ UNCHANGED <<busState, handlers>>
       [] busState = "closed"  -> closer' = [closer EXCEPT ![c] = "returned"] /\ UNCHANGED <<busState, handlers>>
  /\ UNCHANGED <<inFlightSubmissions, executor, poolVars, publish, snapshot>>

\* A waiter of stateChanged that was woken takes the lock and tests its condition again.
Woken(c) ==
  /\ \/ closer[c] = "drainWoken" /\ Drained(c)
     \/ /\ closer[c] = "awaitWoken" /\ UNCHANGED handlers
        /\ closer' = [closer EXCEPT ![c] = IF busState = "closed" THEN "returned" ELSE "await"]
  /\ UNCHANGED <<busState, inFlightSubmissions, executor, poolVars, publish, snapshot>>

\* owned.Stop: refuses new tasks and returns when those it accepted have run.
StopOwned(c) ==
  /\ closer[c] = "stop"
  /\ IF executor = "owned" THEN poolOpen' = FALSE ELSE UNCHANGED poolOpen
  /\ closer' = [closer EXCEPT ![c] = "final"]
  /\ UNCHANGED <<busState, handlers, inFlightSubmissions, executor, queue, worker, publish, snapshot>>

CloseFinal(c) ==
  /\ closer[c] = "final"
  /\ executor = "owned" => queue = <<>> /\ worker = NoTask
  /\ busState' = "closed"
  /\ \E woken \in WokenBy : closer' = [woken EXCEPT ![c] = "returned"]
  /\ UNCHANGED <<handlers, inFlightSubmissions, executor, poolVars, publish, snapshot>>

-----------------------------------------------------------------------------
PublisherStep(p) == Submit(p) \/ FinishAsyncSubmission(p) \/ (publish[p] = "running" /\ RunHandler(p)) \/ SyncReturns(p)
WorkerStep == WorkerTakes \/ WorkerDone \/ \E p \in Publishers : worker = p /\ RunHandler(p)
CloserStep(c) == Woken(c) \/ StopOwned(c) \/ CloseFinal(c)

EventBusNext ==
  \/ \E h \in Subscriptions : SubscribeChecked(h) \/ UnsubscribeChecked(h)
  \/ \E p \in Publishers : BeginAsyncPublish(p) \/ PublishSyncChecked(p) \/ PublisherStep(p)
  \/ WorkerStep
  \/ \E c \in Closers : Close(c) \/ CloserStep(c)

\* Goroutines that are not blocked run.
EventBusFairness ==
  /\ \A p \in Publishers : WF_busVars(PublisherStep(p))
  /\ WF_busVars(WorkerStep)
  /\ \A c \in Closers : WF_busVars(CloserStep(c))

EventBusSpec == EventBusInit /\ [][EventBusNext]_busVars /\ EventBusFairness

-----------------------------------------------------------------------------
(* Properties *)

\* Close "atomically rejects new operations, waits only for in-flight executor submissions, then
\* clears subscriptions ... the compatibility pool is drained": once the bus is closed no
\* publisher is between its admission and the end of its submission, nobody is subscribed, an
\* owned pool has given every event it accepted to every handler of its snapshot.
ClosedMeansQuiet ==
  busState = "closed" =>
    /\ inFlightSubmissions = 0 /\ handlers = <<>>
    /\ \A p \in Publishers : publish[p] \notin {"submit", "accepted", "refused"}
    /\ executor = "owned" =>
         /\ queue = <<>> /\ worker = NoTask /\ ~poolOpen
         /\ \A p \in Publishers : publish[p] = "submitted" => snapshot[p] = <<>>

Undelivered == {p \in Publishers : publish[p] = "submitted" /\ snapshot[p] # <<>>}

\* Every Close returns, also when several goroutines close while submissions are under way and
\* all wait on one condition variable, and it leaves the bus quiet; and every event accepted by
\* PublishChecked reaches every handler of its snapshot.
BusCloseReturns ==
  /\ []ClosedMeansQuiet
  /\ (\E c \in Closers : closer[c] # "idle") ~> (\A c \in Closers : closer[c] \in {"idle", "returned"})
  /\ (Undelivered # {}) ~> (Undelivered = {})
=============================================================================

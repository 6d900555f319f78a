---------------------------- MODULE MCLifecycle -----------------------------
(***************************************************************************)
(* The parts with a start and an orderly end that others wait for, for     *)
(* TLC: BaseServer, EventBus and HealthManager.  A behaviour is about the  *)
(* one that under names, and is fair to it as its module says.             *)
(***************************************************************************)
EXTENDS Naturals

CONSTANTS Cleanups, Tasks, Stoppers,                    \* BaseServer
          Publishers, Closers, Subscriptions, QueueSize, \* EventBus
          Names, Refreshers, MaxEntries, MaxCalls        \* HealthManager

VARIABLES under,
  startPc, startClaimed, startDone, startSucceeded, stopping, isRunning, serverState, cancelled,
  cleanups, cleanupClosed, stopPc, batch, stopDone, stopper, task, registered, ran,
  busState, handlers, inFlightSubmissions, executor, queue, worker, poolOpen, publish, snapshot, closer,
  entries, entry, nextEntry, call, refresh

baseVars == <<startPc, startClaimed, startDone, startSucceeded, stopping, isRunning, serverState, cancelled,
              cleanups, cleanupClosed, stopPc, batch, stopDone, stopper, task, registered, ran>>
busVars == <<busState, handlers, inFlightSubmissions, executor, queue, worker, poolOpen, publish,
             snapshot, closer>>
healthVars == <<entries, entry, nextEntry, call, refresh>>

Base == INSTANCE BaseServer
Bus == INSTANCE EventBus
Health == INSTANCE HealthManager

Init ==
  /\ under \in {"server", "bus", "health"}
  /\ Base!BaseServerInit /\ Health!HealthInit
  /\ Bus!EventBusInit /\ (under # "bus" => executor = "none")

Next ==
  \/ under = "server" /\ Base!BaseServerNext /\ UNCHANGED <<under, busVars, healthVars>>
  \/ under = "bus" /\ Bus!EventBusNext /\ UNCHANGED <<under, baseVars, healthVars>>
  \/ under = "health" /\ Health!HealthNext /\ UNCHANGED <<under, baseVars, busVars>>

Fairness ==
  /\ WF_baseVars(under = "server" /\ Base!StartStep) /\ WF_baseVars(under = "server" /\ Base!StopStep)
  /\ \A t \in Tasks : WF_baseVars(under = "server" /\ cancelled /\ Base!TaskReturns(t))
  /\ \A c \in Base!Callers : WF_baseVars(under = "server" /\ Base!StopReturns(c))
  /\ \A p \in Publishers : WF_busVars(under = "bus" /\ Bus!PublisherStep(p))
  /\ WF_busVars(under = "bus" /\ Bus!WorkerStep)
  /\ \A c \in Closers : WF_busVars(under = "bus" /\ Bus!CloserStep(c))
  /\ \A c \in 1..MaxCalls : /\ WF_healthVars(under = "health" /\ Health!ExecutorStep(c))
                            /\ WF_healthVars(under = "health" /\ Health!CheckEnds(c))
  /\ \A r \in Refreshers : WF_healthVars(under = "health" /\ Health!RefreshReturns(r))

Spec == Init /\ [][Next]_<<under, baseVars, busVars, healthVars>> /\ Fairness

-----------------------------------------------------------------------------
(* The properties, under the names they have in the modules *)

\* StopWithError and Start return, and a stop is complete (BaseServer).
StopCallsReturn == Base!StopCallsReturn

\* Close returns and leaves the bus quiet, and accepted events are delivered (EventBus).
BusCloseReturns == Bus!BusCloseReturns

\* Rounds end although probes hang, and no probe is called twice at a time (HealthManager).
RoundEnds == Health!RoundEnds
=============================================================================

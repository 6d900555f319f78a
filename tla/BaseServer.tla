----------------------------- MODULE BaseServer -----------------------------
(***************************************************************************)
(* BaseServer (zServer/lifecycle.go, state.go, cleanup.go, server.go): the *)
(* life of a server process.  Start runs the application's hooks;          *)
(* StopWithError, called by any number of goroutines and by Start itself,  *)
(* is one stop transaction that waits for a Start under way.  Meanwhile    *)
(* goroutines of the application register cleanups, start background tasks *)
(* and move the server through its seven states.  Hooks, cleanups and      *)
(* tasks return, tasks once the context is cancelled; they do not call     *)
(* Stop.                                                                   *)
(***************************************************************************)
EXTENDS Naturals, Sequences, SequencesExt

CONSTANTS Cleanups,     \* names given to RegisterCleanup
          Tasks,        \* names given to StartBackground
          Stoppers      \* goroutines that call StopWithError

VARIABLES
  startPc,         \* program counter of Start
  startClaimed, startDone, startSucceeded, stopping, isRunning, serverState, cancelled,
  cleanups,        \* s.cleanups
  cleanupClosed,
  stopPc,          \* program counter of the stop transaction in stopOnce
  batch,           \* the cleanups runCleanups has still to call
  stopDone,
  stopper,         \* per goroutine: "idle", "called", "returned"
  task,            \* per background task: "none", "running", "done"
  registered,      \* history: every cleanup whose registration succeeded, in order
  ran              \* history: the cleanups that were called, in order

serverVars == <<startPc, startClaimed, startDone, startSucceeded, stopping, isRunning, serverState, cancelled,
                cleanups, cleanupClosed, stopPc, batch, stopDone, stopper, task, registered, ran>>
startVars == <<startPc, startClaimed, startDone, startSucceeded>>
cleanupVars == <<cleanups, cleanupClosed, batch, registered, ran>>
stopVars == <<stopping, stopPc, stopDone>>

ServerStates == {"starting", "initializing", "ready", "healthy", "draining", "maintenance", "stopped"}
Callers == Stoppers \cup {"start"}

BaseServerTypeOK ==
  /\ startPc \in {"idle", "beforeStart", "afterStart", "complete", "failed", "stop", "running", "returned"}
  /\ {startClaimed, startDone, startSucceeded, stopping, isRunning, cancelled, cleanupClosed, stopDone} \subseteq BOOLEAN
  /\ serverState \in ServerStates
  /\ stopPc \in {"idle", "claim", "wait", "drain", "beforeStop", "cancel", "collect", "cleanup", "stopped", "done"}
  /\ stopper \in [Callers -> {"idle", "called", "returned"}]
  /\ task \in [Tasks -> {"none", "running", "done"}]

BaseServerInit ==
  /\ startPc = "idle" /\ startClaimed = FALSE /\ startDone = FALSE /\ startSucceeded = FALSE
  /\ stopping = FALSE /\ isRunning = FALSE /\ serverState = "starting" /\ cancelled = FALSE
  /\ cleanups = <<>> /\ cleanupClosed = FALSE /\ batch = <<>> /\ registered = <<>> /\ ran = <<>>
  /\ stopPc = "idle" /\ stopDone = FALSE
  /\ stopper = [c \in Callers |-> "idle"] /\ task = [t \in Tasks |-> "none"]

-----------------------------------------------------------------------------
(* The state machine *)

CanTransitionTo(from, to) ==
  CASE from = "starting"     -> to \in {"initializing", "draining", "stopped"}
    [] from = "initializing" -> to \in {"ready", "maintenance", "draining", "stopped"}
    [] from = "ready"        -> to \in {"healthy", "maintenance", "draining", "stopped"}
    [] from = "healthy"      -> to \in {"ready", "maintenance", "draining", "stopped"}
    [] from = "draining"     -> to = "stopped"
    [] from = "maintenance"  -> to \in {"ready", "healthy", "draining", "stopped"}
    [] from = "stopped"      -> FALSE

\* SetState; a refused transition is an error and changes nothing.
SetState(to) == serverState' = IF CanTransitionTo(serverState, to) THEN to ELSE serverState

\* Initialize, Ready, Healthy, Drain, EnterMaintenance and ExitMaintenance of the application
AppSetState ==
  /\ \E to \in ServerStates \ {"starting", "stopped"} : CanTransitionTo(serverState, to) /\ SetState(to)
  /\ UNCHANGED <<startVars, stopVars, cleanupVars, isRunning, cancelled, stopper, task>>

-----------------------------------------------------------------------------
(* Start *)

\* The claim, under lifecycleMu; a second Start returns an error.
StartClaim ==
  /\ startPc = "idle" /\ ~startClaimed
  /\ IF stopping \/ serverState = "stopped"
     THEN startPc' = "returned" /\ UNCHANGED startClaimed
     ELSE startPc' = "beforeStart" /\ startClaimed' = TRUE
  /\ UNCHANGED <<startDone, startSucceeded, isRunning, serverState, cancelled, stopVars, cleanupVars, stopper, task>>

\* OnBeforeStart and OnAfterStart return nil, or an error or a panic.
StartHook ==
  /\ \/ startPc = "beforeStart" /\ startPc' \in {"afterStart", "failed"}
     \/ startPc = "afterStart" /\ startPc' \in {"complete", "failed"}
  /\ UNCHANGED <<startClaimed, startDone, startSucceeded, isRunning, serverState, cancelled, stopVars, cleanupVars, stopper, task>>

\* The second critical section; a failed or interrupted Start goes on in StopWithError.
StartComplete ==
  /\ startPc \in {"complete", "failed"}
  /\ startSucceeded' = (startPc = "complete")
  /\ isRunning' = ((startPc = "complete" /\ ~stopping) \/ isRunning)
  /\ startDone' = TRUE
  /\ IF startPc = "failed" \/ stopping
     THEN startPc' = "stop" /\ stopper' = [stopper EXCEPT !["start"] = "called"]
     ELSE startPc' = "running" /\ UNCHANGED stopper
  /\ UNCHANGED <<startClaimed, serverState, cancelled, stopVars, cleanupVars, task>>

-----------------------------------------------------------------------------
(* Resources of the application *)

Register(n) ==
  /\ ~cleanupClosed /\ n \notin ToSet(registered)
  /\ cleanups' = Append(cleanups, n) /\ registered' = Append(registered, n)
  /\ UNCHANGED <<cleanupClosed, batch, ran, startVars, stopVars, isRunning, serverState, cancelled, stopper>>

RegisterCleanup(n) == n \in Cleanups /\ Register(n) /\ UNCHANGED task

\* The barrier is registered first, then the task runs.
StartBackground(t) == t \in Tasks /\ Register(t) /\ task' = [task EXCEPT ![t] = "running"]

TaskReturns(t) ==
  /\ task[t] = "running" /\ task' = [task EXCEPT ![t] = "done"]
  /\ UNCHANGED <<startVars, stopVars, cleanupVars, isRunning, serverState, cancelled, stopper>>

-----------------------------------------------------------------------------
(* StopWithError *)

\* A goroutine calls it, or a Run that has started the server and got its signal.
StopCall(c) ==
  /\ c \in Stoppers /\ stopper[c] = "idle"
  /\ stopper' = [stopper EXCEPT ![c] = "called"]
  /\ UNCHANGED <<startVars, stopVars, cleanupVars, isRunning, serverState, cancelled, task>>

StopAt(p) == stopPc' = p /\ UNCHANGED <<startPc, startClaimed, startSucceeded, stopDone, stopper, task>>

\* stopOnce.Do: the first caller sets stopping before it takes the lock.
StopBegin ==
  /\ stopPc = "idle" /\ \E c \in Callers : stopper[c] = "called"
  /\ stopping' = TRUE
  /\ StopAt("claim") /\ UNCHANGED <<startDone, isRunning, serverState, cancelled, cleanupVars>>

\* Waiting for a Start that nobody has called
StopClaimMutant ==
  /\ stopPc = "claim"
  /\ StopAt("wait") /\ UNCHANGED <<startDone, stopping, isRunning, serverState, cancelled, cleanupVars>>

StopClaim ==
  /\ stopPc = "claim"
  /\ startDone' = (startDone \/ ~startClaimed)
  /\ StopAt("wait") /\ UNCHANGED <<stopping, isRunning, serverState, cancelled, cleanupVars>>

StopWait ==
  /\ stopPc = "wait" /\ startDone
  /\ StopAt(IF startSucceeded THEN "drain" ELSE "cancel")
  /\ isRunning' = (startSucceeded /\ isRunning)
  /\ UNCHANGED <<startDone, stopping, serverState, cancelled, cleanupVars>>

StopDrain ==
  /\ stopPc = "drain"
  /\ SetState("draining") /\ StopAt("beforeStop")
  /\ UNCHANGED <<startDone, stopping, isRunning, cancelled, cleanupVars>>

\* isRunning is cleared, then OnBeforeStop runs.
StopBeforeStop ==
  /\ stopPc = "beforeStop"
  /\ isRunning' = FALSE
  /\ StopAt("cancel") /\ UNCHANGED <<startDone, stopping, serverState, cancelled, cleanupVars>>

StopCancel ==
  /\ stopPc = "cancel"
  /\ cancelled' = TRUE
  /\ StopAt("collect") /\ UNCHANGED <<startDone, stopping, isRunning, serverState, cleanupVars>>

\* runCleanups closes the registration and takes the list, under cleanupMu.
RunCleanups ==
  /\ stopPc = "collect"
  /\ cleanupClosed' = TRUE /\ batch' = cleanups /\ cleanups' = <<>>
  /\ StopAt("cleanup")
  /\ UNCHANGED <<startDone, stopping, isRunning, serverState, cancelled, registered, ran>>

\* The last one first; the barrier of a task waits for the task.  Errors and panics go on.
CallCleanup ==
  /\ stopPc = "cleanup" /\ batch # <<>>
  /\ Last(batch) \in Tasks => task[Last(batch)] = "done"
  /\ ran' = Append(ran, Last(batch)) /\ batch' = Front(batch)
  /\ StopAt("cleanup")
  /\ UNCHANGED <<startDone, stopping, isRunning, serverState, cancelled, cleanups, cleanupClosed, registered>>

\* OnAfterStop, and the final state
StopStopped ==
  /\ stopPc = "cleanup" /\ batch = <<>>
  /\ SetState("stopped") /\ StopAt("stopped")
  /\ UNCHANGED <<startDone, stopping, isRunning, cancelled, cleanupVars>>

StopDone ==
  /\ stopPc = "stopped"
  /\ stopPc' = "done" /\ stopDone' = TRUE
  /\ UNCHANGED <<startVars, stopping, isRunning, serverState, cancelled, cleanupVars, stopper, task>>

StopReturns(c) ==
  /\ stopper[c] = "called" /\ stopDone
  /\ stopper' = [stopper EXCEPT ![c] = "returned"]
  /\ startPc' = IF c = "start" THEN "returned" ELSE startPc
  /\ UNCHANGED <<startClaimed, startDone, startSucceeded, stopVars, isRunning, serverState, cancelled, cleanupVars, task>>

-----------------------------------------------------------------------------
StartStep == StartHook \/ StartComplete
StopStep ==
  \/ StopBegin \/ StopClaim \/ StopWait \/ StopDrain \/ StopBeforeStop \/ StopCancel
  \/ RunCleanups \/ CallCleanup \/ StopStopped \/ StopDone

BaseServerNext ==
  \/ AppSetState \/ StartClaim \/ StartStep \/ StopStep
  \/ \E n \in Cleanups : RegisterCleanup(n)
  \/ \E t \in Tasks : StartBackground(t) \/ TaskReturns(t)
  \/ \E c \in Callers : StopCall(c) \/ StopReturns(c)

\* Goroutines run; hooks and cleanups return; a task returns when its context is cancelled.
BaseServerFairness ==
  /\ WF_serverVars(StartStep) /\ WF_serverVars(StopStep)
  /\ \A t \in Tasks : WF_serverVars(cancelled /\ TaskReturns(t))
  /\ \A c \in Callers : WF_serverVars(StopReturns(c))

BaseServerSpec == BaseServerInit /\ [][BaseServerNext]_serverVars /\ BaseServerFairness

-----------------------------------------------------------------------------
(* Properties *)

\* Wait "returns only after cleanup, the optional after-stop hook, and the final Stopped state
\* have completed", and cleanups "run once in reverse order on both startup rollback and normal
\* shutdown": however Start, Stop and the registrations overlap, after the stop transaction
\* everything ever registered has been called once, the latest first, no background task runs,
\* the server is not running, and the state is final.
StoppedIsComplete ==
  stopDone => /\ serverState = "stopped" /\ ~isRunning /\ cancelled
              /\ ran = Reverse(registered)
              /\ \A t \in Tasks : task[t] # "running"

\* "Concurrent and repeated callers wait for, and receive, the same aggregate result": every call
\* of StopWithError returns, also before, during and after Start, and so does a Start that has
\* begun; and what they return after is a complete stop.
StopCallsReturn ==
  /\ []StoppedIsComplete
  /\ (\E c \in Callers : stopper[c] = "called") ~> (\A c \in Callers : stopper[c] # "called")
  /\ startPc = "beforeStart" ~> startPc \in {"running", "returned"}
=============================================================================

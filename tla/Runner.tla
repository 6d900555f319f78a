------------------------------- MODULE Runner -------------------------------
(***************************************************************************)
(* zActor/runner.go: the single-writer closure serializer.  Each client    *)
(* makes one call (DoContext, PostContext or TryPost), each stopper calls  *)
(* StopContext, and the goroutine started by Start executes the commands.  *)
(*                                                                         *)
(* One action is one critical section of r.mu, one channel operation, or   *)
(* the return of a command.  stopCh and doneCh are closed in the critical  *)
(* sections that set the state, so they are read off it.  A client that is *)
(* about to block and one that is blocked are both at "wait": a token in   *)
(* spaceCh may go to any of them.                                          *)
(***************************************************************************)
EXTENDS Naturals, Sequences, FiniteSets

CONSTANTS Clients, Stoppers,
          QueueSize  \* capacity of cmdCh

VARIABLES
  runnerState,       \* r.state
  cmdCh,             \* commands waiting, named by the client that posted them
  spaceCh,           \* tokens in spaceCh, which has capacity 1
  rpc,               \* program counter of run / drainAndStop
  cmd,               \* command the goroutine has received; empty sequence when none
  cancelled,         \* clients and stoppers whose ctx is done
  clientPc, result,  \* of each client; "idle" before its call
  kind,              \* the method each client calls
  stop,              \* progress of each StopContext call
  admitted,          \* history: commands in the order cmdCh accepted them
  handled,           \* history: commands in the order the goroutine finished with them
  started            \* history: commands whose fn was called

goroutineVars == <<rpc, cmd, handled, started>>
clientVars == <<clientPc, kind, result, admitted>>
runnerVars == <<runnerState, cmdCh, spaceCh, cancelled, stop, goroutineVars, clientVars>>

stopChClosed == runnerState \in {"stopping", "stopped"}
doneChClosed == runnerState = "stopped"

Errors == {"ctx", "full", "new", "stopping", "stopped", "panic"}

RunnerInit ==
  /\ runnerState = "new"
  /\ cmdCh = <<>> /\ spaceCh = 0
  /\ rpc = "none" /\ cmd = <<>>
  /\ cancelled = {}
  /\ clientPc = [c \in Clients |-> "idle"]
  /\ kind \in [Clients -> {"do", "post", "try"}]
  /\ result = [c \in Clients |-> "none"]
  /\ stop = [s \in Stoppers |-> "idle"]
  /\ admitted = <<>> /\ handled = <<>> /\ started = {}

-----------------------------------------------------------------------------
\* Start: a second call, or one after a stop, has no effect.
StartRunner ==
  /\ runnerState = "new"
  /\ runnerState' = "running"
  /\ rpc' = "top"
  /\ UNCHANGED <<cmdCh, spaceCh, cancelled, stop, cmd, handled, started, clientVars>>

\* The context of a client or a stopper expires; TryPost has none.
Cancel(x) ==
  /\ x \notin cancelled
  /\ x \in Clients => kind[x] # "try" /\ clientPc[x] # "returned"
  /\ x \in Stoppers => stop[x] = "waiting"
  /\ cancelled' = cancelled \cup {x}
  /\ UNCHANGED <<runnerState, cmdCh, spaceCh, stop, goroutineVars, clientVars>>

-----------------------------------------------------------------------------
(* DoContext, PostContext, TryPost and admit *)

Return(c, r) ==
  /\ clientPc' = [clientPc EXCEPT ![c] = "returned"]
  /\ result' = [result EXCEPT ![c] = r]

\* The critical section of admit: state, then ctx, then a non-blocking send.
Admit(c) ==
  /\ clientPc[c] \in {"idle", "admit"}
  /\ \/ /\ runnerState # "running"
        /\ Return(c, runnerState)
        /\ UNCHANGED <<cmdCh, admitted>>
     \/ /\ runnerState = "running" /\ c \in cancelled
        /\ Return(c, "ctx")
        /\ UNCHANGED <<cmdCh, admitted>>
     \/ /\ runnerState = "running" /\ c \notin cancelled /\ Len(cmdCh) < QueueSize
        /\ cmdCh' = Append(cmdCh, c)
        /\ admitted' = Append(admitted, c)
        /\ IF kind[c] = "do"
           THEN clientPc' = [clientPc EXCEPT ![c] = "await"] /\ UNCHANGED result
           ELSE Return(c, "nil")
     \/ /\ runnerState = "running" /\ c \notin cancelled /\ Len(cmdCh) = QueueSize
        /\ IF kind[c] = "try"
           THEN Return(c, "full")
           ELSE clientPc' = [clientPc EXCEPT ![c] = "wait"] /\ UNCHANGED result
        /\ UNCHANGED <<cmdCh, admitted>>
  /\ UNCHANGED <<runnerState, spaceCh, cancelled, stop, kind, goroutineVars>>

\* The blocking select of admit; Go picks any ready case.
Wait(c) ==
  /\ clientPc[c] = "wait"
  /\ \/ c \in cancelled /\ Return(c, "ctx") /\ UNCHANGED spaceCh
     \/ stopChClosed /\ Return(c, runnerState) /\ UNCHANGED spaceCh
     \/ /\ spaceCh = 1
        /\ spaceCh' = 0
        /\ clientPc' = [clientPc EXCEPT ![c] = "admit"]
        /\ UNCHANGED result
  /\ UNCHANGED <<runnerState, cmdCh, cancelled, stop, kind, goroutineVars, admitted>>

-----------------------------------------------------------------------------
(* StopContext *)

Stop(s) ==
  /\ stop[s] = "idle"
  /\ \/ /\ runnerState = "new"
        /\ runnerState' = "stopped"
        /\ stop' = [stop EXCEPT ![s] = "nil"]
     \/ /\ runnerState \in {"running", "stopping"}
        /\ runnerState' = "stopping"
        /\ stop' = [stop EXCEPT ![s] = "waiting"]
     \/ /\ runnerState = "stopped"
        /\ stop' = [stop EXCEPT ![s] = "nil"]
        /\ UNCHANGED runnerState
  /\ UNCHANGED <<cmdCh, spaceCh, cancelled, goroutineVars, clientVars>>

StopReturn(s) ==
  /\ stop[s] = "waiting"
  /\ \/ doneChClosed /\ stop' = [stop EXCEPT ![s] = "nil"]
     \/ s \in cancelled /\ stop' = [stop EXCEPT ![s] = "ctx"]
  /\ UNCHANGED <<runnerState, cmdCh, spaceCh, cancelled, goroutineVars, clientVars>>

-----------------------------------------------------------------------------
(* The goroutine *)

Receive ==
  /\ cmdCh # <<>>
  /\ cmd' = <<Head(cmdCh)>>
  /\ cmdCh' = Tail(cmdCh)
  /\ rpc' = "signal"

RunTop ==
  /\ rpc = "top"
  /\ rpc' = IF stopChClosed THEN "drain" ELSE "select"
  /\ UNCHANGED <<runnerState, cmdCh, spaceCh, cancelled, stop, cmd, handled, started, clientVars>>

SelectMutant ==
  /\ rpc = "select"
  /\ Receive
  /\ UNCHANGED <<runnerState, spaceCh, cancelled, stop, handled, started, clientVars>>

Select ==
  /\ rpc = "select"
  /\ \/ Receive
     \/ stopChClosed /\ rpc' = "drain" /\ UNCHANGED <<cmdCh, cmd>>
  /\ UNCHANGED <<runnerState, spaceCh, cancelled, stop, handled, started, clientVars>>

DrainAndStopMutant ==
  /\ rpc = "drain"
  /\ rpc' = "none" /\ runnerState' = "stopped" /\ cmdCh' = <<>> /\ UNCHANGED cmd
  /\ UNCHANGED <<spaceCh, cancelled, stop, handled, started, clientVars>>

\* drainAndStop: the admission is closed, so an empty queue stays empty.
DrainAndStop ==
  /\ rpc = "drain"
  /\ \/ Receive /\ UNCHANGED runnerState
     \/ cmdCh = <<>> /\ rpc' = "none" /\ runnerState' = "stopped" /\ UNCHANGED <<cmdCh, cmd>>
  /\ UNCHANGED <<spaceCh, cancelled, stop, handled, started, clientVars>>

SignalQueueSpace ==
  /\ rpc = "signal"
  /\ spaceCh' = 1
  /\ rpc' = "execute"
  /\ UNCHANGED <<runnerState, cmdCh, cancelled, stop, cmd, handled, started, clientVars>>

\* complete: the result goes to the DoContext call that awaits it.
Complete(r) ==
  /\ LET c == Head(cmd) IN
       IF kind[c] = "do" THEN Return(c, r) ELSE UNCHANGED <<clientPc, result>>
  /\ handled' = handled \o cmd
  /\ cmd' = <<>>
  /\ rpc' = IF runnerState = "stopping" THEN "drain" ELSE "top"

ExecuteMutant ==
  /\ rpc = "execute"
  /\ LET c == Head(cmd) IN
       /\ started' = started \cup {c}
       /\ IF kind[c] = "do" /\ c \in cancelled
          THEN Complete("ctx")
          ELSE rpc' = "fn" /\ UNCHANGED <<cmd, handled, clientPc, result>>
  /\ UNCHANGED <<runnerState, cmdCh, spaceCh, cancelled, stop, kind, admitted>>

\* execute: DoContext commands whose ctx is done are not started.
Execute ==
  /\ rpc = "execute"
  /\ LET c == Head(cmd) IN
       IF kind[c] = "do" /\ c \in cancelled
       THEN Complete("ctx") /\ UNCHANGED started
       ELSE /\ started' = started \cup {c}
            /\ rpc' = "fn"
            /\ UNCHANGED <<cmd, handled, clientPc, result>>
  /\ UNCHANGED <<runnerState, cmdCh, spaceCh, cancelled, stop, kind, admitted>>

\* The command returns or panics; safeExec recovers.
FnReturn ==
  /\ rpc = "fn"
  /\ \E r \in {"nil", "panic"} : Complete(r)
  /\ UNCHANGED <<runnerState, cmdCh, spaceCh, cancelled, stop, kind, admitted, started>>

Goroutine == RunTop \/ Select \/ DrainAndStop \/ SignalQueueSpace \/ Execute \/ FnReturn
Client(c) == Admit(c) \/ Wait(c)

RunnerNext ==
  \/ StartRunner \/ Goroutine
  \/ \E c \in Clients : Client(c)
  \/ \E s \in Stoppers : Stop(s) \/ StopReturn(s)
  \/ \E x \in Clients \cup Stoppers : Cancel(x)

RunnerSpec == RunnerInit /\ [][RunnerNext]_runnerVars

\* Commands return and goroutines that can run are scheduled; nobody has to call.
RunnerFairness ==
  /\ WF_runnerVars(Goroutine)
  /\ \A c \in Clients : WF_runnerVars(clientPc[c] # "idle" /\ Client(c))
  /\ \A s \in Stoppers : WF_runnerVars(StopReturn(s))

FairRunner == RunnerSpec /\ RunnerFairness

-----------------------------------------------------------------------------
\* Conservation and order: every admitted command is handled once, in the order of
\* admission, whatever the interleaving of clients, stop and the drain.
FifoConservation == admitted = handled \o cmd \o cmdCh

\* An error means that the command has not run and never will: a refusal, a
\* cancellation or a stop seen by the caller cannot race with its execution.  The
\* other way round, DoContext returns nil or a panic only after fn ended, and when
\* StopContext returns nil no admitted command is left, and none will run.
ResultTruthful ==
  /\ \A c \in Clients :
       /\ result[c] \in Errors \ {"panic"} => c \notin started
       /\ kind[c] = "do" /\ result[c] \in {"nil", "panic"} =>
            c \in started /\ \E i \in DOMAIN handled : handled[i] = c
  /\ (\E s \in Stoppers : stop[s] = "nil") =>
       handled = admitted /\ cmdCh = <<>> /\ rpc = "none"

\* The commands PostContext or TryPost returned nil for and that have not run
Owed == {c \in Clients : clientPc[c] = "returned" /\ kind[c] # "do" /\ result[c] = "nil"} \ started

\* PostContext: "after nil the command belongs to the Runner and the stop flow runs it"; and
\* StopContext's promise: the runner drains and reaches stopped even if every waiting
\* stopper has given up.
AdmittedRuns ==
  /\ (Owed # {}) ~> (Owed = {})
  /\ (runnerState = "stopping") ~> (runnerState = "stopped")

\* admit waits for capacity, for ctx or for the stop (the comment of PostContext): a
\* caller in its select does not stay there.
WaitersProceed == \A c \in Clients : (clientPc[c] = "wait") ~> (clientPc[c] # "wait")
=============================================================================

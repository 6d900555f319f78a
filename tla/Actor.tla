------------------------------- MODULE Actor --------------------------------
(***************************************************************************)
(* The lifecycle of a BaseActor (zActor/actor.go): generations, orderly    *)
(* stop, panics and supervised restart, with senders that race with all of *)
(* them.  Each Start makes a new actorRun; run g is the g-th one, and its  *)
(* goroutine (first the caller of Start, then the consumer) is at pc[g].   *)
(*                                                                         *)
(* One action is one critical section of a.mu with the unlocked code that  *)
(* leads to it, one channel operation, or one callback.  Which lane a      *)
(* message is taken from is the subject of ActorScheduler; here the three  *)
(* priority lanes are one set.  The two channel operations of SendLatest   *)
(* are one step: a consumer that looks between them finds the slot empty   *)
(* and looks again.                                                        *)
(***************************************************************************)
EXTENDS Integers, FiniteSets

CONSTANTS
  Messages,    \* each is sent at most once
  MaxGen,      \* bound: calls of Start that succeed
  Cap,         \* capacity of the lanes
  MaxRestarts  \* supervisorCfg.MaxRestarts

ASSUME ActorAssumption == MaxGen \in Nat

VARIABLES
  strategy,      \* supervisorCfg.Strategy
  state,         \* a.state
  current,       \* the run a.current points to, 0 before the first Start
  restartTimes,  \* len(a.restartTimes)
  mail, latest,  \* messages in the priority lanes and in the latest slot
  accepted, replaced, abandoned,  \* what the counters of ActorStats count
  processed,     \* messages ProcessMessage returned from or panicked on
  pc, busy,      \* where run g is, and the message it is processing
  stopCh,        \* runs whose stopCh is closed
  onStops        \* number of OnStop calls per run

lifeVars == <<state, current, restartTimes, stopCh>>
mailVars == <<mail, latest, accepted, replaced, abandoned>>
runVars == <<processed, busy, onStops>>
vars == <<strategy, lifeVars, mailVars, runVars, pc>>

Runs == 1..MaxGen
Processing == {"process", "drainProcess", "lastProcess"}

Init ==
  /\ strategy \in {"restart", "stop"}
  /\ state = "new" /\ current = 0 /\ restartTimes = 0
  /\ mail = {} /\ latest = {}
  /\ accepted = {} /\ replaced = {} /\ abandoned = {} /\ processed = {}
  /\ pc = [g \in Runs |-> "none"]
  /\ busy = [g \in Runs |-> {}]
  /\ stopCh = {}
  /\ onStops = [g \in Runs |-> 0]

At(g, l) == pc[g] = l
Goto(g, l) == pc' = [pc EXCEPT ![g] = l]

-----------------------------------------------------------------------------
(* Calls from outside *)

\* Start, up to the call of OnStart; in any other state it returns an error.
Start ==
  /\ state \in {"new", "stopped"}
  /\ current < MaxGen
  /\ current' = current + 1
  /\ restartTimes' = 0
  /\ state' = "starting"
  /\ Goto(current + 1, "onStart")
  /\ UNCHANGED <<strategy, stopCh, mailVars, runVars>>

\* beginStop, for Stop and StopContext.
BeginStop ==
  /\ state \in {"running", "restarting"}
  /\ state' = "stopping"
  /\ stopCh' = stopCh \cup {current}
  /\ UNCHANGED <<strategy, current, restartTimes, mailVars, runVars, pc>>

Admits == state \in {"running", "restarting"}

Send(m) ==
  /\ m \notin accepted
  /\ Admits
  /\ Cardinality(mail) < Cap
  /\ mail' = mail \cup {m}
  /\ accepted' = accepted \cup {m}
  /\ UNCHANGED <<strategy, lifeVars, latest, replaced, abandoned, runVars, pc>>

SendLatestMutant(m) ==
  /\ m \notin accepted
  /\ Admits
  /\ latest' = {m}
  /\ accepted' = accepted \cup {m}
  /\ UNCHANGED <<strategy, lifeVars, mail, replaced, abandoned, runVars, pc>>

SendLatest(m) ==
  /\ m \notin accepted
  /\ Admits
  /\ replaced' = replaced \cup latest
  /\ latest' = {m}
  /\ accepted' = accepted \cup {m}
  /\ UNCHANGED <<strategy, lifeVars, mail, abandoned, runVars, pc>>

-----------------------------------------------------------------------------
(* The goroutine of run g *)

\* The end of Start: OnStart succeeded, or failStart.
OnStart(g) ==
  /\ At(g, "onStart")
  /\ \/ /\ state' = IF current = g /\ state = "starting" THEN "running" ELSE state
        /\ Goto(g, IF current = g /\ state = "starting" THEN "top" ELSE "done")
        /\ stopCh' = stopCh
     \/ /\ state' = IF current = g /\ state = "starting" THEN "stopping" ELSE state
        /\ stopCh' = IF current = g /\ state = "starting" THEN stopCh \cup {g} ELSE stopCh
        /\ Goto(g, "onStop")
  /\ UNCHANGED <<strategy, current, restartTimes, mailVars, runVars>>

\* The head of the loop of run looks at stopCh first.
Top(g) ==
  /\ At(g, "top")
  /\ Goto(g, IF g \in stopCh THEN "drain" ELSE "recv")
  /\ UNCHANGED <<strategy, lifeVars, mailVars, runVars>>

Take(g, l) ==
  /\ \E m \in mail \cup latest :
       /\ busy' = [busy EXCEPT ![g] = {m}]
       /\ mail' = mail \ {m}
       /\ latest' = latest \ {m}
  /\ Goto(g, l)
  /\ UNCHANGED <<strategy, lifeVars, accepted, replaced, abandoned, processed, onStops>>

\* tryReceiveFair, then the select over stopCh and the lanes.
Recv(g) ==
  /\ At(g, "recv")
  /\ \/ Take(g, "process")
     \/ /\ g \in stopCh
        /\ Goto(g, "drain")
        /\ UNCHANGED <<strategy, lifeVars, mailVars, runVars>>

\* drainAndFinish; "lastDrain" is the one called by drainAfterPanicStop.
Drain(g) ==
  \/ At(g, "drain") /\ Take(g, "drainProcess")
  \/ At(g, "lastDrain") /\ Take(g, "lastProcess")
  \/ /\ pc[g] \in {"drain", "lastDrain"}
     /\ mail \cup latest = {}
     /\ Goto(g, "onStop")
     /\ UNCHANGED <<strategy, lifeVars, mailVars, runVars>>

\* processFn returns or panics; the recover of drainAfterPanicStop gives up.
Process(g) ==
  /\ pc[g] \in Processing
  /\ processed' = processed \cup busy[g]
  /\ busy' = [busy EXCEPT ![g] = {}]
  /\ \/ Goto(g, CASE At(g, "process") -> "top"
                  [] At(g, "drainProcess") -> "drain"
                  [] At(g, "lastProcess") -> "lastDrain")
     \/ Goto(g, IF At(g, "lastProcess") THEN "abandon" ELSE "panic")
  /\ UNCHANGED <<strategy, lifeVars, mailVars, onStops>>

\* The run gives up: state Stopping, stopCh closed, and on to abandonMailboxes.
GiveUp(g) ==
  /\ state' = "stopping"
  /\ stopCh' = stopCh \cup {g}
  /\ Goto(g, "abandon")

\* The critical section of handlePanic.  Restarts leave the window as time passes,
\* the oldest first: any number of them may still be recent.
HandlePanic(g) ==
  /\ At(g, "panic")
  /\ IF current # g
     THEN Goto(g, "done") /\ UNCHANGED lifeVars
     ELSE IF state = "stopping"
     THEN Goto(g, "lastDrain") /\ UNCHANGED lifeVars
     ELSE \/ strategy = "stop" /\ GiveUp(g) /\ UNCHANGED <<current, restartTimes>>
          \/ /\ strategy = "restart"
             /\ \E recent \in 0..restartTimes :
                  /\ restartTimes' = recent
                  /\ IF recent >= MaxRestarts
                     THEN GiveUp(g)
                     ELSE state' = "restarting" /\ Goto(g, "backoff") /\ stopCh' = stopCh
             /\ current' = current
  /\ UNCHANGED <<strategy, mailVars, runVars>>

\* The select over stopCh and the backoff timer.
Backoff(g) ==
  /\ At(g, "backoff")
  /\ \/ g \in stopCh /\ Goto(g, "lastDrain")
     \/ Goto(g, "onRestart")
  /\ UNCHANGED <<strategy, lifeVars, mailVars, runVars>>

OnRestartMutant(g) ==
  /\ At(g, "onRestart")
  /\ restartTimes' = restartTimes + 1
  /\ state' = "running"
  /\ Goto(g, "top")
  /\ UNCHANGED <<strategy, current, stopCh, mailVars, runVars>>

\* OnRestart returned and the lock is taken again: transitionRestartFailure, or the
\* new look at the state that a Stop may have changed meanwhile.
OnRestart(g) ==
  /\ At(g, "onRestart")
  /\ \/ /\ IF current = g /\ state = "restarting"
           THEN GiveUp(g)
           ELSE Goto(g, "abandon") /\ UNCHANGED <<state, stopCh>>
        /\ UNCHANGED <<current, restartTimes>>
     \/ IF current = g /\ state = "restarting"
        THEN /\ restartTimes' = restartTimes + 1
             /\ state' = "running"
             /\ Goto(g, "top")
             /\ UNCHANGED <<current, stopCh>>
        ELSE /\ Goto(g, CASE current # g -> "done"
                          [] current = g /\ state = "stopping" -> "lastDrain"
                          [] OTHER -> "abandon")
             /\ UNCHANGED lifeVars
  /\ UNCHANGED <<strategy, mailVars, runVars>>

AbandonMutant(g) ==
  /\ At(g, "abandon")
  /\ mail' = {}
  /\ abandoned' = abandoned \cup mail
  /\ Goto(g, "onStop")
  /\ UNCHANGED <<strategy, lifeVars, latest, accepted, replaced, runVars>>

\* abandonMailboxes: admission is closed, so nobody else touches the lanes.
Abandon(g) ==
  /\ At(g, "abandon")
  /\ mail' = {} /\ latest' = {}
  /\ abandoned' = abandoned \cup mail \cup latest
  /\ Goto(g, "onStop")
  /\ UNCHANGED <<strategy, lifeVars, accepted, replaced, runVars>>

OnStopMutant(g) ==
  /\ At(g, "onStop")
  /\ onStops' = [onStops EXCEPT ![g] = @ + 1]
  /\ state' = IF current = g THEN "stopped" ELSE state
  /\ Goto(g, "finish")
  /\ UNCHANGED <<strategy, current, restartTimes, stopCh, mailVars, processed, busy>>

\* finishStop, and the second half of failStart: OnStop outside the lock, then Stopped.
OnStop(g) ==
  /\ At(g, "onStop")
  /\ onStops' = [onStops EXCEPT ![g] = @ + 1]
  /\ Goto(g, "finish")
  /\ UNCHANGED <<strategy, lifeVars, mailVars, processed, busy>>

Finish(g) ==
  /\ At(g, "finish")
  /\ state' = IF current = g THEN "stopped" ELSE state
  /\ Goto(g, "done")
  /\ UNCHANGED <<strategy, current, restartTimes, stopCh, mailVars, runVars>>

-----------------------------------------------------------------------------
Step(g) ==
  \/ OnStart(g) \/ Top(g) \/ Recv(g) \/ Drain(g) \/ Process(g)
  \/ HandlePanic(g) \/ Backoff(g) \/ OnRestart(g)
  \/ Abandon(g) \/ OnStop(g) \/ Finish(g)

Next ==
  \/ Start \/ BeginStop
  \/ \E m \in Messages : Send(m) \/ SendLatest(m)
  \/ \E g \in Runs : Step(g)

Spec == Init /\ [][Next]_vars

\* Callbacks return, timers fire and goroutines are scheduled.
Fairness == \A g \in Runs : WF_vars(Step(g))

FairSpec == Spec /\ Fairness

-----------------------------------------------------------------------------
Held == UNION {busy[g] : g \in Runs}

\* The counters of ActorStats account for every accepted message: it is in a lane,
\* being processed, processed, replaced or abandoned, and in only one of these.
Conservation ==
  /\ accepted = mail \cup latest \cup Held \cup processed \cup replaced \cup abandoned
  /\ Cardinality(accepted) =
       Cardinality(mail) + Cardinality(latest) + Cardinality(Held) + Cardinality(processed)
         + Cardinality(replaced) + Cardinality(abandoned)

Live(g) == pc[g] \notin {"none", "done"}

\* Generations do not overlap: only the current run has a goroutine, one consumer
\* at a time, and no message of one generation is left for the next.  OnStop is called
\* exactly once per run, after the last message and before Stopped: whoever waits on
\* doneCh finds it done.
GenerationsApart ==
  /\ \A g \in Runs :
       /\ Live(g) => g = current /\ state \notin {"new", "stopped"}
       /\ onStops[g] = IF pc[g] \in {"finish", "done"} THEN 1 ELSE 0
       /\ onStops[g] = 1 /\ current = g => mail \cup latest \cup busy[g] = {}
  /\ state \in {"new", "starting", "stopped"} => mail \cup latest = {}

\* Stopping ends in Stopped and nowhere else, although the restart path writes the
\* state after waiting for the backoff and OnRestart without the lock.
StoppingIsFinal == [][state = "stopping" => state' \in {"stopping", "stopped"}]_vars

\* Stopping is final, and it does end.
StopCompletes ==
  /\ StoppingIsFinal
  /\ (state = "stopping") ~> (state = "stopped")

Outstanding == accepted \ (processed \cup replaced \cup abandoned)

\* No accepted message stays in a lane forever: each is processed, replaced or abandoned.
AcceptedResolved == (Outstanding # {}) ~> (Outstanding = {})
=============================================================================

------------------------------ MODULE MCActors ------------------------------
(***************************************************************************)
(* Actor, with its scheduler, and Runner, the two single-consumer loops of *)
(* the engine, for TLC.  A behaviour is about the actor, its lanes or the  *)
(* runner, as under says, and is fair to it as its module says.            *)
(*                                                                         *)
(* One client of the runner calls TryPost, which never waits; the others   *)
(* call the methods that do.  Clients are interchangeable, and so are      *)
(* stoppers: it is enough to look at one order.  Either three clients meet *)
(* one stopper or, when the third has called too early, two meet both.     *)
(***************************************************************************)
EXTENDS Actor, ActorScheduler, Runner

VARIABLE under

Rank(k) == CASE k = "try" -> 1 [] k = "do" -> 2 [] k = "post" -> 3

MCInit ==
  /\ under \in {"actor", "lanes", "runner"} /\ Init /\ LaneInit /\ RunnerInit
  /\ \A c \in Clients : kind[c] = "try" <=> c = 1
  /\ \A c, d \in Clients : c < d => Rank(kind[c]) <= Rank(kind[d])
  /\ under # "actor" => strategy = "stop"
  /\ under # "runner" => \A c \in Clients : c > 1 => kind[c] = "do"

SecondStopper == stop[12] # "idle" => stop[11] # "idle" /\ result[3] = "new"

MCNext ==
  \/ under = "actor" /\ Next /\ UNCHANGED <<under, laneVars, runnerVars>>
  \/ under = "lanes" /\ LaneNext /\ UNCHANGED <<under, vars, runnerVars>>
  \/ under = "runner" /\ RunnerNext /\ SecondStopper' /\ UNCHANGED <<under, vars, laneVars>>

\* RunnerFairness, when the behaviour is about the runner
MCFairness ==
  /\ WF_runnerVars(under = "runner" /\ Goroutine)
  /\ \A c \in Clients : WF_runnerVars(under = "runner" /\ clientPc[c] # "idle" /\ Client(c))
  /\ \A s \in Stoppers : WF_runnerVars(under = "runner" /\ StopReturn(s))

MCSpec == MCInit /\ [][MCNext]_<<under, vars, laneVars, runnerVars>> /\ Fairness /\ MCFairness
=============================================================================

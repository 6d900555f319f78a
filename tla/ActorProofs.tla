---------------------------- MODULE ActorProofs -----------------------------
(***************************************************************************)
(* Proofs about Actor, ActorScheduler and Runner.  For any number of       *)
(* generations, messages and restarts, generations of an actor do not      *)
(* overlap, a stop is final and every accepted message is accounted for.   *)
(* For all bursts, no lane waits longer than they allow.  For any commands *)
(* and clients, a runner executes commands in the order it accepted them   *)
(* and tells each client what became of its own.                           *)
(***************************************************************************)
EXTENDS Actor, ActorScheduler, Runner, FiniteSetTheorems, TLAPS

\* Leaves with arithmetic or a large case split cite SMT.
USE Zenon

-----------------------------------------------------------------------------
(* The inductive invariant *)

States == {"new", "starting", "running", "restarting", "stopping", "stopped"}
Labels == {"none", "onStart", "top", "recv", "process", "panic", "backoff", "onRestart", "drain",
           "drainProcess", "lastDrain", "lastProcess", "abandon", "onStop", "finish", "done"}

TypeOK ==
  /\ state \in States /\ current \in 0..MaxGen /\ restartTimes \in Nat /\ stopCh \subseteq Runs
  /\ pc \in [Runs -> Labels] /\ busy \in [Runs -> SUBSET Messages] /\ onStops \in [Runs -> Nat]
  /\ mail \subseteq Messages /\ latest \subseteq Messages /\ accepted \subseteq Messages

\* The state an actor is in tells where its current run is; the others have ended or not begun.
Tells(s, l) ==
  /\ s # "new" /\ l # "none"
  /\ s = "starting" <=> l = "onStart"
  /\ s = "stopped" <=> l = "done"
  /\ s = "running" => l \in {"top", "recv", "process", "panic"}
  /\ s = "restarting" => l \in {"backoff", "onRestart"}

PcInv ==
  /\ current = 0 => state = "new"
  /\ \A g \in Runs : /\ g > current => pc[g] = "none"
                     /\ g < current => pc[g] = "done"
                     /\ g = current => Tells(state, pc[g])

\* stopCh is closed only for good.
StopInv == \A g \in stopCh : g <= current /\ (g = current => state \in {"stopping", "stopped"})

OnStopInv == \A g \in Runs : onStops[g] = IF pc[g] \in {"finish", "done"} THEN 1 ELSE 0

\* A run that does not process has no message, and one that is past its drain leaves none.
MailInv ==
  /\ \A g \in Runs : /\ pc[g] \notin Processing => busy[g] = {}
                     /\ pc[g] \in {"onStop", "finish"} => mail \cup latest = {}
  /\ state \in {"new", "starting", "stopped"} => mail \cup latest = {}

\* Every accepted message is in one place.
FlowInv ==
  /\ accepted = mail \cup latest \cup Held \cup processed \cup replaced \cup abandoned
  /\ mail \cap latest = {}
  /\ (mail \cup latest) \cap Held = {}
  /\ (mail \cup latest \cup Held) \cap processed = {}
  /\ (mail \cup latest \cup Held \cup processed) \cap replaced = {}
  /\ (mail \cup latest \cup Held \cup processed \cup replaced) \cap abandoned = {}

IInv == TypeOK /\ PcInv /\ StopInv /\ OnStopInv /\ MailInv /\ FlowInv /\ IsFiniteSet(accepted)

-----------------------------------------------------------------------------
(* Types *)

LEMMA InitType == Init => TypeOK
  BY SMT, ActorAssumption DEF Init, TypeOK, States, Labels, Runs

LEMMA StepType ==
  ASSUME TypeOK, NEW g \in Runs, Step(g)
  PROVE  TypeOK'
  <1> USE DEF TypeOK
  <1>1. CASE OnStart(g) BY SMT, <1>1 DEF OnStart, Goto, mailVars, runVars, States, Labels
  <1>2. CASE Top(g) \/ Backoff(g)
    BY SMT, <1>2 DEF Top, Backoff, Goto, lifeVars, mailVars, runVars, Labels
  <1>3. ASSUME NEW l \in Labels, Take(g, l) PROVE TypeOK'
    BY SMT, <1>3 DEF Take, Goto, lifeVars
  <1>4. CASE Recv(g) BY SMT, <1>3, <1>4 DEF Recv, Goto, lifeVars, mailVars, runVars, Labels
  <1>5. CASE Drain(g) BY SMT, <1>3, <1>5 DEF Drain, Goto, lifeVars, mailVars, runVars, Labels
  <1>6. CASE Process(g)
    <2>1. \E l \in Labels : Goto(g, l) BY SMT, <1>6 DEF Process, Processing, At, Labels
    <2> QED BY SMT, <1>6, <2>1 DEF Process, Goto, lifeVars, mailVars
  <1>7. CASE HandlePanic(g)
    BY SMT, <1>7 DEF HandlePanic, GiveUp, Goto, lifeVars, mailVars, runVars, States, Labels
  <1>8. CASE OnRestart(g)
    <2>1. \E l \in Labels : Goto(g, l) BY SMT, <1>8 DEF OnRestart, GiveUp, Labels
    <2>2. state' \in States /\ restartTimes' \in Nat /\ current' = current /\ stopCh' \subseteq Runs
      BY SMT, <1>8 DEF OnRestart, GiveUp, lifeVars, States
    <2> QED BY SMT, <1>8, <2>1, <2>2 DEF OnRestart, Goto, mailVars, runVars
  <1>9. CASE Abandon(g) BY SMT, <1>9 DEF Abandon, Goto, lifeVars, runVars, Labels
  <1>10. CASE OnStop(g) BY SMT, <1>10 DEF OnStop, Goto, lifeVars, mailVars, Labels
  <1>11. CASE Finish(g) BY SMT, <1>11 DEF Finish, Goto, mailVars, runVars, States, Labels
  <1> QED BY <1>1, <1>2, <1>4, <1>5, <1>6, <1>7, <1>8, <1>9, <1>10, <1>11 DEF Step

LEMMA TypeStep ==
  ASSUME TypeOK, PcInv, [Next]_vars
  PROVE  TypeOK'
  <1> USE DEF TypeOK
  <1>1. CASE UNCHANGED vars BY SMT, <1>1 DEF vars, lifeVars, mailVars, runVars
  <1>2. CASE Start BY SMT, <1>2, ActorAssumption DEF Start, Goto, mailVars, runVars, States, Labels, Runs
  <1>3. CASE BeginStop
    <2>1. current \in Runs BY SMT, <1>3, ActorAssumption DEF BeginStop, PcInv, Runs
    <2> QED BY SMT, <1>3, <2>1 DEF BeginStop, mailVars, runVars, States
  <1>4. ASSUME NEW m \in Messages, Send(m) \/ SendLatest(m) PROVE TypeOK'
    BY SMT, <1>4 DEF Send, SendLatest, lifeVars, runVars
  <1> QED BY <1>1, <1>2, <1>3, <1>4, StepType DEF Next

-----------------------------------------------------------------------------
(* Steps of a run *)

\* Only the current run moves.
LEMMA LiveFact ==
  ASSUME TypeOK, PcInv, NEW g \in Runs, pc[g] \notin {"none", "done"}
  PROVE  g = current /\ Tells(state, pc[g])
  BY SMT, ActorAssumption DEF TypeOK, PcInv, Runs

\* Only the current run has a message.
LEMMA HeldFact ==
  ASSUME TypeOK, PcInv, MailInv, NEW g \in Runs, g = current
  PROVE  Held = busy[g] /\ \A h \in Runs \ {g} : busy[h] = {}
  <1>1. ASSUME NEW h \in Runs \ {g} PROVE busy[h] = {}
    <2>1. pc[h] \in {"none", "done"} BY SMT, ActorAssumption DEF TypeOK, PcInv, Runs
    <2> QED BY <2>1 DEF MailInv, Processing
  <1> QED BY <1>1 DEF Held

LEMMA PcMove ==
  ASSUME TypeOK, PcInv, NEW g \in Runs, g = current, NEW l, Goto(g, l), current' = current,
         Tells(state', l)
  PROVE  PcInv'
  BY SMT DEF TypeOK, PcInv, Goto, Runs

LEMMA StopMove ==
  ASSUME StopInv, NEW g \in Runs, g = current, current' = current, TypeOK,
         stopCh' \subseteq stopCh \cup {g}, g \in stopCh' => state' \in {"stopping", "stopped"}
  PROVE  StopInv'
  BY SMT, ActorAssumption DEF StopInv, Runs, TypeOK

LEMMA FlowKeep ==
  ASSUME FlowInv, UNCHANGED <<mailVars, processed, busy>>
  PROVE  FlowInv'
  <1>1. Held' = Held BY DEF Held
  <1>2. UNCHANGED <<mail, latest, accepted, replaced, abandoned, processed>> BY DEF mailVars
  <1> QED BY SMT, <1>1, <1>2 DEF FlowInv

\* A step of a run that touches no message.
LEMMA QuietStep ==
  ASSUME IInv, TypeOK', NEW g \in Runs, pc[g] \notin {"none", "done"} \cup Processing,
         NEW l, Goto(g, l), current' = current, Tells(state', l), l # "onStart",
         UNCHANGED <<mailVars, runVars>>,
         stopCh' \subseteq stopCh \cup {g}, g \in stopCh' => state' \in {"stopping", "stopped"},
         l \in {"finish", "done"} <=> pc[g] = "finish",
         l \in {"onStop", "finish", "done"} => mail \cup latest = {}
  PROVE  IInv'
  <1>1. g = current BY LiveFact DEF IInv
  <1>2. PcInv' BY <1>1, PcMove DEF IInv
  <1>3. StopInv' BY <1>1, StopMove DEF IInv
  <1>4. OnStopInv' BY SMT DEF IInv, TypeOK, OnStopInv, Goto, runVars
  <1>5. MailInv'
    <2>1. state' \in {"new", "starting", "stopped"} => mail \cup latest = {} BY DEF Tells
    <2>2. ASSUME NEW h \in Runs
          PROVE  /\ pc'[h] \notin Processing => busy'[h] = {}
                 /\ pc'[h] \in {"onStop", "finish"} => mail' \cup latest' = {}
      BY SMT DEF IInv, TypeOK, MailInv, Goto, mailVars, runVars
    <2> QED BY <2>1, <2>2 DEF MailInv, mailVars
  <1>6. FlowInv' BY FlowKeep DEF IInv, runVars
  <1>7. IsFiniteSet(accepted') BY DEF IInv, mailVars
  <1> QED BY <1>2, <1>3, <1>4, <1>5, <1>6, <1>7 DEF IInv

LEMMA OnStartInv ==
  ASSUME IInv, TypeOK', NEW g \in Runs, OnStart(g)
  PROVE  IInv'
  <1>1. pc[g] = "onStart" /\ g = current /\ state = "starting"
    BY LiveFact DEF IInv, OnStart, At, Tells
  <1>2. g \notin stopCh /\ mail \cup latest = {} BY <1>1 DEF IInv, StopInv, MailInv
  <1>3. current' = current /\ UNCHANGED <<mailVars, runVars>> BY DEF OnStart
  <1>4. CASE state' = "running" /\ Goto(g, "top") /\ stopCh' = stopCh
    <2>1. Tells(state', "top") BY <1>4 DEF Tells
    <2> QED BY <1>1, <1>2, <1>3, <1>4, <2>1, QuietStep DEF Processing
  <1>5. CASE state' = "stopping" /\ Goto(g, "onStop") /\ stopCh' = stopCh \cup {g}
    <2>1. Tells(state', "onStop") BY <1>5 DEF Tells
    <2> QED BY <1>1, <1>2, <1>3, <1>5, <2>1, QuietStep DEF Processing
  <1> QED BY <1>1, <1>4, <1>5 DEF OnStart

\* The head of the loop, the select and the drain that ends: the state stays what it is.
LEMMA LoopInv ==
  ASSUME IInv, TypeOK', NEW g \in Runs, NEW l, Goto(g, l), UNCHANGED <<lifeVars, mailVars, runVars>>,
         \/ pc[g] = "top" /\ l = "recv"
         \/ pc[g] \in {"top", "recv"} /\ l = "drain" /\ g \in stopCh
         \/ pc[g] \in {"drain", "lastDrain"} /\ l = "onStop" /\ mail \cup latest = {}
         \/ pc[g] = "backoff" /\ l = "onRestart"
         \/ pc[g] = "backoff" /\ l = "lastDrain" /\ g \in stopCh
  PROVE  IInv'
  <1>1. g = current /\ Tells(state, pc[g]) BY LiveFact DEF IInv
  <1>2. state' = state /\ current' = current /\ stopCh' = stopCh BY DEF lifeVars
  <1>3. g \in stopCh => state \in {"stopping", "stopped"} BY <1>1 DEF IInv, StopInv
  <1>4. Tells(state, l) BY SMT, <1>1, <1>3 DEF Tells, IInv, TypeOK, States
  <1> QED BY <1>1, <1>2, <1>3, <1>4, QuietStep DEF Processing

LEMMA HandlePanicInv ==
  ASSUME IInv, TypeOK', NEW g \in Runs, HandlePanic(g)
  PROVE  IInv'
  <1>1. pc[g] = "panic" /\ g = current /\ Tells(state, pc[g]) BY LiveFact DEF IInv, HandlePanic, At
  <1>2. state \in {"running", "stopping"} BY <1>1 DEF Tells, IInv, TypeOK, States
  <1>3. g \in stopCh => state = "stopping" BY <1>1, <1>2 DEF IInv, StopInv
  <1>4. current' = current /\ UNCHANGED <<mailVars, runVars>> BY <1>1 DEF HandlePanic, lifeVars
  <1>5. CASE state = "stopping" /\ Goto(g, "lastDrain") /\ UNCHANGED lifeVars
    <2>1. Tells(state', "lastDrain") /\ state' = "stopping" /\ stopCh' = stopCh
      BY <1>5 DEF Tells, lifeVars
    <2> QED BY <1>1, <1>4, <1>5, <2>1, QuietStep DEF Processing
  <1>6. CASE GiveUp(g)
    <2>1. Tells(state', "abandon") BY <1>6 DEF Tells, GiveUp
    <2> QED BY <1>1, <1>4, <1>6, <2>1, QuietStep DEF GiveUp, Processing
  <1>7. CASE state = "running" /\ state' = "restarting" /\ Goto(g, "backoff") /\ stopCh' = stopCh
    <2>1. Tells(state', "backoff") BY <1>7 DEF Tells
    <2> QED BY <1>1, <1>3, <1>4, <1>7, <2>1, QuietStep DEF Processing
  <1> QED BY <1>1, <1>2, <1>5, <1>6, <1>7 DEF HandlePanic

LEMMA OnRestartInv ==
  ASSUME IInv, TypeOK', NEW g \in Runs, OnRestart(g)
  PROVE  IInv'
  <1>1. pc[g] = "onRestart" /\ g = current /\ Tells(state, pc[g])
    BY LiveFact DEF IInv, OnRestart, At
  <1>2. state \in {"restarting", "stopping"} BY <1>1 DEF Tells, IInv, TypeOK, States
  <1>3. g \in stopCh => state = "stopping" BY <1>1, <1>2 DEF IInv, StopInv
  <1>4. current' = current /\ UNCHANGED <<mailVars, runVars>>
    BY DEF OnRestart, lifeVars
  <1>5. CASE GiveUp(g)
    <2>1. Tells(state', "abandon") BY <1>5 DEF Tells, GiveUp
    <2> QED BY <1>1, <1>4, <1>5, <2>1, QuietStep DEF GiveUp, Processing
  <1>6. CASE state = "restarting" /\ state' = "running" /\ Goto(g, "top") /\ stopCh' = stopCh
    <2>1. Tells(state', "top") BY <1>6 DEF Tells
    <2> QED BY <1>1, <1>3, <1>4, <1>6, <2>1, QuietStep DEF Processing
  <1>7. ASSUME NEW l \in {"abandon", "lastDrain"}, state = "stopping", Goto(g, l),
               state' = state, stopCh' = stopCh
        PROVE  IInv'
    <2>1. Tells(state', l) BY <1>7 DEF Tells
    <2> QED BY <1>1, <1>4, <1>7, <2>1, QuietStep DEF Processing
  <1> QED BY SMT, <1>1, <1>2, <1>5, <1>6, <1>7 DEF OnRestart, lifeVars

LEMMA FinishInv ==
  ASSUME IInv, TypeOK', NEW g \in Runs, Finish(g)
  PROVE  IInv'
  <1>1. pc[g] = "finish" /\ g = current BY LiveFact DEF IInv, Finish, At
  <1>2. mail \cup latest = {} BY <1>1 DEF IInv, MailInv
  <1>3. state' = "stopped" /\ Goto(g, "done") /\ current' = current /\ stopCh' = stopCh
        /\ UNCHANGED <<mailVars, runVars>>
    BY <1>1 DEF Finish
  <1>4. Tells(state', "done") BY <1>3 DEF Tells
  <1> QED BY <1>1, <1>2, <1>3, <1>4, QuietStep DEF Processing

-----------------------------------------------------------------------------
(* Steps that move messages *)

\* The facts about a step of a run that leaves the lifecycle alone.
LEMMA PlainStep ==
  ASSUME IInv, NEW g \in Runs, pc[g] \notin {"none", "done"}, NEW l, Goto(g, l),
         UNCHANGED lifeVars, Tells(state, l)
  PROVE  PcInv' /\ StopInv'
  <1>1. g = current BY LiveFact DEF IInv
  <1>2. state' = state /\ current' = current /\ stopCh' = stopCh BY DEF lifeVars
  <1>3. PcInv' BY <1>1, <1>2, PcMove DEF IInv
  <1>4. StopInv' BY <1>2 DEF IInv, StopInv
  <1> QED BY <1>3, <1>4

LEMMA TakeInv ==
  ASSUME IInv, TypeOK', NEW g \in Runs, NEW l \in Processing, Take(g, l),
         \/ pc[g] = "recv" /\ l = "process"
         \/ pc[g] = "drain" /\ l = "drainProcess"
         \/ pc[g] = "lastDrain" /\ l = "lastProcess"
  PROVE  IInv'
  <1>1. PICK m \in mail \cup latest : /\ busy' = [busy EXCEPT ![g] = {m}]
                                      /\ mail' = mail \ {m} /\ latest' = latest \ {m}
    BY DEF Take
  <1>2. Goto(g, l) /\ UNCHANGED <<lifeVars, accepted, replaced, abandoned, processed, onStops>>
    BY DEF Take
  <1>3. g = current /\ Tells(state, pc[g]) BY LiveFact DEF IInv
  <1>4. Tells(state, l) BY SMT, <1>3 DEF Tells, IInv, TypeOK, States
  <1>5. PcInv' /\ StopInv' BY <1>2, <1>4, PlainStep
  <1>6. OnStopInv' BY SMT, <1>2 DEF IInv, TypeOK, OnStopInv, Goto, Processing
  <1>7. busy[g] = {} /\ Held = {} BY <1>3, HeldFact DEF IInv, MailInv, Processing
  <1>8. MailInv'
    <2>1. ASSUME NEW h \in Runs
          PROVE  /\ pc'[h] \notin Processing => busy'[h] = {}
                 /\ pc'[h] \in {"onStop", "finish"} => mail' \cup latest' = {}
      BY SMT, <1>1, <1>2 DEF IInv, TypeOK, MailInv, Goto, Processing
    <2> QED BY <1>1, <1>2, <2>1 DEF IInv, MailInv, lifeVars
  <1>9. Held' = {m}
    <2>1. \A h \in Runs \ {g} : busy'[h] = {} BY <1>1, <1>3, HeldFact DEF IInv, TypeOK
    <2>2. busy'[g] = {m} BY <1>1 DEF IInv, TypeOK
    <2> QED BY SMT, <2>1, <2>2 DEF Held
  <1>10. FlowInv' BY SMT, <1>1, <1>2, <1>7, <1>9 DEF IInv, FlowInv
  <1> QED BY <1>2, <1>5, <1>6, <1>8, <1>10 DEF IInv

LEMMA ProcessInv ==
  ASSUME IInv, TypeOK', NEW g \in Runs, Process(g)
  PROVE  IInv'
  <1>1. g = current /\ Tells(state, pc[g]) /\ pc[g] \in Processing
    BY LiveFact DEF IInv, Process, Processing
  <1>2. PICK l : /\ Goto(g, l) /\ Tells(state, l)
                 /\ l \in {"top", "drain", "lastDrain", "abandon", "panic"}
    <2>1. \E l : /\ Goto(g, l)
                 /\ \/ pc[g] = "process" /\ l \in {"top", "panic"}
                    \/ pc[g] = "drainProcess" /\ l \in {"drain", "panic"}
                    \/ pc[g] = "lastProcess" /\ l \in {"lastDrain", "abandon"}
      BY SMT DEF Process, Processing, At
    <2> QED BY SMT, <1>1, <2>1 DEF Tells, IInv, TypeOK, States
  <1>3. UNCHANGED <<lifeVars, mailVars, onStops>> /\ processed' = processed \cup busy[g]
        /\ busy' = [busy EXCEPT ![g] = {}]
    BY DEF Process
  <1>4. PcInv' /\ StopInv' BY <1>1, <1>2, <1>3, PlainStep DEF Processing
  <1>5. OnStopInv' BY SMT, <1>1, <1>2, <1>3 DEF IInv, TypeOK, OnStopInv, Goto, Processing
  <1>6. MailInv'
    <2>1. ASSUME NEW h \in Runs
          PROVE  /\ pc'[h] \notin Processing => busy'[h] = {}
                 /\ pc'[h] \in {"onStop", "finish"} => mail' \cup latest' = {}
      BY SMT, <1>2, <1>3 DEF IInv, TypeOK, MailInv, Goto, Processing, mailVars
    <2> QED BY <1>3, <2>1 DEF IInv, MailInv, lifeVars, mailVars
  <1>7. Held = busy[g] /\ Held' = {}
    <2>1. \A h \in Runs : busy'[h] = {} BY <1>1, <1>3, HeldFact DEF IInv, TypeOK
    <2>2. Held' = {} BY SMT, <2>1 DEF Held
    <2> QED BY <1>1, <2>2, HeldFact DEF IInv
  <1>8. FlowInv' BY <1>3, <1>7 DEF IInv, FlowInv, mailVars
  <1> QED BY <1>3, <1>4, <1>5, <1>6, <1>8 DEF IInv, mailVars

LEMMA AbandonInv ==
  ASSUME IInv, TypeOK', NEW g \in Runs, Abandon(g)
  PROVE  IInv'
  <1>1. pc[g] = "abandon" /\ g = current /\ Tells(state, pc[g]) BY LiveFact DEF IInv, Abandon, At
  <1>2. UNCHANGED <<lifeVars, accepted, replaced, runVars>> /\ Goto(g, "onStop")
        /\ mail' = {} /\ latest' = {} /\ abandoned' = abandoned \cup mail \cup latest
    BY DEF Abandon
  <1>3. Tells(state, "onStop") BY <1>1 DEF Tells
  <1>4. PcInv' /\ StopInv' BY <1>1, <1>2, <1>3, PlainStep
  <1>5. OnStopInv' BY SMT, <1>1, <1>2 DEF IInv, TypeOK, OnStopInv, Goto, runVars
  <1>6. MailInv' BY SMT, <1>1, <1>2 DEF IInv, TypeOK, MailInv, Goto, Processing, runVars, lifeVars
  <1>7. Held' = Held /\ processed' = processed BY <1>2 DEF Held, runVars
  <1>8. FlowInv' BY <1>2, <1>7 DEF IInv, FlowInv
  <1> QED BY <1>2, <1>4, <1>5, <1>6, <1>8 DEF IInv

LEMMA OnStopCallInv ==
  ASSUME IInv, TypeOK', NEW g \in Runs, OnStop(g)
  PROVE  IInv'
  <1>1. pc[g] = "onStop" /\ g = current /\ Tells(state, pc[g]) BY LiveFact DEF IInv, OnStop, At
  <1>2. UNCHANGED <<lifeVars, mailVars, processed, busy>> /\ Goto(g, "finish")
        /\ onStops' = [onStops EXCEPT ![g] = @ + 1]
    BY DEF OnStop
  <1>3. Tells(state, "finish") BY <1>1 DEF Tells
  <1>4. PcInv' /\ StopInv' BY <1>1, <1>2, <1>3, PlainStep
  <1>5. OnStopInv' BY SMT, <1>1, <1>2 DEF IInv, TypeOK, OnStopInv, Goto
  <1>6. MailInv' BY SMT, <1>1, <1>2 DEF IInv, TypeOK, MailInv, Goto, Processing, mailVars, lifeVars
  <1>7. FlowInv' BY <1>2, FlowKeep DEF IInv
  <1> QED BY <1>2, <1>4, <1>5, <1>6, <1>7 DEF IInv, mailVars

LEMMA StepInv ==
  ASSUME IInv, TypeOK', NEW g \in Runs, Step(g)
  PROVE  IInv'
  <1>1. CASE Top(g)
    <2>1. \E l : /\ Goto(g, l) /\ pc[g] = "top"
                 /\ l = "recv" \/ (l = "drain" /\ g \in stopCh)
      BY SMT, <1>1 DEF Top, At
    <2> QED BY <1>1, <2>1, LoopInv DEF Top
  <1>2. CASE Backoff(g) BY <1>2, LoopInv DEF Backoff, At
  <1>3. CASE Recv(g) BY <1>3, LoopInv, TakeInv DEF Recv, At, Processing
  <1>4. CASE Drain(g) BY <1>4, LoopInv, TakeInv DEF Drain, At, Processing
  <1> QED BY <1>1, <1>2, <1>3, <1>4, OnStartInv, HandlePanicInv, OnRestartInv, FinishInv, ProcessInv,
             AbandonInv, OnStopCallInv DEF Step

-----------------------------------------------------------------------------
(* Calls from outside *)

LEMMA StartInv ==
  ASSUME IInv, TypeOK', Start
  PROVE  IInv'
  <1>1. state' = "starting" /\ current' = current + 1 /\ Goto(current + 1, "onStart")
        /\ stopCh' = stopCh /\ UNCHANGED <<mailVars, runVars>> /\ current + 1 \in Runs
    BY SMT, ActorAssumption DEF Start, IInv, TypeOK, Runs
  <1>2. \A g \in Runs : g = current => pc[g] = "done"
    BY SMT DEF Start, IInv, PcInv, Tells
  <1>3. Tells("starting", "onStart") BY DEF Tells
  <1>4. PcInv' BY SMT, <1>1, <1>2, <1>3, ActorAssumption DEF IInv, TypeOK, PcInv, Goto, Runs
  <1>5. StopInv' BY SMT, <1>1, ActorAssumption DEF IInv, TypeOK, StopInv, Runs
  <1>6. pc[current + 1] = "none" BY SMT, <1>1, ActorAssumption DEF IInv, PcInv, TypeOK, Runs
  <1>7. OnStopInv' BY SMT, <1>1, <1>6 DEF IInv, TypeOK, OnStopInv, Goto, runVars
  <1>8. mail \cup latest = {} BY DEF Start, IInv, MailInv
  <1>9. MailInv'
    BY SMT, <1>1, <1>6, <1>8 DEF IInv, TypeOK, MailInv, Goto, Processing, mailVars, runVars
  <1>10. FlowInv' BY <1>1, FlowKeep DEF IInv, runVars
  <1> QED BY <1>1, <1>4, <1>5, <1>7, <1>9, <1>10 DEF IInv, mailVars

LEMMA BeginStopInv ==
  ASSUME IInv, TypeOK', BeginStop
  PROVE  IInv'
  <1>1. state' = "stopping" /\ current' = current /\ pc' = pc /\ stopCh' = stopCh \cup {current}
        /\ UNCHANGED <<mailVars, runVars>> /\ state \in {"running", "restarting"}
    BY DEF BeginStop
  <1>2. \A l : Tells(state, l) => Tells("stopping", l) BY <1>1 DEF Tells
  <1>3. current # 0 BY <1>1 DEF IInv, PcInv
  <1>4. PcInv' BY SMT, <1>1, <1>2, <1>3 DEF IInv, TypeOK, PcInv, Runs
  <1>5. StopInv' BY SMT, <1>1, ActorAssumption DEF IInv, TypeOK, StopInv, Runs
  <1>6. OnStopInv' BY <1>1 DEF IInv, OnStopInv, runVars
  <1>7. MailInv' BY <1>1 DEF IInv, MailInv, mailVars, runVars
  <1>8. FlowInv' BY <1>1, FlowKeep DEF IInv, runVars
  <1> QED BY <1>1, <1>4, <1>5, <1>6, <1>7, <1>8 DEF IInv, mailVars

LEMMA SendInv ==
  ASSUME IInv, TypeOK', NEW m \in Messages, Send(m) \/ SendLatest(m)
  PROVE  IInv'
  <1>1. m \notin accepted /\ Admits /\ accepted' = accepted \cup {m}
        /\ UNCHANGED <<lifeVars, abandoned, runVars, pc>>
    BY DEF Send, SendLatest
  <1>2. PcInv' BY <1>1 DEF IInv, PcInv, lifeVars
  <1>3. StopInv' /\ OnStopInv' BY <1>1 DEF IInv, StopInv, OnStopInv, lifeVars, runVars
  <1>4. \A g \in Runs : pc[g] \notin {"onStop", "finish"}
    BY <1>1, LiveFact DEF IInv, Tells, Admits
  <1>5. MailInv' BY <1>1, <1>4 DEF IInv, MailInv, lifeVars, runVars, Admits
  <1>6. Held' = Held /\ processed' = processed BY <1>1 DEF Held, runVars
  <1>7. FlowInv'
    <2>1. CASE Send(m) BY SMT, <1>1, <1>6, <2>1 DEF IInv, FlowInv, Send
    <2>2. CASE SendLatest(m) BY SMT, <1>1, <1>6, <2>2 DEF IInv, FlowInv, SendLatest
    <2> QED BY <2>1, <2>2
  <1>8. IsFiniteSet(accepted') BY <1>1, FS_AddElement DEF IInv
  <1> QED BY <1>2, <1>3, <1>5, <1>7, <1>8 DEF IInv

-----------------------------------------------------------------------------
(* Theorems *)

LEMMA InitInv == Init => IInv
  <1> SUFFICES ASSUME Init PROVE IInv OBVIOUS
  <1>1. TypeOK BY InitType
  <1>2. PcInv BY SMT DEF Init, PcInv, Runs
  <1>3. StopInv BY DEF Init, StopInv
  <1>4. OnStopInv BY SMT DEF Init, OnStopInv
  <1>5. MailInv BY DEF Init, MailInv
  <1>6. Held = {} BY DEF Init, Held
  <1>7. FlowInv BY <1>6 DEF Init, FlowInv
  <1> QED BY <1>1, <1>2, <1>3, <1>4, <1>5, <1>7, FS_EmptySet DEF IInv, Init

LEMMA InvStep == IInv /\ [Next]_vars => IInv'
  <1> SUFFICES ASSUME IInv, [Next]_vars PROVE IInv' OBVIOUS
  <1>1. TypeOK' BY TypeStep DEF IInv
  <1>2. CASE UNCHANGED vars
    <2>1. FlowInv' BY <1>2, FlowKeep DEF IInv, vars, runVars
    <2>2. PcInv' /\ StopInv' BY <1>2 DEF IInv, vars, lifeVars, PcInv, StopInv
    <2>3. OnStopInv' /\ MailInv'
      BY <1>2 DEF IInv, vars, lifeVars, mailVars, runVars, OnStopInv, MailInv
    <2> QED BY <1>1, <1>2, <2>1, <2>2, <2>3 DEF IInv, vars, mailVars
  <1> QED BY <1>1, <1>2, StartInv, BeginStopInv, SendInv, StepInv DEF Next

LEMMA Invariance == Spec => []IInv
  BY InitInv, InvStep, PTL DEF Spec

\* Only the current run has a goroutine, OnStop is called once per run after its last
\* message, and the next generation finds no message of an earlier one: the guards of
\* actor.go, each under a.mu, are enough however Stop, panics, restarts and senders meet.
THEOREM OneGeneration == Spec => []GenerationsApart
  <1>1. IInv => GenerationsApart
    <2> SUFFICES ASSUME IInv PROVE GenerationsApart OBVIOUS
    <2>1. ASSUME NEW g \in Runs, Live(g) PROVE g = current /\ state \notin {"new", "stopped"}
      BY <2>1, LiveFact DEF IInv, Live, Tells
    <2>2. ASSUME NEW g \in Runs, onStops[g] = 1, current = g
          PROVE  mail \cup latest \cup busy[g] = {}
      <3>1. pc[g] \in {"finish", "done"} BY SMT, <2>2 DEF IInv, OnStopInv
      <3>2. pc[g] = "done" => state = "stopped" BY <2>2 DEF IInv, PcInv, Tells
      <3> QED BY <3>1, <3>2 DEF IInv, MailInv, Processing
    <2> QED BY <2>1, <2>2 DEF GenerationsApart, IInv, OnStopInv, MailInv
  <1> QED BY <1>1, Invariance, PTL

LEMMA DisjointCard ==
  ASSUME NEW A, NEW B, IsFiniteSet(A \cup B), A \cap B = {}
  PROVE  Cardinality(A \cup B) = Cardinality(A) + Cardinality(B)
  <1>1. IsFiniteSet(A) /\ IsFiniteSet(B) BY SMT, FS_Subset
  <1>2. Cardinality(A \cap B) = 0 BY FS_EmptySet
  <1>3. Cardinality(A) \in Nat /\ Cardinality(B) \in Nat BY <1>1, FS_CardinalityType
  <1>4. Cardinality(A \cup B) = Cardinality(A) + Cardinality(B) - Cardinality(A \cap B)
    BY <1>1, FS_Union
  <1> QED BY SMT, <1>2, <1>3, <1>4

\* An accepted message is in exactly one of the lanes, the latest slot, the consumer's
\* hands and the counters, so the counters of ActorStats add up: neither a panic nor a
\* failed restart nor a replaced latest message is lost or counted twice.
THEOREM CountersAddUp == Spec => []Conservation
  <1>1. IInv => Conservation
    <2> SUFFICES ASSUME IInv PROVE Conservation OBVIOUS
    <2> DEFINE S2 == mail \cup latest
               S3 == S2 \cup Held
               S4 == S3 \cup processed
               S5 == S4 \cup replaced
               S6 == S5 \cup abandoned
    <2>1. accepted = S6 /\ IsFiniteSet(S6) BY DEF IInv, FlowInv
    <2>2. IsFiniteSet(S2) /\ IsFiniteSet(S3) /\ IsFiniteSet(S4) /\ IsFiniteSet(S5)
      BY <2>1, FS_Subset
    <2>3. /\ mail \cap latest = {} /\ S2 \cap Held = {} /\ S3 \cap processed = {}
          /\ S4 \cap replaced = {} /\ S5 \cap abandoned = {}
      BY DEF IInv, FlowInv
    <2>4. Cardinality(S2) = Cardinality(mail) + Cardinality(latest)
      BY <2>2, <2>3, DisjointCard
    <2> HIDE DEF S2
    <2>5. Cardinality(S3) = Cardinality(S2) + Cardinality(Held) BY <2>2, <2>3, DisjointCard
    <2> HIDE DEF S3
    <2>6. Cardinality(S4) = Cardinality(S3) + Cardinality(processed) BY <2>2, <2>3, DisjointCard
    <2> HIDE DEF S4
    <2>7. Cardinality(S5) = Cardinality(S4) + Cardinality(replaced) BY <2>2, <2>3, DisjointCard
    <2> HIDE DEF S5
    <2>8. Cardinality(S6) = Cardinality(S5) + Cardinality(abandoned) BY <2>1, <2>3, DisjointCard
    <2> HIDE DEF S6
    <2> QED BY <2>1, <2>4, <2>5, <2>6, <2>7, <2>8 DEF Conservation, IInv, FlowInv
  <1> QED BY <1>1, Invariance, PTL

\* Once Stopping, an actor only becomes Stopped: handlePanic and the restart path look
\* at the state again under a.mu before they write it.
THEOREM StopIsFinal == Spec => StoppingIsFinal
  <1>1. IInv /\ [Next]_vars => (state = "stopping" => state' \in {"stopping", "stopped"})
    <2> SUFFICES ASSUME IInv, [Next]_vars, state = "stopping"
                 PROVE  state' \in {"stopping", "stopped"}
      OBVIOUS
    <2>1. ASSUME NEW g \in Runs, Step(g) PROVE state' \in {"stopping", "stopped"}
      <3>1. CASE HandlePanic(g)
        BY <3>1, LiveFact DEF HandlePanic, At, lifeVars, IInv
      <3>2. CASE OnRestart(g) BY <3>2 DEF OnRestart, lifeVars
      <3>3. CASE OnStart(g) \/ Finish(g) BY <3>3 DEF OnStart, Finish
      <3>4. CASE Top(g) \/ Recv(g) \/ Drain(g) \/ Process(g) \/ Backoff(g) \/ Abandon(g) \/ OnStop(g)
        BY <3>4 DEF Top, Recv, Drain, Take, Process, Backoff, Abandon, OnStop, lifeVars
      <3> QED BY <2>1, <3>1, <3>2, <3>3, <3>4 DEF Step
    <2>2. CASE UNCHANGED vars BY <2>2 DEF vars, lifeVars
    <2>3. CASE Start \/ BeginStop BY <2>3 DEF Start, BeginStop
    <2>4. ASSUME NEW m \in Messages, Send(m) \/ SendLatest(m) PROVE state' = state
      BY <2>4 DEF Send, SendLatest, lifeVars
    <2> QED BY <2>1, <2>2, <2>3, <2>4 DEF Next
  <1> QED BY <1>1, Invariance, PTL DEF Spec, StoppingIsFinal

-----------------------------------------------------------------------------
(* ActorScheduler *)

LaneTypes ==
  /\ depth \in [Lanes -> Nat] /\ waited \in [Lanes -> Nat] /\ look \in Nat \ {0}
  /\ highBurst \in 0..MaxHigh /\ nonLowBurst \in 0..MaxNonLow

\* A lane that tryReceiveFair has found empty in this turn, or that is empty, has no
\* message that waits.
Passed(l) == \E j \in 1..Len(ScanOrder) : j < look /\ ScanOrder[j] = l
NoneWaits == \A l \in Lanes : depth[l] = 0 \/ Passed(l) => waited[l] = 0

\* The head of the normal lane waits for one burst of high messages, or for a low or
\* latest message that followed one and the burst after it.
BurstsBound ==
  /\ waited["low"] <= nonLowBurst + 1
  /\ \/ waited["normal"] <= highBurst
     \/ waited["normal"] <= MaxHigh + 1 + highBurst /\ nonLowBurst <= highBurst

LaneInv == LaneTypes /\ NoneWaits /\ BurstsBound

\* What a lane's place in the order tells of the lanes before it
ScanFacts(order, high, nonLow) ==
  /\ Len(order) \in Nat
  /\ \A l \in Lanes : \E j \in 1..Len(order) : order[j] = l
  /\ \A i \in 1..Len(order) :
       /\ order[i] \in Lanes
       /\ nonLow /\ order[i] # "low" => \E j \in 1..Len(order) : j < i /\ order[j] = "low"
       /\ order[i] = "latest" => \E j \in 1..Len(order) : j < i /\ order[j] = "low"
       /\ high /\ order[i] = "high" => \E j \in 1..Len(order) : j < i /\ order[j] = "normal"
       /\ ~nonLow /\ order[i] \in {"low", "latest"} => \E j \in 1..Len(order) : j < i /\ order[j] = "normal"

\* A sequence put together from two
Joined(u, s, t) ==
  /\ Len(u) = Len(s) + Len(t)
  /\ \A i \in 1..Len(s) + Len(t) : u[i] = IF i <= Len(s) THEN s[i] ELSE t[i - Len(s)]

LEMMA JoinedFact ==
  ASSUME NEW S, NEW s \in Seq(S), NEW t \in Seq(S)
  PROVE  s \o t \in Seq(S) /\ Joined(s \o t, s, t)
BY SMT DEF Joined

LEMMA ScanFact == ScanFacts(ScanOrder, highBurst >= MaxHigh, nonLowBurst >= MaxNonLow)
<1> DEFINE S == {"high", "normal", "low", "latest"}
           first == IF nonLowBurst >= MaxNonLow THEN <<"low", "latest">> ELSE <<>>
           second == IF highBurst >= MaxHigh THEN <<"normal", "low", "latest">> ELSE <<>>
           third == <<"high", "normal", "low", "latest">>
           both == first \o second
           order == both \o third
<1>1. first \in Seq(S) /\ second \in Seq(S) /\ third \in Seq(S)
  <2>1. <<>> \in Seq(S) /\ <<"low", "latest">> \in Seq(S) /\ <<"normal", "low", "latest">> \in Seq(S)
    BY SMT
  <2>2. third \in Seq(S)
    BY SMT
  <2> QED
    BY <2>1, <2>2
<1>2. Len(third) = 4 /\ third[1] = "high" /\ third[2] = "normal" /\ third[3] = "low" /\ third[4] = "latest"
  BY SMT
<1>3. IF nonLowBurst >= MaxNonLow THEN Len(first) = 2 /\ first[1] = "low" /\ first[2] = "latest"
                                  ELSE Len(first) = 0
  BY SMT
<1>4. IF highBurst >= MaxHigh
      THEN Len(second) = 3 /\ second[1] = "normal" /\ second[2] = "low" /\ second[3] = "latest"
      ELSE Len(second) = 0
  BY SMT
<1>5. ScanOrder = order
  BY DEF ScanOrder
<1> HIDE DEF first, second, third, S
<1>6. both \in Seq(S) /\ Joined(both, first, second)
  BY <1>1, JoinedFact
<1> HIDE DEF both
<1>7. Joined(order, both, third)
  BY <1>1, <1>6, JoinedFact
<1> HIDE DEF order
<1>8. CASE nonLowBurst >= MaxNonLow /\ highBurst >= MaxHigh
  <2>1. /\ Len(both) = 5 /\ both[1] = "low" /\ both[2] = "latest" /\ both[3] = "normal" /\ both[4] = "low"
        /\ both[5] = "latest"
    <3>1. /\ Len(first) = 2 /\ first[1] = "low" /\ first[2] = "latest"
          /\ Len(second) = 3 /\ second[1] = "normal" /\ second[2] = "low" /\ second[3] = "latest"
      BY <1>3, <1>4, <1>8
    <3>2. Len(both) = 5 /\ \A i \in 1..5 : both[i] = IF i <= 2 THEN first[i] ELSE second[i - 2]
      BY <1>6, <3>1, SMT DEF Joined
    <3> QED
      BY <3>1, <3>2, SMT
  <2>2. /\ Len(order) = 9 /\ order[1] = "low" /\ order[2] = "latest" /\ order[3] = "normal" /\ order[4] = "low"
        /\ order[5] = "latest" /\ order[6] = "high" /\ order[7] = "normal" /\ order[8] = "low"
        /\ order[9] = "latest"
    <3>1. Len(order) = 9 /\ \A i \in 1..9 : order[i] = IF i <= 5 THEN both[i] ELSE third[i - 5]
      BY <1>2, <1>7, <2>1, SMT DEF Joined
    <3> QED
      BY <1>2, <2>1, <3>1, SMT
  <2> QED
    BY <1>5, <1>8, <2>2, SMT DEF ScanFacts, Lanes
<1>9. CASE nonLowBurst >= MaxNonLow /\ ~(highBurst >= MaxHigh)
  <2>1. Len(both) = 2 /\ both[1] = "low" /\ both[2] = "latest"
    <3>1. Len(first) = 2 /\ first[1] = "low" /\ first[2] = "latest" /\ Len(second) = 0
      BY <1>3, <1>4, <1>9
    <3> QED
      BY <1>6, <3>1, SMT DEF Joined
  <2>2. /\ Len(order) = 6 /\ order[1] = "low" /\ order[2] = "latest" /\ order[3] = "high" /\ order[4] = "normal"
        /\ order[5] = "low" /\ order[6] = "latest"
    <3>1. Len(order) = 6 /\ \A i \in 1..6 : order[i] = IF i <= 2 THEN both[i] ELSE third[i - 2]
      BY <1>2, <1>7, <2>1, SMT DEF Joined
    <3> QED
      BY <1>2, <2>1, <3>1, SMT
  <2> QED
    BY <1>5, <1>9, <2>2, SMT DEF ScanFacts, Lanes
<1>10. CASE ~(nonLowBurst >= MaxNonLow) /\ highBurst >= MaxHigh
  <2>1. Len(both) = 3 /\ both[1] = "normal" /\ both[2] = "low" /\ both[3] = "latest"
    <3>1. Len(first) = 0 /\ Len(second) = 3 /\ second[1] = "normal" /\ second[2] = "low" /\ second[3] = "latest"
      BY <1>3, <1>4, <1>10
    <3>2. Len(both) = 3 /\ \A i \in 1..3 : both[i] = second[i]
      BY <1>6, <3>1, SMT DEF Joined
    <3> QED
      BY <3>1, <3>2, SMT
  <2>2. /\ Len(order) = 7 /\ order[1] = "normal" /\ order[2] = "low" /\ order[3] = "latest" /\ order[4] = "high"
        /\ order[5] = "normal" /\ order[6] = "low" /\ order[7] = "latest"
    <3>1. Len(order) = 7 /\ \A i \in 1..7 : order[i] = IF i <= 3 THEN both[i] ELSE third[i - 3]
      BY <1>2, <1>7, <2>1, SMT DEF Joined
    <3> QED
      BY <1>2, <2>1, <3>1, SMT
  <2> QED
    BY <1>5, <1>10, <2>2, SMT DEF ScanFacts, Lanes
<1>11. CASE ~(nonLowBurst >= MaxNonLow) /\ ~(highBurst >= MaxHigh)
  <2>1. Len(both) = 0
    BY <1>3, <1>4, <1>6, <1>11, SMT DEF Joined
  <2>2. /\ Len(order) = 4 /\ order[1] = "high" /\ order[2] = "normal" /\ order[3] = "low"
        /\ order[4] = "latest"
    BY <1>2, <1>7, <2>1, SMT DEF Joined
  <2> QED
    BY <1>5, <1>11, <2>2, SMT DEF ScanFacts, Lanes
<1> QED
  BY <1>8, <1>9, <1>10, <1>11

LEMMA UpToFact ==
  ASSUME NEW n \in Nat, NEW max \in Nat
  PROVE  UpTo(n, max) \in Nat /\ UpTo(n, max) <= n /\ UpTo(n, max) <= max /\ (n <= max => UpTo(n, max) = n)
BY SMT DEF UpTo

LEMMA LaneInitInv == LaneInit => LaneInv
<1> SUFFICES ASSUME LaneInit PROVE LaneInv
  OBVIOUS
<1> USE DEF LaneInit
<1>1. LaneTypes
  BY BurstsAssumption, SMT DEF LaneTypes
<1>2. NoneWaits
  BY DEF NoneWaits
<1>3. BurstsBound
  BY BurstsAssumption, SMT DEF BurstsBound, Lanes
<1> QED
  BY <1>1, <1>2, <1>3 DEF LaneInv

LEMMA LaneSendInv == ASSUME LaneInv, NEW l \in Lanes, LaneSend(l) PROVE LaneInv'
<1> USE DEF LaneInv
<1>1. UNCHANGED <<highBurst, nonLowBurst, look, waited>> /\ depth' = [depth EXCEPT ![l] = @ + 1]
  BY DEF LaneSend
<1>2. LaneTypes'
  BY <1>1, SMT DEF LaneTypes
<1>3. \A k \in Lanes : depth'[k] = 0 => depth[k] = 0
  BY <1>1, SMT DEF LaneTypes
<1>4. ScanOrder' = ScanOrder
  BY <1>1 DEF ScanOrder
<1>5. NoneWaits'
  BY <1>1, <1>3, <1>4 DEF NoneWaits, Passed
<1>6. BurstsBound'
  BY <1>1 DEF BurstsBound
<1> QED
  BY <1>2, <1>5, <1>6

\* A message is taken: the lanes tryReceiveFair has passed had none that waits.
LEMMA LaneTakeInv ==
  ASSUME LaneInv, NEW l \in Lanes, LaneTake(l),
         nonLowBurst >= MaxNonLow /\ l # "low" => waited["low"] = 0,
         l = "latest" => waited["low"] = 0,
         highBurst >= MaxHigh /\ l = "high" => waited["normal"] = 0,
         ~(nonLowBurst >= MaxNonLow) /\ l \in {"low", "latest"} => waited["normal"] = 0
  PROVE  LaneInv'
<1> USE DEF LaneInv
<1>1. /\ depth' = [depth EXCEPT ![l] = @ - 1] /\ depth[l] > 0 /\ look' = 1 /\ Record(l)
      /\ waited' = [k \in Lanes |-> IF k = l \/ depth[k] = 0 THEN 0 ELSE UpTo(waited[k] + 1, MaxWait)]
  BY DEF LaneTake
<1>2. /\ highBurst \in Nat /\ nonLowBurst \in Nat /\ MaxHigh \in Nat /\ MaxNonLow \in Nat /\ MaxWait \in Nat
      /\ highBurst <= MaxHigh /\ nonLowBurst <= MaxNonLow /\ MaxHigh < MaxNonLow /\ MaxHigh # 0
  BY BurstsAssumption, SMT DEF LaneTypes, MaxWait
<1>3. ASSUME NEW k \in Lanes
      PROVE  /\ waited[k] \in Nat /\ waited'[k] \in Nat /\ waited'[k] <= waited[k] + 1
             /\ k = l \/ depth[k] = 0 => waited'[k] = 0
  <2>1. waited[k] \in Nat
    BY DEF LaneTypes
  <2>2. waited'[k] = IF k = l \/ depth[k] = 0 THEN 0 ELSE UpTo(waited[k] + 1, MaxWait)
    BY <1>1
  <2>3. waited[k] + 1 \in Nat
    BY <2>1, SMT
  <2>4. UpTo(waited[k] + 1, MaxWait) \in Nat /\ UpTo(waited[k] + 1, MaxWait) <= waited[k] + 1
    BY <1>2, <2>3, UpToFact
  <2> QED
    BY <2>1, <2>2, <2>4, SMT
<1>4. /\ highBurst' = IF l = "high" THEN UpTo(highBurst + 1, MaxHigh) ELSE 0
      /\ nonLowBurst' = IF l \in {"high", "normal"} THEN UpTo(nonLowBurst + 1, MaxNonLow) ELSE 0
  BY <1>1 DEF Record
<1>5. highBurst' \in 0..MaxHigh /\ nonLowBurst' \in 0..MaxNonLow
  BY <1>2, <1>4, SMT DEF UpTo
<1>6. LaneTypes'
  <2>1. depth' \in [Lanes -> Nat]
    BY <1>1, SMT DEF LaneTypes
  <2>2. waited' \in [Lanes -> Nat]
    BY <1>1, <1>3
  <2>3. look' \in Nat \ {0}
    BY <1>1, SMT
  <2> QED
    BY <1>5, <2>1, <2>2, <2>3 DEF LaneTypes
<1>7. NoneWaits'
  <2>1. \A k \in Lanes : ~Passed(k)'
    BY <1>1, SMT DEF Passed
  <2>2. ASSUME NEW k \in Lanes, depth'[k] = 0 PROVE k = l \/ depth[k] = 0
    BY <1>1, <2>2 DEF LaneTypes
  <2> QED
    BY <1>3, <2>1, <2>2 DEF NoneWaits
<1>8. "low" \in Lanes /\ "normal" \in Lanes /\ l \in {"high", "normal", "low", "latest"}
  BY DEF Lanes
<1>9. waited'["low"] <= nonLowBurst' + 1
  <2>1. waited["low"] \in Nat /\ waited'["low"] \in Nat /\ waited'["low"] <= waited["low"] + 1
        /\ (l = "low" => waited'["low"] = 0) /\ waited["low"] <= nonLowBurst + 1
    BY <1>3, <1>8 DEF BurstsBound
  <2>2. nonLowBurst' \in Nat
    BY <1>2, <1>5, SMT
  <2>3. CASE l \in {"low", "latest"}
    BY <2>1, <2>2, <2>3, SMT
  <2>4. CASE l \in {"high", "normal"} /\ nonLowBurst >= MaxNonLow
    BY <2>1, <2>2, <2>4, SMT
  <2>5. CASE l \in {"high", "normal"} /\ ~(nonLowBurst >= MaxNonLow)
    <3>1. nonLowBurst' = nonLowBurst + 1
      BY <1>2, <1>4, <2>5, SMT DEF UpTo
    <3> QED
      BY <1>2, <2>1, <3>1, SMT
  <2> QED
    BY <1>8, <2>3, <2>4, <2>5
<1>10. \/ waited'["normal"] <= highBurst'
       \/ waited'["normal"] <= MaxHigh + 1 + highBurst' /\ nonLowBurst' <= highBurst'
  <2>1. waited["normal"] \in Nat /\ waited'["normal"] \in Nat /\ waited'["normal"] <= waited["normal"] + 1
        /\ (l = "normal" => waited'["normal"] = 0)
    BY <1>3, <1>8
  <2>2. \/ waited["normal"] <= highBurst
        \/ waited["normal"] <= MaxHigh + 1 + highBurst /\ nonLowBurst <= highBurst
    BY DEF BurstsBound
  <2>3. highBurst' \in Nat /\ nonLowBurst' \in Nat
    BY <1>2, <1>5, SMT
  <2>4. CASE l = "normal"
    BY <2>1, <2>3, <2>4, SMT
  <2>5. CASE l = "high" /\ highBurst >= MaxHigh
    <3>1. highBurst' = MaxHigh
      BY <1>2, <1>4, <2>5, SMT DEF UpTo
    <3> QED
      BY <1>2, <2>1, <2>5, <3>1, SMT
  <2>6. CASE l = "high" /\ ~(highBurst >= MaxHigh)
    <3>1. highBurst' = highBurst + 1 /\ nonLowBurst' <= nonLowBurst + 1
      BY <1>2, <1>4, <2>6, SMT DEF UpTo
    <3> QED
      BY <1>2, <2>1, <2>2, <2>3, <3>1, SMT
  <2>7. CASE l \in {"low", "latest"}
    <3>1. highBurst' = 0 /\ nonLowBurst' = 0
      BY <1>4, <2>7
    <3>2. waited["normal"] <= MaxHigh
      BY <1>2, <2>1, <2>2, <2>7, SMT
    <3> QED
      BY <1>2, <2>1, <3>1, <3>2, SMT
  <2> QED
    BY <1>8, <2>4, <2>5, <2>6, <2>7
<1> QED
  BY <1>6, <1>7, <1>9, <1>10 DEF BurstsBound

LEMMA LookInv == LaneInv /\ Look => LaneInv'
<1> SUFFICES ASSUME LaneInv, Look PROVE LaneInv'
  OBVIOUS
<1> USE DEF LaneInv
<1>1. ScanFacts(ScanOrder, highBurst >= MaxHigh, nonLowBurst >= MaxNonLow)
  BY ScanFact
<1>2. look \in Nat \ {0} /\ look <= Len(ScanOrder)
  BY DEF Look, LaneTypes
<1>3. Len(ScanOrder) \in Nat
  BY <1>1 DEF ScanFacts
<1>4. look \in 1..Len(ScanOrder)
  BY <1>2, <1>3, SMT
<1>5. PICK l : l = ScanOrder[look]
  OBVIOUS
<1>6. /\ l \in Lanes
      /\ nonLowBurst >= MaxNonLow /\ l # "low" => Passed("low")
      /\ l = "latest" => Passed("low")
      /\ highBurst >= MaxHigh /\ l = "high" => Passed("normal")
      /\ ~(nonLowBurst >= MaxNonLow) /\ l \in {"low", "latest"} => Passed("normal")
  BY <1>1, <1>4, <1>5 DEF ScanFacts, Passed
<1>7. "low" \in Lanes /\ "normal" \in Lanes
  BY DEF Lanes
<1>8. CASE LaneTake(l)
  BY <1>6, <1>7, <1>8, LaneTakeInv DEF NoneWaits
<1>9. CASE depth[l] = 0 /\ look' = look + 1 /\ UNCHANGED <<depth, highBurst, nonLowBurst, waited>>
  <2>1. LaneTypes'
    BY <1>9, SMT DEF LaneTypes
  <2>2. ScanOrder' = ScanOrder
    BY <1>9 DEF ScanOrder
  <2>3. ASSUME NEW k \in Lanes, Passed(k)' PROVE Passed(k) \/ k = l
    <3>1. PICK j \in 1..Len(ScanOrder) : j < look + 1 /\ ScanOrder[j] = k
      BY <1>9, <2>2, <2>3 DEF Passed
    <3>2. j < look \/ j = look
      BY <1>2, <1>3, <3>1, SMT
    <3> QED
      BY <1>5, <3>1, <3>2 DEF Passed
  <2>4. NoneWaits'
    BY <1>6, <1>9, <2>3 DEF NoneWaits
  <2>5. BurstsBound'
    BY <1>9 DEF BurstsBound
  <2> QED
    BY <2>1, <2>4, <2>5
<1> QED
  BY <1>5, <1>8, <1>9 DEF Look

LEMMA LaneSelectInv == LaneInv /\ LaneSelect => LaneInv'
<1> SUFFICES ASSUME LaneInv, LaneSelect PROVE LaneInv'
  OBVIOUS
<1> USE DEF LaneInv
<1>1. PICK l \in Lanes : LaneTake(l)
  BY DEF LaneSelect
<1>2. \A k \in Lanes : \E j \in 1..Len(ScanOrder) : ScanOrder[j] = k
  BY ScanFact DEF ScanFacts
<1>3. look \in Nat /\ look > Len(ScanOrder) /\ Len(ScanOrder) \in Nat
  BY ScanFact DEF LaneSelect, LaneTypes, ScanFacts
<1>4. \A j \in 1..Len(ScanOrder) : j < look
  BY <1>3, SMT
<1>5. \A k \in Lanes : waited[k] = 0
  BY <1>2, <1>4 DEF Passed, NoneWaits
<1> QED
  BY <1>1, <1>5, LaneTakeInv DEF Lanes

\* However fast the lanes are filled, and whatever the bursts are limited to as long as a
\* high burst is the shorter one, no head of the low or the normal lane waits for more
\* messages than that (tryReceiveFair, actorScheduler.record).
THEOREM LanesDoNotStarve == LaneSpec => []WaitBounded
<1>1. LaneInv /\ [LaneNext]_laneVars => LaneInv'
  <2> SUFFICES ASSUME LaneInv, [LaneNext]_laneVars PROVE LaneInv'
    OBVIOUS
  <2>1. CASE UNCHANGED laneVars
    <3>1. UNCHANGED <<depth, highBurst, nonLowBurst, look, waited>>
      BY <2>1 DEF laneVars
    <3>2. ScanOrder' = ScanOrder
      BY <3>1 DEF ScanOrder
    <3> QED
      BY <3>1, <3>2 DEF LaneInv, LaneTypes, NoneWaits, Passed, BurstsBound
  <2>2. CASE LaneNext
    BY <2>2, LaneSendInv, LookInv, LaneSelectInv DEF LaneNext
  <2> QED
    BY <2>1, <2>2
<1>2. LaneInv => WaitBounded
  <2> SUFFICES ASSUME LaneInv PROVE WaitBounded
    OBVIOUS
  <2>1. waited["low"] \in Nat /\ waited["normal"] \in Nat
    BY DEF LaneInv, LaneTypes, Lanes
  <2> QED
    BY <2>1, BurstsAssumption, SMT DEF LaneInv, LaneTypes, BurstsBound, WaitBounded
<1> QED
  BY <1>1, <1>2, LaneInitInv, PTL DEF LaneSpec

-----------------------------------------------------------------------------
(* Runner *)

In(s) == {s[i] : i \in DOMAIN s}
Distinct(s) == \A i, j \in DOMAIN s : s[i] = s[j] => i = j

\* Where the goroutine has a command
Holding == {"signal", "execute", "fn"}

RunnerTypes ==
  /\ runnerState \in {"new", "running", "stopping", "stopped"}
  /\ rpc \in {"none", "top", "select", "drain"} \cup Holding
  /\ cmdCh \in Seq(Clients) /\ handled \in Seq(Clients)
  /\ cmd = <<>> \/ \E c \in Clients : cmd = <<c>>
  /\ kind \in [Clients -> {"do", "post", "try"}]
  /\ DOMAIN clientPc = Clients /\ DOMAIN result = Clients /\ DOMAIN stop = Stoppers

\* The goroutine runs while the runner does, and leaves nothing when it ends.
Stages ==
  /\ rpc \in Holding <=> cmd # <<>>
  /\ rpc = "none" <=> runnerState \in {"new", "stopped"}
  /\ rpc = "none" => cmdCh = <<>>
  /\ rpc = "drain" => runnerState = "stopping"
  /\ \A s \in Stoppers : stop[s] = "nil" => runnerState = "stopped"

\* A command is in one place, and has been started only where it is or was executed.
Once ==
  /\ Distinct(cmdCh)
  /\ \A c \in In(cmdCh) : c \notin In(cmd) /\ c \notin In(handled)
  /\ \A c \in In(cmd) : c \notin In(handled)
  /\ \A c \in started : c \in In(handled) \/ (c \in In(cmd) /\ rpc = "fn")
  /\ rpc = "fn" => \A c \in In(cmd) : c \in started

\* What a client knows of its command
Told(c) ==
  /\ clientPc[c] \in {"idle", "admit", "wait"} =>
       result[c] = "none" /\ c \notin In(handled) /\ c \notin In(cmd) /\ c \notin In(cmdCh)
  /\ c \in In(cmd) \/ c \in In(cmdCh) => result[c] = IF kind[c] = "do" THEN "none" ELSE "nil"
  /\ result[c] \in Errors \ {"panic"} => clientPc[c] = "returned" /\ c \notin started
  /\ kind[c] = "do" /\ result[c] \in {"nil", "panic"} => c \in started /\ c \in In(handled)

RunnerInv == RunnerTypes /\ FifoConservation /\ Stages /\ Once /\ \A c \in Clients : Told(c)

LEMMA InAppend ==
  ASSUME NEW S, NEW s \in Seq(S), NEW x \in S
  PROVE  /\ Append(s, x) \in Seq(S) /\ In(Append(s, x)) = In(s) \cup {x}
         /\ Distinct(s) /\ x \notin In(s) => Distinct(Append(s, x))
<1> DEFINE t == Append(s, x)
<1>1. /\ t \in Seq(S) /\ Len(t) = Len(s) + 1 /\ DOMAIN s = 1..Len(s) /\ DOMAIN t = 1..Len(t)
      /\ t[Len(s) + 1] = x /\ \A i \in 1..Len(s) : t[i] = s[i]
  BY SMT
<1> HIDE DEF t
<1>2. In(t) = In(s) \cup {x}
  BY <1>1, SMT DEF In
<1>3. Distinct(s) /\ x \notin In(s) => Distinct(t)
  BY <1>1, SMT DEF In, Distinct
<1> QED
  BY <1>1, <1>2, <1>3 DEF t

LEMMA InTail ==
  ASSUME NEW S, NEW s \in Seq(S), s # <<>>
  PROVE  /\ Tail(s) \in Seq(S) /\ Head(s) \in S /\ In(s) = In(Tail(s)) \cup {Head(s)}
         /\ Distinct(s) => Distinct(Tail(s)) /\ Head(s) \notin In(Tail(s))
<1> DEFINE t == Tail(s)
<1>1. /\ t \in Seq(S) /\ Len(t) \in Nat /\ Len(s) = Len(t) + 1 /\ DOMAIN s = 1..Len(s) /\ DOMAIN t = 1..Len(t)
      /\ Head(s) = s[1] /\ Head(s) \in S /\ \A i \in 1..Len(t) : t[i] = s[i + 1]
  BY SMT
<1> HIDE DEF t
<1>2. In(s) = In(t) \cup {s[1]}
  <2>1. ASSUME NEW i \in 1..Len(s), i # 1 PROVE i - 1 \in 1..Len(t) /\ t[i - 1] = s[i]
    BY <1>1, <2>1, SMT
  <2>2. ASSUME NEW i \in 1..Len(t) PROVE i + 1 \in 1..Len(s) /\ t[i] = s[i + 1]
    BY <1>1, SMT
  <2>3. 1 \in 1..Len(s)
    BY <1>1, SMT
  <2>4. ASSUME NEW x \in In(s) PROVE x \in In(t) \cup {s[1]}
    <3>1. PICK i \in 1..Len(s) : x = s[i]
      BY <1>1 DEF In
    <3> QED
      BY <1>1, <2>1, <3>1 DEF In
  <2>5. ASSUME NEW x \in In(t) PROVE x \in In(s)
    <3>1. PICK i \in 1..Len(t) : x = t[i]
      BY <1>1 DEF In
    <3> QED
      BY <1>1, <2>2, <3>1 DEF In
  <2>6. s[1] \in In(s)
    BY <1>1, <2>3 DEF In
  <2> QED
    BY <2>4, <2>5, <2>6
<1>3. ASSUME Distinct(s) PROVE Distinct(t) /\ s[1] \notin In(t)
  <2>1. ASSUME NEW i \in 1..Len(t), NEW j \in 1..Len(t), t[i] = t[j] PROVE i = j
    <3>1. i + 1 \in 1..Len(s) /\ j + 1 \in 1..Len(s) /\ s[i + 1] = s[j + 1]
      BY <1>1, <2>1, SMT
    <3>2. i + 1 = j + 1
      BY <1>1, <1>3, <3>1 DEF Distinct
    <3> QED
      BY <3>2, SMT
  <2>2. ASSUME NEW i \in 1..Len(t), t[i] = s[1] PROVE FALSE
    <3>1. i + 1 \in 1..Len(s) /\ 1 \in 1..Len(s) /\ s[i + 1] = s[1]
      BY <1>1, <2>2, SMT
    <3>2. i + 1 = 1
      BY <1>1, <1>3, <3>1 DEF Distinct
    <3> QED
      BY <3>2, SMT
  <2> QED
    BY <1>1, <2>1, <2>2 DEF Distinct, In
<1> QED
  BY <1>1, <1>2, <1>3 DEF t

LEMMA InOne == In(<<>>) = {} /\ Distinct(<<>>) /\ \A x : In(<<x>>) = {x}
BY SMT DEF In, Distinct

Associate(a, b, c) == (a \o b) \o c = a \o (b \o c)

LEMMA AppendOne == ASSUME NEW S, NEW seq \in Seq(S), NEW x \in S PROVE Append(seq, x) = seq \o <<x>>
BY SMT

LEMMA Reassociate ==
  ASSUME NEW S, NEW a \in Seq(S), NEW b \in Seq(S), NEW c \in Seq(S)
  PROVE  Associate(a, b, c)
BY SMT DEF Associate

LEMMA MoveHead ==
  ASSUME NEW S, NEW h \in Seq(S), NEW q \in Seq(S), q # <<>>, NEW a, a = <<Head(q)>>
  PROVE  h \o q = (h \o a) \o Tail(q)
<1> DEFINE b == Tail(q)
<1>1. a \in Seq(S) /\ b \in Seq(S) /\ q = a \o b
  BY SMT
<1> HIDE DEF b
<1>2. Associate(h, a, b)
  BY <1>1, Reassociate
<1> QED
  BY <1>1, <1>2 DEF b, Associate

\* The ways a command moves on: into cmdCh, to the goroutine, and out of its hands.
Moves(S, h, c, q) ==
  /\ \A x \in S : Append(h \o c \o q, x) = h \o c \o Append(q, x)
  /\ q # <<>> => h \o <<>> \o q = h \o <<Head(q)>> \o Tail(q)
  /\ h \o c \in Seq(S) /\ h \o c \o q = h \o c \o <<>> \o q
  /\ h \o <<>> \o <<>> = h

LEMMA FifoMoves ==
  ASSUME NEW S, NEW h \in Seq(S), NEW c \in Seq(S), NEW q \in Seq(S)
  PROVE  Moves(S, h, c, q)
<1>0. h \o c \in Seq(S)
  BY SMT
<1>1. ASSUME NEW x \in S PROVE Append(h \o c \o q, x) = h \o c \o Append(q, x)
  <2>1. PICK g, z : g = h \o c /\ z = <<x>>
    OBVIOUS
  <2>2. g \in Seq(S) /\ z \in Seq(S) /\ g \o q \in Seq(S) /\ Append(q, x) = q \o z
    BY <1>0, <2>1, SMT
  <2>3. Append(g \o q, x) = (g \o q) \o z
    BY <2>1, <2>2, AppendOne
  <2>4. Associate(g, q, z)
    BY <2>2, Reassociate
  <2> QED
    BY <2>1, <2>2, <2>3, <2>4 DEF Associate
<1>2. ASSUME q # <<>> PROVE h \o <<>> \o q = h \o <<Head(q)>> \o Tail(q)
  <2>1. h \o <<>> = h
    BY SMT
  <2>2. h \o q = (h \o <<Head(q)>>) \o Tail(q)
    BY <1>2, MoveHead
  <2> QED
    BY <2>1, <2>2
<1>3. h \o c \o q = h \o c \o <<>> \o q
  BY SMT
<1>4. h \o <<>> \o <<>> = h
  BY SMT
<1> QED
  BY <1>0, <1>1, <1>2, <1>3, <1>4 DEF Moves

LEMMA RunnerInitInv == RunnerInit => RunnerInv
<1> SUFFICES ASSUME RunnerInit PROVE RunnerInv
  OBVIOUS
<1> USE DEF RunnerInit
<1>1. RunnerTypes
  <2>1. cmdCh \in Seq(Clients) /\ handled \in Seq(Clients)
    BY SMT
  <2> QED
    BY <2>1 DEF RunnerTypes
<1>2. FifoConservation
  BY SMT DEF FifoConservation
<1>3. Stages
  BY DEF Stages, Holding
<1>4. Once
  BY InOne DEF Once
<1>5. \A c \in Clients : Told(c)
  BY InOne DEF Told, Errors
<1> QED
  BY <1>1, <1>2, <1>3, <1>4, <1>5 DEF RunnerInv

\* Steps that move no command and tell no client anything
LEMMA QuietRunner ==
  ASSUME RunnerInv, UNCHANGED <<cmdCh, cmd, handled, started, clientVars>>,
         rpc' = "fn" <=> rpc = "fn", RunnerTypes', Stages'
  PROVE  RunnerInv'
<1>1. UNCHANGED <<cmdCh, cmd, handled, started, clientPc, kind, result, admitted>>
  BY DEF clientVars
<1>2. FifoConservation'
  BY <1>1 DEF RunnerInv, FifoConservation
<1>3. Once'
  BY <1>1 DEF RunnerInv, Once
<1>4. ASSUME NEW c \in Clients PROVE Told(c)'
  BY <1>1 DEF RunnerInv, Told
<1> QED
  BY <1>2, <1>3, <1>4 DEF RunnerInv

LEMMA StartRunnerInv == RunnerInv /\ StartRunner => RunnerInv'
<1> SUFFICES ASSUME RunnerInv, StartRunner PROVE RunnerInv'
  OBVIOUS
<1> USE DEF StartRunner, RunnerInv
<1>1. UNCHANGED <<cmdCh, cmd, handled, started, clientVars, stop>>
  OBVIOUS
<1>2. RunnerTypes'
  BY DEF RunnerTypes, clientVars
<1>3. rpc = "none"
  BY DEF Stages
<1>4. Stages'
  BY <1>3 DEF Stages, Holding
<1> QED
  BY <1>1, <1>2, <1>3, <1>4, QuietRunner

LEMMA CancelInv == ASSUME NEW x, RunnerInv, Cancel(x) PROVE RunnerInv'
<1>1. UNCHANGED <<runnerState, cmdCh, stop, rpc, cmd, handled, started, clientVars>>
  BY DEF Cancel, goroutineVars
<1>2. RunnerTypes' /\ Stages'
  BY <1>1 DEF RunnerInv, RunnerTypes, Stages, clientVars
<1> QED
  BY <1>1, <1>2, QuietRunner

LEMMA StopInvariant ==
  ASSUME NEW s \in Stoppers, RunnerInv, Stop(s) \/ StopReturn(s)
  PROVE  RunnerInv'
<1> USE DEF RunnerInv
<1>1. UNCHANGED <<cmdCh, rpc, cmd, handled, started, clientVars>>
  BY DEF Stop, StopReturn, goroutineVars
<1>2. \/ runnerState' = runnerState
      \/ runnerState = "new" /\ runnerState' = "stopped"
      \/ runnerState \in {"running", "stopping"} /\ runnerState' = "stopping"
  BY DEF Stop, StopReturn
<1>3. /\ DOMAIN stop' = Stoppers
      /\ \A t \in Stoppers : stop'[t] = "nil" => stop[t] = "nil" \/ runnerState' = "stopped"
  BY DEF Stop, StopReturn, doneChClosed, RunnerTypes
<1>4. RunnerTypes'
  BY <1>1, <1>2, <1>3 DEF RunnerTypes, clientVars
<1>5. Stages'
  <2>1. rpc = "none" <=> runnerState' \in {"new", "stopped"}
    BY <1>2 DEF Stages
  <2>2. rpc = "drain" => runnerState' = "stopping"
    BY <1>2 DEF Stages
  <2>3. \A t \in Stoppers : stop'[t] = "nil" => runnerState' = "stopped"
    BY <1>2, <1>3 DEF Stages
  <2> QED
    BY <1>1, <2>1, <2>2, <2>3 DEF Stages
<1> QED
  BY <1>1, <1>4, <1>5, QuietRunner

LEMMA RunTopInv == RunnerInv /\ RunTop => RunnerInv'
<1> SUFFICES ASSUME RunnerInv, RunTop PROVE RunnerInv'
  OBVIOUS
<1> USE DEF RunnerInv
<1>1. /\ UNCHANGED <<runnerState, cmdCh, cmd, handled, started, clientVars, stop>>
      /\ rpc = "top" /\ rpc' = IF stopChClosed THEN "drain" ELSE "select"
  BY DEF RunTop
<1>2. runnerState # "stopped" /\ cmd = <<>>
  BY <1>1 DEF Stages, Holding
<1>3. RunnerTypes'
  BY <1>1 DEF RunnerTypes, clientVars
<1>4. Stages'
  BY <1>1, <1>2 DEF Stages, Holding, stopChClosed
<1> QED
  BY <1>1, <1>3, <1>4, QuietRunner

LEMMA SignalInv == RunnerInv /\ SignalQueueSpace => RunnerInv'
<1> SUFFICES ASSUME RunnerInv, SignalQueueSpace PROVE RunnerInv'
  OBVIOUS
<1> USE DEF RunnerInv
<1>1. /\ UNCHANGED <<runnerState, cmdCh, cmd, handled, started, clientVars, stop>>
      /\ rpc = "signal" /\ rpc' = "execute"
  BY DEF SignalQueueSpace
<1>2. RunnerTypes'
  BY <1>1 DEF RunnerTypes, clientVars, Holding
<1>3. Stages'
  BY <1>1 DEF Stages, Holding
<1> QED
  BY <1>1, <1>2, <1>3, QuietRunner

\* A command goes from the queue to the goroutine.
LEMMA ReceiveInv ==
  ASSUME RunnerInv, Receive, rpc \in {"select", "drain"},
         UNCHANGED <<runnerState, stop, handled, started, clientVars>>
  PROVE  RunnerInv'
<1> USE DEF RunnerInv
<1>1. UNCHANGED <<clientPc, kind, result, admitted>>
  BY DEF clientVars
<1>2. /\ cmdCh # <<>> /\ cmd' = <<Head(cmdCh)>> /\ cmdCh' = Tail(cmdCh) /\ rpc' = "signal" /\ cmd = <<>>
      /\ cmdCh \in Seq(Clients) /\ handled \in Seq(Clients) /\ Distinct(cmdCh)
  BY DEF Receive, Stages, Holding, RunnerTypes, Once
<1>3. PICK c : c = Head(cmdCh)
  OBVIOUS
<1>4. /\ cmdCh' \in Seq(Clients) /\ c \in Clients /\ In(cmdCh) = In(cmdCh') \cup {c}
      /\ Distinct(cmdCh') /\ c \notin In(cmdCh')
  BY <1>2, <1>3, InTail
<1>5. In(cmd) = {} /\ In(cmd') = {c}
  BY <1>2, <1>3, InOne
<1>6. RunnerTypes'
  BY <1>1, <1>2, <1>3, <1>4 DEF RunnerTypes, Holding
<1>7. FifoConservation'
  <2>1. <<>> \in Seq(Clients)
    BY SMT
  <2>2. Moves(Clients, handled, <<>>, cmdCh)
    BY <1>2, <2>1, FifoMoves
  <2> QED
    BY <1>1, <1>2, <2>2 DEF FifoConservation, Moves
<1>8. Stages'
  <2>1. <<Head(cmdCh)>> # <<>>
    BY SMT
  <2>2. rpc # "none"
    OBVIOUS
  <2> QED
    BY <1>2, <2>1, <2>2 DEF Stages, Holding
<1>9. Once'
  BY <1>2, <1>4, <1>5 DEF Once
<1>10. ASSUME NEW d \in Clients PROVE Told(d)'
  BY <1>1, <1>4, <1>5 DEF Told
<1> QED
  BY <1>6, <1>7, <1>8, <1>9, <1>10

LEMMA SelectInv == RunnerInv /\ Select => RunnerInv'
<1> SUFFICES ASSUME RunnerInv, Select PROVE RunnerInv'
  OBVIOUS
<1>1. UNCHANGED <<runnerState, stop, handled, started, clientVars>> /\ rpc = "select"
  BY DEF Select
<1>2. CASE Receive
  BY <1>1, <1>2, ReceiveInv
<1>3. CASE stopChClosed /\ rpc' = "drain" /\ UNCHANGED <<cmdCh, cmd>>
  <2>1. RunnerTypes'
    BY <1>1, <1>3 DEF RunnerInv, RunnerTypes, clientVars
  <2>2. runnerState = "stopping" /\ cmd = <<>>
    BY <1>1, <1>3 DEF RunnerInv, Stages, stopChClosed, Holding
  <2>3. Stages'
    BY <1>1, <1>3, <2>2 DEF RunnerInv, Stages, Holding
  <2> QED
    BY <1>1, <1>3, <2>1, <2>3, QuietRunner
<1> QED
  BY <1>2, <1>3 DEF Select

LEMMA DrainInv == RunnerInv /\ DrainAndStop => RunnerInv'
<1> SUFFICES ASSUME RunnerInv, DrainAndStop PROVE RunnerInv'
  OBVIOUS
<1>1. UNCHANGED <<stop, handled, started, clientVars>> /\ rpc = "drain"
  BY DEF DrainAndStop
<1>2. CASE Receive /\ UNCHANGED runnerState
  BY <1>1, <1>2, ReceiveInv
<1>3. CASE cmdCh = <<>> /\ rpc' = "none" /\ runnerState' = "stopped" /\ UNCHANGED <<cmdCh, cmd>>
  <2>1. RunnerTypes'
    BY <1>1, <1>3 DEF RunnerInv, RunnerTypes, clientVars
  <2>2. Stages'
    BY <1>1, <1>3 DEF RunnerInv, Stages, Holding
  <2> QED
    BY <1>1, <1>3, <2>1, <2>2, QuietRunner
<1> QED
  BY <1>2, <1>3 DEF DrainAndStop

\* What a client is told on its return, and what the others know, when no command moves.
LEMMA ReturnInv ==
  ASSUME RunnerInv, NEW c \in Clients, clientPc[c] \in {"idle", "admit", "wait"},
         UNCHANGED <<runnerState, cmdCh, stop, rpc, cmd, handled, started, kind, admitted>>,
         \/ \E r \in Errors \ {"panic"} : Return(c, r)
         \/ UNCHANGED result /\ \E l \in {"admit", "wait"} : clientPc' = [clientPc EXCEPT ![c] = l]
  PROVE  RunnerInv'
<1> USE DEF RunnerInv
<1>1. /\ DOMAIN clientPc' = Clients /\ DOMAIN result' = Clients
      /\ \A d \in Clients : d # c => clientPc'[d] = clientPc[d] /\ result'[d] = result[d]
      /\ \/ clientPc'[c] = "returned" /\ result'[c] \in Errors \ {"panic"}
         \/ result'[c] = result[c] /\ clientPc'[c] \in {"admit", "wait"}
  BY DEF Return, RunnerTypes
<1>2. /\ result[c] = "none" /\ c \notin In(handled) /\ c \notin In(cmd) /\ c \notin In(cmdCh)
      /\ c \notin started
  BY DEF Told, Once
<1>3. RunnerTypes' /\ Stages' /\ FifoConservation' /\ Once'
  BY <1>1 DEF RunnerTypes, Stages, FifoConservation, Once
<1>4. "nil" \notin Errors /\ "none" \notin Errors
  BY DEF Errors
<1>5. ASSUME NEW d \in Clients PROVE Told(d)'
  <2>1. CASE d = c
    BY <1>1, <1>2, <1>4, <2>1 DEF Told
  <2>2. CASE d # c
    BY <1>1, <2>2 DEF Told
  <2> QED
    BY <2>1, <2>2
<1> QED
  BY <1>3, <1>5

\* A command is admitted.
LEMMA EnqueueInv ==
  ASSUME RunnerInv, NEW c \in Clients, clientPc[c] \in {"idle", "admit"}, runnerState = "running",
         UNCHANGED <<runnerState, stop, rpc, cmd, handled, started, kind>>,
         cmdCh' = Append(cmdCh, c), admitted' = Append(admitted, c),
         IF kind[c] = "do"
         THEN clientPc' = [clientPc EXCEPT ![c] = "await"] /\ UNCHANGED result
         ELSE Return(c, "nil")
  PROVE  RunnerInv'
<1> USE DEF RunnerInv
<1>1. /\ DOMAIN clientPc' = Clients /\ DOMAIN result' = Clients
      /\ \A d \in Clients : d # c => clientPc'[d] = clientPc[d] /\ result'[d] = result[d]
      /\ clientPc'[c] \in {"await", "returned"}
      /\ result'[c] = IF kind[c] = "do" THEN result[c] ELSE "nil"
  BY DEF Return, RunnerTypes
<1>2. /\ result[c] = "none" /\ c \notin In(handled) /\ c \notin In(cmd) /\ c \notin In(cmdCh)
      /\ c \notin started
  BY DEF Told, Once
<1>3. cmdCh \in Seq(Clients) /\ handled \in Seq(Clients) /\ Distinct(cmdCh)
  BY DEF RunnerTypes, Once
<1>4. cmdCh' \in Seq(Clients) /\ In(cmdCh') = In(cmdCh) \cup {c} /\ Distinct(cmdCh')
  <2>1. /\ Append(cmdCh, c) \in Seq(Clients) /\ In(Append(cmdCh, c)) = In(cmdCh) \cup {c}
        /\ Distinct(cmdCh) /\ c \notin In(cmdCh) => Distinct(Append(cmdCh, c))
    BY <1>3, InAppend, SMTT(20)
  <2> QED
    BY <1>2, <1>3, <2>1
<1>5. RunnerTypes'
  BY <1>1, <1>4 DEF RunnerTypes
<1>6. Stages'
  BY DEF Stages
<1>7. FifoConservation'
  <2>1. cmd \in Seq(Clients)
    <3>1. CASE cmd = <<>>
      BY <3>1, SMT
    <3>2. ASSUME NEW d \in Clients, cmd = <<d>> PROVE cmd \in Seq(Clients)
      BY <3>2, SMT
    <3> QED
      BY <3>1, <3>2 DEF RunnerTypes
  <2>2. Moves(Clients, handled, cmd, cmdCh)
    BY <1>3, <2>1, FifoMoves
  <2> QED
    BY <2>2 DEF FifoConservation, Moves
<1>8. Once'
  BY <1>2, <1>4 DEF Once
<1>9. ASSUME NEW d \in Clients PROVE Told(d)'
  <2>1. CASE d = c
    BY <1>1, <1>2, <1>4, <2>1 DEF Told, Errors
  <2>2. CASE d # c
    BY <1>1, <1>4, <2>2 DEF Told
  <2> QED
    BY <2>1, <2>2
<1> QED
  BY <1>5, <1>6, <1>7, <1>8, <1>9

LEMMA ClientInv == ASSUME RunnerInv, NEW c \in Clients, Client(c) PROVE RunnerInv'
<1>1. UNCHANGED <<runnerState, stop, rpc, cmd, handled, started, kind>>
  BY DEF Client, Admit, Wait, goroutineVars
<1>2. runnerState \in {"new", "running", "stopping", "stopped"}
  BY DEF RunnerInv, RunnerTypes
<1>3. /\ runnerState # "running" => runnerState \in Errors \ {"panic"}
      /\ stopChClosed => runnerState \in Errors \ {"panic"}
      /\ "ctx" \in Errors \ {"panic"} /\ "full" \in Errors \ {"panic"}
  BY <1>2 DEF Errors, stopChClosed
<1>4. CASE Admit(c)
  <2>1. clientPc[c] \in {"idle", "admit"}
    BY <1>4 DEF Admit
  <2>2. CASE runnerState # "running" /\ Return(c, runnerState) /\ UNCHANGED <<cmdCh, admitted>>
    BY <1>1, <1>3, <2>1, <2>2, ReturnInv
  <2>3. CASE Return(c, "ctx") /\ UNCHANGED <<cmdCh, admitted>>
    BY <1>1, <1>3, <2>1, <2>3, ReturnInv
  <2>4. CASE /\ runnerState = "running" /\ cmdCh' = Append(cmdCh, c) /\ admitted' = Append(admitted, c)
             /\ IF kind[c] = "do"
                THEN clientPc' = [clientPc EXCEPT ![c] = "await"] /\ UNCHANGED result
                ELSE Return(c, "nil")
    BY <1>1, <2>1, <2>4, EnqueueInv
  <2>5. CASE Return(c, "full") /\ UNCHANGED <<cmdCh, admitted>>
    BY <1>1, <1>3, <2>1, <2>5, ReturnInv
  <2>6. CASE clientPc' = [clientPc EXCEPT ![c] = "wait"] /\ UNCHANGED result /\ UNCHANGED <<cmdCh, admitted>>
    BY <1>1, <2>1, <2>6, ReturnInv
  <2> QED
    BY <1>4, <2>2, <2>3, <2>4, <2>5, <2>6 DEF Admit
<1>5. CASE Wait(c)
  <2>1. clientPc[c] = "wait" /\ UNCHANGED <<cmdCh, admitted>>
    BY <1>5 DEF Wait
  <2>2. CASE Return(c, "ctx")
    BY <1>1, <1>3, <2>1, <2>2, ReturnInv
  <2>3. CASE stopChClosed /\ Return(c, runnerState)
    BY <1>1, <1>3, <2>1, <2>3, ReturnInv
  <2>4. CASE clientPc' = [clientPc EXCEPT ![c] = "admit"] /\ UNCHANGED result
    BY <1>1, <2>1, <2>4, ReturnInv
  <2> QED
    BY <1>5, <2>2, <2>3, <2>4 DEF Wait
<1> QED
  BY <1>4, <1>5 DEF Client

\* The goroutine is done with a command: fn has ended, or it has not been called and will not be.
LEMMA CompleteInv ==
  ASSUME RunnerInv, NEW r, Complete(r), rpc \in {"execute", "fn"},
         UNCHANGED <<runnerState, cmdCh, stop, kind, admitted, started>>,
         IF rpc = "fn" THEN r \in {"nil", "panic"} ELSE r = "ctx" /\ kind[Head(cmd)] = "do"
  PROVE  RunnerInv'
<1> USE DEF RunnerInv
<1>1. PICK c \in Clients : cmd = <<c>>
  BY DEF Stages, Holding, RunnerTypes
<1>2. Head(cmd) = c
  BY <1>1, SMT
<1>3. /\ handled' = handled \o cmd /\ cmd' = <<>>
      /\ rpc' = IF runnerState = "stopping" THEN "drain" ELSE "top"
      /\ IF kind[c] = "do" THEN Return(c, r) ELSE UNCHANGED <<clientPc, result>>
  BY <1>2 DEF Complete
<1>4. cmdCh \in Seq(Clients) /\ handled \in Seq(Clients) /\ cmd \in Seq(Clients) /\ cmdCh' = cmdCh
  BY <1>1, SMT DEF RunnerTypes
<1>5. Moves(Clients, handled, cmd, cmdCh)
  BY <1>4, FifoMoves
<1>6. handled' \in Seq(Clients) /\ In(handled') = In(handled) \cup {c}
  <2>1. handled' = Append(handled, c)
    <3>1. Append(handled, c) = handled \o <<c>>
      BY <1>4, AppendOne
    <3> QED
      BY <1>1, <1>3, <3>1
  <2>2. Append(handled, c) \in Seq(Clients) /\ In(Append(handled, c)) = In(handled) \cup {c}
    BY <1>4, InAppend, SMTT(20)
  <2> QED
    BY <2>1, <2>2
<1>7. In(cmd) = {c} /\ In(cmd') = {}
  BY <1>1, <1>3, InOne
<1>8. /\ DOMAIN clientPc' = Clients /\ DOMAIN result' = Clients
      /\ \A d \in Clients : d # c => clientPc'[d] = clientPc[d] /\ result'[d] = result[d]
      /\ kind[c] = "do" => clientPc'[c] = "returned" /\ result'[c] = r
      /\ kind[c] # "do" => clientPc'[c] = clientPc[c] /\ result'[c] = result[c]
  BY <1>3 DEF Return, RunnerTypes
<1>9. RunnerTypes'
  BY <1>3, <1>4, <1>6, <1>8 DEF RunnerTypes
<1>10. FifoConservation'
  BY <1>3, <1>4, <1>5 DEF FifoConservation, Moves
<1>11. Stages'
  <2>1. rpc # "none" /\ runnerState \notin {"new", "stopped"}
    BY DEF Stages
  <2> QED
    BY <1>3, <2>1 DEF Stages, Holding
<1>12. Once'
  BY <1>3, <1>4, <1>6, <1>7 DEF Once
<1>13. ASSUME NEW d \in Clients PROVE Told(d)'
  <2>1. CASE d = c
    <3>1. c \notin In(cmdCh) /\ (rpc = "fn" => c \in started) /\ (rpc # "fn" => c \notin started)
      BY <1>7 DEF Once
    <3>2. CASE kind[c] = "do"
      BY <1>3, <1>4, <1>6, <1>7, <1>8, <1>2, <2>1, <3>1, <3>2 DEF Told, Errors
    <3>3. CASE kind[c] # "do"
      <4>1. result[c] = "nil"
        BY <1>7, <3>3 DEF Told
      <4>2. clientPc[c] \notin {"idle", "admit", "wait"}
        BY <1>7 DEF Told
      <4> QED
        BY <1>3, <1>4, <1>6, <1>7, <1>8, <2>1, <3>3, <4>1, <4>2 DEF Told, Errors
    <3> QED
      BY <3>2, <3>3
  <2>2. CASE d # c
    BY <1>4, <1>6, <1>7, <1>8, <2>2 DEF Told
  <2> QED
    BY <2>1, <2>2
<1> QED
  BY <1>9, <1>10, <1>11, <1>12, <1>13

LEMMA ExecuteInv == RunnerInv /\ Execute => RunnerInv'
<1> SUFFICES ASSUME RunnerInv, Execute PROVE RunnerInv'
  OBVIOUS
<1> USE DEF RunnerInv
<1>1. rpc = "execute" /\ UNCHANGED <<runnerState, cmdCh, stop, kind, admitted>>
  BY DEF Execute
<1>2. CASE kind[Head(cmd)] = "do" /\ Complete("ctx") /\ UNCHANGED started
  BY <1>1, <1>2, CompleteInv
<1>3. CASE started' = started \cup {Head(cmd)} /\ rpc' = "fn" /\ UNCHANGED <<cmd, handled, clientPc, result>>
  <2>1. PICK c \in Clients : cmd = <<c>>
    BY <1>1 DEF Stages, Holding, RunnerTypes
  <2>2. Head(cmd) = c
    BY <2>1, SMT
  <2>3. In(cmd) = {c} /\ UNCHANGED <<cmdCh, cmd, handled, kind, clientPc, result>>
    BY <1>1, <1>3, <2>1, InOne
  <2>4. RunnerTypes' /\ FifoConservation'
    BY <1>1, <1>3 DEF RunnerTypes, FifoConservation, Holding
  <2>5. Stages'
    BY <1>1, <1>3 DEF Stages, Holding
  <2>6. Once'
    BY <1>1, <1>3, <2>2, <2>3 DEF Once
  <2>7. result[c] \notin Errors \ {"panic"}
    BY <2>3 DEF Told, Errors
  <2>8. ASSUME NEW d \in Clients PROVE Told(d)'
    BY <1>3, <2>2, <2>3, <2>7 DEF Told
  <2> QED
    BY <2>4, <2>5, <2>6, <2>8
<1> QED
  BY <1>2, <1>3 DEF Execute

LEMMA FnReturnInv == RunnerInv /\ FnReturn => RunnerInv'
<1> SUFFICES ASSUME RunnerInv, FnReturn PROVE RunnerInv'
  OBVIOUS
<1>1. rpc = "fn" /\ UNCHANGED <<runnerState, cmdCh, stop, kind, admitted, started>>
  BY DEF FnReturn
<1>2. PICK r \in {"nil", "panic"} : Complete(r)
  BY DEF FnReturn
<1> QED
  BY <1>1, <1>2, CompleteInv

LEMMA RunnerStep == RunnerInv /\ [RunnerNext]_runnerVars => RunnerInv'
<1> SUFFICES ASSUME RunnerInv, [RunnerNext]_runnerVars PROVE RunnerInv'
  OBVIOUS
<1>1. CASE UNCHANGED runnerVars
  <2>1. UNCHANGED <<runnerState, stop, cmdCh, rpc, cmd, handled, started, clientVars>>
    BY <1>1 DEF runnerVars, goroutineVars
  <2>2. RunnerTypes' /\ Stages'
    BY <2>1 DEF RunnerInv, RunnerTypes, Stages, clientVars
  <2> QED
    BY <2>1, <2>2, QuietRunner
<1>2. CASE Goroutine
  BY <1>2, RunTopInv, SelectInv, DrainInv, SignalInv, ExecuteInv, FnReturnInv DEF Goroutine
<1>3. CASE RunnerNext
  BY <1>2, <1>3, StartRunnerInv, ClientInv, StopInvariant, CancelInv DEF RunnerNext
<1> QED
  BY <1>1, <1>3

LEMMA RunnerInvariance == RunnerSpec => []RunnerInv
BY RunnerInitInv, RunnerStep, PTL DEF RunnerSpec

\* Every command a Runner admits is handled once and in the order of admission, for any
\* number of clients and stoppers and any queue size (admit, run, drainAndStop).
THEOREM CommandsInOrder == RunnerSpec => []FifoConservation
<1>1. RunnerInv => FifoConservation
  BY DEF RunnerInv
<1> QED
  BY <1>1, RunnerInvariance, PTL

\* What DoContext, PostContext, TryPost and StopContext return is true of the command and of
\* the runner, whatever races with the return (complete, execute, StopContext).
THEOREM ResultsAreTrue == RunnerSpec => []ResultTruthful
<1>1. RunnerInv => ResultTruthful
  <2> SUFFICES ASSUME RunnerInv PROVE ResultTruthful
    OBVIOUS
  <2> USE DEF RunnerInv
  <2>1. \A c \in Clients :
          /\ result[c] \in Errors \ {"panic"} => c \notin started
          /\ kind[c] = "do" /\ result[c] \in {"nil", "panic"} =>
               c \in started /\ \E i \in DOMAIN handled : handled[i] = c
    BY DEF Told, In
  <2>2. ASSUME NEW s \in Stoppers, stop[s] = "nil"
        PROVE  handled = admitted /\ cmdCh = <<>> /\ rpc = "none"
    <3>1. rpc = "none" /\ cmdCh = <<>> /\ cmd = <<>>
      BY <2>2 DEF Stages, Holding
    <3>2. <<>> \in Seq(Clients) /\ handled \in Seq(Clients)
      BY SMT DEF RunnerTypes
    <3>3. Moves(Clients, handled, <<>>, <<>>)
      BY <3>2, FifoMoves
    <3> QED
      BY <3>1, <3>3 DEF FifoConservation, Moves
  <2> QED
    BY <2>1, <2>2 DEF ResultTruthful
<1> QED
  BY <1>1, RunnerInvariance, PTL
=============================================================================

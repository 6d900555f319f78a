--------------------------- MODULE ActorScheduler ---------------------------
(***************************************************************************)
(* How the consumer of a BaseActor (zActor/actor.go) chooses a lane: the   *)
(* loop of run, tryReceiveFair and actorScheduler.record, without stop and *)
(* panics, which Actor has.  Messages of a lane are alike, so a lane is    *)
(* its length.  tryReceiveFair looks at one channel after another and      *)
(* senders run in between: one action is one look.                         *)
(***************************************************************************)
EXTENDS Integers, Sequences

CONSTANTS
  LaneCap,   \* capacity of the three priority lanes
  MaxHigh,   \* maxHighPriorityBurst
  MaxNonLow  \* maxNonLowBurst

\* 8 and 16 in the code
ASSUME BurstsAssumption == MaxHigh \in Nat \ {0} /\ MaxNonLow \in Nat /\ MaxHigh < MaxNonLow

VARIABLES
  depth,                   \* length of each lane
  highBurst, nonLowBurst,  \* actorScheduler; only compared, so kept up to their limits
  look,                    \* position of the consumer in ScanOrder; one past it is the select
  waited                   \* messages of other lanes taken since this lane's head could be

laneVars == <<depth, highBurst, nonLowBurst, look, waited>>

Lanes == {"high", "normal", "low", "latest"}
Capacity(l) == IF l = "latest" THEN 1 ELSE LaneCap
\* Bound: waiting is counted up to here.
MaxWait == 2 * (MaxHigh + MaxNonLow)

ScanOrderMutant ==
  (IF highBurst >= MaxHigh THEN <<"normal", "low", "latest">> ELSE <<>>)
    \o <<"high", "normal", "low", "latest">>

\* The lanes tryReceiveFair looks at, in order.
ScanOrder ==
  (IF nonLowBurst >= MaxNonLow THEN <<"low", "latest">> ELSE <<>>)
    \o (IF highBurst >= MaxHigh THEN <<"normal", "low", "latest">> ELSE <<>>)
    \o <<"high", "normal", "low", "latest">>

LaneInit ==
  /\ depth = [l \in Lanes |-> 0]
  /\ highBurst = 0 /\ nonLowBurst = 0
  /\ look = 1
  /\ waited = [l \in Lanes |-> 0]

\* SendPriority into a lane with room; SendLatest replaces, which changes no length.
LaneSend(l) ==
  /\ depth[l] < Capacity(l)
  /\ depth' = [depth EXCEPT ![l] = @ + 1]
  /\ UNCHANGED <<highBurst, nonLowBurst, look, waited>>

UpTo(n, max) == IF n < max THEN n ELSE max

\* scheduler.record
Record(l) ==
  /\ highBurst' = IF l = "high" THEN UpTo(highBurst + 1, MaxHigh) ELSE 0
  /\ nonLowBurst' = IF l \in {"high", "normal"} THEN UpTo(nonLowBurst + 1, MaxNonLow) ELSE 0

\* A message of lane l is received and processed, and the loop starts again.
LaneTake(l) ==
  /\ depth[l] > 0
  /\ depth' = [depth EXCEPT ![l] = @ - 1]
  /\ Record(l)
  /\ look' = 1
  /\ waited' = [k \in Lanes |-> IF k = l \/ depth[k] = 0 THEN 0
                                ELSE UpTo(waited[k] + 1, MaxWait)]

\* One tryReceive of tryReceiveFair.
Look ==
  /\ look <= Len(ScanOrder)
  /\ LET l == ScanOrder[look] IN
       \/ LaneTake(l)
       \/ /\ depth[l] = 0
          /\ look' = look + 1
          /\ UNCHANGED <<depth, highBurst, nonLowBurst, waited>>

\* The blocking select of run takes any lane that is ready.
LaneSelect == look > Len(ScanOrder) /\ \E l \in Lanes : LaneTake(l)

LaneNext == (\E l \in Lanes : LaneSend(l)) \/ Look \/ LaneSelect

LaneSpec == LaneInit /\ [][LaneNext]_laneVars

-----------------------------------------------------------------------------
\* No priority lane starves, however fast the others are filled.  The head of the low
\* lane waits for at most MaxNonLow messages, and for one more when the latest slot is
\* emptied in the very turn it arrived in.  The head of the normal lane waits for two
\* bursts of high messages and the low or latest message that may come between them
\* and starts a new high burst.
WaitBounded ==
  /\ waited["low"] <= MaxNonLow + 1
  /\ waited["normal"] <= 2 * MaxHigh + 1
=============================================================================

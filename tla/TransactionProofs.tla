------------------------- MODULE TransactionProofs --------------------------
(***************************************************************************)
(* Proofs about TransactionCoordinator, for every number of participants   *)
(* and every set of callers: type correctness, the inductive invariant,    *)
(* each safety invariant, what a step may do, and that the coordinator     *)
(* implements AtomicCommit.                                                *)
(***************************************************************************)
EXTENDS TransactionCoordinator, TLAPS

\* Leaves with arithmetic or a large case split cite SMT.
USE Zenon

-----------------------------------------------------------------------------
(* Type correctness: one lemma per action *)

\* A callback in progress is about a participant.
InCall == \A c \in Callers :
  pc[c] \in {"voteCall", "prepareCall", "prepareDone"} => idx[c] \in Participants

LEMMA ReturnType ==
  ASSUME CallType, NEW c \in Callers, Return(c) PROVE CallType'
  <1>1. (pc \in [Callers -> Labels])' BY DEF CallType, Return, Goto, Labels
  <1>2. (call \in [Callers -> {"prepare", "execute"}])' BY DEF CallType, Return
  <1>3. (idx \in [Callers -> Nat \ {0}])' BY SMT DEF CallType, Return
  <1>4. (attempt \in [Callers -> Nat])' BY DEF CallType, Return
  <1>5. (errs \in [Callers -> SUBSET Participants])' BY DEF CallType, Return
  <1>6. (todo \in [Callers -> SUBSET Participants])' BY DEF CallType, Return
  <1> QED BY <1>1, <1>2, <1>3, <1>4, <1>5, <1>6 DEF CallType

LEMMA StartRollbackType ==
  ASSUME CallType, NEW c \in Callers, NEW S \in SUBSET Participants, StartRollback(c, S)
  PROVE  CallType'
  BY ReturnType DEF CallType, StartRollback, Goto, Labels

LEMMA DoAbortType ==
  ASSUME TypeOK, NEW c \in Callers, DoAbort(c) PROVE TxType' /\ CallType'
  <1>1. TxType' BY DEF TypeOK, TxType, DoAbort, States, txVars
  <1>2. CallType'
    BY ReturnType, StartRollbackType DEF TypeOK, TxType, DoAbort, PreparedParticipants
  <1> QED BY <1>1, <1>2

LEMMA RecordVoteType ==
  ASSUME TypeOK, NEW c \in Callers, NEW name \in Participants \cup Strangers,
         NEW abort \in BOOLEAN, RecordVote(c, name, abort)
  PROVE  TxType' /\ (abort => CallType')
  <1>1. CASE abort
    <2>1. TxType' BY <1>1 DEF TypeOK, TxType, RecordVote, States
    <2>2. CallType'
      BY <1>1, StartRollbackType DEF TypeOK, TxType, RecordVote, PreparedParticipants
    <2> QED BY <2>1, <2>2
  <1>2. CASE ~abort
    BY <1>2 DEF TypeOK, TxType, RecordVote, States
  <1> QED BY <1>1, <1>2

LEMMA BeginType == ASSUME TypeOK, InCall, NEW c \in Callers, Begin(c) PROVE TypeOK'
  <1>1. TxType' BY DEF TypeOK, TxType, States, txVars, txID, Begin
  <1>2. CallType' BY ReturnType DEF TypeOK, CallType, Labels, Goto, callVars, Begin
  <1>3. PartType' BY DEF TypeOK, PartType, partVars, Begin
  <1> QED BY <1>1, <1>2, <1>3 DEF TypeOK

LEMMA AbortType == ASSUME TypeOK, InCall, NEW c \in Callers, Abort(c) PROVE TypeOK'
  <1>1. TxType' BY DoAbortType DEF Abort
  <1>2. CallType' BY DoAbortType DEF Abort
  <1>3. PartType' BY DEF TypeOK, PartType, partVars, Abort
  <1> QED BY <1>1, <1>2, <1>3 DEF TypeOK

LEMMA VoteType == ASSUME TypeOK, InCall, NEW c \in Callers, Vote(c) PROVE TypeOK'
  <1>1. TxType' BY RecordVoteType DEF Vote
  <1>2. CallType' BY RecordVoteType DEF TypeOK, CallType, Vote, callVars
  <1>3. PartType' BY DEF TypeOK, PartType, partVars, Vote
  <1> QED BY <1>1, <1>2, <1>3 DEF TypeOK

LEMMA PrepareClaimType == ASSUME TypeOK, InCall, NEW c \in Callers, PrepareClaim(c) PROVE TypeOK'
  <1>1. TxType' BY DEF TypeOK, TxType, States, txVars, txID, PrepareClaim
  <1>2. CallType' BY ReturnType DEF TypeOK, CallType, Labels, Goto, callVars, PrepareClaim
  <1>3. PartType' BY DEF TypeOK, PartType, partVars, PrepareClaim
  <1> QED BY <1>1, <1>2, <1>3 DEF TypeOK

LEMMA VoteLoopType == ASSUME TypeOK, InCall, NEW c \in Callers, VoteLoop(c) PROVE TypeOK'
  <1>1. TxType' BY DoAbortType DEF TypeOK, TxType, txVars, VoteLoop
  <1>2. CallType' BY SMT, ReturnType, DoAbortType DEF TypeOK, CallType, Labels, Goto, VoteLoop
  <1>3. PartType' BY DEF TypeOK, PartType, partVars, VoteLoop
  <1> QED BY <1>1, <1>2, <1>3 DEF TypeOK

LEMMA VoteReturnType == ASSUME TypeOK, InCall, NEW c \in Callers, VoteReturn(c) PROVE TypeOK'
  <1>1. TxType' BY DoAbortType DEF TypeOK, TxType, States, RecordVote, InCall, VoteReturn
  <1>2. CallType' BY SMT, DoAbortType, StartRollbackType DEF TypeOK, TxType, CallType, Labels, Goto, RecordVote,
         PreparedParticipants, VoteReturn
  <1>3. PartType' BY DEF TypeOK, PartType, partVars, VoteReturn
  <1> QED BY <1>1, <1>2, <1>3 DEF TypeOK

LEMMA PrepareLoopType == ASSUME TypeOK, InCall, NEW c \in Callers, PrepareLoop(c) PROVE TypeOK'
  <1>1. TxType' BY DoAbortType DEF TypeOK, TxType, States, txVars, PrepareLoop
  <1>2. CallType' BY SMT, ReturnType, DoAbortType DEF TypeOK, CallType, Labels, Goto, PrepareLoop
  <1>3. PartType' BY DEF TypeOK, PartType, partVars, PrepareLoop
  <1> QED BY <1>1, <1>2, <1>3 DEF TypeOK

LEMMA PrepareReturnType == ASSUME TypeOK, InCall, NEW c \in Callers, PrepareReturn(c) PROVE TypeOK'
  <1>1. TxType' BY DoAbortType DEF TypeOK, TxType, txVars, PrepareReturn
  <1>2. CallType' BY DoAbortType DEF TypeOK, CallType, Labels, Goto, PrepareReturn
  <1>3. PartType' BY DEF TypeOK, PartType, partVars, PrepareReturn, InCall
  <1> QED BY <1>1, <1>2, <1>3 DEF TypeOK

LEMMA PrepareRecordType == ASSUME TypeOK, InCall, NEW c \in Callers, PrepareRecord(c) PROVE TypeOK'
  <1>1. TxType' BY DEF TypeOK, TxType, States, InCall, PrepareRecord
  <1>2. CallType' BY SMT, StartRollbackType DEF TypeOK, CallType, Labels, Goto, InCall, PrepareRecord
  <1>3. PartType' BY DEF TypeOK, PartType, partVars, PrepareRecord
  <1> QED BY <1>1, <1>2, <1>3 DEF TypeOK

LEMMA RollbackStepType == ASSUME TypeOK, InCall, NEW c \in Callers, RollbackStep(c) PROVE TypeOK'
  <1>1. TxType' BY DEF TypeOK, TxType, States, txVars, txID, RollbackStep
  <1>2. CallType' BY SMT, ReturnType DEF TypeOK, CallType, Labels, Goto, callVars, RollbackStep
  <1>3. PartType' BY SMT DEF TypeOK, PartType, partVars, RollbackStep, CallType
  <1> QED BY <1>1, <1>2, <1>3 DEF TypeOK

LEMMA CommitClaimType == ASSUME TypeOK, InCall, NEW c \in Callers, CommitClaim(c) PROVE TypeOK'
  <1>1. TxType' BY DEF TypeOK, TxType, States, txVars, txID, CommitClaim
  <1>2. CallType' BY ReturnType DEF TypeOK, CallType, Labels, Goto, callVars, CommitClaim
  <1>3. PartType' BY DEF TypeOK, PartType, partVars, CommitClaim
  <1> QED BY <1>1, <1>2, <1>3 DEF TypeOK

LEMMA CommitAttemptType == ASSUME TypeOK, InCall, NEW c \in Callers, CommitAttempt(c) PROVE TypeOK'
  <1>1. TxType' BY DEF TypeOK, TxType, States, txVars, txID, CommitAttempt
  <1>2. idx[c] \in Participants
    BY SMT, TxAssumption DEF TypeOK, CallType, CommitAttempt, Participants
  <1>3. CallType' BY SMT, <1>2 DEF TypeOK, CallType, CommitAttempt
  <1>4. PartType' BY <1>2 DEF TypeOK, PartType, CommitAttempt
  <1> QED BY <1>1, <1>3, <1>4 DEF TypeOK

LEMMA CommitFinishType == ASSUME TypeOK, InCall, NEW c \in Callers, CommitFinish(c) PROVE TypeOK'
  <1>1. TxType' BY DEF TypeOK, TxType, States, txVars, txID, CommitFinish
  <1>2. CallType' BY ReturnType DEF TypeOK, CallType, Labels, Goto, callVars, CommitFinish
  <1>3. PartType' BY DEF TypeOK, PartType, partVars, CommitFinish
  <1> QED BY <1>1, <1>2, <1>3 DEF TypeOK

LEMMA CleanupScanType == ASSUME TypeOK, InCall, NEW c \in Callers, CleanupScan(c) PROVE TypeOK'
  <1>1. TxType' BY DEF TypeOK, TxType, States, txVars, txID, CleanupScan
  <1>2. CallType' BY ReturnType DEF TypeOK, CallType, Labels, Goto, callVars, CleanupScan
  <1>3. PartType' BY DEF TypeOK, PartType, partVars, CleanupScan
  <1> QED BY <1>1, <1>2, <1>3 DEF TypeOK

LEMMA CleanupDeleteType == ASSUME TypeOK, InCall, NEW c \in Callers, CleanupDelete(c) PROVE TypeOK'
  <1>1. TxType' BY DEF TypeOK, TxType, States, txVars, txID, CleanupDelete
  <1>2. CallType' BY ReturnType DEF TypeOK, CallType, Labels, Goto, callVars, CleanupDelete
  <1>3. PartType' BY DEF TypeOK, PartType, partVars, CleanupDelete
  <1> QED BY <1>1, <1>2, <1>3 DEF TypeOK

-----------------------------------------------------------------------------
(* What a step of caller c does to the callers *)

Frame(c) == \A d \in Callers \ {c} :
  pc'[d] = pc[d] /\ idx'[d] = idx[d] /\ errs'[d] = errs[d] /\ todo'[d] = todo[d]

\* Caller c has returned, or is about to delete, and holds nothing.
Back(c) == pc'[c] \in {"idle", "delete"} /\ idx'[c] = 1 /\ errs'[c] = {} /\ todo'[c] = {}

Rolling(c, S) == pc'[c] = "rollback" /\ todo'[c] = S /\ S # {} /\ errs'[c] = errs[c]

LEMMA ReturnEffect == ASSUME TypeOK, NEW c \in Callers, Return(c) PROVE Back(c) /\ Frame(c)
  <1>1. Back(c) BY DEF TypeOK, CallType, Return, Goto, Back
  <1>2. Frame(c) BY DEF TypeOK, CallType, Return, Goto, Frame
  <1> QED BY <1>1, <1>2

LEMMA StartRollbackEffect ==
  ASSUME TypeOK, NEW c \in Callers, NEW S, StartRollback(c, S)
  PROVE  /\ \/ Back(c) /\ (S = {} \/ "rollback" \notin fns)
            \/ Rolling(c, S)
         /\ Frame(c)
  <1>1. CASE S = {} \/ "rollback" \notin fns
    BY <1>1, ReturnEffect DEF StartRollback
  <1>2. CASE S # {} /\ "rollback" \in fns
    <2>1. Rolling(c, S) BY <1>2 DEF TypeOK, CallType, StartRollback, Goto, Rolling
    <2>2. Frame(c) BY <1>2 DEF TypeOK, CallType, StartRollback, Goto, Frame
    <2> QED BY <2>1, <2>2
  <1> QED BY <1>1, <1>2

\* An abort leaves the caller idle or rolling back.
LEMMA DoAbortEffect ==
  ASSUME TypeOK, NEW c \in Callers, DoAbort(c)
  PROVE  Frame(c) /\ pc'[c] \in {"idle", "rollback", "delete"}
  BY ReturnEffect, StartRollbackEffect DEF DoAbort, Back, Rolling

LEMMA RecordVoteEffect ==
  ASSUME TypeOK, NEW c \in Callers, NEW name, RecordVote(c, name, TRUE)
  PROVE  Frame(c) /\ pc'[c] \in {"idle", "rollback", "delete"}
  BY ReturnEffect, StartRollbackEffect DEF RecordVote, Back, Rolling

LEMMA VoteEffect ==
  ASSUME TypeOK, NEW c \in Callers, Vote(c)
  PROVE  Frame(c) /\ pc'[c] \in {"idle", "rollback", "delete"}
  <1>1. PICK name \in Participants \cup Strangers, abort \in BOOLEAN :
          RecordVote(c, name, abort) /\ IF abort THEN TRUE ELSE UNCHANGED callVars
    BY DEF Vote
  <1>2. CASE abort = TRUE BY <1>1, <1>2, RecordVoteEffect
  <1>3. CASE abort = FALSE
    <2>1. UNCHANGED callVars /\ pc[c] = "idle" BY <1>1, <1>3 DEF Vote
    <2> QED BY <2>1 DEF callVars, Frame
  <1> QED BY <1>2, <1>3

LEMMA FrameStep == ASSUME TypeOK, NEW c \in Callers, Invoke(c) \/ Step(c) PROVE Frame(c)
  <1> USE ReturnEffect, StartRollbackEffect, DoAbortEffect, RecordVoteEffect
          DEF TypeOK, CallType, Goto
  <1>1. CASE Begin(c) BY <1>1 DEF Begin, Frame, callVars
  <1>2. CASE Abort(c) BY <1>2 DEF Abort
  <1>3. CASE Vote(c) BY <1>3, VoteEffect
  <1>4. CASE PrepareClaim(c) BY <1>4 DEF PrepareClaim, Frame
  <1>5. CASE VoteLoop(c) BY SMT, <1>5 DEF VoteLoop, Frame
  <1>6. CASE VoteReturn(c) BY <1>6 DEF VoteReturn, Frame
  <1>7. CASE PrepareLoop(c) BY SMT, <1>7 DEF PrepareLoop, Frame
  <1>8. CASE PrepareReturn(c) BY <1>8 DEF PrepareReturn, Frame
  <1>13. CASE PrepareRecord(c) BY <1>13 DEF PrepareRecord, Frame
  <1>9. CASE RollbackStep(c) BY <1>9 DEF RollbackStep, Frame
  <1>10. CASE CommitClaim(c) \/ CommitFinish(c) BY <1>10 DEF CommitClaim, CommitFinish, Frame
  <1>11. CASE CommitAttempt(c) BY <1>11 DEF CommitAttempt, Frame
  <1>12. CASE CleanupScan(c) \/ CleanupDelete(c) BY <1>12 DEF CleanupScan, CleanupDelete, Frame
  <1> QED BY <1>1, <1>2, <1>3, <1>4, <1>5, <1>6, <1>7, <1>8, <1>9, <1>10, <1>11, <1>12,
             <1>13
          DEF Invoke, Step

LEMMA InCallStep == ASSUME TypeOK, InCall, Next PROVE InCall'
  <1> PICK c \in Callers : Invoke(c) \/ Step(c) BY DEF Next
  <1> DEFINE Goal == pc'[c] \in {"voteCall", "prepareCall", "prepareDone"} => idx'[c] \in Participants
  <1>1. \A d \in Callers \ {c} : pc'[d] = pc[d] /\ idx'[d] = idx[d] BY FrameStep DEF Frame
  <1> USE ReturnEffect, StartRollbackEffect, DoAbortEffect, RecordVoteEffect
          DEF TypeOK, CallType, Goto, Back, Rolling
  <1>2. ASSUME VoteLoop(c) PROVE Goal
    BY SMT, <1>2, TxAssumption DEF VoteLoop, Participants
  <1>3. ASSUME PrepareLoop(c) PROVE Goal
    BY SMT, <1>3, TxAssumption DEF PrepareLoop, Participants
  <1>4. ASSUME PrepareReturn(c) PROVE Goal
    BY <1>4 DEF InCall, PrepareReturn
  <1>5. ASSUME Vote(c) PROVE Goal
    BY <1>5, VoteEffect
  <1>6. ASSUME Begin(c) \/ Abort(c) PROVE Goal
    BY <1>6 DEF Begin, Abort, callVars
  <1>7. ASSUME PrepareClaim(c) \/ CommitClaim(c) PROVE Goal
    BY <1>7 DEF PrepareClaim, CommitClaim
  <1>8. ASSUME VoteReturn(c) \/ PrepareRecord(c) PROVE Goal
    BY <1>8 DEF VoteReturn, PrepareRecord
  <1>9. ASSUME RollbackStep(c) PROVE Goal
    BY <1>9 DEF RollbackStep
  <1>10. ASSUME CommitAttempt(c) \/ CommitFinish(c) PROVE Goal
    BY <1>10 DEF CommitAttempt, CommitFinish
  <1>11. ASSUME CleanupScan(c) \/ CleanupDelete(c) PROVE Goal
    BY <1>11 DEF CleanupScan, CleanupDelete
  <1> HIDE ReturnEffect, StartRollbackEffect, DoAbortEffect, RecordVoteEffect
           DEF TypeOK, CallType, Goto, Back, Rolling
  <1>12. Goal
    BY <1>2, <1>3, <1>4, <1>5, <1>6, <1>7, <1>8, <1>9, <1>10, <1>11 DEF Invoke, Step
  <1> QED BY <1>1, <1>12 DEF InCall

\* No behaviour of the coordinator leaves its types: for every number of
\* participants and callers, callbacks are only called on participants.
THEOREM TypeCorrect == Spec => [](TypeOK /\ InCall)
  <1>1. Init => TypeOK /\ InCall
    BY SMT DEF Init, TypeOK, TxType, CallType, PartType, InCall, Labels, States
  <1>2. TypeOK /\ InCall /\ [Next]_vars => (TypeOK /\ InCall)'
    <2>1. CASE UNCHANGED vars
      BY <2>1 DEF TypeOK, TxType, CallType, PartType, InCall, vars, txVars, callVars, partVars
    <2>2. ASSUME TypeOK, InCall, Next PROVE TypeOK'
      BY <2>2, BeginType, AbortType, VoteType, PrepareClaimType, VoteLoopType, VoteReturnType,
         PrepareLoopType, PrepareReturnType, PrepareRecordType, RollbackStepType,
         CommitClaimType, CommitAttemptType, CommitFinishType, CleanupScanType,
         CleanupDeleteType
         DEF Next, Invoke, Step
    <2> QED BY <2>1, <2>2, InCallStep
  <1> QED BY <1>1, <1>2, PTL DEF Spec

-----------------------------------------------------------------------------
(* The inductive invariant, and the steps that return, abort or prepare *)

PrepareStage == {"voteLoop", "voteCall", "prepareLoop", "prepareCall", "prepareDone"}

\* Locals of callers that are outside the loops.
LocalInv ==
  \A c \in Callers :
    /\ pc[c] \notin PrepareStage \cup {"commitLoop", "rollback"} => idx[c] = 1
    /\ pc[c] # "commitLoop" => errs[c] = {}
    /\ pc[c] = "rollback" <=> todo[c] # {}

\* At most one call of Prepare got past its claim.
PrepareOne == \A c, d \in Callers : pc[c] \in PrepareStage /\ pc[d] \in PrepareStage => c = d

\* The call of Prepare in progress knows which participants are prepared.
PrepareInv ==
  \A c \in Callers :
    /\ pc[c] \in PrepareStage => state \in {"voting", "aborted"}
    /\ pc[c] \in {"voteLoop", "voteCall"} => didPrepare = {}
    /\ pc[c] \in {"prepareLoop", "prepareCall"} => didPrepare = 1..(idx[c] - 1)
    /\ pc[c] = "prepareDone" => didPrepare = 1..idx[c] /\ idx[c] \notin prepared

\* tx.Prepared is what prepareFn did, but for the participant in "prepareDone".
PreparedInv ==
  /\ prepared \subseteq didPrepare
  /\ state \in {"none", "pending"} => didPrepare = {}
  /\ state = "voting" => \A p \in didPrepare :
       p \in prepared \/ \E c \in Callers : pc[c] = "prepareDone" /\ idx[c] = p
  /\ state \in {"prepared"} \cup CommitPhase => prepared = Participants

\* Nothing is rolled back, and no abort vote recorded, before the abort.
OnlyAborted ==
  state # "aborted" => /\ votes = {}
                       /\ \A p \in Participants : rolled[p] = 0
                       /\ \A c \in Callers : todo[c] = {}

\* Rollback lists are disjoint and hold only prepared, not yet undone participants.
TodoInv ==
  /\ \A c \in Callers : todo[c] \subseteq didPrepare /\ \A p \in todo[c] : rolled[p] = 0
  /\ \A c, d \in Callers : c # d => todo[c] \cap todo[d] = {}
  /\ \A c, d \in Callers :
       pc[c] = "prepareDone" => idx[c] \notin todo[d] /\ rolled[idx[c]] = 0

\* At most one call of Commit got past its claim, and it knows who has committed.
CommitInv ==
  /\ tried # {} => state \in CommitPhase
  /\ didCommit \subseteq tried
  /\ \A c, d \in Callers : pc[c] = "commitLoop" /\ pc[d] = "commitLoop" => c = d
  /\ \A c \in Callers :
       pc[c] = "commitLoop" => /\ state = "committing"
                               /\ errs[c] \subseteq 1..(idx[c] - 1)
                               /\ didCommit = (1..(idx[c] - 1)) \ errs[c]
  /\ OutcomeTruthful

IInv == /\ LocalInv /\ PrepareOne /\ PrepareInv /\ PreparedInv /\ OnlyAborted /\ TodoInv
        /\ RolledBackOnce /\ NoOrphanPrepared /\ CommitInv

-----------------------------------------------------------------------------
(* The two ways most calls end: they return, or they abort the transaction *)

LEMMA TodoKept ==
  ASSUME TodoInv, UNCHANGED <<didPrepare, rolled>>,
         \A d \in Callers : todo'[d] = todo[d],
         \A d \in Callers : pc'[d] = "prepareDone" => pc[d] = "prepareDone" /\ idx'[d] = idx[d]
  PROVE  TodoInv'
  BY DEF TodoInv

\* Intervals of participants: the bookkeeping of the loops over them.
LEMMA NotBelow == ASSUME NEW i \in Nat \ {0}, NEW S, S \subseteq 1..(i - 1) PROVE i \notin S
  BY SMT

LEMMA OneMore ==
  ASSUME NEW i \in Nat \ {0}, NEW E, NEW C, E \subseteq 1..(i - 1), C = (1..(i - 1)) \ E
  PROVE  /\ E \subseteq 1..(i + 1 - 1) /\ C \cup {i} = (1..(i + 1 - 1)) \ E
         /\ E \cup {i} \subseteq 1..(i + 1 - 1) /\ C = (1..(i + 1 - 1)) \ (E \cup {i})
  <1>1. 1..(i + 1 - 1) = (1..(i - 1)) \cup {i} BY SMT
  <1>2. i \notin 1..(i - 1) BY SMT
  <1> QED BY <1>1, <1>2

LEMMA ReturnInv ==
  ASSUME TypeOK, IInv, NEW c \in Callers, Frame(c), Back(c),
         pc[c] \notin {"prepareDone", "commitLoop", "rollback"},
         UNCHANGED <<fns, state, votes, prepared, partVars>>
  PROVE  IInv'
  <1> USE DEF IInv, Frame, Back, partVars
  <1>1. LocalInv' BY DEF LocalInv, PrepareStage
  <1>2. PrepareOne' BY DEF PrepareOne, PrepareStage
  <1>3. PrepareInv' BY DEF PrepareInv, PrepareStage
  <1>4. PreparedInv' BY SMT DEF PreparedInv, CommitPhase
  <1>5. OnlyAborted' BY DEF OnlyAborted
  <1>6. TodoInv' BY SMT DEF TodoInv
  <1>7. RolledBackOnce' BY DEF RolledBackOnce
  <1>8. NoOrphanPrepared' BY SMT DEF NoOrphanPrepared, Accounted, Holds, LocalInv
  <1>9. CommitInv' BY SMT DEF CommitInv, OutcomeTruthful, CommitPhase
  <1> QED BY <1>1, <1>2, <1>3, <1>4, <1>5, <1>6, <1>7, <1>8, <1>9

LEMMA AbortNowInv ==
  ASSUME TypeOK, IInv, NEW c \in Callers, Frame(c),
         pc[c] \notin {"prepareDone", "commitLoop", "rollback"},
         \/ Back(c) /\ (prepared = {} \/ "rollback" \notin fns)
         \/ Rolling(c, prepared),
         state \in {"pending", "voting", "prepared"},
         state' = "aborted",
         UNCHANGED <<fns, prepared, partVars>>
  PROVE  IInv'
  <1> USE DEF IInv, Frame, Back, Rolling, partVars
  <1>1. LocalInv' BY DEF LocalInv, PrepareStage
  <1>2. PrepareOne' BY DEF PrepareOne, PrepareStage
  <1>3. PrepareInv' BY DEF PrepareInv, PrepareStage
  <1>4. PreparedInv' BY DEF PreparedInv, CommitPhase
  <1>5. OnlyAborted' BY DEF OnlyAborted
  <1>6. TodoInv'
    <2>1. \A d \in Callers \ {c} : todo'[d] = {} BY DEF OnlyAborted
    <2>2. todo'[c] = {} \/ todo'[c] = prepared OBVIOUS
    <2>3. \A p \in prepared : p \in didPrepare /\ rolled[p] = 0
      BY DEF OnlyAborted, PreparedInv, TxType, TypeOK, CallType
    <2>4. \A d \in Callers : pc'[d] = "prepareDone" =>
            pc[d] = "prepareDone" /\ idx'[d] = idx[d] /\ idx[d] \notin prepared
      BY DEF PrepareInv
    <2> QED BY SMT, <2>1, <2>2, <2>3, <2>4 DEF TodoInv
  <1>7. RolledBackOnce' BY DEF RolledBackOnce
  <1>8. NoOrphanPrepared'
    <2> SUFFICES ASSUME "rollback" \in fns, NEW p \in didPrepare PROVE Accounted(p)'
      BY DEF NoOrphanPrepared
    <2>1. CASE p \in prepared BY <2>1 DEF Accounted, Holds
    <2>2. CASE \E d \in Callers : pc[d] = "prepareDone" /\ idx[d] = p
      BY <2>2 DEF Accounted, Holds
    <2> QED BY <2>1, <2>2 DEF PreparedInv, PartType, TypeOK, CallType
  <1>9. CommitInv' BY DEF CommitInv, OutcomeTruthful, CommitPhase
  <1> QED BY <1>1, <1>2, <1>3, <1>4, <1>5, <1>6, <1>7, <1>8, <1>9

LEMMA DoAbortInv ==
  ASSUME TypeOK, IInv, NEW c \in Callers, Frame(c), DoAbort(c), UNCHANGED partVars,
         pc[c] \notin {"prepareDone", "commitLoop", "rollback"}
  PROVE  IInv'
  BY ReturnInv, AbortNowInv, ReturnEffect, StartRollbackEffect
     DEF DoAbort, Open, PreparedParticipants, txVars

LEMMA VoteAbortInv ==
  ASSUME TypeOK, IInv, NEW c \in Callers, Frame(c), Open, NEW name,
         RecordVote(c, name, TRUE), UNCHANGED partVars,
         pc[c] \notin {"prepareDone", "commitLoop", "rollback"}
  PROVE  IInv'
  BY AbortNowInv, StartRollbackEffect DEF RecordVote, Open, PreparedParticipants

-----------------------------------------------------------------------------
(* The other steps: caller c goes from pc[c] to pc'[c] *)

\* Steps that touch neither the participants nor the state change only where c is.
LEMMA LoopInv ==
  ASSUME TypeOK, IInv, NEW c \in Callers, Frame(c),
         UNCHANGED <<fns, state, votes, prepared, partVars>>,
         errs'[c] = errs[c], todo'[c] = todo[c],
         \/ pc[c] = "voteLoop" /\ pc'[c] = "voteCall" /\ idx'[c] = idx[c]
         \/ pc[c] = "voteLoop" /\ pc'[c] = "prepareLoop" /\ idx'[c] = 1
         \/ pc[c] = "voteCall" /\ pc'[c] = "voteLoop"
         \/ pc[c] = "prepareLoop" /\ pc'[c] = "prepareCall" /\ idx'[c] = idx[c]
         \/ pc[c] = "idle" /\ pc'[c] = "delete" /\ idx'[c] = idx[c]
         \/ pc[c] = "idle" /\ pc'[c] = "idle" /\ idx'[c] = idx[c]
  PROVE  IInv'
  <1> USE DEF IInv, Frame, partVars
  <1>1. LocalInv' BY SMT DEF LocalInv, PrepareStage
  <1>2. PrepareOne' BY SMT DEF PrepareOne, PrepareStage
  <1>3. PrepareInv'
    <2>1. pc[c] \in PrepareStage => state \in {"voting", "aborted"} BY DEF PrepareInv
    <2>2. pc'[c] \in PrepareStage => pc[c] \in PrepareStage BY DEF PrepareStage
    <2>3. pc'[c] \in {"voteLoop", "voteCall"} => didPrepare = {} BY DEF PrepareInv
    <2>4. pc'[c] \in {"prepareLoop", "prepareCall"} => didPrepare = 1..(idx'[c] - 1)
      <3>1. CASE pc[c] = "voteLoop" /\ pc'[c] = "prepareLoop" /\ idx'[c] = 1
        <4>1. didPrepare = {} BY <3>1 DEF PrepareInv
        <4> QED BY SMT, <3>1, <4>1, 1..(1 - 1) = {}
      <3>2. CASE pc[c] = "prepareLoop" /\ pc'[c] = "prepareCall" /\ idx'[c] = idx[c]
        BY <3>2 DEF PrepareInv
      <3> QED BY <3>1, <3>2
    <2>5. pc'[c] # "prepareDone" OBVIOUS
    <2> QED BY <2>1, <2>2, <2>3, <2>4, <2>5 DEF PrepareInv
  <1>4. PreparedInv' BY SMT DEF PreparedInv, CommitPhase
  <1>5. OnlyAborted' BY DEF OnlyAborted
  <1>6. TodoInv' BY TodoKept
  <1>7. RolledBackOnce' BY DEF RolledBackOnce
  <1>8. NoOrphanPrepared' BY SMT DEF NoOrphanPrepared, Accounted, Holds
  <1>9. CommitInv' BY DEF CommitInv, OutcomeTruthful, CommitPhase
  <1> QED BY <1>1, <1>2, <1>3, <1>4, <1>5, <1>6, <1>7, <1>8, <1>9

\* Begin and the claims of Prepare and Commit: a state transition with no callback.
LEMMA ClaimInv ==
  ASSUME TypeOK, IInv, NEW c \in Callers, Frame(c),
         UNCHANGED <<fns, votes, prepared, partVars>>,
         errs'[c] = errs[c], todo'[c] = todo[c],
         pc[c] \in {"idle", "claim", "commitClaim"}, idx'[c] = idx[c],
         \/ state = "none" /\ state' = "pending" /\ pc'[c] \in {"idle", "claim"}
         \/ state = "pending" /\ state' = "voting" /\ pc'[c] \in {"voteLoop", "prepareLoop"}
         \/ state = "prepared" /\ state' = "committing" /\ pc'[c] = "commitLoop"
  PROVE  IInv'
  <1> USE DEF IInv, Frame, partVars
  <1>1. LocalInv' BY SMT DEF LocalInv, PrepareStage
  <1>a. \A d \in Callers : pc[d] \notin PrepareStage BY DEF PrepareInv
  <1>2. PrepareOne' BY <1>a DEF PrepareOne
  <1>3. PrepareInv'
    <2>2. idx[c] = 1 BY DEF LocalInv, PrepareStage
    <2>3. state' = "voting" => didPrepare = {} BY DEF PreparedInv
    <2>4. \A d \in Callers : pc'[d] \in PrepareStage =>
            d = c /\ state' = "voting" /\ pc'[d] \in {"voteLoop", "prepareLoop"}
      BY <1>a DEF PrepareStage
    <2>5. 1..(1 - 1) = {} BY SMT
    <2> QED BY <2>2, <2>3, <2>4, <2>5 DEF PrepareInv, PrepareStage
  <1>4. PreparedInv' BY DEF PreparedInv, CommitPhase
  <1>5. OnlyAborted' BY DEF OnlyAborted
  <1>6. TodoInv' BY DEF TodoInv
  <1>7. RolledBackOnce' BY DEF RolledBackOnce
  <1>8. NoOrphanPrepared' BY DEF NoOrphanPrepared
  <1>9. CommitInv'
    <2>1. tried = {} /\ didCommit = {} BY DEF CommitInv, CommitPhase
    <2>2. \A d \in Callers : pc[d] # "commitLoop" BY DEF CommitInv
    <2>3. idx[c] = 1 /\ errs[c] = {} BY DEF LocalInv, PrepareStage
    <2> QED BY SMT, <2>1, <2>2, <2>3 DEF CommitInv, OutcomeTruthful, CommitPhase
  <1> QED BY <1>1, <1>2, <1>3, <1>4, <1>5, <1>6, <1>7, <1>8, <1>9

\* The last turn of Prepare: the transaction becomes Prepared.
LEMMA FinishPrepareInv ==
  ASSUME TypeOK, IInv, NEW c \in Callers, Frame(c),
         UNCHANGED <<fns, votes, prepared, partVars>>,
         pc[c] = "prepareLoop", state = "voting", idx[c] > N, state' = "prepared",
         pc'[c] \in {"idle", "commitClaim"},
         idx'[c] = 1, errs'[c] = {}, todo'[c] = {}
  PROVE  IInv'
  <1> USE DEF IInv, Frame, partVars
  <1>a. \A d \in Callers \ {c} : pc[d] \notin PrepareStage BY DEF PrepareOne, PrepareStage
  <1>1. LocalInv' BY DEF LocalInv, PrepareStage
  <1>2. PrepareOne' BY DEF PrepareOne, PrepareStage
  <1>3. PrepareInv' BY <1>a DEF PrepareInv, PrepareStage
  <1>4. PreparedInv'
    <2>1. didPrepare = 1..(idx[c] - 1) BY DEF PrepareInv
    <2>2. \A p \in 1..N : p \in 1..(idx[c] - 1) BY SMT, TxAssumption DEF TypeOK, CallType
    <2>3. didPrepare = Participants BY <2>1, <2>2 DEF PartType, Participants, TypeOK
    <2>4. didPrepare \subseteq prepared BY <1>a DEF PreparedInv, PrepareStage
    <2>5. prepared \subseteq didPrepare BY DEF PreparedInv
    <2>6. prepared = Participants BY <2>3, <2>4, <2>5
    <2> QED BY <2>3, <2>6 DEF PreparedInv, CommitPhase
  <1>5. OnlyAborted' BY DEF OnlyAborted
  <1>6. TodoInv' BY DEF TodoInv
  <1>7. RolledBackOnce' BY DEF RolledBackOnce
  <1>8. NoOrphanPrepared' BY DEF NoOrphanPrepared
  <1>9. CommitInv' BY DEF CommitInv, OutcomeTruthful, CommitPhase
  <1> QED BY <1>1, <1>2, <1>3, <1>4, <1>5, <1>6, <1>7, <1>8, <1>9

\* prepareFn succeeded on idx[c].
LEMMA PreparedOneInv ==
  ASSUME TypeOK, InCall, IInv, NEW c \in Callers, Frame(c),
         UNCHANGED <<fns, state, votes, prepared, tried, didCommit, rolled>>,
         pc[c] = "prepareCall", pc'[c] = "prepareDone",
         idx'[c] = idx[c], errs'[c] = errs[c], todo'[c] = todo[c],
         didPrepare' = didPrepare \cup {idx[c]}
  PROVE  IInv'
  <1> USE DEF IInv, Frame
  <1>a. \A d \in Callers \ {c} : pc[d] \notin PrepareStage BY DEF PrepareOne, PrepareStage
  <1>b. didPrepare = 1..(idx[c] - 1) /\ state \in {"voting", "aborted"}
    BY DEF PrepareInv, PrepareStage
  <1>c. idx[c] \in Participants /\ idx[c] \in Nat \ {0} BY DEF InCall, TypeOK, CallType
  <1>d. idx[c] \notin didPrepare /\ idx[c] \notin prepared BY SMT, <1>b, <1>c DEF PreparedInv
  <1>e. didPrepare' = 1..idx[c]
    <2>1. \A i \in Nat \ {0} : (1..(i - 1)) \cup {i} = 1..i BY SMT
    <2> QED BY <2>1, <1>b, <1>c
  <1>f. rolled[idx[c]] = 0
    BY SMT, <1>d, <1>c DEF RolledBackOnce, PartType, TypeOK, CallType
  <1>1. LocalInv' BY SMT DEF LocalInv, PrepareStage
  <1>2. PrepareOne' BY DEF PrepareOne, PrepareStage
  <1>3. PrepareInv' BY SMT, <1>a, <1>d, <1>e, <1>b DEF PrepareInv, PrepareStage
  <1>4. PreparedInv' BY <1>a, <1>d, <1>b DEF PreparedInv, CommitPhase, PrepareStage
  <1>5. OnlyAborted' BY DEF OnlyAborted
  <1>6. TodoInv'
    <2>0. \A d \in Callers : todo'[d] = todo[d] BY Zenon
    <2>1. \A d \in Callers : todo[d] \subseteq didPrepare /\ idx[c] \notin todo[d]
      BY <1>d DEF TodoInv
    <2>2. \A d \in Callers \ {c} : pc'[d] # "prepareDone" BY <1>a DEF PrepareStage
    <2>3. \A d \in Callers : todo[d] \subseteq didPrepare' BY <2>1
    <2> QED BY SMT, <2>0, <2>1, <2>2, <2>3, <1>f DEF TodoInv
  <1>7. RolledBackOnce' BY DEF RolledBackOnce
  <1>8. NoOrphanPrepared' BY SMT DEF NoOrphanPrepared, Accounted, Holds
  <1>9. CommitInv' BY DEF CommitInv, OutcomeTruthful
  <1> QED BY <1>1, <1>2, <1>3, <1>4, <1>5, <1>6, <1>7, <1>8, <1>9

\* Prepare records idx[c], which is still its own.
LEMMA RecordInv ==
  ASSUME TypeOK, InCall, IInv, NEW c \in Callers, Frame(c),
         UNCHANGED <<fns, state, votes, partVars>>,
         pc[c] = "prepareDone", state = "voting", pc'[c] = "prepareLoop",
         idx'[c] = idx[c] + 1, errs'[c] = errs[c], todo'[c] = todo[c],
         prepared' = prepared \cup {idx[c]}
  PROVE  IInv'
  <1> USE DEF IInv, Frame, partVars
  <1>a. \A d \in Callers \ {c} : pc[d] \notin PrepareStage BY DEF PrepareOne, PrepareStage
  <1>b. didPrepare = 1..idx[c] /\ idx[c] \in didPrepare
    BY SMT DEF PrepareInv, TypeOK, CallType
  <1>1. LocalInv' BY DEF LocalInv, PrepareStage
  <1>2. PrepareOne' BY DEF PrepareOne, PrepareStage
  <1>3. PrepareInv' BY SMT, <1>a, <1>b DEF PrepareInv, PrepareStage
  <1>4. PreparedInv'
    <2>0. prepared \subseteq didPrepare BY DEF PreparedInv
    <2>1. prepared' \subseteq didPrepare BY <2>0, <1>b
    <2>2. \A p \in didPrepare : p \in prepared' BY <1>a DEF PreparedInv, PrepareStage
    <2> QED BY <2>1, <2>2 DEF PreparedInv, CommitPhase
  <1>5. OnlyAborted' BY DEF OnlyAborted
  <1>6. TodoInv' BY DEF TodoInv
  <1>7. RolledBackOnce' BY DEF RolledBackOnce
  <1>8. NoOrphanPrepared' BY DEF NoOrphanPrepared
  <1>9. CommitInv' BY DEF CommitInv, OutcomeTruthful, CommitPhase
  <1> QED BY <1>1, <1>2, <1>3, <1>4, <1>5, <1>6, <1>7, <1>8, <1>9

\* The transaction was aborted during prepareFn: idx[c] is rolled back by c itself.
LEMMA TakeBackInv ==
  ASSUME TypeOK, InCall, IInv, NEW c \in Callers, Frame(c),
         UNCHANGED <<fns, state, votes, prepared, partVars>>,
         pc[c] = "prepareDone", state # "voting",
         \/ Back(c) /\ "rollback" \notin fns
         \/ Rolling(c, {idx[c]})
  PROVE  IInv'
  <1> USE DEF IInv, Frame, Back, Rolling, partVars
  <1>a. state = "aborted" /\ idx[c] \in didPrepare /\ rolled[idx[c]] = 0
    BY SMT DEF PrepareInv, PrepareStage, TodoInv, TypeOK, CallType
  <1>b. \A d \in Callers \ {c} : pc[d] # "prepareDone" BY DEF PrepareOne, PrepareStage
  <1>1. LocalInv'
    <2>0. errs[c] = {} BY DEF LocalInv
    <2>1. errs'[c] = {} /\ (pc'[c] = "rollback" <=> todo'[c] # {}) BY <2>0
    <2>2. pc'[c] = "rollback" \/ (pc'[c] \in {"idle", "delete"} /\ idx'[c] = 1) OBVIOUS
    <2> QED BY SMT, <2>1, <2>2 DEF LocalInv, PrepareStage
  <1>2. PrepareOne' BY DEF PrepareOne, PrepareStage
  <1>3. PrepareInv' BY DEF PrepareInv, PrepareStage
  <1>4. PreparedInv' BY <1>a DEF PreparedInv, CommitPhase
  <1>5. OnlyAborted' BY <1>a DEF OnlyAborted
  <1>6. TodoInv'
    <2>1. todo'[c] = {} \/ todo'[c] = {idx[c]} OBVIOUS
    <2>2. \A d \in Callers : pc'[d] # "prepareDone" BY <1>b
    <2>3. \A d \in Callers : idx[c] \notin todo[d] BY DEF TodoInv
    <2>4. \A d \in Callers : todo'[d] \subseteq didPrepare /\ \A p \in todo'[d] : rolled[p] = 0
      BY SMT, <2>1, <1>a DEF TodoInv
    <2>5. \A d, e \in Callers : d # e => todo'[d] \cap todo'[e] = {}
      BY SMT, <2>1, <2>3 DEF TodoInv
    <2> QED BY <2>2, <2>4, <2>5 DEF TodoInv
  <1>7. RolledBackOnce' BY DEF RolledBackOnce
  <1>8. NoOrphanPrepared'
    <2> SUFFICES ASSUME "rollback" \in fns, NEW p \in didPrepare PROVE Accounted(p)'
      BY DEF NoOrphanPrepared
    <2>1. Rolling(c, {idx[c]}) OBVIOUS
    <2>2. todo[c] = {} BY DEF LocalInv
    <2>3. Accounted(p) BY <1>a DEF NoOrphanPrepared
    <2> QED BY <2>1, <2>2, <2>3, <1>b DEF Accounted, Holds
  <1>9. CommitInv' BY <1>a DEF CommitInv, OutcomeTruthful, CommitPhase
  <1> QED BY <1>1, <1>2, <1>3, <1>4, <1>5, <1>6, <1>7, <1>8, <1>9

-----------------------------------------------------------------------------
(* The steps that roll back or commit, and every action *)

\* One call of rollbackFn.
LEMMA UndoInv ==
  ASSUME TypeOK, IInv, NEW c \in Callers, Frame(c), NEW p \in todo[c],
         UNCHANGED <<fns, state, votes, prepared, didPrepare, tried, didCommit>>,
         pc[c] = "rollback", rolled' = [rolled EXCEPT ![p] = @ + 1],
         todo'[c] = todo[c] \ {p}, errs'[c] = errs[c],
         \/ pc'[c] = "rollback" /\ todo'[c] # {}
         \/ pc'[c] = "idle" /\ todo'[c] = {} /\ idx'[c] = 1
  PROVE  IInv'
  <1> USE DEF IInv, Frame
  <1>a. state = "aborted" BY DEF OnlyAborted
  <1>b. p \in Participants /\ p \in didPrepare /\ rolled[p] = 0 /\ rolled'[p] = 1
    BY SMT DEF TodoInv, PartType, TypeOK, CallType
  <1>c. \A q \in Participants \ {p} : rolled'[q] = rolled[q] BY SMT DEF PartType
  <1>1. LocalInv' BY SMT DEF LocalInv, PrepareStage
  <1>2. PrepareOne' BY DEF PrepareOne, PrepareStage
  <1>3. PrepareInv' BY DEF PrepareInv, PrepareStage
  <1>4. PreparedInv' BY <1>a DEF PreparedInv, CommitPhase
  <1>5. OnlyAborted' BY <1>a DEF OnlyAborted
  <1>6. TodoInv'
    <2>1. \A d \in Callers : todo'[d] \subseteq todo[d] /\ p \notin todo'[d] BY DEF TodoInv
    <2>2. \A d \in Callers : pc'[d] = "prepareDone" =>
            pc[d] = "prepareDone" /\ idx'[d] = idx[d] /\ idx[d] # p /\ idx[d] \in didPrepare
      BY SMT DEF TodoInv, PrepareInv, TypeOK, CallType
    <2> QED BY SMT, <2>1, <2>2, <1>c DEF TodoInv, PartType
  <1>7. RolledBackOnce' BY <1>b, <1>c DEF RolledBackOnce
  <1>8. NoOrphanPrepared' BY SMT, <1>b, <1>c DEF NoOrphanPrepared, Accounted, Holds, PartType
  <1>9. CommitInv' BY <1>a DEF CommitInv, OutcomeTruthful, CommitPhase
  <1> QED BY <1>1, <1>2, <1>3, <1>4, <1>5, <1>6, <1>7, <1>8, <1>9

\* One call of commitFn, or a turn without one when it is nil.
LEMMA AttemptInv ==
  ASSUME TypeOK, IInv, NEW c \in Callers, Frame(c), CommitAttempt(c)
  PROVE  IInv'
  <1> USE DEF IInv, Frame
  <1>a. /\ UNCHANGED <<fns, state, votes, prepared, didPrepare, rolled>>
        /\ pc[c] = "commitLoop" /\ idx[c] <= N /\ pc'[c] = pc[c] /\ todo'[c] = todo[c]
        /\ tried \subseteq tried' /\ tried' \subseteq tried \cup {idx[c]}
    BY DEF CommitAttempt, txVars
  <1>b. \/ idx'[c] = idx[c] + 1 /\ errs'[c] = errs[c] /\ didCommit' = didCommit \cup {idx[c]}
                                /\ idx[c] \in tried'
        \/ idx'[c] = idx[c] /\ errs'[c] = errs[c] /\ didCommit' = didCommit
        \/ idx'[c] = idx[c] + 1 /\ errs'[c] = errs[c] \cup {idx[c]} /\ didCommit' = didCommit
    BY DEF CommitAttempt, TypeOK, CallType
  <1>t. idx[c] \in Nat \ {0} BY DEF TypeOK, CallType
  <1>c. state = "committing" /\ \A d \in Callers \ {c} : pc[d] # "commitLoop"
    BY <1>a DEF CommitInv
  <1>1. LocalInv' BY SMT, <1>a DEF LocalInv, PrepareStage
  <1>2. PrepareOne' BY <1>a DEF PrepareOne, PrepareStage
  <1>3. PrepareInv' BY <1>a DEF PrepareInv, PrepareStage
  <1>4. PreparedInv' BY <1>a, <1>c DEF PreparedInv, CommitPhase
  <1>5. OnlyAborted' BY <1>a DEF OnlyAborted
  <1>6. TodoInv' BY <1>a, TodoKept
  <1>7. RolledBackOnce' BY <1>a DEF RolledBackOnce
  <1>8. NoOrphanPrepared' BY <1>a, <1>c DEF NoOrphanPrepared
  <1>9. CommitInv'
    <2>1. errs[c] \subseteq 1..(idx[c] - 1) /\ didCommit = (1..(idx[c] - 1)) \ errs[c]
      BY <1>a DEF CommitInv
    <2>2. errs'[c] \subseteq 1..(idx'[c] - 1) /\ didCommit' = (1..(idx'[c] - 1)) \ errs'[c]
      <3> DEFINE i == idx[c]
                 E == errs[c]
      <3>a. i \in Nat \ {0} BY <1>t
      <3>b. E \subseteq 1..(i - 1) /\ didCommit = (1..(i - 1)) \ E BY <2>1
      <3> HIDE DEF i, E
      <3>c. /\ E \subseteq 1..(i + 1 - 1) /\ didCommit \cup {i} = (1..(i + 1 - 1)) \ E
            /\ E \cup {i} \subseteq 1..(i + 1 - 1)
            /\ didCommit = (1..(i + 1 - 1)) \ (E \cup {i})
        BY <3>a, <3>b, OneMore
      <3>1. /\ errs[c] \subseteq 1..(idx[c] + 1 - 1)
            /\ didCommit \cup {idx[c]} = (1..(idx[c] + 1 - 1)) \ errs[c]
            /\ errs[c] \cup {idx[c]} \subseteq 1..(idx[c] + 1 - 1)
            /\ didCommit = (1..(idx[c] + 1 - 1)) \ (errs[c] \cup {idx[c]})
        BY <3>c DEF i, E
      <3>2. CASE idx'[c] = idx[c] + 1 BY SMT, <1>b, <2>1, <3>1, <3>2
      <3>3. CASE idx'[c] = idx[c] BY SMT, <1>b, <1>t, <2>1, <3>3
      <3> QED BY <1>b, <3>2, <3>3
    <2>3. didCommit' \subseteq tried' BY <1>a, <1>b DEF CommitInv
    <2> QED BY <1>a, <1>c, <2>2, <2>3 DEF CommitInv, OutcomeTruthful, CommitPhase
  <1> QED BY <1>1, <1>2, <1>3, <1>4, <1>5, <1>6, <1>7, <1>8, <1>9

\* The last turn of Commit.
LEMMA FinishCommitInv ==
  ASSUME TypeOK, IInv, NEW c \in Callers, Frame(c), CommitFinish(c)
  PROVE  IInv'
  <1> USE DEF IInv, Frame
  <1>a. /\ UNCHANGED <<fns, votes, prepared, partVars>>
        /\ pc[c] = "commitLoop" /\ idx[c] > N /\ Back(c)
        /\ state' = IF errs[c] # {} THEN "inconsistent" ELSE "committed"
    BY ReturnEffect DEF CommitFinish
  <1> USE DEF partVars, Back
  <1>b. /\ state = "committing" /\ \A d \in Callers \ {c} : pc[d] # "commitLoop"
        /\ didCommit = (1..(idx[c] - 1)) \ errs[c]
    BY <1>a DEF CommitInv
  <1>1. LocalInv' BY <1>a DEF LocalInv, PrepareStage
  <1>2. PrepareOne' BY <1>a DEF PrepareOne, PrepareStage
  <1>3. PrepareInv' BY <1>a, <1>b DEF PrepareInv, PrepareStage
  <1>4. PreparedInv' BY <1>a, <1>b DEF PreparedInv, CommitPhase
  <1>5. OnlyAborted' BY <1>a, <1>b DEF OnlyAborted
  <1>6. TodoInv' BY SMT, <1>a DEF TodoInv
  <1>7. RolledBackOnce' BY <1>a DEF RolledBackOnce
  <1>8. NoOrphanPrepared' BY <1>a, <1>b DEF NoOrphanPrepared
  <1>9. CommitInv'
    <2>1. Participants \subseteq 1..(idx[c] - 1) BY SMT, <1>a, TxAssumption DEF Participants, TypeOK, CallType
    <2>2. errs[c] \subseteq Participants BY DEF TypeOK, CallType
    <2>3. didCommit = Participants <=> errs[c] = {} BY <2>1, <2>2, <1>b DEF PartType, TypeOK
    <2> QED BY SMT, <1>a, <1>b, <2>3 DEF CommitInv, OutcomeTruthful, CommitPhase
  <1> QED BY <1>1, <1>2, <1>3, <1>4, <1>5, <1>6, <1>7, <1>8, <1>9

-----------------------------------------------------------------------------
(* The invariant is inductive: one lemma per action *)

LEMMA BeginInv ==
  ASSUME TypeOK, IInv, NEW c \in Callers, Frame(c), Begin(c) PROVE IInv'
  BY ClaimInv DEF Begin, Goto, TypeOK, CallType, callVars

LEMMA AbortInv ==
  ASSUME TypeOK, IInv, NEW c \in Callers, Frame(c), Abort(c) PROVE IInv'
  BY DoAbortInv DEF Abort

LEMMA VoteInv ==
  ASSUME TypeOK, IInv, NEW c \in Callers, Frame(c), Vote(c) PROVE IInv'
  <1>1. PICK name \in Participants \cup Strangers, abort \in BOOLEAN :
          RecordVote(c, name, abort) /\ IF abort THEN TRUE ELSE UNCHANGED callVars
    BY DEF Vote
  <1>2. pc[c] = "idle" /\ Open /\ UNCHANGED partVars BY DEF Vote
  <1>3. CASE abort = TRUE BY <1>1, <1>2, <1>3, VoteAbortInv
  <1>4. CASE abort = FALSE
    <2>1. UNCHANGED callVars /\ UNCHANGED <<fns, state, prepared>> /\ votes' = votes \ {name}
      BY <1>1, <1>4 DEF RecordVote
    <2>2. votes' = votes BY <2>1, <1>2 DEF Open, IInv, OnlyAborted
    <2> QED BY <1>2, <2>1, <2>2, LoopInv DEF callVars
  <1> QED BY <1>3, <1>4

LEMMA PrepareClaimInv ==
  ASSUME TypeOK, IInv, NEW c \in Callers, Frame(c), PrepareClaim(c) PROVE IInv'
  <1>1. CASE txID \in transactions /\ state = "pending"
    BY <1>1, ClaimInv DEF PrepareClaim, Goto, TypeOK, CallType
  <1>2. CASE ~(txID \in transactions /\ state = "pending")
    BY <1>2, ReturnInv, ReturnEffect DEF PrepareClaim
  <1> QED BY <1>1, <1>2

LEMMA VoteLoopInv ==
  ASSUME TypeOK, IInv, NEW c \in Callers, Frame(c), VoteLoop(c) PROVE IInv'
  <1>1. CASE DoAbort(c) BY <1>1, DoAbortInv DEF VoteLoop
  <1>2. CASE Return(c) /\ UNCHANGED txVars
    BY <1>2, ReturnInv, ReturnEffect DEF VoteLoop, txVars
  <1>3. CASE Goto(c, "voteCall") /\ UNCHANGED <<txVars, call, idx, attempt, errs, todo>>
    BY <1>3, LoopInv DEF VoteLoop, Goto, txVars, TypeOK, CallType
  <1>4. CASE /\ Goto(c, "prepareLoop") /\ idx' = [idx EXCEPT ![c] = 1]
             /\ UNCHANGED <<txVars, call, attempt, errs, todo>>
    BY <1>4, LoopInv DEF VoteLoop, Goto, txVars, TypeOK, CallType
  <1> QED BY <1>1, <1>2, <1>3, <1>4 DEF VoteLoop

LEMMA VoteReturnInv ==
  ASSUME TypeOK, IInv, NEW c \in Callers, Frame(c), VoteReturn(c) PROVE IInv'
  <1>1. CASE DoAbort(c) BY <1>1, DoAbortInv DEF VoteReturn
  <1>2. CASE Open /\ RecordVote(c, idx[c], TRUE) BY <1>2, VoteAbortInv DEF VoteReturn
  <1>3. CASE /\ Open /\ RecordVote(c, idx[c], FALSE) /\ Goto(c, "voteLoop")
             /\ UNCHANGED <<call, attempt, errs, todo>>
    <2>1. votes' = votes BY <1>3 DEF Open, RecordVote, IInv, OnlyAborted
    <2> QED BY <1>3, <2>1, LoopInv DEF VoteReturn, RecordVote, Goto, TypeOK, CallType
  <1> QED BY <1>1, <1>2, <1>3 DEF VoteReturn

LEMMA PrepareLoopInv ==
  ASSUME TypeOK, IInv, NEW c \in Callers, Frame(c), PrepareLoop(c) PROVE IInv'
  <1>1. CASE DoAbort(c) BY <1>1, DoAbortInv DEF PrepareLoop
  <1>2. CASE Return(c) /\ UNCHANGED txVars
    BY <1>2, ReturnInv, ReturnEffect DEF PrepareLoop, txVars
  <1>3. CASE Goto(c, "prepareCall") /\ UNCHANGED <<txVars, call, idx, attempt, errs, todo>>
    BY <1>3, LoopInv DEF PrepareLoop, Goto, txVars, TypeOK, CallType
  <1>4. CASE /\ state = "voting" /\ idx[c] > N /\ state' = "prepared"
             /\ IF call[c] = "execute"
                THEN /\ Goto(c, "commitClaim")
                     /\ idx' = [idx EXCEPT ![c] = 1]
                     /\ UNCHANGED <<call, attempt, errs, todo>>
                ELSE Return(c)
             /\ UNCHANGED <<fns, transactions, votes, prepared>>
    <2>1. todo[c] = {} /\ errs[c] = {} BY DEF PrepareLoop, IInv, LocalInv
    <2>2. /\ pc'[c] \in {"idle", "commitClaim"}
          /\ idx'[c] = 1 /\ errs'[c] = {} /\ todo'[c] = {}
      BY <1>4, <2>1 DEF Goto, Return, TypeOK, CallType
    <2> QED BY <1>4, <2>2, FinishPrepareInv DEF PrepareLoop
  <1> QED BY <1>1, <1>2, <1>3, <1>4 DEF PrepareLoop

LEMMA PrepareReturnInv ==
  ASSUME TypeOK, InCall, IInv, NEW c \in Callers, Frame(c), PrepareReturn(c) PROVE IInv'
  <1>1. CASE DoAbort(c) /\ UNCHANGED partVars BY <1>1, DoAbortInv DEF PrepareReturn
  <1>2. CASE ~(DoAbort(c) /\ UNCHANGED partVars)
    BY <1>2, PreparedOneInv DEF PrepareReturn, Goto, txVars, TypeOK, CallType
  <1> QED BY <1>1, <1>2

LEMMA PrepareRecordInv ==
  ASSUME TypeOK, InCall, IInv, NEW c \in Callers, Frame(c), PrepareRecord(c) PROVE IInv'
  <1>1. CASE state = "voting"
    BY <1>1, RecordInv DEF PrepareRecord, Goto, TypeOK, CallType
  <1>2. CASE state # "voting"
    <2>1. StartRollback(c, {idx[c]}) /\ {idx[c]} # {} BY <1>2 DEF PrepareRecord
    <2>2. (Back(c) /\ "rollback" \notin fns) \/ Rolling(c, {idx[c]})
      BY <2>1, StartRollbackEffect
    <2> QED BY <1>2, <2>2, TakeBackInv DEF PrepareRecord
  <1> QED BY <1>1, <1>2

LEMMA RollbackStepInv ==
  ASSUME TypeOK, IInv, NEW c \in Callers, Frame(c), RollbackStep(c) PROVE IInv'
  <1>1. PICK p \in todo[c] :
          /\ rolled' = [rolled EXCEPT ![p] = @ + 1]
          /\ IF todo[c] = {p}
             THEN Return(c)
             ELSE /\ todo' = [todo EXCEPT ![c] = @ \ {p}]
                  /\ UNCHANGED <<pc, call, idx, attempt, errs>>
    BY DEF RollbackStep
  <1>2. /\ pc[c] = "rollback"
        /\ UNCHANGED <<fns, state, votes, prepared, didPrepare, tried, didCommit>>
        /\ errs[c] = {}
    BY DEF RollbackStep, txVars, IInv, LocalInv
  <1>3. /\ todo'[c] = todo[c] \ {p} /\ errs'[c] = errs[c]
        /\ \/ pc'[c] = "rollback" /\ todo'[c] # {}
           \/ pc'[c] = "idle" /\ todo'[c] = {} /\ idx'[c] = 1
    BY SMT, <1>1, <1>2 DEF Return, Goto, TypeOK, CallType
  <1> QED BY <1>1, <1>2, <1>3, UndoInv

LEMMA CommitClaimInv ==
  ASSUME TypeOK, IInv, NEW c \in Callers, Frame(c), CommitClaim(c) PROVE IInv'
  <1>1. CASE txID \in transactions /\ state = "prepared"
    BY <1>1, ClaimInv DEF CommitClaim, Goto, TypeOK, CallType
  <1>2. CASE ~(txID \in transactions /\ state = "prepared")
    BY <1>2, ReturnInv, ReturnEffect DEF CommitClaim
  <1> QED BY <1>1, <1>2

LEMMA CleanupScanInv ==
  ASSUME TypeOK, IInv, NEW c \in Callers, Frame(c), CleanupScan(c) PROVE IInv'
  <1>1. /\ pc[c] = "idle" /\ pc'[c] = "delete"
        /\ UNCHANGED <<fns, votes, prepared, idx, errs, todo, partVars>>
    BY DEF CleanupScan, Goto, TypeOK, CallType
  <1>2. idx[c] = 1 /\ errs[c] = {} /\ todo[c] = {}
    BY <1>1 DEF IInv, LocalInv, PrepareStage
  <1>3. CASE state = "pending"
    BY <1>1, <1>2, <1>3, AbortNowInv DEF CleanupScan, Back, IInv, PreparedInv
  <1>4. CASE state # "pending" BY <1>1, <1>4, LoopInv DEF CleanupScan
  <1> QED BY <1>3, <1>4

LEMMA CleanupDeleteInv ==
  ASSUME TypeOK, IInv, NEW c \in Callers, Frame(c), CleanupDelete(c) PROVE IInv'
  BY ReturnInv, ReturnEffect DEF CleanupDelete

LEMMA StepInv == ASSUME TypeOK, InCall, IInv, Next PROVE IInv'
  <1> PICK c \in Callers : Invoke(c) \/ Step(c) BY DEF Next
  <1>1. Frame(c) BY FrameStep
  <1> QED
    BY <1>1, BeginInv, AbortInv, VoteInv, PrepareClaimInv, VoteLoopInv, VoteReturnInv,
       PrepareLoopInv, PrepareReturnInv, PrepareRecordInv, RollbackStepInv, CommitClaimInv,
       AttemptInv, FinishCommitInv, CleanupScanInv, CleanupDeleteInv
       DEF Invoke, Step

LEMMA InitInv == Init => IInv
  <1> SUFFICES ASSUME Init PROVE IInv OBVIOUS
  <1> USE DEF Init
  <1>1. LocalInv BY DEF LocalInv, PrepareStage
  <1>2. PrepareOne /\ PrepareInv BY DEF PrepareOne, PrepareInv, PrepareStage
  <1>3. PreparedInv /\ OnlyAborted BY DEF PreparedInv, CommitPhase, OnlyAborted
  <1>4. TodoInv /\ RolledBackOnce BY SMT DEF TodoInv, RolledBackOnce
  <1>5. NoOrphanPrepared /\ CommitInv BY DEF NoOrphanPrepared, CommitInv, OutcomeTruthful
  <1> QED BY <1>1, <1>2, <1>3, <1>4, <1>5 DEF IInv

LEMMA StutterInv == ASSUME IInv, UNCHANGED vars PROVE IInv'
  <1> USE DEF IInv, vars, txVars, callVars, partVars
  <1>1. LocalInv' BY DEF LocalInv
  <1>2. PrepareOne' BY DEF PrepareOne
  <1>3. PrepareInv' BY DEF PrepareInv
  <1>4. PreparedInv' BY DEF PreparedInv
  <1>5. OnlyAborted' BY DEF OnlyAborted
  <1>6. TodoInv' BY DEF TodoInv
  <1>7. RolledBackOnce' /\ NoOrphanPrepared'
    BY DEF RolledBackOnce, NoOrphanPrepared, Accounted, Holds
  <1>8. CommitInv' BY DEF CommitInv, OutcomeTruthful
  <1> QED BY <1>1, <1>2, <1>3, <1>4, <1>5, <1>6, <1>7, <1>8

\* The conjunction of the facts above is an invariant of the coordinator.
THEOREM Invariance == Spec => [](TypeOK /\ IInv)
  <1>1. TypeOK /\ InCall /\ IInv /\ [Next]_vars => IInv' BY StepInv, StutterInv
  <1> QED BY <1>1, InitInv, TypeCorrect, PTL DEF Spec

-----------------------------------------------------------------------------
(* The theorems *)

\* Commit and rollback exclude each other: the lock of tx.mu and the state checks
\* of Commit, Abort and Vote never let both a commitFn and a rollbackFn run.
THEOREM Exclusion == Spec => []CommitRollbackExclusive
  <1>1. TypeOK /\ IInv => CommitRollbackExclusive
    BY DEF IInv, CommitInv, OnlyAborted, CommitPhase, CommitRollbackExclusive
  <1> QED BY <1>1, Invariance, PTL

\* Commit is only ever begun when every prepareFn succeeded and no abort vote stands.
THEOREM Unanimity == Spec => []CommitIsUnanimous
  <1>1. TypeOK /\ IInv => CommitIsUnanimous
    BY DEF TypeOK, PartType, IInv, PreparedInv, OnlyAborted, CommitPhase, CommitIsUnanimous
  <1> QED BY <1>1, Invariance, PTL

\* Committed means that every commitFn succeeded, Inconsistent that some did not.
THEOREM Truthfulness == Spec => []OutcomeTruthful
  <1>1. TypeOK /\ IInv => OutcomeTruthful BY DEF IInv, CommitInv
  <1> QED BY <1>1, Invariance, PTL

\* Whatever aborts the transaction, no successful prepareFn is forgotten, and
\* none is rolled back twice.
THEOREM Compensation == Spec => [](NoOrphanPrepared /\ RolledBackOnce)
  <1>1. TypeOK /\ IInv => NoOrphanPrepared /\ RolledBackOnce BY DEF IInv
  <1> QED BY <1>1, Invariance, PTL

-----------------------------------------------------------------------------
(* The coordinator implements AtomicCommit *)

\* tx.State only moves along these edges.
LEMMA StateEdges ==
  ASSUME TypeOK, IInv, Next
  PROVE  \/ state' = state
         \/ state = "none" /\ state' = "pending"
         \/ state = "pending" /\ state' = "voting"
         \/ state = "voting" /\ state' = "prepared"
         \/ state = "prepared" /\ state' = "committing"
         \/ state \in {"pending", "voting", "prepared"} /\ state' = "aborted"
         \/ state = "committing" /\ state' \in {"committed", "inconsistent"}
  <1> PICK c \in Callers : Invoke(c) \/ Step(c) BY DEF Next
  <1>1. CASE CommitFinish(c) BY <1>1 DEF CommitFinish, IInv, CommitInv
  <1>2. CASE ~CommitFinish(c)
    BY <1>2 DEF Invoke, Step, Begin, Abort, Vote, PrepareClaim, VoteLoop, VoteReturn,
         PrepareLoop, PrepareReturn, PrepareRecord, RollbackStep, CommitClaim, CommitAttempt, CleanupScan,
         CleanupDelete, DoAbort, RecordVote, Open, txVars
  <1> QED BY <1>1, <1>2

\* What a step does to the participants: nothing, or one callback succeeds.
LEMMA PartEdges ==
  ASSUME TypeOK, InCall, IInv, Next
  PROVE  \/ UNCHANGED <<didPrepare, didCommit, rolled>>
         \/ \E p \in Participants :
              /\ p \notin didPrepare /\ didPrepare' = didPrepare \cup {p}
              /\ state \in {"voting", "aborted"}
              /\ UNCHANGED <<state, didCommit, rolled>>
         \/ \E p \in Participants :
              /\ rolled[p] = 0 /\ rolled' = [rolled EXCEPT ![p] = @ + 1]
              /\ state = "aborted" /\ p \in didPrepare
              /\ UNCHANGED <<state, didPrepare, didCommit>>
         \/ \E p \in Participants :
              /\ p \notin didCommit /\ didCommit' = didCommit \cup {p}
              /\ state = "committing"
              /\ UNCHANGED <<state, didPrepare, rolled>>
  <1> PICK c \in Callers : Invoke(c) \/ Step(c) BY DEF Next
  <1>1. CASE PrepareReturn(c)
    <2>1. idx[c] \in Participants /\ idx[c] \in Nat \ {0} /\ pc[c] = "prepareCall"
      BY <1>1 DEF InCall, PrepareReturn, TypeOK, CallType
    <2>2. didPrepare = 1..(idx[c] - 1) /\ state \in {"voting", "aborted"}
      BY <2>1 DEF IInv, PrepareInv, PrepareStage
    <2>3. idx[c] \notin didPrepare BY SMT, <2>1, <2>2, NotBelow
    <2> QED BY <1>1, <2>1, <2>2, <2>3 DEF PrepareReturn, partVars, txVars
  <1>2. CASE RollbackStep(c)
    <2>1. PICK p \in todo[c] : rolled' = [rolled EXCEPT ![p] = @ + 1]
      BY <1>2 DEF RollbackStep
    <2>2. p \in didPrepare /\ rolled[p] = 0 /\ state = "aborted" /\ p \in Participants
      BY <2>1 DEF IInv, TodoInv, OnlyAborted, TypeOK, PartType
    <2> QED BY <1>2, <2>1, <2>2 DEF RollbackStep, txVars
  <1>3. CASE CommitAttempt(c)
    <2>1. idx[c] \in Participants /\ pc[c] = "commitLoop" /\ idx[c] \in Nat \ {0}
      BY SMT, <1>3, TxAssumption DEF CommitAttempt, TypeOK, CallType, Participants
    <2>2. state = "committing" /\ didCommit = (1..(idx[c] - 1)) \ errs[c]
      BY <2>1 DEF IInv, CommitInv
    <2>3. idx[c] \notin didCommit BY SMT, <2>1, <2>2, NotBelow
    <2> QED BY <1>3, <2>1, <2>2, <2>3 DEF CommitAttempt, txVars
  <1>4. CASE ~PrepareReturn(c) /\ ~RollbackStep(c) /\ ~CommitAttempt(c)
    BY <1>4 DEF Invoke, Step, Begin, Abort, Vote, PrepareClaim, VoteLoop, VoteReturn,
         PrepareLoop, PrepareRecord, CommitClaim, CommitFinish, CleanupScan, CleanupDelete, partVars
  <1> QED BY <1>1, <1>2, <1>3, <1>4

\* Every behaviour of the coordinator is one of AtomicCommit.
THEOREM Refinement == Spec => ImplementsAtomicCommit
  <1> DEFINE R == [p \in Participants |-> Outcome(p)]
  <1>1. Init => AC!Init BY SMT DEF Init, AC!Init, Decision, CommitPhase, Outcome
  <1>2. ASSUME TypeOK, InCall, IInv, Next PROVE [AC!Next]_(AC!avars)
    <2> USE <1>2
    <2>1. CASE UNCHANGED <<didPrepare, didCommit, rolled>>
      <3>1. R' = R BY SMT, <2>1 DEF Outcome
      <3>2. CASE state = "prepared" /\ state' = "committing"
        <4>1. \A p \in Participants : R[p] = "prepared"
          BY SMT, <3>2 DEF IInv, PreparedInv, CommitInv, CommitPhase, OnlyAborted, Outcome
        <4>2. Decision = "open" /\ Decision' = "commit" BY <3>2 DEF Decision, CommitPhase
        <4> QED BY <3>1, <4>1, <4>2 DEF AC!Next, AC!DecideCommit
      <3>3. CASE state \in {"pending", "voting", "prepared"} /\ state' = "aborted"
        <4>1. Decision = "open" /\ Decision' = "abort" BY <3>3 DEF Decision, CommitPhase
        <4> QED BY <3>1, <4>1 DEF AC!Next, AC!DecideAbort
      <3>4. CASE ~(state = "prepared" /\ state' = "committing") /\ state' # "aborted"
        <4>1. Decision' = Decision BY <3>4, StateEdges DEF Decision, CommitPhase
        <4> QED BY <3>1, <4>1 DEF AC!avars
      <3>5. CASE state' = state BY <3>1, <3>5 DEF AC!avars, Decision
      <3> QED BY <3>2, <3>3, <3>4, <3>5, StateEdges
    <2>2. CASE \E p \in Participants :
              /\ p \notin didPrepare /\ didPrepare' = didPrepare \cup {p}
              /\ state \in {"voting", "aborted"}
              /\ UNCHANGED <<state, didCommit, rolled>>
      <3> PICK p \in Participants :
              /\ p \notin didPrepare /\ didPrepare' = didPrepare \cup {p}
              /\ state \in {"voting", "aborted"}
              /\ UNCHANGED <<state, didCommit, rolled>>
        BY <2>2
      <3>1. didCommit = {} /\ rolled[p] = 0
        BY SMT DEF IInv, CommitInv, CommitPhase, RolledBackOnce, TypeOK, PartType
      <3>2. R[p] = "working" /\ R'[p] = "prepared" BY SMT, <3>1 DEF Outcome
      <3>3. \A q \in Participants \ {p} : R'[q] = R[q] BY SMT DEF Outcome
      <3>4. R' = [R EXCEPT ![p] = "prepared"] BY <3>2, <3>3
      <3>5. Decision # "commit" /\ Decision' = Decision BY DEF Decision, CommitPhase
      <3> QED BY <3>2, <3>4, <3>5 DEF AC!Next, AC!Prepare, AC!Move
    <2>3. CASE \E p \in Participants :
              /\ rolled[p] = 0 /\ rolled' = [rolled EXCEPT ![p] = @ + 1]
              /\ state = "aborted" /\ p \in didPrepare
              /\ UNCHANGED <<state, didPrepare, didCommit>>
      <3> PICK p \in Participants :
              /\ rolled[p] = 0 /\ rolled' = [rolled EXCEPT ![p] = @ + 1]
              /\ state = "aborted" /\ p \in didPrepare
              /\ UNCHANGED <<state, didPrepare, didCommit>>
        BY <2>3
      <3>1. didCommit = {} /\ rolled'[p] = 1 /\ \A q \in Participants \ {p} : rolled'[q] = rolled[q]
        BY SMT DEF IInv, CommitInv, CommitPhase, TypeOK, PartType
      <3>2. R[p] = "prepared" /\ R'[p] = "undone" BY SMT, <3>1 DEF Outcome
      <3>3. \A q \in Participants \ {p} : R'[q] = R[q] BY SMT, <3>1 DEF Outcome
      <3>4. R' = [R EXCEPT ![p] = "undone"] BY <3>2, <3>3
      <3>5. Decision = "abort" /\ Decision' = Decision BY DEF Decision, CommitPhase
      <3> QED BY <3>2, <3>4, <3>5 DEF AC!Next, AC!Undo, AC!Move
    <2>4. CASE \E p \in Participants :
              /\ p \notin didCommit /\ didCommit' = didCommit \cup {p}
              /\ state = "committing"
              /\ UNCHANGED <<state, didPrepare, rolled>>
      <3> PICK p \in Participants :
              /\ p \notin didCommit /\ didCommit' = didCommit \cup {p}
              /\ state = "committing"
              /\ UNCHANGED <<state, didPrepare, rolled>>
        BY <2>4
      <3>1. rolled[p] = 0 /\ p \in didPrepare
        BY DEF IInv, PreparedInv, OnlyAborted, CommitPhase
      <3>2. R[p] = "prepared" /\ R'[p] = "committed" BY SMT, <3>1 DEF Outcome
      <3>3. \A q \in Participants \ {p} : R'[q] = R[q] BY SMT DEF Outcome
      <3>4. R' = [R EXCEPT ![p] = "committed"] BY <3>2, <3>3
      <3>5. Decision = "commit" /\ Decision' = Decision BY DEF Decision, CommitPhase
      <3> QED BY <3>2, <3>4, <3>5 DEF AC!Next, AC!Commit, AC!Move
    <2> QED BY <2>1, <2>2, <2>3, <2>4, PartEdges
  <1>3. UNCHANGED vars => UNCHANGED AC!avars
    BY SMT DEF vars, txVars, callVars, partVars, AC!avars, Decision, Outcome
  <1> QED BY <1>1, <1>2, <1>3, Invariance, TypeCorrect, PTL
          DEF Spec, ImplementsAtomicCommit, AC!Spec
=============================================================================

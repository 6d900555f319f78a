----------------------- MODULE TransactionCoordinator -----------------------
(***************************************************************************)
(* The in-process two-phase coordinator of zConsistency/transaction.go,    *)
(* for one transaction and any number of goroutines that call Prepare,     *)
(* Commit, Abort, Vote, Execute and Cleanup on it at the same time.        *)
(*                                                                         *)
(* One action is one critical section of tx.mu, or the return of one       *)
(* application callback; callbacks run outside the lock, so every other    *)
(* caller may run between the call and the return.  A context is not a     *)
(* variable: each place where the code looks at ctx may find it done, and  *)
(* every such place ends the call, so no call looks twice at a done ctx.   *)
(***************************************************************************)
EXTENDS Integers, FiniteSets

CONSTANTS
  N,         \* number of participants; they are called in the order 1..N
  Callers,   \* goroutines that use the coordinator
  Strangers  \* names passed to Vote that are not participants

ASSUME TxAssumption == N \in Nat

VARIABLES
  fns,        \* callbacks the coordinator was built with
  transactions, \* ids in tm.transactions
  state,      \* tx.State; "none" before Begin
  votes,      \* names with a recorded abort vote in tx.Votes
  prepared,   \* tx.Prepared
  pc, call, idx, attempt, errs, todo,  \* local state of each caller
  didPrepare, \* participants whose prepareFn returned nil
  tried,      \* participants whose commitFn was called
  didCommit,  \* participants whose commitFn returned nil
  rolled      \* number of rollbackFn calls per participant

txVars == <<fns, transactions, state, votes, prepared>>
callVars == <<pc, call, idx, attempt, errs, todo>>
partVars == <<didPrepare, tried, didCommit, rolled>>
vars == <<txVars, callVars, partVars>>

Participants == 1..N
Callbacks == {"vote", "prepare", "commit", "rollback"}
maxCommitAttempts == 3
txID == 1

States == {"none", "pending", "voting", "prepared", "committing",
           "committed", "aborted", "inconsistent"}

TxType ==
  /\ fns \subseteq Callbacks
  /\ transactions \subseteq {txID}
  /\ state \in States
  /\ votes \subseteq Participants \cup Strangers
  /\ prepared \subseteq Participants

Labels == {"idle", "claim", "voteLoop", "voteCall", "prepareLoop", "prepareCall",
           "prepareDone", "commitClaim", "commitLoop", "rollback", "delete"}

CallType ==
  /\ pc \in [Callers -> Labels]
  /\ call \in [Callers -> {"prepare", "execute"}]
  /\ idx \in [Callers -> Nat \ {0}]
  /\ attempt \in [Callers -> Nat]
  /\ errs \in [Callers -> SUBSET Participants]
  /\ todo \in [Callers -> SUBSET Participants]

PartType ==
  /\ didPrepare \subseteq Participants
  /\ tried \subseteq Participants
  /\ didCommit \subseteq Participants
  /\ rolled \in [Participants -> Nat]

\* Every variable keeps its type; prepareFn, commitFn and rollbackFn are only ever
\* called on participants.
TypeOK == TxType /\ CallType /\ PartType

Init ==
  /\ fns \in SUBSET Callbacks
  /\ transactions = {}
  /\ state = "none"
  /\ votes = {}
  /\ prepared = {}
  /\ pc = [c \in Callers |-> "idle"]
  /\ call = [c \in Callers |-> "prepare"]
  /\ idx = [c \in Callers |-> 1]
  /\ attempt = [c \in Callers |-> 0]
  /\ errs = [c \in Callers |-> {}]
  /\ todo = [c \in Callers |-> {}]
  /\ didPrepare = {}
  /\ tried = {}
  /\ didCommit = {}
  /\ rolled = [p \in Participants |-> 0]

-----------------------------------------------------------------------------
(* Caller bookkeeping *)

Goto(c, l) == pc' = [pc EXCEPT ![c] = l]

\* The call returns to its caller; its locals go out of scope.
Return(c) ==
  /\ Goto(c, "idle")
  /\ call' = [call EXCEPT ![c] = "prepare"]
  /\ idx' = [idx EXCEPT ![c] = 1]
  /\ attempt' = [attempt EXCEPT ![c] = 0]
  /\ errs' = [errs EXCEPT ![c] = {}]
  /\ todo' = [todo EXCEPT ![c] = {}]

\* rollbackParticipants: nothing to do without participants or without rollbackFn.
StartRollback(c, S) ==
  IF S = {} \/ "rollback" \notin fns
  THEN Return(c)
  ELSE /\ Goto(c, "rollback")
       /\ todo' = [todo EXCEPT ![c] = S]
       /\ UNCHANGED <<call, idx, attempt, errs>>

OpenMutant == txID \in transactions /\ state \in {"pending", "voting", "prepared", "committing"}

\* The states from which an abort, or a vote, is still accepted.
Open == txID \in transactions /\ state \in {"pending", "voting", "prepared"}

\* preparedParticipantsLocked
PreparedParticipants == prepared

\* tm.Abort, which the error paths of Prepare call too: the one that makes the
\* transition rolls back what was prepared; later ones do nothing.
DoAbort(c) ==
  \/ /\ Open
     /\ state' = "aborted"
     /\ StartRollback(c, PreparedParticipants)
     /\ UNCHANGED <<fns, transactions, votes, prepared>>
  \/ /\ ~Open
     /\ Return(c)
     /\ UNCHANGED txVars

\* tm.Vote(participant, abort?): records the vote and aborts on VoteAbort.
RecordVote(c, name, abort) ==
  /\ votes' = IF abort THEN votes \cup {name} ELSE votes \ {name}
  /\ IF abort THEN state' = "aborted" /\ StartRollback(c, PreparedParticipants)
              ELSE state' = state
  /\ UNCHANGED <<fns, transactions, prepared>>

-----------------------------------------------------------------------------
(* Calls *)

\* Begin stores a fresh transaction; Execute begins it and goes on to Prepare.
Begin(c) ==
  /\ pc[c] = "idle"
  /\ state = "none"
  /\ transactions' = {txID}
  /\ state' = "pending"
  /\ \/ UNCHANGED callVars
     \/ /\ Goto(c, "claim")
        /\ call' = [call EXCEPT ![c] = "execute"]
        /\ UNCHANGED <<idx, attempt, errs, todo>>
  /\ UNCHANGED <<fns, votes, prepared, partVars>>

Abort(c) ==
  /\ pc[c] = "idle"
  /\ state # "none"
  /\ DoAbort(c)
  /\ UNCHANGED partVars

Vote(c) ==
  /\ pc[c] = "idle"
  /\ Open
  /\ \E name \in Participants \cup Strangers, abort \in BOOLEAN :
       /\ RecordVote(c, name, abort)
       /\ IF abort THEN TRUE ELSE UNCHANGED callVars
  /\ UNCHANGED partVars

\* The first critical section of Prepare: only one caller takes Pending to Voting.
PrepareClaim(c) ==
  /\ \/ pc[c] = "idle" /\ state # "none"
     \/ pc[c] = "claim"
  /\ IF txID \in transactions /\ state = "pending"
     THEN /\ state' = "voting"
          /\ Goto(c, IF "vote" \in fns THEN "voteLoop" ELSE "prepareLoop")
          /\ UNCHANGED <<call, idx, attempt, errs, todo>>
     ELSE state' = state /\ Return(c)
  /\ UNCHANGED <<fns, transactions, votes, prepared, partVars>>

\* Top of the voting loop: ctx, then transactionMustBe(Voting).
VoteLoop(c) ==
  /\ pc[c] = "voteLoop"
  /\ \/ idx[c] <= N /\ DoAbort(c)
     \/ /\ idx[c] <= N
        /\ IF state = "voting"
           THEN Goto(c, "voteCall") /\ UNCHANGED <<call, idx, attempt, errs, todo>>
           ELSE Return(c)
        /\ UNCHANGED txVars
     \/ /\ idx[c] > N
        /\ Goto(c, "prepareLoop")
        /\ idx' = [idx EXCEPT ![c] = 1]
        /\ UNCHANGED <<txVars, call, attempt, errs, todo>>
  /\ UNCHANGED partVars

VoteReturnMutant(c) ==
  /\ pc[c] = "voteCall"
  /\ \/ Return(c) /\ UNCHANGED txVars
     \/ /\ Open
        /\ \/ RecordVote(c, idx[c], TRUE)
           \/ /\ RecordVote(c, idx[c], FALSE)
              /\ Goto(c, "voteLoop")
              /\ idx' = [idx EXCEPT ![c] = @ + 1]
              /\ UNCHANGED <<call, attempt, errs, todo>>
  /\ UNCHANGED partVars

\* voteFn returns and its vote goes through tm.Vote; every failure aborts.
VoteReturn(c) ==
  /\ pc[c] = "voteCall"
  /\ \/ DoAbort(c)
     \/ /\ Open
        /\ \/ RecordVote(c, idx[c], TRUE)
           \/ /\ RecordVote(c, idx[c], FALSE)
              /\ Goto(c, "voteLoop")
              /\ idx' = [idx EXCEPT ![c] = @ + 1]
              /\ UNCHANGED <<call, attempt, errs, todo>>
  /\ UNCHANGED partVars

\* Top of the prepare loop, and after its last turn the step to Prepared.
\* ctx may be found done here, which is also the ctx check that follows the
\* recording of a participant; a nil prepareFn aborts.
PrepareLoop(c) ==
  /\ pc[c] = "prepareLoop"
  /\ \/ DoAbort(c)
     \/ /\ "prepare" \in fns
        /\ state # "voting"
        /\ Return(c)
        /\ UNCHANGED txVars
     \/ /\ "prepare" \in fns
        /\ state = "voting"
        /\ idx[c] <= N
        /\ Goto(c, "prepareCall")
        /\ UNCHANGED <<txVars, call, idx, attempt, errs, todo>>
     \/ /\ "prepare" \in fns
        /\ state = "voting"
        /\ idx[c] > N
        /\ state' = "prepared"
        /\ IF call[c] = "execute"
           THEN /\ Goto(c, "commitClaim")
                /\ idx' = [idx EXCEPT ![c] = 1]
                /\ UNCHANGED <<call, attempt, errs, todo>>
           ELSE Return(c)
        /\ UNCHANGED <<fns, transactions, votes, prepared>>
  /\ UNCHANGED partVars

\* prepareFn returns: an error aborts the transaction.
PrepareReturn(c) ==
  /\ pc[c] = "prepareCall"
  /\ \/ DoAbort(c) /\ UNCHANGED partVars
     \/ /\ didPrepare' = didPrepare \cup {idx[c]}
        /\ Goto(c, "prepareDone")
        /\ UNCHANGED <<txVars, call, idx, attempt, errs, todo, tried, didCommit, rolled>>

PrepareRecordMutant(c) ==
  /\ pc[c] = "prepareDone"
  /\ IF state = "voting"
     THEN /\ prepared' = prepared \cup {idx[c]}
          /\ Goto(c, "prepareLoop")
          /\ idx' = [idx EXCEPT ![c] = @ + 1]
          /\ UNCHANGED <<call, attempt, errs, todo>>
     ELSE prepared' = prepared /\ Return(c)
  /\ UNCHANGED <<fns, transactions, state, votes, partVars>>

\* The critical section after prepareFn: a transaction that left Voting during
\* the callback is not this caller's any more, and only idx[c] is rolled back.
PrepareRecord(c) ==
  /\ pc[c] = "prepareDone"
  /\ IF state = "voting"
     THEN /\ prepared' = prepared \cup {idx[c]}
          /\ Goto(c, "prepareLoop")
          /\ idx' = [idx EXCEPT ![c] = @ + 1]
          /\ UNCHANGED <<call, attempt, errs, todo>>
     ELSE prepared' = prepared /\ StartRollback(c, {idx[c]})
  /\ UNCHANGED <<fns, transactions, state, votes, partVars>>

\* One rollbackFn call, in participant order; its error is only logged.
RollbackStep(c) ==
  /\ pc[c] = "rollback"
  /\ \E p \in todo[c] :
       /\ \A q \in todo[c] : p <= q
       /\ rolled' = [rolled EXCEPT ![p] = @ + 1]
       /\ IF todo[c] = {p}
          THEN Return(c)
          ELSE /\ todo' = [todo EXCEPT ![c] = @ \ {p}]
               /\ UNCHANGED <<pc, call, idx, attempt, errs>>
  /\ UNCHANGED <<txVars, didPrepare, tried, didCommit>>

\* The first critical section of Commit: only one caller takes Prepared to Committing.
CommitClaim(c) ==
  /\ \/ pc[c] = "idle" /\ state # "none"
     \/ pc[c] = "commitClaim"
  /\ IF txID \in transactions /\ state = "prepared"
     THEN /\ state' = "committing"
          /\ Goto(c, "commitLoop")
          /\ UNCHANGED <<call, idx, attempt, errs, todo>>
     ELSE state' = state /\ Return(c)
  /\ UNCHANGED <<fns, transactions, votes, prepared, partVars>>

\* One commit attempt on participant idx[c]; a nil commitFn always fails.
CommitAttempt(c) ==
  /\ pc[c] = "commitLoop"
  /\ idx[c] <= N
  /\ tried' = IF "commit" \in fns THEN tried \cup {idx[c]} ELSE tried
  /\ \/ /\ "commit" \in fns
        /\ didCommit' = didCommit \cup {idx[c]}
        /\ idx' = [idx EXCEPT ![c] = @ + 1]
        /\ attempt' = [attempt EXCEPT ![c] = 0]
        /\ errs' = errs
     \/ /\ didCommit' = didCommit
        /\ IF attempt[c] < maxCommitAttempts - 1
           THEN /\ attempt' = [attempt EXCEPT ![c] = @ + 1]
                /\ UNCHANGED <<idx, errs>>
           ELSE /\ idx' = [idx EXCEPT ![c] = @ + 1]
                /\ attempt' = [attempt EXCEPT ![c] = 0]
                /\ errs' = [errs EXCEPT ![c] = @ \cup {idx[c]}]
  /\ UNCHANGED <<txVars, pc, call, todo, didPrepare, rolled>>

CommitFinishMutant(c) ==
  /\ pc[c] = "commitLoop"
  /\ idx[c] > N
  /\ state' = "committed"
  /\ Return(c)
  /\ UNCHANGED <<fns, transactions, votes, prepared, partVars>>

CommitFinish(c) ==
  /\ pc[c] = "commitLoop"
  /\ idx[c] > N
  /\ state' = IF errs[c] # {} THEN "inconsistent" ELSE "committed"
  /\ Return(c)
  /\ UNCHANGED <<fns, transactions, votes, prepared, partVars>>

\* Cleanup's Range: a pending transaction past its timeout is aborted; an old
\* finished one is collected, and deleted after the Range.
CleanupScan(c) ==
  /\ pc[c] = "idle"
  /\ txID \in transactions
  /\ state \in {"pending", "committed", "aborted"}
  /\ state' = IF state = "pending" THEN "aborted" ELSE state
  /\ Goto(c, "delete")
  /\ UNCHANGED <<fns, transactions, votes, prepared, call, idx, attempt, errs, todo, partVars>>

CleanupDelete(c) ==
  /\ pc[c] = "delete"
  /\ transactions' = {}
  /\ Return(c)
  /\ UNCHANGED <<fns, state, votes, prepared, partVars>>

-----------------------------------------------------------------------------
\* The steps of a call in progress.
Step(c) ==
  \/ pc[c] # "idle" /\ PrepareClaim(c)
  \/ VoteLoop(c) \/ VoteReturn(c)
  \/ PrepareLoop(c) \/ PrepareReturn(c) \/ PrepareRecord(c)
  \/ RollbackStep(c)
  \/ pc[c] # "idle" /\ CommitClaim(c)
  \/ CommitAttempt(c) \/ CommitFinish(c)
  \/ CleanupDelete(c)

\* The first step of a call.
Invoke(c) ==
  \/ Begin(c) \/ Abort(c) \/ Vote(c)
  \/ pc[c] = "idle" /\ PrepareClaim(c)
  \/ pc[c] = "idle" /\ CommitClaim(c)
  \/ CleanupScan(c)

Next == \E c \in Callers : Invoke(c) \/ Step(c)

Spec == Init /\ [][Next]_vars

\* Callbacks return and goroutines are scheduled; nobody is obliged to call.
FairSpec == Spec /\ \A c \in Callers : WF_vars(Step(c))

-----------------------------------------------------------------------------
CommitPhase == {"committing", "committed", "inconsistent"}

\* Commit and rollback exclude each other for the whole transaction: once any
\* commitFn was called no rollbackFn is ever called on any participant, although
\* Abort, Vote and the error paths of Prepare race with Commit for the lock.
CommitRollbackExclusive == tried # {} => \A p \in Participants : rolled[p] = 0

\* Commit starts only from a unanimous transaction: every participant prepared,
\* and no abort vote recorded by anyone (Vote is accepted up to Prepared).
CommitIsUnanimous == state \in CommitPhase => didPrepare = Participants /\ votes = {}

\* The final state tells the truth about the participants: Committed exactly when
\* every commitFn succeeded, Inconsistent exactly when some ran out of attempts.
OutcomeTruthful == /\ state = "committed" => didCommit = Participants
                   /\ state = "inconsistent" => didCommit # Participants

\* A participant whose prepareFn succeeded is never forgotten by an abort: it was
\* rolled back, or some caller still holds it in its rollback list, or the Prepare
\* call that prepared it has not yet looked at the state again.
Holds(c, p) == p \in todo[c] \/ (pc[c] = "prepareDone" /\ idx[c] = p)

Accounted(p) == rolled[p] = 1 \/ \E c \in Callers : Holds(c, p)

NoOrphanPrepared ==
  state = "aborted" /\ "rollback" \in fns => \A p \in didPrepare : Accounted(p)

\* rollbackFn is called at most once per participant, and only on a prepared one.
RolledBackOnce ==
  \A p \in Participants : rolled[p] > 0 => rolled[p] = 1 /\ p \in didPrepare

\* The prepared participants that an aborted transaction has still to roll back
Unresolved == {p \in didPrepare : state = "aborted" /\ "rollback" \in fns /\ rolled[p] = 0}

\* No transaction stays in Voting: Prepare, or whoever aborts it, moves it on; and every
\* prepared participant of an aborted transaction is rolled back in the end.
PreparedResolved ==
  /\ (state = "voting") ~> (state # "voting")
  /\ (Unresolved # {}) ~> (Unresolved = {})

-----------------------------------------------------------------------------
\* What the coordinator promises, seen from the participants.
Decision == CASE state \in CommitPhase -> "commit"
              [] state = "aborted" -> "abort"
              [] OTHER -> "open"

Outcome(p) == CASE p \in didCommit -> "committed"
                [] p \notin didCommit /\ rolled[p] > 0 -> "undone"
                [] p \notin didCommit /\ rolled[p] = 0 /\ p \in didPrepare -> "prepared"
                [] OTHER -> "working"

AC == INSTANCE AtomicCommit WITH
        RM <- Participants, decision <- Decision, rm <- [p \in Participants |-> Outcome(p)]

\* The coordinator implements atomic commitment: one decision, taken once, and
\* every participant step follows it and is taken at most once.
ImplementsAtomicCommit == AC!Spec
=============================================================================

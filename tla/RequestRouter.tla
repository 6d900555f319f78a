--------------------------- MODULE RequestRouter ---------------------------
(***************************************************************************)
(* RequestRouter (zNet/request_correlator.go).  SendRequest registers a    *)
(* PendingResponse under a request id, sends, and waits on its channel of  *)
(* one result, with its context and a timer.  CompleteRequest, Cleanup and *)
(* Close take registrations out of the map under the lock and send their   *)
(* results after it, on a channel nobody may be reading any more.          *)
(* A caller stands for its PendingResponse.  Responses arrive late, twice, *)
(* or for a request that was given up.  Ids are the application's, which   *)
(* may use one again, or for two calls at a time.                          *)
(***************************************************************************)
EXTENDS Naturals, FiniteSets, Sequences

CONSTANTS Callers,       \* calls of SendRequest
          Completers,    \* goroutines that call CompleteRequest
          Ids            \* request ids

ASSUME CompletersAssumption == Completers \cap {"cleanup", "close"} = {}

VARIABLES
  pending,       \* the callers in rr.pending
  routerClosed,  \* rr.closed
  id,            \* per caller: its request id, {} before it has one
  ch,            \* per caller: the results in its channel
  seen,          \* per caller: the pending response it read back in SendRequest
  call,          \* per caller: program counter of SendRequest
  carry          \* per sender of results: the callers it still has to send to

routerVars == <<pending, routerClosed, id, ch, seen, call, carry>>

Senders == Completers \cup {"cleanup", "close"}

RouterTypeOK ==
  /\ pending \subseteq Callers /\ routerClosed \in BOOLEAN
  /\ \A c \in Callers : id[c] \subseteq Ids /\ Cardinality(id[c]) <= 1 /\ seen[c] \subseteq Callers
  /\ \A c \in Callers : call[c] \in {"idle", "register", "reread", "send", "wait", "remove",
                                  "returned", "removed"}
  /\ carry \in [Senders -> SUBSET Callers]

RouterInit ==
  /\ pending = {} /\ routerClosed = FALSE
  /\ id = [c \in Callers |-> {}] /\ ch = [c \in Callers |-> <<>>]
  /\ seen = [c \in Callers |-> {}] /\ call = [c \in Callers |-> "idle"]
  /\ carry = [s \in Senders |-> {}]

-----------------------------------------------------------------------------
(* SendRequest *)

CallAt(c, p) == call' = [call EXCEPT ![c] = p]

\* The id of the call: NextRequestID gives none twice, but SendRequest takes any.
RequestID(c) ==
  /\ call[c] = "idle"
  /\ \E i \in Ids : id' = [id EXCEPT ![c] = {i}]
  /\ CallAt(c, "register") /\ UNCHANGED <<pending, routerClosed, ch, seen, carry>>

\* TryRegisterPending; an error returns.
TryRegisterPending(c) ==
  /\ call[c] = "register"
  /\ IF routerClosed \/ \E o \in pending : id[o] = id[c]
     THEN CallAt(c, "returned") /\ UNCHANGED pending
     ELSE CallAt(c, "reread") /\ pending' = pending \cup {c}
  /\ UNCHANGED <<routerClosed, id, ch, seen, carry>>

\* The second critical section reads the registration back by its id: if this call was completed
\* in between, that of another call which uses the id again.
Reread(c) ==
  /\ call[c] = "reread"
  /\ seen' = [seen EXCEPT ![c] = {o \in pending : id[o] = id[c]}]
  /\ CallAt(c, "send") /\ UNCHANGED <<pending, routerClosed, id, ch, carry>>

\* sendFn returns nil, or an error.
SendFn(c) ==
  /\ call[c] = "send"
  /\ CallAt(c, "wait") \/ CallAt(c, "remove")
  /\ UNCHANGED <<pending, routerClosed, id, ch, seen, carry>>

ReceiveResult(c) ==
  /\ call[c] = "wait" /\ ch[c] # <<>>
  /\ ch' = [ch EXCEPT ![c] = Tail(@)]
  /\ CallAt(c, "returned") /\ UNCHANGED <<pending, routerClosed, id, seen, carry>>

\* ctx.Done or the timer
GiveUp(c) ==
  /\ call[c] = "wait"
  /\ CallAt(c, "remove") /\ UNCHANGED <<pending, routerClosed, id, ch, seen, carry>>

\* removePending takes out the registration it was given, and only that one.
RemovePending(c) ==
  /\ call[c] = "remove"
  /\ pending' = pending \ seen[c]
  /\ CallAt(c, "removed") /\ UNCHANGED <<routerClosed, id, ch, seen, carry>>

-----------------------------------------------------------------------------
(* CompleteRequest, Cleanup and Close *)

Carry(s, set) == carry' = [carry EXCEPT ![s] = set]

\* Looking the request up and leaving it in the map
CompleteRequestMutant(s) ==
  /\ s \in Completers /\ carry[s] = {}
  /\ \E i \in Ids : Carry(s, {c \in pending : i \in id[c]})
  /\ UNCHANGED <<pending, routerClosed, id, ch, seen, call>>

CompleteRequest(s) ==
  /\ s \in Completers /\ carry[s] = {}
  /\ \E i \in Ids : LET found == {c \in pending : i \in id[c]} IN
                    Carry(s, found) /\ pending' = pending \ found
  /\ UNCHANGED <<routerClosed, id, ch, seen, call>>

\* The registrations whose deadline has passed
Cleanup ==
  /\ carry["cleanup"] = {}
  /\ \E expired \in SUBSET pending \ {{}} : Carry("cleanup", expired) /\ pending' = pending \ expired
  /\ UNCHANGED <<routerClosed, id, ch, seen, call>>

CloseRouter ==
  /\ ~routerClosed /\ routerClosed' = TRUE
  /\ Carry("close", pending) /\ pending' = {}
  /\ UNCHANGED <<id, ch, seen, call>>

\* The send on the channel, which has room for one result.
SendResult(s) ==
  /\ \E c \in carry[s] : /\ ch[c] = <<>>
                         /\ ch' = [ch EXCEPT ![c] = <<"result">>]
                         /\ Carry(s, carry[s] \ {c})
  /\ UNCHANGED <<pending, routerClosed, id, seen, call>>

-----------------------------------------------------------------------------
CallStep(c) ==
  \/ RequestID(c) \/ TryRegisterPending(c) \/ Reread(c) \/ SendFn(c) \/ ReceiveResult(c) \/ GiveUp(c)
  \/ RemovePending(c)

RouterNext ==
  \/ Cleanup \/ CloseRouter
  \/ \E c \in Callers : CallStep(c)
  \/ \E s \in Senders : CompleteRequest(s) \/ SendResult(s)

RouterSpec == RouterInit /\ [][RouterNext]_routerVars

-----------------------------------------------------------------------------
(* Properties *)

\* The results somebody has sent, is sending, or may still send to a caller
Owed(c) == Len(ch[c]) + Cardinality({s \in Senders : c \in carry[s]})
           + (IF c \in pending THEN 1 ELSE 0)

\* Another call of the same id read this caller's registration back as its own, and took it out
\* of the map when it failed or gave up.
Withdrawn(c) == \E d \in Callers \ {c} : call[d] = "removed" /\ id[d] = id[c] /\ c \in seen[d]

\* A response is not lost and not doubled, with duplicate and reused ids too: as long as a caller
\* waits, exactly one result is in its channel, on its way there, or can still be delivered to it,
\* whoever else completes, expires, closes or gives up, and a second call with its id does not
\* take its place ("重复 ID 不覆盖旧等待者").  The one exception needs an id that is used again: the
\* caller whose registration an earlier call of that id has taken for its own (Withdrawn).  Nobody
\* is ever owed two, so a sender of results never blocks on a full channel; and after Close none
\* is left registered.
WaiterServed ==
  /\ \A c \in Callers : /\ Owed(c) <= 1
                        /\ call[c] \in {"reread", "send", "wait"} => Owed(c) = 1 \/ Withdrawn(c)
  /\ routerClosed => pending = {}
=============================================================================

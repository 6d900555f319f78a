---------------------------- MODULE MCTransaction ---------------------------
(***************************************************************************)
(* TransactionCoordinator and Delivery for TLC.  They share no state, so a *)
(* behaviour is about one of them, which under names.  The fairness is     *)
(* that of FairSpec and FairDelivery, for the one that takes steps.        *)
(***************************************************************************)
EXTENDS TransactionCoordinator, Delivery

VARIABLE under

MCInit ==
  \/ under = "transaction" /\ Init /\ DeliveryInit /\ ~useTx
  \/ under = "delivery" /\ Init /\ fns = {} /\ DeliveryInit

\* A delivery may end with every message resolved: that is no deadlock.
MCNext ==
  \/ under = "transaction" /\ Next /\ UNCHANGED <<under, deliveryVars>>
  \/ under = "delivery" /\ DeliveryNext /\ UNCHANGED <<under, vars>>
  \/ under = "delivery" /\ UNCHANGED <<under, vars, deliveryVars>>

MCSpec ==
  /\ MCInit /\ [][MCNext]_<<under, vars, deliveryVars>>
  /\ \A c \in Callers : WF_vars(under = "transaction" /\ Step(c))
  /\ \A m \in Messages : WF_deliveryVars(under = "delivery" /\ BecomeDue(m))
  /\ WF_deliveryVars(under = "delivery" /\ SenderStep)
  /\ WF_deliveryVars(under = "delivery" /\ AckerStep)
  /\ \A h \in Handlers : WF_deliveryVars(under = "delivery" /\ HandlerStep(h))
=============================================================================

------------------------------ MODULE MCShared ------------------------------
(***************************************************************************)
(* The parts whose claims are about safety alone, for TLC: the etcd lock,  *)
(* with two lock objects of two processes that contend ("lock") and with   *)
(* one of a LockManager with its watchdog ("managed"), protocol            *)
(* negotiation, the request correlator, the service manager, the AOI grid  *)
(* and the log writer.  A behaviour is about the one that under names.     *)
(***************************************************************************)
EXTENDS EtcdLock, ProtocolNegotiation, RequestRouter, AsyncWriter

CONSTANTS N, MaxCalls,                                                      \* ServiceManager
          Entities, Xs, Ys, mapWidth, mapHeight, gridWidth, gridHeight      \* GridManager

VARIABLES under,
  deps, serviceState, serviceManager, serve, opened, managerCalls,
  entities, grids, events, view

serviceVars == <<deps, serviceState, serviceManager, serve, opened, managerCalls>>
aoiVars == <<entities, grids, events, view>>

Enabled(min, max, capabilities, acceptLegacy) ==
  [enabled |-> TRUE, min |-> min, max |-> max, capabilities |-> capabilities, acceptLegacy |-> acceptLegacy]

\* Overlapping and disjoint version ranges, with and without the fallback to legacy
MCPolicies == {Enabled(1, 2, {"x"}, FALSE), Enabled(2, 3, {"x", "y"}, TRUE), Enabled(3, 3, {"y"}, TRUE)}
              \cup {[Enabled(0, 0, {}, FALSE) EXCEPT !.enabled = FALSE]}

Kept == INSTANCE EtcdLock WITH Managed <- {1}
Services == INSTANCE ServiceManager WITH manager <- serviceManager
Aoi == INSTANCE GridManager WITH pending <- events

\* Two objects that are acquired once each, or one that is acquired again
AcquiredOnce == \A l \in Locks : gen[l] <= 1
FirstOnly == \A l \in Locks \ {1} : gen[l] = 0

\* Only the part a behaviour is about ranges over its initial states.
Init ==
  /\ under \in {"lock", "managed", "negotiation", "router", "services", "aoi", "log"}
  /\ IF under = "lock" THEN LockInit ELSE Kept!LockInit
  /\ RouterInit /\ Services!ServiceInit /\ Aoi!AoiInit /\ LogInit
  /\ NegotiationInit /\ (under # "negotiation" => \A e \in DOMAIN policy : ~policy[e].enabled)

Next ==
  \/ under = "lock" /\ LockNext /\ AcquiredOnce'
     /\ UNCHANGED <<under, negotiationVars, routerVars, serviceVars, aoiVars, logVars>>
  \/ under = "managed" /\ Kept!LockNext /\ FirstOnly'
     /\ UNCHANGED <<under, negotiationVars, routerVars, serviceVars, aoiVars, logVars>>
  \/ under = "negotiation" /\ NegotiationNext
     /\ UNCHANGED <<under, lockVars, routerVars, serviceVars, aoiVars, logVars>>
  \/ under = "router" /\ RouterNext
     /\ UNCHANGED <<under, lockVars, negotiationVars, serviceVars, aoiVars, logVars>>
  \/ under = "services" /\ Services!ServiceNext
     /\ UNCHANGED <<under, lockVars, negotiationVars, routerVars, aoiVars, logVars>>
  \/ under = "aoi" /\ Aoi!AoiNext
     /\ UNCHANGED <<under, lockVars, negotiationVars, routerVars, serviceVars, logVars>>
  \/ under = "log" /\ LogNext
     /\ UNCHANGED <<under, lockVars, negotiationVars, routerVars, serviceVars, aoiVars>>

Spec == Init /\ [][Next]_<<under, lockVars, negotiationVars, routerVars, serviceVars, aoiVars, logVars>>

-----------------------------------------------------------------------------
(* The properties of the parts that are instances, under the names they have there *)

\* Services are sorted by their dependencies and closed after their dependents (ServiceManager).
ClosedInOrder == under = "services" => Services!ClosedInOrder

\* The events of the grid tell every watcher exactly what it sees (GridManager).
ViewsExact == under = "aoi" => Aoi!ViewsExact
=============================================================================

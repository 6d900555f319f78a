--------------------------- MODULE ServiceManager ---------------------------
(***************************************************************************)
(* ServiceManager (zService/service_manager.go): services with declared    *)
(* dependencies, initialised and served in the order of a depth-first      *)
(* topological sort and closed in the reverse order.  One goroutine calls  *)
(* the manager; Serve runs in a goroutine per service, which sets the      *)
(* service Stopped when Serve returns.                                     *)
(***************************************************************************)
EXTENDS Naturals, Sequences, SequencesExt, FiniteSets

CONSTANTS N,          \* services 1..N, ordered as serviceIDKey orders their ids
          MaxCalls    \* calls of InitServices, ServeServices and CloseServices

Services == 1..N

VARIABLES
  deps,             \* serviceInfos: the declared dependencies of each registered service
  serviceState,     \* BaseService.state of each registered service
  manager,          \* [pc, list, initialized, closing]: where the manager's goroutine is
  serve,            \* the goroutine of each service: "none", "serving", "ending", "done"
  opened,           \* history: services whose latest Init succeeded and were not closed since
  managerCalls

serviceVars == <<deps, serviceState, manager, serve, opened, managerCalls>>

ServiceStates == {"created", "init", "running", "stopping", "stopped"}

Idle == [pc |-> "idle", list |-> <<>>, initialized |-> <<>>, closing |-> 0]

ServiceInit ==
  /\ deps = <<>> /\ serviceState = <<>>
  /\ manager = Idle /\ serve = [s \in Services |-> "none"]
  /\ opened = {} /\ managerCalls = 0

-----------------------------------------------------------------------------
(* topologicalSort *)

Sorted(ids) == SetToSortSeq(ids, <)

Enter(st, id) == [st EXCEPT !.temp = @ \cup {id}]

Leave(st, id) ==
  [st EXCEPT !.result = Append(@, id), !.temp = @ \ {id}, !.visited = @ \cup {id}]

\* dfs(id); st.err is the error that ends the sort.
RECURSIVE Dfs(_, _)
Dfs(st, id) ==
  CASE st.err # "nil"               -> st
    [] id \notin DOMAIN deps        -> [st EXCEPT !.err = "missing"]
    [] id \in st.temp               -> [st EXCEPT !.err = "cycle"]
    [] id \in st.visited            -> st
    [] OTHER -> LET below == FoldLeft(Dfs, Enter(st, id), Sorted(deps[id]))
                IN IF below.err # "nil" THEN below ELSE Leave(below, id)

TopologicalSort ==
  FoldLeft(Dfs, [visited |-> {}, temp |-> {}, result |-> <<>>, err |-> "nil"], Sorted(DOMAIN deps))

-----------------------------------------------------------------------------
AddService(s, d) ==
  /\ manager.pc = "idle" /\ s \notin DOMAIN deps
  /\ deps' = [x \in DOMAIN deps \cup {s} |-> IF x = s THEN d ELSE deps[x]]
  /\ serviceState' = [x \in DOMAIN deps' |-> IF x = s THEN "created" ELSE serviceState[x]]
  /\ UNCHANGED <<manager, serve, opened, managerCalls>>

\* The three operations sort first, and return the sort's error.
Call(pc) ==
  /\ manager.pc = "idle" /\ managerCalls < MaxCalls
  /\ managerCalls' = managerCalls + 1
  /\ manager' = IF TopologicalSort.err = "nil"
                THEN [Idle EXCEPT !.pc = pc, !.list = TopologicalSort.result] ELSE Idle
  /\ UNCHANGED <<deps, serviceState, serve, opened>>

Returns ==
  /\ manager.pc \in {"init", "serve", "close"} /\ manager.list = <<>>
  /\ manager' = Idle
  /\ UNCHANGED <<deps, serviceState, serve, opened, managerCalls>>

InitOne ==
  /\ manager.pc = "init" /\ manager.list # <<>>
  /\ LET s == Head(manager.list) IN
     \/ /\ serviceState[s] # "created"
        /\ manager' = [manager EXCEPT !.list = Tail(@)]
        /\ UNCHANGED <<serviceState, opened>>
     \/ /\ serviceState[s] = "created"                       \* Init returns nil
        /\ serviceState' = [serviceState EXCEPT ![s] = "init"]
        /\ manager' = [manager EXCEPT !.list = Tail(@), !.initialized = Append(@, s)]
        /\ opened' = opened \cup {s}
     \/ /\ serviceState[s] = "created"                       \* an error or a panic: roll back
        /\ manager' = [manager EXCEPT !.pc = "close", !.list = manager.initialized, !.initialized = <<>>]
        /\ UNCHANGED <<serviceState, opened>>
  /\ UNCHANGED <<deps, serve, managerCalls>>

ServeOne ==
  /\ manager.pc = "serve" /\ manager.list # <<>>
  /\ LET s == Head(manager.list) starts == serviceState[s] = "init" IN
     /\ serviceState' = IF starts THEN [serviceState EXCEPT ![s] = "running"] ELSE serviceState
     /\ serve' = IF starts THEN [serve EXCEPT ![s] = "serving"] ELSE serve
  /\ manager' = [manager EXCEPT !.list = Tail(@)]
  /\ UNCHANGED <<deps, opened, managerCalls>>

\* Serve returns or panics; the deferred function reads the state and then sets it.
ServeReturns(s) ==
  /\ serve[s] = "serving"
  /\ serve' = [serve EXCEPT ![s] = IF serviceState[s] = "running" THEN "ending" ELSE "done"]
  /\ UNCHANGED <<deps, serviceState, manager, opened, managerCalls>>

ServeEnds(s) ==
  /\ serve[s] = "ending"
  /\ serve' = [serve EXCEPT ![s] = "done"]
  /\ serviceState' = [serviceState EXCEPT ![s] = "stopped"]
  /\ UNCHANGED <<deps, manager, opened, managerCalls>>

\* Closing the first of the list first
NextToCloseMutant(list) == [service |-> Head(list), rest |-> Tail(list)]
NextToClose(list) == [service |-> Last(list), rest |-> Front(list)]

\* closeServices: Stopping, then Close.
CloseBegin ==
  /\ manager.pc = "close" /\ manager.list # <<>>
  /\ LET n == NextToClose(manager.list) IN
     IF serviceState[n.service] \in {"init", "running", "stopping"}
     THEN /\ serviceState' = [serviceState EXCEPT ![n.service] = "stopping"]
          /\ manager' = [manager EXCEPT !.pc = "closing", !.list = n.rest, !.closing = n.service]
     ELSE /\ manager' = [manager EXCEPT !.list = n.rest]
          /\ UNCHANGED serviceState
  /\ UNCHANGED <<deps, serve, opened, managerCalls>>

\* Close has returned, with or without an error.
CloseEnd ==
  /\ manager.pc = "closing"
  /\ LET s == manager.closing IN
     /\ serviceState' = [serviceState EXCEPT ![s] = "stopped"]
     /\ opened' = opened \ {s}
  /\ manager' = [manager EXCEPT !.pc = "close", !.closing = 0]
  /\ UNCHANGED <<deps, serve, managerCalls>>

InitServices == Call("init")
ServeServicesChecked == Call("serve")
CloseServices == Call("close")

ServiceNext ==
  \/ \E s \in Services, d \in SUBSET Services : AddService(s, d)
  \/ InitServices \/ ServeServicesChecked \/ CloseServices
  \/ InitOne \/ ServeOne \/ CloseBegin \/ CloseEnd \/ Returns
  \/ \E s \in Services : ServeReturns(s) \/ ServeEnds(s)

ServiceSpec == ServiceInit /\ [][ServiceNext]_serviceVars

-----------------------------------------------------------------------------
(* Properties *)

\* The relation "depends on, directly or not", by its definition: s reaches t along a path of
\* declared dependencies of at most N edges.
Reaches(s, t) ==
  \E k \in 1..N : \E p \in [1..k + 1 -> Services] :
    p[1] = s /\ p[k + 1] = t /\ \A i \in 1..k : p[i] \in DOMAIN deps /\ p[i + 1] \in deps[p[i]]

\* topologicalSort against its definition, for every graph that AddService can build
SortRight ==
  LET sort == TopologicalSort
      valid == /\ \A s \in DOMAIN deps : deps[s] \subseteq DOMAIN deps
               /\ \A s \in DOMAIN deps : ~Reaches(s, s)
  IN manager.pc = "idle" /\ managerCalls = 0 =>
       /\ (sort.err = "nil") <=> valid
       /\ valid => /\ ToSet(sort.result) = DOMAIN deps /\ Len(sort.result) = Cardinality(DOMAIN deps)
                   /\ \A i, j \in DOMAIN sort.result :
                        sort.result[j] \in deps[sort.result[i]] => j < i

\* topologicalSort succeeds exactly when every declared dependency is registered and no service
\* depends on itself, and then lists every service once, each after all it depends on.  And
\* "CloseServices closes in reverse topological order, so that what a service depends on is closed
\* after it", the rollback of a failed InitServices as well: while Close of a service runs, every
\* registered service that depends on it is down, also when services were added between the
\* calls, an initialisation failed and was retried, or a Serve returned by itself.
ClosedInOrder ==
  /\ SortRight
  /\ manager.pc = "closing" =>
       \A s \in DOMAIN deps :
         manager.closing \in deps[s] => serviceState[s] \notin {"init", "running", "stopping"}
=============================================================================

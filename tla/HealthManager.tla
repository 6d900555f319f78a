--------------------------- MODULE HealthManager ----------------------------
(***************************************************************************)
(* HealthManager (zHealth/manager.go): probes registered by name, rounds   *)
(* of probe calls (Refresh) with a timeout per call, statuses written by   *)
(* the application (UpdateStatus).  Each executeProbe is a call with two   *)
(* goroutines: the executor that waits for the outcome or the timeout, and *)
(* the goroutine in Check, which may return late or never.  A registration *)
(* makes a new entry; calls keep the entry they were started for.          *)
(***************************************************************************)
EXTENDS Naturals, Sequences, SequencesExt

CONSTANTS Names, Refreshers,
          MaxEntries,    \* registrations
          MaxCalls       \* probe calls that have not ended

Entries == 1..MaxEntries
Calls == 1..MaxCalls
None == 0
Statuses == {"healthy", "unhealthy"}

VARIABLES
  entries,     \* m.entries: the entry registered under each name, None without one
  entry,       \* each entry: [check, running, result], "unknown" before it has a result
  nextEntry,
  call,        \* each call: [entry, executor, check, outcome], the two goroutines' program counters
  refresh      \* each refresher: "idle", "wait" (for refreshMu), "run" (holding it)

healthVars == <<entries, entry, nextEntry, call, refresh>>

Free == [entry |-> None, executor |-> "none", check |-> "none", outcome |-> "unknown"]

HealthInit ==
  /\ entries = [n \in Names |-> None] /\ nextEntry = 1
  /\ entry = [e \in Entries |-> [check |-> FALSE, running |-> FALSE, result |-> "unknown"]]
  /\ call = [c \in Calls |-> Free] /\ refresh = [r \in Refreshers |-> "idle"]

Registered == {entries[n] : n \in Names} \ {None}

-----------------------------------------------------------------------------
(* Registration *)

NewEntry(n, check, result) ==
  /\ nextEntry \in Entries
  /\ entries' = [entries EXCEPT ![n] = nextEntry] /\ nextEntry' = nextEntry + 1
  /\ entry' = [entry EXCEPT ![nextEntry]  = [check |-> check, running |-> FALSE, result |-> result]]

\* A later registration with the same name replaces the entry.
RegisterProbe(n) ==
  /\ NewEntry(n, TRUE, "unknown")
  /\ UNCHANGED <<call, refresh>>

UnregisterCheck(n) ==
  /\ entries[n] # None /\ entries' = [entries EXCEPT ![n] = None]
  /\ UNCHANGED <<entry, nextEntry, call, refresh>>

\* UpdateStatus replaces the entry of a probe; one of its own it updates in place.
UpdateStatus(n) ==
  /\ \E s \in Statuses :
       IF entries[n] = None \/ entry[entries[n]].check
       THEN NewEntry(n, FALSE, s)
       ELSE /\ entry' = [entry EXCEPT ![entries[n]].result = s]
            /\ UNCHANGED <<entries, nextEntry>>
  /\ UNCHANGED <<call, refresh>>

-----------------------------------------------------------------------------
(* Refresh *)

RefreshCall(r) ==
  /\ refresh[r] = "idle" /\ refresh' = [refresh EXCEPT ![r] = "wait"]
  /\ UNCHANGED <<entries, entry, nextEntry, call>>

MayRun(e) == entry[e].check /\ ~entry[e].running

\* Under refreshMu and mu: the due entries are marked running and a call is started for each.
\* An entry that has never run is due; one that has run is due once its CacheTTL is over.
RefreshRound(r) ==
  /\ refresh[r] = "wait" /\ \A q \in Refreshers : refresh[q] # "run"
  /\ \E due \in SUBSET {e \in Registered : MayRun(e)} :
       /\ \A e \in Registered : MayRun(e) /\ entry[e].result = "unknown" => e \in due
       /\ entry' = [e \in Entries |-> IF e \in due THEN [entry[e] EXCEPT !.running = TRUE] ELSE entry[e]]
       /\ LET free == SetToSortSeq({c \in Calls : call[c] = Free}, <)
              started == SetToSortSeq(due, <)
          IN /\ Len(started) <= Len(free)
             /\ call' = [c \in Calls |->
                  IF \E i \in DOMAIN started : free[i] = c
                  THEN [Free EXCEPT !.entry = started[CHOOSE i \in DOMAIN started : free[i] = c],
                                    !.executor = "select", !.check = "calling"]
                  ELSE call[c]]
  /\ refresh' = [refresh EXCEPT ![r] = "run"]
  /\ UNCHANGED <<entries, nextEntry>>

\* wg.Wait, the report and the release of refreshMu
RefreshReturns(r) ==
  /\ refresh[r] = "run" /\ \A c \in Calls : call[c].executor \in {"none", "returned"}
  /\ refresh' = [refresh EXCEPT ![r] = "idle"]
  /\ UNCHANGED <<entries, entry, nextEntry, call>>

-----------------------------------------------------------------------------
(* executeProbe: the goroutine in Check *)

\* Check returns a status, an error or a panic; the outcome goes to the buffered resultCh.
CheckReturns(c) ==
  /\ call[c].check = "calling"
  /\ \E s \in Statuses :
       call' = [call EXCEPT ![c].check = "sent", ![c].outcome = IF call[c].executor = "returned" THEN @ ELSE s]
  /\ UNCHANGED <<entries, entry, nextEntry, refresh>>

\* It waits for snapshotRecorded, and only then gives up running and closes entry.done.
CheckEnds(c) ==
  /\ call[c].check = "sent" /\ call[c].executor \in {"waitDone", "returned"}
  /\ call' = [call EXCEPT ![c] = IF @.executor = "returned" THEN Free ELSE [@ EXCEPT !.check = "done"]]
  /\ entry' = [entry EXCEPT ![call[c].entry].running = FALSE]
  /\ UNCHANGED <<entries, nextEntry, refresh>>

(* executeProbe: the executor *)

Record(c, status) ==
  /\ entry' = [entry EXCEPT ![call[c].entry].result = status]
  /\ UNCHANGED <<entries, nextEntry, refresh>>

\* The outcome arrives first: it is recorded, and the executor waits for entry.done.
ExecutorReceives(c) ==
  /\ call[c].executor = "select" /\ call[c].check = "sent"
  /\ call' = [call EXCEPT ![c].executor = "waitDone", ![c].outcome = "unknown"]
  /\ Record(c, call[c].outcome)

\* Waiting for the goroutine in Check also after the timeout
ExecutorTimesOutMutant(c) ==
  /\ call[c].executor = "select"
  /\ call' = [call EXCEPT ![c].executor = "waitDone"]
  /\ Record(c, "unhealthy")

\* The timeout, or the caller's context, fires first; the executor does not wait for Check.
ExecutorTimesOut(c) ==
  /\ call[c].executor = "select"
  /\ call' = [call EXCEPT ![c].executor = "returned"]
  /\ Record(c, "unhealthy")

ExecutorDone(c) ==
  /\ call[c].executor = "waitDone" /\ call[c].check = "done"
  /\ call' = [call EXCEPT ![c] = Free]
  /\ UNCHANGED <<entries, entry, nextEntry, refresh>>

-----------------------------------------------------------------------------
ExecutorStep(c) == ExecutorReceives(c) \/ ExecutorTimesOut(c) \/ ExecutorDone(c)

HealthNext ==
  \/ \E n \in Names : RegisterProbe(n) \/ UnregisterCheck(n) \/ UpdateStatus(n)
  \/ \E r \in Refreshers : RefreshCall(r) \/ RefreshRound(r) \/ RefreshReturns(r)
  \/ \E c \in Calls : CheckReturns(c) \/ CheckEnds(c) \/ ExecutorStep(c)

\* Timeouts fire and goroutines run; Check itself may never return.
HealthFairness ==
  /\ \A c \in Calls : WF_healthVars(ExecutorStep(c)) /\ WF_healthVars(CheckEnds(c))
  /\ \A r \in Refreshers : WF_healthVars(RefreshReturns(r))

HealthSpec == HealthInit /\ [][HealthNext]_healthVars /\ HealthFairness

-----------------------------------------------------------------------------
(* Properties *)

\* At most one call of a probe is in flight: a Check that outlived its timeout keeps its entry from
\* being called again until it has returned, whatever rounds other goroutines refresh meanwhile
\* (TestHealthManager_TimedOutProbeDoesNotOverlap asks it of the rounds of one goroutine).
OneInFlight ==
  \A c, d \in Calls :
    call[c].entry = call[d].entry /\ call[c].check = "calling" /\ call[d].check = "calling" => c = d

\* A round ends although a probe hangs: its timeout is recorded and Refresh returns, so that the
\* next round is not held up on refreshMu; and the hanging call stays the only one of its probe.
RoundEnds ==
  /\ []OneInFlight
  /\ (\E r \in Refreshers : refresh[r] = "run") ~> (\A r \in Refreshers : refresh[r] # "run")
=============================================================================

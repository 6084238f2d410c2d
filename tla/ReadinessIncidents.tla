------------------------- MODULE ReadinessIncidents -------------------------
(***************************************************************************)
(* Readiness snapshots of one workspace and the regression incident that   *)
(* is derived from them.                                                   *)
(*                                                                         *)
(* Evaluators are the calls of evaluateAndPersistReadiness: an API request *)
(* of the customer or of an administrator, or the hourly fleet evaluation. *)
(* Monitors are the runs of evaluateReadinessRegressions, each a process   *)
(* of its own.  Every lock, row and query they use is keyed by workspace,  *)
(* so one workspace is modelled.                                           *)
(*                                                                         *)
(* A snapshot is identified by its created_at, which is the start of the   *)
(* transaction that inserted it (the column's default is NOW()).           *)
(* last_detected_at of the incident is always the created_at of its        *)
(* latest_snapshot_id and is not kept a second time.                       *)
(***************************************************************************)
EXTENDS Naturals, FiniteSets

CONSTANTS
    Evaluators,        \* concurrent calls of evaluateAndPersistReadiness
    Monitors,          \* concurrent runs of the regression monitor
    MaxSnapshots,      \* bound of the model: transactions that may begin
    MinimumSnapshots   \* snapshots that pruning always keeps

ASSUME MaxSnapshotsAssumption == MaxSnapshots \in Nat
ASSUME MinimumSnapshotsAssumption == MinimumSnapshots \in Nat \ {0}

VARIABLES
    live,       \* the verdict an evaluation of the workspace would reach now
    clock,      \* NOW(): advances when a snapshot transaction begins
    evaluator,  \* evaluator[e]: the report an evaluator carries
    snapshots,  \* the rows of onboarding_readiness_snapshots
    monitor,    \* monitor[m]: the snapshot row a monitor run has loaded
    reached,    \* whether the latest run of the monitor got to the workspace
    incident,   \* the row of readiness_regression_incidents, or NoIncident
    counted     \* history: the snapshots that have added to occurrences

incidentVars ==
    <<live, clock, evaluator, snapshots, monitor, reached, incident, counted>>

-----------------------------------------------------------------------------
Verdict == {"ready", "blocked"}

Stamp == 1 .. MaxSnapshots

Snapshot == [at: Stamp, verdict: Verdict, previous: Verdict \cup {"none"},
             transitioned: BOOLEAN]

Active == {"open", "acknowledged"}

Incident == [status: {"none", "resolved"} \cup Active, first: 0 .. MaxSnapshots,
             latest: 0 .. MaxSnapshots, occurrences: Nat,
             resolvedBy: {"none", "system", "operator"}]

NoIncident == [status |-> "none", first |-> 0, latest |-> 0,
               occurrences |-> 0, resolvedBy |-> "none"]

Evaluation == [phase: {"idle", "evaluated", "begun"}, verdict: Verdict,
               at: 0 .. MaxSnapshots]

IdleEvaluator == [phase |-> "idle", verdict |-> "blocked", at |-> 0]

IdleMonitor == [phase |-> "idle", row |-> [at |-> 0, verdict |-> "blocked",
                previous |-> "none", transitioned |-> FALSE]]

\* Faulty variant of IsLatest: the ORDER BY is lost.
AnySnapshot(s) == s \in snapshots

\* ORDER BY created_at DESC LIMIT 1.
IsLatest(s) == s \in snapshots /\ \A t \in snapshots : t.at <= s.at

\* classifyReadinessSnapshot: the transition that opens an incident.
TransitionedToBlocked(s) ==
    s.transitioned /\ s.previous = "ready" /\ s.verdict = "blocked"

TypeOK ==
    /\ live \in Verdict
    /\ clock \in 0 .. MaxSnapshots
    /\ evaluator \in [Evaluators -> Evaluation]
    /\ snapshots \in SUBSET Snapshot
    /\ monitor \in [Monitors ->
         [phase: {"idle", "loaded"}, row: Snapshot \cup {IdleMonitor.row}]]
    /\ reached \in BOOLEAN
    /\ incident \in Incident
    /\ counted \in SUBSET Stamp

Init ==
    /\ live \in Verdict
    /\ clock = 0
    /\ evaluator = [e \in Evaluators |-> IdleEvaluator]
    /\ snapshots = {}
    /\ monitor = [m \in Monitors |-> IdleMonitor]
    /\ reached = FALSE
    /\ incident = NoIncident
    /\ counted = {}

-----------------------------------------------------------------------------
(* Snapshots                                                               *)

\* The workspace changes: a connection breaks, a mapping is approved, a sync
\* completes.
WorkspaceChanges ==
    /\ live' \in Verdict \ {live}
    /\ UNCHANGED <<clock, evaluator, snapshots, monitor, reached, incident, counted>>

\* evaluateWorkspaceOnboardingReadiness: the report is computed before any
\* transaction or lock is taken.
EvaluateReadiness(e) ==
    /\ evaluator[e].phase = "idle"
    /\ evaluator' = [evaluator EXCEPT ![e] =
                       [phase |-> "evaluated", verdict |-> live, at |-> 0]]
    /\ UNCHANGED <<live, clock, snapshots, monitor, reached, incident, counted>>

\* withTransaction: BEGIN fixes NOW() for the whole transaction, before the
\* advisory lock of the workspace is waited for.
BeginSnapshot(e) ==
    /\ evaluator[e].phase = "evaluated"
    /\ clock < MaxSnapshots
    /\ clock' = clock + 1
    /\ evaluator' = [evaluator EXCEPT ![e] =
         [phase |-> "begun", verdict |-> evaluator[e].verdict, at |-> clock + 1]]
    /\ UNCHANGED <<live, snapshots, monitor, reached, incident, counted>>

\* previous_ready: the verdict of the latest row, or NULL.
PreviousReady(p) ==
    \/ snapshots = {} /\ p = "none"
    \/ \E s \in snapshots : IsLatest(s) /\ p = s.verdict

\* Under the advisory lock: read the latest row, insert, commit.
PersistReadinessSnapshot(e) ==
    LET report == evaluator[e] IN
    /\ report.phase = "begun"
    /\ \E p \in Verdict \cup {"none"} :
         /\ PreviousReady(p)
         /\ snapshots' = snapshots \cup
              {[at |-> report.at, verdict |-> report.verdict, previous |-> p,
                transitioned |-> p # "none" /\ p # report.verdict]}
    /\ evaluator' = [evaluator EXCEPT ![e] = IdleEvaluator]
    /\ UNCHANGED <<live, clock, monitor, reached, incident, counted>>

\* A query fails or the process dies: the transaction is rolled back.
EvaluatorFails(e) ==
    /\ evaluator[e].phase # "idle"
    /\ evaluator' = [evaluator EXCEPT ![e] = IdleEvaluator]
    /\ UNCHANGED <<live, clock, snapshots, monitor, reached, incident, counted>>

\* pruneReadinessSnapshots with --apply: one DELETE of every row that is older
\* than the retention, ranked behind the newest ones and no transition.  The
\* foreign keys are ON DELETE RESTRICT, so one referenced candidate aborts it
\* (the deliveries, which also refer to snapshots, can only abort it more often).
PruneReadinessSnapshots ==
    /\ \E cutoff \in 1 .. clock :
         LET rank(s) == Cardinality({t \in snapshots : t.at >= s.at})
             candidates == {s \in snapshots : /\ rank(s) > MinimumSnapshots
                                              /\ s.at < cutoff
                                              /\ ~s.transitioned}
         IN /\ \A s \in candidates : s.at \notin {incident.first, incident.latest}
            /\ snapshots' = snapshots \ candidates
    /\ UNCHANGED <<live, clock, evaluator, monitor, reached, incident, counted>>

-----------------------------------------------------------------------------
(* The regression monitor                                                  *)

\* loadLatestSnapshots: read before, and outside of, the incident's lock.
LoadLatestSnapshot(m) ==
    /\ monitor[m].phase = "idle"
    /\ \E s \in snapshots :
         /\ IsLatest(s)
         /\ monitor' = [monitor EXCEPT ![m] = [phase |-> "loaded", row |-> s]]
    /\ UNCHANGED <<live, clock, evaluator, snapshots, reached, incident, counted>>

\* Faulty variant of ResolveRecovered: latest_snapshot_id is not moved.
ResolveKeepsSnapshot(row) ==
    /\ row.verdict = "ready"
    /\ incident' = IF incident.status \in Active
                     THEN [incident EXCEPT !.status = "resolved", !.resolvedBy = "system"]
                     ELSE incident
    /\ UNCHANGED counted

\* A ready row resolves an active incident and changes nothing else.
ResolveRecovered(row) ==
    /\ row.verdict = "ready"
    /\ IF incident.status \in Active
         THEN incident' = [incident EXCEPT !.status = "resolved",
                             !.latest = row.at, !.resolvedBy = "system"]
         ELSE UNCHANGED incident
    /\ UNCHANGED counted

\* A blocked row that is no transition changes nothing.
LeaveBlocked(row) ==
    /\ row.verdict = "blocked"
    /\ ~TransitionedToBlocked(row)
    /\ UNCHANGED <<incident, counted>>

\* Faulty variants of UpsertRegression: without the IS DISTINCT FROM guard, with
\* ON CONFLICT DO NOTHING, and storing the returned action as the status.
UpsertUnguarded(row) ==
    /\ TransitionedToBlocked(row)
    /\ incident' = [status |-> "open",
                    first |-> IF incident.status = "none" THEN row.at ELSE incident.first,
                    latest |-> row.at, occurrences |-> incident.occurrences + 1,
                    resolvedBy |-> "none"]
    /\ counted' = counted \cup {row.at}

InsertOnly(row) ==
    /\ TransitionedToBlocked(row)
    /\ IF incident.status # "none"
         THEN UNCHANGED <<incident, counted>>
         ELSE UpsertUnguarded(row)

UpsertActionAsStatus(row) ==
    /\ TransitionedToBlocked(row)
    /\ incident' = [incident EXCEPT !.status = "reopened", !.latest = row.at]
    /\ UNCHANGED counted

\* INSERT ... ON CONFLICT (workspace_id) DO UPDATE ... WHERE latest_snapshot_id
\* IS DISTINCT FROM the row's.
UpsertRegression(row) ==
    /\ TransitionedToBlocked(row)
    /\ IF incident.latest = row.at
         THEN UNCHANGED <<incident, counted>>
         ELSE /\ incident' =
                   [status |-> "open",
                    first |-> IF incident.status = "none" THEN row.at ELSE incident.first,
                    latest |-> row.at, occurrences |-> incident.occurrences + 1,
                    resolvedBy |-> "none"]
              /\ counted' = counted \cup {row.at}

\* persistWorkspaceState: one transaction under the advisory lock of the
\* workspace.  If the row was pruned meanwhile, the foreign key refuses the write.
PersistWorkspaceState(m) ==
    LET row == monitor[m].row IN
    /\ monitor[m].phase = "loaded"
    /\ \/ row \in snapshots /\ ResolveRecovered(row)
       \/ row \in snapshots /\ LeaveBlocked(row)
       \/ row \in snapshots /\ UpsertRegression(row)
       \/ row \notin snapshots /\ UNCHANGED <<incident, counted>>
    /\ monitor' = [monitor EXCEPT ![m] = IdleMonitor]
    /\ reached' = TRUE
    /\ UNCHANGED <<live, clock, evaluator, snapshots>>

\* The transaction of this workspace, or of one before it in the result, throws:
\* the loop of the run ends there.
MonitorFails(m) ==
    /\ monitor[m].phase = "loaded"
    /\ monitor' = [monitor EXCEPT ![m] = IdleMonitor]
    /\ reached' = FALSE
    /\ UNCHANGED <<live, clock, evaluator, snapshots, incident, counted>>

\* A run that does not load the workspace: its newest snapshot is behind LIMIT
\* in the order of created_at, or the query itself fails.
MonitorPassesOver(m) ==
    /\ monitor[m].phase = "idle"
    /\ reached' = FALSE
    /\ UNCHANGED <<live, clock, evaluator, snapshots, monitor, incident, counted>>

-----------------------------------------------------------------------------
(* transitionReadinessRegressionIncident: an operator acts on the incident *)

AcknowledgeIncident ==
    /\ incident.status \in Active
    /\ incident' = [incident EXCEPT !.status = "acknowledged"]
    /\ UNCHANGED <<live, clock, evaluator, snapshots, monitor, reached, counted>>

ResolveIncident ==
    /\ incident.status \in Active
    /\ incident' = [incident EXCEPT !.status = "resolved", !.resolvedBy = "operator"]
    /\ UNCHANGED <<live, clock, evaluator, snapshots, monitor, reached, counted>>

-----------------------------------------------------------------------------
EvaluatorStep(e) ==
    \/ EvaluateReadiness(e)
    \/ BeginSnapshot(e)
    \/ PersistReadinessSnapshot(e)
    \/ EvaluatorFails(e)

MonitorStep(m) ==
    \/ LoadLatestSnapshot(m)
    \/ PersistWorkspaceState(m)
    \/ MonitorFails(m)
    \/ MonitorPassesOver(m)

OperatorStep == AcknowledgeIncident \/ ResolveIncident

Next ==
    \/ WorkspaceChanges
    \/ \E e \in Evaluators : EvaluatorStep(e)
    \/ \E m \in Monitors : MonitorStep(m)
    \/ OperatorStep
    \/ PruneReadinessSnapshots

Spec == Init /\ [][Next]_incidentVars

\* The hourly timer starts a run again and again, and every run ends.  Nothing
\* makes a run get to this workspace.
MonitorFairness ==
    \A m \in Monitors :
        /\ WF_incidentVars(LoadLatestSnapshot(m) \/ MonitorPassesOver(m))
        /\ WF_incidentVars(PersistWorkspaceState(m) \/ MonitorFails(m))

FairSpec == Spec /\ MonitorFairness

-----------------------------------------------------------------------------
(* Properties                                                              *)

\* occurrences counts distinct ready -> blocked snapshots, each of them once,
\* and pruning never deletes one that was counted.  The upsert only compares
\* with latest_snapshot_id, so this rests on the order in which rows are loaded.
OccurrencesCountRegressions ==
    /\ incident.occurrences = Cardinality(counted)
    /\ \A at \in counted :
         \E s \in snapshots : s.at = at /\ TransitionedToBlocked(s)

\* An incident that the monitor resolved points at a snapshot that was ready:
\* no blocked row, and no row that pruning has deleted, closes an incident.
SystemResolutionIsReady ==
    incident.resolvedBy = "system" =>
        /\ incident.status = "resolved"
        /\ \E s \in snapshots : s.at = incident.latest /\ s.verdict = "ready"

\* The incident's readers see the life cycle they rely on: it never goes back to
\* an older snapshot, a regression is counted once and only after everything
\* recorded before it, and a resolved incident is reopened by nothing else.
Lifecycle == INSTANCE IncidentLifecycle WITH
    status <- incident.status, latest <- incident.latest

ImplementsLifecycle == Lifecycle!LifecycleSpec

\* A regression that stays the newest snapshot is recorded, by the first run that
\* gets to the workspace after it if not before: the monitor can lose it only by
\* never again getting to the workspace (behind LIMIT, or behind a workspace whose
\* transaction throws, in every run from some run on).
LatestRegressionIsRecorded ==
    \A at \in Stamp :
        (\E s \in snapshots : s.at = at /\ IsLatest(s) /\ TransitionedToBlocked(s))
            ~> (\/ incident.latest >= at
                \/ \E s \in snapshots : s.at > at
                \/ []~reached)

\* What docs/ONBOARDING_READINESS_HISTORY.md says of the per-workspace lock: in
\* the order of the history, every row's previous_ready is the verdict of the
\* row before it.
HistoryIsOrdered ==
    \A s \in snapshots, t \in snapshots :
        (/\ s.at < t.at
         /\ ~\E u \in snapshots : s.at < u.at /\ u.at < t.at) => t.previous = s.verdict
=============================================================================

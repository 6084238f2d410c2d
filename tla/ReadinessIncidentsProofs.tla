----------------------- MODULE ReadinessIncidentsProofs -----------------------
(***************************************************************************)
(* Proofs about ReadinessIncidents for every set of evaluators, every bound *)
(* on the snapshots and every MinimumSnapshots.                            *)
(*                                                                         *)
(* Type correctness and SystemResolutionIsReady hold with any number of    *)
(* monitors.  What depends on the order in which rows are loaded holds when *)
(* no two runs of the monitor overlap (OneMonitor), which is what the      *)
(* lock file of the timer's script provides on one host.                   *)
(***************************************************************************)
EXTENDS ReadinessIncidents, FiniteSetTheorems, TLAPS

\* No two runs of evaluateReadinessRegressions overlap.
OneMonitor == \A m, n \in Monitors : m = n

-----------------------------------------------------------------------------
(* Type correctness                                                        *)

\* An evaluator inside its transaction has a created_at, a loaded monitor a row.
CarriedValues ==
    /\ \A e \in Evaluators : evaluator[e].phase = "begun" => evaluator[e].at \in Stamp
    /\ \A m \in Monitors : monitor[m].phase = "loaded" => monitor[m].row \in Snapshot

TypeInv == TypeOK /\ CarriedValues

\* The initial state has the right types.
LEMMA InitTypeInv == Init => TypeInv
<1> SUFFICES ASSUME Init PROVE TypeInv
  OBVIOUS
<1>1. reached \in BOOLEAN
  BY DEF Init
<1> QED
  BY <1>1, MaxSnapshotsAssumption
  DEF Init, TypeInv, TypeOK, CarriedValues, IdleEvaluator, IdleMonitor, NoIncident,
      Verdict, Active, Stamp, Evaluation, Incident

\* What the monitor's transaction does to the incident keeps its type.
LEMMA PersistTypeInv ==
  ASSUME NEW m \in Monitors, TypeInv, PersistWorkspaceState(m)
  PROVE  TypeInv'
<1> DEFINE row == monitor[m].row
<1> USE DEF Stamp, Active, Verdict
<1>1. row \in Snapshot /\ row.at \in 1 .. MaxSnapshots
  BY DEF TypeInv, CarriedValues, PersistWorkspaceState, Snapshot
<1>2. UNCHANGED <<live, clock, evaluator, snapshots>> /\ reached' \in BOOLEAN
  BY DEF PersistWorkspaceState
<1>3. /\ monitor' \in [Monitors -> [phase: {"idle", "loaded"},
                                   row: Snapshot \cup {IdleMonitor.row}]]
      /\ \A n \in Monitors : monitor'[n].phase = "loaded" => monitor'[n].row \in Snapshot
  BY DEF TypeInv, TypeOK, CarriedValues, PersistWorkspaceState, IdleMonitor
<1>4. incident' \in Incident /\ counted' \in SUBSET Stamp
  <2> HIDE DEF row
  <2>1. incident \in Incident /\ counted \in SUBSET Stamp
    BY DEF TypeInv, TypeOK
  <2>a. row.at \in 0 .. MaxSnapshots
    BY <1>1, MaxSnapshotsAssumption
  <2>2. CASE ResolveRecovered(row)
    <3>1. CASE incident.status \in Active
      <4>1. incident' = [incident EXCEPT !.status = "resolved", !.latest = row.at,
                                        !.resolvedBy = "system"]
        BY <2>2, <3>1 DEF ResolveRecovered
      <4>2. incident' \in Incident
        BY <2>1, <2>a, <4>1 DEF Incident
      <4> QED BY <2>1, <2>2, <4>2 DEF ResolveRecovered
    <3>2. CASE incident.status \notin Active
      BY <2>1, <2>2, <3>2 DEF ResolveRecovered
    <3> QED BY <3>1, <3>2
  <2>3. CASE LeaveBlocked(row)
    BY <2>1, <2>3 DEF LeaveBlocked
  <2>4. CASE UpsertRegression(row)
    <3>1. CASE incident.latest = row.at
      BY <2>1, <2>4, <3>1 DEF UpsertRegression
    <3>2. CASE incident.latest # row.at
      <4> DEFINE first == IF incident.status = "none" THEN row.at ELSE incident.first
      <4>1. first \in 0 .. MaxSnapshots /\ incident.occurrences + 1 \in Nat
        BY <2>1, <2>a DEF Incident
      <4>2. /\ incident' = [status |-> "open", first |-> first, latest |-> row.at,
                            occurrences |-> incident.occurrences + 1, resolvedBy |-> "none"]
            /\ counted' = counted \cup {row.at}
        BY <2>4, <3>2 DEF UpsertRegression
      <4> HIDE DEF first
      <4>3. incident' \in Incident
        BY <2>a, <4>1, <4>2 DEF Incident
      <4> QED BY <1>1, <2>1, <4>2, <4>3
    <3> QED BY <3>1, <3>2
  <2>5. CASE UNCHANGED <<incident, counted>>
    BY <2>1, <2>5
  <2> QED BY <2>2, <2>3, <2>4, <2>5 DEF PersistWorkspaceState, row
<1> QED BY <1>2, <1>3, <1>4 DEF TypeInv, TypeOK, CarriedValues, Snapshot

\* Every step of Next keeps the types.
LEMMA NextTypeInv == TypeInv /\ [Next]_incidentVars => TypeInv'
<1> SUFFICES ASSUME TypeInv, [Next]_incidentVars PROVE TypeInv'
  OBVIOUS
<1>1. CASE WorkspaceChanges
  BY <1>1 DEF WorkspaceChanges, TypeInv, TypeOK, CarriedValues, Verdict
<1>2. ASSUME NEW e \in Evaluators, EvaluateReadiness(e) PROVE TypeInv'
  <2>1. evaluator' \in [Evaluators -> Evaluation]
    BY <1>2, MaxSnapshotsAssumption DEF EvaluateReadiness, TypeInv, TypeOK, Evaluation
  <2> QED BY <1>2, <2>1 DEF EvaluateReadiness, TypeInv, TypeOK, CarriedValues
<1>3. ASSUME NEW e \in Evaluators, BeginSnapshot(e) PROVE TypeInv'
  <2>1. clock' \in 1 .. MaxSnapshots /\ clock' \in 0 .. MaxSnapshots
    BY <1>3, MaxSnapshotsAssumption DEF BeginSnapshot, TypeInv, TypeOK
  <2>2. evaluator' \in [Evaluators -> Evaluation]
    BY <1>3, <2>1 DEF BeginSnapshot, TypeInv, TypeOK, Evaluation
  <2>3. \A d \in Evaluators : evaluator'[d].phase = "begun" => evaluator'[d].at \in Stamp
    BY <1>3, <2>1 DEF BeginSnapshot, TypeInv, TypeOK, CarriedValues, Stamp
  <2> QED BY <1>3, <2>1, <2>2, <2>3 DEF BeginSnapshot, TypeInv, TypeOK, CarriedValues
<1>4. ASSUME NEW e \in Evaluators, PersistReadinessSnapshot(e) PROVE TypeInv'
  <2>1. snapshots' \in SUBSET Snapshot
    <3>1. /\ evaluator[e].at \in Stamp /\ evaluator[e].verdict \in Verdict
          /\ snapshots \in SUBSET Snapshot
      BY <1>4 DEF PersistReadinessSnapshot, TypeInv, TypeOK, CarriedValues, Evaluation
    <3>2. PICK p \in Verdict \cup {"none"} :
            snapshots' = snapshots \cup
              {[at |-> evaluator[e].at, verdict |-> evaluator[e].verdict, previous |-> p,
                transitioned |-> p # "none" /\ p # evaluator[e].verdict]}
      BY <1>4 DEF PersistReadinessSnapshot
    <3>3. [at |-> evaluator[e].at, verdict |-> evaluator[e].verdict, previous |-> p,
           transitioned |-> p # "none" /\ p # evaluator[e].verdict] \in Snapshot
      <4> DEFINE t == p # "none" /\ p # evaluator[e].verdict
      <4>1. t \in BOOLEAN
        OBVIOUS
      <4> HIDE DEF t
      <4> QED BY <3>1, <4>1 DEF Snapshot, t
    <3> QED BY <3>1, <3>2, <3>3
  <2>2. evaluator' = [evaluator EXCEPT ![e] = IdleEvaluator]
    BY <1>4 DEF PersistReadinessSnapshot
  <2>3. IdleEvaluator \in Evaluation
    BY MaxSnapshotsAssumption DEF IdleEvaluator, Evaluation, Verdict
  <2> QED BY <1>4, <2>1, <2>2, <2>3
          DEF PersistReadinessSnapshot, TypeInv, TypeOK, CarriedValues, IdleEvaluator
<1>5. ASSUME NEW e \in Evaluators, EvaluatorFails(e) PROVE TypeInv'
  <2>1. IdleEvaluator \in Evaluation
    BY MaxSnapshotsAssumption DEF IdleEvaluator, Evaluation, Verdict
  <2> QED BY <1>5, <2>1 DEF EvaluatorFails, TypeInv, TypeOK, CarriedValues, IdleEvaluator
<1>6. ASSUME NEW m \in Monitors, LoadLatestSnapshot(m) PROVE TypeInv'
  BY <1>6 DEF LoadLatestSnapshot, IsLatest, TypeInv, TypeOK, CarriedValues
<1>7. ASSUME NEW m \in Monitors, PersistWorkspaceState(m) PROVE TypeInv'
  BY <1>7, PersistTypeInv
<1>8. ASSUME NEW m \in Monitors, MonitorFails(m) \/ MonitorPassesOver(m) PROVE TypeInv'
  <2>1. reached' \in BOOLEAN
    BY <1>8 DEF MonitorFails, MonitorPassesOver
  <2> QED
    BY <1>8, <2>1 DEF MonitorFails, MonitorPassesOver, TypeInv, TypeOK, CarriedValues, IdleMonitor
<1>9. CASE OperatorStep
  BY <1>9 DEF OperatorStep, AcknowledgeIncident, ResolveIncident, TypeInv, TypeOK,
              CarriedValues, Active, Incident
<1>10. CASE PruneReadinessSnapshots
  BY <1>10 DEF PruneReadinessSnapshots, TypeInv, TypeOK, CarriedValues
<1>11. CASE UNCHANGED incidentVars
  BY <1>11 DEF incidentVars, TypeInv, TypeOK, CarriedValues
<1> QED BY <1>1, <1>2, <1>3, <1>4, <1>5, <1>6, <1>7, <1>8, <1>9, <1>10, <1>11
        DEF Next, EvaluatorStep, MonitorStep

\* The variables of the snapshot and incident tables, and what evaluators and
\* monitors carry between their transactions, always have their types.
THEOREM TypeCorrect == Spec => []TypeOK
<1>1. Spec => []TypeInv
  BY InitTypeInv, NextTypeInv, PTL DEF Spec
<1>2. TypeInv => TypeOK
  BY DEF TypeInv
<1> QED BY <1>1, <1>2, PTL

-----------------------------------------------------------------------------
(* System resolution, with any number of monitors                          *)

ResolutionInv == TypeInv /\ SystemResolutionIsReady

\* A row that the incident refers to survives every step that leaves the
\* incident alone: rows are only added, or pruned when nothing refers to them.
LEMMA RowsSurvive ==
  ASSUME TypeInv, [Next]_incidentVars, UNCHANGED incident,
         NEW s \in snapshots, s.at \in {incident.first, incident.latest}
  PROVE  s \in snapshots'
<1>1. CASE PruneReadinessSnapshots
  BY <1>1 DEF PruneReadinessSnapshots
<1>2. CASE UNCHANGED snapshots
  BY <1>2
<1>3. ASSUME NEW e \in Evaluators, PersistReadinessSnapshot(e) PROVE s \in snapshots'
  BY <1>3 DEF PersistReadinessSnapshot
<1> QED BY <1>1, <1>2, <1>3
        DEF Next, EvaluatorStep, MonitorStep, OperatorStep, WorkspaceChanges,
            EvaluateReadiness, BeginSnapshot, EvaluatorFails, LoadLatestSnapshot,
            PersistWorkspaceState, MonitorFails, MonitorPassesOver, AcknowledgeIncident, ResolveIncident,
            incidentVars

\* The incident is written by the monitor's transaction and by an operator only.
LEMMA IncidentWriters ==
  ASSUME [Next]_incidentVars
  PROVE  \/ UNCHANGED <<incident, counted>>
         \/ \E m \in Monitors : PersistWorkspaceState(m)
         \/ OperatorStep
  BY DEF Next, EvaluatorStep, MonitorStep, WorkspaceChanges,
         EvaluateReadiness, BeginSnapshot, PersistReadinessSnapshot, EvaluatorFails,
         LoadLatestSnapshot, MonitorFails, MonitorPassesOver, PruneReadinessSnapshots, incidentVars

\* Whoever runs concurrently, an incident that the monitor resolved points at a
\* snapshot that was ready: a blocked row or a pruned one never closes it.
THEOREM SystemResolution == Spec => []SystemResolutionIsReady
<1>1. Init => ResolutionInv
  BY InitTypeInv DEF Init, ResolutionInv, SystemResolutionIsReady, NoIncident
<1>2. ResolutionInv /\ [Next]_incidentVars => ResolutionInv'
  <2> SUFFICES ASSUME ResolutionInv, [Next]_incidentVars
               PROVE  SystemResolutionIsReady'
    BY NextTypeInv DEF ResolutionInv
  <2>0. incident \in Incident
    BY DEF ResolutionInv, TypeInv, TypeOK
  <2>1. CASE UNCHANGED <<incident, counted>>
    <3> SUFFICES ASSUME incident.resolvedBy = "system"
                 PROVE  \E s \in snapshots' : s.at = incident.latest /\ s.verdict = "ready"
      BY <2>1 DEF SystemResolutionIsReady, ResolutionInv
    <3>1. PICK s \in snapshots : s.at = incident.latest /\ s.verdict = "ready"
      BY DEF SystemResolutionIsReady, ResolutionInv
    <3>2. s \in snapshots'
      BY <2>1, <3>1, RowsSurvive DEF ResolutionInv
    <3> QED BY <3>1, <3>2
  <2>2. ASSUME NEW m \in Monitors, PersistWorkspaceState(m)
        PROVE  SystemResolutionIsReady'
    <3> DEFINE row == monitor[m].row
    <3>1. UNCHANGED snapshots
      BY <2>2 DEF PersistWorkspaceState
    <3>2. CASE UNCHANGED <<incident, counted>>
      BY <3>1, <3>2 DEF ResolutionInv, SystemResolutionIsReady
    <3>3. CASE row \in snapshots /\ ResolveRecovered(row)
      <4>1. CASE UNCHANGED incident
        BY <3>1, <4>1 DEF ResolutionInv, SystemResolutionIsReady
      <4>2. CASE incident' = [incident EXCEPT !.status = "resolved", !.latest = row.at,
                                             !.resolvedBy = "system"]
        <5>1. incident'.status = "resolved" /\ incident'.latest = row.at
          BY <2>0, <4>2 DEF Incident
        <5> QED BY <3>1, <3>3, <5>1 DEF SystemResolutionIsReady, ResolveRecovered
      <4> QED BY <3>3, <4>1, <4>2 DEF ResolveRecovered
    <3>4. CASE row \in snapshots /\ UpsertRegression(row)
      <4>1. CASE incident.latest = row.at
        BY <3>1, <3>4, <4>1 DEF ResolutionInv, SystemResolutionIsReady, UpsertRegression
      <4>2. CASE incident.latest # row.at
        <5>1. incident'.resolvedBy = "none"
          BY <3>4, <4>2 DEF UpsertRegression
        <5> QED BY <5>1 DEF SystemResolutionIsReady
      <4> QED BY <4>1, <4>2
    <3> QED BY <2>2, <3>2, <3>3, <3>4 DEF PersistWorkspaceState, LeaveBlocked
  <2>3. CASE OperatorStep
    <3>1. incident.status \in Active /\ incident.resolvedBy # "system"
      BY <2>3 DEF OperatorStep, AcknowledgeIncident, ResolveIncident, ResolutionInv,
                  SystemResolutionIsReady, Active
    <3>2. incident'.resolvedBy # "system"
      BY <2>0, <2>3, <3>1 DEF OperatorStep, AcknowledgeIncident, ResolveIncident, Incident
    <3> QED BY <3>2 DEF SystemResolutionIsReady
  <2> QED BY <2>1, <2>2, <2>3, IncidentWriters
<1>3. ResolutionInv => SystemResolutionIsReady
  BY DEF ResolutionInv
<1> QED BY <1>1, <1>2, <1>3, PTL DEF Spec

-----------------------------------------------------------------------------
(* What holds while no two monitors overlap                                *)

\* latest_snapshot_id refers to a row of the history.
LatestExists == incident.latest = 0 \/ \E s \in snapshots : s.at = incident.latest

\* A loaded row is never older than what the incident has recorded.
LoadedIsNotOlder ==
    \A m \in Monitors : monitor[m].phase = "loaded" => monitor[m].row.at >= incident.latest

\* No snapshot is later than the last transaction that began.
RowsHaveBegun ==
    /\ \A s \in snapshots : s.at <= clock
    /\ \A e \in Evaluators : evaluator[e].phase = "begun" => evaluator[e].at <= clock

\* Every counted snapshot is recorded: no later than latest_snapshot_id.
CountedIsPast == \A at \in counted : at <= incident.latest

HistoryInv ==
    /\ TypeInv
    /\ LatestExists
    /\ LoadedIsNotOlder
    /\ RowsHaveBegun
    /\ CountedIsPast
    /\ OccurrencesCountRegressions

\* The initial state: no incident, nothing loaded, nothing counted.
LEMMA InitHistoryInv == Init => HistoryInv
<1> SUFFICES ASSUME Init PROVE HistoryInv
  OBVIOUS
<1>1. TypeInv
  BY InitTypeInv
<1>2. Cardinality(counted) = 0
  BY FS_EmptySet DEF Init
<1> QED BY <1>1, <1>2 DEF Init, HistoryInv, LatestExists, LoadedIsNotOlder, RowsHaveBegun,
                          CountedIsPast, IdleEvaluator, OccurrencesCountRegressions, NoIncident, IdleMonitor

\* A transition stays in the history: pruning keeps it.
LEMMA TransitionsSurvive ==
  ASSUME [Next]_incidentVars, NEW s \in snapshots, TransitionedToBlocked(s)
  PROVE  s \in snapshots'
<1>1. CASE PruneReadinessSnapshots
  BY <1>1 DEF PruneReadinessSnapshots, TransitionedToBlocked
<1>2. CASE UNCHANGED snapshots
  BY <1>2
<1>3. ASSUME NEW e \in Evaluators, PersistReadinessSnapshot(e) PROVE s \in snapshots'
  BY <1>3 DEF PersistReadinessSnapshot
<1> QED BY <1>1, <1>2, <1>3
        DEF Next, EvaluatorStep, MonitorStep, OperatorStep, WorkspaceChanges,
            EvaluateReadiness, BeginSnapshot, EvaluatorFails, LoadLatestSnapshot,
            PersistWorkspaceState, MonitorFails, MonitorPassesOver, AcknowledgeIncident, ResolveIncident,
            incidentVars

\* counted is a finite set, and one more snapshot makes it one larger.
LEMMA CountOneMore ==
  ASSUME TypeInv, NEW at \in Stamp, at \notin counted
  PROVE  Cardinality(counted \cup {at}) = Cardinality(counted) + 1
<1>1. IsFiniteSet(Stamp)
  BY FS_Interval, MaxSnapshotsAssumption DEF Stamp
<1>2. IsFiniteSet(counted)
  BY <1>1, FS_Subset DEF TypeInv, TypeOK
<1> QED BY <1>2, FS_AddElement

\* What the monitor's transaction does, given that the row it carries is not
\* older than the incident: it leaves the incident alone, or moves it to a later
\* or equal snapshot, which it counts only if the snapshot is later.
LEMMA PersistMovesForward ==
  ASSUME HistoryInv, NEW m \in Monitors, PersistWorkspaceState(m)
  PROVE  \/ UNCHANGED <<incident, counted>>
         \/ /\ monitor[m].row \in snapshots
            /\ incident'.latest = monitor[m].row.at
            /\ incident'.latest >= incident.latest
            /\ \/ /\ incident.status \in Active
                  /\ incident'.status = "resolved"
                  /\ incident'.occurrences = incident.occurrences
                  /\ UNCHANGED counted
               \/ /\ TransitionedToBlocked(monitor[m].row)
                  /\ incident'.status = "open"
                  /\ incident'.latest > incident.latest
                  /\ incident'.occurrences = incident.occurrences + 1
                  /\ counted' = counted \cup {monitor[m].row.at}
<1> DEFINE row == monitor[m].row
<1>1. /\ row.at \in Stamp /\ row.at >= incident.latest
      /\ incident \in Incident
  BY DEF HistoryInv, LoadedIsNotOlder, TypeInv, TypeOK, CarriedValues, Snapshot,
         PersistWorkspaceState
<1>2. incident.latest \in 0 .. MaxSnapshots
  BY <1>1 DEF Incident
<1>3. CASE row \in snapshots /\ ResolveRecovered(row)
  <2>1. CASE incident.status \in Active
    <3>1. /\ incident' = [incident EXCEPT !.status = "resolved", !.latest = row.at,
                                         !.resolvedBy = "system"]
          /\ UNCHANGED counted
      BY <1>3, <2>1 DEF ResolveRecovered
    <3>2. /\ incident'.latest = row.at /\ incident'.status = "resolved"
          /\ incident'.occurrences = incident.occurrences
      BY <1>1, <3>1 DEF Incident
    <3> QED BY <1>1, <1>3, <2>1, <3>1, <3>2
  <2>2. CASE incident.status \notin Active
    BY <1>3, <2>2 DEF ResolveRecovered
  <2> QED BY <2>1, <2>2
<1>4. CASE row \in snapshots /\ UpsertRegression(row)
  <2>1. CASE incident.latest = row.at
    BY <1>4, <2>1 DEF UpsertRegression
  <2>2. CASE incident.latest # row.at
    <3>1. /\ incident'.latest = row.at /\ incident'.status = "open"
          /\ incident'.occurrences = incident.occurrences + 1
          /\ counted' = counted \cup {row.at}
          /\ TransitionedToBlocked(row)
      BY <1>4, <2>2 DEF UpsertRegression
    <3>2. row.at > incident.latest
      BY <1>1, <1>2, <2>2 DEF Stamp
    <3> QED BY <1>1, <1>4, <3>1, <3>2
  <2> QED BY <2>1, <2>2
<1> QED BY <1>3, <1>4 DEF PersistWorkspaceState, LeaveBlocked

\* An operator moves the status and nothing that the invariant reads.
LEMMA OperatorKeepsHistory ==
  ASSUME TypeInv, OperatorStep
  PROVE  /\ incident'.latest = incident.latest
         /\ incident'.occurrences = incident.occurrences
         /\ incident.status # "resolved"
         /\ UNCHANGED <<snapshots, monitor, counted>>
  BY DEF TypeInv, TypeOK, Incident, OperatorStep, AcknowledgeIncident, ResolveIncident, Active

\* Snapshots get the time at which their transaction began.
LEMMA NextRowsHaveBegun ==
  ASSUME TypeInv, RowsHaveBegun, [Next]_incidentVars
  PROVE  RowsHaveBegun'
<1>1. clock \in Nat
  BY DEF TypeInv, TypeOK
<1>2. ASSUME NEW e \in Evaluators, BeginSnapshot(e) PROVE RowsHaveBegun'
  <2>1. /\ clock' = clock + 1 /\ UNCHANGED snapshots
        /\ evaluator' = [evaluator EXCEPT ![e] = [phase |-> "begun",
                           verdict |-> evaluator[e].verdict, at |-> clock + 1]]
    BY <1>2 DEF BeginSnapshot
  <2>2. \A s \in snapshots : s.at \in Nat
    BY DEF TypeInv, TypeOK, Snapshot, Stamp
  <2>3. \A d \in Evaluators : evaluator[d].at \in Nat
    BY DEF TypeInv, TypeOK, Evaluation
  <2> QED BY <1>1, <2>1, <2>2, <2>3 DEF RowsHaveBegun, TypeInv, TypeOK
<1>3. ASSUME NEW e \in Evaluators, PersistReadinessSnapshot(e) PROVE RowsHaveBegun'
  <2>1. UNCHANGED clock /\ evaluator[e].phase = "begun"
        /\ evaluator' = [evaluator EXCEPT ![e] = IdleEvaluator]
    BY <1>3 DEF PersistReadinessSnapshot
  <2>2. \A s \in snapshots' : s \in snapshots \/ s.at = evaluator[e].at
    BY <1>3 DEF PersistReadinessSnapshot
  <2> QED BY <1>1, <2>1, <2>2 DEF RowsHaveBegun, TypeInv, TypeOK, IdleEvaluator
<1>4. ASSUME NEW e \in Evaluators, EvaluateReadiness(e) \/ EvaluatorFails(e)
      PROVE  RowsHaveBegun'
  BY <1>4 DEF EvaluateReadiness, EvaluatorFails, RowsHaveBegun, TypeInv, TypeOK, IdleEvaluator
<1>5. CASE UNCHANGED <<clock, evaluator>> /\ snapshots' \subseteq snapshots
  BY <1>5 DEF RowsHaveBegun
<1> QED BY <1>2, <1>3, <1>4, <1>5
        DEF Next, EvaluatorStep, MonitorStep, OperatorStep, WorkspaceChanges,
            LoadLatestSnapshot, PersistWorkspaceState, MonitorFails, MonitorPassesOver, AcknowledgeIncident,
            ResolveIncident, PruneReadinessSnapshots, incidentVars

\* Every step keeps the invariant, if no two monitors overlap.
LEMMA NextHistoryInv ==
  ASSUME OneMonitor, HistoryInv, [Next]_incidentVars
  PROVE  HistoryInv'
<1>1. TypeInv /\ TypeInv' /\ RowsHaveBegun'
  BY NextTypeInv, NextRowsHaveBegun DEF HistoryInv
<1>2. CASE UNCHANGED <<incident, counted>>
  <2>1. LatestExists'
    BY <1>1, <1>2, RowsSurvive DEF HistoryInv, LatestExists
  <2>2. LoadedIsNotOlder'
    <3> SUFFICES ASSUME NEW m \in Monitors, monitor'[m].phase = "loaded"
                 PROVE  monitor'[m].row.at >= incident.latest
      BY <1>2 DEF LoadedIsNotOlder
    <3>1. CASE monitor'[m] = monitor[m]
      BY <3>1 DEF HistoryInv, LoadedIsNotOlder
    <3>2. CASE LoadLatestSnapshot(m)
      <4>1. PICK s \in snapshots : /\ \A t \in snapshots : t.at <= s.at
                                   /\ monitor'[m].row = s
        BY <1>1, <3>2 DEF LoadLatestSnapshot, IsLatest, TypeInv, TypeOK
      <4>2. s.at \in Nat /\ incident.latest \in Nat
        BY <1>1 DEF TypeInv, TypeOK, Snapshot, Stamp, Incident
      <4>3. CASE incident.latest = 0
        BY <4>1, <4>2, <4>3
      <4>4. CASE \E t \in snapshots : t.at = incident.latest
        BY <4>1, <4>2, <4>4
      <4> QED BY <4>3, <4>4 DEF HistoryInv, LatestExists
    <3>3. monitor' = monitor \/ \E n \in Monitors : MonitorStep(n)
      BY DEF Next, EvaluatorStep, OperatorStep, WorkspaceChanges,
             EvaluateReadiness, BeginSnapshot, PersistReadinessSnapshot, EvaluatorFails,
             AcknowledgeIncident, ResolveIncident, PruneReadinessSnapshots, incidentVars
    <3>4. MonitorStep(m) => LoadLatestSnapshot(m)
      BY <1>1 DEF MonitorStep, PersistWorkspaceState, MonitorFails, MonitorPassesOver, IdleMonitor,
                  TypeInv, TypeOK
    <3> QED BY <3>1, <3>2, <3>3, <3>4 DEF OneMonitor
  <2>3. CountedIsPast'
    BY <1>2 DEF HistoryInv, CountedIsPast
  <2>4. OccurrencesCountRegressions'
    BY <1>2, TransitionsSurvive DEF HistoryInv, OccurrencesCountRegressions
  <2> QED BY <1>1, <2>1, <2>2, <2>3, <2>4 DEF HistoryInv
<1>3. ASSUME NEW m \in Monitors, PersistWorkspaceState(m), ~UNCHANGED <<incident, counted>>
      PROVE  HistoryInv'
  <2> DEFINE row == monitor[m].row
  <2>1. /\ row \in snapshots /\ UNCHANGED snapshots
        /\ incident'.latest = row.at /\ incident'.latest >= incident.latest
        /\ row.at \in Stamp /\ row.at \in Nat
        /\ incident.latest \in Nat /\ counted \in SUBSET Nat
    <3>1. /\ row \in snapshots
          /\ incident'.latest = row.at /\ incident'.latest >= incident.latest
      BY <1>3, PersistMovesForward
    <3>2. row \in Snapshot /\ incident \in Incident /\ counted \in SUBSET Stamp
      BY <1>1, <3>1 DEF TypeInv, TypeOK
    <3>3. UNCHANGED snapshots
      BY <1>3 DEF PersistWorkspaceState
    <3> QED BY <3>1, <3>2, <3>3 DEF Incident, Snapshot, Stamp
  <2>2. LatestExists'
    BY <2>1 DEF LatestExists
  <2>3. LoadedIsNotOlder'
    <3>1. monitor'[m].phase = "idle"
      BY <1>1, <1>3 DEF PersistWorkspaceState, IdleMonitor, TypeInv, TypeOK
    <3> QED BY <3>1 DEF LoadedIsNotOlder, OneMonitor
  <2>4. CASE UNCHANGED counted /\ incident'.occurrences = incident.occurrences
    <3>1. CountedIsPast'
      BY <2>1, <2>4 DEF HistoryInv, CountedIsPast, Stamp
    <3>2. OccurrencesCountRegressions'
      BY <2>1, <2>4 DEF HistoryInv, OccurrencesCountRegressions
    <3> QED BY <1>1, <2>2, <2>3, <3>1, <3>2 DEF HistoryInv
  <2>5. CASE /\ TransitionedToBlocked(row)
             /\ incident'.latest > incident.latest
             /\ incident'.occurrences = incident.occurrences + 1
             /\ counted' = counted \cup {row.at}
    <3>1. CountedIsPast'
      <4> SUFFICES ASSUME NEW at \in counted' PROVE at <= incident'.latest
        BY DEF CountedIsPast
      <4>1. CASE at = row.at
        BY <2>1, <4>1
      <4>2. CASE at \in counted
        <5>1. at \in Nat /\ at <= incident.latest
          BY <2>1, <4>2 DEF HistoryInv, CountedIsPast
        <5> QED BY <2>1, <5>1
      <4> QED BY <2>5, <4>1, <4>2
    <3>2. row.at \notin counted
      BY <2>1, <2>5 DEF HistoryInv, CountedIsPast, Stamp
    <3>3. Cardinality(counted') = Cardinality(counted) + 1
      BY <1>1, <2>1, <2>5, <3>2, CountOneMore
    <3>4. OccurrencesCountRegressions'
      BY <2>1, <2>5, <3>3 DEF HistoryInv, OccurrencesCountRegressions
    <3> QED BY <1>1, <2>2, <2>3, <3>1, <3>4 DEF HistoryInv
  <2> QED BY <1>3, <2>4, <2>5, PersistMovesForward
<1>4. CASE OperatorStep
  <2>1. /\ incident'.latest = incident.latest
        /\ incident'.occurrences = incident.occurrences
        /\ UNCHANGED <<snapshots, monitor, counted>>
    BY <1>1, <1>4, OperatorKeepsHistory
  <2> QED BY <1>1, <2>1 DEF HistoryInv, LatestExists, LoadedIsNotOlder, CountedIsPast,
                            OccurrencesCountRegressions
<1> QED BY <1>2, <1>3, <1>4, IncidentWriters

\* While no two monitors overlap, occurrences counts every ready -> blocked
\* snapshot at most once, however often the monitor reprocesses it, whatever an
\* operator does to the incident and whatever pruning deletes.
THEOREM OccurrencesCorrect ==
  ASSUME OneMonitor PROVE Spec => []OccurrencesCountRegressions
<1>1. HistoryInv /\ [Next]_incidentVars => HistoryInv'
  BY NextHistoryInv
<1>2. HistoryInv => OccurrencesCountRegressions
  BY DEF HistoryInv
<1> QED BY InitHistoryInv, <1>1, <1>2, PTL DEF Spec

\* While no two monitors overlap, the incident implements the life cycle its
\* readers rely on: it never goes back to an older snapshot, and a resolved one
\* is reopened only by a regression later than everything it has recorded.
THEOREM LifecycleCorrect ==
  ASSUME OneMonitor PROVE Spec => ImplementsLifecycle
<1>1. Init => Lifecycle!LifecycleInit
  BY DEF Init, NoIncident, Lifecycle!LifecycleInit
<1>2. HistoryInv /\ [Next]_incidentVars => HistoryInv'
  BY NextHistoryInv
<1>3. HistoryInv /\ [Next]_incidentVars
        => [Lifecycle!LifecycleNext]_(Lifecycle!lifecycleVars)
  <2> SUFFICES ASSUME HistoryInv, [Next]_incidentVars
               PROVE  Lifecycle!LifecycleNext \/ UNCHANGED Lifecycle!lifecycleVars
    OBVIOUS
  <2> USE DEF Lifecycle!LifecycleNext, Lifecycle!lifecycleVars
  <2>1. CASE UNCHANGED <<incident, counted>>
    <3>1. UNCHANGED clock \/ \E e \in Evaluators : BeginSnapshot(e)
      BY DEF Next, EvaluatorStep, MonitorStep, OperatorStep, WorkspaceChanges,
             EvaluateReadiness, PersistReadinessSnapshot, EvaluatorFails,
             LoadLatestSnapshot, PersistWorkspaceState, MonitorFails, MonitorPassesOver,
             AcknowledgeIncident, ResolveIncident, PruneReadinessSnapshots, incidentVars
    <3>2. CASE UNCHANGED clock
      BY <2>1, <3>2
    <3>3. ASSUME NEW e \in Evaluators, BeginSnapshot(e) PROVE Lifecycle!SnapshotBegins
      BY <3>3 DEF BeginSnapshot, Lifecycle!SnapshotBegins
    <3> QED BY <3>1, <3>2, <3>3
  <2>2. ASSUME NEW m \in Monitors, PersistWorkspaceState(m), ~UNCHANGED <<incident, counted>>
        PROVE  Lifecycle!LifecycleNext
    <3> DEFINE at == monitor[m].row.at
    <3>1. /\ monitor[m].row \in snapshots
          /\ at \in Stamp /\ at <= clock
          /\ UNCHANGED clock
      BY <2>2, PersistMovesForward
      DEF HistoryInv, RowsHaveBegun, TypeInv, TypeOK, Snapshot, PersistWorkspaceState
    <3>2. CASE /\ incident.status \in Active /\ incident'.status = "resolved"
               /\ incident'.latest = at /\ incident'.latest >= incident.latest
               /\ UNCHANGED counted
      <4>1. incident.latest \in Nat /\ at \in Nat
        BY <3>1 DEF HistoryInv, TypeInv, TypeOK, Incident, Stamp
      <4>2. Lifecycle!Recover(at)
        BY <3>1, <3>2, <4>1 DEF Lifecycle!Recover, Active, Lifecycle!Active
      <4> QED BY <3>1, <4>2 DEF Stamp, Lifecycle!Stamp
    <3>3. CASE /\ incident'.status = "open"
               /\ incident'.latest = at /\ incident'.latest > incident.latest
               /\ counted' = counted \cup {at}
      <4>1. incident.latest \in Nat /\ at \in Nat
        BY <3>1 DEF HistoryInv, TypeInv, TypeOK, Incident, Stamp
      <4>2. Lifecycle!Regress(at)
        BY <3>1, <3>3, <4>1 DEF Lifecycle!Regress
      <4> QED BY <3>1, <4>2 DEF Stamp, Lifecycle!Stamp
    <3> QED BY <2>2, <3>2, <3>3, PersistMovesForward
  <2>3. CASE OperatorStep
    <3>1. incident \in Incident
      BY DEF HistoryInv, TypeInv, TypeOK
    <3>2. Lifecycle!Operate
      BY <2>3, <3>1 DEF OperatorStep, AcknowledgeIncident, ResolveIncident, Incident,
                        Active, Lifecycle!Operate, Lifecycle!Active
    <3> QED BY <3>2
  <2> QED BY <2>1, <2>2, <2>3, IncidentWriters
<1> QED BY InitHistoryInv, <1>1, <1>2, <1>3, PTL
        DEF Spec, ImplementsLifecycle, Lifecycle!LifecycleSpec
=============================================================================

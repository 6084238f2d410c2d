-------------------------- MODULE WorkspaceProofs ---------------------------
(***************************************************************************)
(* Proofs about the parts of a workspace: billing and quotas (BillingQuota),*)
(* the monitor of its data (DataSla), its alerts (OperationalAlerts), its  *)
(* mappings (PortalMappings), its retention budget (RetentionBudget), its  *)
(* saved views (SavedViews) and the dashboard page (CommandCenter), for any*)
(* users, requests, records, files and bounds.                             *)
(***************************************************************************)
EXTENDS BillingQuota, DataSla, OperationalAlerts, PortalMappings, RetentionBudget, SavedViews,
        CommandCenter, FiniteSetTheorems, NaturalsInduction, WellFoundedInduction, TLAPS

-----------------------------------------------------------------------------
(* Billing: type correctness                                               *)

\* Reading a subscription keeps its type and its plan.
LEMMA EnsuredType ==
  ASSUME subscription \in Subscription
  PROVE  Ensured \in Subscription /\ Ensured.plan = subscription.plan
<1>1. CASE subscription.status = "none"
  <2>1. Ensured = [subscription EXCEPT !.status = "trialing", !.trialUsed = TRUE]
    BY <1>1 DEF Ensured
  <2> QED BY <2>1 DEF Subscription
<1>2. CASE subscription.status = "trialing" /\ trialOver
  <2>1. Ensured = [subscription EXCEPT !.status = "trial_expired"]
    BY <1>2 DEF Ensured
  <2> QED BY <2>1 DEF Subscription
<1>3. CASE subscription.status # "none" /\ ~(subscription.status = "trialing" /\ trialOver)
  <2>1. Ensured = subscription
    BY <1>3 DEF Ensured
  <2> QED BY <2>1
<1> QED BY <1>1, <1>2, <1>3

\* A new workspace, and one that the migration made managed, have the right types.
LEMMA BillingInitTyped == BillingInit => BillingTypeOK
<1> SUFFICES ASSUME BillingInit PROVE BillingTypeOK
  OBVIOUS
<1>1. subscription \in Subscription /\ plansSeen \in SUBSET Plans
  <2>1. ASSUME NEW s \in {"none", "managed"}, NEW p \in Plans
        PROVE  [status |-> s, plan |-> p, trialUsed |-> FALSE, ending |-> FALSE]
                 \in Subscription
    BY DEF Subscription
  <2>2. "none" \in {"none", "managed"} /\ "managed" \in {"none", "managed"}
    OBVIOUS
  <2>3. TrialPlan \in Plans /\ ManagedPlan \in Plans
    BY BillingAssumption
  <2>4. CASE subscription = [status |-> "none", plan |-> TrialPlan,
                             trialUsed |-> FALSE, ending |-> FALSE]
    BY <2>1, <2>2, <2>3, <2>4, Zenon DEF BillingInit
  <2>5. CASE subscription = [status |-> "managed", plan |-> ManagedPlan,
                             trialUsed |-> FALSE, ending |-> FALSE]
    BY <2>1, <2>2, <2>3, <2>5, Zenon DEF BillingInit
  <2> QED BY <2>4, <2>5, Zenon DEF BillingInit
<1>2. month \in Month /\ usage \in [Month -> Nat]
  BY BillingAssumption DEF BillingInit, Month
<1>3. /\ exporter \in [Exporters -> {"idle", "admitted", "built"}]
      /\ manager \in [Managers -> {"idle", "granted"}]
      /\ trialOver \in BOOLEAN
  BY DEF BillingInit
<1> QED BY <1>1, <1>2, <1>3 DEF BillingTypeOK

\* Every step keeps the types.
LEMMA BillingNextTyped == BillingTypeOK /\ [BillingNext]_billingVars => BillingTypeOK'
<1> SUFFICES ASSUME BillingTypeOK, [BillingNext]_billingVars PROVE BillingTypeOK'
  OBVIOUS
<1>0. Ensured \in Subscription
  BY EnsuredType DEF BillingTypeOK
<1>1. ASSUME NEW e \in Exporters, AssertQuota(e) PROVE BillingTypeOK'
  BY <1>0, <1>1 DEF AssertQuota, BillingTypeOK
<1>2. ASSUME NEW e \in Exporters, ExportFails(e) PROVE BillingTypeOK'
  BY <1>2 DEF ExportFails, BillingTypeOK
<1>3. ASSUME NEW e \in Exporters, BuildExport(e) PROVE BillingTypeOK'
  BY <1>3 DEF BuildExport, BillingTypeOK
<1>4. ASSUME NEW e \in Exporters, RecordUsage(e) PROVE BillingTypeOK'
  BY <1>4 DEF RecordUsage, BillingTypeOK
<1>5. ASSUME NEW g \in Managers, CheckTrial(g) PROVE BillingTypeOK'
  BY <1>0, <1>5 DEF CheckTrial, BillingTypeOK
<1>6. ASSUME NEW g \in Managers, StartTrial(g) PROVE BillingTypeOK'
  BY <1>6, BillingAssumption DEF StartTrial, BillingTypeOK, Subscription
<1>7. ASSUME NEW plan \in Plans, ChangePlan(plan) PROVE BillingTypeOK'
  <2>1. subscription' \in Subscription
    BY <1>0, <1>7 DEF ChangePlan, Subscription
  <2> QED BY <1>7, <2>1 DEF ChangePlan, BillingTypeOK
<1>8. CASE CancelSubscription
  <2>1. subscription' \in Subscription
    BY <1>0, <1>8 DEF CancelSubscription, Subscription
  <2> QED BY <1>8, <2>1 DEF CancelSubscription, BillingTypeOK
<1>9. CASE Reactivate
  <2>1. subscription' \in Subscription
    BY <1>0, <1>9 DEF Reactivate, Subscription
  <2> QED BY <1>9, <2>1 DEF Reactivate, BillingTypeOK
<1>10. CASE TrialEnds
  BY <1>10 DEF TrialEnds, BillingTypeOK
<1>11. CASE MonthEnds
  BY <1>11, BillingAssumption DEF MonthEnds, BillingTypeOK, Month
<1>12. CASE UNCHANGED billingVars
  BY <1>12 DEF billingVars, BillingTypeOK
<1> QED
  BY <1>1, <1>2, <1>3, <1>4, <1>5, <1>6, <1>7, <1>8, <1>9, <1>10, <1>11, <1>12 DEF BillingNext

\* The subscription, the usage and the requests always have the types that
\* billing.js gives them.
THEOREM BillingTypeCorrect == BillingSpec => []BillingTypeOK
  BY BillingInitTyped, BillingNextTyped, PTL DEF BillingSpec

-----------------------------------------------------------------------------
(* Billing: the overshoot                                                  *)

\* Why the quota is exceeded by less than the number of clients: the request that
\* is admitted compares with the plan of the moment, which is one the workspace has
\* had, and nothing has been counted for months to come.
QuotaInv ==
    /\ BillingTypeOK
    /\ subscription.plan \in plansSeen
    /\ \A m \in Month : m > month => usage[m] = 0
    /\ OvershootIsBounded

\* How many requests are under way is a number, not larger than that of clients.
LEMMA InFlightCount ==
  /\ IsFiniteSet(InFlight) /\ Cardinality(InFlight) \in Nat
  /\ Cardinality(Exporters) \in Nat /\ Cardinality(InFlight) <= Cardinality(Exporters)
<1>1. InFlight \in SUBSET Exporters
  BY DEF InFlight
<1> QED BY <1>1, FS_Subset, FS_CardinalityType, BillingAssumption

\* With nothing exported in the month, no plan is exceeded.
LEMMA UnusedMonth ==
  ASSUME NEW p \in Plans, p \in plansSeen, usage[month] = 0
  PROVE  OvershootIsBounded
<1>1. Limit[p] \in Nat
  BY BillingAssumption
<1> QED BY <1>1, InFlightCount DEF OvershootIsBounded

\* A new workspace has exported nothing.
LEMMA InitQuotaInv == BillingInit => QuotaInv
<1> SUFFICES ASSUME BillingInit PROVE QuotaInv
  OBVIOUS
<1>1. BillingTypeOK /\ subscription.plan \in plansSeen /\ subscription.plan \in Plans
  BY BillingInitTyped, BillingAssumption DEF BillingInit
<1>2. \A m \in Month : usage[m] = 0
  BY DEF BillingInit
<1>3. month \in Month
  BY <1>1 DEF BillingTypeOK
<1>4. OvershootIsBounded
  BY <1>1, <1>2, <1>3, UnusedMonth
<1> QED BY <1>1, <1>2, <1>4 DEF QuotaInv

\* A step that adds neither usage nor a request, and forgets no plan, keeps the
\* bound.
LEMMA NothingAdded ==
  ASSUME BillingTypeOK, OvershootIsBounded, plansSeen \subseteq plansSeen',
         month' = month, usage' = usage, InFlight' \subseteq InFlight
  PROVE  OvershootIsBounded'
<1>1. /\ Cardinality(InFlight) \in Nat /\ Cardinality(InFlight') \in Nat
      /\ Cardinality(InFlight') <= Cardinality(InFlight)
  BY InFlightCount, FS_Subset, FS_CardinalityType
<1>2. SUFFICES ASSUME \A p \in plansSeen' : Limit[p] > 0
               PROVE  \E p \in plansSeen' :
                        usage[month] + Cardinality(InFlight')
                          <= Limit[p] + Cardinality(Exporters) - 1
  BY DEF OvershootIsBounded
<1>3. PICK p \in plansSeen :
        usage[month] + Cardinality(InFlight) <= Limit[p] + Cardinality(Exporters) - 1
  BY <1>2 DEF OvershootIsBounded
<1>4. usage[month] \in Nat /\ Limit[p] \in Nat /\ Cardinality(Exporters) \in Nat
  BY InFlightCount, BillingAssumption DEF BillingTypeOK
<1>5. usage[month] + Cardinality(InFlight') <= Limit[p] + Cardinality(Exporters) - 1
  BY <1>1, <1>3, <1>4
<1> QED BY <1>3, <1>5

\* The request that is admitted has found room for one more export.
LEMMA AssertQuotaBound ==
  ASSUME QuotaInv, NEW e \in Exporters, AssertQuota(e)
  PROVE  OvershootIsBounded'
<1>1. BillingTypeOK /\ OvershootIsBounded /\ subscription.plan \in plansSeen
  BY DEF QuotaInv
<1>2. Ensured \in Subscription /\ Ensured.plan = subscription.plan
  BY <1>1, EnsuredType DEF BillingTypeOK
<1>3. plansSeen' = plansSeen /\ month' = month /\ usage' = usage
  BY DEF AssertQuota
<1>4. CASE Restricted(Ensured) \/ ~WithinQuota(Ensured)
  <2>1. exporter' = [exporter EXCEPT ![e] = "idle"]
    BY <1>4 DEF AssertQuota
  <2>2. InFlight' \subseteq InFlight
    BY <1>1, <2>1 DEF InFlight, BillingTypeOK
  <2> QED BY <1>1, <1>3, <2>2, NothingAdded
<1>5. CASE WithinQuota(Ensured)
  <2> DEFINE p == subscription.plan
  <2>1. Limit[p] = 0 \/ usage[month] + 1 <= Limit[p]
    BY <1>2, <1>5 DEF WithinQuota
  <2>2. IsFiniteSet(InFlight') /\ InFlight' \in SUBSET Exporters
    <3>1. InFlight' \in SUBSET Exporters
      BY DEF InFlight
    <3> QED BY <3>1, FS_Subset, BillingAssumption
  <2>3. /\ Cardinality(InFlight') \in Nat /\ Cardinality(Exporters) \in Nat
        /\ Cardinality(InFlight') <= Cardinality(Exporters)
    BY <2>2, FS_Subset, FS_CardinalityType, BillingAssumption
  <2>4. usage[month] \in Nat /\ Limit[p] \in Nat
    BY <1>1, BillingAssumption DEF BillingTypeOK
  <2>5. Limit[p] > 0 =>
          usage[month] + Cardinality(InFlight') <= Limit[p] + Cardinality(Exporters) - 1
    BY <2>1, <2>3, <2>4
  <2> QED BY <1>1, <1>3, <2>5 DEF OvershootIsBounded
<1> QED BY <1>4, <1>5

\* A request that ends is counted once, and is no longer under way.
LEMMA RecordUsageBound ==
  ASSUME BillingTypeOK, OvershootIsBounded, NEW e \in Exporters, RecordUsage(e)
  PROVE  OvershootIsBounded'
<1>1. /\ plansSeen' = plansSeen /\ month' = month
      /\ usage' = [usage EXCEPT ![month] = @ + 1]
      /\ exporter' = [exporter EXCEPT ![e] = "idle"] /\ exporter[e] = "built"
  BY DEF RecordUsage
<1>2. InFlight' = InFlight \ {e} /\ e \in InFlight
  BY <1>1 DEF InFlight, BillingTypeOK
<1>3. Cardinality(InFlight') = Cardinality(InFlight) - 1 /\ Cardinality(InFlight) \in Nat
  BY <1>2, InFlightCount, FS_RemoveElement
<1>4. usage'[month'] = usage[month] + 1 /\ usage[month] \in Nat
  BY <1>1 DEF BillingTypeOK
<1>5. usage'[month'] + Cardinality(InFlight') = usage[month] + Cardinality(InFlight)
  BY <1>3, <1>4
<1> QED BY <1>1, <1>5 DEF OvershootIsBounded

\* Every step keeps the bound.
LEMMA NextQuotaInv == QuotaInv /\ [BillingNext]_billingVars => QuotaInv'
<1> SUFFICES ASSUME QuotaInv, [BillingNext]_billingVars PROVE QuotaInv'
  OBVIOUS
<1>0. BillingTypeOK /\ BillingTypeOK' /\ OvershootIsBounded
  BY BillingNextTyped DEF QuotaInv
<1>1. Ensured.plan = subscription.plan /\ Ensured \in Subscription
  BY <1>0, EnsuredType DEF BillingTypeOK
<1>2. subscription'.plan \in plansSeen' /\ plansSeen \subseteq plansSeen'
  <2>1. ASSUME NEW plan \in Plans, ChangePlan(plan)
        PROVE  subscription'.plan \in plansSeen' /\ plansSeen \subseteq plansSeen'
    BY <1>1, <2>1 DEF ChangePlan, Subscription
  <2>2. CASE CancelSubscription \/ Reactivate
    BY <1>1, <2>2 DEF CancelSubscription, Reactivate, QuotaInv, Subscription
  <2>3. ASSUME NEW e \in Exporters, AssertQuota(e)
        PROVE  subscription'.plan \in plansSeen' /\ plansSeen \subseteq plansSeen'
    BY <1>1, <2>3 DEF AssertQuota, QuotaInv
  <2>4. ASSUME NEW g \in Managers, CheckTrial(g) \/ StartTrial(g)
        PROVE  subscription'.plan \in plansSeen' /\ plansSeen \subseteq plansSeen'
    BY <1>1, <2>4 DEF CheckTrial, StartTrial, QuotaInv
  <2>5. CASE \/ \E e \in Exporters : ExportFails(e) \/ BuildExport(e) \/ RecordUsage(e)
             \/ TrialEnds \/ MonthEnds \/ UNCHANGED billingVars
    BY <2>5 DEF ExportFails, BuildExport, RecordUsage, TrialEnds, MonthEnds, billingVars, QuotaInv
  <2> QED BY <2>1, <2>2, <2>3, <2>4, <2>5 DEF BillingNext
<1>3. /\ \A m \in Month : m > month' => usage'[m] = 0
      /\ OvershootIsBounded'
  <2>1. ASSUME NEW e \in Exporters, AssertQuota(e)
        PROVE  (\A m \in Month : m > month' => usage'[m] = 0) /\ OvershootIsBounded'
    BY <2>1, AssertQuotaBound DEF AssertQuota, QuotaInv
  <2>2. ASSUME NEW e \in Exporters, RecordUsage(e)
        PROVE  (\A m \in Month : m > month' => usage'[m] = 0) /\ OvershootIsBounded'
    <3>1. \A m \in Month : m > month' => usage'[m] = 0
      BY <1>0, <2>2 DEF RecordUsage, QuotaInv, BillingTypeOK, Month
    <3> QED BY <1>0, <2>2, <3>1, RecordUsageBound
  <2>3. CASE MonthEnds
    <3>1. month' = month + 1 /\ usage' = usage /\ plansSeen' = plansSeen
      BY <2>3 DEF MonthEnds
    <3>2. \A m \in Month : m >= month' => usage'[m] = 0
      BY <1>0, <3>1 DEF QuotaInv, BillingTypeOK, Month
    <3>3. month' \in Month /\ month' \in Nat
      BY <1>0 DEF BillingTypeOK, Month
    <3>4. usage'[month'] = 0
      BY <3>2, <3>3
    <3>5. \E p \in Plans : p \in plansSeen'
      BY <1>0, <1>2 DEF BillingTypeOK, Subscription
    <3>6. OvershootIsBounded'
      <4>1. PICK p \in Plans : p \in plansSeen'
        BY <3>5
      <4>2. /\ Cardinality(InFlight') \in Nat /\ Cardinality(Exporters) \in Nat
            /\ Cardinality(InFlight') <= Cardinality(Exporters) /\ Limit[p] \in Nat
        <5>1. InFlight' \in SUBSET Exporters
          BY DEF InFlight
        <5> QED BY <5>1, FS_Subset, FS_CardinalityType, BillingAssumption
      <4> QED BY <3>4, <4>1, <4>2 DEF OvershootIsBounded
    <3> QED BY <3>2, <3>3, <3>6 DEF Month
  <2>4. CASE \/ \E e \in Exporters : ExportFails(e) \/ BuildExport(e)
             \/ \E g \in Managers : CheckTrial(g) \/ StartTrial(g)
             \/ \E plan \in Plans : ChangePlan(plan)
             \/ CancelSubscription \/ Reactivate \/ TrialEnds \/ UNCHANGED billingVars
    <3>1. month' = month /\ usage' = usage
      BY <2>4 DEF ExportFails, BuildExport, CheckTrial, StartTrial, ChangePlan,
                  CancelSubscription, Reactivate, TrialEnds, billingVars
    <3>2. InFlight' \subseteq InFlight
      <4>1. CASE exporter' = exporter
        BY <4>1 DEF InFlight
      <4>2. ASSUME NEW e \in Exporters, ExportFails(e) \/ BuildExport(e)
            PROVE  InFlight' \subseteq InFlight
        BY <1>0, <4>2 DEF ExportFails, BuildExport, InFlight, BillingTypeOK
      <4> QED BY <2>4, <4>1, <4>2
              DEF CheckTrial, StartTrial, ChangePlan, CancelSubscription, Reactivate, TrialEnds,
                  billingVars
    <3>3. OvershootIsBounded'
      BY <1>0, <1>2, <3>1, <3>2, NothingAdded
    <3> QED BY <3>1, <3>3 DEF QuotaInv
  <2> QED BY <2>1, <2>2, <2>3, <2>4 DEF BillingNext
<1> QED BY <1>0, <1>2, <1>3 DEF QuotaInv

\* The check of billing.js:294 and the count after it let the exports of a month
\* exceed the limit by less than the number of clients that export at once.
THEOREM OvershootCorrect == BillingSpec => []OvershootIsBounded
<1>1. QuotaInv => OvershootIsBounded
  BY DEF QuotaInv
<1> QED BY InitQuotaInv, NextQuotaInv, <1>1, PTL DEF BillingSpec

-----------------------------------------------------------------------------
(* The monitor of data: type correctness                                   *)

\* The grade of a set of breaches, and when it is healthy.
LEMMA GradeOf ==
  ASSUME NEW breached \in SUBSET Breaches
  PROVE  /\ Grade(breached) \in {"healthy", "warning", "critical"}
         /\ Grade(breached) # "healthy" =>
              breached \in Defects /\ Grade(breached) \in {"warning", "critical"}
<1>1. CASE breached \cap Severe # {}
  BY <1>1 DEF Grade, Defects
<1>2. CASE breached \cap Severe = {} /\ breached # {}
  BY <1>2 DEF Grade, Defects
<1>3. CASE breached = {}
  BY <1>3 DEF Grade
<1> QED BY <1>1, <1>2, <1>3

\* What a run that has loaded the health knows.
Loaded == [phase: {"loaded", "saving"}, found: SUBSET Breaches, seen: SUBSET Defects,
           late: BOOLEAN]

\* A run that loads or saves is not idle, and its record has these fields.
LEMMA LoadedMonitor ==
  ASSUME NEW r \in Monitor, r.phase \in {"loaded", "saving"}
  PROVE  r \in Loaded
<1>1. r \notin [phase: {"idle"}]
  OBVIOUS
<1> QED BY <1>1 DEF Monitor, Loaded

\* Beginning to save, and being overtaken, keep the type of a run.
LEMMA MonitorSteps ==
  ASSUME NEW r \in Loaded, NEW seen \in SUBSET Defects
  PROVE  /\ [r EXCEPT !.phase = "saving", !.seen = seen] \in Monitor
         /\ [r EXCEPT !.late = TRUE] \in Monitor
         /\ [r EXCEPT !.phase = "saving", !.seen = seen].seen = seen
         /\ [r EXCEPT !.late = TRUE].late = TRUE
  BY DEF Monitor, Loaded

\* The types hold at the start.
LEMMA SlaInitTyped == SlaInit => SlaTypeOK
<1> SUFFICES ASSUME SlaInit PROVE SlaTypeOK
  OBVIOUS
<1>1. IdleMonitor \in Monitor
  BY DEF IdleMonitor, Monitor
<1>2. [status |-> "none", severity |-> "warning"] \in IncidentRow
  BY DEF IncidentRow
<1>3. NoVerdict \in [grade: {"none", "healthy", "warning", "critical"},
                     found: SUBSET Breaches, late: BOOLEAN]
  BY DEF NoVerdict
<1> QED BY <1>1, <1>2, <1>3, SlaAssumption DEF SlaInit, SlaTypeOK

\* Every step keeps the types.
LEMMA SlaNextTyped == SlaTypeOK /\ [SlaNext]_slaVars => SlaTypeOK'
<1> SUFFICES ASSUME SlaTypeOK, [SlaNext]_slaVars PROVE SlaTypeOK'
  OBVIOUS
<1>0. Active \in SUBSET Defects /\ IdleMonitor \in Monitor
  BY DEF Active, IdleMonitor, Monitor
<1>1. CASE HealthChanges
  BY <1>1 DEF HealthChanges, SlaTypeOK
<1>2. ASSUME NEW m \in Monitors, LoadHealth(m) PROVE SlaTypeOK'
  <2>1. [phase |-> "loaded", found |-> health, seen |-> {}, late |-> FALSE] \in Monitor
    BY DEF Monitor, SlaTypeOK
  <2>2. monitor' \in [Monitors -> Monitor]
    BY <1>2, <2>1 DEF LoadHealth, SlaTypeOK
  <2> QED BY <1>2, <2>2, SlaAssumption DEF LoadHealth, SlaTypeOK
<1>3. ASSUME NEW m \in Monitors, BeginSave(m) PROVE SlaTypeOK'
  <2>1. monitor[m] \in Loaded
    BY <1>3, LoadedMonitor DEF BeginSave, SlaTypeOK
  <2>2. monitor' = [monitor EXCEPT ![m] = [monitor[m] EXCEPT !.phase = "saving", !.seen = Active]]
    BY <1>3 DEF BeginSave, SlaTypeOK
  <2>3. monitor' \in [Monitors -> Monitor]
    BY <1>0, <2>1, <2>2, MonitorSteps DEF SlaTypeOK
  <2> QED BY <1>3, <2>3 DEF BeginSave, SlaTypeOK
<1>4. ASSUME NEW m \in Monitors, CommitSave(m) PROVE SlaTypeOK'
  <2> DEFINE breached == monitor[m].found
  <2>1. monitor[m] \in Loaded
    BY <1>4, LoadedMonitor DEF CommitSave, SlaTypeOK
  <2>2. breached \in SUBSET Breaches /\ monitor[m].late \in BOOLEAN
    BY <2>1 DEF Loaded
  <2>3. incident' \in [Defects -> IncidentRow]
    <3>1. CASE Grade(breached) = "healthy"
      <4>1. \A b \in Defects : [incident[b] EXCEPT !.status = "resolved"] \in IncidentRow
        BY DEF SlaTypeOK, IncidentRow
      <4> QED BY <1>4, <3>1, <4>1 DEF CommitSave, SlaTypeOK
    <3>2. CASE Grade(breached) # "healthy"
      <4>1. breached \in Defects /\ Grade(breached) \in {"warning", "critical"}
        BY <2>2, <3>2, GradeOf
      <4>2. [status |-> IF incident[breached].status = "acknowledged"
                          THEN incident[breached].status ELSE "open",
             severity |-> Grade(breached)] \in IncidentRow
        BY <4>1 DEF IncidentRow
      <4> QED BY <1>4, <3>2, <4>1, <4>2 DEF CommitSave, SlaTypeOK
    <3> QED BY <3>1, <3>2
  <2>4. verdict' \in [grade: {"none", "healthy", "warning", "critical"},
                      found: SUBSET Breaches, late: BOOLEAN]
    <3>1. Grade(breached) \in {"none", "healthy", "warning", "critical"}
      BY <2>2, GradeOf
    <3>2. verdict' = [grade |-> Grade(breached), found |-> breached, late |-> monitor[m].late]
      BY <1>4 DEF CommitSave
    <3> HIDE DEF breached
    <3> QED BY <2>2, <3>1, <3>2
  <2>5. monitor' \in [Monitors -> Monitor]
    <3>1. ASSUME NEW n \in Monitors, monitor[n].phase = "saving"
          PROVE  [monitor[n] EXCEPT !.late = TRUE] \in Monitor
      <4>1. monitor[n] \in Loaded
        BY <3>1, LoadedMonitor DEF SlaTypeOK
      <4> QED BY <1>0, <4>1, MonitorSteps
    <3>2. \A n \in Monitors :
            (CASE n = m -> IdleMonitor
               [] n # m /\ monitor[n].phase = "saving" -> [monitor[n] EXCEPT !.late = TRUE]
               [] OTHER -> monitor[n]) \in Monitor
      BY <1>0, <3>1 DEF SlaTypeOK
    <3> QED BY <1>4, <3>2 DEF CommitSave
  <2> QED BY <1>4, <2>3, <2>4, <2>5 DEF CommitSave, SlaTypeOK
<1>5. ASSUME NEW m \in Monitors, MonitorFails(m) PROVE SlaTypeOK'
  BY <1>0, <1>5 DEF MonitorFails, SlaTypeOK
<1>6. ASSUME NEW b \in Defects, AcknowledgeSla(b) \/ ResolveSla(b) PROVE SlaTypeOK'
  <2>1. incident' \in [Defects -> IncidentRow]
    BY <1>6 DEF AcknowledgeSla, ResolveSla, SlaTypeOK, IncidentRow
  <2> QED BY <1>6, <2>1 DEF AcknowledgeSla, ResolveSla, SlaTypeOK
<1>7. CASE UNCHANGED slaVars
  BY <1>7 DEF slaVars, SlaTypeOK
<1> QED BY <1>1, <1>2, <1>3, <1>4, <1>5, <1>6, <1>7 DEF SlaNext

\* The runs, the incidents and the snapshot always have the types that
\* data-sla-monitor.js gives them.
THEOREM SlaTypeCorrect == SlaSpec => []SlaTypeOK
  BY SlaInitTyped, SlaNextTyped, PTL DEF SlaSpec

-----------------------------------------------------------------------------
(* The monitor of data: the last verdict                                   *)

\* A run that saves and has not been overtaken sees every active incident: only
\* a run that commits makes one active, and it overtakes those that save.
SavingSeesActive ==
    \A m \in Monitors :
        monitor[m].phase = "saving" /\ ~monitor[m].late => Active \subseteq monitor[m].seen

SlaInv == SlaTypeOK /\ SavingSeesActive /\ LastVerdictStands

\* The invariant holds at the start.
LEMMA InitSlaInv == SlaInit => SlaInv
<1> SUFFICES ASSUME SlaInit PROVE SlaInv
  OBVIOUS
<1>1. SavingSeesActive
  BY DEF SlaInit, SavingSeesActive, IdleMonitor
<1>2. LastVerdictStands
  BY DEF SlaInit, LastVerdictStands, NoVerdict
<1> QED BY <1>1, <1>2, SlaInitTyped DEF SlaInv

\* An operator who moves an incident on makes none active, and changes no grade.
LEMMA OperatorStep ==
  ASSUME SlaTypeOK, NEW b \in Defects, AcknowledgeSla(b) \/ ResolveSla(b)
  PROVE  /\ Active' \subseteq Active /\ Active \cup settled \subseteq Active' \cup settled'
         /\ \A d \in Defects : incident'[d].severity = incident[d].severity
         /\ b \in Active
<1>1. \A d \in Defects : d # b => incident'[d] = incident[d]
  BY DEF AcknowledgeSla, ResolveSla, SlaTypeOK
<1>2. incident'[b].severity = incident[b].severity
  BY DEF AcknowledgeSla, ResolveSla, SlaTypeOK, IncidentRow
<1>3. CASE AcknowledgeSla(b)
  <2>1. incident'[b].status = "acknowledged"
    BY <1>3 DEF AcknowledgeSla, SlaTypeOK, IncidentRow
  <2> QED BY <1>1, <1>2, <1>3, <2>1 DEF AcknowledgeSla, Active
<1>4. CASE ResolveSla(b)
  <2>1. incident'[b].status = "resolved"
    BY <1>4 DEF ResolveSla, SlaTypeOK, IncidentRow
  <2> QED BY <1>1, <1>2, <1>4, <2>1 DEF ResolveSla, Active
<1> QED BY <1>3, <1>4

\* A healthy verdict that nothing overtook leaves no active incident; any other
\* leaves its own, with its grade.
LEMMA CommitVerdict ==
  ASSUME SlaTypeOK, SavingSeesActive, NEW m \in Monitors, CommitSave(m)
  PROVE  LastVerdictStands'
<1> DEFINE breached == monitor[m].found
<1>1. monitor[m] \in Loaded
  BY LoadedMonitor DEF CommitSave, SlaTypeOK
<1>2. breached \in SUBSET Breaches
  BY <1>1 DEF Loaded
<1>3. verdict'.grade = Grade(breached) /\ verdict'.found = breached /\ verdict'.late = monitor[m].late
  BY DEF CommitSave
<1>4. CASE Grade(breached) = "healthy"
  <2>1. \A b \in Defects : incident'[b] = IF b \in monitor[m].seen
                                            THEN [incident[b] EXCEPT !.status = "resolved"]
                                            ELSE incident[b]
    BY <1>4 DEF CommitSave
  <2>2. \A b \in Defects : b \in monitor[m].seen => incident'[b].status = "resolved"
    BY <2>1 DEF SlaTypeOK, IncidentRow
  <2>3. ASSUME ~monitor[m].late PROVE Active' = {}
    <3>1. Active \subseteq monitor[m].seen
      BY <2>3 DEF SavingSeesActive, CommitSave
    <3> QED BY <2>1, <2>2, <3>1 DEF Active
  <2> QED BY <1>3, <1>4, <2>3 DEF LastVerdictStands
<1>5. CASE Grade(breached) # "healthy"
  <2>1. breached \in Defects
    BY <1>2, <1>5, GradeOf
  <2>2. incident'[breached] = [status |-> IF incident[breached].status = "acknowledged"
                                         THEN incident[breached].status ELSE "open",
                            severity |-> Grade(breached)]
    BY <1>5, <2>1 DEF CommitSave, SlaTypeOK
  <2>3. incident'[breached].status \in {"open", "acknowledged"}
    BY <2>2
  <2>4. breached \in Active'
    BY <2>1, <2>3 DEF Active
  <2> QED BY <1>3, <1>5, <2>2, <2>4 DEF LastVerdictStands
<1> QED BY <1>4, <1>5

\* Every step keeps the invariant.
LEMMA NextSlaInv == SlaInv /\ [SlaNext]_slaVars => SlaInv'
<1> SUFFICES ASSUME SlaInv, [SlaNext]_slaVars PROVE SlaInv'
  OBVIOUS
<1>0. SlaTypeOK /\ SlaTypeOK' /\ SavingSeesActive /\ LastVerdictStands
  BY SlaNextTyped DEF SlaInv
<1>1. CASE HealthChanges \/ UNCHANGED slaVars
  <2>1. UNCHANGED <<monitor, incident, verdict, settled>>
    BY <1>1 DEF HealthChanges, slaVars
  <2> QED BY <1>0, <2>1 DEF SlaInv, SavingSeesActive, LastVerdictStands, Active
<1>2. ASSUME NEW m \in Monitors, LoadHealth(m) \/ BeginSave(m) \/ MonitorFails(m)
      PROVE  SlaInv'
  <2>1. UNCHANGED <<incident, verdict, settled>> /\ Active' = Active
    BY <1>2 DEF LoadHealth, BeginSave, MonitorFails, Active
  <2>2. LastVerdictStands'
    BY <1>0, <2>1 DEF LastVerdictStands
  <2>3. \A n \in Monitors : n # m => monitor'[n] = monitor[n]
    BY <1>0, <1>2 DEF LoadHealth, BeginSave, MonitorFails, SlaTypeOK
  <2>4. monitor'[m].phase = "saving" => monitor'[m].seen = Active
    <3>1. CASE BeginSave(m)
      <4>1. monitor[m] \in Loaded
        BY <1>0, <3>1, LoadedMonitor DEF BeginSave, SlaTypeOK
      <4>2. monitor'[m] = [monitor[m] EXCEPT !.phase = "saving", !.seen = Active]
        BY <1>0, <3>1 DEF BeginSave, SlaTypeOK
      <4>3. Active \in SUBSET Defects
        BY DEF Active
      <4> QED BY <4>1, <4>2, <4>3, MonitorSteps
    <3>2. CASE LoadHealth(m) \/ MonitorFails(m)
      BY <1>0, <3>2 DEF LoadHealth, MonitorFails, SlaTypeOK, IdleMonitor
    <3> QED BY <1>2, <3>1, <3>2
  <2>5. SavingSeesActive'
    BY <1>0, <2>1, <2>3, <2>4 DEF SavingSeesActive
  <2> QED BY <1>0, <2>2, <2>5 DEF SlaInv
<1>3. ASSUME NEW m \in Monitors, CommitSave(m) PROVE SlaInv'
  <2>1. ASSUME NEW n \in Monitors, monitor'[n].phase = "saving" PROVE monitor'[n].late
    <3>1. n # m /\ monitor[n].phase = "saving"
      BY <1>3, <2>1 DEF CommitSave, IdleMonitor
    <3>2. monitor[n] \in Loaded
      BY <1>0, <3>1, LoadedMonitor DEF SlaTypeOK
    <3>3. monitor'[n] = [monitor[n] EXCEPT !.late = TRUE]
      BY <1>3, <3>1 DEF CommitSave
    <3> QED BY <3>2, <3>3, MonitorSteps
  <2> QED BY <1>0, <1>3, <2>1, CommitVerdict DEF SlaInv, SavingSeesActive
<1>4. ASSUME NEW b \in Defects, AcknowledgeSla(b) \/ ResolveSla(b) PROVE SlaInv'
  <2>1. monitor' = monitor /\ verdict' = verdict
    BY <1>4 DEF AcknowledgeSla, ResolveSla
  <2>2. SavingSeesActive'
    BY <1>0, <1>4, <2>1, OperatorStep DEF SavingSeesActive
  <2>3. Active \cup settled \subseteq Defects
    BY <1>0 DEF Active, SlaTypeOK
  <2>4. LastVerdictStands'
    BY <1>0, <1>4, <2>1, <2>3, OperatorStep DEF LastVerdictStands
  <2> QED BY <1>0, <2>2, <2>4 DEF SlaInv
<1> QED BY <1>1, <1>2, <1>3, <1>4 DEF SlaNext

\* The incidents follow the snapshot that persistEvaluation saved last, for every
\* number of runs that overlap.
THEOREM LastVerdictCorrect == SlaSpec => []LastVerdictStands
<1>1. SlaInv => LastVerdictStands
  BY DEF SlaInv
<1> QED BY InitSlaInv, NextSlaInv, <1>1, PTL DEF SlaSpec

-----------------------------------------------------------------------------
(* Alerts: the invariant                                                   *)

\* Evaluations that nobody has disturbed run one at a time, and each decides by the
\* state that the rule still has.
OneEvaluation ==
    \A v, u \in Evaluators : evaluator[v].phase # "idle" /\ evaluator[u].phase # "idle" => v = u

\* What an evaluation knows of the rule and of the last event.
EvaluationFits(v) ==
    /\ evaluator[v].phase = "claimed" => evaluator[v].wasBreached = (rule.state = "breached")
    /\ evaluator[v].phase \in {"inserted", "quiet"} /\ evaluator[v].breached => lastEvent = "triggered"

\* Between an event and the UPDATE of the rule the two may differ.
BreachIsTold ==
    rule.state = "breached" /\ (\A v \in Evaluators : evaluator[v].phase # "inserted")
        => lastEvent = "triggered"

\* The inductive invariant of alerts.
AlertInv ==
    /\ AlertTypeOK
    /\ ~disturbed => OneEvaluation /\ (\A v \in Evaluators : EvaluationFits(v)) /\ BreachIsTold

-----------------------------------------------------------------------------
(* Alerts: the steps                                                       *)

\* What an evaluation becomes.
LEMMA EvaluationStep ==
  ASSUME AlertTypeOK, NEW v \in Evaluators, NEW e \in Evaluation, evaluator' = [evaluator EXCEPT ![v] = e]
  PROVE  /\ evaluator' \in [Evaluators -> Evaluation] /\ evaluator'[v] = e
         /\ \A u \in Evaluators \ {v} : evaluator'[u] = evaluator[u]
  BY DEF AlertTypeOK

\* An evaluator that rests is a typed one.
LEMMA NotEvaluatingTyped == NotEvaluating \in Evaluation /\ NotEvaluating.phase = "idle"
  BY DEF NotEvaluating, Evaluation

\* The invariant holds of a rule that was just written.
LEMMA AlertInitially == AlertInit => AlertInv
<1> SUFFICES ASSUME AlertInit PROVE AlertInv
  OBVIOUS
<1>1. \A v \in Evaluators : evaluator[v] = NotEvaluating
  BY DEF AlertInit
<1>2. AlertTypeOK
  <2>1. rule \in Rule
    BY DEF AlertInit, Rule
  <2>2. evaluator \in [Evaluators -> Evaluation]
    BY NotEvaluatingTyped DEF AlertInit
  <2>3. alertEdits \in 0 .. MaxAlertEdits
    BY AlertBoundsAssumption DEF AlertInit
  <2>4. /\ breaching \in BOOLEAN /\ intervalDue \in BOOLEAN /\ cooled \in BOOLEAN /\ disturbed \in BOOLEAN
        /\ lastEvent = "none"
    BY DEF AlertInit
  <2> QED BY <2>1, <2>2, <2>3, <2>4 DEF AlertTypeOK
<1>3. OneEvaluation /\ (\A v \in Evaluators : EvaluationFits(v))
  BY <1>1, NotEvaluatingTyped DEF OneEvaluation, EvaluationFits
<1>4. BreachIsTold
  BY DEF AlertInit, BreachIsTold
<1> QED BY <1>2, <1>3, <1>4 DEF AlertInv

\* The claim reads the state of the rule that the evaluation decides by.
LEMMA StateReadKeeps ==
  ASSUME AlertInv, NEW v \in Evaluators, NEW forced \in BOOLEAN, Read(v, forced), intervalDue' \in BOOLEAN
  PROVE  AlertInv'
<1> DEFINE e == [phase |-> "claimed", forced |-> forced, wasBreached |-> rule.state = "breached",
                 cooled |-> cooled, onRecovery |-> rule.onRecovery, breached |-> FALSE]
<1>0. AlertTypeOK
  BY DEF AlertInv
<1>1. e \in Evaluation /\ e.phase = "claimed" /\ e.wasBreached = (rule.state = "breached")
  BY <1>0 DEF AlertTypeOK, Rule, Evaluation
<1>2. evaluator' = [evaluator EXCEPT ![v] = e] /\ evaluator[v].phase = "idle"
      /\ disturbed' = (disturbed \/ Evaluating # {}) /\ UNCHANGED <<rule, breaching, cooled, lastEvent, alertEdits>>
  BY DEF Read
<1> HIDE DEF e
<1>3. /\ evaluator' \in [Evaluators -> Evaluation] /\ evaluator'[v] = e
      /\ \A u \in Evaluators \ {v} : evaluator'[u] = evaluator[u]
  BY <1>0, <1>1, <1>2, EvaluationStep
<1>4. AlertTypeOK'
  BY <1>0, <1>2, <1>3 DEF AlertTypeOK
<1>5. ASSUME ~disturbed' PROVE OneEvaluation' /\ (\A u \in Evaluators : EvaluationFits(u)') /\ BreachIsTold'
  <2>1. ~disturbed /\ \A u \in Evaluators : evaluator[u].phase = "idle"
    BY <1>0, <1>2, <1>5 DEF Evaluating, AlertTypeOK
  <2>2. OneEvaluation'
    BY <1>3, <2>1 DEF OneEvaluation
  <2>3. \A u \in Evaluators : EvaluationFits(u)'
    BY <1>1, <1>2, <1>3, <2>1 DEF EvaluationFits
  <2>4. BreachIsTold'
    BY <1>1, <1>2, <1>3, <2>1 DEF AlertInv, BreachIsTold
  <2> QED BY <2>2, <2>3, <2>4
<1> QED BY <1>4, <1>5 DEF AlertInv

\* The transition inserts its event before it updates the rule.
LEMMA EventInsertKeeps ==
  ASSUME AlertInv, NEW v \in Evaluators, InsertEvent(v) PROVE AlertInv'
<1>0. AlertTypeOK /\ evaluator[v] \in Evaluation /\ evaluator[v].phase = "claimed"
  BY DEF AlertInv, AlertTypeOK, InsertEvent
<1> DEFINE notify == ShouldNotify(evaluator[v], breaching)
           e == [evaluator[v] EXCEPT !.phase = IF notify THEN "inserted" ELSE "quiet", !.breached = breaching]
<1>1. evaluator' = [evaluator EXCEPT ![v] = e]
      /\ lastEvent' = (IF ~notify THEN lastEvent
                       ELSE IF evaluator[v].wasBreached /\ ~breaching THEN "recovered" ELSE "triggered")
      /\ UNCHANGED <<rule, breaching, intervalDue, cooled, disturbed, alertEdits>>
  BY DEF InsertEvent
<1>2. e \in Evaluation /\ e.phase = (IF notify THEN "inserted" ELSE "quiet") /\ e.breached = breaching
  BY <1>0 DEF AlertTypeOK, Evaluation
<1>3. notify \/ ~breaching \/ evaluator[v].wasBreached
  BY DEF ShouldNotify
<1> HIDE DEF e, notify
<1>4. /\ evaluator' \in [Evaluators -> Evaluation] /\ evaluator'[v] = e
      /\ \A u \in Evaluators \ {v} : evaluator'[u] = evaluator[u]
  BY <1>0, <1>1, <1>2, EvaluationStep
<1>5. AlertTypeOK'
  BY <1>0, <1>1, <1>4 DEF AlertTypeOK
<1>6. ASSUME ~disturbed' PROVE OneEvaluation' /\ (\A u \in Evaluators : EvaluationFits(u)') /\ BreachIsTold'
  <2>1. OneEvaluation /\ EvaluationFits(v) /\ BreachIsTold
    BY <1>1, <1>6 DEF AlertInv
  <2>2. \A u \in Evaluators \ {v} : evaluator[u].phase = "idle"
    BY <1>0, <2>1 DEF OneEvaluation
  <2>3. OneEvaluation'
    BY <1>4, <2>2 DEF OneEvaluation
  <2>4. rule.state = "breached" => lastEvent = "triggered"
    BY <1>0, <2>1, <2>2 DEF BreachIsTold
  <2>5. breaching => lastEvent' = "triggered"
    BY <1>0, <1>1, <1>3, <2>1, <2>4 DEF EvaluationFits
  <2>6. \A u \in Evaluators : EvaluationFits(u)'
    BY <1>2, <1>4, <2>2, <2>5 DEF EvaluationFits
  <2>7. BreachIsTold'
    BY <1>1, <1>2, <1>4, <2>4 DEF BreachIsTold
  <2> QED BY <2>3, <2>6, <2>7
<1> QED BY <1>5, <1>6 DEF AlertInv

\* The rule takes the state its event told of.
LEMMA RuleUpdateKeeps ==
  ASSUME AlertInv, NEW v \in Evaluators, UpdateRule(v) PROVE AlertInv'
<1>0. AlertTypeOK /\ evaluator[v] \in Evaluation /\ evaluator[v].phase \in {"inserted", "quiet"}
  BY DEF AlertInv, AlertTypeOK, UpdateRule
<1> DEFINE e == IF evaluator[v].phase = "inserted" THEN [evaluator[v] EXCEPT !.phase = "updated"] ELSE NotEvaluating
<1>1. evaluator' = [evaluator EXCEPT ![v] = e]
      /\ rule' = [rule EXCEPT !.state = IF evaluator[v].breached THEN "breached" ELSE "healthy"]
      /\ cooled' \in BOOLEAN /\ UNCHANGED <<breaching, intervalDue, lastEvent, disturbed, alertEdits>>
  BY DEF UpdateRule
<1>2. e \in Evaluation /\ e.phase \in {"idle", "updated"}
  BY <1>0, NotEvaluatingTyped DEF Evaluation
<1>3. rule' \in Rule /\ (rule'.state = "breached" => evaluator[v].breached)
  BY <1>0, <1>1 DEF AlertTypeOK, Rule
<1> HIDE DEF e
<1>4. /\ evaluator' \in [Evaluators -> Evaluation] /\ evaluator'[v] = e
      /\ \A u \in Evaluators \ {v} : evaluator'[u] = evaluator[u]
  BY <1>0, <1>1, <1>2, EvaluationStep
<1>5. AlertTypeOK'
  BY <1>0, <1>1, <1>3, <1>4 DEF AlertTypeOK
<1>6. ASSUME ~disturbed' PROVE OneEvaluation' /\ (\A u \in Evaluators : EvaluationFits(u)') /\ BreachIsTold'
  <2>1. OneEvaluation /\ EvaluationFits(v)
    BY <1>1, <1>6 DEF AlertInv
  <2>2. \A u \in Evaluators \ {v} : evaluator[u].phase = "idle"
    BY <1>0, <2>1 DEF OneEvaluation
  <2>3. OneEvaluation'
    BY <1>4, <2>2 DEF OneEvaluation
  <2>4. \A u \in Evaluators : EvaluationFits(u)'
    BY <1>2, <1>4, <2>2 DEF EvaluationFits
  <2>5. BreachIsTold'
    BY <1>0, <1>1, <1>3, <2>1 DEF BreachIsTold, EvaluationFits
  <2> QED BY <2>3, <2>4, <2>5
<1> QED BY <1>5, <1>6 DEF AlertInv

\* An evaluation that ends where neither the rule nor the event is changed.
LEMMA EvaluationEndKeeps ==
  ASSUME AlertInv, NEW v \in Evaluators, EvaluationFails(v) \/ SendAlert(v) \/ EvaluatorDies(v) PROVE AlertInv'
<1>0. AlertTypeOK
  BY DEF AlertInv
<1>1. /\ evaluator' = [evaluator EXCEPT ![v] = NotEvaluating]
      /\ UNCHANGED <<rule, breaching, intervalDue, cooled, lastEvent, alertEdits>> /\ disturbed' \in BOOLEAN
      /\ ~disturbed' => ~disturbed /\ evaluator[v].phase \in {"claimed", "updated"}
  BY <1>0 DEF EvaluationFails, SendAlert, EvaluatorDies, AlertTypeOK
<1>2. /\ evaluator' \in [Evaluators -> Evaluation] /\ evaluator'[v] = NotEvaluating
      /\ \A u \in Evaluators \ {v} : evaluator'[u] = evaluator[u]
  BY <1>0, <1>1, NotEvaluatingTyped, EvaluationStep
<1>3. AlertTypeOK'
  BY <1>0, <1>1, <1>2 DEF AlertTypeOK
<1>4. ASSUME ~disturbed' PROVE OneEvaluation' /\ (\A u \in Evaluators : EvaluationFits(u)') /\ BreachIsTold'
  <2>1. OneEvaluation /\ (\A u \in Evaluators : EvaluationFits(u)) /\ BreachIsTold
    BY <1>1, <1>4 DEF AlertInv
  <2>2. OneEvaluation'
    BY <1>2, <2>1, NotEvaluatingTyped DEF OneEvaluation
  <2>3. \A u \in Evaluators : EvaluationFits(u)'
    BY <1>1, <1>2, <2>1, NotEvaluatingTyped DEF EvaluationFits
  <2>4. BreachIsTold'
    BY <1>1, <1>2, <1>4, <2>1, NotEvaluatingTyped DEF BreachIsTold
  <2> QED BY <2>2, <2>3, <2>4
<1> QED BY <1>3, <1>4 DEF AlertInv

\* Every step of rule, metrics and evaluators preserves the invariant.
LEMMA AlertNextKeeps == AlertInv /\ [AlertNext]_alertVars => AlertInv'
<1> SUFFICES ASSUME AlertInv, [AlertNext]_alertVars PROVE AlertInv'
  OBVIOUS
<1>0. AlertTypeOK
  BY DEF AlertInv
<1>1. CASE MetricChanges \/ AlertTimePasses \/ UNCHANGED alertVars
  <2>1. AlertTypeOK' /\ UNCHANGED <<rule, evaluator, lastEvent, disturbed>>
    BY <1>0, <1>1 DEF MetricChanges, AlertTimePasses, alertVars, AlertTypeOK
  <2> QED BY <2>1 DEF AlertInv, OneEvaluation, EvaluationFits, BreachIsTold
<1>2. ASSUME NEW enabled \in BOOLEAN, NEW onRecovery \in BOOLEAN, PatchRule(enabled, onRecovery) PROVE AlertInv'
  <2>1. rule' \in Rule /\ rule'.state = rule.state
    BY <1>0, <1>2 DEF PatchRule, AlertTypeOK, Rule
  <2>2. alertEdits' \in 0 .. MaxAlertEdits
    BY <1>0, <1>2, AlertBoundsAssumption DEF PatchRule, AlertTypeOK
  <2>3. UNCHANGED <<breaching, cooled, evaluator, lastEvent, disturbed>> /\ intervalDue' \in BOOLEAN
    BY <1>2 DEF PatchRule
  <2>4. AlertTypeOK'
    BY <1>0, <2>1, <2>2, <2>3 DEF AlertTypeOK
  <2> QED BY <2>1, <2>3, <2>4 DEF AlertInv, OneEvaluation, EvaluationFits, BreachIsTold
<1>3. CASE DeleteRule
  <2>1. rule' \in Rule /\ rule'.state = "unknown"
    BY <1>0, <1>3 DEF DeleteRule, AlertTypeOK, Rule
  <2>2. alertEdits' \in 0 .. MaxAlertEdits
    BY <1>0, <1>3, AlertBoundsAssumption DEF DeleteRule, AlertTypeOK
  <2>3. evaluator' \in [Evaluators -> Evaluation] /\ \A v \in Evaluators : evaluator'[v] = NotEvaluating
    BY <1>3, NotEvaluatingTyped DEF DeleteRule
  <2>4. AlertTypeOK'
    BY <1>0, <1>3, <2>1, <2>2, <2>3 DEF DeleteRule, AlertTypeOK
  <2> QED BY <2>1, <2>3, <2>4, NotEvaluatingTyped DEF AlertInv, OneEvaluation, EvaluationFits, BreachIsTold
<1>4. ASSUME NEW v \in Evaluators, ClaimDueRule(v) \/ TestRule(v) PROVE AlertInv'
  <2>1. PICK forced \in BOOLEAN : Read(v, forced)
    BY <1>4 DEF ClaimDueRule, TestRule
  <2>2. intervalDue' \in BOOLEAN
    BY <1>0, <1>4 DEF ClaimDueRule, TestRule, AlertTypeOK
  <2> QED BY <2>1, <2>2, StateReadKeeps
<1> QED BY <1>1, <1>2, <1>3, <1>4, EventInsertKeeps, RuleUpdateKeeps, EvaluationEndKeeps DEF AlertNext

-----------------------------------------------------------------------------
(* Alerts: the theorems                                                    *)

\* The rule, its evaluations and its events keep their types.
THEOREM AlertTypeCorrect == AlertSpec => []AlertTypeOK
<1>1. AlertInv => AlertTypeOK
  BY DEF AlertInv
<1> QED BY <1>1, AlertInitially, AlertNextKeeps, PTL DEF AlertSpec

\* A rule that shows a breach has told of it, whoever evaluates it.
THEOREM BreachCorrect == AlertSpec => []BreachIsReported
<1>1. AlertInv => BreachIsReported
  BY DEF AlertInv, BreachIsReported, BreachIsTold, Evaluating
<1> QED BY <1>1, AlertInitially, AlertNextKeeps, PTL DEF AlertSpec

-----------------------------------------------------------------------------
(* Mappings: the invariant                                                 *)

\* The field's row is locked by one save, and a save that has the lock reaches
\* every suggestion that is approved.
OneWriter == \A a, b \in Writing : a = b

\* The rows that the writing save reaches include every one that is approved.
WriterReachesApproved ==
    \A a \in Writing : {p \in Properties : suggestion[p] = "approved"} \subseteq saver[a].rows

\* A discovery is of a portal that was connected, and a connection is never removed.
DiscoveryIsConnected ==
    \A r \in Discoveries : discovery[r].phase # "none" =>
        discovery[r].of \in Portals /\ connection \in Connection

\* The inductive invariant of mappings.
PortalInv ==
    PortalTypeOK /\ ApprovedIsMapped /\ OneWriter /\ WriterReachesApproved /\ DiscoveryIsConnected

-----------------------------------------------------------------------------
(* Mappings: the suggestion that is seen first                            *)

\* A set of natural numbers that is not empty has a least element.
LEMMA LeastNumber ==
  ASSUME NEW T \in SUBSET Nat, T # {} PROVE \E m \in T : \A n \in T : m <= n
<1> DEFINE R == OpToRel(<, Nat)
<1>1. IsWellFoundedOn(R, Nat)
  BY NatLessThanWellFounded
<1>2. \A k, m \in Nat : k < m => <<k, m>> \in R
  BY DEF OpToRel
<1> HIDE DEF R
<1>3. PICK m \in T : \A y \in T : <<y, m>> \notin R
  BY <1>1, WFMin
<1>4. \A n \in T : ~(n < m)
  BY <1>2, <1>3
<1> QED BY <1>4

\* Of properties that are not none, one comes before all others.
LEMMA FirstProperty ==
  ASSUME NEW S \in SUBSET Properties, S # {}
  PROVE  \E p \in S : \A q \in S \ {p} : Before(p, q)
<1> DEFINE gap(p) == 99 - Confidence[p]
           T == {gap(p) : p \in S}
<1>1. \A p \in Properties : p \in Nat /\ Confidence[p] \in 0 .. 99
  BY PortalAssumption
<1>2. T \in SUBSET Nat /\ T # {}
  BY <1>1
<1>3. PICK m \in T : \A n \in T : m <= n
  BY <1>2, LeastNumber
<1> DEFINE U == {p \in S : gap(p) = m}
<1>4. U \in SUBSET Nat /\ U # {}
  BY <1>1, <1>3
<1>5. PICK p \in U : \A q \in U : p <= q
  BY <1>4, LeastNumber
<1>6. ASSUME NEW q \in S \ {p} PROVE Before(p, q)
  <2>1. gap(p) <= gap(q) /\ gap(p) = m
    BY <1>3, <1>5
  <2>2. p \in Nat /\ q \in Nat /\ p # q /\ Confidence[p] \in 0 .. 99 /\ Confidence[q] \in 0 .. 99
    BY <1>1, <1>5, <1>6
  <2>3. CASE gap(q) = m
    <3>1. p <= q
      BY <1>5, <1>6, <2>3
    <3>2. Confidence[p] = Confidence[q]
      <4>1. 99 - Confidence[p] = 99 - Confidence[q]
        BY <2>1, <2>3
      <4> QED BY <2>2, <4>1
    <3> QED BY <2>2, <3>1, <3>2 DEF Before
  <2>4. CASE gap(q) # m
    <3>1. Confidence[p] > Confidence[q]
      <4>1. 99 - Confidence[p] <= 99 - Confidence[q] /\ 99 - Confidence[p] # 99 - Confidence[q]
        BY <2>1, <2>4
      <4>2. PICK a \in 0 .. 99, b \in 0 .. 99 : a = Confidence[p] /\ b = Confidence[q]
        BY <2>2
      <4>3. 99 - a <= 99 - b /\ 99 - a # 99 - b
        BY <4>1, <4>2
      <4>4. a > b
        BY <4>3
      <4> QED BY <4>2, <4>4
    <3> QED BY <3>1 DEF Before
  <2> QED BY <2>3, <2>4
<1> QED BY <1>5, <1>6

\* The automatic mapping of a portal is one of its properties, or none.
LEMMA AutoMappingIsFound ==
  ASSUME NEW seen \in SUBSET Properties PROVE AutoMapping(seen) \in seen \cup {Unmapped}
<1> DEFINE sure == {p \in Suggested(seen) : Confidence[p] >= 85}
<1>1. sure \in SUBSET Properties /\ sure \subseteq seen
  BY DEF Suggested
<1>2. AutoMapping(seen) = IF sure = {} THEN Unmapped
                           ELSE CHOOSE p \in sure : \A q \in sure \ {p} : Before(p, q)
  BY DEF AutoMapping
<1> HIDE DEF sure
<1>3. CASE sure = {}
  BY <1>2, <1>3
<1>4. CASE sure # {}
  <2>1. \E p \in sure : \A q \in sure \ {p} : Before(p, q)
    BY <1>1, <1>4, FirstProperty
  <2>2. (CHOOSE p \in sure : \A q \in sure \ {p} : Before(p, q)) \in sure
    BY <2>1
  <2> QED BY <1>1, <1>2, <1>4, <2>2
<1> QED BY <1>3, <1>4

-----------------------------------------------------------------------------
(* Mappings: the steps                                                     *)

\* No property is numbered 0.
LEMMA UnmappedIsNone == Unmapped \notin Properties
  BY PortalAssumption DEF Unmapped

\* The invariant holds before the first portal is connected.
LEMMA PortalInitially == PortalInit => PortalInv
<1> SUFFICES ASSUME PortalInit PROVE PortalInv
  OBVIOUS
<1>1. /\ connection = NoConnection /\ discovered = {} /\ mapping = Unmapped /\ restorable = {}
      /\ \A r \in Discoveries : discovery[r].phase = "none"
      /\ \A p \in Properties : suggestion[p] = "none"
      /\ \A a \in Savers : saver[a] = IdleSaver
  BY DEF PortalInit
<1>2. PortalTypeOK
  <2>1. flow \in [Flows -> {"none", "started", "consumed", "over"}]
        /\ runStatus \in [Discoveries -> {"none", "running", "completed", "failed"}]
        /\ suggestion \in [Properties -> {"none", "suggested", "approved", "rejected"}]
    BY DEF PortalInit
  <2>2. discovery \in [Discoveries -> [phase: DiscoveryPhases, of: Portals \cup {"none"}, refresh: BOOLEAN]]
    BY DEF PortalInit, DiscoveryPhases
  <2>3. saver \in [Savers -> Saver]
    BY DEF PortalInit, Saver, IdleSaver
  <2> QED BY <1>1, <2>1, <2>2, <2>3 DEF PortalTypeOK
<1>3. Writing = {}
  BY <1>1 DEF Writing, IdleSaver
<1>4. ApprovedIsMapped /\ OneWriter /\ WriterReachesApproved /\ DiscoveryIsConnected
  BY <1>1, <1>3 DEF ApprovedIsMapped, OneWriter, WriterReachesApproved, DiscoveryIsConnected
<1> QED BY <1>2, <1>4 DEF PortalInv

\* Steps of the connection and of a discovery that reach neither the field nor a
\* suggestion, and leave every discovery with its portal.
LEMMA SetupKeeps ==
  ASSUME PortalInv, UNCHANGED <<suggestion, mapping, restorable, saver>>,
         connection' \in Connection \cup {NoConnection}, connection \in Connection => connection' \in Connection,
         flow' \in [Flows -> {"none", "started", "consumed", "over"}], discovered' = discovered,
         runStatus' \in [Discoveries -> {"none", "running", "completed", "failed"}],
         discovery' \in [Discoveries -> [phase: DiscoveryPhases, of: Portals \cup {"none"}, refresh: BOOLEAN]],
         \A r \in Discoveries : discovery'[r].phase # "none" =>
             \/ discovery[r].phase # "none" /\ discovery'[r].of = discovery[r].of
             \/ discovery'[r].of \in Portals /\ connection' \in Connection
  PROVE  PortalInv'
<1>1. PortalTypeOK'
  BY DEF PortalInv, PortalTypeOK
<1>2. Writing' = Writing
  BY DEF Writing
<1>3. ApprovedIsMapped' /\ OneWriter' /\ WriterReachesApproved'
  BY <1>2 DEF PortalInv, ApprovedIsMapped, OneWriter, WriterReachesApproved
<1>4. DiscoveryIsConnected'
  BY DEF PortalInv, DiscoveryIsConnected
<1> QED BY <1>1, <1>3, <1>4 DEF PortalInv

\* A step of a save that leaves the field alone.
LEMMA SaverKeeps ==
  ASSUME PortalInv, UNCHANGED <<setupVars, suggestion, mapping, restorable>>, NEW a \in Savers, NEW s \in Saver,
         saver' = [saver EXCEPT ![a] = s],
         s.phase = "writing" =>
            Writing = {} /\ {p \in Properties : suggestion[p] = "approved"} \subseteq s.rows
  PROVE  PortalInv'
<1>1. saver' \in [Savers -> Saver] /\ saver'[a] = s /\ \A b \in Savers \ {a} : saver'[b] = saver[b]
  BY DEF PortalInv, PortalTypeOK
<1>2. PortalTypeOK'
  BY <1>1 DEF PortalInv, PortalTypeOK, setupVars
<1>3. ApprovedIsMapped' /\ DiscoveryIsConnected'
  BY DEF PortalInv, ApprovedIsMapped, DiscoveryIsConnected, setupVars
<1>4. OneWriter'
  BY <1>1 DEF PortalInv, OneWriter, Writing
<1>5. WriterReachesApproved'
  BY <1>1 DEF PortalInv, WriterReachesApproved, Writing
<1> QED BY <1>2, <1>3, <1>4, <1>5 DEF PortalInv

\* A save checks the property against the schema without a lock.
LEMMA ValidateKeeps ==
  ASSUME PortalInv, NEW a \in Savers, NEW to \in Properties \cup {Unmapped}, NEW v \in BOOLEAN, Validate(a, to, v)
  PROVE  PortalInv'
<1> DEFINE s == [phase |-> "validated", to |-> to, versioned |-> v, rows |-> {}]
<1>1. s \in Saver /\ s.phase # "writing"
  BY DEF Saver
<1>2. saver' = [saver EXCEPT ![a] = s] /\ UNCHANGED <<setupVars, suggestion, mapping, restorable>>
  BY DEF Validate
<1> HIDE DEF s
<1> QED BY <1>1, <1>2, SaverKeeps

\* A save locks the mapping and clears the suggestions it finds.
LEMMA WriteMappingKeeps ==
  ASSUME PortalInv, NEW a \in Savers, WriteMapping(a) PROVE PortalInv'
<1> DEFINE rows == IF Persisting = {} THEN Properties
                   ELSE {p \in Properties : suggestion[p] \in {"approved", "rejected"}}
           s == [saver[a] EXCEPT !.phase = "writing", !.rows = rows]
<1>1. saver[a] \in Saver /\ saver[a].phase = "validated" /\ Writing = {}
      /\ UNCHANGED <<setupVars, suggestion, mapping, restorable>>
      /\ (saver' = [saver EXCEPT ![a] = IdleSaver] \/ saver' = [saver EXCEPT ![a] = s])
  BY DEF WriteMapping, PortalInv, PortalTypeOK
<1>2. rows \in SUBSET Properties /\ {p \in Properties : suggestion[p] = "approved"} \subseteq rows
  OBVIOUS
<1> HIDE DEF rows
<1>3. s \in Saver /\ s.rows = rows
  BY <1>1, <1>2 DEF Saver
<1>4. IdleSaver \in Saver /\ IdleSaver.phase # "writing"
  BY DEF Saver, IdleSaver
<1> HIDE DEF s
<1>5. CASE saver' = [saver EXCEPT ![a] = IdleSaver]
  BY <1>1, <1>4, <1>5, SaverKeeps
<1>6. CASE saver' = [saver EXCEPT ![a] = s]
  BY <1>1, <1>2, <1>3, <1>6, SaverKeeps
<1> QED BY <1>1, <1>5, <1>6

\* A save decides every suggestion that was approved.
LEMMA CommitMappingKeeps ==
  ASSUME PortalInv, NEW a \in Savers, CommitMapping(a) PROVE PortalInv'
<1> DEFINE to == saver[a].to
<1>0. PortalTypeOK /\ ApprovedIsMapped /\ OneWriter /\ WriterReachesApproved /\ DiscoveryIsConnected
  BY DEF PortalInv
<1>1. saver[a] \in Saver /\ saver[a].phase = "writing" /\ a \in Writing
  BY <1>0 DEF CommitMapping, PortalTypeOK, Writing
<1>2. to \in Properties \cup {Unmapped}
  BY <1>1 DEF Saver
<1>3. /\ mapping' = to /\ UNCHANGED setupVars
      /\ saver' = [saver EXCEPT ![a] = IdleSaver]
      /\ suggestion' = [p \in Properties |->
            IF suggestion[p] # "none" /\ p \in saver[a].rows THEN Decided(p, to) ELSE suggestion[p]]
  BY DEF CommitMapping
<1>4. \A p \in Properties : Decided(p, to) \in {"suggested", "approved", "rejected"}
                            /\ (Decided(p, to) = "approved" => to = p)
  BY DEF Decided
<1>5. restorable' \subseteq Properties
  BY <1>0, <1>2 DEF CommitMapping, PortalTypeOK
<1>6. \A p \in Properties : suggestion[p] = "approved" => p \in saver[a].rows
  BY <1>0, <1>1 DEF WriterReachesApproved
<1> HIDE DEF to
<1>7. suggestion' \in [Properties -> {"none", "suggested", "approved", "rejected"}]
  BY <1>0, <1>3, <1>4 DEF PortalTypeOK
<1>8. ApprovedIsMapped'
  BY <1>3, <1>4, <1>6 DEF ApprovedIsMapped
<1>9. saver' \in [Savers -> Saver] /\ saver'[a].phase = "idle" /\ \A b \in Savers \ {a} : saver'[b] = saver[b]
  BY <1>0, <1>3 DEF PortalTypeOK, Saver, IdleSaver
<1>10. Writing' = {}
  BY <1>0, <1>1, <1>9 DEF OneWriter, Writing
<1>11. PortalTypeOK'
  BY <1>0, <1>2, <1>3, <1>5, <1>7, <1>9 DEF PortalTypeOK, setupVars
<1>12. OneWriter' /\ WriterReachesApproved' /\ DiscoveryIsConnected'
  BY <1>0, <1>3, <1>10 DEF OneWriter, WriterReachesApproved, DiscoveryIsConnected, setupVars
<1> QED BY <1>8, <1>11, <1>12 DEF PortalInv

\* A discovery approves the property it maps, and only where nothing is mapped.
LEMMA CommitPersistKeeps ==
  ASSUME PortalInv, NEW r \in Discoveries, CommitPersist(r) PROVE PortalInv'
<1> DEFINE seen == PropertiesOf[discovery[r].of]
           auto == IF mapping = Unmapped THEN AutoMapping(seen) ELSE Unmapped
<1>0. PortalTypeOK /\ ApprovedIsMapped /\ OneWriter /\ WriterReachesApproved /\ DiscoveryIsConnected
  BY DEF PortalInv
<1>1. discovery[r].of \in Portals /\ connection \in Connection
  BY <1>0 DEF CommitPersist, DiscoveryIsConnected
<1>2. seen \in SUBSET Properties
  BY <1>1 DEF Properties
<1>3. auto \in Properties \cup {Unmapped} /\ (auto # Unmapped => mapping = Unmapped)
  BY <1>2, AutoMappingIsFound
<1>4. /\ auto = Unmapped \/ Writing = {}
      /\ discovered' = seen
      /\ suggestion' = [p \in Properties |-> Rediscovered(p, seen, auto)]
      /\ mapping' = IF auto = Unmapped THEN mapping ELSE auto
      /\ connection' = [connection EXCEPT !.status = "connected"]
      /\ runStatus' = [runStatus EXCEPT ![r] = "completed"]
      /\ UNCHANGED <<flow, restorable, saver>>
  BY DEF CommitPersist
<1>5. discovery' = [s \in Discoveries |->
              CASE s = r -> [discovery[s] EXCEPT !.phase = "over"]
                [] s # r /\ discovery[s].phase = "waiting" ->
                     [discovery[s] EXCEPT !.phase = "failing"]
                [] OTHER -> discovery[s]]
  BY DEF CommitPersist
<1> HIDE DEF seen, auto
<1>6. \A p \in Properties : /\ Rediscovered(p, seen, auto) \in {"none", "suggested", "approved", "rejected"}
                            /\ Rediscovered(p, seen, auto) = "approved" => auto = p \/ suggestion[p] = "approved"
  BY <1>0 DEF Rediscovered, PortalTypeOK
<1>7. connection' \in Connection
  BY <1>1, <1>4 DEF Connection
<1>8. /\ discovery' \in [Discoveries -> [phase: DiscoveryPhases, of: Portals \cup {"none"}, refresh: BOOLEAN]]
      /\ \A s \in Discoveries : discovery'[s].of = discovery[s].of /\ (discovery[s].phase = "none" /\ s # r => discovery'[s].phase = "none")
  BY <1>0, <1>5 DEF PortalTypeOK, DiscoveryPhases
<1>9. PortalTypeOK'
  BY <1>0, <1>2, <1>3, <1>4, <1>6, <1>7, <1>8 DEF PortalTypeOK
<1>10. \A p \in Properties : suggestion'[p] = "approved" => auto = p \/ suggestion[p] = "approved"
  BY <1>4, <1>6
<1>11. \A p \in Properties : p # Unmapped
  BY UnmappedIsNone
<1>12. ApprovedIsMapped'
  BY <1>0, <1>3, <1>4, <1>10, <1>11 DEF ApprovedIsMapped
<1>13. OneWriter' /\ WriterReachesApproved'
  BY <1>0, <1>4, <1>10, <1>11 DEF OneWriter, WriterReachesApproved, Writing
<1>14. DiscoveryIsConnected'
  BY <1>0, <1>1, <1>7, <1>8 DEF DiscoveryIsConnected
<1> QED BY <1>9, <1>12, <1>13, <1>14 DEF PortalInv

\* A discovery that ends early leaves the suggestions as they are.
LEMMA AbandonKeeps ==
  ASSUME PortalInv, NEW r \in Discoveries, discovery[r].phase # "none", Abandon(r, "over"),
         connection' \in Connection, runStatus' \in [Discoveries -> {"none", "running", "completed", "failed"}]
  PROVE  PortalInv'
<1>0. PortalTypeOK /\ ApprovedIsMapped /\ OneWriter /\ WriterReachesApproved /\ DiscoveryIsConnected
  BY DEF PortalInv
<1>1. UNCHANGED <<flow, discovered, suggestion, mapping, restorable>>
  BY DEF Abandon
<1>2. discovery' = [s \in Discoveries |->
          CASE s = r -> [discovery[s] EXCEPT !.phase = "over"]
            [] s # r /\ discovery[s].phase = "waiting" /\ discovery[r].phase = "persisting" ->
                 [discovery[s] EXCEPT !.phase = "fetched"]
            [] OTHER -> discovery[s]]
  BY DEF Abandon
<1>3. /\ discovery' \in [Discoveries -> [phase: DiscoveryPhases, of: Portals \cup {"none"}, refresh: BOOLEAN]]
      /\ \A s \in Discoveries : discovery'[s].of = discovery[s].of /\ (discovery[s].phase = "none" /\ s # r => discovery'[s].phase = "none")
  BY <1>0, <1>2 DEF PortalTypeOK, DiscoveryPhases
<1>4. /\ saver' \in [Savers -> Saver]
      /\ \A a \in Savers : saver'[a].phase = saver[a].phase
      /\ \A a \in Writing : saver'[a] = saver[a] \/ saver'[a].rows = Properties
  <2>1. saver' = [a \in Savers |-> IF a \in Writing /\ discovery[r].phase = "persisting"
                                     THEN [saver[a] EXCEPT !.rows = Properties] ELSE saver[a]]
    BY DEF Abandon
  <2>2. ASSUME NEW a \in Writing
        PROVE  [saver[a] EXCEPT !.rows = Properties] \in Saver
               /\ [saver[a] EXCEPT !.rows = Properties].phase = saver[a].phase
               /\ [saver[a] EXCEPT !.rows = Properties].rows = Properties
    <3>1. saver[a] \in Saver /\ saver[a].phase = "writing"
      BY <1>0, <2>2 DEF Writing, PortalTypeOK
    <3> QED BY <3>1 DEF Saver
  <2>3. \A a \in Savers : saver[a] \in Saver
    BY <1>0 DEF PortalTypeOK
  <2>4. Writing \subseteq Savers
    BY DEF Writing
  <2> QED BY <2>1, <2>2, <2>3, <2>4
<1>5. PortalTypeOK'
  BY <1>0, <1>1, <1>3, <1>4 DEF PortalTypeOK
<1>6. Writing' = Writing
  BY <1>4 DEF Writing
<1>7. ApprovedIsMapped' /\ OneWriter' /\ WriterReachesApproved'
  BY <1>0, <1>1, <1>4, <1>6 DEF ApprovedIsMapped, OneWriter, WriterReachesApproved
<1>8. DiscoveryIsConnected'
  BY <1>0, <1>3 DEF DiscoveryIsConnected
<1> QED BY <1>5, <1>7, <1>8 DEF PortalInv

\* Every step of connections, discoveries and saves preserves the invariant.
LEMMA PortalNextKeeps == PortalInv /\ [PortalNext]_portalVars => PortalInv'
<1> SUFFICES ASSUME PortalInv, [PortalNext]_portalVars PROVE PortalInv'
  OBVIOUS
<1> DEFINE Run == [phase: DiscoveryPhases, of: Portals \cup {"none"}, refresh: BOOLEAN]
<1>0. PortalTypeOK /\ DiscoveryIsConnected
  BY DEF PortalInv
<1>1. CASE UNCHANGED portalVars
  BY <1>1 DEF portalVars, PortalInv, PortalTypeOK, ApprovedIsMapped, OneWriter, WriterReachesApproved,
              DiscoveryIsConnected, Writing
<1>2. ASSUME NEW f \in Flows, StartOAuth(f) \/ ConsumeState(f) \/ FlowEnds(f) PROVE PortalInv'
  <2>1. PICK from, to \in {"none", "started", "consumed", "over"} : MoveFlow(f, from, to)
    BY <1>2 DEF StartOAuth, ConsumeState, FlowEnds
  <2>2. flow' \in [Flows -> {"none", "started", "consumed", "over"}]
    BY <1>0, <2>1 DEF MoveFlow, PortalTypeOK
  <2>3. UNCHANGED <<connection, discovery, runStatus, mappingVars>>
    BY <2>1 DEF MoveFlow
  <2> QED BY <1>0, <2>2, <2>3, SetupKeeps DEF mappingVars, PortalTypeOK
<1>3. ASSUME NEW f \in Flows, NEW o \in Portals, SaveConnection(f, o) PROVE PortalInv'
  <2>1. flow' \in [Flows -> {"none", "started", "consumed", "over"}]
    BY <1>0, <1>3 DEF SaveConnection, PortalTypeOK
  <2>2. connection' \in Connection
    BY <1>3 DEF SaveConnection, Connection
  <2>3. UNCHANGED <<discovery, runStatus, mappingVars>>
    BY <1>3 DEF SaveConnection
  <2> QED BY <1>0, <2>1, <2>2, <2>3, SetupKeeps DEF mappingVars, PortalTypeOK
<1>4. CASE TokenAges
  <2>1. connection' \in Connection
    BY <1>0, <1>4 DEF TokenAges, PortalTypeOK, Connection
  <2>2. UNCHANGED <<flow, discovery, runStatus, mappingVars>>
    BY <1>4 DEF TokenAges
  <2> QED BY <1>0, <2>1, <2>2, SetupKeeps DEF mappingVars, PortalTypeOK
<1>5. ASSUME NEW r \in Discoveries, StartDiscovery(r) PROVE PortalInv'
  <2> DEFINE d == [phase |-> IF connection.aging THEN "started" ELSE "fetching",
                   of |-> connection.tokens, refresh |-> connection.aging]
  <2>1. connection \in Connection
    BY <1>0, <1>5 DEF StartDiscovery, PortalTypeOK
  <2>2. d \in Run /\ d.of \in Portals
    BY <2>1 DEF Connection, DiscoveryPhases
  <2>3. discovery' = [discovery EXCEPT ![r] = d] /\ UNCHANGED <<connection, flow, mappingVars>>
        /\ runStatus' = [runStatus EXCEPT ![r] = "running"]
    BY <1>5 DEF StartDiscovery
  <2> HIDE DEF d
  <2>4. /\ discovery' \in [Discoveries -> Run] /\ discovery'[r] = d
        /\ \A s \in Discoveries \ {r} : discovery'[s] = discovery[s]
        /\ runStatus' \in [Discoveries -> {"none", "running", "completed", "failed"}]
    BY <1>0, <2>2, <2>3 DEF PortalTypeOK
  <2> QED BY <1>0, <2>1, <2>2, <2>3, <2>4, SetupKeeps DEF mappingVars, PortalTypeOK
<1>6. ASSUME NEW r \in Discoveries, RefreshToken(r) \/ SaveTokens(r) \/ FetchPortal(r) \/ BeginPersist(r)
      PROVE  PortalInv'
  <2>1. PICK phase \in DiscoveryPhases : Phase(r, phase)
    BY <1>6 DEF RefreshToken, SaveTokens, FetchPortal, BeginPersist, DiscoveryPhases
  <2>2. discovery[r].phase # "none" /\ UNCHANGED <<flow, runStatus, mappingVars>>
    BY <1>6 DEF RefreshToken, SaveTokens, FetchPortal, BeginPersist
  <2>3. discovery[r].of \in Portals /\ connection \in Connection
    BY <1>0, <2>2 DEF DiscoveryIsConnected
  <2>4. connection' \in Connection
    BY <1>6, <2>3 DEF RefreshToken, SaveTokens, FetchPortal, BeginPersist, Connection
  <2>5. /\ discovery' \in [Discoveries -> Run] /\ discovery'[r].of = discovery[r].of
        /\ \A s \in Discoveries \ {r} : discovery'[s] = discovery[s]
    BY <1>0, <2>1 DEF PortalTypeOK, Phase
  <2> QED BY <1>0, <2>2, <2>3, <2>4, <2>5, SetupKeeps DEF mappingVars, PortalTypeOK
<1>7. ASSUME NEW r \in Discoveries, DiscoveryFails(r) \/ DiscoveryDies(r) PROVE PortalInv'
  <2>1. discovery[r].phase # "none" /\ Abandon(r, "over")
    BY <1>7 DEF DiscoveryFails, DiscoveryDies
  <2>2. connection \in Connection
    BY <1>0, <2>1 DEF DiscoveryIsConnected
  <2>3. connection' \in Connection
    BY <1>7, <2>2 DEF DiscoveryFails, DiscoveryDies, Connection
  <2>4. runStatus' \in [Discoveries -> {"none", "running", "completed", "failed"}]
    BY <1>0, <1>7 DEF DiscoveryFails, DiscoveryDies, PortalTypeOK
  <2> QED BY <2>1, <2>3, <2>4, AbandonKeeps
<1>8. ASSUME NEW a \in Savers, NEW p \in Properties, ValidateProperty(a, p) \/ ValidateVersion(a, p)
      PROVE  PortalInv'
  <2>1. PICK v \in BOOLEAN : Validate(a, p, v)
    BY <1>8 DEF ValidateProperty, ValidateVersion
  <2> QED BY <2>1, ValidateKeeps
<1>9. ASSUME NEW a \in Savers, ValidateRemoval(a) PROVE PortalInv'
  BY <1>9, ValidateKeeps DEF ValidateRemoval
<1>10. ASSUME NEW a \in Savers, SaveFails(a) PROVE PortalInv'
  <2>1. IdleSaver \in Saver /\ IdleSaver.phase # "writing"
    BY DEF Saver, IdleSaver
  <2>2. saver' = [saver EXCEPT ![a] = IdleSaver] /\ UNCHANGED <<setupVars, suggestion, mapping, restorable>>
    BY <1>10 DEF SaveFails
  <2> QED BY <2>1, <2>2, SaverKeeps
<1> QED BY <1>1, <1>2, <1>3, <1>4, <1>5, <1>6, <1>7, <1>8, <1>9, <1>10, WriteMappingKeeps, CommitMappingKeeps,
           CommitPersistKeeps DEF PortalNext

-----------------------------------------------------------------------------
(* Mappings: the theorems                                                  *)

\* Connections, schemas, suggestions, mappings and requests keep their types.
THEOREM PortalTypeCorrect == PortalSpec => []PortalTypeOK
<1>1. PortalInv => PortalTypeOK
  BY DEF PortalInv
<1> QED BY <1>1, PortalInitially, PortalNextKeeps, PTL DEF PortalSpec

\* An approved suggestion is the one that is mapped, whichever saves, discoveries
\* and reconnections interleave.
THEOREM ApprovedCorrect == PortalSpec => []ApprovedIsMapped
<1>1. PortalInv => ApprovedIsMapped
  BY DEF PortalInv
<1> QED BY <1>1, PortalInitially, PortalNextKeeps, PTL DEF PortalSpec

-----------------------------------------------------------------------------
(* Budgets: the invariant                                                  *)

\* The states of an import.
ImportStates == {"none", "imported", "active", "archived", "deleted"}

\* The rows of an import, by company, product and month.
BudgetRowsFit(rows) ==
  /\ DOMAIN rows \in SUBSET BudgetKeys
  /\ \A k \in DOMAIN rows :
       /\ rows[k] = [value |-> rows[k].value, count |-> rows[k].count,
                     match |-> rows[k].match, seen |-> rows[k].seen]
       /\ rows[k].match \in MatchStates /\ rows[k].seen \in SUBSET MirrorRecords

\* The rows for which the mirror held no company.
UnmatchedRows(rows) == DOMAIN rows \ MatchedRows(rows)

\* The rows of an import are those of its file; its counter, once written, is
\* theirs, and before that only a manager can have made it the active import.
ImportFits(m) ==
  /\ m = [status |-> m.status, file |-> m.file, rows |-> m.rows, matched |-> m.matched,
          duplicates |-> m.duplicates, rejected |-> m.rejected,
          counted |-> m.counted, early |-> m.early]
  /\ m.status \in ImportStates /\ m.counted \in BOOLEAN /\ m.early \in BOOLEAN
  /\ BudgetRowsFit(m.rows)
  /\ m.matched \in 0..Cardinality(BudgetKeys)
  /\ m.counted => m.matched = Cardinality(MatchedRows(m.rows))
  /\ m.status = "active" => m.counted \/ m.early
  /\ IsExact(m)

\* The phases of an upload before its counter is written.
Matching == {"stored", "companies", "deals", "statused"}

\* The states of a request.
UploadState ==
  {IdleUpload} \cup
  [at: {"stored", "companies", "deals"}, import: Imports, activate: BOOLEAN] \cup
  [at: {"statused"}, import: Imports, activate: BOOLEAN, matched: 0..Cardinality(BudgetKeys)] \cup
  [at: {"matched"}, import: Imports] \cup
  [at: {"reading"}, import: Imports, matched: Nat] \cup
  [at: {"answered"}, import: Imports, matched: Nat, accounts: Nat, unmatched: Nat]

\* The types of imports and requests.
BudgetTyped ==
  /\ DOMAIN imports = Imports /\ imports = [i \in Imports |-> imports[i]]
  /\ \A i \in Imports : ImportFits(imports[i])
  /\ found \in [BudgetKeys -> SUBSET MirrorRecords]
  /\ uploader \in [Uploaders -> UploadState]
  /\ activated \in BOOLEAN /\ orphaned \in BOOLEAN
  /\ moves \in 0..MaxMatches

\* One import at most is active.
OneActive == \A i, j \in BudgetActive : i = j

\* A request is about an import that was inserted; an upload on its way to the
\* counter has not written it, remembers what it will write, and only afterwards
\* comes to its activation.
UploadFits(u) ==
  LET i == uploader[u].import IN
  /\ uploader[u].at # "idle" => imports[i].status # "none"
  /\ uploader[u].at \in Matching => ~imports[i].counted
  /\ uploader[u].at = "statused" /\ Present(i) =>
        uploader[u].matched = Cardinality(MatchedRows(imports[i].rows))
  /\ uploader[u].at = "matched" /\ Present(i) => imports[i].counted

\* Every import has one upload.
UploadsApart ==
  \A u, v \in Uploaders :
    u # v /\ uploader[u].at \in Matching /\ uploader[v].at \in Matching =>
      uploader[u].import # uploader[v].import

\* A report of an import that nobody activated early has read a counter that was
\* written, and rows that do not change any more.
AnswerFits(u) ==
  LET i == uploader[u].import IN
  /\ uploader[u].at \in {"reading", "answered"} /\ Present(i) /\ ~imports[i].early =>
        imports[i].counted /\ uploader[u].matched = imports[i].matched
  /\ uploader[u].at = "answered" /\ Present(i) =>
        /\ uploader[u].accounts = Cardinality(DOMAIN imports[i].rows)
        /\ ~imports[i].early =>
              uploader[u].unmatched = Cardinality(UnmatchedRows(imports[i].rows))

\* All requests.
UploadsFit == UploadsApart /\ \A u \in Uploaders : UploadFits(u) /\ AnswerFits(u)

\* The inductive invariant of the budget.
BudgetInv ==
  /\ BudgetTyped /\ OneActive /\ (activated /\ ~orphaned => BudgetActive # {})
  /\ UploadsFit

-----------------------------------------------------------------------------
(* Budgets: the merge of a file, by induction over its lines               *)

\* The merge of the first n lines of a file, for every n.
LEMMA MergeSteps ==
  ASSUME NEW file \in Seq(Line)
  PROVE  \E f : /\ f[0] = NoLines
                /\ \A n \in 1 .. Len(file) : f[n] = WithLine(f[n - 1], file[n])
                /\ Merged(file) = f[Len(file)]
<1> DEFINE N == Len(file)
           Begins(f, m) == f = [n \in 0 .. m |-> IF n = 0 THEN NoLines ELSE WithLine(f[n - 1], file[n])]
<1>1. N \in Nat
  OBVIOUS
<1>2. \E f : Begins(f, N)
  <2> DEFINE T == {m \in 0 .. N : ~ \E f : Begins(f, m)}
  <2>1. CASE T = {}
    BY <1>1, <2>1
  <2>2. CASE T # {}
    <3>1. T \in SUBSET Nat
      BY <1>1
    <3>2. PICK m \in T : \A n \in T : m <= n
      BY <2>2, <3>1, LeastNumber
    <3>3. m \in 0 .. N /\ m \in Nat
      BY <1>1
    <3>4. CASE m = 0
      <4>1. Begins([n \in 0 .. 0 |-> NoLines], 0)
        OBVIOUS
      <4> QED BY <3>2, <3>4, <4>1
    <3>5. CASE m # 0
      <4>1. m - 1 \in 0 .. N /\ ~(m <= m - 1)
        BY <1>1, <3>3, <3>5
      <4>2. PICK g : Begins(g, m - 1)
        BY <3>2, <4>1
      <4> DEFINE h == [n \in 0 .. m |-> IF n = m THEN WithLine(g[m - 1], file[m]) ELSE g[n]]
      <4>3. ASSUME NEW n \in 0 .. m
            PROVE  h[n] = IF n = 0 THEN NoLines ELSE WithLine(h[n - 1], file[n])
        <5>1. CASE n = m
          <6>1. h[m] = WithLine(g[m - 1], file[m])
            BY <3>3
          <6>2. h[m - 1] = g[m - 1]
            BY <3>3, <3>5
          <6> QED BY <3>5, <5>1, <6>1, <6>2
        <5>2. CASE n # m
          <6>1. n \in 0 .. m - 1 /\ h[n] = g[n]
            BY <3>3, <5>2
          <6>2. g[n] = IF n = 0 THEN NoLines ELSE WithLine(g[n - 1], file[n])
            BY <4>2, <6>1
          <6>3. n # 0 => n - 1 \in 0 .. m /\ n - 1 # m /\ h[n - 1] = g[n - 1]
            BY <3>3, <6>1
          <6> QED BY <6>1, <6>2, <6>3
        <5> QED BY <5>1, <5>2
      <4>4. h = [n \in 0 .. m |-> h[n]]
        OBVIOUS
      <4> HIDE DEF h
      <4>5. h = [n \in 0 .. m |-> IF n = 0 THEN NoLines ELSE WithLine(h[n - 1], file[n])]
        BY <4>3, <4>4
      <4> QED BY <3>2, <4>5
    <3> QED BY <3>4, <3>5
  <2> QED BY <2>1, <2>2
<1> DEFINE f == CHOOSE f : Begins(f, N)
<1>3. Begins(f, N)
  BY <1>2
<1>4. Merged(file) = f[N]
  BY DEF Merged
<1> HIDE DEF f
<1>5. \A n \in 0 .. N : f[n] = IF n = 0 THEN NoLines ELSE WithLine(f[n - 1], file[n])
  BY <1>3
<1>6. f[0] = NoLines /\ \A n \in 1 .. N : f[n] = WithLine(f[n - 1], file[n])
  BY <1>1, <1>5
<1> QED BY <1>4, <1>6

\* What a line adds to the sum of a key.
Addend(line, k) == IF line.key = k THEN line.value ELSE 0

\* The sum of a key over the first n lines of a file, for every n.
LEMMA ValueSteps ==
  ASSUME NEW file \in Seq(Line), NEW k
  PROVE  \E f : /\ f[0] = 0
                /\ \A n \in 1 .. Len(file) : f[n] = f[n - 1] + Addend(file[n], k)
                /\ ValueOf(file, k) = f[Len(file)]
<1> DEFINE N == Len(file)
           Begins(f, m) == f = [n \in 0 .. m |-> IF n = 0 THEN 0 ELSE f[n - 1] + Addend(file[n], k)]
<1>1. N \in Nat
  OBVIOUS
<1>2. \E f : Begins(f, N)
  <2> DEFINE T == {m \in 0 .. N : ~ \E f : Begins(f, m)}
  <2>1. CASE T = {}
    BY <1>1, <2>1
  <2>2. CASE T # {}
    <3>1. T \in SUBSET Nat
      BY <1>1
    <3>2. PICK m \in T : \A n \in T : m <= n
      BY <2>2, <3>1, LeastNumber
    <3>3. m \in 0 .. N /\ m \in Nat
      BY <1>1
    <3>4. CASE m = 0
      <4>1. Begins([n \in 0 .. 0 |-> 0], 0)
        OBVIOUS
      <4> QED BY <3>2, <3>4, <4>1
    <3>5. CASE m # 0
      <4>1. m - 1 \in 0 .. N /\ ~(m <= m - 1)
        BY <1>1, <3>3, <3>5
      <4>2. PICK g : Begins(g, m - 1)
        BY <3>2, <4>1
      <4> DEFINE h == [n \in 0 .. m |-> IF n = m THEN g[m - 1] + Addend(file[m], k) ELSE g[n]]
      <4>3. ASSUME NEW n \in 0 .. m
            PROVE  h[n] = IF n = 0 THEN 0 ELSE h[n - 1] + Addend(file[n], k)
        <5>1. CASE n = m
          <6>1. h[m] = g[m - 1] + Addend(file[m], k)
            BY <3>3
          <6>2. h[m - 1] = g[m - 1]
            BY <3>3, <3>5
          <6> QED BY <3>5, <5>1, <6>1, <6>2
        <5>2. CASE n # m
          <6>1. n \in 0 .. m - 1 /\ h[n] = g[n]
            BY <3>3, <5>2
          <6>2. g[n] = IF n = 0 THEN 0 ELSE g[n - 1] + Addend(file[n], k)
            BY <4>2, <6>1
          <6>3. n # 0 => n - 1 \in 0 .. m /\ n - 1 # m /\ h[n - 1] = g[n - 1]
            BY <3>3, <6>1
          <6> QED BY <6>1, <6>2, <6>3
        <5> QED BY <5>1, <5>2
      <4>4. h = [n \in 0 .. m |-> h[n]]
        OBVIOUS
      <4> HIDE DEF h
      <4>5. h = [n \in 0 .. m |-> IF n = 0 THEN 0 ELSE h[n - 1] + Addend(file[n], k)]
        BY <4>3, <4>4
      <4> QED BY <3>2, <4>5
    <3> QED BY <3>4, <3>5
  <2> QED BY <2>1, <2>2
<1> DEFINE f == CHOOSE f : Begins(f, N)
<1>3. Begins(f, N)
  BY <1>2
<1>4. ValueOf(file, k) = f[N]
  BY DEF ValueOf, Addend
<1> HIDE DEF f
<1>5. \A n \in 0 .. N : f[n] = IF n = 0 THEN 0 ELSE f[n - 1] + Addend(file[n], k)
  BY <1>3
<1>6. f[0] = 0 /\ \A n \in 1 .. N : f[n] = f[n - 1] + Addend(file[n], k)
  BY <1>1, <1>5
<1> QED BY <1>4, <1>6

\* The lines of a key among the first m.
LinesUpTo(file, k, m) == {n \in 1 .. m : file[n].key = k}

\* The merge of the first m lines is exact; sums holds what each key adds up to.
MergeFits(merge, file, m, sums) ==
  /\ merge = [rows |-> merge.rows, duplicates |-> merge.duplicates, rejected |-> merge.rejected]
  /\ merge.duplicates \in Nat /\ merge.rejected \in Nat
  /\ DOMAIN merge.rows = {k \in BudgetKeys : LinesUpTo(file, k, m) # {}}
  /\ \A k \in DOMAIN merge.rows :
       merge.rows[k] = [value |-> sums[k][m], count |-> Cardinality(LinesUpTo(file, k, m)), match |-> "unmatched", seen |-> {}]
  /\ \A k \in BudgetKeys : /\ sums[k][m] \in Nat
                           /\ LinesUpTo(file, k, m) = {} => sums[k][m] = 0
  /\ m = Cardinality(DOMAIN merge.rows) + merge.duplicates + merge.rejected

\* One line more is a line of its key and of no other.
LEMMA OneLineMore ==
  ASSUME NEW file \in Seq(Line), NEW m \in 1 .. Len(file), NEW k
  PROVE  /\ IsFiniteSet(LinesUpTo(file, k, m - 1)) /\ Cardinality(LinesUpTo(file, k, m - 1)) \in Nat
         /\ file[m].key = k => /\ LinesUpTo(file, k, m) # {}
                               /\ Cardinality(LinesUpTo(file, k, m)) = Cardinality(LinesUpTo(file, k, m - 1)) + 1
         /\ file[m].key # k => LinesUpTo(file, k, m) = LinesUpTo(file, k, m - 1)
<1> DEFINE L == LinesUpTo(file, k, m - 1)
<1>1. m \in Nat /\ m - 1 \in Nat /\ 1 .. m = (1 .. m - 1) \cup {m} /\ m \notin 1 .. m - 1
  OBVIOUS
<1>2. L \in SUBSET (1 .. m - 1) /\ m \notin L
  BY <1>1 DEF LinesUpTo
<1>3. IsFiniteSet(L) /\ Cardinality(L) \in Nat
  <2>1. IsFiniteSet(1 .. m - 1)
    BY <1>1, FS_Interval
  <2> HIDE DEF L
  <2> QED BY <1>2, <2>1, FS_Subset, FS_CardinalityType
<1>4. CASE file[m].key = k
  <2>1. LinesUpTo(file, k, m) = L \cup {m}
    BY <1>1, <1>4 DEF LinesUpTo
  <2> HIDE DEF L
  <2>2. Cardinality(L \cup {m}) = Cardinality(L) + 1
    BY <1>2, <1>3, FS_AddElement
  <2> QED BY <1>3, <1>4, <2>1, <2>2 DEF L
<1>5. CASE file[m].key # k
  <2>1. LinesUpTo(file, k, m) = L
    BY <1>1, <1>5 DEF LinesUpTo
  <2> QED BY <1>3, <1>5, <2>1
<1> QED BY <1>4, <1>5

\* A row whose value, or whose count, grows.
LEMMA RowWithValue ==
  ASSUME NEW v, NEW c, NEW m, NEW s, NEW d, NEW old, old = [value |-> v, count |-> c, match |-> m, seen |-> s]
  PROVE  [old EXCEPT !.value = @ + d] = [value |-> v + d, count |-> c, match |-> m, seen |-> s]
<1>1. PICK total : total = v + d
  OBVIOUS
<1>2. [old EXCEPT !.value = total] = [value |-> total, count |-> c, match |-> m, seen |-> s]
  OBVIOUS
<1>3. old.value = v
  OBVIOUS
<1> QED BY <1>1, <1>2, <1>3

LEMMA RowWithCount ==
  ASSUME NEW v, NEW c, NEW m, NEW s, NEW old, old = [value |-> v, count |-> c, match |-> m, seen |-> s]
  PROVE  [old EXCEPT !.count = @ + 1] = [value |-> v, count |-> c + 1, match |-> m, seen |-> s]
<1>1. PICK total : total = c + 1
  OBVIOUS
<1>2. [old EXCEPT !.count = total] = [value |-> v, count |-> total, match |-> m, seen |-> s]
  OBVIOUS
<1>3. old.count = c
  OBVIOUS
<1> QED BY <1>1, <1>2, <1>3

\* A line that is merged keeps the merge exact.
LEMMA LineKeepsMerge ==
  ASSUME NEW file \in Seq(Line), NEW m \in 1 .. Len(file), NEW merge, NEW sums,
         MergeFits(merge, file, m - 1, sums),
         \A k \in BudgetKeys : sums[k][m] = sums[k][m - 1] + Addend(file[m], k)
  PROVE  MergeFits(WithLine(merge, file[m]), file, m, sums)
<1>0. m \in Nat /\ file[m] \in Line
  OBVIOUS
<1>1. PICK line \in Line : line = file[m]
  BY <1>0
<1>2. line.key \in BudgetKeys \cup {NoKey} /\ line.value \in Nat
  BY DEF Line
<1>3. /\ merge = [rows |-> merge.rows, duplicates |-> merge.duplicates, rejected |-> merge.rejected]
      /\ merge.duplicates \in Nat /\ merge.rejected \in Nat
      /\ DOMAIN merge.rows = {k \in BudgetKeys : LinesUpTo(file, k, m - 1) # {}}
      /\ \A k \in DOMAIN merge.rows : merge.rows[k] =
            [value |-> sums[k][m - 1], count |-> Cardinality(LinesUpTo(file, k, m - 1)), match |-> "unmatched", seen |-> {}]
      /\ \A k \in BudgetKeys : /\ sums[k][m - 1] \in Nat
                               /\ LinesUpTo(file, k, m - 1) = {} => sums[k][m - 1] = 0
      /\ m - 1 = Cardinality(DOMAIN merge.rows) + merge.duplicates + merge.rejected
  BY DEF MergeFits
<1>4. \A k \in BudgetKeys : sums[k][m] \in Nat /\ (LinesUpTo(file, k, m) = {} => sums[k][m] = 0)
  <2> SUFFICES ASSUME NEW k \in BudgetKeys
      PROVE  sums[k][m] \in Nat /\ (LinesUpTo(file, k, m) = {} => sums[k][m] = 0)
    OBVIOUS
  <2>1. CASE line.key = k
    <3>1. sums[k][m] = sums[k][m - 1] + line.value
      BY <1>1, <2>1 DEF Addend
    <3> QED BY <1>1, <1>2, <1>3, <2>1, <3>1, OneLineMore
  <2>2. CASE line.key # k
    <3>1. sums[k][m] = sums[k][m - 1] + 0
      BY <1>1, <2>2 DEF Addend
    <3> QED BY <1>1, <1>3, <2>2, <3>1, OneLineMore
  <2> QED BY <2>1, <2>2
<1>5. IsFiniteSet(DOMAIN merge.rows) /\ Cardinality(DOMAIN merge.rows) \in Nat
  <2>1. DOMAIN merge.rows \in SUBSET BudgetKeys
    BY <1>3
  <2> QED BY <2>1, BudgetAssumption, FS_Subset, FS_CardinalityType
<1>6. CASE line.key = NoKey
  <2>1. \A k \in BudgetKeys : line.key # k
    BY <1>6, BudgetAssumption
  <2>2. \A k \in BudgetKeys : LinesUpTo(file, k, m) = LinesUpTo(file, k, m - 1) /\ sums[k][m] = sums[k][m - 1]
    <3> SUFFICES ASSUME NEW k \in BudgetKeys
        PROVE  LinesUpTo(file, k, m) = LinesUpTo(file, k, m - 1) /\ sums[k][m] = sums[k][m - 1]
      OBVIOUS
    <3>1. sums[k][m] = sums[k][m - 1] + 0
      BY <1>1, <2>1 DEF Addend
    <3> QED BY <1>1, <1>3, <2>1, <3>1, OneLineMore
  <2>3. PICK next : next = WithLine(merge, line)
    OBVIOUS
  <2>4. next.rows = merge.rows /\ next.duplicates = merge.duplicates /\ next.rejected = merge.rejected + 1
        /\ next = [rows |-> next.rows, duplicates |-> next.duplicates, rejected |-> next.rejected]
    BY <1>3, <1>6, <2>3 DEF WithLine
  <2>5. DOMAIN next.rows = {k \in BudgetKeys : LinesUpTo(file, k, m) # {}}
    BY <1>3, <2>2, <2>4
  <2>6. \A k \in DOMAIN next.rows : next.rows[k] =
          [value |-> sums[k][m], count |-> Cardinality(LinesUpTo(file, k, m)), match |-> "unmatched", seen |-> {}]
    BY <1>3, <2>2, <2>4, <2>5
  <2>7. m = Cardinality(DOMAIN next.rows) + next.duplicates + next.rejected
    <3>1. PICK c \in Nat, d \in Nat, r \in Nat :
            c = Cardinality(DOMAIN merge.rows) /\ d = merge.duplicates /\ r = merge.rejected
      BY <1>3, <1>5
    <3>2. m - 1 = c + d + r
      BY <1>3, <3>1
    <3>3. Cardinality(DOMAIN next.rows) = c /\ next.duplicates = d /\ next.rejected = r + 1
      BY <2>4, <3>1
    <3>4. m = c + d + (r + 1)
      BY <1>0, <3>2
    <3> QED BY <3>3, <3>4
  <2>8. next.duplicates \in Nat /\ next.rejected \in Nat
    BY <1>3, <2>4
  <2> QED BY <1>1, <1>4, <2>3, <2>4, <2>5, <2>6, <2>7, <2>8 DEF MergeFits
<1>7. CASE line.key # NoKey
  <2> DEFINE key == line.key
             D == DOMAIN merge.rows
  <2>0. key \in BudgetKeys
    BY <1>2, <1>7
  <2>1. PICK row : row = IF key \in D
                           THEN [merge.rows[key] EXCEPT !.value = @ + line.value, !.count = @ + 1]
                           ELSE [value |-> line.value, count |-> 1, match |-> "unmatched", seen |-> {}]
    OBVIOUS
  <2>2. PICK next : next = WithLine(merge, line)
    OBVIOUS
  <2>3. /\ next = [rows |-> next.rows, duplicates |-> next.duplicates, rejected |-> next.rejected]
        /\ next.rows = [j \in D \cup {key} |-> IF j = key THEN row ELSE merge.rows[j]]
        /\ next.duplicates = merge.duplicates + (IF key \in D THEN 1 ELSE 0)
        /\ next.rejected = merge.rejected
    BY <1>3, <1>7, <2>1, <2>2 DEF WithLine
  <2>4. \A k \in BudgetKeys \ {key} :
          LinesUpTo(file, k, m) = LinesUpTo(file, k, m - 1) /\ sums[k][m] = sums[k][m - 1]
    <3> SUFFICES ASSUME NEW k \in BudgetKeys \ {key}
        PROVE  LinesUpTo(file, k, m) = LinesUpTo(file, k, m - 1) /\ sums[k][m] = sums[k][m - 1]
      OBVIOUS
    <3>1. sums[k][m] = sums[k][m - 1] + 0
      BY <1>1 DEF Addend
    <3> QED BY <1>1, <1>3, <3>1, OneLineMore
  <2>5. /\ LinesUpTo(file, key, m) # {}
        /\ Cardinality(LinesUpTo(file, key, m)) = Cardinality(LinesUpTo(file, key, m - 1)) + 1
        /\ sums[key][m] = sums[key][m - 1] + line.value
    <3>1. sums[key][m] = sums[key][m - 1] + Addend(line, key)
      BY <1>1, <2>0
    <3>2. Addend(line, key) = line.value
      BY DEF Addend
    <3> QED BY <1>1, <3>1, <3>2, OneLineMore
  <2>6. row = [value |-> sums[key][m], count |-> Cardinality(LinesUpTo(file, key, m)), match |-> "unmatched", seen |-> {}]
    <3>1. CASE key \in D
      <4>1. merge.rows[key] = [value |-> sums[key][m - 1], count |-> Cardinality(LinesUpTo(file, key, m - 1)),
                               match |-> "unmatched", seen |-> {}]
        BY <1>3, <3>1
      <4>2. row = [merge.rows[key] EXCEPT !.value = @ + line.value, !.count = @ + 1]
        BY <2>1, <3>1
      <4>3. PICK v \in Nat, c \in Nat :
              v = sums[key][m - 1] /\ c = Cardinality(LinesUpTo(file, key, m - 1))
        BY <1>3, <2>0, OneLineMore
      <4>4. row = [value |-> v + line.value, count |-> c + 1, match |-> "unmatched", seen |-> {}]
        <5>1. PICK old : old = [value |-> v, count |-> c, match |-> "unmatched", seen |-> {}]
          OBVIOUS
        <5>2. merge.rows[key] = old
          BY <4>1, <4>3, <5>1
        <5>3. row = [old EXCEPT !.value = @ + line.value, !.count = @ + 1]
          BY <4>2, <5>2
        <5>4. PICK more \in Nat : more = line.value
          BY <1>2
        <5>5. row = [old EXCEPT !.value = @ + more, !.count = @ + 1]
          BY <5>3, <5>4
        <5>6. [old EXCEPT !.value = @ + more, !.count = @ + 1]
                = [value |-> v + more, count |-> c + 1, match |-> "unmatched", seen |-> {}]
          <6>1. PICK new : new = [old EXCEPT !.value = @ + more]
            OBVIOUS
          <6>2. new = [value |-> v + more, count |-> c, match |-> "unmatched", seen |-> {}]
            BY <5>1, <6>1, RowWithValue
          <6>3. [new EXCEPT !.count = @ + 1]
                  = [value |-> v + more, count |-> c + 1, match |-> "unmatched", seen |-> {}]
            BY <6>2, RowWithCount
          <6> QED BY <6>1, <6>3
        <5> QED BY <5>4, <5>5, <5>6
      <4> QED BY <2>5, <4>3, <4>4
    <3>2. CASE key \notin D
      <4>1. LinesUpTo(file, key, m - 1) = {} /\ sums[key][m - 1] = 0
        BY <1>3, <2>0, <3>2
      <4>2. Cardinality(LinesUpTo(file, key, m - 1)) = 0
        BY <4>1, FS_EmptySet
      <4>3. row = [value |-> line.value, count |-> 1, match |-> "unmatched", seen |-> {}]
        BY <2>1, <3>2
      <4>4. sums[key][m] = line.value
        BY <1>2, <2>5, <4>1
      <4>5. Cardinality(LinesUpTo(file, key, m)) = 1
        BY <2>5, <4>2
      <4> QED BY <4>3, <4>4, <4>5
    <3> QED BY <3>1, <3>2
  <2>7. DOMAIN next.rows = D \cup {key}
    BY <2>3
  <2>8. D \cup {key} = {k \in BudgetKeys : LinesUpTo(file, k, m) # {}}
    BY <1>3, <2>0, <2>4, <2>5
  <2> HIDE DEF D, key
  <2>9. \A k \in DOMAIN next.rows : next.rows[k] =
          [value |-> sums[k][m], count |-> Cardinality(LinesUpTo(file, k, m)), match |-> "unmatched", seen |-> {}]
    <3> SUFFICES ASSUME NEW k \in D \cup {key}
        PROVE  next.rows[k] =
          [value |-> sums[k][m], count |-> Cardinality(LinesUpTo(file, k, m)), match |-> "unmatched", seen |-> {}]
      BY <2>7
    <3>1. CASE k = key
      BY <2>3, <2>6, <3>1
    <3>2. CASE k # key
      <4>1. k \in BudgetKeys \ {key} /\ k \in D
        BY <2>8, <3>2
      <4>2. next.rows[k] = merge.rows[k]
        BY <2>3, <3>2
      <4> QED BY <1>3, <2>4, <4>1, <4>2 DEF D
    <3> QED BY <3>1, <3>2
  <2>10. Cardinality(D \cup {key}) = Cardinality(D) + (IF key \in D THEN 0 ELSE 1) /\ Cardinality(D) \in Nat
    <3>1. IsFiniteSet(D)
      BY <1>5 DEF D
    <3> QED BY <3>1, FS_AddElement, FS_CardinalityType
  <2>11. m = Cardinality(DOMAIN next.rows) + next.duplicates + next.rejected
    <3>1. m - 1 = Cardinality(D) + merge.duplicates + merge.rejected
      BY <1>3 DEF D
    <3> QED BY <1>0, <1>3, <2>3, <2>7, <2>10, <3>1
  <2>12. next.duplicates \in Nat /\ next.rejected \in Nat
    BY <1>3, <2>3
  <2> QED BY <1>1, <1>4, <2>2, <2>3, <2>7, <2>8, <2>9, <2>11, <2>12 DEF MergeFits
<1> QED BY <1>6, <1>7

\* Before the first line nothing is merged.
LEMMA NoLinesFit ==
  ASSUME NEW file \in Seq(Line), NEW sums, \A k \in BudgetKeys : sums[k][0] = 0
  PROVE  MergeFits(NoLines, file, 0, sums)
<1>1. \A k : LinesUpTo(file, k, 0) = {}
  BY DEF LinesUpTo
<1>2. DOMAIN NoLines.rows = {} /\ NoLines.duplicates = 0 /\ NoLines.rejected = 0
      /\ NoLines = [rows |-> NoLines.rows, duplicates |-> NoLines.duplicates, rejected |-> NoLines.rejected]
  BY DEF NoLines
<1>3. Cardinality({}) = 0
  BY FS_EmptySet
<1> QED BY <1>1, <1>2, <1>3 DEF MergeFits

\* The merge of a whole file is exact, by induction over its lines: the first
\* line after which it were not would have broken an exact merge.
LEMMA MergedFits ==
  ASSUME NEW file \in Seq(Line)
  PROVE  \E sums : /\ MergeFits(Merged(file), file, Len(file), sums)
                   /\ \A k \in BudgetKeys : sums[k][Len(file)] = ValueOf(file, k)
<1> DEFINE N == Len(file)
           Sums(f, k) == /\ f[0] = 0
                         /\ \A n \in 1 .. N : f[n] = f[n - 1] + Addend(file[n], k)
                         /\ ValueOf(file, k) = f[N]
<1>1. N \in Nat
  OBVIOUS
<1>2. ASSUME NEW k \in BudgetKeys PROVE \E f : Sums(f, k)
  BY ValueSteps
<1>3. PICK sums : \A k \in BudgetKeys : Sums(sums[k], k)
  <2> DEFINE S == [k \in BudgetKeys |-> CHOOSE f : Sums(f, k)]
  <2> HIDE DEF Sums
  <2>1. \A k \in BudgetKeys : Sums(S[k], k)
    BY <1>2
  <2> QED BY <2>1
<1>4. PICK merge : /\ merge[0] = NoLines
                   /\ \A n \in 1 .. N : merge[n] = WithLine(merge[n - 1], file[n])
                   /\ Merged(file) = merge[N]
  BY MergeSteps
<1> DEFINE T == {m \in 0 .. N : ~ MergeFits(merge[m], file, m, sums)}
<1>5. T = {}
  <2> SUFFICES ASSUME T # {} PROVE FALSE
    OBVIOUS
  <2>1. T \in SUBSET Nat
    BY <1>1
  <2>2. PICK m \in T : \A n \in T : m <= n
    BY <2>1, LeastNumber
  <2>3. m \in 0 .. N /\ m \in Nat /\ ~ MergeFits(merge[m], file, m, sums)
    BY <1>1
  <2>4. CASE m = 0
    <3>1. \A k \in BudgetKeys : sums[k][0] = 0
      BY <1>3
    <3> QED BY <1>4, <2>3, <2>4, <3>1, NoLinesFit
  <2>5. CASE m # 0
    <3>1. m \in 1 .. N /\ m - 1 \in 0 .. N /\ ~(m <= m - 1)
      BY <1>1, <2>3, <2>5
    <3>2. MergeFits(merge[m - 1], file, m - 1, sums)
      BY <2>2, <3>1
    <3>3. \A k \in BudgetKeys : sums[k][m] = sums[k][m - 1] + Addend(file[m], k)
      BY <1>3, <3>1
    <3>4. MergeFits(WithLine(merge[m - 1], file[m]), file, m, sums)
      BY <3>1, <3>2, <3>3, LineKeepsMerge
    <3> QED BY <1>4, <2>3, <3>1, <3>4
  <2> QED BY <2>4, <2>5
<1>6. MergeFits(merge[N], file, N, sums)
  BY <1>1, <1>5
<1> QED BY <1>3, <1>4, <1>6

\* A new import fits its file: it has a row for every key with the number and the
\* sum of its lines, every other line is a duplicate or rejected, no row is matched
\* yet, and nothing is counted.
LEMMA NewImportFits ==
  ASSUME NEW file \in Seq(Line), NEW status \in ImportStates \ {"active"}
  PROVE  ImportFits(NewImport(status, file))
<1>1. PICK merged : merged = Merged(file)
  OBVIOUS
<1>2. PICK sums : /\ MergeFits(merged, file, Len(file), sums)
                  /\ \A k \in BudgetKeys : sums[k][Len(file)] = ValueOf(file, k)
  BY <1>1, MergedFits
<1>3. PICK m : m = NewImport(status, file)
  OBVIOUS
<1>4. m = [status |-> status, file |-> file, rows |-> merged.rows, matched |-> 0,
           duplicates |-> merged.duplicates, rejected |-> merged.rejected,
           counted |-> FALSE, early |-> FALSE]
  BY <1>1, <1>3 DEF NewImport
<1>5. PICK rows : rows = merged.rows
  OBVIOUS
<1>6. \A k : LinesUpTo(file, k, Len(file)) = LinesOf(file, k)
  BY DEF LinesUpTo, LinesOf
<1>7. /\ DOMAIN rows = {k \in BudgetKeys : LinesOf(file, k) # {}}
      /\ \A k \in DOMAIN rows : rows[k] =
           [value |-> ValueOf(file, k), count |-> Cardinality(LinesOf(file, k)),
            match |-> "unmatched", seen |-> {}]
      /\ Len(file) = Cardinality(DOMAIN rows) + merged.duplicates + merged.rejected
  BY <1>2, <1>5, <1>6 DEF MergeFits
<1>8. \A k \in DOMAIN rows :
        /\ rows[k] = [value |-> rows[k].value, count |-> rows[k].count,
                      match |-> rows[k].match, seen |-> rows[k].seen]
        /\ rows[k].count = Cardinality(LinesOf(file, k)) /\ rows[k].value = ValueOf(file, k)
        /\ rows[k].match = "unmatched" /\ rows[k].seen = {}
  <2> SUFFICES ASSUME NEW k \in DOMAIN rows
      PROVE  /\ rows[k] = [value |-> rows[k].value, count |-> rows[k].count,
                           match |-> rows[k].match, seen |-> rows[k].seen]
             /\ rows[k].count = Cardinality(LinesOf(file, k)) /\ rows[k].value = ValueOf(file, k)
             /\ rows[k].match = "unmatched" /\ rows[k].seen = {}
    OBVIOUS
  <2>1. PICK v, c : v = ValueOf(file, k) /\ c = Cardinality(LinesOf(file, k))
    OBVIOUS
  <2>2. rows[k] = [value |-> v, count |-> c, match |-> "unmatched", seen |-> {}]
    BY <1>7, <2>1
  <2> QED BY <2>1, <2>2
<1>9. BudgetRowsFit(rows)
  BY <1>7, <1>8 DEF BudgetRowsFit, MatchStates
<1>10. 0 \in 0..Cardinality(BudgetKeys)
  BY BudgetAssumption, FS_CardinalityType
<1>11. IsExact(m)
  <2>1. m.file = file /\ m.rows = rows /\ m.duplicates = merged.duplicates /\ m.rejected = merged.rejected
    BY <1>4, <1>5
  <2> QED BY <1>7, <1>8, <2>1 DEF IsExact
<1>12. /\ m.rows = rows /\ m.matched = 0 /\ m.status = status /\ m.counted = FALSE /\ m.early = FALSE
       /\ m = [status |-> m.status, file |-> m.file, rows |-> m.rows, matched |-> m.matched,
               duplicates |-> m.duplicates, rejected |-> m.rejected,
               counted |-> m.counted, early |-> m.early]
  BY <1>4, <1>5
<1> QED BY <1>3, <1>9, <1>10, <1>11, <1>12 DEF ImportFits

\* The status of a new import, which is not counted.
LEMMA NewImportIs ==
  ASSUME NEW file, NEW status
  PROVE  NewImport(status, file).status = status /\ ~NewImport(status, file).counted
BY DEF NewImport

\* An import that keeps its file and the counts and values of its rows stays exact.
LEMMA ExactStays ==
  ASSUME NEW m, NEW n, IsExact(m), n.file = m.file, n.duplicates = m.duplicates, n.rejected = m.rejected,
         DOMAIN n.rows = DOMAIN m.rows,
         \A k \in DOMAIN m.rows : n.rows[k].count = m.rows[k].count /\ n.rows[k].value = m.rows[k].value
  PROVE  IsExact(n)
BY DEF IsExact

-----------------------------------------------------------------------------
(* Budgets: rows and requests                                              *)

\* The rows of an import are matched or not.
LEMMA RowsAreSplit ==
  ASSUME NEW rows, BudgetRowsFit(rows)
  PROVE  /\ Cardinality(DOMAIN rows) \in Nat /\ Cardinality(MatchedRows(rows)) \in Nat
         /\ Cardinality(UnmatchedRows(rows)) \in Nat
         /\ Cardinality(MatchedRows(rows)) + Cardinality(UnmatchedRows(rows)) = Cardinality(DOMAIN rows)
         /\ Cardinality(MatchedRows(rows)) <= Cardinality(BudgetKeys) /\ Cardinality(BudgetKeys) \in Nat
<1> DEFINE D == DOMAIN rows
           M == MatchedRows(rows)
           N == UnmatchedRows(rows)
<1>1. D \in SUBSET BudgetKeys /\ IsFiniteSet(BudgetKeys)
  BY BudgetAssumption DEF BudgetRowsFit
<1>2. M \in SUBSET D /\ N \in SUBSET D /\ M \cup N = D /\ M \cap N = {} /\ M \in SUBSET BudgetKeys
  BY <1>1 DEF MatchedRows, UnmatchedRows
<1> HIDE DEF D, M, N
<1>3. IsFiniteSet(D) /\ IsFiniteSet(M) /\ IsFiniteSet(N)
  BY <1>1, <1>2, FS_Subset
<1>4. Cardinality(D) \in Nat /\ Cardinality(M) \in Nat /\ Cardinality(N) \in Nat /\ Cardinality(BudgetKeys) \in Nat
  BY <1>1, <1>3, FS_CardinalityType
<1>5. Cardinality(D) = Cardinality(M) + Cardinality(N) - Cardinality(M \cap N) /\ Cardinality(M \cap N) = 0
  BY <1>2, <1>3, FS_Union, FS_EmptySet
<1>6. Cardinality(M) <= Cardinality(BudgetKeys)
  BY <1>1, <1>2, FS_Subset
<1> QED BY <1>4, <1>5, <1>6 DEF D, M, N

\* The states of a request.
LEMMA UploadIs ==
  ASSUME BudgetTyped, NEW u \in Uploaders
  PROVE  /\ uploader[u] \in UploadState
         /\ uploader[u].at \in {"idle", "stored", "companies", "deals", "statused", "matched", "reading", "answered"}
         /\ uploader[u].at # "idle" => uploader[u].import \in Imports
         /\ uploader[u].at \in {"stored", "companies", "deals"} =>
              uploader[u] \in [at: {"stored", "companies", "deals"}, import: Imports, activate: BOOLEAN]
         /\ uploader[u].at = "statused" =>
              uploader[u] \in [at: {"statused"}, import: Imports, activate: BOOLEAN, matched: 0..Cardinality(BudgetKeys)]
         /\ uploader[u].at \in {"reading", "answered"} => uploader[u].matched \in Nat
         /\ uploader[u].at = "answered" => uploader[u].accounts \in Nat /\ uploader[u].unmatched \in Nat
BY DEF BudgetTyped, UploadState, IdleUpload

\* What a step may do to an import that was inserted: delete it; while it is there
\* its keys stay, and once it is counted its rows and its counter.
ImportKept(m, n) ==
  m.status # "none" =>
    /\ n.status # "none"
    /\ n.status # "deleted" =>
         /\ m.status # "deleted" /\ DOMAIN n.rows = DOMAIN m.rows
         /\ m.early => n.early
         /\ m.counted => n.counted /\ n.rows = m.rows /\ n.matched = m.matched

\* What it may do to one whose rows it does not match.
ImportUntouched(m, n) ==
  /\ ImportKept(m, n)
  /\ m.status # "none" /\ ~m.counted => ~n.counted
  /\ m.status # "none" /\ n.status # "deleted" => n.rows = m.rows

\* An import that stays as it is.
LEMMA SameIsUntouched == \A m : ImportUntouched(m, m)
BY DEF ImportUntouched, ImportKept

\* A report that does not move still fits.
LEMMA ReportStays ==
  ASSUME BudgetTyped, NEW v \in Uploaders, uploader'[v] = uploader[v], UploadFits(v), AnswerFits(v),
         \A j \in Imports : ImportKept(imports[j], imports'[j])
  PROVE  AnswerFits(v)'
<1>1. CASE uploader[v].at \notin {"reading", "answered"}
  BY <1>1 DEF AnswerFits
<1>2. CASE uploader[v].at \in {"reading", "answered"}
  <2>1. PICK j \in Imports : j = uploader[v].import /\ imports[j].status # "none"
    BY <1>2, UploadIs DEF UploadFits
  <2>2. PICK m, n : m = imports[j] /\ n = imports'[j]
    OBVIOUS
  <2>3. ImportKept(m, n) /\ m.status # "none"
    BY <2>1, <2>2
  <2>4. n.status \notin {"none", "deleted"} /\ ~n.early =>
          m.counted /\ n.counted /\ uploader[v].matched = n.matched /\ n.rows = m.rows
    BY <1>2, <2>1, <2>2, <2>3 DEF ImportKept, AnswerFits, Present
  <2>5. n.status \notin {"none", "deleted"} /\ uploader[v].at = "answered" =>
          /\ uploader[v].accounts = Cardinality(DOMAIN n.rows)
          /\ ~n.early => uploader[v].unmatched = Cardinality(UnmatchedRows(n.rows))
    BY <2>1, <2>2, <2>3, <2>4 DEF ImportKept, AnswerFits, Present
  <2> QED BY <1>2, <2>1, <2>2, <2>4, <2>5 DEF AnswerFits, Present
<1> QED BY <1>1, <1>2

\* An upload that does not move, and whose import is not matched by another one,
\* still fits.
LEMMA UploadStays ==
  ASSUME BudgetTyped, NEW v \in Uploaders, uploader'[v] = uploader[v], UploadFits(v),
         \A j \in Imports : ImportKept(imports[j], imports'[j]),
         uploader[v].at \in Matching =>
            ImportUntouched(imports[uploader[v].import], imports'[uploader[v].import])
  PROVE  UploadFits(v)'
<1>1. CASE uploader[v].at = "idle"
  BY <1>1 DEF UploadFits, Matching
<1>2. CASE uploader[v].at # "idle"
  <2>1. PICK j \in Imports : j = uploader[v].import /\ imports[j].status # "none"
    BY <1>2, UploadIs DEF UploadFits
  <2>2. ImportKept(imports[j], imports'[j])
    BY <2>1
  <2>3. imports'[j].status # "none"
    BY <2>1, <2>2 DEF ImportKept
  <2>4. uploader[v].at \in Matching => ~imports'[j].counted
    BY <2>1 DEF UploadFits, ImportUntouched
  <2>5. uploader[v].at = "statused" /\ imports'[j].status # "deleted" =>
          uploader[v].matched = Cardinality(MatchedRows(imports'[j].rows))
    BY <2>1, <2>2 DEF UploadFits, ImportUntouched, ImportKept, Matching, Present
  <2>6. uploader[v].at = "matched" /\ imports'[j].status # "deleted" => imports'[j].counted
    BY <2>1, <2>2 DEF UploadFits, ImportKept, Present
  <2> QED BY <2>1, <2>3, <2>4, <2>5, <2>6 DEF UploadFits, Present
<1> QED BY <1>1, <1>2

\* A step of one request: the others still fit when it keeps the imports.
LEMMA BudgetStep ==
  ASSUME BudgetInv, NEW u \in Uploaders, NEW X \in UploadState, uploader' = [uploader EXCEPT ![u] = X],
         DOMAIN imports' = Imports, imports' = [j \in Imports |-> imports'[j]],
         \A j \in Imports : ImportFits(imports'[j]) /\ ImportKept(imports[j], imports'[j]),
         \A v \in Uploaders \ {u} : uploader[v].at \in Matching =>
            /\ ImportUntouched(imports[uploader[v].import], imports'[uploader[v].import])
            /\ X.at \in Matching => uploader[v].import # X.import,
         UploadFits(u)', AnswerFits(u)',
         found' \in [BudgetKeys -> SUBSET MirrorRecords], moves' \in 0..MaxMatches,
         activated' \in BOOLEAN, orphaned' \in BOOLEAN
  PROVE  BudgetTyped' /\ UploadsFit'
<1>1. BudgetTyped /\ UploadsApart /\ \A v \in Uploaders : UploadFits(v) /\ AnswerFits(v)
  BY DEF BudgetInv, UploadsFit
<1>2. /\ uploader' \in [Uploaders -> UploadState] /\ uploader'[u] = X
      /\ \A v \in Uploaders \ {u} : uploader'[v] = uploader[v]
  BY <1>1 DEF BudgetTyped
<1>3. BudgetTyped'
  BY <1>2 DEF BudgetTyped, ImportFits, BudgetRowsFit, IsExact
<1>4. \A v \in Uploaders \ {u} : UploadFits(v)' /\ AnswerFits(v)'
  BY <1>1, <1>2, UploadStays, ReportStays
<1>5. UploadsApart'
  <2> SUFFICES ASSUME NEW v \in Uploaders, NEW w \in Uploaders, v # w,
                      uploader'[v].at \in Matching, uploader'[w].at \in Matching
      PROVE  uploader'[v].import # uploader'[w].import
    BY DEF UploadsApart, Matching
  <2>1. CASE v = u
    BY <1>2, <2>1
  <2>2. CASE w = u
    BY <1>2, <2>2
  <2>3. CASE v # u /\ w # u
    BY <1>1, <1>2, <2>3 DEF UploadsApart
  <2> QED BY <2>1, <2>2, <2>3
<1> QED BY <1>3, <1>4, <1>5 DEF UploadsFit

-----------------------------------------------------------------------------
(* Budgets: the steps                                                      *)

\* The invariant holds before the first upload.
LEMMA BudgetInitially == BudgetInit => BudgetInv
<1> SUFFICES ASSUME BudgetInit PROVE BudgetInv
  OBVIOUS
<1>1. /\ imports = [i \in Imports |-> NoImport] /\ found = [k \in BudgetKeys |-> {}]
      /\ uploader = [u \in Uploaders |-> IdleUpload] /\ activated = FALSE /\ orphaned = FALSE /\ moves = 0
  BY DEF BudgetInit
<1>2. ImportFits(NoImport) /\ NoImport.status = "none"
  <2>1. <<>> \in Seq(Line) /\ "none" \in ImportStates \ {"active"}
    BY DEF ImportStates
  <2> QED BY <2>1, NewImportFits, NewImportIs DEF NoImport
<1> HIDE DEF NoImport
<1>3. \A i \in Imports : ImportFits(imports[i]) /\ imports[i].status = "none"
  BY <1>1, <1>2
<1>4. 0 \in 0..MaxMatches
  BY BudgetAssumption
<1>5. uploader \in [Uploaders -> UploadState] /\ \A u \in Uploaders : uploader[u].at = "idle"
  BY <1>1 DEF UploadState, IdleUpload
<1>6. found \in [BudgetKeys -> SUBSET MirrorRecords]
  BY <1>1
<1>7. BudgetTyped
  BY <1>1, <1>3, <1>4, <1>5, <1>6 DEF BudgetTyped
<1>8. BudgetActive = {}
  BY <1>3 DEF BudgetActive
<1>9. UploadsFit
  BY <1>5 DEF UploadsFit, UploadsApart, UploadFits, AnswerFits, Matching
<1> QED BY <1>1, <1>7, <1>8, <1>9 DEF BudgetInv, OneActive

\* The mirrored companies and deals change under the imports.
LEMMA MirrorKeeps ==
  ASSUME BudgetInv, NEW k \in BudgetKeys, NEW m \in SUBSET MirrorRecords, MirrorMoves(k, m) PROVE BudgetInv'
<1>1. moves' \in 0..MaxMatches /\ found' \in [BudgetKeys -> SUBSET MirrorRecords]
  BY BudgetAssumption DEF BudgetInv, BudgetTyped, MirrorMoves
<1>2. UNCHANGED <<imports, uploader, activated, orphaned>>
  BY DEF MirrorMoves
<1> QED BY <1>1, <1>2 DEF BudgetInv, BudgetTyped, OneActive, BudgetActive, UploadsFit, UploadsApart,
                          UploadFits, AnswerFits, Present

\* An upload stores its import with rows that are not matched yet.
LEMMA ImportKeeps ==
  ASSUME BudgetInv, NEW u \in Uploaders, NEW i \in Imports, NEW file \in Files, NEW activate \in BOOLEAN,
         ImportRows(u, i, file, activate)
  PROVE  BudgetInv'
<1> DEFINE m == NewImport("imported", file)
           X == [at |-> "stored", import |-> i, activate |-> activate]
<1>0. /\ BudgetTyped /\ OneActive /\ (activated /\ ~orphaned => BudgetActive # {})
      /\ \A v \in Uploaders : UploadFits(v)
  BY DEF BudgetInv, UploadsFit
<1>1. /\ uploader[u] = IdleUpload /\ imports[i].status = "none" /\ imports' = [imports EXCEPT ![i] = m]
      /\ uploader' = [uploader EXCEPT ![u] = X] /\ UNCHANGED <<found, activated, orphaned, moves>>
  BY DEF ImportRows
<1>2. file \in Seq(Line) /\ "imported" \in ImportStates \ {"active"}
  BY BudgetAssumption DEF ImportStates
<1>3. ImportFits(m) /\ m.status = "imported" /\ ~m.counted
  BY <1>2, NewImportFits, NewImportIs
<1>4. X \in UploadState /\ X.at = "stored" /\ X.import = i
  BY DEF UploadState
<1> HIDE DEF m, X
<1>5. /\ DOMAIN imports' = Imports /\ imports' = [j \in Imports |-> imports'[j]] /\ imports'[i] = m
      /\ \A j \in Imports \ {i} : imports'[j] = imports[j]
  BY <1>0, <1>1 DEF BudgetTyped
<1>6. \A j \in Imports : ImportFits(imports'[j]) /\ ImportKept(imports[j], imports'[j])
  BY <1>0, <1>1, <1>3, <1>5 DEF BudgetTyped, ImportKept
<1>7. \A v \in Uploaders \ {u} : uploader[v].at \in Matching =>
        /\ ImportUntouched(imports[uploader[v].import], imports'[uploader[v].import])
        /\ uploader[v].import # X.import
  <2> SUFFICES ASSUME NEW v \in Uploaders \ {u}, uploader[v].at \in Matching
      PROVE  /\ ImportUntouched(imports[uploader[v].import], imports'[uploader[v].import])
             /\ uploader[v].import # X.import
    OBVIOUS
  <2>1. uploader[v].import \in Imports \ {i}
    BY <1>0, <1>1, UploadIs DEF Matching, UploadFits
  <2> QED BY <1>4, <1>5, <2>1, SameIsUntouched
<1>8. uploader'[u] = X
  BY <1>0, <1>1 DEF BudgetTyped
<1>9. UploadFits(u)' /\ AnswerFits(u)'
  BY <1>3, <1>4, <1>5, <1>8 DEF UploadFits, AnswerFits, Matching
<1>10. BudgetTyped' /\ UploadsFit'
  <2>1. /\ found' \in [BudgetKeys -> SUBSET MirrorRecords] /\ moves' \in 0..MaxMatches
        /\ activated' \in BOOLEAN /\ orphaned' \in BOOLEAN
    BY <1>0, <1>1 DEF BudgetTyped
  <2> QED BY <1>1, <1>4, <1>5, <1>6, <1>7, <1>9, <2>1, BudgetStep
<1>11. BudgetActive' = BudgetActive
  BY <1>1, <1>3, <1>5 DEF BudgetActive
<1> QED BY <1>0, <1>1, <1>10, <1>11 DEF BudgetInv, OneActive

\* An import that changes its status, and perhaps becomes active early, still fits.
LEMMA StatusKeepsFit ==
  ASSUME NEW m, ImportFits(m), NEW status \in ImportStates, NEW f \in BOOLEAN,
         status = "active" => m.counted \/ f,
         NEW n, n = [status |-> status, file |-> m.file, rows |-> m.rows, matched |-> m.matched,
                     duplicates |-> m.duplicates, rejected |-> m.rejected,
                     counted |-> m.counted, early |-> f]
  PROVE  /\ ImportFits(n) /\ n.rows = m.rows /\ n.matched = m.matched
         /\ n.status = status /\ n.counted = m.counted /\ n.early = f
<1>1. /\ n = [status |-> n.status, file |-> n.file, rows |-> n.rows, matched |-> n.matched,
              duplicates |-> n.duplicates, rejected |-> n.rejected,
              counted |-> n.counted, early |-> n.early]
      /\ n.status = status /\ n.file = m.file /\ n.rows = m.rows /\ n.matched = m.matched
      /\ n.duplicates = m.duplicates /\ n.rejected = m.rejected /\ n.counted = m.counted /\ n.early = f
  OBVIOUS
<1>2. IsExact(n)
  BY <1>1, ExactStays DEF ImportFits
<1> QED BY <1>1, <1>2 DEF ImportFits

\* What an activation leaves of an import.
LEMMA ActivatedIs ==
  ASSUME BudgetTyped, NEW i \in Imports, NEW f \in BOOLEAN, imports[i].early => f,
         Present(i) => imports[i].counted \/ f, ~Present(i) => f = imports[i].early,
         NEW j \in Imports, NEW n, j = i => n = [Activated(i)[i] EXCEPT !.early = f],
         j # i => n = Activated(i)[j]
  PROVE  /\ ImportFits(n) /\ ImportUntouched(imports[j], n)
         /\ n.status = "active" <=> j = i /\ Present(i)
<1>1. PICK m : m = imports[j]
  OBVIOUS
<1>2. ImportFits(m)
  BY <1>1 DEF BudgetTyped
<1>3. m = [status |-> m.status, file |-> m.file, rows |-> m.rows, matched |-> m.matched,
           duplicates |-> m.duplicates, rejected |-> m.rejected,
           counted |-> m.counted, early |-> m.early] /\ m.status \in ImportStates /\ m.early \in BOOLEAN
  BY <1>2 DEF ImportFits
<1>4. CASE j = i /\ Present(i)
  <2>1. n = [[m EXCEPT !.status = "active"] EXCEPT !.early = f]
    BY <1>1, <1>4 DEF Activated
  <2>2. n = [status |-> "active", file |-> m.file, rows |-> m.rows, matched |-> m.matched,
             duplicates |-> m.duplicates, rejected |-> m.rejected,
             counted |-> m.counted, early |-> f]
    BY <1>3, <2>1
  <2>3. "active" \in ImportStates
    BY DEF ImportStates
  <2>4. /\ ImportFits(n) /\ n.rows = m.rows /\ n.matched = m.matched
        /\ n.status = "active" /\ n.counted = m.counted /\ n.early = f
    BY <1>1, <1>2, <1>4, <2>2, <2>3, StatusKeepsFit
  <2> QED BY <1>1, <1>4, <2>4 DEF ImportUntouched, ImportKept, Present
<1>5. CASE j = i /\ ~Present(i)
  <2>1. m.status # "active"
    BY <1>1, <1>5 DEF Present
  <2>2. n = [m EXCEPT !.early = f]
    BY <1>1, <1>5, <2>1 DEF Activated
  <2>3. n = m
    BY <1>1, <1>3, <1>5, <2>2
  <2> QED BY <1>1, <1>2, <1>5, <2>1, <2>3, SameIsUntouched
<1>6. CASE j # i /\ m.status = "active"
  <2>1. n = [m EXCEPT !.status = "archived"]
    BY <1>1, <1>6 DEF Activated
  <2>2. n = [status |-> "archived", file |-> m.file, rows |-> m.rows, matched |-> m.matched,
             duplicates |-> m.duplicates, rejected |-> m.rejected,
             counted |-> m.counted, early |-> m.early]
    BY <1>3, <2>1
  <2>3. "archived" \in ImportStates
    BY DEF ImportStates
  <2>4. /\ ImportFits(n) /\ n.rows = m.rows /\ n.matched = m.matched
        /\ n.status = "archived" /\ n.counted = m.counted /\ n.early = m.early
    BY <1>2, <1>3, <2>2, <2>3, StatusKeepsFit
  <2> QED BY <1>1, <1>6, <2>4 DEF ImportUntouched, ImportKept
<1>7. CASE j # i /\ m.status # "active"
  <2>1. n = m
    BY <1>1, <1>7 DEF Activated
  <2> QED BY <1>1, <1>2, <1>7, <2>1, SameIsUntouched
<1> QED BY <1>4, <1>5, <1>6, <1>7

\* An activation, of the request itself or at the end of an upload.
LEMMA ActivationKeeps ==
  ASSUME BudgetInv, NEW u \in Uploaders, NEW i \in Imports, NEW f \in BOOLEAN, imports[i].early => f,
         Present(i) => imports[i].counted \/ f, ~Present(i) => f = imports[i].early,
         imports' = [Activated(i) EXCEPT ![i].early = f],
         UNCHANGED <<found, moves>>, activated' = (activated \/ Present(i)),
         orphaned' = orphaned \/ orphaned' = (orphaned \/ ~Present(i)),
         activated' /\ ~orphaned' => Present(i),
         uploader' = [uploader EXCEPT ![u] = IdleUpload]
  PROVE  BudgetInv'
<1>1. BudgetTyped
  BY DEF BudgetInv
<1>2. Activated(i) = [j \in Imports |-> Activated(i)[j]]
  BY DEF Activated
<1>3. /\ DOMAIN imports' = Imports /\ imports' = [j \in Imports |-> imports'[j]]
      /\ \A j \in Imports :
           imports'[j] = IF j = i THEN [Activated(i)[i] EXCEPT !.early = f] ELSE Activated(i)[j]
  <2> DEFINE A == Activated(i)
  <2> HIDE DEF A
  <2>1. A = [j \in Imports |-> A[j]] /\ imports' = [A EXCEPT ![i].early = f]
    BY <1>2 DEF A
  <2>2. imports' = [j \in Imports |-> IF j = i THEN [A[i] EXCEPT !.early = f] ELSE A[j]]
    BY <2>1
  <2> QED BY <2>2 DEF A
<1>4. \A j \in Imports :
        /\ ImportFits(imports'[j]) /\ ImportUntouched(imports[j], imports'[j])
        /\ imports'[j].status = "active" <=> j = i /\ Present(i)
  <2> SUFFICES ASSUME NEW j \in Imports
      PROVE  /\ ImportFits(imports'[j]) /\ ImportUntouched(imports[j], imports'[j])
             /\ imports'[j].status = "active" <=> j = i /\ Present(i)
    OBVIOUS
  <2>1. PICK n : n = imports'[j]
    OBVIOUS
  <2>2. /\ j = i => n = [Activated(i)[i] EXCEPT !.early = f]
        /\ j # i => n = Activated(i)[j]
    BY <1>3, <2>1
  <2>3. /\ imports[i].early => f
        /\ Present(i) => imports[i].counted \/ f
        /\ ~Present(i) => f = imports[i].early
    OBVIOUS
  <2>4. /\ ImportFits(n) /\ ImportUntouched(imports[j], n)
        /\ n.status = "active" <=> j = i /\ Present(i)
    BY <1>1, <2>2, <2>3, ActivatedIs
  <2> QED BY <2>1, <2>4
<1>5. activated' \in BOOLEAN /\ orphaned' \in BOOLEAN
  BY <1>1 DEF BudgetTyped, Present
<1>6. IdleUpload \in UploadState /\ IdleUpload.at = "idle"
  BY DEF UploadState, IdleUpload
<1> HIDE DEF IdleUpload
<1>7. uploader'[u] = IdleUpload
  BY <1>1 DEF BudgetTyped
<1>8. UploadFits(u)' /\ AnswerFits(u)'
  BY <1>6, <1>7 DEF UploadFits, AnswerFits, Matching
<1>9. BudgetTyped' /\ UploadsFit'
  <2>1. found' \in [BudgetKeys -> SUBSET MirrorRecords] /\ moves' \in 0..MaxMatches
    BY <1>1 DEF BudgetTyped
  <2>2. \A j \in Imports : ImportFits(imports'[j]) /\ ImportKept(imports[j], imports'[j])
    BY <1>4 DEF ImportUntouched
  <2>3. \A v \in Uploaders \ {u} : uploader[v].at \in Matching =>
          /\ ImportUntouched(imports[uploader[v].import], imports'[uploader[v].import])
          /\ IdleUpload.at \in Matching => uploader[v].import # IdleUpload.import
    BY <1>1, <1>4, <1>6, UploadIs DEF Matching
  <2> QED BY <1>3, <1>5, <1>6, <1>8, <2>1, <2>2, <2>3, BudgetStep
<1>10. BudgetActive' = IF Present(i) THEN {i} ELSE {}
  BY <1>4 DEF BudgetActive
<1> QED BY <1>9, <1>10 DEF BudgetInv, OneActive

\* A manager activates an import that exists, counted or not.
LEMMA ActivateImportKeeps ==
  ASSUME BudgetInv, NEW u \in Uploaders, NEW i \in Imports, ActivateImport(u, i) PROVE BudgetInv'
<1>1. BudgetTyped /\ activated \in BOOLEAN /\ imports[i].early \in BOOLEAN /\ imports[i].counted \in BOOLEAN
  BY DEF BudgetInv, BudgetTyped, ImportFits
<1>2. PICK f \in BOOLEAN : f = (imports[i].early \/ ~imports[i].counted)
  BY <1>1
<1>3. /\ Present(i) /\ activated' = TRUE /\ UNCHANGED <<found, uploader, orphaned, moves>>
      /\ uploader[u] = IdleUpload
  BY DEF ActivateImport
<1>4. imports' = [Activated(i) EXCEPT ![i].early = f]
  <2> DEFINE A == Activated(i)
  <2>1. imports' = [A EXCEPT ![i].early = @ \/ ~imports[i].counted]
    BY DEF ActivateImport
  <2>2. A[i].early = imports[i].early
    <3>1. A[i] = [imports[i] EXCEPT !.status = "active"]
      BY <1>3 DEF Activated
    <3>2. PICK m : m = imports[i]
      OBVIOUS
    <3>3. m = [status |-> m.status, file |-> m.file, rows |-> m.rows, matched |-> m.matched,
               duplicates |-> m.duplicates, rejected |-> m.rejected,
               counted |-> m.counted, early |-> m.early]
      BY <1>1, <3>2 DEF BudgetTyped, ImportFits
    <3> QED BY <3>1, <3>2, <3>3
  <2> HIDE DEF A
  <2>3. imports' = [A EXCEPT ![i].early = f]
    BY <1>2, <2>1, <2>2
  <2> QED BY <2>3 DEF A
<1>5. uploader' = [uploader EXCEPT ![u] = IdleUpload]
  BY <1>1, <1>3 DEF BudgetTyped
<1> QED BY <1>1, <1>2, <1>3, <1>4, <1>5, ActivationKeeps

\* An upload activates its import, when it is still there.
LEMMA ActivateUploadedKeeps ==
  ASSUME BudgetInv, NEW u \in Uploaders, ActivateUploaded(u) PROVE BudgetInv'
<1>1. BudgetTyped /\ UploadFits(u)
  BY DEF BudgetInv, UploadsFit
<1>2. PICK i \in Imports : i = uploader[u].import
  BY <1>1, UploadIs DEF ActivateUploaded
<1>3. /\ imports' = Activated(i) /\ orphaned' = (orphaned \/ ~Present(i)) /\ activated' = (activated \/ Present(i))
      /\ uploader' = [uploader EXCEPT ![u] = IdleUpload] /\ UNCHANGED <<found, moves>>
      /\ uploader[u].at = "matched"
  BY <1>2 DEF ActivateUploaded
<1>4. Present(i) => imports[i].counted
  BY <1>1, <1>2, <1>3 DEF UploadFits
<1>5. PICK f \in BOOLEAN : f = imports[i].early
  BY <1>1 DEF BudgetTyped, ImportFits
<1>6. imports' = [Activated(i) EXCEPT ![i].early = f]
  <2> DEFINE A == Activated(i)
  <2>1. PICK m : m = imports[i]
    OBVIOUS
  <2>2. m = [status |-> m.status, file |-> m.file, rows |-> m.rows, matched |-> m.matched,
             duplicates |-> m.duplicates, rejected |-> m.rejected,
             counted |-> m.counted, early |-> m.early]
    BY <1>1, <2>1 DEF BudgetTyped, ImportFits
  <2>3. PICK n : n = A[i]
    OBVIOUS
  <2>4. n = m \/ n = [m EXCEPT !.status = "active"] \/ n = [m EXCEPT !.status = "archived"]
    BY <2>1, <2>3 DEF Activated
  <2>5. [n EXCEPT !.early = f] = n
    <3>1. CASE n = m
      BY <1>5, <2>1, <2>2, <3>1
    <3>2. CASE n = [m EXCEPT !.status = "active"]
      BY <1>5, <2>1, <2>2, <3>2
    <3>3. CASE n = [m EXCEPT !.status = "archived"]
      BY <1>5, <2>1, <2>2, <3>3
    <3> QED BY <2>4, <3>1, <3>2, <3>3
  <2>6. A = [j \in Imports |-> A[j]]
    BY DEF Activated
  <2> HIDE DEF A
  <2>7. [A EXCEPT ![i].early = f] = A
    BY <2>3, <2>5, <2>6
  <2> QED BY <1>3, <2>7 DEF A
<1>7. activated' /\ ~orphaned' => Present(i)
  BY <1>3
<1> QED BY <1>3, <1>4, <1>5, <1>6, <1>7, ActivationKeeps

\* An import that is not active is deleted.
LEMMA DeleteImportKeeps ==
  ASSUME BudgetInv, NEW u \in Uploaders, NEW i \in Imports, DeleteImport(u, i) PROVE BudgetInv'
<1> DEFINE gone == NewImport("deleted", <<>>)
<1>1. BudgetTyped /\ OneActive /\ (activated /\ ~orphaned => BudgetActive # {})
  BY DEF BudgetInv
<1>2. /\ imports[i].status \notin {"none", "deleted", "active"} /\ imports' = [imports EXCEPT ![i] = gone]
      /\ UNCHANGED <<found, uploader, activated, orphaned, moves>> /\ uploader[u] = IdleUpload
  BY DEF DeleteImport, Deletable, Present
<1>3. ImportFits(gone) /\ gone.status = "deleted" /\ ~gone.counted
  <2>1. <<>> \in Seq(Line) /\ "deleted" \in ImportStates \ {"active"}
    BY DEF ImportStates
  <2> QED BY <2>1, NewImportFits, NewImportIs
<1> HIDE DEF gone
<1>4. /\ DOMAIN imports' = Imports /\ imports' = [j \in Imports |-> imports'[j]] /\ imports'[i] = gone
      /\ \A j \in Imports \ {i} : imports'[j] = imports[j]
  BY <1>1, <1>2 DEF BudgetTyped
<1>5. \A j \in Imports : ImportFits(imports'[j]) /\ ImportUntouched(imports[j], imports'[j])
  <2> SUFFICES ASSUME NEW j \in Imports
      PROVE  ImportFits(imports'[j]) /\ ImportUntouched(imports[j], imports'[j])
    OBVIOUS
  <2>1. CASE j = i
    BY <1>3, <1>4, <2>1 DEF ImportUntouched, ImportKept
  <2>2. CASE j # i
    BY <1>1, <1>4, <2>2, SameIsUntouched DEF BudgetTyped
  <2> QED BY <2>1, <2>2
<1>6. IdleUpload \in UploadState /\ IdleUpload.at = "idle"
  BY DEF UploadState, IdleUpload
<1> HIDE DEF IdleUpload
<1>7. uploader' = [uploader EXCEPT ![u] = IdleUpload] /\ uploader'[u] = IdleUpload
  BY <1>1, <1>2 DEF BudgetTyped
<1>8. UploadFits(u)' /\ AnswerFits(u)'
  BY <1>6, <1>7 DEF UploadFits, AnswerFits, Matching
<1>9. BudgetTyped' /\ UploadsFit'
  <2>1. /\ found' \in [BudgetKeys -> SUBSET MirrorRecords] /\ moves' \in 0..MaxMatches
        /\ activated' \in BOOLEAN /\ orphaned' \in BOOLEAN
    BY <1>1, <1>2 DEF BudgetTyped
  <2>2. \A j \in Imports : ImportFits(imports'[j]) /\ ImportKept(imports[j], imports'[j])
    BY <1>5 DEF ImportUntouched
  <2>3. \A v \in Uploaders \ {u} : uploader[v].at \in Matching =>
          /\ ImportUntouched(imports[uploader[v].import], imports'[uploader[v].import])
          /\ IdleUpload.at \in Matching => uploader[v].import # IdleUpload.import
    BY <1>1, <1>5, <1>6, UploadIs DEF Matching
  <2> QED BY <1>4, <1>6, <1>7, <1>8, <2>1, <2>2, <2>3, BudgetStep
<1>10. BudgetActive' = BudgetActive
  BY <1>2, <1>3, <1>4 DEF BudgetActive
<1> QED BY <1>1, <1>2, <1>9, <1>10 DEF BudgetInv, OneActive

\* A statement of matchImport that writes the rows of an import before it is counted.
LEMMA RowsStatementKeeps ==
  ASSUME BudgetInv, NEW u \in Uploaders, uploader[u].at \in {"stored", "companies", "deals"},
         NEW i \in Imports, i = uploader[u].import,
         NEW rows, BudgetRowsFit(rows), DOMAIN rows = DOMAIN imports[i].rows,
         \A k \in DOMAIN rows : rows[k].count = imports[i].rows[k].count
                                /\ rows[k].value = imports[i].rows[k].value,
         imports' = [imports EXCEPT ![i].rows = rows],
         NEW X \in UploadState, X.at \in {"companies", "deals", "statused"}, X.import = i,
         X.at = "statused" => X.matched = Cardinality(MatchedRows(rows)),
         uploader' = [uploader EXCEPT ![u] = X],
         UNCHANGED <<found, activated, orphaned, moves>>
  PROVE  BudgetInv'
<1>1. /\ BudgetTyped /\ OneActive /\ (activated /\ ~orphaned => BudgetActive # {})
      /\ UploadsApart /\ UploadFits(u)
  BY DEF BudgetInv, UploadsFit
<1>2. PICK m : m = imports[i]
  OBVIOUS
<1>3. ImportFits(m) /\ ~m.counted /\ m.status # "none"
  BY <1>1, <1>2 DEF BudgetTyped, UploadFits, Matching
<1>4. PICK n : n = [m EXCEPT !.rows = rows]
  OBVIOUS
<1>5. /\ n = [status |-> n.status, file |-> n.file, rows |-> n.rows, matched |-> n.matched,
              duplicates |-> n.duplicates, rejected |-> n.rejected,
              counted |-> n.counted, early |-> n.early]
      /\ n.status = m.status /\ n.file = m.file /\ n.rows = rows /\ n.matched = m.matched
      /\ n.duplicates = m.duplicates /\ n.rejected = m.rejected /\ n.counted = m.counted /\ n.early = m.early
  <2>1. n = [status |-> m.status, file |-> m.file, rows |-> rows, matched |-> m.matched,
             duplicates |-> m.duplicates, rejected |-> m.rejected,
             counted |-> m.counted, early |-> m.early]
    BY <1>3, <1>4 DEF ImportFits
  <2> QED BY <2>1
<1>6. IsExact(n)
  BY <1>2, <1>3, <1>5, ExactStays DEF ImportFits
<1>7. ImportFits(n)
  BY <1>3, <1>5, <1>6 DEF ImportFits
<1>8. /\ DOMAIN imports' = Imports /\ imports' = [j \in Imports |-> imports'[j]] /\ imports'[i] = n
      /\ \A j \in Imports \ {i} : imports'[j] = imports[j]
  BY <1>1, <1>2, <1>4 DEF BudgetTyped
<1>9. \A j \in Imports : ImportFits(imports'[j]) /\ ImportKept(imports[j], imports'[j])
  <2> SUFFICES ASSUME NEW j \in Imports
      PROVE  ImportFits(imports'[j]) /\ ImportKept(imports[j], imports'[j])
    OBVIOUS
  <2>1. CASE j = i
    BY <1>2, <1>3, <1>5, <1>7, <1>8, <2>1 DEF ImportKept
  <2>2. CASE j # i
    BY <1>1, <1>8, <2>2 DEF BudgetTyped, ImportKept
  <2> QED BY <2>1, <2>2
<1>10. \A v \in Uploaders \ {u} : uploader[v].at \in Matching =>
         /\ ImportUntouched(imports[uploader[v].import], imports'[uploader[v].import])
         /\ X.at \in Matching => uploader[v].import # X.import
  <2> SUFFICES ASSUME NEW v \in Uploaders \ {u}, uploader[v].at \in Matching
      PROVE  /\ ImportUntouched(imports[uploader[v].import], imports'[uploader[v].import])
             /\ uploader[v].import # X.import
    OBVIOUS
  <2>1. uploader[v].import \in Imports \ {i}
    BY <1>1, UploadIs DEF Matching, UploadsApart
  <2> QED BY <1>8, <2>1, SameIsUntouched
<1>11. uploader'[u] = X
  BY <1>1 DEF BudgetTyped
<1>12. UploadFits(u)' /\ AnswerFits(u)'
  BY <1>3, <1>5, <1>8, <1>11 DEF UploadFits, AnswerFits, Matching
<1>13. BudgetTyped' /\ UploadsFit'
  <2>1. /\ found' \in [BudgetKeys -> SUBSET MirrorRecords] /\ moves' \in 0..MaxMatches
        /\ activated' \in BOOLEAN /\ orphaned' \in BOOLEAN
    BY <1>1 DEF BudgetTyped
  <2> QED BY <1>8, <1>9, <1>10, <1>12, <2>1, BudgetStep
<1>14. BudgetActive' = BudgetActive
  BY <1>2, <1>5, <1>8 DEF BudgetActive
<1> QED BY <1>1, <1>13, <1>14 DEF BudgetInv, OneActive

\* What the statements make of a row is a row with the count and the value it had.
LEMMA StatementRows ==
  ASSUME NEW rows, BudgetRowsFit(rows), NEW f,
         \/ f = CompaniesSeen(rows) \/ f = DealsSeen(rows) \/ f = WithStatus(rows),
         found \in [BudgetKeys -> SUBSET MirrorRecords]
  PROVE  /\ BudgetRowsFit(f) /\ DOMAIN f = DOMAIN rows
         /\ \A k \in DOMAIN f : f[k].count = rows[k].count /\ f[k].value = rows[k].value
<1>1. DOMAIN f = DOMAIN rows
  BY DEF CompaniesSeen, DealsSeen, WithStatus
<1>2. ASSUME NEW k \in DOMAIN rows
      PROVE  /\ f[k] = [value |-> f[k].value, count |-> f[k].count, match |-> f[k].match, seen |-> f[k].seen]
             /\ f[k].match \in MatchStates /\ f[k].seen \in SUBSET MirrorRecords
             /\ f[k].count = rows[k].count /\ f[k].value = rows[k].value
  <2>1. PICK r, g : r = rows[k] /\ g = f[k]
    OBVIOUS
  <2>2. /\ r = [value |-> r.value, count |-> r.count, match |-> r.match, seen |-> r.seen]
        /\ r.match \in MatchStates /\ r.seen \in SUBSET MirrorRecords /\ found[k] \in SUBSET MirrorRecords
    BY <2>1 DEF BudgetRowsFit
  <2>3. \/ \E s \in SUBSET MirrorRecords : g = [r EXCEPT !.seen = s]
        \/ g = [r EXCEPT !.match = MatchOf(r.seen)]
    <3>1. CASE f = CompaniesSeen(rows)
      <4>1. g = [r EXCEPT !.seen = found[k] \cap {"company"}]
        BY <2>1, <3>1 DEF CompaniesSeen
      <4>2. found[k] \cap {"company"} \in SUBSET MirrorRecords
        BY <2>2
      <4> QED BY <4>1, <4>2
    <3>2. CASE f = DealsSeen(rows)
      <4>1. PICK s : s = IF "company" \in r.seen THEN r.seen \cup (found[k] \cap {"deal"}) ELSE r.seen
        OBVIOUS
      <4>2. g = [r EXCEPT !.seen = s]
        BY <2>1, <3>2, <4>1 DEF DealsSeen
      <4>3. s \in SUBSET MirrorRecords
        BY <2>2, <4>1
      <4> QED BY <4>2, <4>3
    <3>3. CASE f = WithStatus(rows)
      BY <2>1, <3>3 DEF WithStatus
    <3> QED BY <3>1, <3>2, <3>3
  <2>4. /\ g = [value |-> g.value, count |-> g.count, match |-> g.match, seen |-> g.seen]
        /\ g.match \in MatchStates /\ g.seen \in SUBSET MirrorRecords
        /\ g.count = r.count /\ g.value = r.value
    <3>1. CASE \E s \in SUBSET MirrorRecords : g = [r EXCEPT !.seen = s]
      <4>1. PICK s \in SUBSET MirrorRecords : g = [r EXCEPT !.seen = s]
        BY <3>1
      <4>2. g = [value |-> r.value, count |-> r.count, match |-> r.match, seen |-> s]
        BY <2>2, <4>1
      <4> QED BY <2>2, <4>2
    <3>2. CASE g = [r EXCEPT !.match = MatchOf(r.seen)]
      <4>1. PICK t \in MatchStates : t = MatchOf(r.seen)
        BY DEF MatchOf, MatchStates
      <4>2. g = [value |-> r.value, count |-> r.count, match |-> t, seen |-> r.seen]
        BY <2>2, <3>2, <4>1
      <4> QED BY <2>2, <4>2
    <3> QED BY <2>3, <3>1, <3>2
  <2> QED BY <2>1, <2>4
<1> QED BY <1>1, <1>2 DEF BudgetRowsFit

\* The companies, then the deals, are written to the rows.
LEMMA MatchRowsKeeps ==
  ASSUME BudgetInv, NEW u \in Uploaders, MatchCompanies(u) \/ MatchDeals(u) PROVE BudgetInv'
<1>1. BudgetTyped
  BY DEF BudgetInv
<1>2. uploader[u].at \in {"stored", "companies"} /\ UNCHANGED <<found, activated, orphaned, moves>>
  BY DEF MatchCompanies, MatchDeals
<1>3. uploader[u] \in [at: {"stored", "companies", "deals"}, import: Imports, activate: BOOLEAN]
  BY <1>1, <1>2, UploadIs
<1>4. PICK i \in Imports : i = uploader[u].import
  BY <1>3
<1>5. PICK at \in {"companies", "deals"} : uploader' = [uploader EXCEPT ![u].at = at]
  BY DEF MatchCompanies, MatchDeals
<1>6. PICK f \in {CompaniesSeen(imports[i].rows), DealsSeen(imports[i].rows)} :
        imports' = [imports EXCEPT ![i].rows = f]
  <2>1. CASE MatchCompanies(u)
    <3>1. imports' = [imports EXCEPT ![i].rows = CompaniesSeen(imports[i].rows)]
      BY <1>4, <2>1 DEF MatchCompanies
    <3> QED BY <3>1
  <2>2. CASE MatchDeals(u)
    <3>1. imports' = [imports EXCEPT ![i].rows = DealsSeen(imports[i].rows)]
      BY <1>4, <2>2 DEF MatchDeals
    <3> QED BY <3>1
  <2> QED BY <2>1, <2>2
<1>7. PICK X : X = [uploader[u] EXCEPT !.at = at]
  OBVIOUS
<1>8. X \in UploadState /\ X.at = at /\ X.import = i
  <2>1. X \in [at: {"stored", "companies", "deals"}, import: Imports, activate: BOOLEAN]
        /\ X.at = at /\ X.import = i
    BY <1>3, <1>4, <1>5, <1>7
  <2> QED BY <2>1 DEF UploadState
<1>9. uploader' = [uploader EXCEPT ![u] = X]
  BY <1>5, <1>7
<1>10. BudgetRowsFit(imports[i].rows) /\ found \in [BudgetKeys -> SUBSET MirrorRecords]
  BY <1>1 DEF BudgetTyped, ImportFits
<1>11. /\ BudgetRowsFit(f) /\ DOMAIN f = DOMAIN imports[i].rows
       /\ \A k \in DOMAIN f : f[k].count = imports[i].rows[k].count /\ f[k].value = imports[i].rows[k].value
  BY <1>6, <1>10, StatementRows
<1>12. /\ uploader[u].at \in {"stored", "companies", "deals"} /\ X.at \in {"companies", "deals", "statused"}
       /\ X.at # "statused"
  BY <1>2, <1>5, <1>8
<1> QED BY <1>2, <1>4, <1>8, <1>9, <1>11, <1>12, <1>6, RowsStatementKeeps

\* The status of every row is written; the upload remembers how many are matched.
LEMMA SetStatusKeeps ==
  ASSUME BudgetInv, NEW u \in Uploaders, SetMatchStatus(u) PROVE BudgetInv'
<1>1. BudgetTyped
  BY DEF BudgetInv
<1>2. uploader[u].at = "deals" /\ UNCHANGED <<found, activated, orphaned, moves>>
  BY DEF SetMatchStatus
<1>3. uploader[u] \in [at: {"stored", "companies", "deals"}, import: Imports, activate: BOOLEAN]
  BY <1>1, <1>2, UploadIs
<1>4. PICK i \in Imports : i = uploader[u].import
  BY <1>3
<1>5. PICK f : f = WithStatus(imports[i].rows)
  OBVIOUS
<1>6. PICK X : X = [at |-> "statused", import |-> i, activate |-> uploader[u].activate,
                    matched |-> Cardinality(MatchedRows(f))]
  OBVIOUS
<1>7. imports' = [imports EXCEPT ![i].rows = f] /\ uploader' = [uploader EXCEPT ![u] = X]
  BY <1>4, <1>5, <1>6 DEF SetMatchStatus
<1>8. BudgetRowsFit(imports[i].rows) /\ found \in [BudgetKeys -> SUBSET MirrorRecords]
  BY <1>1 DEF BudgetTyped, ImportFits
<1>9. /\ BudgetRowsFit(f) /\ DOMAIN f = DOMAIN imports[i].rows
      /\ \A k \in DOMAIN f : f[k].count = imports[i].rows[k].count /\ f[k].value = imports[i].rows[k].value
  BY <1>5, <1>8, StatementRows
<1>10. Cardinality(MatchedRows(f)) \in 0..Cardinality(BudgetKeys)
  BY <1>9, RowsAreSplit
<1>11. X \in UploadState /\ X.at = "statused" /\ X.import = i /\ X.matched = Cardinality(MatchedRows(f))
  BY <1>3, <1>6, <1>10 DEF UploadState
<1> QED BY <1>2, <1>4, <1>7, <1>9, <1>11, RowsStatementKeeps

\* The counter is written, when the import is still there.
LEMMA CountKeeps ==
  ASSUME BudgetInv, NEW u \in Uploaders, CountMatches(u) PROVE BudgetInv'
<1>1. /\ BudgetTyped /\ OneActive /\ (activated /\ ~orphaned => BudgetActive # {})
      /\ UploadsApart /\ UploadFits(u)
  BY DEF BudgetInv, UploadsFit
<1>2. uploader[u].at = "statused" /\ UNCHANGED <<found, activated, orphaned, moves>>
  BY DEF CountMatches
<1>3. uploader[u] \in [at: {"statused"}, import: Imports, activate: BOOLEAN, matched: 0..Cardinality(BudgetKeys)]
  BY <1>1, <1>2, UploadIs
<1>4. PICK i \in Imports, c \in 0..Cardinality(BudgetKeys) : i = uploader[u].import /\ c = uploader[u].matched
  BY <1>3
<1>5. PICK m : m = imports[i]
  OBVIOUS
<1>6. ImportFits(m) /\ ~m.counted /\ m.status # "none" /\ (Present(i) => c = Cardinality(MatchedRows(m.rows)))
  BY <1>1, <1>2, <1>4, <1>5 DEF BudgetTyped, UploadFits, Matching
<1>7. PICK n : n = [status |-> m.status, file |-> m.file, rows |-> m.rows, matched |-> c,
                    duplicates |-> m.duplicates, rejected |-> m.rejected,
                    counted |-> TRUE, early |-> m.early]
  OBVIOUS
<1>8. n = [m EXCEPT !.matched = c, !.counted = TRUE]
  <2>1. m = [status |-> m.status, file |-> m.file, rows |-> m.rows, matched |-> m.matched,
             duplicates |-> m.duplicates, rejected |-> m.rejected,
             counted |-> m.counted, early |-> m.early]
    BY <1>6 DEF ImportFits
  <2>2. PICK w : w = [status |-> m.status, file |-> m.file, rows |-> m.rows, matched |-> c,
                      duplicates |-> m.duplicates, rejected |-> m.rejected,
                      counted |-> m.counted, early |-> m.early]
    OBVIOUS
  <2>3. [m EXCEPT !.matched = c] = w
    BY <2>1, <2>2
  <2>4. PICK t \in BOOLEAN : t = TRUE
    OBVIOUS
  <2>5. n = [status |-> m.status, file |-> m.file, rows |-> m.rows, matched |-> c,
             duplicates |-> m.duplicates, rejected |-> m.rejected,
             counted |-> t, early |-> m.early]
    BY <1>7, <2>4
  <2>6. [w EXCEPT !.counted = t] = n
    BY <2>2, <2>5
  <2> QED BY <2>3, <2>4, <2>6
<1>9. /\ n = [status |-> n.status, file |-> n.file, rows |-> n.rows, matched |-> n.matched,
              duplicates |-> n.duplicates, rejected |-> n.rejected,
              counted |-> n.counted, early |-> n.early]
      /\ n.status = m.status /\ n.file = m.file /\ n.rows = m.rows /\ n.matched = c
      /\ n.duplicates = m.duplicates /\ n.rejected = m.rejected /\ n.counted = TRUE /\ n.early = m.early
  BY <1>7
<1>10. IsExact(n)
  BY <1>6, <1>9, ExactStays DEF ImportFits
<1>11. Present(i) => ImportFits(n)
  BY <1>6, <1>9, <1>10 DEF ImportFits
<1>12. PICK X \in UploadState : /\ uploader' = [uploader EXCEPT ![u] = X]
                                /\ X.at \in {"idle", "matched"} /\ (X.at = "matched" => X.import = i)
  <2>1. CASE uploader[u].activate
    <3>1. uploader' = [uploader EXCEPT ![u] = [at |-> "matched", import |-> i]]
      BY <1>4, <2>1 DEF CountMatches
    <3>2. PICK X : X = [at |-> "matched", import |-> i]
      OBVIOUS
    <3>3. X \in UploadState /\ X.at = "matched" /\ X.import = i
      BY <3>2 DEF UploadState
    <3> QED BY <3>1, <3>2, <3>3
  <2>2. CASE ~uploader[u].activate
    <3>1. uploader' = [uploader EXCEPT ![u] = IdleUpload]
      BY <2>2 DEF CountMatches
    <3>2. IdleUpload \in UploadState /\ IdleUpload.at = "idle"
      BY DEF UploadState, IdleUpload
    <3> QED BY <3>1, <3>2
  <2> QED BY <2>1, <2>2
<1>13. /\ DOMAIN imports' = Imports /\ imports' = [j \in Imports |-> imports'[j]]
       /\ imports'[i] = IF Present(i) THEN n ELSE m
       /\ \A j \in Imports \ {i} : imports'[j] = imports[j]
  <2>1. CASE Present(i)
    <3>1. imports' = [imports EXCEPT ![i] = n]
      BY <1>4, <1>5, <1>8, <2>1 DEF CountMatches
    <3> QED BY <1>1, <2>1, <3>1 DEF BudgetTyped
  <2>2. CASE ~Present(i)
    <3>1. imports' = imports
      BY <1>4, <2>2 DEF CountMatches
    <3> QED BY <1>1, <1>5, <2>2, <3>1 DEF BudgetTyped
  <2> QED BY <2>1, <2>2
<1>14. \A j \in Imports : ImportFits(imports'[j]) /\ ImportKept(imports[j], imports'[j])
  <2> SUFFICES ASSUME NEW j \in Imports
      PROVE  ImportFits(imports'[j]) /\ ImportKept(imports[j], imports'[j])
    OBVIOUS
  <2>1. CASE j = i
    BY <1>5, <1>6, <1>9, <1>11, <1>13, <2>1 DEF ImportKept, Present
  <2>2. CASE j # i
    BY <1>1, <1>13, <2>2 DEF BudgetTyped, ImportKept
  <2> QED BY <2>1, <2>2
<1>15. \A v \in Uploaders \ {u} : uploader[v].at \in Matching =>
         /\ ImportUntouched(imports[uploader[v].import], imports'[uploader[v].import])
         /\ X.at \in Matching => uploader[v].import # X.import
  <2> SUFFICES ASSUME NEW v \in Uploaders \ {u}, uploader[v].at \in Matching
      PROVE  /\ ImportUntouched(imports[uploader[v].import], imports'[uploader[v].import])
             /\ X.at \notin Matching
    OBVIOUS
  <2>1. uploader[v].import \in Imports \ {i}
    BY <1>1, <1>2, <1>4, UploadIs DEF Matching, UploadsApart
  <2> QED BY <1>12, <1>13, <2>1, SameIsUntouched DEF Matching
<1>16. uploader'[u] = X
  BY <1>1, <1>12 DEF BudgetTyped
<1>17. UploadFits(u)' /\ AnswerFits(u)'
  <2>1. imports'[i].status = m.status /\ (Present(i) => imports'[i].counted)
    BY <1>9, <1>13
  <2> QED BY <1>5, <1>6, <1>12, <1>16, <2>1 DEF UploadFits, AnswerFits, Matching, Present
<1>18. BudgetTyped' /\ UploadsFit'
  <2>1. /\ found' \in [BudgetKeys -> SUBSET MirrorRecords] /\ moves' \in 0..MaxMatches
        /\ activated' \in BOOLEAN /\ orphaned' \in BOOLEAN
    BY <1>1, <1>2 DEF BudgetTyped
  <2> QED BY <1>12, <1>13, <1>14, <1>15, <1>17, <2>1, BudgetStep
<1>19. BudgetActive' = BudgetActive
  BY <1>5, <1>9, <1>13 DEF BudgetActive
<1> QED BY <1>1, <1>2, <1>18, <1>19 DEF BudgetInv, OneActive

\* A request moves on while the imports stay: an upload breaks off, a report is
\* read, begins, or counts.
LEMMA RequestMoves ==
  ASSUME BudgetInv, NEW u \in Uploaders, NEW X \in UploadState, uploader' = [uploader EXCEPT ![u] = X],
         X.at \in {"idle", "reading", "answered"}, UploadFits(u)', AnswerFits(u)',
         UNCHANGED <<imports, found, activated, orphaned, moves>>
  PROVE  BudgetInv'
<1>1. BudgetTyped /\ OneActive /\ (activated /\ ~orphaned => BudgetActive # {})
  BY DEF BudgetInv
<1>2. /\ DOMAIN imports' = Imports /\ imports' = [j \in Imports |-> imports'[j]]
      /\ \A j \in Imports : ImportFits(imports'[j]) /\ ImportKept(imports[j], imports'[j])
  BY <1>1 DEF BudgetTyped, ImportKept
<1>3. \A v \in Uploaders \ {u} : uploader[v].at \in Matching =>
        /\ ImportUntouched(imports[uploader[v].import], imports'[uploader[v].import])
        /\ X.at \in Matching => uploader[v].import # X.import
  BY SameIsUntouched DEF Matching
<1>4. /\ found' \in [BudgetKeys -> SUBSET MirrorRecords] /\ moves' \in 0..MaxMatches
      /\ activated' \in BOOLEAN /\ orphaned' \in BOOLEAN
  BY <1>1 DEF BudgetTyped
<1>5. BudgetTyped' /\ UploadsFit'
  BY <1>2, <1>3, <1>4, BudgetStep
<1> QED BY <1>1, <1>5 DEF BudgetInv, OneActive, BudgetActive

\* A request that ends, breaks off or is read.
LEMMA UploadEndKeeps ==
  ASSUME BudgetInv, NEW u \in Uploaders, UploadFails(u) \/ ReportIsRead(u) PROVE BudgetInv'
<1>1. uploader' = [uploader EXCEPT ![u] = IdleUpload] /\ UNCHANGED <<imports, found, activated, orphaned, moves>>
  BY DEF UploadFails, ReportIsRead
<1>2. IdleUpload \in UploadState /\ IdleUpload.at = "idle"
  BY DEF UploadState, IdleUpload
<1> HIDE DEF IdleUpload
<1>3. uploader'[u] = IdleUpload
  BY <1>1 DEF BudgetInv, BudgetTyped
<1>4. UploadFits(u)' /\ AnswerFits(u)'
  BY <1>2, <1>3 DEF UploadFits, AnswerFits, Matching
<1> QED BY <1>1, <1>2, <1>4, RequestMoves

\* A report finds the active import: it is counted, or a manager activated it early.
LEMMA ReadActiveKeeps ==
  ASSUME BudgetInv, NEW u \in Uploaders, ReadActiveImport(u) PROVE BudgetInv'
<1>1. PICK i \in BudgetActive :
        uploader' = [uploader EXCEPT ![u] = [at |-> "reading", import |-> i, matched |-> imports[i].matched]]
  BY DEF ReadActiveImport
<1>2. UNCHANGED <<imports, found, activated, orphaned, moves>>
  BY DEF ReadActiveImport
<1>3. i \in Imports /\ imports[i].status = "active" /\ ImportFits(imports[i])
  BY DEF BudgetActive, BudgetInv, BudgetTyped
<1>4. imports[i].matched \in Nat /\ (imports[i].counted \/ imports[i].early)
  <2>1. Cardinality(BudgetKeys) \in Nat
    BY BudgetAssumption, FS_CardinalityType
  <2> QED BY <1>3, <2>1 DEF ImportFits
<1>5. PICK X : X = [at |-> "reading", import |-> i, matched |-> imports[i].matched]
  OBVIOUS
<1>6. X \in UploadState /\ X.at = "reading" /\ X.import = i /\ X.matched = imports[i].matched
  BY <1>3, <1>4, <1>5 DEF UploadState
<1>7. uploader' = [uploader EXCEPT ![u] = X] /\ uploader'[u] = X
  BY <1>1, <1>5 DEF BudgetInv, BudgetTyped
<1>8. UploadFits(u)' /\ AnswerFits(u)'
  BY <1>2, <1>3, <1>4, <1>6, <1>7 DEF UploadFits, AnswerFits, Matching
<1> QED BY <1>2, <1>6, <1>7, <1>8, RequestMoves

\* A report counts the rows of the import it has found.
LEMMA ReadRowsKeeps ==
  ASSUME BudgetInv, NEW u \in Uploaders, ReadBudgetRows(u) PROVE BudgetInv'
<1>1. BudgetTyped /\ UploadFits(u) /\ AnswerFits(u)
  BY DEF BudgetInv, UploadsFit
<1>2. uploader[u].at = "reading" /\ UNCHANGED <<imports, found, activated, orphaned, moves>>
  BY DEF ReadBudgetRows
<1>3. PICK i \in Imports, c \in Nat : i = uploader[u].import /\ c = uploader[u].matched
  BY <1>1, <1>2, UploadIs
<1>4. PICK rows : rows = imports[i].rows
  OBVIOUS
<1>5. PICK X : X = [at |-> "answered", import |-> i, matched |-> c, accounts |-> Cardinality(DOMAIN rows),
                    unmatched |-> Cardinality(UnmatchedRows(rows))]
  OBVIOUS
<1>6. uploader' = [uploader EXCEPT ![u] = X]
  BY <1>3, <1>4, <1>5 DEF ReadBudgetRows, UnmatchedRows
<1>7. BudgetRowsFit(rows) /\ imports[i].status # "none"
  BY <1>1, <1>2, <1>3, <1>4 DEF BudgetTyped, ImportFits, UploadFits
<1>8. Cardinality(DOMAIN rows) \in Nat /\ Cardinality(UnmatchedRows(rows)) \in Nat
  BY <1>7, RowsAreSplit
<1>9. /\ X \in UploadState /\ X.at = "answered" /\ X.import = i /\ X.matched = c
      /\ X.accounts = Cardinality(DOMAIN rows) /\ X.unmatched = Cardinality(UnmatchedRows(rows))
  BY <1>5, <1>8 DEF UploadState
<1>10. uploader'[u] = X
  BY <1>1, <1>6 DEF BudgetTyped
<1>11. Present(i) /\ ~imports[i].early => imports[i].counted /\ c = imports[i].matched
  BY <1>1, <1>2, <1>3 DEF AnswerFits
<1>12. UploadFits(u)' /\ AnswerFits(u)'
  BY <1>2, <1>4, <1>7, <1>9, <1>10, <1>11 DEF UploadFits, AnswerFits, Matching, Present
<1> QED BY <1>2, <1>6, <1>9, <1>12, RequestMoves

\* Every step of mirror and managers preserves the invariant.
LEMMA BudgetNextKeeps == BudgetInv /\ [BudgetNext]_budgetVars => BudgetInv'
<1> SUFFICES ASSUME BudgetInv, [BudgetNext]_budgetVars PROVE BudgetInv'
  OBVIOUS
<1>1. CASE UNCHANGED budgetVars
  BY <1>1 DEF budgetVars, BudgetInv, BudgetTyped, OneActive, BudgetActive, UploadsFit, UploadsApart,
              UploadFits, AnswerFits, Present
<1>2. CASE BudgetNext
  BY <1>2, MirrorKeeps, ImportKeeps, MatchRowsKeeps, SetStatusKeeps, CountKeeps, ActivateUploadedKeeps,
     UploadEndKeeps, ReadActiveKeeps, ReadRowsKeeps, ActivateImportKeeps, DeleteImportKeeps DEF BudgetNext
<1> QED BY <1>1, <1>2

\* The invariant holds in every reachable state.
LEMMA BudgetAlways == BudgetSpec => []BudgetInv
BY BudgetInitially, BudgetNextKeeps, PTL DEF BudgetSpec

-----------------------------------------------------------------------------
(* Budgets: the theorems                                                   *)

\* Imports, their rows and the requests keep their types, for any files.
THEOREM BudgetTypeCorrect == BudgetSpec => []BudgetTypeOK
<1>1. BudgetInv => BudgetTypeOK
  <2> SUFFICES ASSUME BudgetInv PROVE BudgetTypeOK
    OBVIOUS
  <2>1. BudgetTyped
    BY DEF BudgetInv
  <2>2. \A i \in Imports : BudgetRowsFit(imports[i].rows) /\ imports[i].status \in ImportStates
                           /\ imports[i].matched \in 0..Cardinality(BudgetKeys)
    BY <2>1 DEF BudgetTyped, ImportFits
  <2>3. \A u \in Uploaders : uploader[u].at \in
          {"idle", "stored", "companies", "deals", "statused", "matched", "reading", "answered"}
    BY <2>1, UploadIs
  <2> QED BY <2>1, <2>2, <2>3 DEF BudgetTyped, BudgetTypeOK, BudgetRowsFit, ImportStates
<1> QED BY <1>1, BudgetAlways, PTL

\* What a workspace may rely on: one import at most is active, and once one was activated
\* there is always one, but for an upload that found its import deleted; every row is the
\* exact sum of the lines of its file; and the matched and unmatched accounts of a report
\* make up its rows, but for an import that was activated before its counter was written.
THEOREM BudgetCorrect == BudgetSpec => []BudgetStands
<1>1. BudgetInv => BudgetStands
  <2> SUFFICES ASSUME BudgetInv PROVE BudgetIsInForce /\ MergeIsExact /\ ReportCountsRows
    BY DEF BudgetStands
  <2>0. MergeIsExact
    BY DEF BudgetInv, BudgetTyped, ImportFits, MergeIsExact
  <2>1. OneActive /\ (activated /\ ~orphaned => BudgetActive # {})
    BY DEF BudgetInv
  <2>2. Cardinality(BudgetActive) <= 1
    <3>1. CASE BudgetActive = {}
      BY <3>1, FS_EmptySet
    <3>2. CASE BudgetActive # {}
      <4>1. PICK i : BudgetActive = {i}
        BY <2>1, <3>2 DEF OneActive
      <4>2. Cardinality({i}) = 1
        BY FS_Singleton
      <4> QED BY <4>1, <4>2
    <3> QED BY <3>1, <3>2
  <2>3. ReportCountsRows
    <3> SUFFICES ASSUME NEW u \in Uploaders, uploader[u].at = "answered", Present(uploader[u].import)
        PROVE  /\ uploader[u].accounts = Cardinality(DOMAIN imports[uploader[u].import].rows)
               /\ ~imports[uploader[u].import].early =>
                     uploader[u].unmatched + uploader[u].matched = uploader[u].accounts
      BY DEF ReportCountsRows
    <3>1. BudgetTyped /\ AnswerFits(u)
      BY DEF BudgetInv, UploadsFit
    <3>2. PICK i \in Imports : i = uploader[u].import
      BY <3>1, UploadIs
    <3>3. ImportFits(imports[i]) /\ BudgetRowsFit(imports[i].rows)
      BY <3>1 DEF BudgetTyped, ImportFits
    <3>4. /\ uploader[u].accounts = Cardinality(DOMAIN imports[i].rows)
          /\ ~imports[i].early => /\ imports[i].counted /\ uploader[u].matched = imports[i].matched
                                  /\ uploader[u].unmatched = Cardinality(UnmatchedRows(imports[i].rows))
      BY <3>1, <3>2 DEF AnswerFits
    <3>5. ~imports[i].early => uploader[u].matched = Cardinality(MatchedRows(imports[i].rows))
      BY <3>3, <3>4 DEF ImportFits
    <3>6. PICK a \in Nat, m \in Nat, n \in Nat :
            /\ a = Cardinality(DOMAIN imports[i].rows) /\ m = Cardinality(MatchedRows(imports[i].rows))
            /\ n = Cardinality(UnmatchedRows(imports[i].rows)) /\ n + m = a
      BY <3>3, RowsAreSplit
    <3> QED BY <3>2, <3>4, <3>5, <3>6
  <2> QED BY <2>0, <2>1, <2>2, <2>3 DEF BudgetIsInForce
<1> QED BY <1>1, BudgetAlways, PTL

-----------------------------------------------------------------------------
(* Saved views: the invariant                                              *)

\* A user without a request.
EditorIdle(e) == editor[e].op = "none"

\* What a request is in each phase of its transaction.
EditorShape(e) ==
    /\ EditorIdle(e) => editor[e].at = "begun" /\ editor[e].cleared = {}
    /\ ~EditorIdle(e) => editor[e].view \in Views
    /\ ~EditorIdle(e) /\ editor[e].at \in {"begun", "clearing"} => editor[e].default = "on"
    /\ editor[e].at \in {"begun", "clearing"} => editor[e].cleared = {}
    /\ editor[e].default # "on" => editor[e].cleared = {}
    /\ editor[e].op = "create" => editor[e].name # NoName

\* Nobody else has the id of a row that is being inserted.
NewIds ==
    \A e \in Editors : editor[e].op = "create" =>
        /\ ~Saved(editor[e].view)
        /\ \A o \in Editors \ {e} : editor[o].op = "create" => editor[o].view # editor[e].view

\* No row is locked by two transactions.
OneHolder == \A e, o \in Editors, v \in Views : e # o => ~(Holds(e, v) /\ Holds(o, v))

\* What has been written keeps the unique indexes, of the committed rows ...
WrittenFits(e) ==
    editor[e].at = "written" =>
        /\ editor[e].op = "update" => Saved(editor[e].view)
        /\ \A v \in Views \ {editor[e].view} :
              /\ Saved(v) => views[v].name # Written(e).name
              /\ editor[e].default = "on" /\ views[v].default => v \in editor[e].cleared

\* ... and among transactions.
WrittenApart ==
    \A e, o \in Editors : e # o /\ editor[e].at = "written" /\ editor[o].at = "written" =>
        /\ Written(e).name # Written(o).name
        /\ ~(editor[e].default = "on" /\ editor[o].default = "on")

\* Only a view that exists is the default.
DefaultsSaved == \A v \in Views : views[v].default => Saved(v)

\* The inductive invariant of saved views.
ViewsInv ==
    /\ SavedViewsTypeOK /\ DefaultStands /\ DefaultsSaved
    /\ \A e \in Editors : EditorShape(e)
    /\ NewIds /\ OneHolder /\ (\A e \in Editors : WrittenFits(e)) /\ WrittenApart

-----------------------------------------------------------------------------
-----------------------------------------------------------------------------
(* Saved views: the steps                                                  *)

\* The invariant holds of a workspace without views.
LEMMA ViewsInitially == SavedViewsInit => ViewsInv
<1> SUFFICES ASSUME SavedViewsInit PROVE ViewsInv
  OBVIOUS
<1>1. NoRow \in Row /\ NoEditor \in Editor /\ NoEditor.op = "none" /\ NoEditor.at = "begun"
      /\ NoEditor.cleared = {} /\ NoRow.default = FALSE /\ NoRow.name = NoName
  BY DEF NoRow, Row, NoEditor, Editor, NoName
<1>2. SavedViewsTypeOK
  BY <1>1 DEF SavedViewsInit, SavedViewsTypeOK
<1>3. \A v \in Views : ~views[v].default /\ ~Saved(v)
  BY <1>1 DEF SavedViewsInit, Saved
<1>4. \A e \in Editors : editor[e] = NoEditor
  BY DEF SavedViewsInit
<1>5. DefaultStands /\ DefaultsSaved
  BY <1>3 DEF SavedViewsInit, DefaultStands, DefaultsSaved
<1>6. \A e \in Editors : EditorShape(e)
  BY <1>1, <1>4 DEF EditorShape, EditorIdle
<1>7. NewIds /\ OneHolder /\ (\A e \in Editors : WrittenFits(e)) /\ WrittenApart
  BY <1>1, <1>4 DEF NewIds, OneHolder, Holds, WrittenFits, WrittenApart
<1> QED BY <1>2, <1>5, <1>6, <1>7 DEF ViewsInv

\* A request that takes no more than free locks and has not written its row changes
\* nothing for the others.
LEMMA EditorMoves ==
  ASSUME ViewsInv, NEW x \in Editors, UNCHANGED <<views, chosen>>,
         editor' \in [Editors -> Editor], \A o \in Editors \ {x} : editor'[o] = editor[o],
         editor'[x].at # "written", EditorShape(x)', NewIds',
         \A v \in editor'[x].cleared : ~Held(v, x)
  PROVE  ViewsInv'
<1>1. SavedViewsTypeOK' /\ DefaultStands' /\ DefaultsSaved'
  BY DEF ViewsInv, SavedViewsTypeOK, DefaultStands, DefaultsSaved, Saved
<1>2. \A e \in Editors : EditorShape(e)'
  BY DEF ViewsInv, EditorShape, EditorIdle
<1>3. OneHolder'
  BY DEF ViewsInv, OneHolder, Held, Holds
<1>4. \A e \in Editors : WrittenFits(e)'
  BY DEF ViewsInv, WrittenFits, Written, Saved
<1>5. WrittenApart'
  BY DEF ViewsInv, WrittenApart, Written
<1> QED BY <1>1, <1>2, <1>3, <1>4, <1>5 DEF ViewsInv

\* Begin, with an id of its own when it inserts.
LEMMA BeginKeeps ==
  ASSUME ViewsInv, NEW x \in Editors, NEW op \in {"create", "update"}, NEW v \in Views,
         NEW name \in Names \cup {NoName}, NEW default \in {"on", "off", "kept"},
         Begin(x, op, v, name, default), op = "create" => Unused(v) /\ name # NoName
  PROVE  ViewsInv'
<1> DEFINE new == [op |-> op, at |-> IF default = "on" THEN "begun" ELSE "cleared", view |-> v,
                   name |-> name, default |-> default, targets |-> {}, cleared |-> {}]
<1>1. /\ new \in Editor /\ new.op = op /\ new.at = (IF default = "on" THEN "begun" ELSE "cleared")
      /\ new.view = v /\ new.name = name /\ new.default = default /\ new.cleared = {}
  BY DEF Editor
<1>2. editor' = [editor EXCEPT ![x] = new] /\ UNCHANGED <<views, chosen>>
  BY DEF Begin
<1> HIDE DEF new
<1>3. /\ editor' \in [Editors -> Editor] /\ editor'[x] = new
      /\ \A o \in Editors \ {x} : editor'[o] = editor[o]
  BY <1>1, <1>2 DEF ViewsInv, SavedViewsTypeOK
<1>4. EditorShape(x)'
  BY <1>1, <1>3 DEF EditorShape, EditorIdle
<1>5. NewIds'
  BY <1>1, <1>2, <1>3 DEF ViewsInv, NewIds, Unused, Saved
<1> QED BY <1>1, <1>2, <1>3, <1>4, <1>5, EditorMoves

\* An editor's next record.
LEMMA FindKeeps ==
  ASSUME ViewsInv, NEW x \in Editors, FindDefault(x) PROVE ViewsInv'
<1> DEFINE holding == {v \in Views \ {editor[x].view} : views[v].default}
           new == [editor[x] EXCEPT !.at = "clearing", !.targets = holding]
<1>0. editor[x] \in Editor /\ holding \in SUBSET Views
  BY DEF ViewsInv, SavedViewsTypeOK
<1>1. editor' = [editor EXCEPT ![x] = new]
  BY DEF FindDefault
<1> HIDE DEF holding
<1>2. /\ new \in Editor /\ new.op = editor[x].op /\ new.at = "clearing" /\ new.view = editor[x].view
      /\ new.name = editor[x].name /\ new.default = editor[x].default /\ new.cleared = editor[x].cleared
  BY <1>0 DEF Editor
<1> HIDE DEF new
<1>3. /\ editor' \in [Editors -> Editor] /\ editor'[x] = new
      /\ \A o \in Editors \ {x} : editor'[o] = editor[o]
  BY <1>1, <1>2 DEF ViewsInv, SavedViewsTypeOK
<1>4. EditorShape(x)'
  BY <1>2, <1>3 DEF EditorShape, EditorIdle, ViewsInv, FindDefault
<1>5. NewIds'
  BY <1>2, <1>3 DEF ViewsInv, NewIds, Saved, FindDefault
<1>6. editor[x].cleared = {}
  BY DEF ViewsInv, EditorShape, FindDefault
<1> QED BY <1>2, <1>3, <1>4, <1>5, <1>6, EditorMoves DEF FindDefault

\* A default is cleared only by the transaction that holds its row.
LEMMA ClearKeeps ==
  ASSUME ViewsInv, NEW x \in Editors, ClearDefault(x) PROVE ViewsInv'
<1> DEFINE holding == {v \in editor[x].targets : views[v].default}
           new == [editor[x] EXCEPT !.at = "cleared", !.targets = {}, !.cleared = holding]
<1>0. editor[x] \in Editor /\ holding \in SUBSET Views /\ editor[x].targets \in SUBSET Views
  BY DEF ViewsInv, SavedViewsTypeOK, Editor
<1>1. editor' = [editor EXCEPT ![x] = new]
  BY DEF ClearDefault
<1>6. \A v \in holding : ~Held(v, x)
  BY DEF ClearDefault
<1> HIDE DEF holding
<1>2. /\ new \in Editor /\ new.op = editor[x].op /\ new.at = "cleared" /\ new.view = editor[x].view
      /\ new.name = editor[x].name /\ new.default = editor[x].default /\ new.cleared = holding
  BY <1>0 DEF Editor
<1> HIDE DEF new
<1>3. /\ editor' \in [Editors -> Editor] /\ editor'[x] = new
      /\ \A o \in Editors \ {x} : editor'[o] = editor[o]
  BY <1>1, <1>2 DEF ViewsInv, SavedViewsTypeOK
<1>4. EditorShape(x)'
  BY <1>2, <1>3 DEF EditorShape, EditorIdle, ViewsInv, ClearDefault
<1>5. NewIds'
  BY <1>2, <1>3 DEF ViewsInv, NewIds, Saved, ClearDefault
<1> QED BY <1>2, <1>3, <1>4, <1>5, <1>6, EditorMoves DEF ClearDefault

\* A request that breaks off gives its rows back as they were.
LEMMA ViewEndKeeps ==
  ASSUME ViewsInv, NEW x \in Editors, TransactionFails(x) PROVE ViewsInv'
<1>1. /\ NoEditor \in Editor /\ NoEditor.op = "none" /\ NoEditor.at = "begun"
      /\ NoEditor.cleared = {}
  BY DEF NoEditor, Editor, NoName
<1>3. /\ editor' \in [Editors -> Editor] /\ editor'[x] = NoEditor
      /\ \A o \in Editors \ {x} : editor'[o] = editor[o]
  BY <1>1 DEF ViewsInv, SavedViewsTypeOK, TransactionFails, EditorEnds, RolledBack
<1>4. EditorShape(x)'
  BY <1>1, <1>3 DEF EditorShape, EditorIdle
<1>5. NewIds'
  BY <1>1, <1>3 DEF ViewsInv, NewIds, Saved, TransactionFails, RolledBack
<1> QED BY <1>1, <1>3, <1>4, <1>5, EditorMoves DEF TransactionFails, RolledBack

\* The row that a transaction has written does not change under its lock.
LEMMA SameRow ==
  ASSUME ViewsInv, NEW e \in Editors, editor'[e] = editor[e] \/ editor'[e] = [editor[e] EXCEPT !.at = "written"],
         views'[editor[e].view] = views[editor[e].view]
  PROVE  Written(e)' = Written(e)
<1>1. editor[e] \in Editor
  BY DEF ViewsInv, SavedViewsTypeOK
<1>2. editor'[e].name = editor[e].name /\ editor'[e].view = editor[e].view /\ editor'[e].default = editor[e].default
  BY <1>1 DEF Editor
<1> QED BY <1>2 DEF Written

\* A row that has been written has a name.
LEMMA WrittenNamed ==
  ASSUME ViewsInv, NEW e \in Editors, ~EditorIdle(e), editor[e].op = "update" => Saved(editor[e].view)
  PROVE  Written(e).name # NoName /\ Written(e) \in Row
<1>1. editor[e] \in Editor /\ editor[e].view \in Views /\ editor[e].op \in {"create", "update"}
  BY DEF ViewsInv, SavedViewsTypeOK, Editor, EditorShape, EditorIdle
<1>2. views[editor[e].view] \in Row
  BY <1>1 DEF ViewsInv, SavedViewsTypeOK
<1>3. Written(e).name # NoName
  BY <1>1 DEF ViewsInv, EditorShape, Written, Saved
<1>4. editor[e].default \in {"on", "off", "kept"} /\ editor[e].name \in Names \cup {NoName}
  BY <1>1 DEF Editor
<1>5. Written(e).name \in Names \cup {NoName}
  BY <1>2, <1>4 DEF Written, Row
<1>6. Written(e).default \in BOOLEAN
  <2>1. CASE editor[e].default = "on"
    BY <2>1 DEF Written
  <2>2. CASE editor[e].default = "off"
    BY <2>2 DEF Written
  <2>3. CASE editor[e].default = "kept"
    BY <1>2, <2>3 DEF Written, Row
  <2> QED BY <1>4, <2>1, <2>2, <2>3
<1> QED BY <1>3, <1>5, <1>6 DEF Row, Written

\* The new values of a view are written, not yet visible to others.
LEMMA WriteKeeps ==
  ASSUME ViewsInv, NEW x \in Editors, WriteView(x) PROVE ViewsInv'
<1> DEFINE new == [editor[x] EXCEPT !.at = "written"]
<1>0. editor[x] \in Editor /\ ~EditorIdle(x) /\ editor[x].view \in Views
  BY DEF ViewsInv, SavedViewsTypeOK, EditorShape, WriteView, EditorIdle
<1>1. editor' = [editor EXCEPT ![x] = new] /\ UNCHANGED <<views, chosen>>
  BY DEF WriteView
<1>2. /\ new \in Editor /\ new.op = editor[x].op /\ new.at = "written" /\ new.view = editor[x].view
      /\ new.name = editor[x].name /\ new.default = editor[x].default /\ new.cleared = editor[x].cleared
  BY <1>0 DEF Editor
<1> HIDE DEF new
<1>3. /\ editor' \in [Editors -> Editor] /\ editor'[x] = new
      /\ \A o \in Editors \ {x} : editor'[o] = editor[o]
  BY <1>1, <1>2 DEF ViewsInv, SavedViewsTypeOK
<1>4. \A e \in Editors : Written(e)' = Written(e)
  <2>1. Written(x)' = Written(x)
    BY <1>1, <1>2, <1>3 DEF Written
  <2>2. ASSUME NEW e \in Editors \ {x} PROVE Written(e)' = Written(e)
    BY <1>1, <1>3 DEF Written
  <2> QED BY <2>1, <2>2
<1>5. SavedViewsTypeOK' /\ DefaultStands' /\ DefaultsSaved'
  BY <1>1, <1>3 DEF ViewsInv, SavedViewsTypeOK, DefaultStands, DefaultsSaved, Saved
<1>6. \A e \in Editors : EditorShape(e)'
  BY <1>0, <1>2, <1>3 DEF ViewsInv, EditorShape, EditorIdle, WriteView
<1>7. NewIds'
  BY <1>1, <1>2, <1>3 DEF ViewsInv, NewIds, Saved
<1>8. \A o \in Editors \ {x} : ~Holds(o, editor[x].view)
  BY DEF WriteView, MustWait, Held
<1>9. OneHolder'
  BY <1>2, <1>3, <1>8 DEF ViewsInv, OneHolder, Holds
<1>10. \A v \in Views \ {editor[x].view} :
          /\ Saved(v) => views[v].name # Written(x).name
          /\ editor[x].default = "on" /\ views[v].default => v \in editor[x].cleared
  <2>1. ASSUME NEW v \in Views \ {editor[x].view}, Saved(v) PROVE views[v].name # Written(x).name
    <3>1. CASE editor[x].name = NoName
      <4>1. Saved(editor[x].view)
        BY <1>0, <3>1 DEF ViewsInv, EditorShape, Editor, EditorIdle, WriteView
      <4> QED BY <1>0, <2>1, <3>1, <4>1 DEF ViewsInv, DefaultStands, Written
    <3>2. CASE editor[x].name # NoName
      BY <2>1, <3>2 DEF WriteView, Clashes, Written, Saved
    <3> QED BY <3>1, <3>2
  <2>2. ASSUME NEW v \in Views \ {editor[x].view}, editor[x].default = "on", views[v].default
        PROVE  v \in editor[x].cleared
    BY <2>2 DEF WriteView, Clashes
  <2> QED BY <2>1, <2>2
<1>11. \A e \in Editors : WrittenFits(e)'
  <2>1. WrittenFits(x)'
    BY <1>1, <1>2, <1>3, <1>4, <1>10 DEF WrittenFits, Saved, WriteView
  <2>2. ASSUME NEW e \in Editors \ {x} PROVE WrittenFits(e)'
    BY <1>1, <1>3, <1>4 DEF ViewsInv, WrittenFits, Saved
  <2> QED BY <2>1, <2>2
<1>12. ASSUME NEW o \in Editors \ {x}, editor[o].at = "written"
       PROVE  /\ Written(o).name # Written(x).name
              /\ ~(editor[o].default = "on" /\ editor[x].default = "on")
  <2>1. editor[o].view # editor[x].view
    BY <1>8, <1>12 DEF Holds
  <2>2. ~Clashes(x, editor[o].view, Written(o))
    BY <1>12 DEF WriteView, MustWait
  <2>3. ~EditorIdle(o) /\ (editor[o].op = "update" => Saved(editor[o].view)) /\ editor[o].view \in Views
    BY <1>12 DEF ViewsInv, EditorShape, EditorIdle, WrittenFits
  <2>4. Written(o).name # NoName
    BY <2>3, WrittenNamed
  <2>5. Written(o).name # Written(x).name
    <3>1. CASE editor[x].name = NoName
      <4>1. Saved(editor[x].view)
        BY <1>0, <3>1 DEF ViewsInv, EditorShape, Editor, EditorIdle, WriteView
      <4>2. views[editor[x].view].name # Written(o).name
        BY <1>0, <1>12, <2>1, <4>1 DEF ViewsInv, WrittenFits
      <4> QED BY <3>1, <4>2 DEF Written
    <3>2. CASE editor[x].name # NoName
      BY <2>1, <2>2, <2>4, <3>2 DEF Clashes, Written
    <3> QED BY <3>1, <3>2
  <2>6. ASSUME editor[o].default = "on", editor[x].default = "on" PROVE FALSE
    <3>1. Written(o).default
      BY <2>6 DEF Written
    <3>2. editor[o].view \in editor[x].cleared
      BY <2>1, <2>2, <2>6, <3>1 DEF Clashes
    <3> QED BY <1>12, <2>3, <3>2 DEF ViewsInv, OneHolder, Holds
  <2> QED BY <2>5, <2>6
<1>13. WrittenApart'
  BY <1>2, <1>3, <1>4, <1>12 DEF ViewsInv, WrittenApart
<1> QED BY <1>5, <1>6, <1>7, <1>9, <1>11, <1>13 DEF ViewsInv

\* A commit makes the cleared rows and the new default visible together.
LEMMA CommitKeeps ==
  ASSUME ViewsInv, NEW x \in Editors, CommitView(x) PROVE ViewsInv'
<1>w. PICK w : w = editor[x].view
  OBVIOUS
<1>0. editor[x] \in Editor /\ ~EditorIdle(x) /\ w \in Views /\ editor[x].cleared \in SUBSET Views
      /\ editor[x].default \in {"on", "off", "kept"} /\ (editor[x].op = "update" => Saved(w))
  BY <1>w DEF ViewsInv, SavedViewsTypeOK, Editor, EditorShape, CommitView, EditorIdle, WrittenFits
<1>1. /\ NoEditor \in Editor /\ NoEditor.op = "none" /\ NoEditor.at = "begun"
      /\ NoEditor.cleared = {}
  BY DEF NoEditor, Editor, NoName
<1>2. /\ editor' \in [Editors -> Editor] /\ editor'[x] = NoEditor
      /\ \A o \in Editors \ {x} : editor'[o] = editor[o]
  BY <1>w, <1>1 DEF ViewsInv, SavedViewsTypeOK, CommitView, EditorEnds
<1>3. Written(x).name # NoName /\ Written(x) \in Row
  BY <1>w, <1>0, WrittenNamed
<1>4. /\ views'[w] = Written(x)
      /\ \A v \in Views \ {w} : /\ views'[v] \in Row /\ views'[v].name = views[v].name
                               /\ views'[v].default = (views[v].default /\ v \notin editor[x].cleared)
  <2>1. views'[w] = Written(x)
    BY <1>w, <1>0 DEF CommitView
  <2>2. ASSUME NEW v \in Views \ {w}
        PROVE  /\ views'[v] \in Row /\ views'[v].name = views[v].name
               /\ views'[v].default = (views[v].default /\ v \notin editor[x].cleared)
    <3>1. views[v] \in Row
      BY DEF ViewsInv, SavedViewsTypeOK
    <3>2. CASE v \in editor[x].cleared
      BY <1>w, <3>1, <3>2 DEF CommitView, Row
    <3>3. CASE v \notin editor[x].cleared
      BY <1>w, <3>1, <3>3 DEF CommitView, Row
    <3> QED BY <3>2, <3>3
  <2> QED BY <2>1, <2>2
<1>5. views' \in [Views -> Row]
  BY <1>w, <1>0, <1>3, <1>4 DEF CommitView
<1>6. \A v \in Views \ {w} : Saved(v)' <=> Saved(v)
  BY <1>4 DEF Saved
<1>7. Saved(w)'
  BY <1>3, <1>4 DEF Saved
<1>8. editor[x].at = "written"
  BY <1>w DEF CommitView
<1>9. \A v, u \in Views : v # u /\ Saved(v)' => views'[v].name # views'[u].name
  <2>1. \A v \in Views \ {w} : Saved(v) => views[v].name # Written(x).name
    BY <1>w, <1>8 DEF ViewsInv, WrittenFits
  <2>2. \A v \in Views \ {w} : views'[v].name # Written(x).name
    BY <1>3, <1>4, <2>1 DEF Saved
  <2> QED BY <1>4, <1>6, <2>2 DEF ViewsInv, DefaultStands
<1>10. chosen' \in Views \cup {NoView}
       /\ {v \in Views : views'[v].default} = IF chosen' = NoView THEN {} ELSE {chosen'}
  <2>0. chosen \in Views \cup {NoView} /\ {v \in Views : views[v].default} = IF chosen = NoView THEN {} ELSE {chosen}
    BY DEF ViewsInv, SavedViewsTypeOK, DefaultStands
  <2>1. CASE editor[x].default = "on"
    <3>1. chosen' = w /\ views'[w].default
      BY <1>w, <1>4, <2>1 DEF CommitView, Written
    <3>2. \A v \in Views \ {w} : ~views'[v].default
      BY <1>w, <1>4, <1>8, <2>1 DEF ViewsInv, WrittenFits
    <3> QED BY <1>0, <3>1, <3>2, SavedViewsAssumption
  <2>2. CASE editor[x].default = "off"
    <3>1. editor[x].cleared = {} /\ ~views'[w].default
      BY <1>w, <1>4, <2>2 DEF ViewsInv, EditorShape, Written
    <3>2. chosen' = IF chosen = w THEN NoView ELSE chosen
      BY <1>w, <2>2 DEF CommitView
    <3> QED BY <1>0, <1>4, <2>0, <3>1, <3>2, SavedViewsAssumption
  <2>3. CASE editor[x].default = "kept"
    <3>1. editor[x].cleared = {} /\ views'[w].default = views[w].default
      BY <1>w, <1>4, <2>3 DEF ViewsInv, EditorShape, Written
    <3>2. chosen' = chosen
      BY <1>w, <2>3 DEF CommitView
    <3> QED BY <1>0, <1>4, <2>0, <3>1, <3>2, SavedViewsAssumption
  <2> QED BY <1>0, <2>1, <2>2, <2>3
<1>11. SavedViewsTypeOK' /\ DefaultStands' /\ DefaultsSaved'
  <2>1. DefaultsSaved'
    BY <1>4, <1>6, <1>7 DEF ViewsInv, DefaultsSaved
  <2> QED BY <1>2, <1>5, <1>9, <1>10, <2>1 DEF SavedViewsTypeOK, DefaultStands
<1>12. \A e \in Editors : EditorShape(e)'
  BY <1>w, <1>1, <1>2 DEF ViewsInv, EditorShape, EditorIdle
<1>13. NewIds'
  <2>1. ASSUME NEW e \in Editors \ {x}, editor[e].op = "create" PROVE editor[e].view # w /\ editor[e].view \in Views
    BY <1>w, <1>0, <2>1 DEF ViewsInv, NewIds, EditorShape, EditorIdle, Editor
  <2> QED BY <1>w, <1>1, <1>2, <1>6, <2>1 DEF ViewsInv, NewIds
<1>14. OneHolder'
  BY <1>w, <1>1, <1>2 DEF ViewsInv, OneHolder, Holds
<1>15. \A e \in Editors \ {x} : editor[e].at = "written" =>
          editor[e].view \in Views \ {w} /\ editor[e].view \notin editor[x].cleared /\ w \notin editor[e].cleared
  BY <1>w, <1>0, <1>8 DEF ViewsInv, OneHolder, Holds, EditorShape, EditorIdle
<1>16. \A e \in Editors \ {x} : editor[e].at = "written" => Written(e)' = Written(e)
  <2> SUFFICES ASSUME NEW e \in Editors \ {x}, editor[e].at = "written" PROVE Written(e)' = Written(e)
    OBVIOUS
  <2>1. views'[editor[e].view] = views[editor[e].view]
    BY <1>w, <1>15 DEF CommitView
  <2> QED BY <1>w, <1>2, <2>1 DEF Written
<1>17. \A e \in Editors : WrittenFits(e)'
  <2>1. WrittenFits(x)'
    BY <1>w, <1>1, <1>2 DEF WrittenFits
  <2>2. ASSUME NEW e \in Editors \ {x}, editor[e].at = "written" PROVE WrittenFits(e)'
    <3>1. editor[e].op = "update" => Saved(editor[e].view)'
      BY <1>w, <1>2, <1>6, <1>15, <2>2 DEF ViewsInv, WrittenFits
    <3>2. ASSUME NEW v \in Views \ {editor[e].view}, Saved(v)' PROVE views'[v].name # Written(e).name
      <4>1. CASE v = w
        BY <1>4, <1>8, <2>2, <4>1 DEF ViewsInv, WrittenApart
      <4>2. CASE v # w
        BY <1>w, <1>4, <1>6, <2>2, <3>2, <4>2 DEF ViewsInv, WrittenFits
      <4> QED BY <4>1, <4>2
    <3>3. ASSUME NEW v \in Views \ {editor[e].view}, editor[e].default = "on", views'[v].default
          PROVE  v \in editor[e].cleared
      <4>1. CASE v = w
        <5>1. editor[x].default = "kept" /\ views[w].default
          <6>1. editor[x].default # "on"
            BY <1>8, <2>2, <3>3 DEF ViewsInv, WrittenApart
          <6>2. Written(x).default
            BY <1>4, <3>3, <4>1
          <6> QED BY <1>w, <1>0, <6>1, <6>2 DEF Written
        <5> QED BY <1>w, <1>15, <2>2, <3>3, <4>1, <5>1 DEF ViewsInv, WrittenFits
      <4>2. CASE v # w
        BY <1>w, <1>4, <2>2, <3>3, <4>2 DEF ViewsInv, WrittenFits
      <4> QED BY <4>1, <4>2
    <3> QED BY <1>w, <1>2, <1>16, <2>2, <3>1, <3>2, <3>3 DEF WrittenFits
  <2>3. ASSUME NEW e \in Editors \ {x}, editor[e].at # "written" PROVE WrittenFits(e)'
    BY <1>w, <1>2, <2>3 DEF WrittenFits
  <2> QED BY <2>1, <2>2, <2>3
<1>18. WrittenApart'
  BY <1>1, <1>2, <1>16 DEF ViewsInv, WrittenApart
<1> QED BY <1>11, <1>12, <1>13, <1>14, <1>17, <1>18 DEF ViewsInv

\* A deleted view takes its default with it.
LEMMA DeleteKeeps ==
  ASSUME ViewsInv, NEW w \in Views, DeleteView(w) PROVE ViewsInv'
<1>1. NoRow \in Row /\ ~NoRow.default /\ NoRow.name = NoName
  BY DEF NoRow, Row, NoName
<1>2. editor' = editor /\ views' \in [Views -> Row] /\ views'[w] = NoRow
      /\ \A v \in Views \ {w} : views'[v] = views[v]
  BY <1>1 DEF DeleteView, ViewsInv, SavedViewsTypeOK
<1>3. ~Saved(w)' /\ \A v \in Views \ {w} : Saved(v)' <=> Saved(v)
  BY <1>1, <1>2 DEF Saved
<1>4. \A e \in Editors : ~(editor[e].at = "written" /\ editor[e].view = w)
  BY DEF DeleteView, Holds
<1>5. chosen' \in Views \cup {NoView}
       /\ {v \in Views : views'[v].default} = IF chosen' = NoView THEN {} ELSE {chosen'}
  <2>0. chosen \in Views \cup {NoView} /\ {v \in Views : views[v].default} = IF chosen = NoView THEN {} ELSE {chosen}
    BY DEF ViewsInv, SavedViewsTypeOK, DefaultStands
  <2>1. chosen' = IF chosen = w THEN NoView ELSE chosen
    BY DEF DeleteView
  <2> QED BY <1>1, <1>2, <2>0, <2>1, SavedViewsAssumption
<1>6. \A v, u \in Views : v # u /\ Saved(v)' => views'[v].name # views'[u].name
  BY <1>1, <1>2, <1>3 DEF ViewsInv, DefaultStands, Saved
<1>7. SavedViewsTypeOK' /\ DefaultStands' /\ DefaultsSaved'
  BY <1>1, <1>2, <1>3, <1>5, <1>6 DEF ViewsInv, SavedViewsTypeOK, DefaultStands, DefaultsSaved
<1>8. \A e \in Editors : EditorShape(e)'
  BY <1>2 DEF ViewsInv, EditorShape, EditorIdle
<1>9. NewIds' /\ OneHolder'
  BY <1>2, <1>3 DEF ViewsInv, NewIds, OneHolder, Holds, EditorShape, EditorIdle
<1>10. \A e \in Editors : editor[e].at = "written" => Written(e)' = Written(e) /\ editor[e].view \in Views \ {w}
  BY <1>2, <1>4 DEF Written, ViewsInv, EditorShape, EditorIdle
<1>11. \A e \in Editors : WrittenFits(e)'
  BY <1>1, <1>2, <1>3, <1>10 DEF ViewsInv, WrittenFits
<1>12. WrittenApart'
  BY <1>2, <1>10 DEF ViewsInv, WrittenApart
<1> QED BY <1>7, <1>8, <1>9, <1>11, <1>12 DEF ViewsInv

\* Every step keeps the invariant.
LEMMA ViewsNextKeeps == ViewsInv /\ [ViewsNext]_viewVars => ViewsInv'
<1> SUFFICES ASSUME ViewsInv, [ViewsNext]_viewVars PROVE ViewsInv'
  OBVIOUS
<1>0. NoName \notin Names /\ \A n \in Names : n > 0
  BY SavedViewsAssumption DEF Names, NoName
<1>1. ASSUME NEW e \in Editors, NEW v \in Views, NEW name \in Names, NEW default \in {"on", "off"},
             CreateView(e, v, name, default)
      PROVE  ViewsInv'
  BY <1>0, <1>1, BeginKeeps DEF CreateView
<1>2. ASSUME NEW e \in Editors, NEW v \in Views, NEW name \in Names \cup {NoName},
             NEW default \in {"on", "off", "kept"}, UpdateView(e, v, name, default)
      PROVE  ViewsInv'
  BY <1>2, BeginKeeps DEF UpdateView
<1>3. ASSUME NEW e \in Editors, NEW source \in Views, NEW v \in Views, DuplicateView(e, source, v)
      PROVE  ViewsInv'
  BY <1>0, <1>3, BeginKeeps DEF DuplicateView
<1>4. CASE UNCHANGED viewVars
  BY <1>4 DEF viewVars, ViewsInv, SavedViewsTypeOK, DefaultStands, DefaultsSaved, EditorShape, EditorIdle,
              NewIds, OneHolder, Holds, WrittenFits, WrittenApart, Written, Saved
<1> QED BY <1>1, <1>2, <1>3, <1>4, FindKeeps, ClearKeeps, WriteKeeps, ViewEndKeeps, CommitKeeps,
           DeleteKeeps DEF ViewsNext

-----------------------------------------------------------------------------
(* Saved views: the theorems                                               *)

\* The rows, the requests and their transactions keep their types.
THEOREM ViewsTypeCorrect == ViewsSpec => []SavedViewsTypeOK
<1>1. ViewsInv => SavedViewsTypeOK
  BY DEF ViewsInv
<1> QED BY <1>1, ViewsInitially, ViewsNextKeeps, PTL DEF ViewsSpec

\* Whatever requests fail, are refused or interleave, the default view is the one
\* that was chosen last, and the name of a view is its own (saved-views.js).
THEOREM DefaultCorrect == ViewsSpec => []DefaultStands
<1>1. ViewsInv => DefaultStands
  BY DEF ViewsInv
<1> QED BY <1>1, ViewsInitially, ViewsNextKeeps, PTL DEF ViewsSpec

-----------------------------------------------------------------------------
(* The page: the invariant                                                 *)

\* The call of the handler that the user has called last.
Current(h) == handler[h].click = clicks

\* What the page shows: a workspace and filters.
Selection == [of |-> selectedId, filters |-> filters]

\* Calls that have yet to ask for a report, and all that are under way.
Asking == {h \in Handlers : handler[h].at \in {"views", "workspaces"}}
CallsUnderWay == {h \in Handlers : handler[h].at # "idle"}

\* The calls of a page: of its handlers, of the background reports and of its lists.
HandlerCall == [at: {"idle", "views", "workspaces", "report"}, of: Companies, filters: FilterChoices,
                version: Nat, click: Nat, full: BOOLEAN, loads: BOOLEAN]
PendingCall == [version: Nat, of: Companies, filters: FilterChoices]
ListCall == [title: Titles \cup {NoTitle}, of: Companies]

\* The types of the page without its bounds.
CallsTyped ==
    /\ selectedId \in Companies /\ viewsOf \in Companies \cup {Nowhere}
    /\ filters \in FilterChoices
    /\ loading \in BOOLEAN /\ failed \in BOOLEAN /\ late \in BOOLEAN /\ incomplete \in BOOLEAN /\ mixed \in BOOLEAN
    /\ payload \in Report \cup {NoReport} /\ operating \in Report \cup {NoReport}
    /\ preferencesOf \in Companies \cup {Nowhere}
    /\ drilldown \in ListCall /\ drillTitle \in Titles \cup {NoTitle}
    /\ requestVersion \in Nat /\ operatingVersion \in Nat /\ preferencesVersion \in Nat
    /\ clicks \in Nat \ {0} /\ opened \in Nat
    /\ handler \in [Handlers -> HandlerCall]
    /\ operatingCall \in [Handlers -> PendingCall]
    /\ preferencesCall \in [Handlers -> PendingCall]
    /\ list \in [Lists -> ListCall]

\* Nothing is numbered beyond its counter, one call at most is the user's last, and
\* an answer is asked for at most once per click.
CallsNumbered ==
    /\ \A h \in Handlers :
          /\ handler[h].version <= requestVersion /\ handler[h].click <= clicks
          /\ handler[h].at = "report" => handler[h].version > 0
          /\ handler[h].at = "idle" => handler[h] = Idle
          /\ operatingCall[h].version <= operatingVersion
          /\ preferencesCall[h].version <= preferencesVersion
    /\ \A h, g \in Handlers : Current(h) /\ Current(g) => h = g

\* A version was given to no more calls than the user has clicked for.
CountsFit ==
    /\ clicks + opened <= MaxClicks
    /\ requestVersion + Cardinality(Asking) <= clicks
    /\ operatingVersion + Cardinality(CallsUnderWay) <= clicks
    /\ preferencesVersion <= operatingVersion

\* The report that is shown, and the one that is asked for last.
ReportFits ==
    ~late =>
    /\ \A h \in Handlers : Current(h) =>
          /\ handler[h].of = selectedId
          /\ handler[h].at # "views" => handler[h].filters = filters
          /\ handler[h].at = "report" =>
                /\ handler[h].version = requestVersion
                /\ \A g \in Handlers \ {h} : handler[g].version < requestVersion
    /\ ~failed /\ (\A h \in Handlers : ~Current(h)) =>
          /\ payload = Selection
          /\ \A g \in Handlers : handler[g].version < requestVersion

\* The operating report follows the version of its own.
OperatingFits ==
    ~late /\ ~incomplete /\ ~failed /\ (\A h \in Handlers : ~Current(h)) =>
    /\ operatingVersion > 0
    /\ \A h \in Handlers : operatingCall[h].version = operatingVersion =>
          [of |-> operatingCall[h].of, filters |-> operatingCall[h].filters] = Selection
    /\ (\A h \in Handlers : operatingCall[h].version # operatingVersion) => operating \in {NoReport, Selection}

\* The preferences that will be saved are of the selected workspace.
PreferencesFit ==
    ~incomplete =>
    /\ \A h \in Handlers : handler[h].full => payload = NoReport /\ Current(h) /\ handler[h].of = selectedId
    /\ (\A h \in Handlers : ~handler[h].full) =>
          /\ preferencesVersion > 0
          /\ \A h \in Handlers : preferencesCall[h].version = preferencesVersion => preferencesCall[h].of = selectedId
          /\ (\A h \in Handlers : preferencesCall[h].version # preferencesVersion)
                => preferencesOf \in {Nowhere, selectedId}

\* The drawer shows a list of the report behind it.
ListsFit ==
    ~mixed =>
    /\ \A d, e \in Lists : list[d] # NoList /\ list[e] # NoList => d = e
    /\ \A d \in Lists : list[d] # NoList => list[d] = [title |-> drillTitle, of |-> selectedId]
    /\ drilldown # NoList =>
          /\ drilldown.of = selectedId
          /\ (\A d \in Lists : list[d] = NoList) => drilldown.title = drillTitle

\* The inductive invariant of the page.
PageInv ==
    CallsTyped /\ CallsNumbered /\ CountsFit /\ ReportFits /\ OperatingFits /\ PreferencesFit /\ ListsFit

-----------------------------------------------------------------------------
(* The page: counts and calls                                              *)

\* A set that grows by one member at most, or loses one.
LEMMA CountGrows ==
  ASSUME NEW S, NEW T, NEW x, IsFiniteSet(S), T \subseteq S \cup {x}
  PROVE  Cardinality(T) \in Nat /\ Cardinality(S) \in Nat /\ Cardinality(T) <= Cardinality(S) + 1
<1>1. IsFiniteSet(S \cup {x}) /\ Cardinality(S \cup {x}) <= Cardinality(S) + 1 /\ Cardinality(S) \in Nat
  BY FS_AddElement, FS_CardinalityType
<1>2. Cardinality(T) <= Cardinality(S \cup {x}) /\ IsFiniteSet(T)
  BY <1>1, FS_Subset
<1>3. Cardinality(T) \in Nat /\ Cardinality(S \cup {x}) \in Nat
  BY <1>1, <1>2, FS_CardinalityType
<1> QED BY <1>1, <1>2, <1>3

\* A set without one of its elements is smaller by one.
LEMMA CountShrinks ==
  ASSUME NEW S, NEW T, NEW x \in S, IsFiniteSet(S), T \subseteq S \ {x}
  PROVE  Cardinality(T) \in Nat /\ Cardinality(S) \in Nat /\ Cardinality(T) + 1 <= Cardinality(S)
<1>1. IsFiniteSet(S \ {x}) /\ Cardinality(S \ {x}) = Cardinality(S) - 1 /\ Cardinality(S) \in Nat
  BY FS_RemoveElement, FS_CardinalityType
<1>2. Cardinality(T) <= Cardinality(S \ {x}) /\ IsFiniteSet(T)
  BY <1>1, FS_Subset
<1>3. Cardinality(T) \in Nat /\ Cardinality(S \ {x}) \in Nat
  BY <1>1, <1>2, FS_CardinalityType
<1> QED BY <1>1, <1>2, <1>3

\* A part of a finite set is not larger.
LEMMA CountsOrdered ==
  ASSUME NEW S, NEW T, IsFiniteSet(S), T \subseteq S
  PROVE  Cardinality(T) \in Nat /\ Cardinality(S) \in Nat /\ Cardinality(T) <= Cardinality(S)
<1>1. Cardinality(T) <= Cardinality(S) /\ IsFiniteSet(T)
  BY FS_Subset
<1> QED BY <1>1, FS_CardinalityType

\* The handlers are finitely many, and so are those that are waiting.
LEMMA CallsFinite == IsFiniteSet(Asking) /\ IsFiniteSet(CallsUnderWay) /\ IsFiniteSet(Asking') /\ IsFiniteSet(CallsUnderWay')
<1>1. IsFiniteSet(Handlers) /\ Asking \subseteq Handlers /\ CallsUnderWay \subseteq Handlers
      /\ Asking' \subseteq Handlers /\ CallsUnderWay' \subseteq Handlers
  BY CommandCenterAssumption DEF Asking, CallsUnderWay
<1> QED BY <1>1, FS_Subset

\* The values a call may have before and after it is answered.
LEMMA NothingTyped ==
  /\ Idle \in HandlerCall /\ NoCall \in PendingCall /\ NoList \in ListCall
  /\ Idle.at = "idle" /\ Idle.version = 0 /\ Idle.click = 0 /\ Idle.full = FALSE /\ NoCall.version = 0
  /\ Plain \in FilterChoices /\ FirstCompany \in Companies
  BY CommandCenterAssumption DEF Idle, NoCall, NoList, HandlerCall, PendingCall, ListCall

\* What the call of a handler becomes.
LEMMA CallStep ==
  ASSUME CallsTyped, NEW h \in Handlers, NEW c \in HandlerCall, handler' = [handler EXCEPT ![h] = c]
  PROVE  /\ handler' \in [Handlers -> HandlerCall] /\ handler'[h] = c
         /\ \A g \in Handlers \ {h} : handler'[g] = handler[g]
  BY DEF CallsTyped

\* The bounds of the page's counters follow from what it has counted.
LEMMA BoundsFollow == CallsTyped /\ CallsNumbered /\ CountsFit => CommandCenterTypeOK
<1> SUFFICES ASSUME CallsTyped, CallsNumbered, CountsFit PROVE CommandCenterTypeOK
  OBVIOUS
<1>1. Cardinality(Asking) \in Nat /\ Cardinality(CallsUnderWay) \in Nat /\ MaxClicks \in Nat
  BY CallsFinite, FS_CardinalityType, CommandCenterAssumption
<1>2. /\ requestVersion \in 0 .. MaxClicks /\ operatingVersion \in 0 .. MaxClicks
      /\ preferencesVersion \in 0 .. MaxClicks /\ clicks \in 0 .. MaxClicks /\ opened \in 0 .. MaxClicks
  BY <1>1 DEF CallsTyped, CountsFit
<1>3. \A h \in Handlers : handler[h] \in HandlerCall /\ operatingCall[h] \in PendingCall /\ preferencesCall[h] \in PendingCall
  BY DEF CallsTyped
<1>4. \A h \in Handlers : handler[h].version \in 0 .. MaxClicks /\ handler[h].click \in 0 .. MaxClicks
                          /\ operatingCall[h].version \in 0 .. MaxClicks /\ preferencesCall[h].version \in 0 .. MaxClicks
  BY <1>1, <1>2, <1>3 DEF HandlerCall, PendingCall, CallsNumbered
<1>5. \A h \in Handlers : handler[h] \in [at: {"idle", "views", "workspaces", "report"}, of: Companies,
                                 filters: FilterChoices, version: 0 .. MaxClicks,
                                 click: 0 .. MaxClicks, full: BOOLEAN, loads: BOOLEAN]
  BY <1>3, <1>4 DEF HandlerCall
<1>6. \A h \in Handlers : operatingCall[h] \in Request /\ preferencesCall[h] \in Request
  BY <1>3, <1>4 DEF PendingCall, Request
<1>7. /\ handler \in [Handlers -> [at: {"idle", "views", "workspaces", "report"}, of: Companies,
                                 filters: FilterChoices, version: 0 .. MaxClicks,
                                 click: 0 .. MaxClicks, full: BOOLEAN, loads: BOOLEAN]]
      /\ operatingCall \in [Handlers -> Request] /\ preferencesCall \in [Handlers -> Request]
  BY <1>5, <1>6 DEF CallsTyped
<1> QED BY <1>2, <1>7 DEF CallsTyped, CommandCenterTypeOK, ListCall

-----------------------------------------------------------------------------
(* The page: the steps                                                     *)

\* The invariant holds of a page that was just opened.
LEMMA CenterInitially == CommandCenterInit => PageInv
<1> SUFFICES ASSUME CommandCenterInit PROVE PageInv
  OBVIOUS
<1> DEFINE first == CHOOSE h \in Handlers : TRUE
           c == [Idle EXCEPT !.at = "views", !.click = 1, !.full = TRUE]
<1>1. first \in Handlers
  BY CommandCenterAssumption
<1>2. c \in HandlerCall /\ c.at = "views" /\ c.click = 1 /\ c.full = TRUE /\ c.version = 0 /\ c.of = FirstCompany
  BY CommandCenterAssumption DEF Idle, HandlerCall
<1>3. handler = [h \in Handlers |-> IF h = first THEN c ELSE Idle]
  BY DEF CommandCenterInit
<1> HIDE DEF first, c
<1>4. /\ handler \in [Handlers -> HandlerCall] /\ handler[first] = c
      /\ \A h \in Handlers \ {first} : handler[h] = Idle
  BY <1>1, <1>2, <1>3, NothingTyped
<1>5. /\ selectedId = FirstCompany /\ filters = Plain /\ loading = TRUE /\ viewsOf = Nowhere /\ preferencesOf = Nowhere
      /\ payload = NoReport /\ operating = NoReport /\ drilldown = NoList /\ drillTitle = NoTitle
      /\ requestVersion = 0 /\ operatingVersion = 0 /\ preferencesVersion = 0
      /\ operatingCall = [h \in Handlers |-> NoCall] /\ preferencesCall = [h \in Handlers |-> NoCall]
      /\ list = [d \in Lists |-> NoList] /\ clicks = 1 /\ opened = 0
      /\ failed = FALSE /\ late = FALSE /\ incomplete = FALSE /\ mixed = FALSE
  BY DEF CommandCenterInit
<1>6. CallsTyped
  <2>1. operatingCall \in [Handlers -> PendingCall] /\ preferencesCall \in [Handlers -> PendingCall]
        /\ list \in [Lists -> ListCall] /\ drilldown \in ListCall /\ drillTitle \in Titles \cup {NoTitle}
    BY <1>5, NothingTyped
  <2>2. selectedId \in Companies /\ filters \in FilterChoices /\ viewsOf \in Companies \cup {Nowhere}
        /\ preferencesOf \in Companies \cup {Nowhere}
        /\ payload \in Report \cup {NoReport} /\ operating \in Report \cup {NoReport}
    BY <1>5, NothingTyped
  <2>3. requestVersion \in Nat /\ operatingVersion \in Nat /\ preferencesVersion \in Nat
        /\ clicks \in Nat \ {0} /\ opened \in Nat
    BY <1>5
  <2>4. loading \in BOOLEAN /\ failed \in BOOLEAN /\ late \in BOOLEAN /\ incomplete \in BOOLEAN /\ mixed \in BOOLEAN
    BY <1>5
  <2> QED BY <1>4, <2>1, <2>2, <2>3, <2>4 DEF CallsTyped
<1>7. \A h \in Handlers : Current(h) <=> h = first
  BY <1>2, <1>4, <1>5, NothingTyped DEF Current
<1>8. CallsNumbered
  BY <1>2, <1>4, <1>5, <1>7, NothingTyped DEF CallsNumbered
<1>9. CountsFit
  <2>1. Asking \subseteq {} \cup {first} /\ CallsUnderWay \subseteq {} \cup {first}
    BY <1>4, NothingTyped DEF Asking, CallsUnderWay
  <2>2. Cardinality(Asking) <= 1 /\ Cardinality(CallsUnderWay) <= 1 /\ Cardinality(Asking) \in Nat /\ Cardinality(CallsUnderWay) \in Nat
    <3>1. IsFiniteSet({}) /\ Cardinality({}) = 0
      BY FS_EmptySet
    <3>2. Cardinality(Asking) <= Cardinality({}) + 1 /\ Cardinality(Asking) \in Nat
      BY <2>1, <3>1, CountGrows
    <3>3. Cardinality(CallsUnderWay) <= Cardinality({}) + 1 /\ Cardinality(CallsUnderWay) \in Nat
      BY <2>1, <3>1, CountGrows
    <3> QED BY <3>1, <3>2, <3>3
  <2> QED BY <1>5, <2>2, CommandCenterAssumption DEF CountsFit
<1>10. ReportFits /\ OperatingFits
  BY <1>1, <1>2, <1>4, <1>5, <1>7 DEF ReportFits, OperatingFits
<1>11. PreferencesFit
  BY <1>1, <1>2, <1>4, <1>5, <1>7, NothingTyped DEF PreferencesFit
<1>12. ListsFit
  BY <1>5 DEF ListsFit
<1> QED BY <1>6, <1>8, <1>9, <1>10, <1>11, <1>12 DEF PageInv

\* A list belongs to its workspace and title as long as neither changes, or as long
\* as no list is asked for when the workspace does.
LEMMA ListsStay ==
  ASSUME ListsFit,
         \/ UNCHANGED <<mixed, list, drilldown, drillTitle, selectedId>>
         \/ /\ mixed' = (mixed \/ \E d \in Lists : list[d] # NoList) /\ drilldown' = NoList
            /\ UNCHANGED <<list, drillTitle>>
  PROVE  ListsFit'
  BY DEF ListsFit

\* A user's click that changes the selection.
LEMMA CallKeeps ==
  ASSUME PageInv, NEW h \in Handlers, NEW at \in {"views", "workspaces", "report"}, NEW of \in Companies,
         NEW picked \in FilterChoices, NEW full \in BOOLEAN, NEW loads \in BOOLEAN,
         Call(h, at, of, picked, full, loads), selectedId' = of, filters' \in FilterChoices,
         at # "views" => filters' = picked, loading' \in BOOLEAN,
         \/ /\ full = FALSE /\ UNCHANGED <<selectedId, shownVars, mixed>>
         \/ /\ full = TRUE /\ payload' = NoReport /\ operating' = NoReport /\ preferencesOf' = Nowhere
            /\ drilldown' = NoList /\ mixed' = (mixed \/ \E d \in Lists : list[d] # NoList)
  PROVE  PageInv'
<1> DEFINE c == [at |-> at, of |-> of, filters |-> picked, full |-> full, loads |-> loads,
                 click |-> clicks + 1, version |-> IF at = "report" THEN requestVersion + 1 ELSE 0]
<1>0. CallsTyped /\ CallsNumbered /\ CountsFit /\ PreferencesFit /\ ListsFit
  BY DEF PageInv
<1>1. /\ payload # NoReport /\ handler[h].at = "idle" /\ operatingCall[h].version = 0
      /\ preferencesCall[h].version = 0 /\ clicks + opened < MaxClicks /\ clicks' = clicks + 1
      /\ handler' = [handler EXCEPT ![h] = c]
      /\ requestVersion' = (IF at = "report" THEN requestVersion + 1 ELSE requestVersion) /\ failed' = FALSE
      /\ UNCHANGED <<viewsOf, drillTitle, operatingVersion, preferencesVersion, operatingCall,
                     preferencesCall, list, opened, late, incomplete>>
  BY DEF Call
<1>2. c \in HandlerCall /\ c.at = at /\ c.of = of /\ c.filters = picked /\ c.full = full /\ c.click = clicks + 1
      /\ c.version = (IF at = "report" THEN requestVersion + 1 ELSE 0)
  BY <1>0 DEF CallsTyped, HandlerCall
<1> HIDE DEF c
<1>3. /\ handler' \in [Handlers -> HandlerCall] /\ handler'[h] = c
      /\ \A g \in Handlers \ {h} : handler'[g] = handler[g]
  BY <1>0, <1>1, <1>2, CallStep
<1>4. requestVersion \in Nat /\ clicks \in Nat \ {0} /\ operatingVersion \in Nat
      /\ \A g \in Handlers : handler[g].version \in Nat /\ handler[g].click \in Nat
                             /\ operatingCall[g].version \in Nat /\ preferencesCall[g].version \in Nat
  BY <1>0 DEF CallsTyped, HandlerCall, PendingCall
<1>5. CallsTyped'
  <2>1. payload' \in Report \cup {NoReport} /\ operating' \in Report \cup {NoReport}
        /\ preferencesOf' \in Companies \cup {Nowhere} /\ drilldown' \in ListCall /\ mixed' \in BOOLEAN
    BY <1>0, NothingTyped DEF CallsTyped, shownVars
  <2>2. requestVersion' \in Nat /\ clicks' \in Nat \ {0}
    BY <1>1, <1>4
  <2> QED BY <1>0, <1>1, <1>3, <2>1, <2>2 DEF CallsTyped
<1>6. \A g \in Handlers : Current(g)' <=> g = h
  BY <1>0, <1>1, <1>2, <1>3, <1>4 DEF Current, CallsNumbered
<1>7. CallsNumbered'
  BY <1>0, <1>1, <1>2, <1>3, <1>4, <1>6 DEF CallsNumbered
<1>8. CountsFit'
  <2>1. CallsUnderWay' \subseteq CallsUnderWay \cup {h} /\ Asking' \subseteq Asking \cup {h}
        /\ (at = "report" => Asking' \subseteq Asking)
    BY <1>2, <1>3 DEF CallsUnderWay, Asking
  <2>2. Cardinality(CallsUnderWay') <= Cardinality(CallsUnderWay) + 1 /\ Cardinality(Asking') <= Cardinality(Asking) + 1
        /\ Cardinality(CallsUnderWay') \in Nat /\ Cardinality(CallsUnderWay) \in Nat
        /\ Cardinality(Asking') \in Nat /\ Cardinality(Asking) \in Nat
    BY <2>1, CallsFinite, CountGrows
  <2>3. at = "report" => Cardinality(Asking') <= Cardinality(Asking)
    BY <2>1, CallsFinite, CountsOrdered
  <2>4. MaxClicks \in Nat /\ opened \in Nat
    BY <1>0, CommandCenterAssumption DEF CallsTyped
  <2>5. requestVersion' + Cardinality(Asking') <= clicks'
    BY <1>0, <1>1, <1>4, <2>2, <2>3 DEF CountsFit
  <2>6. operatingVersion' + Cardinality(CallsUnderWay') <= clicks'
    BY <1>0, <1>1, <1>4, <2>2 DEF CountsFit
  <2> QED BY <1>0, <1>1, <1>4, <2>4, <2>5, <2>6 DEF CountsFit
<1>9. ReportFits'
  <2>1. at = "report" => \A g \in Handlers \ {h} : handler'[g].version < requestVersion'
    BY <1>0, <1>1, <1>3, <1>4 DEF CallsNumbered
  <2>2. at = "report" => c.version = requestVersion'
    BY <1>1, <1>2
  <2> QED BY <1>2, <1>3, <1>6, <2>1, <2>2 DEF ReportFits
<1>10. OperatingFits'
  BY <1>6 DEF OperatingFits
<1>11. PreferencesFit'
  <2> SUFFICES ASSUME ~incomplete' PROVE PreferencesFit'
    BY DEF PreferencesFit
  <2>1. \A g \in Handlers : ~handler[g].full
    BY <1>0, <1>1 DEF PreferencesFit
  <2>2. \A g \in Handlers : handler'[g].full => g = h /\ full = TRUE
    BY <1>2, <1>3, <2>1
  <2>3. CASE full = TRUE
    BY <1>1, <1>2, <1>3, <1>6, <2>2, <2>3 DEF PreferencesFit
  <2>4. CASE full = FALSE
    BY <1>0, <1>1, <2>1, <2>2, <2>4 DEF PreferencesFit, shownVars
  <2> QED BY <2>3, <2>4
<1>12. ListsFit'
  BY <1>0, <1>1, ListsStay DEF shownVars
<1> QED BY <1>5, <1>7, <1>8, <1>9, <1>10, <1>11, <1>12 DEF PageInv

\* A handler goes on to ask for its report.
LEMMA AskKeeps ==
  ASSUME PageInv, NEW h \in Handlers, NEW picked \in FilterChoices, handler[h].at \in {"views", "workspaces"},
         AskForReport(h, picked), filters' \in FilterChoices, viewsOf' \in Companies \cup {Nowhere},
         ~late /\ Current(h) => filters' = picked
  PROVE  PageInv'
<1> DEFINE c == [handler[h] EXCEPT !.at = "report", !.filters = picked, !.version = requestVersion + 1]
<1>0. CallsTyped /\ CallsNumbered /\ CountsFit /\ ReportFits /\ PreferencesFit /\ ListsFit
  BY DEF PageInv
<1>1. /\ requestVersion' = requestVersion + 1 /\ handler' = [handler EXCEPT ![h] = c]
      /\ late' = (late \/ OutOfOrder(h))
      /\ UNCHANGED <<selectedId, loading, drillTitle, operatingVersion,
                   preferencesVersion, clicks, opened, failed, incomplete, mixed, shownVars,
                   operatingCall, preferencesCall, list>>
  BY DEF AskForReport
<1>2. handler[h] \in HandlerCall /\ requestVersion \in Nat /\ clicks \in Nat
      /\ \A g \in Handlers : handler[g].version \in Nat /\ handler[g].click \in Nat
  BY <1>0 DEF CallsTyped, HandlerCall
<1>3. c \in HandlerCall /\ c.at = "report" /\ c.of = handler[h].of /\ c.filters = picked /\ c.full = handler[h].full
      /\ c.click = handler[h].click /\ c.version = requestVersion + 1
  <2>1. requestVersion + 1 \in Nat
    BY <1>2
  <2> QED BY <1>2, <2>1 DEF HandlerCall
<1> HIDE DEF c
<1>4. /\ handler' \in [Handlers -> HandlerCall] /\ handler'[h] = c
      /\ \A g \in Handlers \ {h} : handler'[g] = handler[g]
  BY <1>0, <1>1, <1>3, CallStep
<1>5. CallsTyped'
  <2>1. late' \in BOOLEAN /\ requestVersion' \in Nat
    BY <1>0, <1>1, <1>2 DEF CallsTyped, OutOfOrder
  <2> QED BY <1>0, <1>1, <1>4, <2>1 DEF CallsTyped, shownVars
<1>6. \A g \in Handlers : Current(g)' <=> Current(g)
  BY <1>1, <1>3, <1>4 DEF Current
<1>7. CallsNumbered'
  BY <1>0, <1>1, <1>2, <1>3, <1>4, <1>6 DEF CallsNumbered
<1>8. CountsFit'
  <2>1. Asking' \subseteq Asking \ {h} /\ h \in Asking /\ CallsUnderWay' \subseteq CallsUnderWay
    BY <1>3, <1>4 DEF Asking, CallsUnderWay
  <2>2. Cardinality(Asking') + 1 <= Cardinality(Asking) /\ Cardinality(Asking') \in Nat /\ Cardinality(Asking) \in Nat
    BY <2>1, CallsFinite, CountShrinks
  <2>3. Cardinality(CallsUnderWay') <= Cardinality(CallsUnderWay) /\ Cardinality(CallsUnderWay') \in Nat /\ Cardinality(CallsUnderWay) \in Nat
    BY <2>1, CallsFinite, CountsOrdered
  <2>4. operatingVersion \in Nat
    BY <1>0 DEF CallsTyped
  <2> QED BY <1>0, <1>1, <1>2, <2>2, <2>3, <2>4 DEF CountsFit
<1>9. ~late' => ~late /\ Current(h)
  <2>1. OutOfOrder(h) \/ Current(h)
    BY <1>0, <1>2 DEF OutOfOrder, Current, CallsNumbered
  <2>2. late' = (late \/ OutOfOrder(h))
    BY <1>1
  <2> QED BY <2>1, <2>2
<1>10. ReportFits'
  <2> SUFFICES ASSUME ~late' PROVE ReportFits'
    BY DEF ReportFits
  <2>1. ~late /\ Current(h) /\ handler[h].of = selectedId /\ filters' = picked
    BY <1>0, <1>9 DEF ReportFits
  <2>2. \A g \in Handlers : Current(g) => g = h
    BY <1>0, <2>1 DEF CallsNumbered
  <2>3. \A g \in Handlers \ {h} : handler'[g].version < requestVersion'
    BY <1>0, <1>1, <1>2, <1>4 DEF CallsNumbered
  <2> QED BY <1>1, <1>3, <1>4, <1>6, <2>1, <2>2, <2>3 DEF ReportFits
<1>11. OperatingFits'
  BY <1>6, <1>9 DEF OperatingFits
<1>12. PreferencesFit'
  <2>1. \A g \in Handlers : handler'[g].full = handler[g].full /\ handler'[g].of = handler[g].of
    BY <1>3, <1>4
  <2> QED BY <1>0, <1>1, <1>6, <2>1 DEF PreferencesFit, shownVars
<1>13. ListsFit'
  BY <1>0, <1>1, ListsStay DEF shownVars
<1> QED BY <1>5, <1>7, <1>8, <1>10, <1>11, <1>12, <1>13 DEF PageInv

\* The same handler ends, with its report or without.
LEMMA EndStep ==
  ASSUME CallsTyped, CallsNumbered, CountsFit, NEW h \in Handlers, handler[h].at # "idle", HandlerEnds(h),
         UNCHANGED <<clicks>>
  PROVE  /\ handler' \in [Handlers -> HandlerCall] /\ handler'[h] = Idle /\ loading' \in BOOLEAN
         /\ \A g \in Handlers \ {h} : handler'[g] = handler[g]
         /\ \A g \in Handlers : Current(g)' <=> g # h /\ Current(g)
         /\ Cardinality(CallsUnderWay') + 1 <= Cardinality(CallsUnderWay) /\ Cardinality(CallsUnderWay') \in Nat
         /\ Cardinality(Asking') <= Cardinality(Asking) /\ Cardinality(Asking') \in Nat
         /\ Cardinality(CallsUnderWay) \in Nat /\ Cardinality(Asking) \in Nat
<1>1. /\ handler' \in [Handlers -> HandlerCall] /\ handler'[h] = Idle
      /\ \A g \in Handlers \ {h} : handler'[g] = handler[g]
  BY NothingTyped, CallStep DEF HandlerEnds
<1>2. loading' \in BOOLEAN
  BY DEF HandlerEnds
<1>3. \A g \in Handlers : Current(g)' <=> g # h /\ Current(g)
  BY <1>1, NothingTyped DEF Current, CallsTyped
<1>4. CallsUnderWay' \subseteq CallsUnderWay \ {h} /\ h \in CallsUnderWay /\ Asking' \subseteq Asking
  BY <1>1, NothingTyped DEF CallsUnderWay, Asking
<1>5. Cardinality(CallsUnderWay') + 1 <= Cardinality(CallsUnderWay) /\ Cardinality(CallsUnderWay') \in Nat /\ Cardinality(CallsUnderWay) \in Nat
  BY <1>4, CallsFinite, CountShrinks
<1>6. Cardinality(Asking') <= Cardinality(Asking) /\ Cardinality(Asking') \in Nat /\ Cardinality(Asking) \in Nat
  BY <1>4, CallsFinite, CountsOrdered
<1> QED BY <1>1, <1>2, <1>3, <1>5, <1>6

\* A report arrives: it is shown when no later one was asked for.
LEMMA ReportKeeps ==
  ASSUME PageInv, NEW h \in Handlers, ReportArrives(h) PROVE PageInv'
<1> DEFINE o == [version |-> operatingVersion + 1, of |-> handler[h].of, filters |-> handler[h].filters]
           p == [version |-> preferencesVersion + 1, of |-> handler[h].of, filters |-> Plain]
<1>0. CallsTyped /\ CallsNumbered /\ CountsFit /\ ReportFits /\ OperatingFits /\ PreferencesFit /\ ListsFit
  BY DEF PageInv
<1>1. /\ handler[h].at = "report" /\ HandlerEnds(h)
      /\ payload' = (IF handler[h].version = requestVersion
                     THEN [of |-> handler[h].of, filters |-> handler[h].filters] ELSE payload)
      /\ operatingVersion' = operatingVersion + 1 /\ operatingCall' = [operatingCall EXCEPT ![h] = o]
      /\ incomplete' = (incomplete \/ OutOfOrder(h))
      /\ UNCHANGED <<selectedId, filters, viewsOf, operating, preferencesOf, drilldown,
                   drillTitle, requestVersion, list, clicks, opened, failed, late, mixed>>
  BY DEF ReportArrives, IsLatest
<1>2. \/ handler[h].full /\ preferencesVersion' = preferencesVersion + 1 /\ preferencesCall' = [preferencesCall EXCEPT ![h] = p]
      \/ ~handler[h].full /\ UNCHANGED <<preferencesVersion, preferencesCall>>
  BY DEF ReportArrives
<1>3. /\ handler[h] \in HandlerCall /\ operatingVersion \in Nat /\ preferencesVersion \in Nat /\ requestVersion \in Nat
      /\ handler[h].of \in Companies /\ handler[h].filters \in FilterChoices /\ clicks \in Nat
      /\ \A g \in Handlers : handler[g].version \in Nat /\ handler[g].click \in Nat
                             /\ operatingCall[g].version \in Nat /\ preferencesCall[g].version \in Nat
  BY <1>0 DEF CallsTyped, HandlerCall, PendingCall
<1>4. /\ o \in PendingCall /\ o.version = operatingVersion + 1 /\ o.of = handler[h].of /\ o.filters = handler[h].filters
      /\ p \in PendingCall /\ p.version = preferencesVersion + 1 /\ p.of = handler[h].of
  BY <1>3, NothingTyped DEF PendingCall
<1> HIDE DEF o, p
<1>5. /\ handler' \in [Handlers -> HandlerCall] /\ handler'[h] = Idle /\ loading' \in BOOLEAN
      /\ \A g \in Handlers \ {h} : handler'[g] = handler[g]
      /\ \A g \in Handlers : Current(g)' <=> g # h /\ Current(g)
      /\ Cardinality(CallsUnderWay') + 1 <= Cardinality(CallsUnderWay) /\ Cardinality(CallsUnderWay') \in Nat
      /\ Cardinality(Asking') <= Cardinality(Asking) /\ Cardinality(Asking') \in Nat
      /\ Cardinality(CallsUnderWay) \in Nat /\ Cardinality(Asking) \in Nat
  BY <1>0, <1>1, EndStep
<1>6. /\ operatingCall' \in [Handlers -> PendingCall] /\ operatingCall'[h] = o
      /\ \A g \in Handlers \ {h} : operatingCall'[g] = operatingCall[g]
  BY <1>0, <1>1, <1>4 DEF CallsTyped
<1>7. /\ preferencesCall' \in [Handlers -> PendingCall]
      /\ handler[h].full => preferencesCall'[h] = p
      /\ \A g \in Handlers \ {h} : preferencesCall'[g] = preferencesCall[g]
  BY <1>0, <1>2, <1>4 DEF CallsTyped
<1>8. ~incomplete' => ~incomplete /\ Current(h)
  <2>1. OutOfOrder(h) \/ Current(h)
    BY <1>0, <1>3 DEF OutOfOrder, Current, CallsNumbered
  <2>2. incomplete' = (incomplete \/ OutOfOrder(h))
    BY <1>1
  <2> QED BY <2>1, <2>2
<1>9. CallsTyped'
  <2>1. payload' \in Report \cup {NoReport}
    BY <1>0, <1>1, <1>3 DEF Report, CallsTyped
  <2>2. operatingVersion' \in Nat /\ preferencesVersion' \in Nat
    BY <1>1, <1>2, <1>3
  <2>3. incomplete' \in BOOLEAN
    BY <1>1
  <2> QED BY <1>0, <1>1, <1>5, <1>6, <1>7, <2>1, <2>2, <2>3 DEF CallsTyped
<1>10. CallsNumbered'
  <2>1. \A g \in Handlers : operatingCall'[g].version <= operatingVersion'
    BY <1>0, <1>1, <1>3, <1>4, <1>6 DEF CallsNumbered
  <2>2. \A g \in Handlers : preferencesCall'[g].version <= preferencesVersion'
    <3>1. CASE handler[h].full
      BY <1>0, <1>2, <1>3, <1>4, <1>7, <3>1 DEF CallsNumbered
    <3>2. CASE ~handler[h].full
      BY <1>0, <1>2, <3>2 DEF CallsNumbered
    <3> QED BY <3>1, <3>2
  <2>3. \A g \in Handlers : /\ handler'[g].version <= requestVersion' /\ handler'[g].click <= clicks'
                            /\ handler'[g].at = "report" => handler'[g].version > 0
                            /\ handler'[g].at = "idle" => handler'[g] = Idle
    BY <1>0, <1>1, <1>3, <1>5, NothingTyped DEF CallsNumbered
  <2>4. \A g, k \in Handlers : Current(g)' /\ Current(k)' => g = k
    BY <1>0, <1>5 DEF CallsNumbered
  <2> QED BY <2>1, <2>2, <2>3, <2>4 DEF CallsNumbered
<1>11. CountsFit'
  <2>1. preferencesVersion' <= operatingVersion'
    BY <1>0, <1>1, <1>2, <1>3 DEF CountsFit
  <2>2. requestVersion' + Cardinality(Asking') <= clicks'
    BY <1>0, <1>1, <1>3, <1>5 DEF CountsFit
  <2>3. operatingVersion' + Cardinality(CallsUnderWay') <= clicks'
    BY <1>0, <1>1, <1>3, <1>5 DEF CountsFit
  <2> QED BY <1>0, <1>1, <2>1, <2>2, <2>3 DEF CountsFit
<1>12. ReportFits'
  <2> SUFFICES ASSUME ~late' PROVE ReportFits'
    BY DEF ReportFits
  <2>1. ~late
    BY <1>1
  <2>2. handler[h].version > 0 /\ handler[h].version <= requestVersion
    BY <1>0, <1>1 DEF CallsNumbered
  <2>3. CASE Current(h)
    <3>1. \A g \in Handlers : ~Current(g)'
      BY <1>0, <1>5, <2>3 DEF CallsNumbered
    <3>2. payload' = Selection'
      BY <1>0, <1>1, <2>1, <2>3 DEF ReportFits, Selection
    <3>3. \A g \in Handlers : handler'[g].version < requestVersion'
      BY <1>0, <1>1, <1>3, <1>5, <2>1, <2>2, <2>3, NothingTyped DEF ReportFits
    <3> QED BY <3>1, <3>2, <3>3 DEF ReportFits
  <2>4. CASE ~Current(h)
    <3>1. \A g \in Handlers : Current(g)' <=> Current(g)
      BY <1>5, <2>4
    <3>2. ASSUME NEW k \in Handlers, Current(k)'
          PROVE  /\ handler'[k].of = selectedId'
                 /\ handler'[k].at # "views" => handler'[k].filters = filters'
                 /\ handler'[k].at = "report" =>
                       /\ handler'[k].version = requestVersion'
                       /\ \A g \in Handlers \ {k} : handler'[g].version < requestVersion'
      BY <1>0, <1>1, <1>3, <1>5, <2>1, <2>2, <3>1, <3>2, NothingTyped DEF ReportFits
    <3>3. ASSUME ~failed', \A g \in Handlers : ~Current(g)'
          PROVE  payload' = Selection' /\ \A g \in Handlers : handler'[g].version < requestVersion'
      <4>1. payload = Selection /\ \A g \in Handlers : handler[g].version < requestVersion
        BY <1>0, <1>1, <2>1, <3>1, <3>3 DEF ReportFits
      <4>2. payload' = Selection'
        BY <1>1, <1>3, <4>1 DEF Selection
      <4> QED BY <1>1, <1>3, <1>5, <2>2, <4>1, <4>2, NothingTyped
    <3> QED BY <3>2, <3>3 DEF ReportFits
  <2> QED BY <2>3, <2>4
<1>13. OperatingFits'
  <2> SUFFICES ASSUME ~late', ~incomplete', ~failed' PROVE OperatingFits'
    BY DEF OperatingFits
  <2>1. Current(h) /\ ~late
    BY <1>1, <1>8
  <2>2. [of |-> o.of, filters |-> o.filters] = Selection'
    BY <1>0, <1>1, <1>4, <2>1 DEF ReportFits, Selection
  <2>3. operatingCall'[h].version = operatingVersion' /\ operatingVersion' > 0
    BY <1>1, <1>3, <1>4, <1>6
  <2>4. \A g \in Handlers \ {h} : operatingCall'[g].version # operatingVersion'
    BY <1>0, <1>1, <1>3, <1>6 DEF CallsNumbered
  <2> QED BY <1>6, <2>2, <2>3, <2>4 DEF OperatingFits
<1>14. PreferencesFit'
  <2> SUFFICES ASSUME ~incomplete' PROVE PreferencesFit'
    BY DEF PreferencesFit
  <2>1. ~incomplete /\ Current(h)
    BY <1>8
  <2>2. \A g \in Handlers : handler[g].full => g = h
    BY <1>0, <2>1 DEF PreferencesFit, CallsNumbered
  <2>3. \A g \in Handlers : ~handler'[g].full
    BY <1>5, <2>2, NothingTyped
  <2>4. CASE handler[h].full
    <3>1. preferencesVersion' > 0 /\ preferencesCall'[h].version = preferencesVersion' /\ preferencesCall'[h].of = selectedId'
      BY <1>0, <1>1, <1>2, <1>3, <1>4, <1>7, <2>1, <2>4 DEF PreferencesFit
    <3>2. \A g \in Handlers \ {h} : preferencesCall'[g].version # preferencesVersion'
      BY <1>0, <1>2, <1>3, <1>7, <2>4 DEF CallsNumbered
    <3> QED BY <2>3, <3>1, <3>2 DEF PreferencesFit
  <2>5. CASE ~handler[h].full
    <3>1. \A g \in Handlers : ~handler[g].full
      BY <2>2, <2>5
    <3> QED BY <1>0, <1>1, <1>2, <2>1, <2>3, <2>5, <3>1 DEF PreferencesFit
  <2> QED BY <2>4, <2>5
<1>15. ListsFit'
  BY <1>0, <1>1, ListsStay
<1> QED BY <1>9, <1>10, <1>11, <1>12, <1>13, <1>14, <1>15 DEF PageInv

\* A handler fails, and says so.
LEMMA FailureKeeps ==
  ASSUME PageInv, NEW h \in Handlers, HandlerFails(h) PROVE PageInv'
<1>0. CallsTyped /\ CallsNumbered /\ CountsFit /\ ReportFits /\ PreferencesFit /\ ListsFit
  BY DEF PageInv
<1>1. /\ handler[h].at \in {"workspaces", "report"} /\ HandlerEnds(h) /\ failed' = TRUE
      /\ incomplete' = (incomplete \/ handler[h].full)
      /\ UNCHANGED <<selectedId, filters, viewsOf, drillTitle, requestVersion, operatingVersion,
                   preferencesVersion, clicks, opened, late, mixed, shownVars,
                   operatingCall, preferencesCall, list>>
  BY DEF HandlerFails
<1>2. /\ handler' \in [Handlers -> HandlerCall] /\ handler'[h] = Idle /\ loading' \in BOOLEAN
      /\ \A g \in Handlers \ {h} : handler'[g] = handler[g]
      /\ \A g \in Handlers : Current(g)' <=> g # h /\ Current(g)
      /\ Cardinality(CallsUnderWay') + 1 <= Cardinality(CallsUnderWay) /\ Cardinality(CallsUnderWay') \in Nat
      /\ Cardinality(Asking') <= Cardinality(Asking) /\ Cardinality(Asking') \in Nat
      /\ Cardinality(CallsUnderWay) \in Nat /\ Cardinality(Asking) \in Nat
  BY <1>0, <1>1, EndStep
<1>3. /\ operatingVersion \in Nat /\ preferencesVersion \in Nat /\ requestVersion \in Nat /\ clicks \in Nat
      /\ \A g \in Handlers : handler[g].version \in Nat /\ handler[g].click \in Nat /\ handler[g].full \in BOOLEAN
  BY <1>0 DEF CallsTyped, HandlerCall
<1>4. CallsTyped'
  <2>1. incomplete' \in BOOLEAN
    BY <1>1
  <2> QED BY <1>0, <1>1, <1>2, <2>1 DEF CallsTyped, shownVars
<1>5. CallsNumbered'
  BY <1>0, <1>1, <1>2, <1>3, NothingTyped DEF CallsNumbered
<1>6. CountsFit'
  BY <1>0, <1>1, <1>2, <1>3 DEF CountsFit
<1>7. ReportFits'
  BY <1>0, <1>1, <1>2, <1>3, NothingTyped DEF ReportFits
<1>8. OperatingFits'
  BY <1>1 DEF OperatingFits
<1>9. PreferencesFit'
  <2> SUFFICES ASSUME ~incomplete' PROVE PreferencesFit'
    BY DEF PreferencesFit
  <2>1. ~incomplete /\ ~handler[h].full
    BY <1>1
  <2>2. \A g \in Handlers : handler'[g].full <=> handler[g].full
    BY <1>2, <2>1, NothingTyped
  <2>3. \A g \in Handlers : handler[g].full => g # h /\ handler'[g] = handler[g]
    BY <1>2, <2>1
  <2> QED BY <1>0, <1>1, <1>2, <2>1, <2>2, <2>3 DEF PreferencesFit, shownVars
<1>10. ListsFit'
  BY <1>0, <1>1, ListsStay DEF shownVars
<1> QED BY <1>4, <1>5, <1>6, <1>7, <1>8, <1>9, <1>10 DEF PageInv

\* The operating reports arrive: only the last that were asked for are shown.
LEMMA OperatingKeeps ==
  ASSUME PageInv, NEW h \in Handlers, OperatingArrives(h) PROVE PageInv'
<1> DEFINE shown == [of |-> operatingCall[h].of, filters |-> operatingCall[h].filters]
<1>0. CallsTyped /\ CallsNumbered /\ CountsFit /\ ReportFits /\ OperatingFits /\ PreferencesFit /\ ListsFit
  BY DEF PageInv
<1>1. /\ operatingCall[h].version # 0 /\ operatingCall' = [operatingCall EXCEPT ![h] = NoCall]
      /\ IF operatingCall[h].version = operatingVersion THEN operating' \in {shown, NoReport} ELSE operating' = operating
      /\ UNCHANGED <<selectedId, filters, loading, viewsOf, drillTitle, requestVersion,
                   operatingVersion, preferencesVersion, clicks, opened, failed, late, incomplete,
                   mixed, payload, preferencesOf, drilldown, handler, preferencesCall, list>>
  BY DEF OperatingArrives, IsLatest
<1>2. /\ operatingCall' \in [Handlers -> PendingCall] /\ operatingCall'[h] = NoCall
      /\ \A g \in Handlers \ {h} : operatingCall'[g] = operatingCall[g]
  BY <1>0, <1>1, NothingTyped DEF CallsTyped
<1>3. shown \in Report /\ operatingVersion \in Nat
  BY <1>0 DEF CallsTyped, PendingCall, Report
<1>4. CallsTyped'
  <2>1. operating' \in Report \cup {NoReport}
    BY <1>0, <1>1, <1>3 DEF CallsTyped
  <2> QED BY <1>0, <1>1, <1>2, <2>1 DEF CallsTyped
<1>5. CallsNumbered' /\ CountsFit'
  <2>1. Asking' = Asking /\ CallsUnderWay' = CallsUnderWay /\ \A g \in Handlers : Current(g)' <=> Current(g)
    BY <1>1 DEF Asking, CallsUnderWay, Current
  <2> QED BY <1>0, <1>1, <1>2, <1>3, <2>1, NothingTyped DEF CallsNumbered, CountsFit
<1>6. ReportFits' /\ PreferencesFit' /\ ListsFit'
  BY <1>0, <1>1 DEF ReportFits, PreferencesFit, ListsFit, Current, Selection
<1>7. OperatingFits'
  <2> SUFFICES ASSUME ~late, ~incomplete, ~failed, \A g \in Handlers : ~Current(g) PROVE OperatingFits'
    BY <1>1 DEF OperatingFits, Current
  <2>1. /\ operatingVersion > 0
        /\ \A g \in Handlers : operatingCall[g].version = operatingVersion =>
              [of |-> operatingCall[g].of, filters |-> operatingCall[g].filters] = Selection
        /\ (\A g \in Handlers : operatingCall[g].version # operatingVersion) => operating \in {NoReport, Selection}
    BY <1>0 DEF OperatingFits
  <2>2. Selection' = Selection /\ operatingVersion' = operatingVersion
    BY <1>1 DEF Selection
  <2>3. NoCall.version # operatingVersion
    BY <2>1, NothingTyped
  <2>4. \A g \in Handlers : operatingCall'[g].version = operatingVersion =>
              [of |-> operatingCall'[g].of, filters |-> operatingCall'[g].filters] = Selection
    BY <1>2, <2>1, <2>3
  <2>5. ASSUME \A g \in Handlers : operatingCall'[g].version # operatingVersion PROVE operating' \in {NoReport, Selection}
    <3>1. CASE operatingCall[h].version = operatingVersion
      BY <1>1, <2>1, <3>1
    <3>2. CASE operatingCall[h].version # operatingVersion
      BY <1>1, <1>2, <2>1, <2>5, <3>2
    <3> QED BY <3>1, <3>2
  <2> QED BY <2>1, <2>2, <2>4, <2>5 DEF OperatingFits
<1> QED BY <1>4, <1>5, <1>6, <1>7 DEF PageInv

\* Preferences are saved after a delay, or the save is cancelled.
LEMMA PreferencesKeep ==
  ASSUME PageInv, NEW h \in Handlers, PreferencesArrive(h) PROVE PageInv'
<1>0. CallsTyped /\ CallsNumbered /\ CountsFit /\ ReportFits /\ OperatingFits /\ PreferencesFit /\ ListsFit
  BY DEF PageInv
<1>1. /\ preferencesCall[h].version # 0 /\ preferencesCall' = [preferencesCall EXCEPT ![h] = NoCall]
      /\ \/ /\ preferencesOf' = (IF preferencesCall[h].version = preferencesVersion
                                 THEN preferencesCall[h].of ELSE preferencesOf)
            /\ UNCHANGED incomplete
         \/ preferencesOf' = preferencesOf /\ incomplete' = TRUE
      /\ UNCHANGED <<selectedId, filters, loading, viewsOf, drillTitle, requestVersion,
                   operatingVersion, preferencesVersion, clicks, opened, failed, late, mixed,
                   payload, operating, drilldown, handler, operatingCall, list>>
  BY DEF PreferencesArrive, IsLatest
<1>2. /\ preferencesCall' \in [Handlers -> PendingCall] /\ preferencesCall'[h] = NoCall
      /\ \A g \in Handlers \ {h} : preferencesCall'[g] = preferencesCall[g]
  BY <1>0, <1>1, NothingTyped DEF CallsTyped
<1>3. preferencesCall[h].of \in Companies /\ preferencesVersion \in Nat
  BY <1>0 DEF CallsTyped, PendingCall
<1>4. CallsTyped'
  <2>1. preferencesOf' \in Companies \cup {Nowhere} /\ incomplete' \in BOOLEAN
    BY <1>0, <1>1, <1>3 DEF CallsTyped
  <2> QED BY <1>0, <1>1, <1>2, <2>1 DEF CallsTyped
<1>5. CallsNumbered' /\ CountsFit'
  <2>1. Asking' = Asking /\ CallsUnderWay' = CallsUnderWay /\ \A g \in Handlers : Current(g)' <=> Current(g)
    BY <1>1 DEF Asking, CallsUnderWay, Current
  <2> QED BY <1>0, <1>1, <1>2, <1>3, <2>1, NothingTyped DEF CallsNumbered, CountsFit
<1>6. ReportFits' /\ ListsFit'
  BY <1>0, <1>1 DEF ReportFits, ListsFit, Current, Selection
<1>7. ~incomplete' => ~incomplete
  BY <1>1
<1>8. OperatingFits'
  BY <1>0, <1>1, <1>7 DEF OperatingFits, Current, Selection
<1>9. PreferencesFit'
  <2> SUFFICES ASSUME ~incomplete' PROVE PreferencesFit'
    BY DEF PreferencesFit
  <2>1. preferencesOf' = (IF preferencesCall[h].version = preferencesVersion THEN preferencesCall[h].of ELSE preferencesOf)
    BY <1>1
  <2>2. ASSUME \A g \in Handlers : ~handler'[g].full
        PROVE  /\ preferencesVersion' > 0
               /\ \A g \in Handlers : preferencesCall'[g].version = preferencesVersion' => preferencesCall'[g].of = selectedId'
               /\ (\A g \in Handlers : preferencesCall'[g].version # preferencesVersion')
                     => preferencesOf' \in {Nowhere, selectedId'}
    <3>1. /\ preferencesVersion > 0
          /\ \A g \in Handlers : preferencesCall[g].version = preferencesVersion => preferencesCall[g].of = selectedId
          /\ (\A g \in Handlers : preferencesCall[g].version # preferencesVersion)
                => preferencesOf \in {Nowhere, selectedId}
      BY <1>0, <1>1, <1>7, <2>2 DEF PreferencesFit
    <3>2. NoCall.version # preferencesVersion
      BY <3>1, NothingTyped
    <3>3. CASE preferencesCall[h].version = preferencesVersion
      BY <1>1, <1>2, <2>1, <3>1, <3>2, <3>3
    <3>4. CASE preferencesCall[h].version # preferencesVersion
      BY <1>1, <1>2, <2>1, <3>1, <3>2, <3>4
    <3> QED BY <3>3, <3>4
  <2>3. \A g \in Handlers : handler'[g].full => payload' = NoReport /\ Current(g)' /\ handler'[g].of = selectedId'
    BY <1>0, <1>1, <1>7 DEF PreferencesFit, Current
  <2> QED BY <2>2, <2>3 DEF PreferencesFit
<1> QED BY <1>4, <1>5, <1>6, <1>8, <1>9 DEF PageInv

\* The drawer touches nothing of the handlers.
LEMMA DrawerKeeps ==
  ASSUME PageInv, UNCHANGED <<selectedId, filters, viewsOf, requestVersion, operatingVersion, preferencesVersion,
                              clicks, failed, late, incomplete, payload, operating, preferencesOf, handler,
                              operatingCall, preferencesCall>>,
         loading' \in BOOLEAN, mixed' \in BOOLEAN, drilldown' \in ListCall, drillTitle' \in Titles \cup {NoTitle},
         list' \in [Lists -> ListCall], opened' \in Nat, clicks + opened' <= MaxClicks, ListsFit'
  PROVE  PageInv'
<1>0. CallsTyped /\ CallsNumbered /\ CountsFit /\ ReportFits /\ OperatingFits /\ PreferencesFit /\ ListsFit
  BY DEF PageInv
<1>1. CallsTyped'
  BY <1>0 DEF CallsTyped
<1>2. Asking' = Asking /\ CallsUnderWay' = CallsUnderWay /\ Selection' = Selection /\ \A g \in Handlers : Current(g)' <=> Current(g)
  BY DEF Asking, CallsUnderWay, Current, Selection
<1>3. CallsNumbered' /\ CountsFit'
  BY <1>0, <1>2 DEF CallsNumbered, CountsFit
<1>4. ReportFits' /\ OperatingFits' /\ PreferencesFit'
  BY <1>0, <1>2 DEF ReportFits, OperatingFits, PreferencesFit
<1> QED BY <1>1, <1>3, <1>4 DEF PageInv

\* The user opens the drawer of a number.
LEMMA OpenKeeps ==
  ASSUME PageInv, NEW d \in Lists, NEW title \in Titles, OpenList(d, title) PROVE PageInv'
<1> DEFINE l == [title |-> title, of |-> selectedId]
<1>0. CallsTyped /\ CountsFit /\ ListsFit
  BY DEF PageInv
<1>1. /\ list[d] = NoList /\ clicks + opened < MaxClicks /\ opened' = opened + 1 /\ list' = [list EXCEPT ![d] = l]
      /\ mixed' = (mixed \/ \E other \in Lists : list[other] # NoList) /\ drillTitle' = title /\ loading' = TRUE
      /\ UNCHANGED <<selectedId, filters, viewsOf, requestVersion, operatingVersion,
                   preferencesVersion, clicks, failed, late, incomplete, shownVars, handler,
                   operatingCall, preferencesCall>>
  BY DEF OpenList
<1>2. l \in ListCall /\ l # NoList /\ l.title = title /\ l.of = selectedId
  BY <1>0, CommandCenterAssumption DEF CallsTyped, ListCall, NoList
<1>3. l = [title |-> drillTitle', of |-> selectedId']
  BY <1>1
<1> HIDE DEF l
<1>4. /\ list' \in [Lists -> ListCall] /\ list'[d] = l /\ \A e \in Lists \ {d} : list'[e] = list[e]
  BY <1>0, <1>1, <1>2 DEF CallsTyped
<1>5. ListsFit'
  <2> SUFFICES ASSUME ~mixed' PROVE ListsFit'
    BY DEF ListsFit
  <2>1. ~mixed /\ \A e \in Lists : list[e] = NoList
    BY <1>1
  <2>2. \A e \in Lists \ {d} : list'[e] = NoList
    BY <1>4, <2>1
  <2>3. drilldown' # NoList => drilldown'.of = selectedId'
    BY <1>0, <1>1, <2>1 DEF ListsFit, shownVars
  <2> QED BY <1>2, <1>3, <1>4, <2>2, <2>3 DEF ListsFit
<1>6. opened' \in Nat /\ clicks + opened' <= MaxClicks /\ mixed' \in BOOLEAN
  BY <1>0, <1>1, CommandCenterAssumption DEF CallsTyped
<1> QED BY <1>0, <1>1, <1>4, <1>5, <1>6, DrawerKeeps DEF CallsTyped, shownVars

\* A list arrives; only that of the open drawer is shown.
LEMMA ListKeeps ==
  ASSUME PageInv, NEW d \in Lists, ListArrives(d) PROVE PageInv'
<1>0. CallsTyped /\ CountsFit /\ ListsFit
  BY DEF PageInv
<1>1. /\ list[d] # NoList /\ loading' = FALSE /\ list' = [list EXCEPT ![d] = NoList]
      /\ \/ drilldown' = list[d] /\ UNCHANGED mixed
         \/ drilldown' = drilldown /\ mixed' = (mixed \/ drilldown # NoList)
      /\ UNCHANGED <<selectedId, filters, viewsOf, drillTitle, requestVersion, operatingVersion,
                   preferencesVersion, clicks, opened, failed, late, incomplete, payload, operating,
                   preferencesOf, handler, operatingCall, preferencesCall>>
  BY DEF ListArrives
<1>2. /\ list' \in [Lists -> ListCall] /\ list'[d] = NoList /\ \A e \in Lists \ {d} : list'[e] = list[e]
  BY <1>0, <1>1, NothingTyped DEF CallsTyped
<1>3. drilldown' \in ListCall /\ mixed' \in BOOLEAN
  BY <1>0, <1>1 DEF CallsTyped
<1>4. ListsFit'
  <2> SUFFICES ASSUME ~mixed' PROVE ListsFit'
    BY DEF ListsFit
  <2>1. ~mixed
    BY <1>1
  <2>2. list[d] = [title |-> drillTitle, of |-> selectedId] /\ \A e \in Lists : list'[e] = NoList
    BY <1>0, <1>1, <1>2, <2>1 DEF ListsFit
  <2>3. drilldown' = NoList \/ drilldown' = list[d]
    BY <1>1
  <2>4. list[d].of = selectedId /\ list[d].title = drillTitle
    BY <2>2
  <2>5. drilldown' # NoList => drilldown'.of = selectedId' /\ drilldown'.title = drillTitle'
    BY <1>1, <2>3, <2>4
  <2> QED BY <2>2, <2>5 DEF ListsFit
<1> QED BY <1>0, <1>1, <1>2, <1>3, <1>4, DrawerKeeps DEF CallsTyped, CountsFit

\* The user closes the drawer.
LEMMA CloseKeeps ==
  ASSUME PageInv, CloseList PROVE PageInv'
<1>0. CallsTyped /\ CountsFit /\ ListsFit
  BY DEF PageInv
<1>1. /\ drilldown' = NoList
      /\ UNCHANGED <<selectedId, filters, loading, viewsOf, drillTitle, requestVersion,
                   operatingVersion, preferencesVersion, clicks, opened, failed, late, incomplete,
                   mixed, payload, operating, preferencesOf, handler, operatingCall, preferencesCall, list>>
  BY DEF CloseList, callVars
<1>2. ListsFit'
  BY <1>0, <1>1 DEF ListsFit
<1> QED BY <1>0, <1>1, <1>2, NothingTyped, DrawerKeeps DEF CallsTyped, CountsFit

\* Every click and every answer preserves the invariant.
LEMMA CenterNextKeeps == PageInv /\ [CommandCenterNext]_pageVars => PageInv'
<1> SUFFICES ASSUME PageInv, [CommandCenterNext]_pageVars PROVE PageInv'
  OBVIOUS
<1>0. CallsTyped /\ Plain \in FilterChoices /\ DefaultView \in [Companies -> FilterChoices]
  BY CommandCenterAssumption DEF PageInv
<1>1. CASE UNCHANGED pageVars
  BY <1>0, <1>1, DrawerKeeps DEF pageVars, shownVars, callVars, PageInv, CallsTyped, CountsFit, ListsFit
<1>2. ASSUME NEW h \in Handlers, NEW w \in Companies, ChangeWorkspace(h, w) PROVE PageInv'
  <2>1. Call(h, "views", w, Plain, TRUE, TRUE) /\ selectedId' = w /\ filters' = filters /\ loading' = TRUE
        /\ payload' = NoReport /\ operating' = NoReport /\ preferencesOf' = Nowhere
        /\ drilldown' = NoList /\ mixed' = (mixed \/ \E d \in Lists : list[d] # NoList)
    BY <1>2 DEF ChangeWorkspace
  <2>2. filters' \in FilterChoices
    BY <1>0, <2>1 DEF CallsTyped
  <2> QED BY <1>0, <2>1, <2>2, CallKeeps
<1>3. ASSUME NEW h \in Handlers, NEW picked \in FilterChoices,
             ApplyFilters(h, picked) \/ ApplyView(h, picked) \/ ResetFilters(h) \/ Refresh(h)
      PROVE  PageInv'
  <2>1. PICK at \in {"workspaces", "report"}, asked \in FilterChoices, loads \in BOOLEAN :
           Call(h, at, selectedId, asked, FALSE, loads) /\ filters' = asked
    BY <1>0, <1>3 DEF ApplyFilters, ApplyView, ResetFilters, Refresh, CallsTyped
  <2>2. UNCHANGED <<selectedId, shownVars, mixed>> /\ loading' \in BOOLEAN /\ selectedId \in Companies
    BY <1>0, <1>3 DEF ApplyFilters, ApplyView, ResetFilters, Refresh, CallsTyped
  <2> QED BY <2>1, <2>2, CallKeeps
<1>4. ASSUME NEW h \in Handlers, ViewsArrive(h) PROVE PageInv'
  <2>1. handler[h].of \in Companies /\ handler[h].at = "views" /\ viewsOf' = handler[h].of
    BY <1>0, <1>4 DEF ViewsArrive, CallsTyped, HandlerCall
  <2>2. PICK picked \in FilterChoices : filters' = picked /\ AskForReport(h, picked)
    BY <1>0, <1>4, <2>1 DEF ViewsArrive
  <2> QED BY <2>1, <2>2, AskKeeps
<1>5. ASSUME NEW h \in Handlers, WorkspacesArrive(h) PROVE PageInv'
  <2>1. handler[h].filters \in FilterChoices /\ handler[h].at = "workspaces" /\ UNCHANGED <<filters, viewsOf>>
        /\ AskForReport(h, handler[h].filters)
    BY <1>0, <1>5 DEF WorkspacesArrive, CallsTyped, HandlerCall
  <2>2. ~late => (Current(h) => handler[h].filters = filters)
    BY <2>1 DEF PageInv, ReportFits
  <2> QED BY <1>0, <2>1, <2>2, AskKeeps DEF CallsTyped
<1> QED BY <1>0, <1>1, <1>2, <1>3, <1>4, <1>5, ReportKeeps, FailureKeeps, OperatingKeeps, PreferencesKeep, OpenKeeps,
           ListKeeps, CloseKeeps DEF CommandCenterNext

-----------------------------------------------------------------------------
(* The page: the theorems                                                  *)

\* The page and its calls keep their types and bounds.
THEOREM PageTypeCorrect == CommandCenterSpec => []CommandCenterTypeOK
<1>1. PageInv => CommandCenterTypeOK
  BY BoundsFollow DEF PageInv
<1> QED BY <1>1, CenterInitially, CenterNextKeeps, PTL DEF CommandCenterSpec

\* When nothing is under way the page shows the report of what is selected, however
\* late answers of earlier selections came (CommandCenterV2.tsx).
THEOREM PageCorrect == CommandCenterSpec => []PageIsOfSelection
<1>1. PageInv => PageIsOfSelection
  <2> SUFFICES ASSUME PageInv PROVE PageIsOfSelection
    OBVIOUS
  <2>1. Settled => \A h \in Handlers : ~Current(h)
    BY NothingTyped DEF PageInv, CallsNumbered, CallsTyped, Settled, Current
  <2>2. ~late /\ Settled /\ ~failed => payload = [of |-> selectedId, filters |-> filters]
    BY <2>1 DEF PageInv, ReportFits, Selection
  <2>3. ASSUME ~late, ~incomplete, Settled, NothingAwaited, ~failed
        PROVE  operating \in {NoReport, [of |-> selectedId, filters |-> filters]}
               /\ preferencesOf \in {Nowhere, selectedId}
    <3>1. \A h \in Handlers : operatingCall[h].version = 0 /\ preferencesCall[h].version = 0 /\ ~handler[h].full
      BY <2>3, NothingTyped DEF NothingAwaited, Settled, PageInv, CallsNumbered
    <3>2. operating \in {NoReport, Selection}
      BY <2>1, <2>3, <3>1 DEF PageInv, OperatingFits
    <3>3. preferencesOf \in {Nowhere, selectedId}
      BY <2>3, <3>1 DEF PageInv, PreferencesFit
    <3> QED BY <3>2, <3>3 DEF Selection
  <2>4. ~mixed /\ drilldown # NoList => drilldown.of = selectedId
    BY DEF PageInv, ListsFit
  <2>5. ~mixed /\ drilldown # NoList /\ (\A d \in Lists : list[d] = NoList) => drilldown.title = drillTitle
    BY DEF PageInv, ListsFit
  <2> QED BY <2>2, <2>3, <2>4, <2>5 DEF PageIsOfSelection
<1> QED BY <1>1, CenterInitially, CenterNextKeeps, PTL DEF CommandCenterSpec
=============================================================================

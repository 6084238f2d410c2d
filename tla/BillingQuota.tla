---------------------------- MODULE BillingQuota ----------------------------
(***************************************************************************)
(* The subscription of one workspace and the quota of exports: the routes  *)
(* of billing.js, and the synchronous exports of report-exports.js that    *)
(* check the quota, build, and only then record the usage.                 *)
(*                                                                         *)
(* Of the metrics only monthlyExports is ever asserted.  The statuses      *)
(* past_due, paused and canceled are set by no code: a provider would.     *)
(* TRIAL_DAYS and the month are not counted: the trial, and the month, may *)
(* end at any time, the trial not while a request is under way.            *)
(***************************************************************************)
EXTENDS Naturals, FiniteSets

CONSTANTS
    Plans,        \* the codes of billing_plans
    Limit,        \* Limit[p]: limits.monthlyExports of plan p, 0 for no limit
    TrialPlan,    \* the plan of a trial: growth
    ManagedPlan,  \* the plan that has the status managed
    Exporters,    \* clients that export, one request of each at a time
    Managers,     \* clients that start a trial
    MaxMonths,    \* bound of the model: months
    MaxUsage      \* bound of the model: exports in a month

ASSUME BillingAssumption ==
    /\ Limit \in [Plans -> Nat]
    /\ TrialPlan \in Plans /\ ManagedPlan \in Plans
    /\ IsFiniteSet(Exporters) /\ Exporters # {}
    /\ MaxMonths \in Nat \ {0} /\ MaxUsage \in Nat

VARIABLES
    subscription,  \* the row of workspace_subscriptions
    trialOver,     \* trial_ends_at has passed
    month,         \* the month of NOW()
    usage,         \* usage[m]: monthly_exports of workspace_usage_monthly
    exporter,      \* exporter[e]: where an export request is
    manager,       \* manager[g]: where a request for a trial is
    plansSeen      \* history: the plans the workspace has had

billingVars == <<subscription, trialOver, month, usage, exporter, manager, plansSeen>>

-----------------------------------------------------------------------------
Month == 1 .. MaxMonths

Subscription ==
    [status: {"none", "trialing", "trial_expired", "active", "managed"},
     plan: Plans, trialUsed: BOOLEAN, ending: BOOLEAN]

BillingTypeOK ==
    /\ subscription \in Subscription
    /\ trialOver \in BOOLEAN
    /\ month \in Month
    /\ usage \in [Month -> Nat]
    /\ exporter \in [Exporters -> {"idle", "admitted", "built"}]
    /\ manager \in [Managers -> {"idle", "granted"}]
    /\ plansSeen \in SUBSET Plans

\* A workspace is new, or it is one that the migration found and made managed.
BillingInit ==
    /\ \/ /\ subscription = [status |-> "none", plan |-> TrialPlan,
                             trialUsed |-> FALSE, ending |-> FALSE]
          /\ plansSeen = {TrialPlan}
       \/ /\ subscription = [status |-> "managed", plan |-> ManagedPlan,
                             trialUsed |-> FALSE, ending |-> FALSE]
          /\ plansSeen = {ManagedPlan}
    /\ trialOver = FALSE
    /\ month = 1
    /\ usage = [m \in Month |-> 0]
    /\ exporter = [e \in Exporters |-> "idle"]
    /\ manager = [g \in Managers |-> "idle"]

-----------------------------------------------------------------------------
\* ensureWorkspaceSubscription: a trial for a workspace without a subscription,
\* and the end of a trial that is over, noticed only here.
Ensured ==
    CASE subscription.status = "none" ->
            [subscription EXCEPT !.status = "trialing", !.trialUsed = TRUE]
      [] subscription.status = "trialing" /\ trialOver ->
            [subscription EXCEPT !.status = "trial_expired"]
      [] OTHER -> subscription

\* entitlementState: the statuses that block access and are ever set.
Restricted(row) == row.status = "trial_expired"

\* Faulty variant of WithinQuota: the increment is forgotten.
WithinQuotaNow(row) == Limit[row.plan] = 0 \/ usage[month] <= Limit[row.plan]

\* assertBillingQuota for one more export.
WithinQuota(row) == Limit[row.plan] = 0 \/ usage[month] + 1 <= Limit[row.plan]

AssertQuota(e) ==
    /\ exporter[e] = "idle"
    /\ usage[month] < MaxUsage
    /\ subscription' = Ensured
    /\ exporter' = [exporter EXCEPT ![e] =
          IF Restricted(Ensured) \/ ~WithinQuota(Ensured) THEN "idle" ELSE "admitted"]
    /\ UNCHANGED <<trialOver, month, usage, manager, plansSeen>>

\* The rate limit refuses the request or the report cannot be built.
ExportFails(e) ==
    /\ exporter[e] = "admitted"
    /\ exporter' = [exporter EXCEPT ![e] = "idle"]
    /\ UNCHANGED <<subscription, trialOver, month, usage, manager, plansSeen>>

BuildExport(e) ==
    /\ exporter[e] = "admitted"
    /\ exporter' = [exporter EXCEPT ![e] = "built"]
    /\ UNCHANGED <<subscription, trialOver, month, usage, manager, plansSeen>>

\* recordBillingUsage, one upsert, in the month it happens.
RecordUsage(e) ==
    /\ exporter[e] = "built"
    /\ usage' = [usage EXCEPT ![month] = @ + 1]
    /\ exporter' = [exporter EXCEPT ![e] = "idle"]
    /\ UNCHANGED <<subscription, trialOver, month, manager, plansSeen>>

-----------------------------------------------------------------------------
MayStartTrial(row) == row.status # "trialing" /\ ~row.trialUsed

\* POST /start-trial: the check and, after it, an unconditional UPDATE.
CheckTrial(g) ==
    /\ manager[g] = "idle"
    /\ subscription' = Ensured
    /\ manager' = [manager EXCEPT ![g] = IF MayStartTrial(Ensured) THEN "granted" ELSE "idle"]
    /\ UNCHANGED <<trialOver, month, usage, exporter, plansSeen>>

StartTrial(g) ==
    /\ manager[g] = "granted"
    /\ subscription' = [status |-> "trialing", plan |-> TrialPlan,
                        trialUsed |-> TRUE, ending |-> FALSE]
    /\ trialOver' = FALSE
    /\ manager' = [manager EXCEPT ![g] = "idle"]
    /\ plansSeen' = plansSeen \cup {TrialPlan}
    /\ UNCHANGED <<month, usage, exporter>>

\* PATCH /subscription.
ChangePlan(plan) ==
    /\ subscription' = [Ensured EXCEPT !.plan = plan, !.ending = FALSE,
                          !.status = IF plan = ManagedPlan THEN "managed" ELSE "active"]
    /\ plansSeen' = plansSeen \cup {plan}
    /\ UNCHANGED <<trialOver, month, usage, exporter, manager>>

\* POST /cancel: nothing ever acts on cancel_at_period_end.
CancelSubscription ==
    /\ subscription' = [Ensured EXCEPT !.ending = TRUE]
    /\ UNCHANGED <<trialOver, month, usage, exporter, manager, plansSeen>>

\* POST /reactivate, whose answer reads the subscription through Ensured.
Reactivate ==
    /\ subscription' = [Ensured EXCEPT !.ending = FALSE]
    /\ UNCHANGED <<trialOver, month, usage, exporter, manager, plansSeen>>

\* TRIAL_DAYS pass; no request takes as long.
TrialEnds ==
    /\ subscription.trialUsed /\ ~trialOver
    /\ \A g \in Managers : manager[g] = "idle"
    /\ trialOver' = TRUE
    /\ UNCHANGED <<subscription, month, usage, exporter, manager, plansSeen>>

MonthEnds ==
    /\ month < MaxMonths
    /\ month' = month + 1
    /\ UNCHANGED <<subscription, trialOver, usage, exporter, manager, plansSeen>>

BillingNext ==
    \/ \E e \in Exporters : \/ AssertQuota(e) \/ ExportFails(e)
                            \/ BuildExport(e) \/ RecordUsage(e)
    \/ \E g \in Managers : CheckTrial(g) \/ StartTrial(g)
    \/ \E plan \in Plans : ChangePlan(plan)
    \/ CancelSubscription
    \/ Reactivate
    \/ TrialEnds
    \/ MonthEnds

BillingSpec == BillingInit /\ [][BillingNext]_billingVars

-----------------------------------------------------------------------------
(* Properties                                                              *)

InFlight == {e \in Exporters : exporter[e] # "idle"}

\* The quota is checked before an export and counted after it, so that exports
\* under way may exceed the limit, but by no more than the requests there are
\* but one: as long as every plan the workspace has had is limited, its exports
\* of a month stay below the largest limit and that number.
OvershootIsBounded ==
    (\A p \in plansSeen : Limit[p] > 0) =>
        \E p \in plansSeen :
            usage[month] + Cardinality(InFlight) <= Limit[p] + Cardinality(Exporters) - 1
=============================================================================

------------------------------ MODULE Workspace ------------------------------
(***************************************************************************)
(* What a workspace keeps: quotas, schedules' next runs, alert rules,      *)
(* accounts, members, devices, the data SLA, the portal's mappings, the    *)
(* retention budget, saved views, the page that shows its reports, and the *)
(* reports of any one record.                                              *)
(*                                                                         *)
(* The components share no state, so each is explored alone, in an area of *)
(* its own, while the variables of the others keep their initial values.   *)
(***************************************************************************)
EXTENDS BillingQuota, NextRun, OperationalAlerts, AccountSessions, WorkspaceMembers,
        DeviceNotices, DataSla, PortalMappings, RetentionBudget, SavedViews, CommandCenter,
        OperatingReports, ObjectReports, SdrDashboard

CONSTANTS
    Queries,   \* arguments of computeNextRun
    Samples    \* records and requests for the reports

ASSUME WorkspaceAssumption ==
    /\ Queries \subseteq Query /\ Queries # {}
    /\ Samples # {}
    /\ \A s \in Samples : s.record \in Record /\ s.filters \in Filters /\ s.mapped \in BOOLEAN

VARIABLES
    area,    \* the component that is explored
    query,   \* the arguments of computeNextRun
    sample   \* a record and a request for the reports

workspaceVars == <<billingVars, alertVars, sessionVars, memberVars, noticeVars, slaVars,
                   portalVars, budgetVars, viewVars, pageVars, area, query, sample>>

NoQuery == CHOOSE q \in Queries : TRUE
NoSample == CHOOSE s \in Samples : TRUE

-----------------------------------------------------------------------------
\* Flows and discovery runs differ in nothing but their names: they begin in order.
InTurn ==
    /\ \A f, g \in Flows : f < g /\ flow'[f] = "none" => flow'[g] = "none"
    /\ \A r, q \in Discoveries : r < q /\ discovery'[r].phase = "none" => discovery'[q].phase = "none"

-----------------------------------------------------------------------------
\* A component that is not explored begins in one of its initial states.
WorkspaceInit ==
    /\ area \in {"billing", "alerts", "sessions", "members", "notices", "sla", "portal",
                 "budget", "views", "page", "next run", "reports"}
    /\ query \in IF area = "next run" THEN Queries ELSE {NoQuery}
    /\ BillingInit /\ (area # "billing" => subscription.status = "none")
    /\ SlaInit /\ (area # "sla" => health = {})
    /\ AlertInit /\ SessionsInit /\ MembersInit /\ NoticesInit /\ PortalInit /\ BudgetInit
    /\ SavedViewsInit /\ CommandCenterInit
    /\ sample \in IF area = "reports" THEN Samples ELSE {NoSample}

WorkspaceNext ==
    /\ UNCHANGED <<area, query, sample>>
    /\ \/ /\ area = "billing" /\ BillingNext
          /\ UNCHANGED <<alertVars, sessionVars, memberVars, noticeVars, slaVars,
                         portalVars, budgetVars, viewVars, pageVars>>
       \/ /\ area = "alerts" /\ AlertNext
          /\ UNCHANGED <<billingVars, sessionVars, memberVars, noticeVars, slaVars,
                         portalVars, budgetVars, viewVars, pageVars>>
       \/ /\ area = "sessions" /\ SessionsNext
          /\ UNCHANGED <<billingVars, alertVars, memberVars, noticeVars, slaVars,
                         portalVars, budgetVars, viewVars, pageVars>>
       \/ /\ area = "members" /\ MembersNext
          /\ UNCHANGED <<billingVars, alertVars, sessionVars, noticeVars, slaVars,
                         portalVars, budgetVars, viewVars, pageVars>>
       \/ /\ area = "notices" /\ NoticesNext
          /\ UNCHANGED <<billingVars, alertVars, sessionVars, memberVars, slaVars,
                         portalVars, budgetVars, viewVars, pageVars>>
       \/ /\ area = "sla" /\ SlaNext
          /\ UNCHANGED <<billingVars, alertVars, sessionVars, memberVars, noticeVars,
                         portalVars, budgetVars, viewVars, pageVars>>
       \/ /\ area = "portal" /\ PortalNext /\ InTurn
          /\ UNCHANGED <<billingVars, alertVars, sessionVars, memberVars, noticeVars,
                         slaVars, budgetVars, viewVars, pageVars>>
       \/ /\ area = "budget" /\ BudgetNext
          /\ UNCHANGED <<billingVars, alertVars, sessionVars, memberVars, noticeVars,
                         slaVars, portalVars, viewVars, pageVars>>
       \/ /\ area = "views" /\ ViewsNext
          /\ UNCHANGED <<billingVars, alertVars, sessionVars, memberVars, noticeVars,
                         slaVars, portalVars, budgetVars, pageVars>>
       \/ /\ area = "page" /\ CommandCenterNext
          /\ UNCHANGED <<billingVars, alertVars, sessionVars, memberVars, noticeVars,
                         slaVars, portalVars, budgetVars, viewVars>>

WorkspaceSpec == WorkspaceInit /\ [][WorkspaceNext]_workspaceVars

-----------------------------------------------------------------------------
\* Every table and request of the components has the shape that their code gives it.
WorkspaceTypeOK ==
    CASE area = "billing" -> BillingTypeOK
      [] area = "alerts" -> AlertTypeOK
      [] area = "sessions" -> SessionsTypeOK
      [] area = "members" -> MembersTypeOK
      [] area = "notices" -> NoticesTypeOK
      [] area = "sla" -> SlaTypeOK
      [] area = "portal" -> PortalTypeOK
      [] area = "budget" -> BudgetTypeOK
      [] area = "views" -> SavedViewsTypeOK
      [] area = "page" -> CommandCenterTypeOK
      [] OTHER -> TRUE

\* computeNextRun gives the right next run for every zone, frequency and instant.
NextRunsAreRight == area = "next run" => NextRunIsRight(query)

\* Whatever a record looks like and whatever is asked for, the numbers of a report,
\* its tables and the lists behind them count the same record or none of them does
\* (revenue-reporting.js, agreed-reporting-core.js, object-reporting.js,
\* extended-object-reporting.js, analytics-runtime.js).
ReportsAgree ==
    area = "reports" =>
        /\ sample.record.type # "tickets" =>
              /\ RevenueReportsAgree(sample.record, sample.filters)
              /\ OperatingReportsAgree(sample.record, sample.filters, sample.mapping)
        /\ ObjectReportsAgree(sample.record, sample.filters)
        /\ SdrDashboardAgrees(sample.record, sample.mapped)
=============================================================================

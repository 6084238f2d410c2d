--------------------------- MODULE RevenueReports ---------------------------
(***************************************************************************)
(* The revenue pack (apps/api/src/revenue-reporting.js): its numbers, its  *)
(* breakdowns and the drilldowns that list the records behind a number.    *)
(* An operator here says, of one record and the filters of a request,      *)
(* whether the record is counted, in which segment, or whether it is       *)
(* listed.  That a table shows at most 50 rows, and a breakdown at most 10 *)
(* or 12 segments, is left out.                                            *)
(***************************************************************************)
EXTENDS CrmRecords

CONSTANTS
    MonthOf(_),   \* the month of a day
    Clean(_)      \* a segment as the URL parameter "value" carries it

-----------------------------------------------------------------------------
(* Filters                                                                 *)

PreviousFilters(filters) ==
    LET days == filters.to - filters.from + 1
    IN  [filters EXCEPT !.from = filters.from - days, !.to = filters.from - 1]

\* objectPredicate: contacts are filtered by the deals that point at them,
\* other records by the contacts they point at; an activity has no deal filter.
ObjectPredicate(r, filters) ==
    /\ ~r.archived
    /\ Allows(filters.owner, OwnerOf(r))
    /\ IF r.type = "contacts" THEN ContactMatches(r, filters)
                              ELSE ByContact(r.contactsOut, filters)
    /\ r.type = "contacts" => ByDeal(r.dealsIn, filters)
    /\ r.type = "deals" => DealMatches(r, filters)

\* companyPredicate: the country is the company's, the source a contact's.
CompanyPredicate(r, filters) ==
    /\ ~r.archived
    /\ Allows(filters.owner, OwnerOf(r))
    /\ Allows(filters.country, CountryOf(r))
    /\ ByDeal(r.dealsOut, filters)
    /\ \/ filters.source = None
       \/ \E contact \in r.contactsOut : ~contact.archived /\ SourceOf(contact) = filters.source

InScope(r, filters) ==
    IF r.type = "companies" THEN CompanyPredicate(r, filters) ELSE ObjectPredicate(r, filters)

\* The activities of the overview, of the trend and of the owners' table, with
\* mixedActivityContactDimensions.
ActivityPredicate(r, filters) ==
    /\ r.type \in Activities
    /\ ~r.archived
    /\ During(filters, ActivityAt(r))
    /\ Allows(filters.owner, ActivityOwner(r))
    /\ ByContact(r.contactsOut, filters)

-----------------------------------------------------------------------------
(* The numbers                                                             *)

OpenTask(r) == r.type = "tasks" /\ ~r.done

OpenDeal(r) == r.type = "deals" /\ ~r.closed

\* overviewMetrics: the numbers that count the record.
OverviewMetrics(r, filters) ==
    {number \in {"portfolioContacts", "newContacts", "missingOwner"} :
        /\ r.type = "contacts" /\ InScope(r, filters)
        /\ number = "newContacts" => During(filters, CreatedAt(r))
        /\ number = "missingOwner" => r.owner = None}
    \cup {number \in {"portfolioCompanies", "newCompanies"} :
        /\ r.type = "companies" /\ InScope(r, filters)
        /\ number = "newCompanies" => During(filters, CreatedAt(r))}
    \cup {number \in Activities \cup {"completedTasks"} :
        /\ ActivityPredicate(r, filters)
        /\ r.type = IF number = "completedTasks" THEN "tasks" ELSE number
        /\ number = "completedTasks" => r.done}
    \cup {number \in {"openDeals", "wonDeals", "noNextActivity", "overdueClose"} :
        /\ r.type = "deals" /\ InScope(r, filters)
        /\ IF number = "wonDeals" THEN WonDuring(r, filters) ELSE OpenDeal(r)
        /\ number = "noNextActivity" => r.next = None
        /\ number = "overdueClose" => Earlier(r.close, Today)}
    \cup {number \in {"openTasks", "tasksDueToday", "overdueTasks"} :
        /\ OpenTask(r) /\ InScope(r, filters)
        /\ number = "tasksDueToday" => DueAt(r) = Today
        /\ number = "overdueTasks" => Earlier(DueAt(r), Today)}

\* attentionSnapshot: what the records need.
AttentionSnapshot(r, filters) ==
    {number \in {"untouched", "stale", "missing_owner"} :
        /\ r.type = "contacts" /\ InScope(r, filters)
        /\ number = "untouched" => r.contacted = None /\ CreatedAt(r) < Today - 2
        /\ number = "stale" => Earlier(r.contacted, Today - 21)
        /\ number = "missing_owner" => r.owner = None}
    \cup {number \in {"overdue_tasks"} :
        OpenTask(r) /\ InScope(r, filters) /\ Earlier(DueAt(r), Today)}
    \cup {number \in {"no_next_activity", "overdue_close", "closing_soon"} :
        /\ OpenDeal(r) /\ InScope(r, filters)
        /\ number = "no_next_activity" => r.next = None
        /\ number = "overdue_close" => Earlier(r.close, Today)
        /\ number = "closing_soon" =>
              r.close # None /\ Today <= r.close /\ r.close < Today + 14}

-----------------------------------------------------------------------------
(* The breakdowns: the rows <<dimension, key>> that count the record       *)

\* activityTrend joins the days of the period with the days of the activities.
ActivityTrend(r, filters) ==
    {day \in filters.from .. filters.to : ActivityPredicate(r, filters) /\ ActivityAt(r) = day}

PipelineByStage(r, filters) ==
    IF OpenDeal(r) /\ InScope(r, filters)
    THEN {<<Coalesce(<<r.pipeline, "unknown">>), Coalesce(<<r.stage, "unknown">>)>>}
    ELSE {}

\* crmBreakdownRows: one row of each dimension, that of the month only for a
\* record created during the period.
CrmBreakdown(r, filters) ==
    IF ~InScope(r, filters) \/ r.type \notin {"contacts", "companies"} THEN {}
    ELSE {<<"segment", SegmentOf(r)>>, <<"country", CountryOf(r)>>}
         \cup IF During(filters, RecordAt(r))
              THEN {<<"createdMonthly", MonthOf(CreatedAt(r))>>} ELSE {}

\* ownerPerformance: the owners' rows that count the record.
OwnerPerformance(r, filters) ==
    {owner \in {ActivityOwner(r)} : ActivityPredicate(r, filters)}
    \cup {owner \in {OwnerOf(r)} : r.type = "deals" /\ InScope(r, filters)}

\* leadSourcePerformance: the row of a contact's source, with its open and won
\* deals among those that the filter lets pass.
LeadSourcePerformance(r, filters) ==
    LET deals == {deal \in r.dealsIn : ~deal.archived /\ DealMatches(deal, filters)}
    IN  IF r.type = "contacts" /\ InScope(r, filters)
        THEN {[source |-> SourceOf(r),
               contacted |-> r.contacted # None,
               opportunity |-> \E deal \in deals : ~deal.closed,
               won |-> \E deal \in deals : deal.won]}
        ELSE {}

\* outcomeDistributions: an activity is counted under one outcome, a call without
\* a disposition under its status.
OutcomeDistributions(r, filters) ==
    IF r.type \in Activities /\ InScope(r, filters) /\ During(filters, RecordAt(r))
    THEN {Coalesce(<<r.outcome, IF r.type = "calls" THEN r.callStatus ELSE None, "Unknown">>)}
    ELSE {}

\* dataQuality: the fields of a contact that are complete.
DataQuality(r, filters) ==
    IF r.type = "contacts" /\ InScope(r, filters)
    THEN {field \in {"owner", "country"} :
              IF field = "owner" THEN r.owner # None ELSE CountryOf(r) # "Unknown"}
    ELSE {}

-----------------------------------------------------------------------------
(* The drilldowns                                                          *)

PeriodDrilldowns == {"calls", "meetings", "created-month"}

DimensionDrilldowns == {"by-segment", "by-country", "created-month"}

\* drilldownDefinition: the type of the records that a drilldown lists, among
\* contacts and companies for a dimension.
DrilldownType ==
    [key \in {"untouched-contacts", "stale-contacts", "missing-owner-contacts", "overdue-tasks",
              "no-next-activity-deals", "overdue-close-deals", "open-deals", "won-deals",
              "calls", "meetings"} |->
        CASE key \in {"calls", "meetings"} -> key
          [] key = "overdue-tasks" -> "tasks"
          [] key \in {"untouched-contacts", "stale-contacts", "missing-owner-contacts"} -> "contacts"
          [] OTHER -> "deals"]

\* drilldownDefinition: the condition of a drilldown.
DrilldownCondition(key, r, filters, value) ==
    CASE key = "untouched-contacts" -> r.contacted = None /\ CreatedAt(r) < Today - 2
      [] key = "stale-contacts" -> Earlier(r.contacted, Today - 21)
      [] key = "missing-owner-contacts" -> r.owner = None
      [] key = "overdue-tasks" -> ~r.done /\ Earlier(DueAt(r), Today)
      [] key = "no-next-activity-deals" -> ~r.closed /\ r.next = None
      [] key = "overdue-close-deals" -> ~r.closed /\ Earlier(r.close, Today)
      [] key = "open-deals" -> ~r.closed
      [] key = "won-deals" -> WonDuring(r, filters)
      [] key \in {"calls", "meetings"} -> TRUE
      [] key = "by-segment" -> SegmentOf(r) = Clean(value)
      [] key = "by-country" -> CountryOf(r) = Clean(value)
      [] key = "created-month" -> MonthOf(CreatedAt(r)) = Clean(value)

\* Faulty variant of Drilldown: the period is never asked for.
DrilldownOfAll(key, r, filters, value) ==
    InScope(r, filters) /\ DrilldownCondition(key, r, filters, value)

\* getRevenueDrilldown: whether the drilldown lists the record.
Drilldown(key, r, filters, value) ==
    /\ InScope(r, filters)
    /\ key \in PeriodDrilldowns => During(filters, RecordAt(r))
    /\ DrilldownCondition(key, r, filters, value)

-----------------------------------------------------------------------------
(* Agreement                                                               *)

\* The drilldown that a number of the pack opens.
RevenueDrilldownOf ==
    [untouched |-> "untouched-contacts", stale |-> "stale-contacts",
     missing_owner |-> "missing-owner-contacts", overdue_tasks |-> "overdue-tasks",
     no_next_activity |-> "no-next-activity-deals", overdue_close |-> "overdue-close-deals",
     openDeals |-> "open-deals", wonDeals |-> "won-deals", calls |-> "calls",
     meetings |-> "meetings", overdueTasks |-> "overdue-tasks"]

\* A record is counted in a number exactly if the drilldown of the number lists it.
NumbersAreListed(r, filters) ==
    \A number \in DOMAIN RevenueDrilldownOf :
        DrilldownType[RevenueDrilldownOf[number]] = r.type =>
            (number \in OverviewMetrics(r, filters) \cup AttentionSnapshot(r, filters)
                <=> Drilldown(RevenueDrilldownOf[number], r, filters, None))

\* A contact or company is in the segment of a breakdown exactly if the drilldown
\* of the segment lists it, when the segment survives the URL parameter.
SegmentsAreListed(r, filters) ==
    r.type \in {"contacts", "companies"} =>
        \A key \in DimensionDrilldowns :
            LET dimension == CASE key = "by-segment" -> "segment"
                               [] key = "by-country" -> "country"
                               [] key = "created-month" -> "createdMonthly"
                value == CASE key = "by-segment" -> SegmentOf(r)
                           [] key = "by-country" -> CountryOf(r)
                           [] key = "created-month" -> MonthOf(CreatedAt(r))
            IN  Clean(value) = value =>
                    (<<dimension, value>> \in CrmBreakdown(r, filters)
                        <=> Drilldown(key, r, filters, value))

\* The rows of a table add up to the number it breaks down: a record that is
\* counted is in one row, and a record of a row is counted.  No record is new,
\* won or worked on both in the period and in the one it is compared with.
RowsAddUp(r, filters) ==
    LET numbers == OverviewMetrics(r, filters) IN
    /\ Cardinality(ActivityTrend(r, filters)) = Cardinality(numbers \cap Activities)
    /\ Cardinality(PipelineByStage(r, filters)) = Cardinality(numbers \cap {"openDeals"})
    /\ Cardinality(OutcomeDistributions(r, filters)) = Cardinality(numbers \cap Activities)
    /\ Cardinality(OwnerPerformance(r, filters)) =
           IF numbers \cap Activities # {} \/ (r.type = "deals" /\ InScope(r, filters))
           THEN 1 ELSE 0
    /\ Cardinality(LeadSourcePerformance(r, filters)) =
           Cardinality(numbers \cap {"portfolioContacts"})
    /\ DataQuality(r, filters) # {} => "portfolioContacts" \in numbers
    /\ ("owner" \in DataQuality(r, filters) \/ "missingOwner" \in numbers)
           <=> "portfolioContacts" \in numbers
    /\ numbers \cap OverviewMetrics(r, PreviousFilters(filters))
         \cap ({"newContacts", "newCompanies", "wonDeals", "completedTasks"} \cup Activities) = {}

\* The pack and its drilldowns agree on every record.
RevenueReportsAgree(r, filters) ==
    NumbersAreListed(r, filters) /\ SegmentsAreListed(r, filters) /\ RowsAddUp(r, filters)
=============================================================================

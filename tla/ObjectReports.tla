---------------------------- MODULE ObjectReports ----------------------------
(***************************************************************************)
(* The reports by object type: object-reporting.js for the seven types it  *)
(* knows, extended-object-reporting.js for every type of the portal.       *)
(***************************************************************************)
EXTENDS CrmRecords

-----------------------------------------------------------------------------
(* Expressions                                                             *)

\* An activity happens at its timestamp, its start or its completion.
ObjectActivityAt(r) ==
    Coalesce(<<r.stamp, r.start, r.completed, r.created, r.updated, r.synced>>)

\* universalTimestampSql and objectTimestampSql.
ObjectAt(r) == IF r.type \in Activities THEN ObjectActivityAt(r) ELSE CreatedAt(r)

UpdatedAt(r) == Coalesce(<<r.updated, r.created, r.synced>>)

AnyOwner(r) == Coalesce(<<r.owner, r.assigned>>)

\* An association in either direction, also with a record that is archived.
Associated(r, type) ==
    CASE type = "deals" -> r.dealsOut \cup r.dealsIn # {}
      [] type = "contacts" -> r.contactsOut \cup r.contactsIn # {}
      [] type = "companies" -> r.companies

ClosedAt(r) == Coalesce(<<r.close, UpdatedAt(r)>>)

TicketClosed(r) == r.closed \/ r.close # None

ObjectScope(r, filters) == ~r.archived /\ Allows(filters.owner, AnyOwner(r))

-----------------------------------------------------------------------------
(* Numbers                                                                 *)

\* The numbers that every type has.
CommonNumber(key, r, filters) ==
    CASE key = "total" -> TRUE
      [] key = "created-in-period" -> During(filters, ObjectAt(r))
      [] key = "updated-in-period" -> During(filters, UpdatedAt(r))
      [] key = "missing-owner" -> AnyOwner(r) = None

CommonKeys == {"total", "created-in-period", "updated-in-period", "missing-owner"}

\* buildObjectReportingOverview: one query for all types, without a metric of a type.
ObjectOverview(r, filters) ==
    Answered({[supplied |-> 5, uses |-> 1 .. 5]},
             {key \in CommonKeys : ObjectScope(r, filters) /\ CommonNumber(key, r, filters)})

\* OBJECT_CONFIG: the metrics of a type, and those that read the period.
MetricsOf ==
    [contacts |-> {"untouched", "stale", "customers", "with-deal", "without-company"},
     companies |-> {"missing-industry", "with-deal", "without-deal"},
     deals |-> {"open-deals", "won-deals", "lost-deals", "overdue-close", "no-next-activity",
                "without-contact", "without-company"},
     calls |-> {"with-disposition", "missing-disposition", "calls-without-contact"},
     meetings |-> {"completed-meetings", "no-show-meetings", "missing-outcome"},
     tasks |-> {"open-tasks", "completed-tasks", "due-today", "overdue-tasks",
                "without-contact"},
     tickets |-> {"open-tickets", "closed-tickets", "without-contact"}]

PeriodKeys ==
    {"created-in-period", "updated-in-period", "won-deals", "lost-deals", "with-disposition",
     "missing-disposition", "calls-without-contact", "completed-meetings", "no-show-meetings",
     "missing-outcome", "completed-tasks", "closed-tickets"}

\* OBJECT_CONFIG: the condition of a metric, for the number and for its drilldown.
MetricCondition(key, r, filters) ==
    CASE key = "untouched" -> r.contacted = None
      [] key = "stale" -> Earlier(r.contacted, Today - 21)
      [] key = "customers" -> r.segment = "customer"
      [] key = "missing-industry" -> r.segment = None
      [] key = "with-deal" -> Associated(r, "deals")
      [] key = "without-deal" -> ~Associated(r, "deals")
      [] key = "without-contact" -> ~Associated(r, "contacts")
      [] key = "without-company" -> ~Associated(r, "companies")
      [] key = "open-deals" -> ~r.closed
      [] key = "won-deals" -> r.won /\ During(filters, ClosedAt(r))
      [] key = "lost-deals" -> r.closed /\ ~r.won /\ During(filters, ClosedAt(r))
      [] key = "overdue-close" -> ~r.closed /\ Earlier(r.close, Today)
      [] key = "no-next-activity" -> ~r.closed /\ r.next = None
      [] key = "with-disposition" -> r.outcome # None /\ During(filters, ObjectAt(r))
      [] key \in {"missing-disposition", "missing-outcome"} ->
            r.outcome = None /\ During(filters, ObjectAt(r))
      [] key = "calls-without-contact" ->
            ~Associated(r, "contacts") /\ During(filters, ObjectAt(r))
      [] key = "completed-meetings" -> r.outcome = "completed" /\ During(filters, ObjectAt(r))
      [] key = "no-show-meetings" -> r.outcome = "no-show" /\ During(filters, ObjectAt(r))
      [] key = "open-tasks" -> ~r.done
      [] key = "completed-tasks" ->
            r.done /\ During(filters, Coalesce(<<r.completed, ObjectAt(r)>>))
      [] key = "due-today" -> ~r.done /\ ObjectAt(r) = Today
      [] key = "overdue-tasks" -> ~r.done /\ Earlier(ObjectAt(r), Today)
      [] key = "open-tickets" -> ~TicketClosed(r)
      [] key = "closed-tickets" -> TicketClosed(r) /\ During(filters, ClosedAt(r))

\* detailSummary: the numbers of the type's own page.
DetailSummary(r, filters) ==
    {key \in CommonKeys : ObjectScope(r, filters) /\ CommonNumber(key, r, filters)}
    \cup {key \in MetricsOf[r.type] : ObjectScope(r, filters) /\ MetricCondition(key, r, filters)}

DetailTrend(r, filters) ==
    {day \in filters.from .. filters.to : ObjectScope(r, filters) /\ ObjectAt(r) = day}

\* The three queries of buildObjectReportingDetail: the breakdowns are given the
\* period and do not use it.
DetailQueries ==
    {[supplied |-> 4, uses |-> 1 .. 4], [supplied |-> 4, uses |-> {1, 4}]}

\* buildObjectReportingDetail.
ObjectDetail(r, filters) == Answered(DetailQueries, DetailSummary(r, filters))

\* getObjectReportingDrilldown: the period is given as values 3 and 4, which only
\* a condition on the period uses.
DrilldownQuery(key) ==
    [supplied |-> 7, uses |-> (1 .. 7) \ IF key \in PeriodKeys THEN {} ELSE {3, 4}]

\* getObjectReportingDrilldown: whether it lists the record.
ObjectDrilldown(key, r, filters) ==
    Answered({DrilldownQuery(key)},
             {k \in {key} : /\ ObjectScope(r, filters)
                            /\ IF k \in CommonKeys THEN CommonNumber(k, r, filters)
                                                   ELSE MetricCondition(k, r, filters)})

-----------------------------------------------------------------------------
(* Every type of the portal                                                *)

ExtendedKeys == CommonKeys \cup {"with-associations", "without-associations"}

AnyAssociation(r) == \E type \in {"deals", "contacts", "companies"} : Associated(r, type)

\* reportCondition: created is the day of the record, also of an activity.
ExtendedCondition(key, r, filters) ==
    CASE key = "created-in-period" -> During(filters, CreatedAt(r))
      [] key = "with-associations" -> AnyAssociation(r)
      [] key = "without-associations" -> ~AnyAssociation(r)
      [] OTHER -> CommonNumber(key, r, filters)

\* buildExtendedObjectDetail.
ExtendedDetail(r, filters) ==
    Answered({[supplied |-> 5, uses |-> 1 .. 5], [supplied |-> 4, uses |-> 1 .. 4]},
             {key \in ExtendedKeys : /\ ~r.archived /\ Allows(filters.owner, AnyOwner(r))
                                     /\ ExtendedCondition(key, r, filters)})

ExtendedTrend(r, filters) ==
    {day \in filters.from .. filters.to : ObjectScope(r, filters) /\ CreatedAt(r) = day}

\* searchExtendedObjectRecords and exportExtendedObjectCsv, with the text that is
\* searched for, or None; the export has no offset.
SearchQuery(key, search, last) ==
    LET supplied == IF search = None THEN last ELSE last + 1
    IN  [supplied |-> supplied,
         uses |-> (1 .. supplied) \ IF key \in PeriodKeys THEN {} ELSE {3, 4}]

ExtendedSearch(key, r, filters, search) ==
    Answered({SearchQuery(key, search, 7)},
             {k \in {key} : /\ ObjectScope(r, filters) /\ ExtendedCondition(k, r, filters)
                            /\ search = None \/ search = r.text})

ExtendedExport(key, r, filters, search) ==
    Answered({SearchQuery(key, search, 6)},
             {k \in {key} : /\ ObjectScope(r, filters) /\ ExtendedCondition(k, r, filters)
                            /\ search = None \/ search = r.text})

-----------------------------------------------------------------------------
(* Agreement                                                               *)

\* Every drilldown, search and export that is answered lists a record exactly if
\* the number of the overview, or of the type's page, counts it; a trend adds up
\* to its number; the numbers that are each other's complement divide the records.
ObjectReportsAgree(r, filters) ==
    LET overview == ObjectOverview(r, filters)
        summary == DetailSummary(r, filters)
        extended == ExtendedDetail(r, filters)
    IN  /\ \A key \in CommonKeys \cup MetricsOf[r.type] :
              ObjectDrilldown(key, r, filters) # NoAnswer =>
                  /\ key \in CommonKeys =>
                        (key \in overview <=> key \in ObjectDrilldown(key, r, filters))
                  /\ key \in summary <=> key \in ObjectDrilldown(key, r, filters)
        /\ \A key \in ExtendedKeys :
              \A found \in {ExtendedSearch(key, r, filters, None),
                            ExtendedExport(key, r, filters, None)} :
                  found # NoAnswer => (key \in extended <=> key \in found)
        /\ Cardinality(DetailTrend(r, filters)) = Cardinality(overview \cap {"created-in-period"})
        /\ Cardinality(ExtendedTrend(r, filters)) = Cardinality(extended \cap {"created-in-period"})
        /\ Cardinality(extended \cap {"with-associations", "without-associations"})
              = Cardinality(extended \cap {"total"})
        /\ r.type = "calls" =>
              Cardinality(summary \cap {"with-disposition", "missing-disposition"})
                  = Cardinality(summary \cap {"created-in-period"})
        /\ r.type = "deals" => ~({"won-deals", "lost-deals"} \subseteq summary)
=============================================================================

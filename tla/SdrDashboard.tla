---------------------------- MODULE SdrDashboard ----------------------------
(***************************************************************************)
(* The SDR dashboard: the compiler of filter rules (analytics.js), the     *)
(* rules of its template (templates/sdr-dashboard.js) and the queries of   *)
(* analytics-runtime.js.  A compiled rule is an SQL condition: it is true, *)
(* false or null of a record, and only a record of which it is true is     *)
(* counted or listed.                                                      *)
(***************************************************************************)
EXTENDS CrmRecords

-----------------------------------------------------------------------------
(* SQL conditions                                                          *)

Sql(b) == IF b THEN "true" ELSE "false"

SqlNot(v) == CASE v = "true" -> "false" [] v = "false" -> "true" [] OTHER -> v

SqlAnd(values) ==
    IF "false" \in values THEN "false" ELSE IF "null" \in values THEN "null" ELSE "true"

SqlOr(values) ==
    IF "true" \in values THEN "true" ELSE IF "null" \in values THEN "null" ELSE "false"

-----------------------------------------------------------------------------
(* Rules: what a compiled rule says of a record.  A rule with a semantic   *)
(* field that is not mapped does not compile: it is "error", and so is     *)
(* every rule that contains it.                                            *)

\* compileScalarCondition, for a field that is read from the properties.
CompileScalar(value, operator, operand) ==
    CASE operator = "missing" -> Sql(value = None)
      [] operator = "exists" -> Sql(value # None)
      [] operator = "equals" -> IF value = None THEN "null" ELSE Sql(value = operand)
      [] operator = "not_equals" -> Sql(value = None \/ value # operand)
      [] operator = "in" ->
            IF operand = {} THEN "false"
            ELSE IF value = None THEN "null" ELSE Sql(value \in operand)
      [] operator = "not_in" ->
            IF operand = {} THEN "true"
            ELSE IF value = None THEN "null" ELSE Sql(value \notin operand)
      [] operator = "before_days" ->
            IF value = None THEN "null" ELSE Sql(value < Today - operand)
      [] operator = "after_days" ->
            IF value = None THEN "null" ELSE Sql(value >= Today - operand)

\* compileRule: a group of conditions; an empty one is true.
Group(operator, conditions) ==
    IF "error" \in conditions THEN "error"
    ELSE IF conditions = {} THEN "true"
    ELSE IF operator = "AND" THEN SqlAnd(conditions) ELSE SqlOr(conditions)

\* A semantic field is the property of its approved mapping.
Semantic(r, value, mapped) ==
    IF ~mapped THEN "error" ELSE IF r.quality = None THEN "null" ELSE Sql(r.quality = value)

\* The virtual properties of the template.
VirtualRule(key, r) ==
    CASE key = "untouched_contact" ->
            Group("AND", {CompileScalar(r.contacted, "missing", None),
                          CompileScalar(r.createdate, "before_days", 2)})
      [] key = "stale_contact" ->
            Group("AND", {CompileScalar(r.contacted, "exists", None),
                          CompileScalar(r.contacted, "before_days", 21)})
      [] key = "deal_at_risk" ->
            Group("AND", {CompileScalar(r.closedText, "not_in", {"true"}),
                          Group("OR", {CompileScalar(r.close, "before_days", 0),
                                       CompileScalar(r.next, "missing", None)})})

Virtual(key, r, expected) == IF expected THEN VirtualRule(key, r) ELSE SqlNot(VirtualRule(key, r))

NeedsAction(r) ==
    Group("OR", {Virtual("untouched_contact", r, TRUE), Virtual("stale_contact", r, TRUE)})

-----------------------------------------------------------------------------
(* The dashboard                                                           *)

\* The metrics of the template: the type of a metric and its filters, to which
\* virtualFilter adds the rule of a virtual property.
MetricType ==
    [key \in {"total_contacts", "high_priority_contacts", "untouched_contacts", "stale_contacts",
              "contacts_needing_action", "open_pipeline", "deals_at_risk"} |->
        IF key \in {"open_pipeline", "deals_at_risk"} THEN "deals" ELSE "contacts"]

MetricRule(key, r, mapped) ==
    CASE key = "total_contacts" -> Group("AND", {})
      [] key = "high_priority_contacts" -> Group("AND", {Semantic(r, "highest", mapped)})
      [] key = "untouched_contacts" -> VirtualRule("untouched_contact", r)
      [] key = "stale_contacts" -> VirtualRule("stale_contact", r)
      [] key = "contacts_needing_action" -> NeedsAction(r)
      [] key = "open_pipeline" -> Group("AND", {CompileScalar(r.closedText, "not_in", {"true"})})
      [] key = "deals_at_risk" -> VirtualRule("deal_at_risk", r)

\* executeMetricSafely: the metrics that count the record; one that does not
\* compile has no value.
SdrMetrics(r, mapped) ==
    {key \in DOMAIN MetricType :
        r.type = MetricType[key] /\ ~r.archived /\ MetricRule(key, r, mapped) = "true"}

\* executeActivityWindowMetric: calls and meetings of the last 30 days.
InActivityWindow(r) ==
    r.type \in {"calls", "meetings"} /\ ~r.archived /\ ActivityAt(r) >= Today - 30

\* The leaderboard groups the calls of the same window by owner.
ActivityByOwner(r) ==
    {owner \in {ActivityOwner(r)} : InActivityWindow(r) /\ r.type = "calls"}

\* executeOperationalSnapshot.
OperationalSnapshot(r) ==
    {number \in {"totalCompanies", "openTasks", "openDeals", "missingOwner", "tasksDueToday",
                 "overdueTasks", "noNextActivity"} :
        /\ ~r.archived
        /\ CASE number = "totalCompanies" -> r.type = "companies"
             [] number = "missingOwner" -> r.type = "contacts" /\ r.owner = None
             [] number = "openDeals" -> r.type = "deals" /\ r.closedText # "true"
             [] number = "noNextActivity" ->
                   r.type = "deals" /\ r.closedText # "true" /\ r.next = None
             [] number = "openTasks" -> r.type = "tasks" /\ ~r.done
             [] number = "tasksDueToday" -> r.type = "tasks" /\ ~r.done /\ DueAt(r) = Today
             [] number = "overdueTasks" ->
                   r.type = "tasks" /\ ~r.done /\ Earlier(DueAt(r), Today)}

\* executeConversionFunnel: the steps that count a contact.  Only the first two
\* ask whether the contact itself is archived.
ConversionFunnel(r) ==
    {step \in {"contacts", "contacted", "meetings", "opportunities", "won"} :
        /\ r.type = "contacts"
        /\ step \in {"contacts", "contacted"} => ~r.archived
        /\ step = "contacted" =>
              r.contacted # None \/ r.callsIn \/ r.meetingsIn # {} \/ r.dealsIn # {}
        /\ step = "meetings" => \E m \in r.meetingsIn : ~m.archived /\ m.at >= Today - 30
        /\ step = "opportunities" => \E d \in r.dealsIn : ~d.archived
        /\ step = "won" => \E d \in r.dealsIn : ~d.archived /\ d.won}

\* fallbackAttentionDrilldown.
FallbackAttention(r) ==
    /\ r.type = "contacts" /\ ~r.archived
    /\ \/ r.contacted = None /\ CreatedAt(r) < Today - 2
       \/ Earlier(r.contacted, Today - 21)

\* The rule of the table of the template.
PriorityRule(r, mapped) == Group("AND", {Semantic(r, "highest", mapped), NeedsAction(r)})

\* getPriorityLeadDrilldown: the fallback when the rule does not compile.
PriorityLeads(r, mapped) ==
    IF PriorityRule(r, mapped) = "error" THEN FallbackAttention(r)
    ELSE r.type = "contacts" /\ ~r.archived /\ PriorityRule(r, mapped) = "true"

-----------------------------------------------------------------------------
(* Agreement                                                               *)

\* The table lists the leads of highest quality that need action, as the metrics
\* count them, and without a mapping every contact that needs attention; a contact
\* that needs action is either untouched or stale; a deal at risk is an open one of
\* the snapshot; the leaderboard adds up to the calls; the funnel narrows, for a
\* contact that is not archived.
SdrDashboardAgrees(r, mapped) ==
    LET metrics == SdrMetrics(r, mapped)
        snapshot == OperationalSnapshot(r)
        funnel == ConversionFunnel(r)
    IN  /\ mapped =>
              (PriorityLeads(r, mapped)
                  <=> {"high_priority_contacts", "contacts_needing_action"} \subseteq metrics)
        /\ ~mapped /\ r.createdate = CreatedAt(r) =>
              (PriorityLeads(r, mapped) <=> "contacts_needing_action" \in metrics)
        /\ Cardinality(metrics \cap {"untouched_contacts", "stale_contacts"})
              = Cardinality(metrics \cap {"contacts_needing_action"})
        /\ "deals_at_risk" \in metrics => "open_pipeline" \in metrics
        /\ "open_pipeline" \in metrics => "openDeals" \in snapshot
        /\ {"open_pipeline", "noNextActivity"} \subseteq metrics \cup snapshot
              => "deals_at_risk" \in metrics
        /\ Cardinality(ActivityByOwner(r)) = IF InActivityWindow(r) /\ r.type = "calls" THEN 1 ELSE 0
        /\ ~r.archived =>
              /\ "won" \in funnel => "opportunities" \in funnel
              /\ funnel \cap {"meetings", "opportunities"} # {} => "contacted" \in funnel
=============================================================================

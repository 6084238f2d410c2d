-------------------------- MODULE OperatingReports --------------------------
(***************************************************************************)
(* The operating reports that agreed-reporting-core.js adds to the pack,   *)
(* the execution figures by which agreed-reporting.js replaces the core's  *)
(* own, and their drilldowns.  They filter by associations in either       *)
(* direction, so that a record may be in one of these reports and not in   *)
(* the revenue pack of the same request.  A mapping is what the workspace  *)
(* has approved: the property of the outcomes with the meaning of its      *)
(* values, and which of lead_quality and renewal_date have a property.     *)
(***************************************************************************)
EXTENDS RevenueReports

-----------------------------------------------------------------------------
(* Filters                                                                 *)

\* objectPredicate of the core: every type is filtered by contacts and deals.
CorePredicate(r, filters) ==
    /\ ~r.archived
    /\ Allows(filters.owner, OwnerOf(r))
    /\ IF r.type = "contacts" THEN ContactMatches(r, filters)
       ELSE ByContact(r.contactsOut \cup r.contactsIn, filters)
    /\ IF r.type = "deals" THEN DealMatches(r, filters)
       ELSE ByDeal(r.dealsOut \cup r.dealsIn, filters)

\* The day before the end of the period.
PreviousDay(filters) == [filters EXCEPT !.from = filters.to - 1, !.to = filters.to - 1]

\* pickMapping: an approved mapping, or the default that the caller gives.
OutcomeOf(r, mapping) ==
    LET raw == IF mapping.property = "default" THEN r.outcome ELSE r.other
    IN  IF raw \in DOMAIN mapping.values THEN mapping.values[raw]
        ELSE Coalesce(<<raw, "unknown">>)

-----------------------------------------------------------------------------
(* The numbers                                                             *)

\* executeActivityReport: the numbers of the execution section that count the record.
ExecuteActivityReport(r, filters, mapping) ==
    {number \in {"calls", "connectedCalls", "meetings", "meetingsCompleted", "noShowMeetings",
                 "tasks", "completedTasks"} :
        /\ r.type \in Activities
        /\ CorePredicate(r, filters)
        /\ During(filters, ActivityAt(r))
        /\ r.type = CASE number \in {"calls", "connectedCalls"} -> "calls"
                      [] number \in {"tasks", "completedTasks"} -> "tasks"
                      [] OTHER -> "meetings"
        /\ number = "connectedCalls" =>
              r.outcome = ConnectedId \/ OutcomeOf(r, mapping) = "connected"
        /\ number = "meetingsCompleted" => OutcomeOf(r, mapping) = "completed"
        /\ number = "noShowMeetings" => OutcomeOf(r, mapping) = "no-show"
        /\ number = "completedTasks" => r.done}

\* currentTaskState, whatever the period.
CurrentTaskState(r, filters) ==
    {number \in {"openTasks", "tasksDueToday", "overdueTasks"} :
        /\ OpenTask(r) /\ CorePredicate(r, filters)
        /\ number = "tasksDueToday" => DueAt(r) = Today
        /\ number = "overdueTasks" => Earlier(DueAt(r), Today)}

\* A contact is contacted by a note or by a sales activity.
LastContact(r) == Coalesce(<<r.contacted, r.sales>>)

ContactCoverage(r, filters) ==
    {number \in {"portfolioContacts", "newContacts", "contactedContacts", "untouchedContacts",
                 "coldContacts", "missingOwnerContacts"} :
        /\ r.type = "contacts" /\ CorePredicate(r, filters)
        /\ number = "newContacts" => During(filters, CreatedAt(r))
        /\ number = "contactedContacts" => LastContact(r) # None
        /\ number = "untouchedContacts" => LastContact(r) = None /\ CreatedAt(r) < Today - 2
        /\ number = "coldContacts" => Earlier(LastContact(r), Today - 21)
        /\ number = "missingOwnerContacts" => r.owner = None}

AtRisk(r) == OpenDeal(r) /\ (r.next = None \/ Earlier(r.close, Today))

ClosingSoon(r) ==
    OpenDeal(r) /\ r.close # None /\ Today <= r.close /\ r.close < Today + 14

\* revenueHealth; a milestone is read from the label of the deal's stage.
RevenueHealth(r, filters) ==
    {number \in {"openDeals", "dealsAtRisk", "overdueCloseDeals", "closingSoonDeals",
                 "wonDeals", "signed", "booked", "cashing"} :
        /\ r.type = "deals" /\ CorePredicate(r, filters)
        /\ CASE number = "openDeals" -> OpenDeal(r)
             [] number = "dealsAtRisk" -> AtRisk(r)
             [] number = "overdueCloseDeals" -> OpenDeal(r) /\ Earlier(r.close, Today)
             [] number = "closingSoonDeals" -> ClosingSoon(r)
             [] number = "wonDeals" -> WonDuring(r, filters)
             [] OTHER -> r.label = number}

\* qualityFunnel asks nothing and counts nobody until a quality is mapped; then
\* the query of the countries is given the values of both.
QualityFunnel(mapping) ==
    IF "lead_quality" \in mapping.approved
    THEN {[supplied |-> 12, uses |-> 1 .. 12], [supplied |-> 12, uses |-> 1 .. 10]} ELSE {}

\* retentionReporting asks nothing and counts nobody until a renewal date is
\* mapped; then only the breakdown uses the last value, and not two before it.
Retention(mapping) ==
    IF "renewal_date" \in mapping.approved
    THEN {[supplied |-> 13, uses |-> 1 .. 12], [supplied |-> 13, uses |-> 1 .. 10 \cup {13}]}
    ELSE {}

\* The numbers that count the record: those of the execution section replace the
\* core's own.
OperatingNumbers(r, filters, mapping) ==
    ExecuteActivityReport(r, filters, mapping) \cup CurrentTaskState(r, filters)
        \cup ContactCoverage(r, filters) \cup RevenueHealth(r, filters)

\* buildOperatingReports waits for all of its reports: one that is refused leaves
\* the whole pack without an answer.
OperatingPack(r, filters, mapping) ==
    Answered({[supplied |-> 8, uses |-> 1 .. 8], [supplied |-> 12, uses |-> 1 .. 12]}
                 \cup QualityFunnel(mapping) \cup Retention(mapping),
             OperatingNumbers(r, filters, mapping))

-----------------------------------------------------------------------------
(* The drilldowns                                                          *)

\* staticDrilldownDefinition, priorityDrilldown and retentionDrilldown.
OperatingType ==
    [key \in {"portfolio-contacts", "new-contacts", "cold-contacts", "priority-needs-contact",
              "connected-calls", "completed-meetings", "no-show-meetings", "completed-tasks",
              "open-tasks", "tasks-due-today", "deals-at-risk", "closing-soon-deals",
              "signed-contract-deals", "booked-deals", "cashing-deals", "retention-upcoming",
              "retention-delayed", "retention-renewed-late", "retention-lost"} |->
        CASE key \in {"portfolio-contacts", "new-contacts", "cold-contacts",
                      "priority-needs-contact"} -> "contacts"
          [] key = "connected-calls" -> "calls"
          [] key \in {"completed-meetings", "no-show-meetings"} -> "meetings"
          [] key \in {"completed-tasks", "open-tasks", "tasks-due-today"} -> "tasks"
          [] OTHER -> "deals"]

\* staticDrilldownDefinition: the outcomes are read from the default properties,
\* that of a call without a disposition from its status.
StaticCondition(key, r, filters) ==
    CASE key = "portfolio-contacts" -> TRUE
      [] key = "new-contacts" -> During(filters, CreatedAt(r))
      [] key = "cold-contacts" -> Earlier(LastContact(r), Today - 21)
      [] key = "connected-calls" ->
            /\ r.outcome = ConnectedId \/ Coalesce(<<r.outcome, r.callStatus>>) = "connected"
            /\ During(filters, ActivityAt(r))
      [] key = "completed-meetings" -> r.outcome = "completed" /\ During(filters, ActivityAt(r))
      [] key = "no-show-meetings" -> r.outcome = "no-show" /\ During(filters, ActivityAt(r))
      [] key = "completed-tasks" -> r.done /\ During(filters, ActivityAt(r))
      [] key = "open-tasks" -> ~r.done
      [] key = "tasks-due-today" -> ~r.done /\ DueAt(r) = Today
      [] key = "deals-at-risk" -> AtRisk(r)
      [] key = "closing-soon-deals" -> ClosingSoon(r)
      [] key = "signed-contract-deals" -> r.label = "signed"
      [] key = "booked-deals" -> r.label = "booked"
      [] key = "cashing-deals" -> r.label = "cashing"

PriorityCondition(r) ==
    /\ r.quality \in {"highest", "medium"}
    /\ LastContact(r) = None
    /\ CreatedAt(r) < Today - 2

\* A renewal is delayed once its month is over.
RetentionCondition(key, r) ==
    CASE key = "retention-upcoming" ->
            r.renewal # None /\ MonthStart <= r.renewal /\ ~r.won /\ ~r.inactive
      [] key = "retention-delayed" -> Earlier(r.renewal, MonthStart) /\ ~r.won /\ ~r.inactive
      [] key = "retention-renewed-late" -> r.won /\ Earlier(r.renewal, WonAt(r))
      [] key = "retention-lost" -> r.inactive \/ (r.closed /\ ~r.won)

RetentionLists ==
    {"retention-upcoming", "retention-delayed", "retention-renewed-late", "retention-lost"}

\* The mapping without which a drilldown answers 409.
Required(key) ==
    CASE key = "priority-needs-contact" -> {"lead_quality"}
      [] key \in RetentionLists -> {"renewal_date"}
      [] OTHER -> {}

\* The list of late renewals does not ask for the status of the account, whose
\* property and meanings are the values 10 and 11.
OperatingQuery(key) ==
    CASE key = "priority-needs-contact" -> [supplied |-> 12, uses |-> 1 .. 12]
      [] key = "retention-renewed-late" -> [supplied |-> 13, uses |-> (1 .. 13) \ {10, 11}]
      [] key \in RetentionLists \ {"retention-renewed-late"} -> [supplied |-> 13, uses |-> 1 .. 13]
      [] OTHER -> [supplied |-> 10, uses |-> 1 .. 10]

OperatingCondition(key, r, filters) ==
    CASE key = "priority-needs-contact" -> PriorityCondition(r)
      [] key \in RetentionLists -> RetentionCondition(key, r)
      [] OTHER -> StaticCondition(key, r, filters)

\* getRevenueDrilldown of the core: whether it lists the record.
OperatingDrilldown(key, r, filters, mapping) ==
    IF Required(key) \subseteq mapping.approved
    THEN Answered({OperatingQuery(key)},
                  {k \in {key} : /\ r.type = OperatingType[k] /\ CorePredicate(r, filters)
                                 /\ OperatingCondition(k, r, filters)})
    ELSE NoAnswer

-----------------------------------------------------------------------------
(* Agreement                                                               *)

\* The drilldown that a card of the operating reports opens, where the number
\* and the list come from the same module.
OperatingDrilldownOf ==
    [portfolioContacts |-> "portfolio-contacts", newContacts |-> "new-contacts",
     coldContacts |-> "cold-contacts", connectedCalls |-> "connected-calls",
     meetingsCompleted |-> "completed-meetings", noShowMeetings |-> "no-show-meetings",
     completedTasks |-> "completed-tasks", openTasks |-> "open-tasks",
     tasksDueToday |-> "tasks-due-today", dealsAtRisk |-> "deals-at-risk",
     closingSoonDeals |-> "closing-soon-deals", signed |-> "signed-contract-deals",
     booked |-> "booked-deals", cashing |-> "cashing-deals"]

\* A call without a disposition whose status says that it was connected is listed
\* and not counted: only the list reads the status.
ListedByStatus(number, r) ==
    number = "connectedCalls" /\ r.outcome = None /\ r.callStatus = "connected"

\* As long as no meaning of an outcome is mapped, which the drilldowns do not read,
\* a card that is answered counts the records that its drilldown lists.
CardsAreListed(r, filters, mapping) ==
    LET pack == OperatingPack(r, filters, mapping) IN
    (pack # NoAnswer /\ mapping.property = "default" /\ DOMAIN mapping.values = {}) =>
        \A number \in DOMAIN OperatingDrilldownOf :
            LET key == OperatingDrilldownOf[number] IN
            number \in pack <=> /\ key \in OperatingDrilldown(key, r, filters, mapping)
                                /\ ~ListedByStatus(number, r)

\* The lists that need a mapping: a contact of highest priority is one of the
\* untouched contacts of the revenue pack, unless deals are filtered; no renewal is
\* both upcoming and delayed, and none that is not won is missing from all lists.
MappedListsAgree(r, filters, mapping) ==
    LET lists == UNION {OperatingDrilldown(key, r, filters, mapping) :
                        key \in {"priority-needs-contact", "retention-upcoming",
                                 "retention-delayed", "retention-lost"}}
    IN  /\ ("priority-needs-contact" \in lists /\ filters.pipeline = None /\ filters.stage = None)
               => Drilldown("untouched-contacts", r, filters, None)
        /\ ~({"retention-upcoming", "retention-delayed"} \subseteq lists)
        /\ ("renewal_date" \in mapping.approved /\ r.type = "deals" /\ CorePredicate(r, filters)
               /\ r.renewal # None /\ ~r.won)
              => lists \cap RetentionLists # {}

\* The cards, their drilldowns and the lists of the operating reports agree.
OperatingReportsAgree(r, filters, mapping) ==
    /\ CardsAreListed(r, filters, mapping)
    /\ MappedListsAgree(r, filters, mapping)
    \* A contact is untouched or contacted, a deal at risk is open, and the deal of
    \* an overdue close date is at risk.
    /\ LET pack == OperatingPack(r, filters, mapping) IN
       /\ ~({"untouchedContacts", "contactedContacts"} \subseteq pack)
       /\ {"dealsAtRisk", "overdueCloseDeals", "closingSoonDeals"} \cap pack # {}
             => "openDeals" \in pack
       /\ "overdueCloseDeals" \in pack => "dealsAtRisk" \in pack
       /\ "coldContacts" \in pack => "contactedContacts" \in pack
    \* A record of the previous day is one of the period, unless that has one day.
    /\ filters.from < filters.to =>
          ExecuteActivityReport(r, PreviousDay(filters), mapping)
              \subseteq ExecuteActivityReport(r, filters, mapping)
=============================================================================

----------------------------- MODULE CrmRecords -----------------------------
(***************************************************************************)
(* One mirrored CRM record as the reports read it: the values that the SQL *)
(* of the reports takes from a row of crm_records and from the records it  *)
(* is associated with.  A missing property is None, a time is a day.       *)
(* A report counts the records that satisfy a condition, and a drilldown   *)
(* lists those that satisfy another one: what both say of one record       *)
(* decides whether they agree.                                             *)
(***************************************************************************)
EXTENDS Integers, FiniteSets, Sequences

CONSTANTS
    None,        \* a property that is missing, a filter that is not set
    Today,       \* CURRENT_DATE
    MonthStart   \* date_trunc('month', CURRENT_DATE)

\* The disposition that HubSpot gives to a connected call.
ConnectedId == "f240bbac-87c9-4f6e-bf70-924b57d47db7"

\* The outcomes that the reports look for.
Outcomes == {"connected", ConnectedId, "completed", "no-show"}

ASSUME CrmRecordsAssumption ==
    Today \in Int /\ MonthStart \in Int /\ MonthStart <= Today /\ None \notin Int \cup Outcomes

Activities == {"calls", "meetings", "tasks"}

Day == Int \cup {None}
Text == STRING \cup {None}

ContactLink == [archived: BOOLEAN, country: Text, region: Text, source: Text]
DealLink == [archived: BOOLEAN, pipeline: Text, stage: Text, closed: BOOLEAN, won: BOOLEAN]
MeetingLink == [archived: BOOLEAN, at: Int]

\* A record has been stored on the day "synced"; everything else may be missing.
Record ==
    [type: Activities \cup {"contacts", "companies", "deals", "tickets"}, archived: BOOLEAN,
     owner: Text, assigned: Text, country: Text, region: Text, source: Text, segment: Text,
     created: Day, updated: Day, synced: Int, stamp: Day, start: Day, completed: Day,
     close: Day, closed: BOOLEAN, closedText: Text, won: BOOLEAN, next: Day, contacted: Day,
     sales: Day, done: BOOLEAN, outcome: Text, callStatus: Text, other: Text, pipeline: Text,
     stage: Text, label: Text, quality: Text, renewal: Day, inactive: BOOLEAN, createdate: Day,
     contactsOut: SUBSET ContactLink, contactsIn: SUBSET ContactLink,
     dealsOut: SUBSET DealLink, dealsIn: SUBSET DealLink, companies: BOOLEAN,
     callsIn: BOOLEAN, meetingsIn: SUBSET MeetingLink, text: Text]

\* What a request asks for, also a period that ends before it begins.
Filters ==
    [from: Int, to: Int, owner: Text, country: Text, pipeline: Text, stage: Text, source: Text]

\* COALESCE: the first value that is not missing.
Coalesce(values) ==
    LET present == {i \in DOMAIN values : values[i] # None}
    IN  IF present = {} THEN None
        ELSE values[CHOOSE i \in present : \A j \in present : i <= j]

\* A comparison with NULL is not true.
Earlier(day, limit) == day # None /\ day < limit

During(filters, day) == day # None /\ filters.from <= day /\ day <= filters.to

\* A filter that is not set lets every value pass.
Allows(filter, value) == filter = None \/ filter = value

-----------------------------------------------------------------------------
(* A statement is given the values 1 .. supplied.  PostgreSQL refuses it   *)
(* when one of them is not used by any expression: there are more values   *)
(* than parameters, or the type of a parameter cannot be told.             *)

Accepted(query) == query.uses = 1 .. query.supplied

NoAnswer == {"no answer"}

\* A request is answered if each of its statements is accepted.
Answered(queries, numbers) == IF \A q \in queries : Accepted(q) THEN numbers ELSE NoAnswer

-----------------------------------------------------------------------------
(* The expressions that every report takes from a record                   *)

ActivityAt(r) == Coalesce(<<r.stamp, r.start, r.created, r.updated, r.synced>>)

CreatedAt(r) == Coalesce(<<r.created, r.synced>>)

RecordAt(r) == IF r.type \in Activities THEN ActivityAt(r) ELSE CreatedAt(r)

ActivityOwner(r) == Coalesce(<<r.owner, r.assigned, "Unassigned">>)

OwnerOf(r) ==
    IF r.type \in Activities THEN ActivityOwner(r) ELSE Coalesce(<<r.owner, "Unassigned">>)

CountryOf(r) == Coalesce(<<r.country, r.region, "Unknown">>)

SourceOf(r) == Coalesce(<<r.source, "Unknown">>)

SegmentOf(r) == Coalesce(<<r.segment, "Unknown">>)

\* The day a deal was won: its close date, or the last time it changed.
WonAt(r) == Coalesce(<<r.close, r.updated, r.synced>>)

WonDuring(r, filters) == r.won /\ During(filters, WonAt(r))

\* A task is due at its timestamp, or when it was created.
DueAt(r) == Coalesce(<<r.stamp, r.created>>)

-----------------------------------------------------------------------------
(* Filters by an associated contact or deal: links is the set of records   *)
(* at the other end of the associations that the query looks at.           *)

ContactMatches(contact, filters) ==
    /\ Allows(filters.country, CountryOf(contact))
    /\ Allows(filters.source, SourceOf(contact))

DealMatches(deal, filters) ==
    /\ Allows(filters.pipeline, deal.pipeline)
    /\ Allows(filters.stage, deal.stage)

ByContact(links, filters) ==
    \/ filters.country = None /\ filters.source = None
    \/ \E contact \in links : ~contact.archived /\ ContactMatches(contact, filters)

ByDeal(links, filters) ==
    \/ filters.pipeline = None /\ filters.stage = None
    \/ \E deal \in links : ~deal.archived /\ DealMatches(deal, filters)
=============================================================================

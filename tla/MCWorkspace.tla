----------------------------- MODULE MCWorkspace -----------------------------
(***************************************************************************)
(* A workspace and its reports, for TLC: the instances of the components,  *)
(* the schedules whose next run is computed, and the records on which the  *)
(* reports are compared.                                                   *)
(***************************************************************************)
EXTENDS Workspace

-----------------------------------------------------------------------------
(* Instances                                                               *)

ExportLimit == [p \in Plans |-> CASE p = "pilot" -> 1 [] p = "growth" -> 2 [] OTHER -> 0]

\* Summer time begins on day 3 and ends on day 6, at any hour around midnight and
\* around noon.
Zones == [offset: {-3, 0, 10}, summer: {71, 72, 73, 74, 84}, winter: {143, 144, 145, 146, 156}]

MCQueries ==
    UNION {[zone: Zones, hour: {0, 1, 2, 23}, from: {60, 71, 72, 74, 96, 143, 144, 146, 150},
            frequency: {f}, day: IF f = "daily" THEN {0} ELSE {1, 3}] :
           f \in {"daily", "weekly", "monthly"}}

\* Two portals that have a property in common; only the third is sure enough to
\* be mapped without a user.
TwoPortals == [o \in Portals |-> IF o = "A" THEN {1, 2} ELSE {1, 3}]
PropertyConfidence == [p \in 1 .. 3 |-> CASE p = 1 -> 60 [] p = 2 -> 90 [] OTHER -> 85]

\* The user has saved a default view in one of two workspaces.
SavedDefault == [w \in Companies |-> IF w = FirstCompany THEN 1 ELSE Plain]

BudgetLine(key, value) == [key |-> key, value |-> value]
BudgetFiles ==
    {<<BudgetLine("k1", 1)>>,
     <<BudgetLine("k1", 2), BadLine, BudgetLine("k1", 3), BudgetLine("k2", 4)>>,
     <<BadLine>>}

-----------------------------------------------------------------------------
(* Records and requests on which the reports are compared: around the      *)
(* edges of the periods, the reasons for which a record drops out of a     *)
(* filter, and the properties that may be missing.                         *)

SampleMonth(day) == IF day < 90 THEN "m1" ELSE "m2"

SampleClean(value) == IF value = " customer" THEN "customer" ELSE value

Contact(archived, country, source) ==
    [archived |-> archived, country |-> country, region |-> None, source |-> source]

Deal(archived, pipeline, closed, won) ==
    [archived |-> archived, pipeline |-> pipeline, stage |-> "s1", closed |-> closed, won |-> won]

Base(type) ==
    [type |-> type, archived |-> FALSE, owner |-> "o1", assigned |-> None, country |-> "fr",
     region |-> None, source |-> "web", segment |-> None, created |-> 97, updated |-> 98,
     synced |-> 99, stamp |-> None, start |-> None, completed |-> None, close |-> None,
     closed |-> FALSE, closedText |-> None, won |-> FALSE, next |-> None, contacted |-> None,
     sales |-> None, done |-> FALSE, outcome |-> None, callStatus |-> None, other |-> None, pipeline |-> "p1",
     stage |-> "s1", label |-> None, quality |-> None, renewal |-> None, inactive |-> FALSE,
     contactsOut |-> {}, contactsIn |-> {}, dealsOut |-> {}, dealsIn |-> {},
     companies |-> FALSE, text |-> "a", createdate |-> 97, callsIn |-> FALSE, meetingsIn |-> {}]

Everything == [from |-> 97, to |-> 99, owner |-> None, country |-> None, pipeline |-> None,
               stage |-> None, source |-> None]

OneDay == [Everything EXCEPT !.from = 99]

NoMapping == [property |-> "default", values |-> <<>>, approved |-> {}]

Approved(key) == [NoMapping EXCEPT !.approved = {key}]

Mappings == {NoMapping, [NoMapping EXCEPT !.property = "other", !.values = [x |-> "connected"]]}

SampleContacts ==
    {[Base("contacts") EXCEPT !.created = c, !.createdate = c, !.contacted = x, !.sales = s,
         !.quality = q, !.owner = o, !.dealsIn = d, !.meetingsIn = m] :
        c \in {None, 70, 97, 98}, x \in {None, 70, 99}, s \in {None, 70}, q \in {None, "highest", "low"},
        o \in {None, "o1"}, d \in {{}, {Deal(FALSE, "p1", TRUE, TRUE)}, {Deal(TRUE, "p1", FALSE, FALSE)}},
        m \in {{}, {[archived |-> FALSE, at |-> 90]}}}

SampleCompanies ==
    {[Base("companies") EXCEPT !.created = c, !.segment = s, !.country = l, !.region = g, !.companies = a] :
        c \in {None, 59, 70, 97}, s \in {None, " customer", "customer"}, l \in {None, "fr"},
        g \in {None, "de"}, a \in BOOLEAN}

SampleDeals ==
    {[Base("deals") EXCEPT !.close = k, !.closed = w # "open" /\ w # "unset",
         !.closedText = CASE w = "open" -> "false" [] w = "unset" -> None [] OTHER -> "true",
         !.won = w = "won", !.next = n, !.renewal = v, !.inactive = i, !.label = l] :
        k \in {None, 70, 97, 99, 100, 105}, w \in {"open", "unset", "lost", "won"}, n \in {None, 105},
        v \in {None, 70, 95, 105}, i \in BOOLEAN, l \in {None, "signed", "booked", "cashing"}}

SampleActivities ==
    {[Base(t) EXCEPT !.stamp = s, !.start = b, !.completed = e, !.created = c, !.done = d,
         !.outcome = o[1], !.callStatus = o[2], !.other = h, !.owner = w, !.assigned = a] :
        t \in Activities \cup {"tickets"}, s \in {None, 70, 97, 100}, b \in {None, 99}, e \in {None, 98},
        c \in {None, 70}, d \in BOOLEAN, o \in {<<None, None>>, <<None, "connected">>, <<ConnectedId, None>>, <<"connected", None>>,
               <<"completed", "connected">>, <<"no-show", None>>},
        h \in {None, "x"}, w \in {None, "o1"}, a \in {"o2"}}

SampleScopes ==
    {[Base(t) EXCEPT !.archived = x, !.owner = w, !.country = l, !.contactsOut = co, !.contactsIn = ci,
         !.dealsOut = do, !.dealsIn = di] :
        t \in Activities \cup {"contacts", "companies", "deals"}, x \in BOOLEAN, w \in {None, "o1"},
        l \in {None, "fr"},
        co \in {{}, {Contact(FALSE, "fr", "web")}, {Contact(TRUE, "fr", "web"), Contact(FALSE, None, "web")}},
        ci \in {{}, {Contact(FALSE, "fr", None)}},
        do \in {{}, {Deal(FALSE, "p1", FALSE, FALSE)}}, di \in {{}, {Deal(TRUE, "p1", FALSE, FALSE)}}}

SampleFilters ==
    {[Everything EXCEPT !.owner = o, !.country = c, !.source = s, !.pipeline = p] :
        o \in {None, "o1"}, c \in {None, "fr"}, s \in {None, "web"}, p \in {None, "p1"}}

Sample(records, periods, mappings, mapped) ==
    [record : records, filters : periods, mapping : mappings, mapped : mapped]

MCSamples ==
    Sample(SampleContacts, {Everything, OneDay}, {NoMapping, Approved("lead_quality")}, BOOLEAN)
    \cup Sample(SampleCompanies, {Everything, OneDay}, {NoMapping}, {TRUE})
    \cup Sample(SampleDeals, {Everything, OneDay}, {NoMapping, Approved("renewal_date")}, {TRUE})
    \cup Sample(SampleActivities, {Everything}, Mappings, {TRUE})
    \cup Sample(SampleScopes, SampleFilters, {NoMapping}, {TRUE})
=============================================================================

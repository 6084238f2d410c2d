--------------------------- MODULE PortalMappings ---------------------------
(***************************************************************************)
(* A workspace's connection to a HubSpot portal, the discovery of the      *)
(* portal's properties, and the mapping of one semantic field of one       *)
(* object type to one of them (server.js, hubspot.js, discovery.js,        *)
(* semantic.js, auto-mapping.js, mapping-wizard.js).                       *)
(*                                                                         *)
(* Properties are numbered in the order the portal lists them; Confidence  *)
(* is what scoreProperty gives them for the field, in hundredths.  Owners, *)
(* pipelines and the values of a mapping are left out: they are replaced   *)
(* together with the properties and the mapping.                           *)
(***************************************************************************)
EXTENDS Naturals, FiniteSets, FiniteSetsExt

CONSTANTS
    Portals,
    PropertiesOf,    \* PropertiesOf[o]: the properties of portal o
    Confidence,      \* Confidence[p]: that property p is the field
    MaxSuggestions,  \* suggestions per field and object type: 3
    Flows,           \* OAuth flows, each of which ends in at most one connection
    Discoveries,     \* discovery runs
    Savers           \* requests that save a mapping, one at a time each

VARIABLES
    connection,   \* the row of hubspot_connections
    flow,         \* flow[f]: the OAuth flow f
    discovered,   \* the properties in crm_properties
    discovery,    \* discovery[r]: where run r is
    runStatus,    \* runStatus[r]: its row in discovery_runs
    suggestion,   \* suggestion[p]: property_mapping_suggestions
    mapping,      \* property_mappings: a property, or 0
    restorable,   \* the properties in property_mapping_versions
    saver         \* saver[a]: where the request a is

portalVars == <<connection, flow, discovered, discovery, runStatus, suggestion, mapping,
                restorable, saver>>

-----------------------------------------------------------------------------
Properties == UNION {PropertiesOf[o] : o \in Portals}
Unmapped == 0

ASSUME PortalAssumption ==
    /\ Properties \subseteq Nat \ {0} /\ Confidence \in [Properties -> 0 .. 99]
    /\ MaxSuggestions \in Nat

\* tokens: the portal whose tokens are stored; aging: the access token is about
\* to expire.
Connection == [portal: Portals, tokens: Portals, status: {"connected", "error"}, aging: BOOLEAN]
NoConnection == [status |-> "none"]

DiscoveryPhases ==
    {"none", "started", "refreshed", "fetching", "fetched", "persisting", "waiting", "failing",
     "over"}

\* rows: the suggestions that the UPDATE of a save reaches.
Saver ==
    [phase: {"idle"}] \cup
    [phase: {"validated", "writing"}, to: Properties \cup {Unmapped},
     versioned: BOOLEAN, rows: SUBSET Properties]

IdleSaver == [phase |-> "idle"]

PortalTypeOK ==
    /\ connection \in Connection \cup {NoConnection}
    /\ flow \in [Flows -> {"none", "started", "consumed", "over"}]
    /\ discovered \subseteq Properties
    /\ discovery \in [Discoveries -> [phase: DiscoveryPhases, of: Portals \cup {"none"},
                                      refresh: BOOLEAN]]
    /\ runStatus \in [Discoveries -> {"none", "running", "completed", "failed"}]
    /\ suggestion \in [Properties -> {"none", "suggested", "approved", "rejected"}]
    /\ mapping \in Properties \cup {Unmapped}
    /\ restorable \subseteq Properties
    /\ saver \in [Savers -> Saver]

PortalInit ==
    /\ connection = NoConnection
    /\ flow = [f \in Flows |-> "none"]
    /\ discovered = {}
    /\ discovery = [r \in Discoveries |-> [phase |-> "none", of |-> "none", refresh |-> FALSE]]
    /\ runStatus = [r \in Discoveries |-> "none"]
    /\ suggestion = [p \in Properties |-> "none"]
    /\ mapping = Unmapped
    /\ restorable = {}
    /\ saver = [a \in Savers |-> IdleSaver]

-----------------------------------------------------------------------------
(* The connection                                                          *)

mappingVars == <<discovered, suggestion, mapping, restorable, saver>>

\* /oauth/start, the UPDATE that consumes the state once, and its expiry.
MoveFlow(f, from, to) ==
    /\ flow[f] = from
    /\ flow' = [flow EXCEPT ![f] = to]
    /\ UNCHANGED <<connection, discovery, runStatus, mappingVars>>

StartOAuth(f) == MoveFlow(f, "none", "started")
ConsumeState(f) == MoveFlow(f, "started", "consumed")
FlowEnds(f) == MoveFlow(f, "started", "over") \/ MoveFlow(f, "consumed", "over")

\* The end of the callback: the portal the user has chosen, in the same row.
SaveConnection(f, portal) ==
    /\ flow[f] = "consumed"
    /\ flow' = [flow EXCEPT ![f] = "over"]
    /\ connection' = [portal |-> portal, tokens |-> portal, status |-> "connected",
                      aging |-> FALSE]
    /\ UNCHANGED <<discovery, runStatus, mappingVars>>

TokenAges ==
    /\ connection # NoConnection /\ ~connection.aging
    /\ connection' = [connection EXCEPT !.aging = TRUE]
    /\ UNCHANGED <<flow, discovery, runStatus, mappingVars>>

-----------------------------------------------------------------------------
(* Discovery                                                               *)

Phase(r, phase) == discovery' = [discovery EXCEPT ![r].phase = phase]

\* The connection is read once, its tokens with it.
StartDiscovery(r) ==
    /\ discovery[r].phase = "none"
    /\ connection # NoConnection
    /\ discovery' = [discovery EXCEPT ![r] =
          [phase |-> IF connection.aging THEN "started" ELSE "fetching",
           of |-> connection.tokens, refresh |-> connection.aging]]
    /\ runStatus' = [runStatus EXCEPT ![r] = "running"]
    /\ UNCHANGED <<connection, flow, mappingVars>>

\* getValidAccessToken: HubSpot gives new tokens ...
RefreshToken(r) ==
    /\ discovery[r].phase = "started"
    /\ Phase(r, "refreshed")
    /\ UNCHANGED <<connection, flow, runStatus, mappingVars>>

\* ... which replace whatever the row has by now.
SaveTokens(r) ==
    /\ discovery[r].phase = "refreshed"
    /\ connection' = [connection EXCEPT !.tokens = discovery[r].of, !.status = "connected",
                                        !.aging = FALSE]
    /\ Phase(r, "fetching")
    /\ UNCHANGED <<flow, runStatus, mappingVars>>

FetchPortal(r) ==
    /\ discovery[r].phase = "fetching"
    /\ Phase(r, "fetched")
    /\ UNCHANGED <<connection, flow, runStatus, mappingVars>>

Persisting == {r \in Discoveries : discovery[r].phase = "persisting"}
Writing == {a \in Savers : saver[a].phase = "writing"}

\* persistDiscovery: its DELETE of the properties waits for another run's.
BeginPersist(r) ==
    /\ discovery[r].phase = "fetched"
    /\ Phase(r, IF Persisting = {} THEN "persisting" ELSE "waiting")
    /\ Writing = {}  \* otherwise the write is one that begins after this
    /\ UNCHANGED <<connection, flow, runStatus, mappingVars>>

Before(p, q) == Confidence[p] > Confidence[q] \/ (Confidence[p] = Confidence[q] /\ p < q)

\* buildMappingSuggestions for one field and object type.
Suggested(found) ==
    {p \in found : /\ Confidence[p] >= 22
                   /\ Cardinality({q \in found : Before(q, p)}) < MaxSuggestions}

\* selectAutoMappings for a field that has no mapping.
AutoMapping(found) ==
    LET sure == {p \in Suggested(found) : Confidence[p] >= 85}
    IN  IF sure = {} THEN Unmapped
        ELSE CHOOSE p \in sure : \A q \in sure \ {p} : Before(p, q)

\* The suggestion for p after a discovery: a rejected one revives, a stale one goes.
Rediscovered(p, found, auto) ==
    CASE auto = p -> "approved"
      [] auto # p /\ p \in Suggested(found) ->
            IF suggestion[p] = "approved" THEN "approved" ELSE "suggested"
      [] OTHER -> IF suggestion[p] = "suggested" THEN "none" ELSE suggestion[p]

\* COMMIT of persistDiscovery.  A run that waited has deleted nothing: its
\* properties collide with these.  A save that waits for this run while this run
\* would map the field is a deadlock, of which the database ends one.
CommitPersist(r) ==
    LET found == PropertiesOf[discovery[r].of]
        auto == IF mapping = Unmapped THEN AutoMapping(found) ELSE Unmapped
    IN  /\ discovery[r].phase = "persisting"
        /\ auto = Unmapped \/ Writing = {}
        /\ discovered' = found
        /\ suggestion' = [p \in Properties |-> Rediscovered(p, found, auto)]
        /\ mapping' = IF auto = Unmapped THEN mapping ELSE auto
        /\ connection' = [connection EXCEPT !.status = "connected"]
        /\ discovery' = [s \in Discoveries |->
              CASE s = r -> [discovery[s] EXCEPT !.phase = "over"]
                [] s # r /\ discovery[s].phase = "waiting" ->
                     [discovery[s] EXCEPT !.phase = "failing"]
                [] OTHER -> discovery[s]]
        /\ runStatus' = [runStatus EXCEPT ![r] = "completed"]
        /\ UNCHANGED <<flow, restorable, saver>>

\* The transaction of r, if any, is rolled back: those that waited for it go on.
Abandon(r, phase) ==
    /\ discovery' = [s \in Discoveries |->
          CASE s = r -> [discovery[s] EXCEPT !.phase = phase]
            [] s # r /\ discovery[s].phase = "waiting" /\ discovery[r].phase = "persisting" ->
                 [discovery[s] EXCEPT !.phase = "fetched"]
            [] OTHER -> discovery[s]]
    /\ saver' = [a \in Savers |->
          IF a \in Writing /\ discovery[r].phase = "persisting"
            THEN [saver[a] EXCEPT !.rows = Properties] ELSE saver[a]]
    /\ UNCHANGED <<flow, discovered, suggestion, mapping, restorable>>

\* HubSpot or the database refuses: the run has failed, and so has the connection.
DiscoveryFails(r) ==
    /\ discovery[r].phase \notin {"none", "over"}
    /\ Abandon(r, "over")
    /\ runStatus' = [runStatus EXCEPT ![r] = "failed"]
    /\ connection' = [connection EXCEPT !.status = "error"]

\* The API dies: the run is 'running' for ever.
DiscoveryDies(r) ==
    /\ discovery[r].phase \notin {"none", "over"}
    /\ Abandon(r, "over")
    /\ UNCHANGED <<runStatus, connection>>

-----------------------------------------------------------------------------
(* The mapping                                                             *)

setupVars == <<connection, flow, discovered, discovery, runStatus>>

Validate(a, to, versioned) ==
    /\ saver[a] = IdleSaver
    /\ saver' = [saver EXCEPT ![a] =
          [phase |-> "validated", to |-> to, versioned |-> versioned, rows |-> {}]]
    /\ UNCHANGED <<setupVars, suggestion, mapping, restorable>>

\* PUT of the wizard, or the approval of an administrator, which has no version.
ValidateProperty(a, p) == p \in discovered /\ \E v \in BOOLEAN : Validate(a, p, v)

\* A version that is restored must be a property of the latest discovery.
ValidateVersion(a, p) == p \in restorable \cap discovered /\ Validate(a, p, TRUE)

ValidateRemoval(a) == Validate(a, Unmapped, TRUE)

\* The row of the mapping is written, and locked: a second save waits here.  The
\* suggestions of a discovery that is being saved are not seen.
WriteMapping(a) ==
    /\ saver[a].phase = "validated"
    /\ Writing = {}
    /\ IF saver[a].to = Unmapped /\ mapping = Unmapped
         THEN saver' = [saver EXCEPT ![a] = IdleSaver]
         ELSE saver' = [saver EXCEPT ![a].phase = "writing", ![a].rows =
                IF Persisting = {} THEN Properties
                ELSE {p \in Properties : suggestion[p] \in {"approved", "rejected"}}]
    /\ UNCHANGED <<setupVars, suggestion, mapping, restorable>>

\* Faulty variant of Decided: the suggestions that lost are left alone.
DecidedOne(p, to) == CASE to = Unmapped -> "suggested"
                       [] to = p -> "approved"
                       [] OTHER -> suggestion[p]

Decided(p, to) == CASE to = Unmapped -> "suggested"
                    [] to = p -> "approved"
                    [] OTHER -> "rejected"

\* The suggestions of the field follow, once no discovery has locked them.
CommitMapping(a) ==
    /\ saver[a].phase = "writing"
    /\ Persisting = {}
    /\ mapping' = saver[a].to
    /\ suggestion' = [p \in Properties |->
          IF suggestion[p] # "none" /\ p \in saver[a].rows THEN Decided(p, saver[a].to)
                                                           ELSE suggestion[p]]
    /\ restorable' = IF saver[a].versioned THEN restorable \cup ({saver[a].to} \ {Unmapped})
                                           ELSE restorable
    /\ saver' = [saver EXCEPT ![a] = IdleSaver]
    /\ UNCHANGED setupVars

SaveFails(a) ==
    /\ saver[a] # IdleSaver
    /\ saver' = [saver EXCEPT ![a] = IdleSaver]
    /\ UNCHANGED <<setupVars, suggestion, mapping, restorable>>

PortalNext ==
    \/ \E f \in Flows : \/ StartOAuth(f) \/ ConsumeState(f) \/ FlowEnds(f)
                        \/ \E o \in Portals : SaveConnection(f, o)
    \/ TokenAges
    \/ \E r \in Discoveries :
         \/ StartDiscovery(r) \/ RefreshToken(r) \/ SaveTokens(r) \/ FetchPortal(r)
         \/ BeginPersist(r) \/ CommitPersist(r) \/ DiscoveryFails(r) \/ DiscoveryDies(r)
    \/ \E a \in Savers :
         \/ \E p \in Properties : ValidateProperty(a, p) \/ ValidateVersion(a, p)
         \/ ValidateRemoval(a) \/ WriteMapping(a) \/ CommitMapping(a) \/ SaveFails(a)

PortalSpec == PortalInit /\ [][PortalNext]_portalVars

-----------------------------------------------------------------------------
(* Properties                                                              *)

\* A suggestion that the wizard shows as approved is the mapping that reports
\* use, whatever order a discovery, a save, a removal and a rollback commit in.
ApprovedIsMapped == \A p \in Properties : suggestion[p] = "approved" => mapping = p
=============================================================================

----------------------------- MODULE ReportCache -----------------------------
(***************************************************************************)
(* The in-memory cache of the reports of one API process                   *)
(* (apps/api/src/report-cache.js, used by scoped-revenue-reporting.js) and *)
(* its invalidation over Redis: the worker publishes after every           *)
(* synchronization (apps/worker/src/report-cache-events.js), the process   *)
(* subscribes (apps/api/src/report-cache-invalidation.js).                 *)
(*                                                                         *)
(* A report is the version of its workspace's data it was computed from.   *)
(* execute() runs without interruption up to its first await, a load reads *)
(* the database some time after it began, and settles later still.  An     *)
(* invalidation may be lost: Redis keeps no message for a subscriber that  *)
(* is not connected.                                                       *)
(*                                                                         *)
(* Bounds: MaxTime on the clock; a load takes at most LoadTime and the     *)
(* data change at most MaxChanges times.                                   *)
(***************************************************************************)
EXTENDS Naturals, Sequences, FiniteSets

CONSTANTS
    Readers,       \* requests for reports, numbered as they arrive
    NoReader,
    Keys,          \* reportCacheKey of each report and query
    WorkspaceOf,   \* the workspace in each key
    Capacity,      \* maxEntries
    Ttl,           \* ttlMs
    LoadTime, MaxTime, MaxChanges

ASSUME CacheAssumption ==
    /\ NoReader \notin Readers /\ IsFiniteSet(Keys)
    /\ Capacity \in Nat \ {0} /\ Ttl \in Nat \ {0}  \* positiveInteger
    /\ {LoadTime, MaxTime, MaxChanges} \subseteq Nat

VARIABLES
    time,      \* now()
    data,      \* the version of each workspace's data, and when each began
    resolved,  \* resolved[k]: the entry of the Map of finished reports, or NoEntry
    inflight,  \* the Map of running loads: the reader whose load it is, or NoReader
    reader,    \* each request and the load it runs
    notices,   \* published invalidations that have not arrived
    cleared    \* the version at each workspace's latest invalidation that arrived

cacheVars == <<time, data, resolved, inflight, reader, notices, cleared>>

Workspaces == {WorkspaceOf[k] : k \in Keys}

\* stage "loading" until the load has read the database, "read" until it settles,
\* "coalesced" while the request awaits the load of another one.
NewRequest == [stage |-> "new"]

\* An entry and its seat in the Map's order of insertion, counted from 1; the loads
\* that ran when an invalidation arrived have been overtaken by it.
Entry == [value: Nat, expiresAt: Nat, overtaken: BOOLEAN, seat: Nat \ {0}]
NoEntry == [seat |-> 0]

Held(entries) == {k \in Keys : entries[k].seat # 0}

Loading == {r \in Readers : reader[r].stage \in {"loading", "read"}}
Latest(w) == Len(data[w])

CacheTypeOK ==
    /\ resolved \in [Keys -> Entry \cup {NoEntry}]
    /\ Cardinality(Held(resolved)) <= Capacity
    /\ \A k, j \in Held(resolved) : resolved[k].seat = resolved[j].seat => k = j
    /\ \A k \in Held(resolved) : resolved[k].value <= Latest(WorkspaceOf[k])
    /\ inflight \in [Keys -> Readers \cup {NoReader}]
    /\ notices \subseteq Workspaces

CacheInit ==
    /\ time = 0
    /\ data = [w \in Workspaces |-> <<0>>]
    /\ resolved = [k \in Keys |-> NoEntry]
    /\ inflight = [k \in Keys |-> NoReader]
    /\ reader = [r \in Readers |-> NewRequest]
    /\ notices = {}
    /\ cleared = [w \in Workspaces |-> 1]

-----------------------------------------------------------------------------
(* The data and the invalidation. *)

\* runWithReportInvalidation publishes whether the synchronization succeeds or
\* fails: a failed one may have stored pages.
DataChange(w) ==
    /\ Latest(w) <= MaxChanges
    /\ data' = [data EXCEPT ![w] = Append(@, time)]
    /\ notices' = notices \cup {w}
    /\ UNCHANGED <<time, resolved, inflight, reader, cleared>>

\* The Map without all keys but these.
Kept(entries, keys) ==
    [k \in Keys |->
        IF k \in keys
        THEN [entries[k] EXCEPT !.seat = Cardinality({j \in keys : entries[j].seat <= entries[k].seat})]
        ELSE NoEntry]

\* Faulty variant of ClearWorkspace: finished reports are left to expire.
ClearNothing(entries, w) == entries

\* clearWorkspace drops the finished reports of the workspace; the loads that
\* are running stay, and have begun before the invalidation.
ClearWorkspace(entries, w) == Kept(entries, {k \in Held(entries) : WorkspaceOf[k] # w})

InvalidationArrives(w) ==
    /\ w \in notices
    /\ notices' = notices \ {w}
    /\ resolved' = ClearWorkspace(resolved, w)
    /\ cleared' = [cleared EXCEPT ![w] = Latest(w)]
    /\ reader' = [r \in Readers |->
                    IF r \in Loading /\ WorkspaceOf[reader[r].key] = w
                    THEN [reader[r] EXCEPT !.overtaken = TRUE] ELSE reader[r]]
    /\ UNCHANGED <<time, data, inflight>>

InvalidationIsLost(w) ==
    /\ w \in notices
    /\ notices' = notices \ {w}
    /\ UNCHANGED <<time, data, resolved, inflight, reader, cleared>>

TimeAdvances ==
    /\ time < MaxTime
    /\ \A r \in Loading : time < reader[r].began + LoadTime
    /\ time' = time + 1
    /\ UNCHANGED <<data, resolved, inflight, reader, notices, cleared>>

-----------------------------------------------------------------------------
(* execute() *)

Fresh(e) == e.expiresAt > time
DeleteExpired(entries) == Kept(entries, {k \in Held(entries) : Fresh(entries[k])})
AtTheEnd(entries, k, e) ==
    [Kept(entries, Held(entries) \ {k}) EXCEPT ![k] =
        [e EXCEPT !.seat = Cardinality(Held(entries) \ {k}) + 1]]

\* Faulty variant of Touch: a hit renews the entry.
TouchRenewed(entries, k) == AtTheEnd(entries, k, [entries[k] EXCEPT !.expiresAt = time + Ttl])

\* A hit moves to the end of the Map and keeps its expiry.
Touch(entries, k) == AtTheEnd(entries, k, entries[k])

Newer(entries, k) == {j \in Held(entries) : entries[j].seat > entries[k].seat}

\* Faulty variant of EnforceCapacity: the capacity is enforced one entry late.
EnforceCapacityLate(entries) ==
    Kept(entries, {k \in Held(entries) : Cardinality(Newer(entries, k)) <= Capacity})

EnforceCapacity(entries) ==
    Kept(entries, {k \in Held(entries) : Cardinality(Newer(entries, k)) < Capacity})

\* The version of w's data that was current at time t.
CurrentAt(w, t) == Cardinality({i \in DOMAIN data[w] : data[w][i] <= t})

\* An answer, and the version that was current the TTL and one load before the request.
Answer(k, asked, value) ==
    [stage |-> "answered", value |-> value,
     earlier |-> IF asked >= Ttl + LoadTime
                 THEN CurrentAt(WorkspaceOf[k], asked - Ttl - LoadTime) ELSE 0]

Request(r, k, refresh) ==
    /\ reader[r].stage = "new"
    /\ \A q \in Readers : q < r => reader[q].stage # "new"
    /\ LET entries == DeleteExpired(resolved)
           hit == k \in Held(entries)
       IN  \/ /\ ~refresh /\ hit
              /\ resolved' = Touch(entries, k)
              /\ reader' = [reader EXCEPT ![r] = Answer(k, time, entries[k].value)]
              /\ UNCHANGED inflight
           \/ /\ ~refresh /\ ~hit /\ inflight[k] # NoReader
              /\ resolved' = entries
              /\ reader' = [reader EXCEPT ![r] =
                              [stage |-> "coalesced", key |-> k, asked |-> time, load |-> inflight[k]]]
              /\ UNCHANGED inflight
           \/ /\ refresh \/ (~hit /\ inflight[k] = NoReader)
              /\ resolved' = entries
              /\ inflight' = [inflight EXCEPT ![k] = r]
              /\ reader' = [reader EXCEPT ![r] =
                              [stage |-> "loading", key |-> k, asked |-> time, began |-> time,
                               value |-> 0, overtaken |-> FALSE]]
    /\ UNCHANGED <<time, data, notices, cleared>>

LoaderReads(r) ==
    /\ reader[r].stage = "loading"
    /\ reader' = [reader EXCEPT ![r].stage = "read", ![r].value = Latest(WorkspaceOf[reader[r].key])]
    /\ UNCHANGED <<time, data, resolved, inflight, notices, cleared>>

\* finally: only the load that is registered under its key is removed.
Settled(r) == [k \in Keys |-> IF inflight[k] = r THEN NoReader ELSE inflight[k]]

\* The answer of r and of the requests that await its load.
Answered(r, value) ==
    [q \in Readers |->
        IF q = r \/ (reader[q].stage = "coalesced" /\ reader[q].load = r)
        THEN Answer(reader[q].key, reader[q].asked, value)
        ELSE reader[q]]

LoadSucceeds(r) ==
    /\ reader[r].stage = "read"
    /\ LET k == reader[r].key
           entry == [value |-> reader[r].value, expiresAt |-> time + Ttl,
                     overtaken |-> reader[r].overtaken,
                     seat |-> IF k \in Held(resolved) THEN resolved[k].seat
                              ELSE Cardinality(Held(resolved)) + 1]
       IN  resolved' = EnforceCapacity([resolved EXCEPT ![k] = entry])
    /\ inflight' = Settled(r)
    /\ reader' = Answered(r, reader[r].value)
    /\ UNCHANGED <<time, data, notices, cleared>>

\* A loader that throws is remembered by nothing; value 0 is the error.
LoadFails(r) ==
    /\ reader[r].stage \in {"loading", "read"}
    /\ inflight' = Settled(r)
    /\ reader' = Answered(r, 0)
    /\ UNCHANGED <<time, data, resolved, notices, cleared>>

CacheNext ==
    \/ TimeAdvances
    \/ \E w \in Workspaces : DataChange(w) \/ InvalidationArrives(w) \/ InvalidationIsLost(w)
    \/ \E r \in Readers :
          \/ \E k \in Keys, refresh \in BOOLEAN : Request(r, k, refresh)
          \/ LoaderReads(r) \/ LoadSucceeds(r) \/ LoadFails(r)

CacheSpec == CacheInit /\ [][CacheNext]_cacheVars

-----------------------------------------------------------------------------
(* What the cache promises. *)

\* However hits, refreshes, coalesced requests, lost invalidations and late loads
\* interleave, an answer is never older than the TTL and one load before the
\* request: data that changed earlier are in it.
StalenessIsBounded ==
    \A r \in Readers :
        reader[r].stage = "answered" /\ reader[r].value # 0 =>
            reader[r].value >= reader[r].earlier

\* Once an invalidation has arrived, the cache holds no report of the workspace
\* from before it, except what a load stored that was running when it arrived.
InvalidationSticks ==
    \A k \in Held(resolved) :
        resolved[k].overtaken \/ resolved[k].value >= cleared[WorkspaceOf[k]]
=============================================================================

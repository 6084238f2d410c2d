------------------------------- MODULE MCSync -------------------------------
(***************************************************************************)
(* Synchronization and the report cache for TLC, each explored in an area  *)
(* of its own: the cache sees a synchronization only as a change of the    *)
(* data that is followed by an invalidation (DataChange).                  *)
(***************************************************************************)
EXTENDS WorkspaceSync, ReportCache

VARIABLE part   \* the component that is explored

syncPartVars == <<syncVars, cacheVars, part>>

-----------------------------------------------------------------------------
\* Two contacts, and an object type the portal has no records of.
TwoTypes == <<"contacts", "tasks">>
Contacts == [r \in Records |-> "contacts"]

OneWorkspace == [k \in Keys |-> "w"]

-----------------------------------------------------------------------------
\* A pass reads only once whether it is due for a full one: that it falls due
\* between two runs stands for all moments.
DueBetweenRuns == run # NoRun => \A t \in Types : cursor'[t].fullDue => cursor[t].fullDue

SyncPartsInit == SyncInit /\ CacheInit /\ part \in {"sync", "cache"}

SyncPartsNext ==
    /\ UNCHANGED part
    /\ \/ part = "sync" /\ SyncNext /\ DueBetweenRuns /\ UNCHANGED cacheVars
       \/ part = "cache" /\ CacheNext /\ UNCHANGED syncVars

SyncPartsSpec == SyncPartsInit /\ [][SyncPartsNext]_syncPartVars /\ SyncFairness

SyncPartsTypeOK == SyncTypeOK /\ CacheTypeOK
=============================================================================

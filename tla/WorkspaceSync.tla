---------------------------- MODULE WorkspaceSync ----------------------------
(***************************************************************************)
(* The synchronization of one workspace with its HubSpot portal            *)
(* (apps/worker/src/sync.js), the scheduler and the queue that start it    *)
(* (apps/worker/src/worker.js) and the endpoint that asks for it           *)
(* (apps/api/src/sync-operations-base.js).                                 *)
(*                                                                         *)
(* A record is the stamp of its last modification.  A full pass lists the  *)
(* records of an object type by id, an incremental pass searches those     *)
(* modified since the cursor, ordered by modification, and asks for its    *)
(* pages by their offset: a record that is modified between two pages      *)
(* moves to the end of the result and every record after it moves up.      *)
(*                                                                         *)
(* Times are ages: a cursor is due, or due for a full pass, once enough    *)
(* time has passed.  Bounds: MaxStamp on the stamps, MaxDisturbances on    *)
(* deletions, failed requests, crashes and manual requests together.       *)
(***************************************************************************)
EXTENDS Integers, Sequences, FiniteSets, FiniteSetsExt

CONSTANTS
    Records,       \* the ids of the records of the portal, numbers
    ObjectTypes,   \* config.hubspot.objectTypes, in order
    TypeOf,        \* the object type of each record
    PageSize,      \* config.hubspot.pageSize
    MaxPagesPerRun,   \* config.sync.maxPagesPerRun: pages of a full pass
    MaxSearchPages,   \* pages of an incremental pass, 100 in the code
    Overlap,       \* the five minutes an incremental pass goes back
    SyncAttempts,  \* attempts of a job of the queue
    MaxStamp, MaxDisturbances

ASSUME SyncAssumption ==
    /\ Records \subseteq Nat \ {0} /\ IsFiniteSet(Records)
    /\ ObjectTypes \in Seq(STRING)
    /\ {PageSize, SyncAttempts, MaxStamp} \subseteq Nat \ {0}
    /\ {MaxPagesPerRun, MaxSearchPages} \subseteq Nat \ {0}
    /\ {Overlap, MaxDisturbances} \subseteq Nat

VARIABLES
    portal,      \* HubSpot's stamp of each record, 0 of one it does not have
    stamp,       \* the latest stamp
    mirror,      \* crm_records.hubspot_updated_at, 0 of a record without a row
    cursor,      \* sync_cursors of each object type
    due,         \* the newest last_success_at is older than the interval
    jobs,        \* attempts left of the waiting job of each name, 0 without one
    run,         \* the run of the worker
    abandoned,   \* rows of sync_runs left 'running' by a dead process
    answer,      \* the answer to the latest POST .../sync
    disturbed    \* deletions, failures, crashes and manual requests so far

syncVars == <<portal, stamp, mirror, cursor, due, jobs, run, abandoned, answer, disturbed>>

Names == {"initial-sync", "full-sync", "incremental-sync"}
Types == {ObjectTypes[i] : i \in 1..Len(ObjectTypes)}
NoRun == [name |-> "none"]
NoPage == [r \in {} |-> 0]
NoCursor == [modified |-> 0, synced |-> FALSE, fullDue |-> TRUE]

Live(t) == {r \in Records : TypeOf[r] = t /\ portal[r] # 0}

SyncTypeOK ==
    /\ portal \in [Records -> 0..MaxStamp]
    /\ mirror \in [Records -> 0..MaxStamp]
    /\ cursor \in [Types -> [modified : 0..MaxStamp, synced : BOOLEAN, fullDue : BOOLEAN]]
    /\ jobs \in [Names -> 0..SyncAttempts]
    /\ run # NoRun => /\ jobs[run.name] > 0
                      /\ run.at \in 1..(Len(ObjectTypes) + 1)
                      /\ run.stage \in {"start", "read", "fetched", "done"}
    /\ \A r \in Records : mirror[r] <= stamp

SyncInit ==
    /\ portal = [r \in Records |-> 1] /\ stamp = 1
    /\ mirror = [r \in Records |-> 0]
    /\ cursor = [t \in Types |-> NoCursor]
    /\ due = TRUE
    /\ jobs = [n \in Names |-> 0]
    /\ run = NoRun /\ abandoned = 0 /\ answer = "none"
    /\ disturbed = 0

-----------------------------------------------------------------------------
(* The portal and time. *)

Disturb == disturbed < MaxDisturbances /\ disturbed' = disturbed + 1

\* A user of HubSpot modifies or creates a record, some time after the last change.
EditRecord(r) ==
    /\ \E gap \in 1..(Overlap + 1) :
          /\ stamp + gap <= MaxStamp
          /\ stamp' = stamp + gap
          /\ portal' = [portal EXCEPT ![r] = stamp + gap]
    /\ UNCHANGED <<mirror, cursor, due, jobs, run, abandoned, answer, disturbed>>

DeleteRecord(r) ==
    /\ portal[r] # 0
    /\ portal' = [portal EXCEPT ![r] = 0]
    /\ Disturb
    /\ UNCHANGED <<stamp, mirror, cursor, due, jobs, run, abandoned, answer>>

IntervalPasses ==
    /\ ~due
    /\ due' = TRUE
    /\ UNCHANGED <<portal, stamp, mirror, cursor, jobs, run, abandoned, answer, disturbed>>

ReconciliationFallsDue(t) ==
    /\ ~cursor[t].fullDue
    /\ cursor' = [cursor EXCEPT ![t].fullDue = TRUE]
    /\ UNCHANGED <<portal, stamp, mirror, due, jobs, run, abandoned, answer, disturbed>>

-----------------------------------------------------------------------------
(* The queue: an add with the id of a waiting job changes nothing. *)

Waiting(name) == IF jobs[name] = 0 THEN [jobs EXCEPT ![name] = SyncAttempts] ELSE jobs

\* workspacesDueForSync and scheduleDueWorkspaces.
ScheduleDueWorkspace ==
    /\ due
    /\ LET name == IF \E t \in Types : cursor[t].synced
                   THEN "incremental-sync" ELSE "initial-sync"
       IN  jobs[name] = 0 /\ jobs' = Waiting(name)
    /\ UNCHANGED <<portal, stamp, mirror, cursor, due, run, abandoned, answer, disturbed>>

\* A row of sync_runs with status 'running'.
RunningRow == run # NoRun \/ abandoned > 0

\* POST .../sync
PostSync(name) ==
    /\ Disturb
    /\ IF RunningRow
       THEN answer' = "sync_already_running" /\ UNCHANGED jobs
       ELSE answer' = "queued" /\ jobs' = Waiting(name)
    /\ UNCHANGED <<portal, stamp, mirror, cursor, due, run, abandoned>>

-----------------------------------------------------------------------------
(* A run. *)

CurrentType == ObjectTypes[run.at]

\* The worker takes a job and inserts the row of its run.
StartRun(name) ==
    /\ run = NoRun /\ jobs[name] > 0
    /\ run' = [name |-> name, at |-> 1, stage |-> "start", failed |-> FALSE]
    /\ UNCHANGED <<portal, stamp, mirror, cursor, due, jobs, abandoned, answer, disturbed>>

\* Faulty variant of ShouldFullSync: reconciliation is left to the incremental passes.
FullSyncOnce(t) == run.name # "incremental-sync" \/ ~cursor[t].synced

ShouldFullSync(t) ==
    run.name # "incremental-sync" \/ ~cursor[t].synced \/ cursor[t].fullDue

\* The cursor of the next type decides between a full and an incremental pass;
\* "before" is the portal at that moment.  Without a last_modified_at the code
\* goes back 24 hours and before any stamp a pass goes back to 0, which in both
\* cases finds every record.
BeginType ==
    /\ run # NoRun /\ run.stage = "start" /\ run.at <= Len(ObjectTypes)
    /\ LET t == CurrentType
           since == Max({0, cursor[t].modified - Overlap})
       IN  run' = [name |-> run.name, at |-> run.at, failed |-> run.failed, stage |-> "read",
                   full |-> ShouldFullSync(t),
                   since |-> since,
                   newest |-> IF ShouldFullSync(t) THEN 0 ELSE since,
                   after |-> 0, pages |-> 0, more |-> TRUE, page |-> NoPage, before |-> IF ShouldFullSync(t) THEN portal ELSE <<>>]
    /\ UNCHANGED <<portal, stamp, mirror, cursor, due, jobs, abandoned, answer, disturbed>>

\* A listing is ordered by id, a search by modification, then by id.
Earlier(a, b) ==
    IF run.full THEN a < b
    ELSE portal[a] < portal[b] \/ (portal[a] = portal[b] /\ a < b)

\* The place of a record among others, counted from 0, and the first page of them.
Place(r, records) == Cardinality({q \in records : Earlier(q, r)})
FirstOf(records) == {r \in records : Place(r, records) < PageSize}

\* The result of a search.
Found == {r \in Live(CurrentType) : portal[r] >= run.since}

\* Faulty variant of Listed: the pages of a listing are asked for by offset.
ListedByOffset == {r \in Live(CurrentType) : Place(r, Live(CurrentType)) >= run.after}

\* The rest of a listing: the records after the last id of the page before.
Listed == {r \in Live(CurrentType) : r > run.after}

FetchPage ==
    /\ run # NoRun /\ run.stage = "read" /\ run.more
    /\ LET rest == IF run.full THEN Listed ELSE {r \in Found : Place(r, Found) >= run.after}
           ids == FirstOf(rest)
       IN  run' = [run EXCEPT
                     !.stage = "fetched",
                     !.page = [r \in ids |-> portal[r]],
                     !.more = Cardinality(rest) > PageSize,
                     !.after = IF ids = {} THEN @ ELSE IF run.full THEN Max(ids) ELSE @ + Cardinality(ids)]
    /\ UNCHANGED <<portal, stamp, mirror, cursor, due, jobs, abandoned, answer, disturbed>>

NextType == [name |-> run.name, at |-> run.at + 1, stage |-> "start", failed |-> run.failed]

\* The pages after which a pass gives up if there are more.
PageLimit == IF run.full THEN MaxPagesPerRun ELSE MaxSearchPages

\* The page is stored in one transaction, whatever the mirror holds.  A pass that
\* has more pages than its limit throws with the pages it has stored: the type
\* has failed, and its cursor stays.
PersistPage ==
    /\ run # NoRun /\ run.stage = "fetched"
    /\ mirror' = [r \in Records |-> IF r \in DOMAIN run.page THEN run.page[r] ELSE mirror[r]]
    /\ run' = IF run.more /\ run.pages + 1 >= PageLimit
              THEN [NextType EXCEPT !.failed = TRUE]
              ELSE [run EXCEPT
                      !.stage = IF run.more THEN "read" ELSE "done",
                      !.pages = @ + 1,
                      !.newest = Max({@} \cup {run.page[r] : r \in DOMAIN run.page}),
                      !.page = NoPage]
    /\ UNCHANGED <<portal, stamp, cursor, due, jobs, abandoned, answer, disturbed>>

\* updateCursor: a pass that saw no modification keeps the old last_modified_at.
UpdateCursor ==
    /\ run # NoRun /\ run.stage = "done"
    /\ cursor' = [cursor EXCEPT ![CurrentType] =
                    [modified |-> IF run.newest = 0 THEN @.modified ELSE run.newest,
                     synced |-> TRUE,
                     fullDue |-> IF run.full THEN FALSE ELSE @.fullDue]]
    /\ due' = FALSE
    /\ run' = NextType
    /\ UNCHANGED <<portal, stamp, mirror, jobs, abandoned, answer, disturbed>>

\* A request fails after its retries, or the portal refuses the scope: the type
\* is left where it is.  Only a failure makes the run partial.
TypeFails ==
    /\ run # NoRun /\ run.stage = "read"
    /\ Disturb
    /\ \E skipped \in BOOLEAN :
          run' = [NextType EXCEPT !.failed = run.failed \/ ~skipped]
    /\ UNCHANGED <<portal, stamp, mirror, cursor, due, jobs, abandoned, answer>>

\* A partial run throws: the job is tried again while it has attempts.
EndRun ==
    /\ run # NoRun /\ run.at > Len(ObjectTypes)
    /\ run' = NoRun
    /\ jobs' = [jobs EXCEPT ![run.name] = IF run.failed THEN @ - 1 ELSE 0]
    /\ UNCHANGED <<portal, stamp, mirror, cursor, due, abandoned, answer, disturbed>>

\* The process dies: its row stays 'running', its job is found stalled and is
\* taken again (two crashes are within maxStalledCount).
WorkerDies ==
    /\ run # NoRun
    /\ Disturb
    /\ run' = NoRun
    /\ abandoned' = abandoned + 1
    /\ UNCHANGED <<portal, stamp, mirror, cursor, due, jobs, answer>>

RunStep == BeginType \/ FetchPage \/ PersistPage \/ UpdateCursor \/ EndRun

SyncNext ==
    \/ \E r \in Records : EditRecord(r) \/ DeleteRecord(r)
    \/ IntervalPasses
    \/ \E t \in Types : ReconciliationFallsDue(t)
    \/ ScheduleDueWorkspace
    \/ \E n \in Names : PostSync(n) \/ StartRun(n)
    \/ RunStep \/ TypeFails \/ WorkerDies

SyncSpec == SyncInit /\ [][SyncNext]_syncVars

\* Time passes, the scheduler runs every five minutes, a run goes on, and the
\* queue hands out its jobs in order, so that no waiting job is passed over for ever.
SyncFairness ==
    /\ WF_syncVars(IntervalPasses)
    /\ \A t \in Types : WF_syncVars(ReconciliationFallsDue(t))
    /\ WF_syncVars(ScheduleDueWorkspace)
    /\ \A n \in Names : SF_syncVars(StartRun(n))
    /\ WF_syncVars(RunStep)

FairSyncSpec == SyncSpec /\ SyncFairness

-----------------------------------------------------------------------------
(* What synchronization promises. *)

\* When a full pass has stored its last page, every record of the type that has
\* been in the portal unchanged since the pass began is stored as it is there:
\* listing by id loses no record, whatever is edited or deleted meanwhile.
FullPassIsComplete ==
    run # NoRun /\ run.stage = "done" /\ run.full =>
        \A r \in Live(CurrentType) :
            portal[r] = run.before[r] => mirror[r] = portal[r]

\* The records of a type that the pages of one full pass can hold.
WithinLimit(t) ==
    {r \in Live(t) : Cardinality({q \in Live(t) : q < r}) < MaxPagesPerRun * PageSize}

\* Once the portal stops changing, the mirror becomes and stays equal to it as far
\* as a full pass reaches: a record an incremental pass lost between two pages, a
\* failed type or a crash is repaired by a later pass ("Full reconciliation ...
\* repairs missed webhook/search events", docs/CRM_SYNC.md).  That every pass of
\* a type throws because the portal has more pages than the limit keeps nothing
\* else from catching up; the records behind the limit have no such promise.
MirrorCatchesUp ==
    <>[](\A t \in Types : \A r \in WithinLimit(t) : mirror[r] = portal[r])
=============================================================================

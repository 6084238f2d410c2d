--------------------------- MODULE WebhookJournal ---------------------------
(***************************************************************************)
(* HubSpot webhooks of one workspace: the requests that journal them, the  *)
(* queue job that announces them, the worker that claims them and brings   *)
(* the mirror of the CRM up to date, and the recovery CLI.                 *)
(*                                                                         *)
(* An event is the number of the change of the portal it reports: HubSpot  *)
(* delivers it at least once, in any order, and event_key makes the        *)
(* deliveries of one change one row.  Every query of these components is   *)
(* keyed by workspace.  A mirrored record is the number of the change whose *)
(* properties it shows and whether it is shown: an archived record and one *)
(* that has no row look the same to every report.                          *)
(***************************************************************************)
EXTENDS Naturals, Sequences, FiniteSets, FiniteSetsExt

CONSTANTS
    Records,      \* CRM records of the portal
    Requests,     \* concurrent POSTs of HubSpot to the webhook route
    Workers,      \* worker processes, each with concurrency 1
    ClaimLimit,   \* the limit of claimWebhookEvents, 500 in the code
    MaxAttempts,  \* attempts of a queue job, 4 in the code
    Actions,      \* the actions of events that are considered
    MaxChanges,   \* bound of the model: changes of the portal
    MaxBuckets,   \* bound of the model: 30-second windows
    MaxRecoveries, \* bound of the model: uses of the recovery CLI
    MaxFaults     \* bound of the model: failed statements and deaths

ASSUME ActionsAssumption == Actions \subseteq {"changed", "deleted", "association_changed"}
ASSUME ClaimLimitAssumption == ClaimLimit \in Nat \ {0}
ASSUME MaxAttemptsAssumption == MaxAttempts \in Nat \ {0}
ASSUME MaxChangesAssumption == MaxChanges \in Nat
ASSUME MaxBucketsAssumption == MaxBuckets \in Nat \ {0}
ASSUME MaxRecoveriesAssumption == MaxRecoveries \in Nat
\* A job may stall twice (maxStalledCount) before BullMQ gives it up.
ASSUME MaxFaultsAssumption == MaxFaults \in 0 .. 2

VARIABLES
    changes,       \* the changes of the portal so far
    journal,       \* journal[k]: status of the event of change k
    mirror,        \* mirror[r]: the row of crm_records
    request,       \* request[q]: where a call of queueWebhookSyncs is
    bucket,        \* the 30-second window in which the last job was added
    jobs,          \* jobs[j]: the queue job with that id
    worker,        \* worker[w]: where a call of syncWebhookEvents is
    selection,     \* the events the recovery CLI has selected for a retry
    stranded,      \* history: events whose run died before it settled them
    recoveries,    \* history: the uses of the CLI so far
    faults         \* history: the faults so far

intakeVars == <<request, bucket>>
recoveryVars == <<selection, recoveries>>
runVars == <<jobs, worker, stranded>>
vars == <<changes, journal, mirror, intakeVars, runVars, recoveryVars, faults>>

-----------------------------------------------------------------------------
Event == 1 .. MaxChanges

Status == {"absent", "received", "queued", "processing", "completed",
           "ignored", "failed"}

\* webhook-<name>-<workspace>-<bucket>.
Job == {"incremental", "full"} \X (1 .. MaxBuckets)

NoJob == <<"none", 0>>

Change == [record: Records, action: Actions]

RecordOf(k) == changes[k].record

Deletions == {k \in DOMAIN changes : changes[k].action = "deleted"}

EventsOf(r) == {k \in DOMAIN changes : RecordOf(k) = r}

\* The change of r that GET /crm/v3/objects shows now; 0 before there is one.
LiveVersion(r) == Max(EventsOf(r) \cup {0})

Exists(r) == LiveVersion(r) \notin Deletions

NewRequest(phase, batch, connected) ==
    [phase |-> phase, batch |-> batch, todo |-> batch, archiving |-> 0,
     connected |-> connected, mode |-> "none"]

IdleRequest == NewRequest("idle", {}, FALSE)

\* What a fetch has returned: nothing yet, 404, or the record at a version.
Answer == [record: Records, found: BOOLEAN, version: 0 .. MaxChanges]

IdleWorker == [phase |-> "idle", job |-> NoJob, events |-> {}, todo |-> {},
               answer |-> {}, failed |-> {}]

Row == [version: 0 .. MaxChanges, shown: BOOLEAN]

RequestState ==
    [phase: {"idle", "journaling", "marking"}, batch: SUBSET Event,
     todo: SUBSET Event, archiving: 0 .. MaxChanges, connected: BOOLEAN,
     mode: {"none", "incremental", "full"}]

JobState == [status: {"none", "waiting", "active", "done", "failed"},
             attempts: 0 .. MaxAttempts - 1]

WorkerState ==
    [phase: {"idle", "taken", "claimed", "running", "completed", "settled"},
     job: Job \cup {NoJob}, events: SUBSET Event, todo: SUBSET Records,
     answer: SUBSET Answer, failed: SUBSET Records]

TypeOK ==
    /\ changes \in Seq(Change)
    /\ Len(changes) <= MaxChanges
    /\ journal \in [Event -> Status]
    /\ mirror \in [Records -> Row]
    /\ request \in [Requests -> RequestState]
    /\ bucket \in 1 .. MaxBuckets
    /\ jobs \in [Job -> JobState]
    /\ worker \in [Workers -> WorkerState]
    /\ selection \in SUBSET Event
    /\ stranded \in SUBSET Event
    /\ recoveries \in 0 .. MaxRecoveries
    /\ faults \in 0 .. MaxFaults

\* The workspace has been synchronized: every record is mirrored as it is.
Init ==
    /\ changes = <<>>
    /\ journal = [k \in Event |-> "absent"]
    /\ mirror = [r \in Records |-> [version |-> 0, shown |-> TRUE]]
    /\ request = [q \in Requests |-> IdleRequest]
    /\ bucket = 1
    /\ jobs = [j \in Job |-> [status |-> "none", attempts |-> 0]]
    /\ worker = [w \in Workers |-> IdleWorker]
    /\ selection = {}
    /\ stranded = {}
    /\ recoveries = 0
    /\ faults = 0

SetStatus(events, status) ==
    journal' = [k \in Event |-> IF k \in events THEN status ELSE journal[k]]

Fault == faults < MaxFaults /\ faults' = faults + 1

-----------------------------------------------------------------------------
(* The portal                                                              *)

\* A record is changed (also: created again, restored), deleted or associated.
PortalChanges(r, action) ==
    /\ Len(changes) < MaxChanges
    /\ action # "changed" => Exists(r)
    /\ changes' = Append(changes, [record |-> r, action |-> action])
    /\ UNCHANGED <<journal, mirror, intakeVars, runVars, recoveryVars, faults>>

-----------------------------------------------------------------------------
(* queueWebhookSyncs: every statement commits by itself                    *)

\* The connections of the portals are looked up once for the batch.
ReceiveBatch(q, batch, connected) ==
    /\ request[q].phase = "idle"
    /\ request' = [request EXCEPT ![q] = NewRequest("journaling", batch, connected)]
    /\ UNCHANGED <<changes, journal, mirror, bucket, runVars, recoveryVars, faults>>

\* Faulty variant of ModeWith: the action is taken for the mode.
ActionAsMode(mode, k) == IF mode = "full" THEN mode ELSE changes[k].action

\* requestedModeByWorkspace: one association change asks for the full mode.
ModeWith(mode, k) ==
    IF changes[k].action = "association_changed" THEN "full"
    ELSE IF mode = "none" THEN "incremental" ELSE mode

\* INSERT ... ON CONFLICT DO NOTHING: a duplicate is skipped, an event without a
\* connected workspace is ignored, a deletion is applied next.
JournalEvent(q, k) ==
    LET isNew == journal[k] = "absent"
        accepts == isNew /\ request[q].connected
    IN
    /\ request[q].phase = "journaling" /\ request[q].archiving = 0
    /\ k \in request[q].todo
    /\ IF isNew THEN SetStatus({k}, IF request[q].connected THEN "received" ELSE "ignored")
                ELSE UNCHANGED journal
    /\ request' = [request EXCEPT
         ![q].todo = @ \ {k},
         ![q].mode = IF accepts THEN ModeWith(@, k) ELSE @,
         ![q].archiving = IF accepts /\ k \in Deletions THEN k ELSE 0]
    /\ UNCHANGED <<changes, mirror, bucket, runVars, recoveryVars, faults>>

\* UPDATE crm_records SET archived = TRUE.
Hidden(r) == [mirror EXCEPT ![r].shown = FALSE]

ArchiveOnArrival(q) ==
    LET k == request[q].archiving IN
    /\ k # 0
    /\ mirror' = Hidden(RecordOf(k))
    /\ request' = [request EXCEPT ![q].archiving = 0]
    /\ UNCHANGED <<changes, journal, bucket, runVars, recoveryVars, faults>>

Journaled(q) == request[q].phase = "journaling" /\ request[q].archiving = 0
                /\ request[q].todo = {}

\* queue.add does nothing when a job with that id is still known, also one that
\* has finished.
AddJob(q, now) ==
    LET j == <<request[q].mode, now>> IN
    /\ bucket <= now /\ bucket' = now
    /\ Journaled(q) /\ request[q].mode # "none"
    /\ jobs' = IF jobs[j].status = "none"
                 THEN [jobs EXCEPT ![j].status = "waiting"] ELSE jobs
    /\ request' = [request EXCEPT ![q].phase = "marking"]
    /\ UNCHANGED <<changes, journal, mirror, worker, stranded, recoveryVars, faults>>

Respond(q) == request' = [request EXCEPT ![q] = IdleRequest]

\* Every received event of the workspace is marked, not only this batch.
MarkQueued(q) ==
    /\ request[q].phase = "marking"
    /\ SetStatus({k \in Event : journal[k] = "received"}, "queued")
    /\ Respond(q)
    /\ UNCHANGED <<changes, mirror, bucket, runVars, recoveryVars, faults>>

\* Nothing of the batch was new: no job is added.
NothingToQueue(q) ==
    /\ Journaled(q) /\ request[q].mode = "none"
    /\ Respond(q)
    /\ UNCHANGED <<changes, journal, mirror, bucket, runVars, recoveryVars, faults>>

\* A statement or queue.add fails, or the API process dies: no 204, and HubSpot
\* will deliver the batch again.
RequestFails(q) ==
    /\ request[q].phase # "idle"
    /\ Fault
    /\ request' = [request EXCEPT ![q] = IdleRequest]
    /\ UNCHANGED <<changes, journal, mirror, bucket, runVars, recoveryVars>>

RequestStep(q) ==
    \/ \E batch \in SUBSET DOMAIN changes \ {{}}, connected \in BOOLEAN :
         ReceiveBatch(q, batch, connected)
    \/ \E k \in Event : JournalEvent(q, k)
    \/ ArchiveOnArrival(q)
    \/ \E now \in 1 .. MaxBuckets : AddJob(q, now)
    \/ MarkQueued(q)
    \/ NothingToQueue(q)
    \/ RequestFails(q)

-----------------------------------------------------------------------------
(* The worker: the processor of the queue and syncWebhookEvents            *)

TakeJob(w, j) ==
    /\ worker[w].phase = "idle"
    /\ jobs[j].status = "waiting"
    /\ jobs' = [jobs EXCEPT ![j].status = "active"]
    /\ worker' = [worker EXCEPT ![w] = [IdleWorker EXCEPT !.phase = "taken", !.job = j]]
    /\ UNCHANGED <<changes, journal, mirror, intakeVars, stranded, recoveryVars, faults>>

Ended(status) == [status |-> status, attempts |-> 0]

Retried(j) == [status |-> "waiting", attempts |-> jobs[j].attempts + 1]

\* BullMQ counts the attempt and tries a failed job again until none is left.
JobEnds(j, succeeds) ==
    jobs' = [jobs EXCEPT ![j] =
      IF succeeds THEN Ended("done")
      ELSE IF jobs[j].attempts + 1 < MaxAttempts THEN Retried(j) ELSE Ended("failed")]

\* The processor returns or throws.
RunEnds(w, succeeds) ==
    /\ JobEnds(worker[w].job, succeeds)
    /\ worker' = [worker EXCEPT ![w] = IdleWorker]

\* Faulty variant of Claimable: whatever is not being processed is claimed.
ClaimableUnlessProcessing == {k \in Event : journal[k] \notin {"absent", "processing"}}

Claimable == {k \in Event : journal[k] \in {"queued", "failed"}}

\* claimWebhookEvents, one statement.  received_at is not kept: any of the
\* claimable events may be the oldest.
Claims == kSubset(IF Cardinality(Claimable) < ClaimLimit
                    THEN Cardinality(Claimable) ELSE ClaimLimit, Claimable)

ClaimWebhookEvents(w, events) ==
    /\ worker[w].phase = "taken"
    /\ SetStatus(events, "processing")
    /\ IF events = {}
         THEN RunEnds(w, TRUE)
         ELSE /\ worker' = [worker EXCEPT ![w].phase = "claimed", ![w].events = events]
              /\ UNCHANGED jobs
    /\ UNCHANGED <<changes, mirror, intakeVars, stranded, recoveryVars, faults>>

Processing(w) == {k \in worker[w].events : journal[k] = "processing"}

\* getConnection, getValidAccessToken and the INSERT of the run succeed; events
\* of one record are coalesced.
StartRun(w) ==
    /\ worker[w].phase = "claimed"
    /\ worker' = [worker EXCEPT ![w].phase = "running",
                                ![w].todo = {RecordOf(k) : k \in worker[w].events}]
    /\ UNCHANGED <<changes, journal, mirror, intakeVars, jobs, stranded, recoveryVars, faults>>

\* One of the three fails: the error leaves syncWebhookEvents past no handler.
StartFails(w) ==
    /\ worker[w].phase = "claimed"
    /\ RunEnds(w, FALSE)
    /\ stranded' = stranded \cup Processing(w)
    /\ UNCHANGED <<changes, journal, mirror, intakeVars, recoveryVars, faults>>

\* A record is worked on while no answer of another one is waiting to be stored.
MayWorkOn(w, r) ==
    worker[w].phase = "running" /\ worker[w].answer = {} /\ r \in worker[w].todo

\* A deletion among the coalesced events of the record wins.
DeletedInBatch(w, r) == \E k \in worker[w].events : k \in Deletions /\ RecordOf(k) = r

ArchiveDeleted(w, r) ==
    /\ MayWorkOn(w, r) /\ DeletedInBatch(w, r)
    /\ mirror' = Hidden(r)
    /\ worker' = [worker EXCEPT ![w].todo = @ \ {r}]
    /\ UNCHANGED <<changes, journal, intakeVars, jobs, stranded, recoveryVars, faults>>

\* GET of the record: its current properties, or 404.
FetchRecord(w, r) ==
    /\ MayWorkOn(w, r) /\ ~DeletedInBatch(w, r)
    /\ worker' = [worker EXCEPT ![w].answer =
         {[record |-> r, found |-> Exists(r), version |-> LiveVersion(r)]}]
    /\ UNCHANGED <<changes, journal, mirror, intakeVars, jobs, stranded, recoveryVars, faults>>

\* persistRecord after an answer, archiveRecord after a 404, each a transaction.
StoreAnswer(w) ==
    \E a \in worker[w].answer :
        /\ mirror' = IF a.found
                       THEN [mirror EXCEPT ![a.record] = [version |-> a.version, shown |-> TRUE]]
                       ELSE Hidden(a.record)
        /\ worker' = [worker EXCEPT ![w].answer = {}, ![w].todo = @ \ {a.record}]
        /\ UNCHANGED <<changes, journal, intakeVars, jobs, stranded, recoveryVars, faults>>

\* The archive of a deletion, the fetch or persistRecord fails: the handler of
\* the loop keeps the record among the failed ones and goes on.
RecordFails(w, r) ==
    /\ \/ MayWorkOn(w, r)
       \/ \E a \in worker[w].answer : a.record = r /\ a.found
    /\ worker' = [worker EXCEPT ![w].answer = {}, ![w].todo = @ \ {r},
                                ![w].failed = @ \cup {r}]
    /\ UNCHANGED <<changes, journal, mirror, intakeVars, jobs, stranded, recoveryVars, faults>>

Finished(w) == worker[w].phase = "running" /\ worker[w].todo = {} /\ worker[w].answer = {}

FailedEvents(w) == {k \in worker[w].events : RecordOf(k) \in worker[w].failed}

\* Faulty variant of CompletedEvents: of coalesced events only the one that was
\* worked on is completed.
LatestCompletedEvents(w) ==
    {k \in worker[w].events \ FailedEvents(w) :
       \A i \in worker[w].events : RecordOf(i) = RecordOf(k) => i <= k}

\* Faulty variant of CompletedEvents: the failed records are not left out.
AllEvents(w) == worker[w].events

CompletedEvents(w) == worker[w].events \ FailedEvents(w)

\* The two UPDATEs by id, each only if there are any; neither looks at the status.
CompleteEvents(w) ==
    /\ Finished(w)
    /\ SetStatus(CompletedEvents(w), "completed")
    /\ worker' = [worker EXCEPT
         ![w].phase = IF FailedEvents(w) = {} THEN "settled" ELSE "completed"]
    /\ UNCHANGED <<changes, mirror, intakeVars, jobs, stranded, recoveryVars, faults>>

FailEvents(w) ==
    /\ worker[w].phase = "completed"
    /\ SetStatus(FailedEvents(w), "failed")
    /\ worker' = [worker EXCEPT ![w].phase = "settled"]
    /\ UNCHANGED <<changes, mirror, intakeVars, jobs, stranded, recoveryVars, faults>>

\* The handler of the run: what is still processing has failed.
SettleAsFailed(w) == SetStatus(Processing(w), "failed")

\* The run and the connection are updated; with failed events the run throws
\* after that, into its own handler, and the job is tried again.
CloseRun(w) ==
    /\ worker[w].phase = "settled"
    /\ IF worker[w].failed = {} THEN UNCHANGED journal ELSE SettleAsFailed(w)
    /\ RunEnds(w, worker[w].failed = {})
    /\ UNCHANGED <<changes, mirror, intakeVars, stranded, recoveryVars, faults>>

\* A statement outside the handler of the loop fails: the archive after a 404,
\* or one of the statements that settle the run.  The UPDATE of the handler of
\* the run may fail as well.
RunAborts(w) ==
    /\ \/ \E a \in worker[w].answer : ~a.found
       \/ Finished(w)
       \/ worker[w].phase \in {"completed", "settled"}
    /\ Fault
    /\ \/ SettleAsFailed(w) /\ UNCHANGED stranded
       \/ stranded' = stranded \cup Processing(w) /\ UNCHANGED journal
    /\ RunEnds(w, FALSE)
    /\ UNCHANGED <<changes, mirror, intakeVars, recoveryVars>>

\* The claim itself fails: nothing is claimed and the attempt is lost.
ClaimFails(w) ==
    /\ worker[w].phase = "taken"
    /\ Fault
    /\ RunEnds(w, FALSE)
    /\ UNCHANGED <<changes, journal, mirror, intakeVars, stranded, recoveryVars>>

\* The process dies; its job is found stalled and waits again.
WorkerDies(w) ==
    /\ worker[w].phase # "idle"
    /\ Fault
    /\ jobs' = [jobs EXCEPT ![worker[w].job].status = "waiting"]
    /\ stranded' = stranded \cup Processing(w)
    /\ worker' = [worker EXCEPT ![w] = IdleWorker]
    /\ UNCHANGED <<changes, journal, mirror, intakeVars, recoveryVars>>

WorkerStep(w) ==
    \/ \E j \in Job : TakeJob(w, j)
    \/ \E events \in Claims : ClaimWebhookEvents(w, events)
    \/ ClaimFails(w)
    \/ StartRun(w)
    \/ StartFails(w)
    \/ \E r \in Records :
         \/ ArchiveDeleted(w, r)
         \/ FetchRecord(w, r)
         \/ RecordFails(w, r)
    \/ StoreAnswer(w)
    \/ CompleteEvents(w)
    \/ FailEvents(w)
    \/ CloseRun(w)
    \/ RunAborts(w)
    \/ WorkerDies(w)

-----------------------------------------------------------------------------
(* The recovery CLI.  The job a retry adds is a workspace synchronization,  *)
(* which does not read the journal.                                        *)

Recoverable == {k \in Event : journal[k] \in {"failed", "received"}}

UseCli == recoveries < MaxRecoveries /\ recoveries' = recoveries + 1

SelectRetry(events) ==
    /\ selection = {} /\ events # {}
    /\ UseCli
    /\ selection' = events
    /\ UNCHANGED <<changes, journal, mirror, intakeVars, runVars, faults>>

\* After queue.add, which may fail, the selected events are queued whatever they
\* have become.
RequeueSelection ==
    /\ selection # {}
    /\ \/ SetStatus(selection, "queued") /\ stranded' = stranded \ selection
       \/ UNCHANGED <<journal, stranded>>
    /\ selection' = {}
    /\ UNCHANGED <<changes, mirror, intakeVars, jobs, worker, recoveries, faults>>

IgnoreEvents(events) ==
    /\ events # {}
    /\ UseCli
    /\ SetStatus(events, "ignored")
    /\ UNCHANGED <<changes, mirror, intakeVars, runVars, selection, faults>>

RecoveryStep ==
    \/ \E events \in SUBSET Recoverable : SelectRetry(events) \/ IgnoreEvents(events)
    \/ RequeueSelection

-----------------------------------------------------------------------------
Next ==
    \/ \E r \in Records, action \in Actions : PortalChanges(r, action)
    \/ \E q \in Requests : RequestStep(q)
    \/ \E w \in Workers : WorkerStep(w)
    \/ RecoveryStep

Spec == Init /\ [][Next]_vars

\* A worker that runs does not stop between two of its steps: its calls to
\* HubSpot and to the database have timeouts.
FairSpec == Spec /\ \A w \in Workers : WF_vars(WorkerStep(w))

-----------------------------------------------------------------------------
(* Properties                                                              *)

\* A completed event has reached the mirror and nothing slower has undone it: a
\* deletion that is the last word on its record has hidden it, and the mirror is
\* not behind a completed change of a record that was never deleted.  Batches
\* arrive in any order, the API archives while the worker stores what it fetched
\* earlier, and events are claimed again after failures.
CompletedIsMirrored ==
    \A k \in DOMAIN changes : journal[k] = "completed" =>
        LET r == RecordOf(k) IN
        /\ k = LiveVersion(r) /\ k \in Deletions => ~mirror[r].shown
        /\ EventsOf(r) \cap Deletions = {} =>
             mirror[r].shown /\ k <= mirror[r].version

\* An event is left in processing only by a run that died, or that failed before
\* or in its handler: coalescing, partial failures and aborted runs forget none.
ProcessingIsHeld ==
    \A k \in Event : journal[k] = "processing" =>
        k \in stranded \/ \E w \in Workers : k \in worker[w].events

\* A completed or ignored event is claimed or failed again only by a retry that
\* selected it before, never by a redelivery, a second job or a late UPDATE.
SettledIsFinal ==
    [][\A k \in Event : journal[k] \in {"completed", "ignored"} =>
         journal'[k] = journal[k] \/ k \in selection]_vars

\* docs/HUBSPOT_WEBHOOKS.md: 204 is returned after journaling and queueing.
AcknowledgedIsQueued ==
    [][\A q \in Requests : NothingToQueue(q) \/ MarkQueued(q) =>
         \A k \in request[q].batch : journal'[k] # "received"]_vars

\* docs/TARGETED_WEBHOOK_SYNC.md: failed events remain retryable as failed.
ClaimedIsSettled ==
    \A k \in Event : journal[k] = "processing" ~> journal[k] # "processing"
=============================================================================

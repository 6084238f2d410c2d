---------------------------- MODULE ReportExports ----------------------------
(***************************************************************************)
(* Background exports: the request that inserts a row of                   *)
(* report_export_jobs and adds a job to the BullMQ queue report-exports,   *)
(* and the workers (one in each API process) that build the artifact.      *)
(*                                                                         *)
(* A row, its request and its job have the same key: the id of the job     *)
(* contains the id of the row.  The time that passes is not kept: a retry  *)
(* may be taken at once, an artifact may expire as soon as nothing writes  *)
(* its row (24 hours are longer than any run), a lock may be lost while    *)
(* the run it protects goes on.                                            *)
(***************************************************************************)
EXTENDS Naturals, FiniteSets

CONSTANTS
    Requests,        \* the export requests of one user in one hour
    NoRequest,       \* the row of a worker that runs no job
    Workers,         \* the workers of the queue report-exports
    ExportAttempts,  \* EXPORT_ATTEMPTS of the code
    ExportsPerHour,  \* EXPORTS_PER_HOUR of the code
    StallLimit,      \* maxStalledCount of the code
    MaxDeaths,       \* bound of the model: workers that die
    MaxOverruns      \* bound of the model: runs that outlive their lock

ASSUME NoRequestAssumption == NoRequest \notin Requests
ASSUME ExportAttemptsAssumption == ExportAttempts \in Nat \ {0}
ASSUME ExportBoundsAssumption ==
    /\ IsFiniteSet(Requests)
    /\ ExportsPerHour \in Nat /\ StallLimit \in Nat /\ MaxDeaths \in Nat /\ MaxOverruns \in Nat

VARIABLES
    rows,      \* rows[r]: status and artifact, as ExportLifecycle has them
    request,   \* request[r]: where the handler of POST .../exports is
    hourly,    \* the counter of the hour in Redis
    jobs,      \* jobs[r]: the job of the row in BullMQ
    worker,    \* worker[w]: the job a worker runs and how far it is
    overtaken, \* history: rows with a run that has outlived its lock
    unwritten, \* history: rows whose last attempt threw without writing them
    faults     \* history: the deaths and the overruns so far

exportVars == <<rows, request, hourly, jobs, worker, overtaken, unwritten, faults>>

-----------------------------------------------------------------------------
Row == [status: {"absent", "queued", "processing", "completed", "failed", "expired"},
        artifact: BOOLEAN]

NoRow == [status |-> "absent", artifact |-> FALSE]

\* failures is attemptsMade, which BullMQ counts when an attempt fails.
Job == [state: {"none", "waiting", "active", "finished"},
        failures: 0 .. ExportAttempts, stalls: 0 .. StallLimit + 1]

NoJob == [state |-> "none", failures |-> 0, stalls |-> 0]

Run == [phase: {"idle", "taken", "checked", "building", "returned", "thrown"},
        row: Requests \cup {NoRequest}, attempt: 0 .. ExportAttempts, locked: BOOLEAN]

Idle == [phase |-> "idle", row |-> NoRequest, attempt |-> 0, locked |-> FALSE]

ExportTypeOK ==
    /\ rows \in [Requests -> Row]
    /\ request \in [Requests -> {"none", "inserted", "refusing", "answered", "limited"}]
    /\ hourly \in 0 .. Cardinality(Requests)
    /\ jobs \in [Requests -> Job]
    /\ worker \in [Workers -> Run]
    /\ overtaken \in SUBSET Requests /\ unwritten \in SUBSET Requests
    /\ faults \in [deaths: 0 .. MaxDeaths, overruns: 0 .. MaxOverruns]

ExportInit ==
    /\ rows = [r \in Requests |-> NoRow]
    /\ request = [r \in Requests |-> "none"]
    /\ hourly = 0
    /\ jobs = [r \in Requests |-> NoJob]
    /\ worker = [w \in Workers |-> Idle]
    /\ overtaken = {} /\ unwritten = {}
    /\ faults = [deaths |-> 0, overruns |-> 0]

-----------------------------------------------------------------------------
(* POST /exports                                                           *)

\* enforceBackgroundExportRateLimit counts before anything else and counts also
\* the request it refuses; then the row is inserted.  A view that is not found
\* refuses the request after it has been counted.
RequestExport(r) ==
    /\ request[r] = "none"
    /\ hourly' = hourly + 1
    /\ \/ /\ hourly' > ExportsPerHour
          /\ request' = [request EXCEPT ![r] = "limited"]
          /\ UNCHANGED rows
       \/ /\ hourly' <= ExportsPerHour
          /\ request' = [request EXCEPT ![r] = "answered"]
          /\ UNCHANGED rows
       \/ /\ hourly' <= ExportsPerHour
          /\ request' = [request EXCEPT ![r] = "inserted"]
          /\ rows' = [rows EXCEPT ![r] = [status |-> "queued", artifact |-> FALSE]]
    /\ UNCHANGED <<jobs, worker, overtaken, unwritten, faults>>

\* queue.add, which may have reached Redis although it fails.
AddJob(r, landed, answered) ==
    /\ request[r] = "inserted"
    /\ landed \/ ~answered
    /\ jobs' = IF landed THEN [jobs EXCEPT ![r].state = "waiting"] ELSE jobs
    /\ request' = [request EXCEPT ![r] = IF answered THEN "answered" ELSE "refusing"]
    /\ UNCHANGED <<rows, hourly, worker, overtaken, unwritten, faults>>

\* The UPDATE of the handler's catch, unconditional.
RefuseExport(r) ==
    /\ request[r] = "refusing"
    /\ rows' = [rows EXCEPT ![r].status = "failed"]
    /\ request' = [request EXCEPT ![r] = "answered"]
    /\ UNCHANGED <<hourly, jobs, worker, overtaken, unwritten, faults>>

\* expireArtifacts, called by every route: no run is as long as 24 hours.
ExpireArtifact(r) ==
    /\ rows[r].status = "completed"
    /\ request[r] # "refusing"
    /\ \A w \in Workers : worker[w].row # r
    /\ rows' = [rows EXCEPT ![r] = [status |-> "expired", artifact |-> FALSE]]
    /\ UNCHANGED <<request, hourly, jobs, worker, overtaken, unwritten, faults>>

-----------------------------------------------------------------------------
(* A worker and its job: processBackgroundExportJob                        *)

Holder(r) == {w \in Workers : worker[w].row = r /\ worker[w].locked}

TakeJob(w, r) ==
    /\ worker[w].phase = "idle"
    /\ jobs[r].state = "waiting"
    /\ jobs' = [jobs EXCEPT ![r].state = "active"]
    /\ worker' = [worker EXCEPT ![w] =
          [phase |-> "taken", row |-> r, attempt |-> jobs[r].failures + 1, locked |-> TRUE]]
    /\ UNCHANGED <<rows, request, hourly, overtaken, unwritten, faults>>

\* Faulty variant of NothingToDo: an expired row is built again.
OnlyCompleted(r) == rows[r].status = "completed" /\ rows[r].artifact

\* Faulty variant of NothingToDo: another run seems to be at work.
AlreadyProcessing(r) == rows[r].status \in {"processing", "completed", "expired"}

\* What the SELECT finds when an earlier run has done the work.
NothingToDo(r) == \/ rows[r].status = "expired"
                  \/ rows[r].status = "completed" /\ rows[r].artifact

CheckRow(w) ==
    LET r == worker[w].row IN
    /\ worker[w].phase = "taken"
    /\ worker' = [worker EXCEPT ![w].phase = IF NothingToDo(r) THEN "returned" ELSE "checked"]
    /\ UNCHANGED <<rows, request, hourly, jobs, overtaken, unwritten, faults>>

MarkProcessing(w) ==
    /\ worker[w].phase = "checked"
    /\ rows' = [rows EXCEPT ![worker[w].row].status = "processing"]
    /\ worker' = [worker EXCEPT ![w].phase = "building"]
    /\ UNCHANGED <<request, hourly, jobs, overtaken, unwritten, faults>>

\* The artifact is built and stored; the UPDATE may have landed although its
\* answer is lost, and then the catch follows.
StoreArtifact(w) ==
    /\ worker[w].phase = "building"
    /\ rows' = [rows EXCEPT ![worker[w].row] = [status |-> "completed", artifact |-> TRUE]]
    /\ \E answered \in BOOLEAN :
          worker' = [worker EXCEPT ![w].phase = IF answered THEN "returned" ELSE "building"]
    /\ UNCHANGED <<request, hourly, jobs, overtaken, unwritten, faults>>

\* Faulty variant of AfterFailure: the last attempt is taken for one more retry.
AfterFailureLate(attempt) == IF attempt > ExportAttempts THEN "failed" ELSE "queued"

AfterFailure(attempt) == IF attempt >= ExportAttempts THEN "failed" ELSE "queued"

\* The build or the UPDATE that stores it fails: the catch of the function.
FailAttempt(w) ==
    /\ worker[w].phase = "building"
    /\ rows' = [rows EXCEPT ![worker[w].row].status = AfterFailure(worker[w].attempt)]
    /\ worker' = [worker EXCEPT ![w].phase = "thrown"]
    /\ UNCHANGED <<request, hourly, jobs, overtaken, unwritten, faults>>

\* A statement throws that no catch records: the SELECT or the UPDATE before the
\* try, or the UPDATE of the catch.  The job fails and the row is left as it is.
ThrowUnrecorded(w) ==
    /\ worker[w].phase \in {"taken", "checked", "building"}
    /\ unwritten' = IF worker[w].locked /\ worker[w].attempt >= ExportAttempts
                    THEN unwritten \cup {worker[w].row} ELSE unwritten
    /\ worker' = [worker EXCEPT ![w].phase = "thrown"]
    /\ UNCHANGED <<rows, request, hourly, jobs, overtaken, faults>>

\* BullMQ takes the result of a run that still has its lock, and no other.
EndRun(w) ==
    LET r == worker[w].row
        failures == jobs[r].failures + 1
    IN
    /\ worker[w].phase \in {"returned", "thrown"}
    /\ jobs' = IF ~worker[w].locked THEN jobs
               ELSE IF worker[w].phase = "returned" THEN [jobs EXCEPT ![r].state = "finished"]
               ELSE [jobs EXCEPT ![r].failures = failures,
                                 ![r].state = IF failures < ExportAttempts THEN "waiting"
                                                                          ELSE "finished"]
    /\ worker' = [worker EXCEPT ![w] = Idle]
    /\ UNCHANGED <<rows, request, hourly, overtaken, unwritten, faults>>

\* The process dies in the middle of a run.
WorkerDies(w) ==
    /\ worker[w].phase # "idle"
    /\ faults.deaths < MaxDeaths
    /\ faults' = [faults EXCEPT !.deaths = @ + 1]
    /\ worker' = [worker EXCEPT ![w] = Idle]
    /\ UNCHANGED <<rows, request, hourly, jobs, overtaken, unwritten>>

\* A build keeps its process busy for longer than lockDuration.
LoseLock(w) ==
    /\ worker[w].locked
    /\ faults.overruns < MaxOverruns
    /\ faults' = [faults EXCEPT !.overruns = @ + 1]
    /\ overtaken' = overtaken \cup {worker[w].row}
    /\ worker' = [worker EXCEPT ![w].locked = FALSE]
    /\ UNCHANGED <<rows, request, hourly, jobs, unwritten>>

\* The stalled check of BullMQ finds an active job that nobody holds.
RecoverStalled(r) ==
    /\ jobs[r].state = "active"
    /\ Holder(r) = {}
    /\ jobs' = [jobs EXCEPT ![r].stalls = @ + 1,
                            ![r].state = IF jobs[r].stalls < StallLimit THEN "waiting"
                                                                       ELSE "finished"]
    /\ UNCHANGED <<rows, request, hourly, worker, overtaken, unwritten, faults>>

-----------------------------------------------------------------------------
WorkerStep(w) ==
    \/ \E r \in Requests : TakeJob(w, r)
    \/ CheckRow(w)
    \/ MarkProcessing(w)
    \/ StoreArtifact(w)
    \/ FailAttempt(w)
    \/ ThrowUnrecorded(w)
    \/ EndRun(w)

RequestStep(r) ==
    \/ RequestExport(r)
    \/ \E landed, answered \in BOOLEAN : AddJob(r, landed, answered)
    \/ RefuseExport(r)
    \/ ExpireArtifact(r)
    \/ RecoverStalled(r)

ExportNext ==
    \/ \E w \in Workers : WorkerStep(w) \/ WorkerDies(w) \/ LoseLock(w)
    \/ \E r \in Requests : RequestStep(r)

ExportSpec == ExportInit /\ [][ExportNext]_exportVars

\* The workers run while the API runs, BullMQ hands out every waiting job and
\* checks for stalled ones every 30 seconds.
ExportFairness ==
    /\ \A w \in Workers : WF_exportVars(WorkerStep(w))
    /\ \A r \in Requests :
         /\ WF_exportVars(RecoverStalled(r))
         /\ SF_exportVars(\E w \in Workers : TakeJob(w, r))

FairExportSpec == ExportSpec /\ ExportFairness

-----------------------------------------------------------------------------
(* Properties                                                              *)

\* The row is what its readers may rely on, whatever is retried, overtaken or
\* refused: an artifact once stored stays until it expires, an expired row is
\* never written again.
Lifecycle == INSTANCE ExportLifecycle WITH Exports <- Requests, exports <- rows

ImplementsExportLifecycle == Lifecycle!ExportsSpec

Decided(r) == rows[r].status \in {"completed", "failed", "expired"}

StalledOut(r) == jobs[r].stalls > StallLimit

\* EXPORT_ATTEMPTS is counted twice, in the row and by the queue: when the queue
\* is done with a job its row is decided, unless the job stalled too often, a run
\* went on without its lock, or the last attempt threw where nothing records it.
FinishedIsDecided ==
    \A r \in Requests :
        jobs[r].state = "finished" =>
            Decided(r) \/ StalledOut(r) \/ r \in overtaken \/ r \in unwritten

\* Every job in the queue gets its row decided, through failures, retries and
\* deaths, unless it stalls more often than the queue allows or its last attempt
\* throws where nothing records it: an earlier attempt that does is retried.
ExportsSettle ==
    \A r \in Requests :
        jobs[r].state = "waiting" ~> Decided(r) \/ StalledOut(r) \/ r \in unwritten
=============================================================================

--------------------------- MODULE ReportsProofs ----------------------------
(***************************************************************************)
(* Proofs about background exports and scheduled reports.                  *)
(*                                                                         *)
(* ReportExports: any requests and workers, any number of attempts and     *)
(* stalls, and any number of deaths and overruns.                          *)
(* ScheduledDeliveries: any processes, periods, clocks, loops and sends.   *)
(***************************************************************************)
EXTENDS MCReports, FiniteSetTheorems, TLAPS

-----------------------------------------------------------------------------
(* Exports: the invariant                                                  *)

Shape ==
    /\ rows \in [Requests -> Row]
    /\ request \in [Requests -> {"none", "inserted", "refusing", "answered", "limited"}]
    /\ jobs \in [Requests -> Job]
    /\ worker \in [Workers -> Run]

\* A row exists before its job, and until it has one nobody writes it but its
\* request; a job that is not finished has an attempt and a stall left.
RequestInOrder(r) ==
    /\ request[r] \in {"none", "limited"} => rows[r] = NoRow /\ jobs[r] = NoJob
    /\ request[r] = "inserted" =>
         rows[r] = [status |-> "queued", artifact |-> FALSE] /\ jobs[r] = NoJob
    /\ request[r] = "refusing" => rows[r].status \notin {"absent", "expired"}
    /\ jobs[r].state # "none" => rows[r].status # "absent"
    /\ jobs[r].state \in {"waiting", "active"} =>
         jobs[r].stalls <= StallLimit /\ jobs[r].failures < ExportAttempts

\* A run works on the row of a job, which it has found not expired before it
\* writes; it counts attempts as the queue does as long as it has the lock.
RunInOrder(w) ==
    LET r == worker[w].row IN
    /\ worker[w].phase = "idle" => r = NoRequest /\ ~worker[w].locked
    /\ worker[w].phase # "idle" => r \in Requests /\ jobs[r].state # "none"
    /\ worker[w].phase \in {"checked", "building"} => rows[r].status \notin {"absent", "expired"}
    /\ worker[w].locked => jobs[r].state = "active" /\ worker[w].attempt = jobs[r].failures + 1

\* The only run of a row that none has outlived its lock holds it; one that has
\* returned, or has failed for the last time, leaves a row that is decided, unless
\* it threw where nothing records it.
RunDecides(w) ==
    LET r == worker[w].row IN
    r \in Requests \ overtaken =>
        /\ worker[w].locked
        /\ worker[w].phase = "returned" => Decided(r)
        /\ worker[w].phase = "thrown" /\ worker[w].attempt >= ExportAttempts
             => Decided(r) \/ r \in unwritten

OneHolder ==
    \A v, w \in Workers :
        worker[v].locked /\ worker[w].locked /\ worker[v].row = worker[w].row => v = w

ExportInv ==
    /\ Shape
    /\ \A r \in Requests : RequestInOrder(r)
    /\ \A w \in Workers : RunInOrder(w) /\ RunDecides(w)
    /\ OneHolder
    /\ FinishedIsDecided

\* Nothing is there when the API has just been installed.
LEMMA InitExportInv == ExportInit => ExportInv
<1> SUFFICES ASSUME ExportInit PROVE ExportInv
  OBVIOUS
<1>1. NoRow \in Row
  BY DEF NoRow, Row
<1>2. NoJob \in Job
  BY ExportAttemptsAssumption, ExportBoundsAssumption DEF NoJob, Job
<1>3. Idle \in Run /\ Idle.phase = "idle" /\ Idle.row = NoRequest /\ Idle.locked = FALSE
  BY ExportAttemptsAssumption DEF Idle, Run
<1>4. Shape
  BY <1>1, <1>2, <1>3 DEF ExportInit, Shape
<1>5. \A r \in Requests : RequestInOrder(r)
  BY DEF ExportInit, RequestInOrder, NoJob
<1>6. \A w \in Workers : RunInOrder(w) /\ RunDecides(w)
  BY <1>3, NoRequestAssumption DEF ExportInit, RunInOrder, RunDecides
<1>7. OneHolder
  BY <1>3 DEF ExportInit, OneHolder
<1>8. FinishedIsDecided
  BY DEF ExportInit, FinishedIsDecided, NoJob
<1> QED BY <1>4, <1>5, <1>6, <1>7, <1>8 DEF ExportInv

-----------------------------------------------------------------------------
(* Exports: steps of a request                                             *)

\* What a step of the request, the queue or the clock does to one row: no run is
\* touched, a row under way stays live, one that is decided stays decided.
QuietFor(r) ==
    /\ UNCHANGED <<worker, overtaken, unwritten>>
    /\ \A q \in Requests : q # r =>
         rows'[q] = rows[q] /\ jobs'[q] = jobs[q] /\ request'[q] = request[q]
    /\ Decided(r) => Decided(r)'
    /\ rows[r].status \notin {"absent", "expired"}
         => rows'[r].status \notin {"absent", "expired"} \/ \A w \in Workers : worker[w].row # r
    /\ jobs[r].state # "none" => jobs'[r].state # "none"
    /\ (\E w \in Workers : worker[w].row = r /\ worker[w].locked) => jobs'[r] = jobs[r]

\* A step that touches no export.
LEMMA QuietStep ==
  ASSUME ExportInv, NEW r \in Requests, QuietFor(r), Shape', RequestInOrder(r)',
         jobs'[r].state = "finished" => jobs'[r] = jobs[r] \/ StalledOut(r)'
  PROVE  ExportInv'
<1>1. \A q \in Requests : RequestInOrder(q)'
  BY DEF ExportInv, QuietFor, RequestInOrder
<1>2. ASSUME NEW w \in Workers PROVE RunInOrder(w)' /\ RunDecides(w)'
  <2>1. worker'[w] = worker[w] /\ overtaken' = overtaken /\ unwritten' = unwritten /\ RunInOrder(w) /\ RunDecides(w)
    BY DEF ExportInv, QuietFor
  <2>2. CASE worker[w].row = r
    BY <2>1, <2>2 DEF QuietFor, RunInOrder, RunDecides
  <2>3. CASE worker[w].row # r /\ worker[w].row \in Requests
    BY <2>1, <2>3 DEF QuietFor, RunInOrder, RunDecides, Decided
  <2>4. CASE worker[w].row \notin Requests
    <3>1. worker[w].phase = "idle" /\ ~worker[w].locked
      BY <2>1, <2>4 DEF RunInOrder
    <3> QED BY <2>1, <2>4, <3>1 DEF RunInOrder, RunDecides
  <2> QED BY <2>2, <2>3, <2>4
<1>3. OneHolder'
  BY DEF ExportInv, QuietFor, OneHolder
<1>4. FinishedIsDecided'
  <2>1. ASSUME NEW q \in Requests, jobs'[q].state = "finished", q # r
        PROVE  Decided(q)' \/ StalledOut(q)' \/ q \in overtaken' \/ q \in unwritten'
    BY <2>1 DEF ExportInv, QuietFor, FinishedIsDecided, Decided, StalledOut
  <2>2. ASSUME jobs'[r].state = "finished", jobs'[r] = jobs[r]
        PROVE  Decided(r)' \/ StalledOut(r)' \/ r \in overtaken' \/ r \in unwritten'
    BY <2>2 DEF ExportInv, QuietFor, FinishedIsDecided, StalledOut
  <2> QED BY <2>1, <2>2 DEF FinishedIsDecided
<1> QED BY <1>1, <1>2, <1>3, <1>4 DEF ExportInv

\* A row without a job has no run.
LEMMA NoJobNoRun ==
  ASSUME ExportInv, NEW r \in Requests, jobs[r].state = "none", NEW w \in Workers
  PROVE  worker[w].row # r
<1>1. RunInOrder(w)
  BY DEF ExportInv
<1> QED BY <1>1, NoRequestAssumption DEF RunInOrder

\* A step of one request, by what it does to its row and its job.
LEMMA RequestStepInv ==
  ASSUME ExportInv, NEW r \in Requests, RequestStep(r)
  PROVE  ExportInv'
<1>0. Shape /\ RequestInOrder(r)
  BY DEF ExportInv
<1>1. rows[r] \in Row /\ jobs[r] \in Job
  BY <1>0 DEF Shape
<1>2. CASE RequestExport(r)
  <2>1. rows[r] = NoRow /\ jobs[r] = NoJob /\ jobs[r].state = "none"
    BY <1>0, <1>2 DEF RequestExport, RequestInOrder, NoJob
  <2>2. rows[r].status = "absent"
    BY <2>1 DEF NoRow
  <2>3. /\ UNCHANGED <<jobs, worker, overtaken, unwritten>>
        /\ \A q \in Requests : q # r => rows'[q] = rows[q] /\ request'[q] = request[q]
        /\ rows'[r] = rows[r] \/ rows'[r] = [status |-> "queued", artifact |-> FALSE]
        /\ request'[r] = "inserted" => rows'[r] = [status |-> "queued", artifact |-> FALSE]
        /\ request'[r] = "limited" => rows'[r] = rows[r]
        /\ request'[r] \in {"inserted", "answered", "limited"}
    BY <1>0, <1>2 DEF RequestExport, Shape
  <2>4. Shape'
    <3>1. [status |-> "queued", artifact |-> FALSE] \in Row
      BY DEF Row
    <3> QED BY <1>0, <1>2, <3>1 DEF RequestExport, Shape
  <2>5. RequestInOrder(r)'
    BY <2>1, <2>3 DEF RequestInOrder
  <2>6. QuietFor(r)
    BY <2>1, <2>2, <2>3 DEF QuietFor, Decided
  <2> QED BY <2>3, <2>4, <2>5, <2>6, QuietStep
<1>3. ASSUME NEW landed \in BOOLEAN, NEW answered \in BOOLEAN, AddJob(r, landed, answered)
      PROVE  ExportInv'
  <2>1. /\ rows[r] = [status |-> "queued", artifact |-> FALSE]
        /\ jobs[r] = NoJob /\ jobs[r].state = "none"
    BY <1>0, <1>3 DEF AddJob, RequestInOrder, NoJob
  <2>2. rows[r].status = "queued"
    BY <2>1
  <2>3. /\ UNCHANGED <<rows, worker, overtaken, unwritten>>
        /\ \A q \in Requests : q # r => jobs'[q] = jobs[q] /\ request'[q] = request[q]
        /\ jobs'[r] = jobs[r] \/ jobs'[r] = [jobs[r] EXCEPT !.state = "waiting"]
        /\ request'[r] \in {"answered", "refusing"}
    BY <1>0, <1>3 DEF AddJob, Shape
  <2>4. [jobs[r] EXCEPT !.state = "waiting"] \in Job
    BY <1>1 DEF Job
  <2>5. /\ jobs'[r].state \in {"none", "waiting"} /\ jobs'[r].stalls = 0
        /\ jobs'[r].failures = 0
    BY <2>1, <2>3 DEF NoJob
  <2>6. Shape'
    BY <1>0, <1>3, <2>4 DEF AddJob, Shape
  <2>7. RequestInOrder(r)'
    BY <2>2, <2>3, <2>5, ExportAttemptsAssumption, ExportBoundsAssumption DEF RequestInOrder
  <2>8. \A w \in Workers : worker[w].row # r
    BY <2>1, NoJobNoRun
  <2>9. QuietFor(r)
    BY <2>1, <2>3, <2>8 DEF QuietFor, Decided
  <2> QED BY <2>5, <2>6, <2>7, <2>9, QuietStep
<1>4. CASE RefuseExport(r)
  <2>1. rows[r].status \notin {"absent", "expired"}
    BY <1>0, <1>4 DEF RefuseExport, RequestInOrder
  <2>2. /\ UNCHANGED <<jobs, worker, overtaken, unwritten>>
        /\ \A q \in Requests : q # r => rows'[q] = rows[q] /\ request'[q] = request[q]
        /\ rows'[r].status = "failed" /\ request'[r] = "answered"
    BY <1>0, <1>1, <1>4 DEF RefuseExport, Shape, Row
  <2>3. [rows[r] EXCEPT !.status = "failed"] \in Row
    BY <1>1 DEF Row
  <2>4. Shape'
    BY <1>0, <1>4, <2>3 DEF RefuseExport, Shape
  <2>5. RequestInOrder(r)'
    BY <1>0, <2>2 DEF RequestInOrder
  <2>6. QuietFor(r)
    BY <2>2 DEF QuietFor, Decided
  <2> QED BY <2>2, <2>4, <2>5, <2>6, QuietStep
<1>5. CASE ExpireArtifact(r)
  <2>1. /\ rows[r].status = "completed" /\ request[r] # "refusing"
        /\ \A w \in Workers : worker[w].row # r
        /\ UNCHANGED <<jobs, request, worker, overtaken, unwritten>>
        /\ \A q \in Requests : q # r => rows'[q] = rows[q]
        /\ rows'[r] = [status |-> "expired", artifact |-> FALSE]
    BY <1>0, <1>5 DEF ExpireArtifact, Shape
  <2>2. rows'[r].status = "expired"
    BY <2>1
  <2>3. request[r] \notin {"none", "limited", "inserted"}
    BY <1>0, <2>1 DEF RequestInOrder, NoRow
  <2>4. Shape'
    <3>1. [status |-> "expired", artifact |-> FALSE] \in Row
      BY DEF Row
    <3> QED BY <1>0, <1>5, <3>1 DEF ExpireArtifact, Shape
  <2>5. RequestInOrder(r)'
    BY <1>0, <2>1, <2>2, <2>3 DEF RequestInOrder
  <2>6. QuietFor(r)
    BY <2>1, <2>2 DEF QuietFor, Decided
  <2> QED BY <2>1, <2>4, <2>5, <2>6, QuietStep
<1>6. CASE RecoverStalled(r)
  <2>1. /\ jobs[r].state = "active" /\ Holder(r) = {}
        /\ UNCHANGED <<rows, request, worker, overtaken, unwritten>>
        /\ \A q \in Requests : q # r => jobs'[q] = jobs[q]
        /\ jobs'[r] = [jobs[r] EXCEPT !.stalls = jobs[r].stalls + 1,
                         !.state = IF jobs[r].stalls < StallLimit THEN "waiting" ELSE "finished"]
    BY <1>0, <1>6 DEF RecoverStalled, Shape
  <2>2. /\ jobs[r].stalls \in Nat /\ jobs[r].stalls <= StallLimit
        /\ jobs[r].failures \in Nat /\ jobs[r].failures < ExportAttempts
    BY <1>0, <1>1, <2>1 DEF RequestInOrder, Job
  <2>3. /\ jobs'[r].stalls = jobs[r].stalls + 1 /\ jobs'[r].failures = jobs[r].failures
        /\ jobs'[r].state = IF jobs[r].stalls < StallLimit THEN "waiting" ELSE "finished"
    BY <1>1, <2>1 DEF Job
  <2>3a. jobs'[r] \in Job
    <3>1. ASSUME NEW s \in {"waiting", "finished"}, NEW n \in 0 .. StallLimit + 1
          PROVE  [jobs[r] EXCEPT !.stalls = n, !.state = s] \in Job
      BY <1>1 DEF Job
    <3>2. jobs[r].stalls + 1 \in 0 .. StallLimit + 1
      BY <2>2, ExportBoundsAssumption
    <3> QED BY <2>1, <3>1, <3>2
  <2>4. Shape'
    BY <1>0, <1>6, <2>1, <2>3a DEF RecoverStalled, Shape
  <2>5. RequestInOrder(r)'
    <3>1. jobs[r] # NoJob
      BY <2>1 DEF NoJob
    <3> QED BY <1>0, <2>1, <2>2, <2>3, <3>1, ExportBoundsAssumption DEF RequestInOrder
  <2>6. QuietFor(r)
    BY <2>1, <2>3 DEF QuietFor, Decided, Holder
  <2>7. jobs'[r].state = "finished" => StalledOut(r)'
    BY <2>2, <2>3, ExportBoundsAssumption DEF StalledOut
  <2> QED BY <2>4, <2>5, <2>6, <2>7, QuietStep
<1> QED BY <1>2, <1>3, <1>4, <1>5, <1>6 DEF RequestStep

-----------------------------------------------------------------------------
(* Exports: steps of a worker                                              *)

\* What a step of worker w changes: its run, the row r and the job of that row; it
\* disturbs no other run that works on the row.
OnlyRun(w, r) ==
    /\ request' = request /\ unwritten \in SUBSET unwritten'
    /\ \A v \in Workers : v # w => worker'[v] = worker[v]
    /\ \A q \in Requests : q # r => /\ rows'[q] = rows[q] /\ jobs'[q] = jobs[q]
                                    /\ q \in overtaken <=> q \in overtaken'
    /\ worker'[w].row \in {r, NoRequest}
    /\ worker'[w].locked =>
         worker'[w].row = r /\ \A v \in Workers : worker[v].row = r /\ worker[v].locked => v = w
    /\ r \notin overtaken' => \A v \in Workers : worker[v].row = r => v = w
    /\ rows[r].status \notin {"absent", "expired"} => rows'[r].status \notin {"absent", "expired"}
    /\ jobs[r].state # "none" => jobs'[r].state # "none"
    /\ (\E v \in Workers : v # w /\ worker[v].row = r /\ worker[v].locked) => jobs'[r] = jobs[r]

\* A step of one run of a job.
LEMMA OnlyRunStep ==
  ASSUME ExportInv, NEW w \in Workers, NEW r \in Requests, OnlyRun(w, r), Shape',
         RequestInOrder(r)', RunInOrder(w)', RunDecides(w)',
         jobs'[r].state = "finished"
           => Decided(r)' \/ StalledOut(r)' \/ r \in overtaken' \/ r \in unwritten'
  PROVE  ExportInv'
<1>0. ASSUME NEW q \in Requests, q # r
      PROVE  /\ rows'[q] = rows[q] /\ jobs'[q] = jobs[q] /\ request'[q] = request[q]
             /\ q \in overtaken <=> q \in overtaken'
             /\ q \in unwritten => q \in unwritten'
  BY <1>0 DEF OnlyRun
<1>1. ASSUME NEW q \in Requests PROVE RequestInOrder(q)'
  <2>1. CASE q # r
    <3>1. RequestInOrder(q)
      BY DEF ExportInv
    <3> QED BY <1>0, <2>1, <3>1 DEF RequestInOrder
  <2> QED BY <2>1
<1>2. ASSUME NEW v \in Workers PROVE RunInOrder(v)' /\ RunDecides(v)'
  <2>1. CASE v = w
    BY <2>1
  <2>2. CASE v # w
    <3>1. worker'[v] = worker[v] /\ RunInOrder(v) /\ RunDecides(v)
      BY <2>2 DEF ExportInv, OnlyRun
    <3>2. CASE worker[v].row = r
      BY <2>2, <3>1, <3>2 DEF OnlyRun, RunInOrder, RunDecides
    <3>3. CASE worker[v].row # r /\ worker[v].row \in Requests
      BY <1>0, <3>1, <3>3 DEF RunInOrder, RunDecides, Decided
    <3>4. CASE worker[v].row \notin Requests
      BY <3>1, <3>4 DEF RunInOrder, RunDecides
    <3> QED BY <3>2, <3>3, <3>4
  <2> QED BY <2>1, <2>2
<1>3. OneHolder'
  BY DEF ExportInv, OnlyRun, OneHolder
<1>4. FinishedIsDecided'
  BY <1>0 DEF ExportInv, FinishedIsDecided, Decided, StalledOut
<1> QED BY <1>1, <1>2, <1>3, <1>4 DEF ExportInv

\* A run at work has a row with a job, and is the only one of a row that no run
\* has outlived its lock for.
LEMMA RunAtWork ==
  ASSUME ExportInv, NEW w \in Workers, worker[w].phase # "idle"
  PROVE  /\ worker[w].row \in Requests /\ jobs[worker[w].row].state # "none"
         /\ rows[worker[w].row].status # "absent"
         /\ request[worker[w].row] \notin {"none", "limited", "inserted"}
         /\ worker[w].locked =>
              \A v \in Workers : worker[v].row = worker[w].row /\ worker[v].locked => v = w
         /\ worker[w].row \notin overtaken =>
              worker[w].locked /\ \A v \in Workers : worker[v].row = worker[w].row => v = w
<1>1. RunInOrder(w) /\ RunDecides(w)
  BY DEF ExportInv
<1>2. worker[w].row \in Requests /\ jobs[worker[w].row].state # "none"
  BY <1>1 DEF RunInOrder
<1>3. RequestInOrder(worker[w].row)
  BY <1>2 DEF ExportInv
<1>4. jobs[worker[w].row] # NoJob
  BY <1>2 DEF NoJob
<1>5. \A v \in Workers : RunDecides(v)
  BY DEF ExportInv
<1> QED BY <1>1, <1>2, <1>3, <1>4, <1>5 DEF RequestInOrder, RunDecides, ExportInv, OneHolder

\* The waiting job is given to a worker that is idle.
LEMMA TakeJobInv ==
  ASSUME ExportInv, NEW w \in Workers, NEW r \in Requests, TakeJob(w, r)
  PROVE  ExportInv'
<1>0. /\ Shape /\ RequestInOrder(r) /\ \A v \in Workers : RunInOrder(v) /\ RunDecides(v)
      /\ rows[r] \in Row /\ jobs[r] \in Job /\ jobs[r].state = "waiting"
      /\ worker[w].phase = "idle"
  BY DEF ExportInv, Shape, TakeJob
<1>1. /\ UNCHANGED <<rows, request, overtaken, unwritten>>
      /\ jobs'[r] = [jobs[r] EXCEPT !.state = "active"]
      /\ worker'[w] = [phase |-> "taken", row |-> r, attempt |-> jobs[r].failures + 1,
                       locked |-> TRUE]
      /\ \A v \in Workers : v # w => worker'[v] = worker[v]
      /\ \A q \in Requests : q # r => jobs'[q] = jobs[q]
  BY <1>0 DEF TakeJob, Shape
<1>2. /\ jobs'[r] \in Job /\ jobs'[r].state = "active"
      /\ jobs'[r].failures = jobs[r].failures /\ jobs'[r].stalls = jobs[r].stalls
      /\ jobs[r].failures \in Nat /\ jobs[r].failures < ExportAttempts
  BY <1>0, <1>1 DEF Job, RequestInOrder
<1>3. /\ worker'[w].phase = "taken" /\ worker'[w].row = r /\ worker'[w].locked
      /\ worker'[w].attempt = jobs'[r].failures + 1
  BY <1>1, <1>2
<1>4. Shape'
  <2>1. jobs[r].failures + 1 \in 0 .. ExportAttempts
    BY <1>2, ExportAttemptsAssumption
  <2>2. worker'[w] \in Run
    BY <1>1, <2>1 DEF Run
  <2> QED BY <1>0, <1>1, <1>2, <2>2 DEF Shape, TakeJob
<1>5. RequestInOrder(r)'
  <2>1. jobs[r] # NoJob
    BY <1>0 DEF NoJob
  <2> QED BY <1>0, <1>1, <1>2, <2>1 DEF RequestInOrder
<1>6. \A v \in Workers : ~(worker[v].row = r /\ worker[v].locked)
  BY <1>0 DEF RunInOrder
<1>7. OnlyRun(w, r)
  <2>1. r \notin overtaken' => \A v \in Workers : worker[v].row # r
    BY <1>0, <1>1, <1>6 DEF RunDecides
  <2> QED BY <1>0, <1>1, <1>2, <1>3, <1>6, <2>1 DEF OnlyRun
<1>8. RunInOrder(w)' /\ RunDecides(w)'
  BY <1>2, <1>3 DEF RunInOrder, RunDecides
<1> QED BY <1>2, <1>4, <1>5, <1>7, <1>8, OnlyRunStep

\* A run that has the row to itself, or has lost its lock, writes only the row.
LEMMA WriteInv ==
  ASSUME ExportInv, NEW w \in Workers, NEW r \in Requests, worker[w].row = r,
         \/ CheckRow(w) \/ MarkProcessing(w) \/ StoreArtifact(w) \/ FailAttempt(w)
         \/ ThrowUnrecorded(w)
  PROVE  ExportInv'
<1>1. /\ Shape /\ worker[w].phase \in {"taken", "checked", "building"}
      /\ UNCHANGED <<jobs, request, overtaken>>
      /\ unwritten \in SUBSET unwritten'
  BY DEF ExportInv, CheckRow, MarkProcessing, StoreArtifact, FailAttempt, ThrowUnrecorded
<1>2. /\ jobs[r].state # "none" /\ rows[r].status # "absent"
      /\ request[r] \notin {"none", "limited", "inserted"}
      /\ worker[w].locked =>
           \A v \in Workers : worker[v].row = r /\ worker[v].locked => v = w
      /\ r \notin overtaken =>
           worker[w].locked /\ \A v \in Workers : worker[v].row = r => v = w
  BY <1>1, RunAtWork
<1>3. /\ RequestInOrder(r) /\ RunInOrder(w) /\ RunDecides(w) /\ FinishedIsDecided
      /\ rows[r] \in Row /\ worker[w] \in Run
  BY <1>1, <1>2 DEF ExportInv, Shape
<1>4. /\ worker'[w].row = r /\ worker'[w].locked = worker[w].locked
      /\ worker'[w].attempt = worker[w].attempt /\ worker'[w] \in Run
      /\ worker' \in [Workers -> Run]
      /\ \A v \in Workers : v # w => worker'[v] = worker[v]
  BY <1>1, <1>3 DEF CheckRow, MarkProcessing, StoreArtifact, FailAttempt, ThrowUnrecorded, Shape, Run
<1>5. /\ \A q \in Requests : q # r => rows'[q] = rows[q]
      /\ rows' \in [Requests -> Row]
  <2>1. \A s \in {"processing", "queued", "failed"} : [rows[r] EXCEPT !.status = s] \in Row
    BY <1>3 DEF Row
  <2>2. [status |-> "completed", artifact |-> TRUE] \in Row
    BY DEF Row
  <2>3. AfterFailure(worker[w].attempt) \in {"queued", "failed"}
    BY DEF AfterFailure
  <2>4. CASE CheckRow(w) \/ ThrowUnrecorded(w)
    BY <1>1, <2>4 DEF CheckRow, ThrowUnrecorded, Shape
  <2>5. CASE StoreArtifact(w)
    BY <1>1, <2>2, <2>5 DEF StoreArtifact, Shape
  <2>6. ASSUME NEW s \in {"processing", "queued", "failed"}, rows' = [rows EXCEPT ![r].status = s]
        PROVE  (\A q \in Requests : q # r => rows'[q] = rows[q]) /\ rows' \in [Requests -> Row]
    BY <1>1, <2>1, <2>6 DEF Shape
  <2>7. CASE MarkProcessing(w)
    BY <2>6, <2>7 DEF MarkProcessing
  <2>8. CASE FailAttempt(w)
    BY <2>3, <2>6, <2>8 DEF FailAttempt
  <2> QED BY <2>4, <2>5, <2>7, <2>8
<1>6. /\ rows'[r].status # "absent"
      /\ worker[w].phase \in {"checked", "building"} => rows'[r].status # "expired"
      /\ rows[r].status # "expired" => rows'[r].status # "expired"
      /\ worker'[w].phase \in {"returned", "checked", "building", "thrown"}
      /\ worker'[w].phase \in {"checked", "building"} => rows'[r].status # "expired"
      /\ worker'[w].phase = "returned" => Decided(r)'
      /\ worker'[w].phase = "thrown" /\ worker'[w].attempt >= ExportAttempts /\ worker[w].locked
           => Decided(r)' \/ r \in unwritten'
  <2>1. CASE CheckRow(w)
    BY <1>1, <1>2, <1>3, <2>1 DEF CheckRow, NothingToDo, Decided, Shape, Run
  <2>2. CASE MarkProcessing(w)
    BY <1>1, <1>2, <1>3, <2>2 DEF MarkProcessing, Shape, Run, Row
  <2>3. CASE StoreArtifact(w)
    BY <1>1, <1>2, <1>3, <2>3 DEF StoreArtifact, Decided, Shape, Run
  <2>4. CASE FailAttempt(w)
    <3>1. /\ rows'[r].status = AfterFailure(worker[w].attempt)
          /\ worker'[w].phase = "thrown"
      BY <1>1, <1>2, <1>3, <2>4 DEF FailAttempt, Shape, Run, Row
    <3> QED BY <1>4, <3>1 DEF AfterFailure, Decided
  <2>5. CASE ThrowUnrecorded(w)
    <3>1. /\ worker'[w].phase = "thrown" /\ worker'[w].attempt = worker[w].attempt
          /\ rows' = rows
          /\ (worker[w].locked /\ worker[w].attempt >= ExportAttempts => r \in unwritten')
      BY <1>1, <1>2, <1>3, <2>5 DEF ThrowUnrecorded, Shape, Run
    <3>2. worker[w].phase \in {"checked", "building"} => rows[r].status # "expired"
      BY <1>3 DEF RunInOrder
    <3>3. worker'[w].phase \notin {"returned", "checked", "building"}
      BY <3>1
    <3>4. worker'[w].phase = "thrown" /\ worker'[w].attempt >= ExportAttempts /\ worker[w].locked
            => r \in unwritten'
      BY <3>1
    <3> QED BY <1>2, <3>1, <3>2, <3>3, <3>4
  <2> QED BY <2>1, <2>2, <2>3, <2>4, <2>5
<1>7. Shape'
  BY <1>1, <1>4, <1>5 DEF Shape
<1>8. RequestInOrder(r)'
  <2>1. request[r] = "refusing" => rows[r].status # "expired"
    BY <1>3 DEF RequestInOrder
  <2> QED BY <1>1, <1>2, <1>3, <1>6, <2>1 DEF RequestInOrder
<1>9. OnlyRun(w, r)
  BY <1>1, <1>2, <1>4, <1>5, <1>6 DEF OnlyRun
<1>10. RunInOrder(w)'
  BY <1>1, <1>2, <1>3, <1>4, <1>6 DEF RunInOrder
<1>11. RunDecides(w)'
  BY <1>1, <1>2, <1>4, <1>6 DEF RunDecides
<1>12. jobs'[r].state = "finished"
         => StalledOut(r)' \/ r \in overtaken' \/ Decided(r)' \/ r \in unwritten'
  <2>1. jobs[r].state = "finished" => ~worker[w].locked
    BY <1>3 DEF RunInOrder
  <2> QED BY <1>1, <1>2, <2>1
<1> QED BY <1>7, <1>8, <1>9, <1>10, <1>11, <1>12, OnlyRunStep

\* The queue takes the result of a run that has the lock, and counts the failure.
LEMMA EndRunInv ==
  ASSUME ExportInv, NEW w \in Workers, NEW r \in Requests, worker[w].row = r, EndRun(w)
  PROVE  ExportInv'
<1>1. /\ Shape /\ worker[w].phase \in {"returned", "thrown"}
      /\ UNCHANGED <<rows, request, overtaken, unwritten>> /\ worker' = [worker EXCEPT ![w] = Idle]
  BY DEF ExportInv, EndRun
<1>2. /\ jobs[r].state # "none" /\ rows[r].status # "absent"
      /\ request[r] \notin {"none", "limited", "inserted"}
      /\ worker[w].locked =>
           \A v \in Workers : worker[v].row = r /\ worker[v].locked => v = w
      /\ r \notin overtaken =>
           worker[w].locked /\ \A v \in Workers : worker[v].row = r => v = w
  BY <1>1, RunAtWork
<1>3. /\ RequestInOrder(r) /\ RunInOrder(w) /\ RunDecides(w) /\ FinishedIsDecided
      /\ jobs[r] \in Job /\ worker[w] \in Run
  BY <1>1, <1>2 DEF ExportInv, Shape
<1>4. /\ Idle \in Run /\ Idle.phase = "idle" /\ Idle.row = NoRequest /\ Idle.locked = FALSE
      /\ worker'[w] = Idle /\ \A v \in Workers : v # w => worker'[v] = worker[v]
  BY <1>1, ExportAttemptsAssumption DEF Idle, Run, Shape
<1>5. worker[w].locked => /\ jobs[r].state = "active" /\ jobs[r].stalls <= StallLimit
                          /\ jobs[r].failures \in Nat /\ jobs[r].failures < ExportAttempts
                          /\ worker[w].attempt = jobs[r].failures + 1
  BY <1>3 DEF RunInOrder, RequestInOrder, Job
<1>6. /\ \A q \in Requests : q # r => jobs'[q] = jobs[q]
      /\ jobs' \in [Requests -> Job] /\ jobs'[r].state # "none"
      /\ jobs'[r].stalls = jobs[r].stalls
      /\ ~worker[w].locked => jobs'[r] = jobs[r]
      /\ jobs'[r].state \in {"waiting", "active"} => jobs'[r].failures < ExportAttempts
      /\ worker[w].locked /\ worker[w].phase = "thrown" /\ jobs'[r].state = "finished"
           => worker[w].attempt >= ExportAttempts
  <2>1. CASE ~worker[w].locked
    BY <1>1, <1>2, <1>3, <2>1 DEF EndRun, Shape, RequestInOrder
  <2>2. CASE worker[w].locked /\ worker[w].phase = "returned"
    <3>1. jobs' = [jobs EXCEPT ![r] = [jobs[r] EXCEPT !.state = "finished"]]
      BY <1>1, <2>2 DEF EndRun, Shape
    <3>2. [jobs[r] EXCEPT !.state = "finished"] \in Job
      BY <1>3 DEF Job
    <3>3. jobs'[r].state = "finished" /\ jobs'[r].stalls = jobs[r].stalls
      BY <1>1, <1>3, <3>1 DEF Job, Shape
    <3> QED BY <1>1, <2>2, <3>1, <3>2, <3>3 DEF Shape
  <2>3. CASE worker[w].locked /\ worker[w].phase = "thrown"
    <3> DEFINE failures == jobs[r].failures + 1
               state == IF failures < ExportAttempts THEN "waiting" ELSE "finished"
    <3>1. jobs' = [jobs EXCEPT ![r] = [jobs[r] EXCEPT !.failures = failures, !.state = state]]
      BY <1>1, <2>3 DEF EndRun, Shape
    <3>2. failures \in 0 .. ExportAttempts /\ state \in {"waiting", "finished"}
      BY <1>5, <2>3, ExportAttemptsAssumption
    <3>3. state = "waiting" => failures < ExportAttempts
      OBVIOUS
    <3>4. state = "finished" => worker[w].attempt >= ExportAttempts
      BY <1>5, <2>3, ExportAttemptsAssumption
    <3> HIDE DEF failures, state
    <3>5. [jobs[r] EXCEPT !.failures = failures, !.state = state] \in Job
      BY <1>3, <3>2 DEF Job
    <3>6. /\ jobs'[r].state = state /\ jobs'[r].stalls = jobs[r].stalls
          /\ jobs'[r].failures = failures
      BY <1>1, <1>3, <3>1 DEF Job, Shape
    <3> QED BY <1>1, <2>3, <3>1, <3>2, <3>3, <3>4, <3>5, <3>6 DEF Shape
  <2> QED BY <1>1, <2>1, <2>2, <2>3
<1>7. Shape'
  BY <1>1, <1>4, <1>6 DEF Shape
<1>8. RequestInOrder(r)'
  <2>1. jobs'[r].state \in {"waiting", "active"} => jobs'[r].stalls <= StallLimit
    BY <1>3, <1>5, <1>6 DEF RequestInOrder
  <2> QED BY <1>1, <1>2, <1>3, <1>6, <2>1 DEF RequestInOrder
<1>9. OnlyRun(w, r)
  BY <1>1, <1>2, <1>4, <1>6 DEF OnlyRun
<1>10. RunInOrder(w)' /\ RunDecides(w)'
  BY <1>4, NoRequestAssumption DEF RunInOrder, RunDecides
<1>11. jobs'[r].state = "finished"
         => StalledOut(r)' \/ r \in overtaken' \/ Decided(r)' \/ r \in unwritten'
  <2>1. r \notin overtaken /\ jobs'[r].state = "finished" => Decided(r) \/ r \in unwritten
    BY <1>1, <1>2, <1>3, <1>6 DEF RunDecides
  <2> QED BY <1>1, <2>1 DEF Decided
<1> QED BY <1>7, <1>8, <1>9, <1>10, <1>11, OnlyRunStep

\* A worker that dies leaves its job to the stalled check; a run that outlives its
\* lock goes on without it.
LEMMA FaultInv ==
  ASSUME ExportInv, NEW w \in Workers, NEW r \in Requests, worker[w].row = r,
         WorkerDies(w) \/ LoseLock(w)
  PROVE  ExportInv'
<1>1. /\ Shape /\ UNCHANGED <<rows, request, jobs, unwritten>> /\ worker[w] \in Run
      /\ RequestInOrder(r) /\ RunInOrder(w) /\ FinishedIsDecided
      /\ worker[w].phase # "idle"
  BY NoRequestAssumption DEF ExportInv, WorkerDies, LoseLock, Shape, RunInOrder
<1>2. r \notin overtaken =>
        worker[w].locked /\ \A v \in Workers : worker[v].row = r => v = w
  BY <1>1, RunAtWork
<1>3. RequestInOrder(r)'
  BY <1>1 DEF RequestInOrder
<1>4. jobs'[r].state = "finished"
        => StalledOut(r)' \/ r \in overtaken' \/ Decided(r)' \/ r \in unwritten'
  BY <1>1 DEF FinishedIsDecided, StalledOut, Decided, WorkerDies, LoseLock
<1>5. CASE WorkerDies(w)
  <2>1. /\ Idle \in Run /\ Idle.phase = "idle" /\ Idle.row = NoRequest /\ Idle.locked = FALSE
        /\ worker'[w] = Idle /\ \A v \in Workers : v # w => worker'[v] = worker[v]
        /\ overtaken' = overtaken /\ Shape'
    BY <1>1, <1>5, ExportAttemptsAssumption DEF Idle, Run, Shape, WorkerDies
  <2>2. OnlyRun(w, r)
    BY <1>1, <1>2, <2>1 DEF OnlyRun
  <2>3. RunInOrder(w)' /\ RunDecides(w)'
    BY <2>1, NoRequestAssumption DEF RunInOrder, RunDecides
  <2> QED BY <1>3, <1>4, <2>1, <2>2, <2>3, OnlyRunStep
<1>6. CASE LoseLock(w)
  <2>1. /\ worker'[w].phase = worker[w].phase /\ worker'[w].row = r
        /\ worker'[w].locked = FALSE /\ worker'[w] \in Run
        /\ \A v \in Workers : v # w => worker'[v] = worker[v]
        /\ overtaken' = overtaken \cup {r}
    BY <1>1, <1>6 DEF Run, Shape, LoseLock
  <2>2. Shape'
    BY <1>1, <1>6, <2>1 DEF Shape, LoseLock
  <2>3. OnlyRun(w, r)
    BY <1>1, <2>1 DEF OnlyRun
  <2>4. RunInOrder(w)' /\ RunDecides(w)'
    BY <1>1, <2>1 DEF RunInOrder, RunDecides
  <2> QED BY <1>3, <1>4, <2>2, <2>3, <2>4, OnlyRunStep
<1> QED BY <1>5, <1>6

\* Every step keeps the invariant.
LEMMA NextExportInv == ExportInv /\ [ExportNext]_exportVars => ExportInv'
<1> SUFFICES ASSUME ExportInv, [ExportNext]_exportVars PROVE ExportInv'
  OBVIOUS
<1>1. ASSUME NEW r \in Requests, RequestStep(r) PROVE ExportInv'
  BY <1>1, RequestStepInv
<1>2. ASSUME NEW w \in Workers, NEW r \in Requests, TakeJob(w, r) PROVE ExportInv'
  BY <1>2, TakeJobInv
<1>3. ASSUME NEW w \in Workers, worker[w].phase # "idle",
             \/ CheckRow(w) \/ MarkProcessing(w) \/ StoreArtifact(w) \/ FailAttempt(w)
             \/ ThrowUnrecorded(w) \/ EndRun(w) \/ WorkerDies(w) \/ LoseLock(w)
      PROVE  ExportInv'
  <2>1. worker[w].row \in Requests
    BY <1>3, RunAtWork
  <2> QED BY <1>3, <2>1, WriteInv, EndRunInv, FaultInv
<1>4. ASSUME NEW w \in Workers,
             \/ CheckRow(w) \/ MarkProcessing(w) \/ StoreArtifact(w) \/ FailAttempt(w)
             \/ ThrowUnrecorded(w) \/ EndRun(w) \/ WorkerDies(w) \/ LoseLock(w)
      PROVE  worker[w].phase # "idle"
  BY <1>4 DEF CheckRow, MarkProcessing, StoreArtifact, FailAttempt, ThrowUnrecorded, EndRun, WorkerDies,
              LoseLock, ExportInv, RunInOrder
<1>5. CASE UNCHANGED exportVars
  BY <1>5 DEF exportVars, ExportInv, Shape, RequestInOrder, RunInOrder, RunDecides, OneHolder,
              FinishedIsDecided, Decided, StalledOut
<1> QED BY <1>1, <1>2, <1>3, <1>4, <1>5 DEF ExportNext, WorkerStep

\* EXPORT_ATTEMPTS is counted by processBackgroundExportJob and by BullMQ alike: a
\* job that the queue is done with leaves its row decided, but for one that stalled
\* too often, has a run that outlived its lock, or threw in its last attempt where
\* no statement records the failure.
THEOREM FinishedDecidedCorrect == ExportSpec => []FinishedIsDecided
<1>1. ExportInv => FinishedIsDecided
  BY DEF ExportInv
<1> QED BY InitExportInv, NextExportInv, <1>1, PTL DEF ExportSpec

-----------------------------------------------------------------------------
(* Exports: the lifecycle of a row                                         *)

\* An export that was not asked for is the start of the lifecycle.
LEMMA InitImplements == ExportInit => Lifecycle!ExportsInit
  BY DEF ExportInit, Lifecycle!ExportsInit, NoRow, Lifecycle!NoExport

\* Every step is one of the lifecycle, or leaves the rows alone.
LEMMA StepImplements ==
  ExportInv /\ [ExportNext]_exportVars => [Lifecycle!ExportsNext]_rows
<1> SUFFICES ASSUME ExportInv, [ExportNext]_exportVars, rows' # rows
             PROVE  Lifecycle!ExportsNext
  OBVIOUS
<1>0. /\ Shape /\ \A r \in Requests : RequestInOrder(r)
      /\ \A w \in Workers : RunInOrder(w)
  BY DEF ExportInv
<1>1. ASSUME NEW r \in Requests, RequestStep(r) PROVE Lifecycle!ExportsNext
  <2>1. CASE RequestExport(r)
    <3>1. rows[r] = NoRow /\ rows' = [rows EXCEPT ![r] = [status |-> "queued", artifact |-> FALSE]]
      BY <1>0, <2>1 DEF RequestExport, RequestInOrder
    <3>2. rows[r].status = "absent"
      BY <3>1 DEF NoRow
    <3>3. [NoRow EXCEPT !.status = "queued"] = [status |-> "queued", artifact |-> FALSE]
      <4>1. ASSUME NEW artifact
            PROVE  [[status |-> "absent", artifact |-> artifact] EXCEPT !.status = "queued"]
                     = [status |-> "queued", artifact |-> artifact]
        OBVIOUS
      <4> QED BY <4>1, Zenon DEF NoRow
    <3>4. Lifecycle!Queue(r)
      BY <3>1, <3>2, <3>3 DEF Lifecycle!Queue
    <3> QED BY <3>4 DEF Lifecycle!ExportsNext
  <2>2. CASE RefuseExport(r)
    <3>1. Lifecycle!Live(r)
      BY <1>0, <2>2 DEF RefuseExport, RequestInOrder, Lifecycle!Live
    <3>2. rows' = [rows EXCEPT ![r].status = "failed"]
      BY <2>2 DEF RefuseExport
    <3>3. Lifecycle!Fail(r)
      BY <3>1, <3>2 DEF Lifecycle!Fail
    <3> QED BY <3>3 DEF Lifecycle!ExportsNext
  <2>3. CASE ExpireArtifact(r)
    <3>1. Lifecycle!Expire(r)
      BY <2>3 DEF ExpireArtifact, Lifecycle!Expire
    <3> QED BY <3>1 DEF Lifecycle!ExportsNext
  <2> QED BY <1>1, <2>1, <2>2, <2>3 DEF RequestStep, AddJob, RecoverStalled
<1>2. ASSUME NEW w \in Workers, MarkProcessing(w) \/ StoreArtifact(w) \/ FailAttempt(w)
      PROVE  Lifecycle!ExportsNext
  <2> DEFINE r == worker[w].row
  <2>1. r \in Requests /\ rows[r].status \notin {"absent", "expired"}
    BY <1>0, <1>2 DEF MarkProcessing, StoreArtifact, FailAttempt, RunInOrder
  <2>2. CASE MarkProcessing(w)
    <3>1. Lifecycle!Start(r)
      BY <2>1, <2>2 DEF MarkProcessing, Lifecycle!Start, Lifecycle!Live
    <3> QED BY <2>1, <3>1 DEF Lifecycle!ExportsNext
  <2>3. CASE StoreArtifact(w)
    <3>1. Lifecycle!Store(r)
      BY <2>1, <2>3 DEF StoreArtifact, Lifecycle!Store, Lifecycle!Live
    <3> QED BY <2>1, <3>1 DEF Lifecycle!ExportsNext
  <2>4. CASE FailAttempt(w)
    <3>1. AfterFailure(worker[w].attempt) \in {"queued", "failed"}
      BY DEF AfterFailure
    <3>2. Lifecycle!Fail(r)
      BY <2>1, <2>4, <3>1 DEF FailAttempt, Lifecycle!Fail, Lifecycle!Live
    <3> QED BY <2>1, <3>2 DEF Lifecycle!ExportsNext
  <2> QED BY <1>2, <2>2, <2>3, <2>4
<1> QED BY <1>1, <1>2 DEF ExportNext, WorkerStep, TakeJob, CheckRow, ThrowUnrecorded, EndRun,
           WorkerDies, LoseLock, exportVars

\* A stored artifact stays until it expires and an expired row is never written
\* again, whatever is retried, overtaken or refused.
THEOREM LifecycleImplemented == ExportSpec => ImplementsExportLifecycle
  BY InitExportInv, NextExportInv, InitImplements, StepImplements, PTL
     DEF ExportSpec, ImplementsExportLifecycle, Lifecycle!ExportsSpec

-----------------------------------------------------------------------------
(* Exports: type correctness                                               *)

\* The requests that have been counted in this hour.
Counted == {r \in Requests : request[r] # "none"}

\* The counter of the hour counts every request once, also one that it refused.
CountsFit ==
    /\ hourly = Cardinality(Counted)
    /\ overtaken \in SUBSET Requests /\ unwritten \in SUBSET Requests
    /\ faults \in [deaths: 0 .. MaxDeaths, overruns: 0 .. MaxOverruns]

\* There are finitely many requests to count.
LEMMA CountedIs ==
  /\ IsFiniteSet(Counted) /\ Cardinality(Counted) \in 0 .. Cardinality(Requests)
  /\ Cardinality(Requests) \in Nat
<1>1. IsFiniteSet(Requests) /\ Counted \subseteq Requests
  BY ExportBoundsAssumption DEF Counted
<1>2. IsFiniteSet(Counted) /\ Cardinality(Counted) <= Cardinality(Requests)
  BY <1>1, FS_Subset
<1> QED BY <1>1, <1>2, FS_CardinalityType

\* Nothing has been counted in an hour without requests.
LEMMA InitCounts == ExportInit => CountsFit
<1> SUFFICES ASSUME ExportInit PROVE CountsFit
  OBVIOUS
<1>1. Counted = {} /\ Cardinality({}) = 0
  BY FS_EmptySet DEF Counted, ExportInit
<1> QED BY <1>1, ExportBoundsAssumption DEF CountsFit, ExportInit

\* A step that does not count a request.
LEMMA SameCount ==
  ASSUME ExportInv, CountsFit, hourly' = hourly, Counted' = Counted,
         overtaken' \in SUBSET Requests, unwritten' \in SUBSET Requests,
         faults' \in [deaths: 0 .. MaxDeaths, overruns: 0 .. MaxOverruns]
  PROVE  CountsFit'
  BY DEF CountsFit

\* A handler that goes on was counted before.
LEMMA StillCounted ==
  ASSUME Shape, NEW r \in Requests, NEW s \in {"inserted", "refusing", "answered", "limited"},
         request[r] # "none", request' = [request EXCEPT ![r] = s]
  PROVE  Counted' = Counted
<1>1. request'[r] = s /\ \A q \in Requests \ {r} : request'[q] = request[q]
  BY DEF Shape
<1> QED BY <1>1 DEF Counted

\* Every request, worker and job keeps the counts.
LEMMA NextCounts ==
  ASSUME ExportInv, CountsFit, [ExportNext]_exportVars
  PROVE  CountsFit'
<1>1. CASE UNCHANGED exportVars
  BY <1>1, SameCount DEF exportVars, Counted, CountsFit
<1>2. ASSUME NEW w \in Workers, WorkerStep(w) PROVE CountsFit'
  <2>1. UNCHANGED <<hourly, request, overtaken, faults>>
    BY <1>2 DEF WorkerStep, TakeJob, CheckRow, MarkProcessing, StoreArtifact, FailAttempt,
                ThrowUnrecorded, EndRun
  <2>2. unwritten' \in SUBSET Requests
    <3>1. CASE UNCHANGED unwritten
      BY <3>1 DEF CountsFit
    <3>2. CASE ThrowUnrecorded(w)
      <4>1. worker[w].row \in Requests
        BY <3>2 DEF ThrowUnrecorded, ExportInv, RunInOrder
      <4> QED BY <3>2, <4>1 DEF ThrowUnrecorded, CountsFit
    <3> QED BY <1>2, <3>1, <3>2 DEF WorkerStep, TakeJob, CheckRow, MarkProcessing, StoreArtifact,
                                    FailAttempt, EndRun
  <2> QED BY <2>1, <2>2, SameCount DEF Counted, CountsFit
<1>3. ASSUME NEW w \in Workers, WorkerDies(w) PROVE CountsFit'
  <2>1. faults' \in [deaths: 0 .. MaxDeaths, overruns: 0 .. MaxOverruns]
    BY <1>3, ExportBoundsAssumption DEF WorkerDies, CountsFit
  <2> QED BY <1>3, <2>1, SameCount DEF WorkerDies, Counted, CountsFit
<1>4. ASSUME NEW w \in Workers, LoseLock(w) PROVE CountsFit'
  <2>1. worker[w].row \in Requests
    BY <1>4 DEF LoseLock, ExportInv, RunInOrder, Shape, Run
  <2>2. faults' \in [deaths: 0 .. MaxDeaths, overruns: 0 .. MaxOverruns]
    BY <1>4, ExportBoundsAssumption DEF LoseLock, CountsFit
  <2> QED BY <1>4, <2>1, <2>2, SameCount DEF LoseLock, Counted, CountsFit
<1>5. ASSUME NEW r \in Requests, RequestExport(r) PROVE CountsFit'
  <2>1. /\ request[r] = "none" /\ hourly' = hourly + 1 /\ UNCHANGED <<overtaken, unwritten, faults>>
        /\ \E s \in {"limited", "answered", "inserted"} : request' = [request EXCEPT ![r] = s]
    BY <1>5 DEF RequestExport
  <2>2. request'[r] # "none" /\ \A q \in Requests \ {r} : request'[q] = request[q]
    BY <2>1 DEF ExportInv, Shape
  <2>3. Counted' = Counted \cup {r} /\ r \notin Counted
    BY <2>1, <2>2 DEF Counted
  <2>4. Cardinality(Counted \cup {r}) = Cardinality(Counted) + 1
    BY <2>3, CountedIs, FS_AddElement
  <2> QED BY <2>1, <2>3, <2>4 DEF CountsFit
<1>6. ASSUME NEW r \in Requests, NEW landed \in BOOLEAN, NEW answered \in BOOLEAN, AddJob(r, landed, answered)
      PROVE CountsFit'
  <2>1. request[r] # "none" /\ UNCHANGED <<hourly, overtaken, unwritten, faults>>
        /\ request' = [request EXCEPT ![r] = IF answered THEN "answered" ELSE "refusing"]
    BY <1>6 DEF AddJob
  <2>2. Counted' = Counted
    BY <2>1, StillCounted DEF ExportInv
  <2> QED BY <2>1, <2>2, SameCount DEF CountsFit
<1>7. ASSUME NEW r \in Requests, RefuseExport(r) PROVE CountsFit'
  <2>1. request[r] # "none" /\ UNCHANGED <<hourly, overtaken, unwritten, faults>>
        /\ request' = [request EXCEPT ![r] = "answered"]
    BY <1>7 DEF RefuseExport
  <2>2. Counted' = Counted
    BY <2>1, StillCounted DEF ExportInv
  <2> QED BY <2>1, <2>2, SameCount DEF CountsFit
<1>8. ASSUME NEW r \in Requests, ExpireArtifact(r) \/ RecoverStalled(r) PROVE CountsFit'
  <2>1. UNCHANGED <<hourly, request, overtaken, unwritten, faults>>
    BY <1>8 DEF ExpireArtifact, RecoverStalled
  <2> QED BY <2>1, SameCount DEF Counted, CountsFit
<1> QED BY <1>1, <1>2, <1>3, <1>4, <1>5, <1>6, <1>7, <1>8 DEF ExportNext, RequestStep

\* The rows, jobs and runs of exports, the counter of the hour and the history keep
\* their types, for any requests and any number of workers.
THEOREM ExportTypeCorrect == ExportSpec => []ExportTypeOK
<1>1. ExportInv /\ CountsFit => ExportTypeOK
  BY CountedIs DEF ExportInv, Shape, CountsFit, ExportTypeOK
<1> QED BY InitExportInv, NextExportInv, InitCounts, NextCounts, <1>1, PTL DEF ExportSpec

-----------------------------------------------------------------------------
(* Schedules: the invariant                                                *)

\* The states of the scheduler of one process and of a delivery loop.
PollerRun == [phase: {"idle", "selected", "adding"}, now: 0 .. MaxClock,
              period: Periods \cup {0}, occurrence: 0 .. MaxClock, export: Exports \cup {0}]

SenderRun == [phase: {"idle", "claiming", "claimed", "accepted", "completed", "retry", "refused"},
              occurrence: 0 .. MaxClock, attempt: 0 .. MaxSends]

\* A sender that has a row in its hands.
Busy(s) == sender[s].phase \in {"claimed", "accepted", "completed", "retry", "refused"}

\* Whoever is under way has what it works on, and a schedule that is gone is never
\* enabled again.
RunsInOrder ==
    /\ \A p \in Pollers :
          /\ poller[p].phase # "idle" => poller[p].period \in Periods
          /\ poller[p].phase = "adding" => poller[p].occurrence \in Occurrence /\ poller[p].export \in Exports
    /\ \A s \in Senders : Busy(s) => sender[s].occurrence \in Occurrence
    /\ schedule.enabled => schedule.exists

\* Types, and the order of the runs.
ScheduleShape == ScheduleTypeOK /\ RunsInOrder

\* An export that is not there yet has no occurrence, and the occurrence of one
\* that is there is recorded for as long as the schedule exists.
ExportsAreRecorded ==
    \A x \in Exports :
        /\ exports[x].status = "absent" => exportFor[x] = NoOccurrence
        /\ schedule.exists /\ exportFor[x] # NoOccurrence => Recorded(exportFor[x])

\* The e-mail of the occurrence has, or had, something to attach.
HasArtifact(t) ==
    LET row == exports[executions[t].export]
    IN  executions[t].export \in Exports /\ (row.artifact \/ row.status = "expired")

\* The loops that hold the claim of an occurrence and have not sent its message.
Claims(t) == {s \in Senders : sender[s].phase = "claimed" /\ sender[s].occurrence = t}

\* Every message is one of the attempts that the row has counted.
SendsAreCounted(t) ==
    /\ sends[t] + Cardinality(Claims(t)) <= IF Recorded(t) THEN executions[t].attempts ELSE MaxSends
    /\ ~Recorded(t) /\ schedule.exists => sends[t] = 0 /\ \A s \in Senders : ~(Busy(s) /\ sender[s].occurrence = t)

\* A loop with a row in its hands works for a recorded export with an artifact.
SendersAreJustified ==
    \A s \in Senders :
        /\ Busy(s) /\ Recorded(sender[s].occurrence) => HasArtifact(sender[s].occurrence)
        /\ sender[s].phase \in {"accepted", "completed"} => sender[s].occurrence \in accepted

\* So does every row that is waiting, retried or delivered.
RowsAreJustified ==
    \A t \in Occurrence :
        /\ Recorded(t) => executions[t].export \in Exports
        /\ executions[t].status = "delivered" => t \in accepted
        /\ executions[t].status \in {"ready", "delivered"} => HasArtifact(t)

\* An export is completed only after its artifact was stored.
CompletedHasArtifact == \A x \in Exports : exports[x].status = "completed" => exports[x].artifact

\* The inductive invariant of schedules and deliveries.
DeliveryInv ==
    /\ ScheduleShape /\ ExportsAreRecorded /\ OneExportPerOccurrence
    /\ \A t \in Occurrence : SendsAreCounted(t)
    /\ SendersAreJustified /\ RowsAreJustified /\ CompletedHasArtifact

-----------------------------------------------------------------------------
(* Types                                                                   *)

-----------------------------------------------------------------------------
(* Schedules: the next run and the types                                   *)

\* The multiples of a period.
LEMMA MultipleOf == ASSUME NEW p \in Nat \ {0}, NEW k \in Nat PROVE (p * k) % p = 0
<1> DEFINE m == (p * k) % p
           d == (p * k) \div p
<1>1. m \in 0 .. p - 1 /\ d \in Int /\ p * k = p * d + m
  OBVIOUS
<1> HIDE DEF m, d
<1>2. p * (k - d) = m
  BY <1>1
<1>3. PICK e \in Int : e = k - d
  BY <1>1
<1>4. CASE e >= 1
  <2>1. p * e >= p * 1
    BY <1>4, <1>3
  <2> QED BY <2>1, <1>1, <1>2, <1>3
<1>5. CASE e <= -1
  <2>1. p * e <= p * (-1)
    BY <1>5, <1>3
  <2> QED BY <2>1, <1>1, <1>2, <1>3
<1>6. CASE e = 0
  BY <1>6, <1>3, <1>2, <1>1
<1>7. m = 0
  BY <1>4, <1>5, <1>6, <1>1, <1>2, <1>3
<1> QED BY <1>7 DEF m

\* There is one in every interval of its length.
LEMMA MultipleWithin == ASSUME NEW p \in Nat \ {0}, NEW f \in Nat PROVE \E t \in f + 1 .. f + p : t % p = 0
<1> DEFINE d == f \div p
           m == f % p
<1>0. f = p * d + m /\ d \in Int /\ m \in 0 .. p - 1
  OBVIOUS
<1> HIDE DEF d, m
<1>5. ASSUME d <= -1 PROVE FALSE
  <2>1. p * d <= p * (-1)
    BY <1>0, <1>5
  <2> QED BY <2>1, <1>0
<1>1. d \in Nat
  BY <1>0, <1>5
<1>2. PICK k \in Nat : k = d + 1
  BY <1>1
<1>3. p * k = p * d + p
  BY <1>1, <1>2
<1>4. p * k \in f + 1 .. f + p
  BY <1>0, <1>1, <1>3
<1> QED BY <1>4, MultipleOf

\* So a schedule always has a next run.
LEMMA NextRunType ==
  ASSUME NEW period \in Periods, NEW from \in Nat PROVE NextRunAt(period, from) \in Nat
<1>1. period \in Nat \ {0}
  BY SchedulesAssumption
<1>2. \E t \in from + 1 .. from + period : t % period = 0
  BY <1>1, MultipleWithin
<1>3. NextRunAt(period, from) \in from + 1 .. from + period
  BY <1>2, Zenon DEF NextRunAt
<1> QED BY <1>1, <1>3

\* The invariant holds before the first poll.
LEMMA ScheduleInitially == ScheduleInit => DeliveryInv
<1> SUFFICES ASSUME ScheduleInit PROVE DeliveryInv
  OBVIOUS
<1>0. PICK period \in Periods :
        schedule = [exists |-> TRUE, enabled |-> TRUE, period |-> period,
                    next |-> NextRunAt(period, 0), error |-> FALSE]
  BY DEF ScheduleInit
<1>1. schedule \in Schedule /\ schedule.exists
  BY <1>0, NextRunType DEF Schedule
<1>2. \A x \in Exports : exports[x] = NoExport
  BY DEF ScheduleInit, ExportsInit
<1>3. NoExport \in ExportRow /\ NoExport.status = "absent"
  BY DEF NoExport, ExportRow
<1>4. NoExecution \in Execution /\ NoExecution.status = "absent"
  BY SchedulesAssumption DEF NoExecution, Execution
<1>5. PollIdle \in PollerRun /\ PollIdle.phase = "idle" /\ SendIdle \in SenderRun /\ SendIdle.phase = "idle"
  BY SchedulesAssumption DEF PollIdle, PollerRun, SendIdle, SenderRun
<1>6. ScheduleTypeOK
  BY <1>1, <1>3, <1>4, <1>5, SchedulesAssumption
     DEF ScheduleInit, ExportsInit, ScheduleTypeOK, PollerRun, SenderRun, NoOccurrence
<1>7. RunsInOrder
  BY <1>1, <1>5 DEF ScheduleInit, RunsInOrder, Busy
<1>8. ExportsAreRecorded /\ OneExportPerOccurrence /\ CompletedHasArtifact
  BY <1>2, <1>3 DEF ScheduleInit, ExportsAreRecorded, OneExportPerOccurrence, CompletedHasArtifact
<1>9. SendersAreJustified /\ RowsAreJustified
  BY <1>4, <1>5 DEF ScheduleInit, SendersAreJustified, RowsAreJustified, Busy, Recorded
<1>10. ASSUME NEW t \in Occurrence PROVE SendsAreCounted(t)
  <2>1. Claims(t) = {} /\ sends[t] = 0 /\ ~Recorded(t)
    BY <1>4, <1>5 DEF ScheduleInit, Claims, Recorded
  <2>2. Cardinality(Claims(t)) = 0
    BY <2>1, FS_EmptySet
  <2>3. \A s \in Senders : ~Busy(s)
    BY <1>5 DEF ScheduleInit, Busy
  <2> QED BY <2>1, <2>2, <2>3, SchedulesAssumption DEF SendsAreCounted
<1> QED BY <1>6, <1>7, <1>8, <1>9, <1>10 DEF DeliveryInv, ScheduleShape

\* The type invariant, with the names of the types.
LEMMA Typed ==
  ScheduleTypeOK <=>
    /\ exports \in [Exports -> ExportRow] /\ clock \in 0 .. MaxClock /\ schedule \in Schedule
    /\ executions \in [Occurrence -> Execution] /\ exportFor \in [Exports -> 0 .. MaxClock]
    /\ added \in SUBSET Exports /\ poller \in [Pollers -> PollerRun]
    /\ sender \in [Senders -> SenderRun] /\ sends \in [Occurrence -> Nat]
    /\ accepted \in SUBSET Occurrence /\ edits \in 0 .. MaxEdits /\ crashes \in 0 .. MaxCrashes
  BY DEF ScheduleTypeOK, PollerRun, SenderRun

\* The steps of the schedule, its routes and its clock.
LEMMA ScheduleStepShape ==
  ASSUME ScheduleShape,
         \/ TimePasses \/ DeleteSchedule
         \/ \E now \in Reading, period \in Periods, enabled \in BOOLEAN : PatchSchedule(now, period, enabled)
  PROVE  ScheduleShape'
<1>0. ScheduleTypeOK /\ RunsInOrder
  BY DEF ScheduleShape
<1>1. CASE TimePasses
  BY <1>0, <1>1, Typed, SchedulesAssumption DEF TimePasses, sendVars, ScheduleShape, RunsInOrder, Busy, ScheduleTypeOK
<1>2. CASE DeleteSchedule
  <2>1. schedule' \in Schedule /\ ~schedule'.enabled
    BY <1>0, <1>2, Typed DEF DeleteSchedule, Schedule
  <2>2. NoExecution \in Execution
    BY SchedulesAssumption DEF NoExecution, Execution
  <2>3. executions' \in [Occurrence -> Execution] /\ edits' \in 0 .. MaxEdits
    BY <1>0, <1>2, <2>2, Typed, SchedulesAssumption DEF DeleteSchedule
  <2> QED BY <1>0, <1>2, <2>1, <2>3 DEF DeleteSchedule, sendVars, ScheduleShape, RunsInOrder, Busy, ScheduleTypeOK
<1>3. ASSUME NEW now \in Reading, NEW period \in Periods, NEW enabled \in BOOLEAN,
             PatchSchedule(now, period, enabled)
      PROVE  ScheduleShape'
  <2>1. NextRunAt(period, now) \in Nat
    BY <1>0, Typed, NextRunType, SchedulesAssumption DEF Reading
  <2>2. schedule' \in Schedule /\ schedule'.exists
    BY <1>0, <1>3, <2>1, Typed DEF PatchSchedule, Schedule
  <2>4. edits < MaxEdits /\ edits' = edits + 1
    BY <1>3 DEF PatchSchedule
  <2>3. edits' \in 0 .. MaxEdits
    BY <1>0, <2>4, Typed, SchedulesAssumption
  <2> QED BY <1>0, <1>3, <2>2, <2>3 DEF PatchSchedule, sendVars, ScheduleShape, RunsInOrder, Busy, ScheduleTypeOK
<1> QED BY <1>1, <1>2, <1>3

\* A poller that becomes idle.
LEMMA PollerRests ==
  ASSUME ScheduleShape, NEW p \in Pollers, poller' = [poller EXCEPT ![p] = PollIdle]
  PROVE  /\ poller' \in [Pollers -> PollerRun]
         /\ \A q \in Pollers :
              /\ poller'[q].phase # "idle" => poller'[q].period \in Periods
              /\ poller'[q].phase = "adding" => poller'[q].occurrence \in Occurrence /\ poller'[q].export \in Exports
<1>1. PollIdle \in PollerRun /\ PollIdle.phase = "idle"
  BY SchedulesAssumption DEF PollIdle, PollerRun
<1> QED BY <1>1, Typed DEF ScheduleShape, RunsInOrder

\* A step of a scheduler keeps the types and the order of the runs.
LEMMA PollerStepShape ==
  ASSUME ScheduleShape, NEW p \in Pollers, PollerStep(p) \/ PollerDies(p)
  PROVE  ScheduleShape'
<1>0. ScheduleTypeOK /\ RunsInOrder
  BY DEF ScheduleShape
<1>1. ASSUME NEW now \in Reading, SelectDue(p, now) PROVE ScheduleShape'
  <2> DEFINE new == [phase |-> "selected", now |-> now, period |-> schedule.period, occurrence |-> 0, export |-> 0]
  <2>1. new \in PollerRun /\ new.phase = "selected" /\ new.period \in Periods
    BY <1>0, Typed, SchedulesAssumption DEF PollerRun, Schedule, Reading
  <2>2. poller' = [poller EXCEPT ![p] = new]
    BY <1>1 DEF SelectDue
  <2> HIDE DEF new
  <2>3. poller' \in [Pollers -> PollerRun]
    BY <1>0, <2>1, <2>2, Typed
  <2> QED BY <1>0, <1>1, <2>1, <2>2, <2>3, Typed DEF SelectDue, sendVars, ScheduleShape, RunsInOrder, Busy, ScheduleTypeOK, PollerRun
<1>2. CASE SkipSchedule(p)
  BY <1>0, <1>2, PollerRests DEF SkipSchedule, sendVars, ScheduleShape, RunsInOrder, Busy, ScheduleTypeOK, PollerRun
<1>3. CASE RunSchedule(p)
  <2> DEFINE t == schedule.next
             next == NextRunAt(poller[p].period, t)
  <2>1. t \in Occurrence /\ next \in Nat /\ poller[p] \in PollerRun /\ poller[p].phase = "selected" /\ poller[p].period \in Periods
    BY <1>0, <1>3, NextRunType, Typed DEF RunSchedule, MayRun, RunsInOrder, Occurrence, Schedule
  <2>2. CASE IsNew(t)
    <3>1. PICK x \in Exports :
              /\ Queue(x)
              /\ exportFor' = [exportFor EXCEPT ![x] = t]
              /\ executions' = [executions EXCEPT ![t] =
                    [status |-> "exporting", export |-> x, attempts |-> 0]]
              /\ schedule' = [schedule EXCEPT !.next = next, !.error = FALSE]
              /\ poller' = [poller EXCEPT ![p].phase = "adding", ![p].occurrence = t, ![p].export = x]
      BY <1>3, <2>2 DEF RunSchedule
    <3>2. exports' \in [Exports -> ExportRow]
      BY <1>0, <3>1, Typed DEF Queue, ExportRow
    <3>3. exportFor' \in [Exports -> 0 .. MaxClock]
      BY <1>0, <2>1, <3>1, Typed, SchedulesAssumption DEF Occurrence
    <3>4. executions' \in [Occurrence -> Execution]
      BY <1>0, <2>1, <3>1, Typed, SchedulesAssumption DEF Execution
    <3>5. schedule' \in Schedule /\ schedule'.enabled = schedule.enabled /\ schedule'.exists = schedule.exists
      BY <1>0, <2>1, <3>1, Typed DEF Schedule
    <3>6. poller' \in [Pollers -> PollerRun]
          /\ poller'[p].phase = "adding" /\ poller'[p].period = poller[p].period
          /\ poller'[p].occurrence = t /\ poller'[p].export = x
      <4> DEFINE b == [poller[p] EXCEPT !.phase = "adding", !.occurrence = t, !.export = x]
      <4>1. poller' = [poller EXCEPT ![p] = b]
        BY <3>1
      <4>2. t \in 0 .. MaxClock
        BY <2>1, SchedulesAssumption DEF Occurrence
      <4> HIDE DEF t, next
      <4>3. b \in PollerRun /\ b.phase = "adding" /\ b.period = poller[p].period /\ b.occurrence = t /\ b.export = x
        BY <2>1, <4>2 DEF PollerRun
      <4>4. poller \in [Pollers -> PollerRun]
        BY <1>0, Typed
      <4> HIDE DEF b
      <4> QED BY <4>1, <4>3, <4>4
    <3>7. \A q \in Pollers \ {p} : poller'[q] = poller[q]
      BY <1>0, <3>1, Typed
    <3>8. UNCHANGED <<clock, added, edits, sendVars, crashes>>
      BY <1>3 DEF RunSchedule
    <3> HIDE DEF t, next
    <3> QED BY <1>0, <2>1, <3>2, <3>3, <3>4, <3>5, <3>6, <3>7, <3>8
            DEF sendVars, ScheduleShape, RunsInOrder, Busy, ScheduleTypeOK, PollerRun
  <2>3. CASE ~IsNew(t)
    <3>1. schedule' \in Schedule /\ schedule'.enabled = schedule.enabled /\ schedule'.exists = schedule.exists
      BY <1>0, <1>3, <2>1, <2>3, Typed DEF RunSchedule, Schedule
    <3>2. poller' = [poller EXCEPT ![p] = PollIdle]
          /\ UNCHANGED <<exports, exportFor, executions, clock, added, edits, sendVars, crashes>>
      BY <1>3, <2>3 DEF RunSchedule
    <3> QED BY <1>0, <3>1, <3>2, PollerRests DEF sendVars, ScheduleShape, RunsInOrder, Busy, ScheduleTypeOK, PollerRun
  <2> QED BY <2>2, <2>3
<1>4. CASE AddExport(p)
  <2>1. added' \in SUBSET Exports
    BY <1>0, <1>4, Typed DEF AddExport, RunsInOrder
  <2> QED BY <1>0, <1>4, <2>1, PollerRests DEF AddExport, sendVars, ScheduleShape, RunsInOrder, Busy, ScheduleTypeOK, PollerRun
<1>5. ASSUME NEW landed \in BOOLEAN, AddFails(p, landed) PROVE ScheduleShape'
  <2>1. added' \in SUBSET Exports
    BY <1>0, <1>5, Typed DEF AddFails, RunsInOrder
  <2>2. executions' \in [Occurrence -> Execution]
    BY <1>0, <1>5, Typed DEF AddFails, Execution
  <2>3. schedule' \in Schedule /\ schedule'.enabled = schedule.enabled /\ schedule'.exists = schedule.exists
    BY <1>0, <1>5, Typed DEF AddFails, Schedule
  <2>4. poller' = [poller EXCEPT ![p] = PollIdle] /\ UNCHANGED <<exports, clock, exportFor, edits, sendVars, crashes>>
    BY <1>5 DEF AddFails
  <2> QED BY <1>0, <2>1, <2>2, <2>3, <2>4, PollerRests DEF sendVars, ScheduleShape, RunsInOrder, Busy, ScheduleTypeOK, PollerRun
<1>6. CASE PollerDies(p)
  <2>1. crashes' \in 0 .. MaxCrashes
    BY <1>0, <1>6, Typed, SchedulesAssumption DEF PollerDies
  <2> QED BY <1>0, <1>6, <2>1, PollerRests DEF PollerDies, sendVars, ScheduleShape, RunsInOrder, Busy, ScheduleTypeOK, PollerRun
<1> QED BY <1>1, <1>2, <1>3, <1>4, <1>5, <1>6 DEF PollerStep

-----------------------------------------------------------------------------
(* Schedules: the exports and the deliveries                               *)

\* What is, or was, in an export job stays there, and so does the job.
ArtifactsStay ==
    \A y \in Exports :
        /\ exports'[y].status = "absent" <=> exports[y].status = "absent"
        /\ exports[y].artifact \/ exports[y].status = "expired" =>
             exports'[y].artifact \/ exports'[y].status = "expired"
        /\ exports'[y].status = "completed" => exports'[y].artifact \/ exports'[y] = exports[y]

\* The export jobs that move keep what is, or was, in them.
LEMMA ExportStep ==
  ASSUME ScheduleShape, NEW x \in Exports, ExportMoves(x)
  PROVE  ScheduleShape' /\ ArtifactsStay /\ UNCHANGED <<scheduleVars, sendVars, crashes>>
<1>0. ScheduleTypeOK /\ RunsInOrder /\ exports \in [Exports -> ExportRow] /\ UNCHANGED <<scheduleVars, sendVars, crashes>>
  BY Typed DEF ScheduleShape, ExportMoves
<1>1. PICK row \in ExportRow :
        /\ exports' = [exports EXCEPT ![x] = row]
        /\ exports[x].status # "absent" /\ row.status # "absent"
        /\ exports[x].artifact \/ exports[x].status = "expired" => row.artifact \/ row.status = "expired"
        /\ row.status = "completed" => row.artifact
  <2>1. CASE Start(x)
    <3>1. exports' = [exports EXCEPT ![x] = [exports[x] EXCEPT !.status = "processing"]]
      BY <2>1 DEF Start
    <3> DEFINE row == [exports[x] EXCEPT !.status = "processing"]
    <3>2. row \in ExportRow /\ row.status = "processing" /\ row.artifact = exports[x].artifact
      BY <1>0 DEF ExportRow
    <3>3. exports[x].status # "absent" /\ exports[x].status # "expired"
      BY <2>1 DEF Start, Live
    <3> HIDE DEF row
    <3> QED BY <3>1, <3>2, <3>3 DEF row
  <2>2. CASE Store(x)
    <3>1. [status |-> "completed", artifact |-> TRUE] \in ExportRow
      BY DEF ExportRow
    <3> QED BY <1>0, <2>2, <3>1 DEF Store, Live
  <2>3. CASE Fail(x)
    <3>1. PICK outcome \in {"queued", "failed"} :
            exports' = [exports EXCEPT ![x] = [exports[x] EXCEPT !.status = outcome]]
      BY <2>3 DEF Fail
    <3> DEFINE row == [exports[x] EXCEPT !.status = outcome]
    <3>2. row \in ExportRow /\ row.status = outcome /\ row.artifact = exports[x].artifact
      BY <1>0 DEF ExportRow
    <3>3. exports[x].status # "absent" /\ exports[x].status # "expired"
      BY <2>3 DEF Fail, Live
    <3> HIDE DEF row
    <3> QED BY <3>1, <3>2, <3>3 DEF row
  <2>4. CASE Expire(x)
    <3>1. [status |-> "expired", artifact |-> FALSE] \in ExportRow
      BY DEF ExportRow
    <3> QED BY <1>0, <2>4, <3>1 DEF Expire
  <2> QED BY <2>1, <2>2, <2>3, <2>4 DEF ExportMoves
<1>2. exports' \in [Exports -> ExportRow]
  BY <1>0, <1>1
<1>3. ScheduleShape'
  BY <1>0, <1>2 DEF scheduleVars, sendVars, ScheduleShape, RunsInOrder, Busy, ScheduleTypeOK
<1>4. exports'[x] = row /\ \A y \in Exports : y # x => exports'[y] = exports[y]
  BY <1>0, <1>1
<1>5. ASSUME NEW y \in Exports
      PROVE  /\ exports'[y].status = "absent" <=> exports[y].status = "absent"
             /\ exports[y].artifact \/ exports[y].status = "expired" =>
                  exports'[y].artifact \/ exports'[y].status = "expired"
             /\ exports'[y].status = "completed" => exports'[y].artifact \/ exports'[y] = exports[y]
  BY <1>1, <1>4
<1> QED BY <1>0, <1>3, <1>4, <1>5 DEF ArtifactsStay

\* A delivery loop moves on with its row.
LEMMA SenderMoves ==
  ASSUME ScheduleShape, NEW s \in Senders, NEW b \in SenderRun, sender' = [sender EXCEPT ![s] = b],
         b.phase \in {"claimed", "accepted", "completed", "retry", "refused"} => b.occurrence \in Occurrence
  PROVE  /\ sender' \in [Senders -> SenderRun] /\ sender'[s] = b
         /\ \A o \in Senders \ {s} : sender'[o] = sender[o]
         /\ \A o \in Senders : Busy(o)' => sender'[o].occurrence \in Occurrence
  BY Typed DEF ScheduleShape, RunsInOrder, Busy

\* A loop that goes on with its row stays with its occurrence.
LEMMA NextPhase ==
  ASSUME NEW a \in SenderRun,
         NEW f \in {"idle", "claiming", "claimed", "accepted", "completed", "retry", "refused"}
  PROVE  /\ [a EXCEPT !.phase = f] \in SenderRun
         /\ [a EXCEPT !.phase = f].phase = f /\ [a EXCEPT !.phase = f].occurrence = a.occurrence
  BY DEF SenderRun

\* An UPDATE of an execution, which finds its row or not.
LEMMA StatusSet ==
  ASSUME ScheduleShape, NEW t \in Occurrence, NEW status \in {"exporting", "ready", "delivered", "failed"},
         SetStatus(t, status)
  PROVE  /\ executions' \in [Occurrence -> Execution]
         /\ \A u \in Occurrence :
              /\ executions'[u].export = executions[u].export /\ executions'[u].attempts = executions[u].attempts
              /\ executions'[u].status = IF u = t /\ Recorded(t) THEN status ELSE executions[u].status
              /\ Recorded(u)' <=> Recorded(u)
<1>0. executions \in [Occurrence -> Execution]
  BY Typed DEF ScheduleShape
<1>1. CASE ~Recorded(t)
  BY <1>0, <1>1 DEF SetStatus, Recorded
<1>2. CASE Recorded(t)
  <2> DEFINE row == [executions[t] EXCEPT !.status = status]
  <2>1. executions' = [executions EXCEPT ![t] = row]
    BY <1>2 DEF SetStatus
  <2>2. row \in Execution /\ row.status = status /\ row.export = executions[t].export /\ row.attempts = executions[t].attempts
    BY <1>0 DEF Execution
  <2> HIDE DEF row
  <2> QED BY <1>0, <1>2, <2>1, <2>2 DEF Recorded
<1> QED BY <1>1, <1>2

-----------------------------------------------------------------------------
(* The invariant                                                           *)

\* A step that claims nothing, inserts nothing and deletes nothing.
RowsStay ==
    \A t \in Occurrence :
        /\ executions'[t].export = executions[t].export /\ executions'[t].attempts = executions[t].attempts
        /\ Recorded(t)' <=> Recorded(t)
        /\ executions'[t].status = "delivered" => executions[t].status = "delivered" \/ t \in accepted'
        /\ executions'[t].status \in {"ready", "delivered"} =>
             executions[t].status \in {"ready", "delivered"} \/ HasArtifact(t)'

\* A step adds no claim, and no loop gets a row that it did not have.
SendersStay ==
    \A s \in Senders :
        /\ Busy(s)' => Busy(s) /\ sender'[s].occurrence = sender[s].occurrence
        /\ sender'[s].phase = "claimed" => sender[s].phase = "claimed"
        /\ sender'[s].phase \in {"accepted", "completed"} => sender'[s].occurrence \in accepted'

\* A message is paid for by the claim that it ends.
SendsStay ==
    \A t \in Occurrence :
        \/ sends'[t] = sends[t]
        \/ sends'[t] = sends[t] + 1 /\ \E s \in Claims(t) : sender'[s].phase # "claimed"

\* An export that had something to attach has.
LEMMA ArtifactStays ==
  ASSUME NEW t \in Occurrence, HasArtifact(t), ArtifactsStay, executions'[t].export = executions[t].export
  PROVE  HasArtifact(t)'
  BY DEF HasArtifact, ArtifactsStay

\* There are finitely many claims of an occurrence, before and after a step.
LEMMA ClaimsFinite ==
  ASSUME NEW t
  PROVE  /\ IsFiniteSet(Claims(t)) /\ Cardinality(Claims(t)) \in Nat
         /\ IsFiniteSet(Claims(t)') /\ Cardinality(Claims(t)') \in Nat
<1>1. Claims(t) \subseteq Senders /\ Claims(t)' \subseteq Senders
  BY DEF Claims
<1>2. IsFiniteSet(Claims(t)) /\ IsFiniteSet(Claims(t)')
  BY <1>1, FS_Subset, SchedulesAssumption
<1> QED BY <1>2, FS_CardinalityType

\* A message given to the provider ends its claim.
LEMMA CountStays ==
  ASSUME DeliveryInv, SendersStay, SendsStay, NEW t \in Occurrence, ScheduleShape'
  PROVE  sends'[t] + Cardinality(Claims(t)') <= sends[t] + Cardinality(Claims(t))
<1>0. sends[t] \in Nat /\ sends'[t] \in Nat
  BY DEF DeliveryInv, ScheduleShape, ScheduleTypeOK
<1>1. Claims(t)' \subseteq Claims(t)
  BY DEF Claims, SendersStay, Busy
<1>2. IsFiniteSet(Claims(t)) /\ Cardinality(Claims(t)) \in Nat
  BY ClaimsFinite
<1>3. /\ IsFiniteSet(Claims(t)') /\ Cardinality(Claims(t)') \in Nat
      /\ Cardinality(Claims(t)') <= Cardinality(Claims(t))
  BY <1>1, <1>2, FS_Subset, FS_CardinalityType
<1>4. CASE sends'[t] = sends[t]
  BY <1>0, <1>2, <1>3, <1>4
<1>5. ASSUME sends'[t] = sends[t] + 1, NEW s \in Claims(t), sender'[s].phase # "claimed"
      PROVE  sends'[t] + Cardinality(Claims(t)') <= sends[t] + Cardinality(Claims(t))
  <2>1. s \notin Claims(t)'
    BY <1>5 DEF Claims
  <2>2. Cardinality(Claims(t) \ {s}) = Cardinality(Claims(t)) - 1 /\ IsFiniteSet(Claims(t) \ {s})
    BY <1>2, <1>5, FS_RemoveElement
  <2>3. Claims(t)' \subseteq Claims(t) \ {s}
    BY <1>1, <2>1
  <2>4. Cardinality(Claims(t)') <= Cardinality(Claims(t) \ {s})
    BY <2>2, <2>3, FS_Subset
  <2> QED BY <1>0, <1>2, <1>3, <1>5, <2>2, <2>4
<1> QED BY <1>4, <1>5 DEF SendsStay

\* A step that takes nothing away leaves the deliveries justified.
LEMMA DeliveriesStay ==
  ASSUME DeliveryInv, ScheduleShape', UNCHANGED exportFor, schedule'.exists => schedule.exists,
         ArtifactsStay, accepted \subseteq accepted', RowsStay, SendersStay, SendsStay
  PROVE  DeliveryInv'
<1>1. ExportsAreRecorded'
  <2> SUFFICES ASSUME NEW x \in Exports
               PROVE  /\ exports'[x].status = "absent" => exportFor[x] = NoOccurrence
                      /\ schedule'.exists /\ exportFor[x] # NoOccurrence => Recorded(exportFor[x])'
    BY DEF ExportsAreRecorded
  <2>1. exportFor[x] \in 0 .. MaxClock
    BY DEF DeliveryInv, ScheduleShape, ScheduleTypeOK
  <2>2. exportFor[x] # NoOccurrence => exportFor[x] \in Occurrence
    BY <2>1, SchedulesAssumption DEF NoOccurrence, Occurrence
  <2> QED BY <2>2 DEF DeliveryInv, ExportsAreRecorded, ArtifactsStay, RowsStay
<1>2. OneExportPerOccurrence'
  BY DEF DeliveryInv, OneExportPerOccurrence
<1>3. ASSUME NEW t \in Occurrence PROVE SendsAreCounted(t)'
  <2>0. /\ sends[t] \in Nat /\ sends'[t] \in Nat /\ executions[t].attempts \in Nat
        /\ Cardinality(Claims(t)) \in Nat /\ Cardinality(Claims(t)') \in Nat
    BY ClaimsFinite, SchedulesAssumption DEF DeliveryInv, ScheduleShape, ScheduleTypeOK, Execution
  <2>1. sends'[t] + Cardinality(Claims(t)') <= IF Recorded(t)' THEN executions'[t].attempts ELSE MaxSends
    BY <2>0, CountStays, SchedulesAssumption DEF DeliveryInv, SendsAreCounted, RowsStay
  <2>2. ASSUME ~Recorded(t)', schedule'.exists
        PROVE  sends'[t] = 0 /\ \A s \in Senders : ~(Busy(s)' /\ sender'[s].occurrence = t)
    <3>1. sends[t] = 0 /\ \A s \in Senders : ~(Busy(s) /\ sender[s].occurrence = t)
      BY <2>2 DEF DeliveryInv, SendsAreCounted, RowsStay
    <3> QED BY <3>1 DEF SendsStay, SendersStay, Claims, Busy
  <2> QED BY <2>1, <2>2 DEF SendsAreCounted
<1>4. SendersAreJustified'
  <2>1. ASSUME NEW s \in Senders, Busy(s)', Recorded(sender[s].occurrence)'
        PROVE  HasArtifact(sender[s].occurrence)'
    <3>1. sender'[s].occurrence = sender[s].occurrence /\ Busy(s) /\ sender[s].occurrence \in Occurrence
      BY <2>1 DEF SendersStay, DeliveryInv, ScheduleShape, RunsInOrder
    <3>2. HasArtifact(sender[s].occurrence)
      BY <2>1, <3>1 DEF RowsStay, Recorded, DeliveryInv, SendersAreJustified
    <3> QED BY <3>1, <3>2, ArtifactStays DEF RowsStay, HasArtifact
  <2> QED BY <2>1 DEF SendersAreJustified, SendersStay, Recorded
<1>5. RowsAreJustified'
  <2> SUFFICES ASSUME NEW t \in Occurrence
               PROVE  /\ Recorded(t)' => executions'[t].export \in Exports
                      /\ executions'[t].status = "delivered" => t \in accepted'
                      /\ executions'[t].status \in {"ready", "delivered"} => HasArtifact(t)'
    BY DEF RowsAreJustified
  <2>1. HasArtifact(t) => HasArtifact(t)'
    BY ArtifactStays DEF RowsStay
  <2> QED BY <2>1 DEF RowsStay, DeliveryInv, RowsAreJustified
<1>6. CompletedHasArtifact'
  BY DEF DeliveryInv, CompletedHasArtifact, ArtifactsStay
<1> QED BY <1>1, <1>2, <1>3, <1>4, <1>5, <1>6 DEF DeliveryInv

\* A step that touches neither the rows nor the loops.
LEMMA QuietKeeps ==
  ASSUME DeliveryInv, ScheduleShape', schedule'.exists => schedule.exists,
         UNCHANGED <<exports, executions, exportFor, sender, sends, accepted>>
  PROVE  DeliveryInv'
<1>1. ArtifactsStay /\ RowsStay /\ SendsStay
  BY DEF ArtifactsStay, RowsStay, SendsStay, Recorded
<1>2. SendersStay
  BY DEF SendersStay, Busy, DeliveryInv, SendersAreJustified
<1> QED BY <1>1, <1>2, DeliveriesStay

\* A schedule is deleted with its executions; the loops that hold one go on.
LEMMA DeleteKeeps == ASSUME DeliveryInv, DeleteSchedule PROVE DeliveryInv'
<1>0. ScheduleShape' /\ ScheduleTypeOK
  BY ScheduleStepShape DEF DeliveryInv, ScheduleShape
<1>1. /\ \A t \in Occurrence : executions'[t].status = "absent"
      /\ ~schedule'.exists /\ UNCHANGED <<exports, exportFor, sender, sends, accepted>>
  BY <1>0 DEF DeleteSchedule, sendVars, NoExecution, ScheduleTypeOK, Schedule
<1>2. ExportsAreRecorded' /\ OneExportPerOccurrence' /\ CompletedHasArtifact'
  BY <1>1 DEF DeliveryInv, ExportsAreRecorded, OneExportPerOccurrence, CompletedHasArtifact
<1>3. ASSUME NEW t \in Occurrence PROVE SendsAreCounted(t)'
  <2>1. Claims(t)' = Claims(t)
    BY <1>1 DEF Claims
  <2>2. sends[t] + Cardinality(Claims(t)) <= MaxSends
    <3>1. sends[t] \in Nat /\ Cardinality(Claims(t)) \in Nat /\ executions[t].attempts \in 0 .. MaxSends
      BY <1>0, ClaimsFinite DEF ScheduleTypeOK, Execution
    <3> QED BY <3>1, SchedulesAssumption DEF DeliveryInv, SendsAreCounted
  <2> QED BY <1>1, <2>1, <2>2 DEF SendsAreCounted, Recorded
<1>4. SendersAreJustified'
  <2>1. \A s \in Senders : Busy(s)' => Busy(s) /\ sender'[s].occurrence \in Occurrence
    BY <1>0, <1>1 DEF Busy, ScheduleShape, RunsInOrder
  <2> QED BY <1>1, <2>1 DEF DeliveryInv, SendersAreJustified, Recorded
<1>5. RowsAreJustified'
  BY <1>1 DEF RowsAreJustified, Recorded
<1> QED BY <1>0, <1>2, <1>3, <1>4, <1>5 DEF DeliveryInv

\* The insertion of an execution and its export job.
LEMMA InsertKeeps ==
  ASSUME DeliveryInv, ScheduleShape', NEW t \in Occurrence, ~Recorded(t), schedule.exists,
         NEW x \in Exports, IsFresh(x), Queue(x), exportFor' = [exportFor EXCEPT ![x] = t],
         executions' = [executions EXCEPT ![t] = [status |-> "exporting", export |-> x, attempts |-> 0]],
         UNCHANGED sendVars
  PROVE  DeliveryInv'
<1>0. ScheduleTypeOK
  BY DEF DeliveryInv, ScheduleShape
<1>1. /\ executions'[t].status = "exporting" /\ executions'[t].export = x /\ executions'[t].attempts = 0
      /\ \A u \in Occurrence \ {t} : executions'[u] = executions[u]
  BY <1>0 DEF ScheduleTypeOK
<1>2. /\ exports[x].status = "absent" /\ exports'[x].status = "queued" /\ exports'[x].artifact = exports[x].artifact
      /\ \A y \in Exports \ {x} : exports'[y] = exports[y]
  BY <1>0 DEF Queue, ScheduleTypeOK, ExportRow
<1>3. exportFor'[x] = t /\ \A y \in Exports \ {x} : exportFor'[y] = exportFor[y]
  BY <1>0 DEF ScheduleTypeOK
<1>4. UNCHANGED <<sender, sends, accepted>>
  BY DEF sendVars
<1>5. \A y \in Exports : exportFor[y] # t
  BY SchedulesAssumption DEF DeliveryInv, ExportsAreRecorded, NoOccurrence, Occurrence
<1>6. Recorded(t)' /\ \A u \in Occurrence \ {t} : Recorded(u)' <=> Recorded(u)
  BY <1>1 DEF Recorded
<1>7. ExportsAreRecorded'
  <2>1. \A y \in Exports : exportFor[y] # NoOccurrence => exportFor[y] \in Occurrence
    BY <1>0, SchedulesAssumption DEF ScheduleTypeOK, NoOccurrence, Occurrence
  <2>2. ASSUME NEW y \in Exports \ {x}
        PROVE  /\ exports'[y].status = "absent" => exportFor'[y] = NoOccurrence
               /\ schedule'.exists /\ exportFor'[y] # NoOccurrence => Recorded(exportFor[y])'
    BY <1>2, <1>3, <1>5, <1>6, <2>1 DEF DeliveryInv, ExportsAreRecorded
  <2>3. \A y \in Exports \ {x} : Recorded(exportFor[y])' <=> executions'[exportFor[y]].status # "absent"
    BY <1>3 DEF Recorded
  <2> QED BY <1>1, <1>2, <1>3, <2>2, <2>3 DEF ExportsAreRecorded, Recorded
<1>8. OneExportPerOccurrence'
  BY <1>3, <1>5 DEF DeliveryInv, OneExportPerOccurrence
<1>9. CompletedHasArtifact'
  BY <1>2 DEF DeliveryInv, CompletedHasArtifact
<1>10. \A u \in Occurrence \ {t} : HasArtifact(u) => HasArtifact(u)'
  BY <1>1, <1>2 DEF HasArtifact
<1>11. \A s \in Senders : Busy(s) => sender[s].occurrence \in Occurrence \ {t}
  BY DEF DeliveryInv, SendsAreCounted, ScheduleShape, RunsInOrder
<1>12. ASSUME NEW u \in Occurrence PROVE SendsAreCounted(u)'
  <2>1. Claims(u)' = Claims(u)
    BY <1>4 DEF Claims
  <2>2. CASE u = t
    <3>1. sends[t] = 0 /\ Claims(t) = {}
      BY DEF DeliveryInv, SendsAreCounted, Claims, Busy
    <3>2. Cardinality(Claims(t)) = 0
      BY <3>1, FS_EmptySet
    <3> QED BY <1>1, <1>4, <1>6, <2>1, <2>2, <3>1, <3>2 DEF SendsAreCounted
  <2>3. CASE u # t
    BY <1>1, <1>4, <1>6, <2>1, <2>3 DEF DeliveryInv, SendsAreCounted, Busy
  <2> QED BY <2>2, <2>3
<1>13. SendersAreJustified'
  <2>1. ASSUME NEW s \in Senders, Busy(s)', Recorded(sender[s].occurrence)'
        PROVE  HasArtifact(sender[s].occurrence)'
    <3>1. Busy(s) /\ sender[s].occurrence \in Occurrence \ {t} /\ sender'[s] = sender[s]
      BY <1>4, <1>11, <2>1 DEF Busy
    <3>2. HasArtifact(sender[s].occurrence)
      BY <1>1, <2>1, <3>1 DEF Recorded, DeliveryInv, SendersAreJustified
    <3> QED BY <1>1, <1>2, <3>1, <3>2 DEF HasArtifact
  <2> QED BY <1>4, <2>1 DEF DeliveryInv, SendersAreJustified, Busy, Recorded
<1>14. RowsAreJustified'
  BY <1>1, <1>4, <1>6, <1>10 DEF DeliveryInv, RowsAreJustified
<1> QED BY <1>7, <1>8, <1>9, <1>12, <1>13, <1>14 DEF DeliveryInv

\* A scheduler selects, inserts, adds its export and computes the next run.
LEMMA PollerKeeps == ASSUME DeliveryInv, NEW p \in Pollers, PollerStep(p) \/ PollerDies(p) PROVE DeliveryInv'
<1>0. ScheduleShape' /\ ScheduleTypeOK /\ RunsInOrder /\ ScheduleShape
  BY PollerStepShape DEF DeliveryInv, ScheduleShape
<1>1. CASE SkipSchedule(p) \/ AddExport(p) \/ PollerDies(p) \/ \E now \in Reading : SelectDue(p, now)
  BY <1>0, <1>1, QuietKeeps DEF SkipSchedule, AddExport, PollerDies, SelectDue, sendVars
<1>2. CASE RunSchedule(p)
  <2> DEFINE t == schedule.next
  <2>1. t \in Occurrence /\ schedule.exists
    BY <1>0, <1>2 DEF RunSchedule, MayRun, RunsInOrder
  <2>2. CASE IsNew(t)
    <3>1. PICK x \in Exports :
              /\ IsFresh(x) /\ Queue(x)
              /\ exportFor' = [exportFor EXCEPT ![x] = t]
              /\ executions' = [executions EXCEPT ![t] = [status |-> "exporting", export |-> x, attempts |-> 0]]
      BY <1>2, <2>2 DEF RunSchedule
    <3>2. UNCHANGED sendVars /\ ~Recorded(t)
      BY <1>2, <2>2 DEF RunSchedule, IsNew
    <3> HIDE DEF t
    <3> QED BY <1>0, <2>1, <3>1, <3>2, InsertKeeps
  <2>3. CASE ~IsNew(t)
    <3>1. schedule'.exists = schedule.exists /\ UNCHANGED <<exports, executions, exportFor, sendVars>>
      BY <1>0, <1>2, <2>3 DEF RunSchedule, ScheduleTypeOK, Schedule
    <3> QED BY <1>0, <3>1, QuietKeeps DEF sendVars
  <2> QED BY <2>2, <2>3
<1>3. ASSUME NEW landed \in BOOLEAN, AddFails(p, landed) PROVE DeliveryInv'
  <2> DEFINE t == poller[p].occurrence
  <2>1. t \in Occurrence /\ UNCHANGED <<exports, exportFor, sender, sends, accepted>>
    BY <1>0, <1>3 DEF AddFails, RunsInOrder, sendVars
  <2>2. SetStatus(t, "failed")
    BY <1>3 DEF AddFails, SetStatus
  <2>3. schedule'.exists = schedule.exists
    BY <1>0, <1>3 DEF AddFails, ScheduleTypeOK, Schedule
  <2> HIDE DEF t
  <2>4. /\ executions' \in [Occurrence -> Execution]
        /\ \A u \in Occurrence :
              /\ executions'[u].export = executions[u].export /\ executions'[u].attempts = executions[u].attempts
              /\ executions'[u].status = IF u = t /\ Recorded(t) THEN "failed" ELSE executions[u].status
              /\ Recorded(u)' <=> Recorded(u)
    BY <1>0, <2>1, <2>2, StatusSet
  <2>5. ArtifactsStay /\ SendsStay
    BY <2>1 DEF ArtifactsStay, SendsStay
  <2>6. SendersStay
    BY <2>1 DEF SendersStay, Busy, DeliveryInv, SendersAreJustified
  <2>7. RowsStay
    BY <2>4 DEF RowsStay
  <2> QED BY <1>0, <2>1, <2>3, <2>5, <2>6, <2>7, DeliveriesStay
<1> QED BY <1>1, <1>2, <1>3 DEF PollerStep

\* A delivery loop that leaves the rows alone and goes on with its own row, or ends.
LEMMA LoopMoves ==
  ASSUME DeliveryInv, NEW s \in Senders, NEW b \in SenderRun, sender' = [sender EXCEPT ![s] = b],
         b.phase # "claimed",
         b.phase \in {"accepted", "completed", "retry", "refused"} =>
             Busy(s) /\ b.occurrence = sender[s].occurrence,
         b.phase \in {"accepted", "completed"} => b.occurrence \in accepted',
         UNCHANGED <<exports, clock, exportFor, added, poller, edits>>,
         schedule' \in Schedule, schedule'.exists = schedule.exists, schedule'.enabled = schedule.enabled,
         executions' \in [Occurrence -> Execution], RowsStay, crashes' \in 0 .. MaxCrashes,
         \/ UNCHANGED <<sends, accepted>>
         \/ /\ sender[s].phase = "claimed" /\ sends' = [sends EXCEPT ![sender[s].occurrence] = @ + 1]
            /\ accepted' \in {accepted, accepted \cup {sender[s].occurrence}}
  PROVE  DeliveryInv'
<1>0. ScheduleTypeOK /\ ScheduleShape /\ RunsInOrder /\ sender \in [Senders -> SenderRun]
  BY Typed DEF DeliveryInv, ScheduleShape
<1>1. Busy(s) => sender[s].occurrence \in Occurrence
  BY <1>0 DEF RunsInOrder
<1>2. /\ sender' \in [Senders -> SenderRun] /\ sender'[s] = b
      /\ \A o \in Senders \ {s} : sender'[o] = sender[o]
      /\ \A o \in Senders : Busy(o)' => sender'[o].occurrence \in Occurrence
  BY <1>0, <1>1, SenderMoves
<1>3. sends' \in [Occurrence -> Nat] /\ accepted' \in SUBSET Occurrence /\ accepted \subseteq accepted' /\ SendsStay
  <2>1. CASE UNCHANGED <<sends, accepted>>
    BY <1>0, <2>1 DEF ScheduleTypeOK, SendsStay
  <2>2. CASE /\ sender[s].phase = "claimed" /\ sends' = [sends EXCEPT ![sender[s].occurrence] = @ + 1]
             /\ accepted' \in {accepted, accepted \cup {sender[s].occurrence}}
    <3>1. sender[s].occurrence \in Occurrence
      BY <1>1, <2>2 DEF Busy
    <3>2. s \in Claims(sender[s].occurrence)
      BY <2>2 DEF Claims
    <3>3. SendsStay
      BY <1>0, <1>2, <2>2, <3>1, <3>2 DEF SendsStay, ScheduleTypeOK
    <3> QED BY <1>0, <2>2, <3>1, <3>3 DEF ScheduleTypeOK
  <2> QED BY <2>1, <2>2
<1>4. ScheduleTypeOK'
  BY <1>0, <1>2, <1>3 DEF ScheduleTypeOK, SenderRun
<1>5. RunsInOrder'
  BY <1>0, <1>2 DEF RunsInOrder
<1>6. SendersStay
  <2>1. ASSUME NEW o \in Senders \ {s}
        PROVE  /\ Busy(o)' => Busy(o) /\ sender'[o].occurrence = sender[o].occurrence
               /\ sender'[o].phase = "claimed" => sender[o].phase = "claimed"
               /\ sender'[o].phase \in {"accepted", "completed"} => sender'[o].occurrence \in accepted'
    BY <1>2, <1>3 DEF Busy, DeliveryInv, SendersAreJustified
  <2>2. /\ Busy(s)' => Busy(s) /\ sender'[s].occurrence = sender[s].occurrence
        /\ sender'[s].phase # "claimed"
        /\ sender'[s].phase \in {"accepted", "completed"} => sender'[s].occurrence \in accepted'
    BY <1>2 DEF Busy
  <2> QED BY <2>1, <2>2 DEF SendersStay
<1>7. ArtifactsStay
  BY DEF ArtifactsStay
<1> QED BY <1>3, <1>4, <1>5, <1>6, <1>7, DeliveriesStay DEF ScheduleShape

\* ... without an UPDATE.
LEMMA LoopOnly ==
  ASSUME DeliveryInv, NEW s \in Senders, NEW b \in SenderRun, sender' = [sender EXCEPT ![s] = b],
         b.phase # "claimed",
         b.phase \in {"accepted", "completed", "retry", "refused"} =>
             Busy(s) /\ b.occurrence = sender[s].occurrence,
         b.phase \in {"accepted", "completed"} => b.occurrence \in accepted',
         UNCHANGED <<exports, scheduleVars>>, crashes' \in 0 .. MaxCrashes,
         \/ UNCHANGED <<sends, accepted>>
         \/ /\ sender[s].phase = "claimed" /\ sends' = [sends EXCEPT ![sender[s].occurrence] = @ + 1]
            /\ accepted' \in {accepted, accepted \cup {sender[s].occurrence}}
  PROVE  DeliveryInv'
<1>1. /\ UNCHANGED <<exports, clock, schedule, executions, exportFor, added, poller, edits>>
      /\ schedule \in Schedule /\ executions \in [Occurrence -> Execution]
  BY DEF scheduleVars, DeliveryInv, ScheduleShape, ScheduleTypeOK
<1>2. RowsStay
  BY <1>1 DEF RowsStay, Recorded
<1> QED BY <1>1, <1>2, LoopMoves

\* The claim of a row that is ready counts an attempt.
LEMMA ClaimKeeps ==
  ASSUME DeliveryInv, NEW s \in Senders, NEW t \in Occurrence, ClaimExecution(s, t) PROVE DeliveryInv'
<1>0. ScheduleTypeOK /\ ScheduleShape /\ RunsInOrder /\ sender \in [Senders -> SenderRun]
  BY Typed DEF DeliveryInv, ScheduleShape
<1>1. /\ executions[t].status = "ready" /\ executions[t] \in Execution /\ executions[t].attempts < MaxSends
      /\ sender[s].phase = "claiming" /\ UNCHANGED <<exports, clock, schedule, exportFor, added, poller, edits, sends, accepted, crashes>>
  BY <1>0 DEF ClaimExecution, Claimable, ScheduleTypeOK
<1> DEFINE row == [executions[t] EXCEPT !.attempts = @ + 1]
           b == [phase |-> "claimed", occurrence |-> t, attempt |-> executions[t].attempts + 1]
<1>2. /\ row \in Execution /\ row.status = "ready" /\ row.export = executions[t].export
      /\ row.attempts = executions[t].attempts + 1
  BY <1>1, SchedulesAssumption DEF Execution
<1>3. b \in SenderRun /\ b.phase = "claimed" /\ b.occurrence = t
  BY <1>1, SchedulesAssumption DEF SenderRun, Occurrence, Execution
<1>4. executions' = [executions EXCEPT ![t] = row] /\ sender' = [sender EXCEPT ![s] = b]
  BY DEF ClaimExecution
<1> HIDE DEF row, b
<1>5. /\ executions' \in [Occurrence -> Execution] /\ executions'[t] = row
      /\ \A u \in Occurrence \ {t} : executions'[u] = executions[u]
  BY <1>0, <1>2, <1>4 DEF ScheduleTypeOK
<1>6. /\ sender' \in [Senders -> SenderRun] /\ sender'[s] = b
      /\ \A o \in Senders \ {s} : sender'[o] = sender[o]
      /\ \A o \in Senders : Busy(o)' => sender'[o].occurrence \in Occurrence
  BY <1>0, <1>3, <1>4, SenderMoves
<1>7. ScheduleShape'
  BY <1>0, <1>1, <1>5, <1>6 DEF ScheduleShape, ScheduleTypeOK, RunsInOrder, SenderRun
<1>8. \A u \in Occurrence : /\ Recorded(u)' <=> Recorded(u)
                            /\ HasArtifact(u)' <=> HasArtifact(u)
                            /\ executions'[u].export = executions[u].export
                            /\ executions'[u].status = executions[u].status
  BY <1>1, <1>2, <1>5 DEF Recorded, HasArtifact
<1>9. ExportsAreRecorded' /\ OneExportPerOccurrence' /\ CompletedHasArtifact'
  <2>1. \A y \in Exports : exportFor[y] # NoOccurrence => exportFor[y] \in Occurrence
    BY <1>0, SchedulesAssumption DEF ScheduleTypeOK, NoOccurrence, Occurrence
  <2> QED BY <1>1, <1>8, <2>1 DEF DeliveryInv, ExportsAreRecorded, OneExportPerOccurrence, CompletedHasArtifact, Recorded
<1>10. Recorded(t) /\ HasArtifact(t)
  BY <1>1 DEF Recorded, DeliveryInv, RowsAreJustified
<1>11. ASSUME NEW u \in Occurrence PROVE SendsAreCounted(u)'
  <2>0. /\ sends[u] \in Nat /\ executions[u].attempts \in Nat /\ IsFiniteSet(Claims(u))
        /\ Cardinality(Claims(u)) \in Nat /\ SendsAreCounted(u)
    BY <1>0, ClaimsFinite DEF DeliveryInv, ScheduleTypeOK, Execution
  <2>1. CASE u = t
    <3>1. Claims(t)' = Claims(t) \cup {s}
      BY <1>1, <1>3, <1>6 DEF Claims
    <3>2. s \notin Claims(t)
      BY <1>1 DEF Claims
    <3>3. Cardinality(Claims(t)') = Cardinality(Claims(t)) + 1
      BY <2>0, <2>1, <3>1, <3>2, FS_AddElement
    <3> QED BY <1>1, <1>2, <1>5, <1>8, <1>10, <2>0, <2>1, <3>3 DEF SendsAreCounted
  <2>2. CASE u # t
    <3>1. Claims(u)' = Claims(u)
      BY <1>1, <1>3, <1>6, <2>2 DEF Claims
    <3>2. \A o \in Senders : Busy(o)' /\ sender'[o].occurrence = u => Busy(o) /\ sender[o].occurrence = u
      BY <1>3, <1>6, <2>2 DEF Busy
    <3> QED BY <1>1, <1>5, <1>8, <2>0, <2>2, <3>1, <3>2 DEF SendsAreCounted
  <2> QED BY <2>1, <2>2
<1>12. SendersAreJustified'
  <2>1. ASSUME NEW o \in Senders \ {s}
        PROVE  /\ Busy(o)' /\ Recorded(sender[o].occurrence)' => HasArtifact(sender[o].occurrence)'
               /\ sender'[o].phase \in {"accepted", "completed"} => sender'[o].occurrence \in accepted'
    <3>1. sender'[o] = sender[o] /\ (Busy(o) => sender[o].occurrence \in Occurrence)
      BY <1>0, <1>6 DEF RunsInOrder
    <3> QED BY <1>1, <1>8, <3>1 DEF Busy, Recorded, HasArtifact, DeliveryInv, SendersAreJustified
  <2>2. /\ sender'[s].occurrence = t /\ HasArtifact(t)' /\ sender'[s].phase = "claimed"
    BY <1>3, <1>6, <1>8, <1>10
  <2> QED BY <2>1, <2>2 DEF SendersAreJustified, HasArtifact
<1>13. RowsAreJustified'
  BY <1>1, <1>8 DEF DeliveryInv, RowsAreJustified
<1> QED BY <1>7, <1>9, <1>11, <1>12, <1>13 DEF DeliveryInv

\* A delivery loop claims, sends, records, retries, gives up or dies.
LEMMA SenderKeeps == ASSUME DeliveryInv, NEW s \in Senders, SenderStep(s) \/ SenderDies(s) PROVE DeliveryInv'
<1>0. /\ ScheduleTypeOK /\ ScheduleShape /\ sender[s] \in SenderRun /\ crashes \in 0 .. MaxCrashes
      /\ schedule \in Schedule /\ executions \in [Occurrence -> Execution]
      /\ Busy(s) => sender[s].occurrence \in Occurrence
  BY Typed DEF DeliveryInv, ScheduleShape, RunsInOrder
<1>1. SendIdle \in SenderRun /\ SendIdle.phase = "idle"
      /\ [SendIdle EXCEPT !.phase = "claiming"] \in SenderRun /\ [SendIdle EXCEPT !.phase = "claiming"].phase = "claiming"
  BY SchedulesAssumption DEF SendIdle, SenderRun
<1>2. CASE PromoteCompletedExports(s)
  <2>1. sender' = [sender EXCEPT ![s] = [sender[s] EXCEPT !.phase = "claiming"]]
    BY <1>2 DEF PromoteCompletedExports
  <2>2. ASSUME NEW t \in Occurrence
        PROVE  /\ executions'[t] \in Execution
               /\ executions'[t].export = executions[t].export /\ executions'[t].attempts = executions[t].attempts
               /\ Recorded(t)' <=> Recorded(t)
               /\ executions'[t].status = "delivered" => executions[t].status = "delivered"
               /\ executions'[t].status \in {"ready", "delivered"} =>
                      executions[t].status \in {"ready", "delivered"} \/ HasArtifact(t)'
    <3>0. executions[t] \in Execution /\ executions'[t] = Promoted(t) /\ exports' = exports
      BY <1>0, <1>2 DEF PromoteCompletedExports
    <3>1. CASE executions[t].status = "exporting" /\ exports[executions[t].export].status \in {"completed", "failed"}
      <4> DEFINE status == IF exports[executions[t].export].status = "completed" THEN "ready" ELSE "failed"
                 row == [executions[t] EXCEPT !.status = status]
      <4>1. executions'[t] = row
        BY <3>0, <3>1 DEF Promoted
      <4>2. row \in Execution /\ row.status = status /\ row.export = executions[t].export /\ row.attempts = executions[t].attempts
        BY <3>0 DEF Execution
      <4> HIDE DEF row
      <4>3. status = "ready" => HasArtifact(t)'
        <5>1. executions[t].export \in Exports
          BY <3>1 DEF DeliveryInv, RowsAreJustified, Recorded
        <5> QED BY <3>0, <4>1, <4>2, <5>1 DEF HasArtifact, DeliveryInv, CompletedHasArtifact
      <4> QED BY <3>1, <4>1, <4>2, <4>3 DEF Recorded
    <3>2. CASE ~(executions[t].status = "exporting" /\ exports[executions[t].export].status \in {"completed", "failed"})
      <4>1. executions'[t] = executions[t]
        BY <3>0, <3>2 DEF Promoted
      <4> QED BY <3>0, <4>1 DEF Recorded
    <3> QED BY <3>1, <3>2
  <2>3. RowsStay
    BY <2>2 DEF RowsStay
  <2>4. executions' \in [Occurrence -> Execution]
    BY <1>2, <2>2 DEF PromoteCompletedExports
  <2>5. [sender[s] EXCEPT !.phase = "claiming"] \in SenderRun /\ [sender[s] EXCEPT !.phase = "claiming"].phase = "claiming"
    BY <1>0, NextPhase
  <2>6. UNCHANGED <<exports, clock, schedule, exportFor, added, poller, edits, sends, accepted, crashes>>
    BY <1>2 DEF PromoteCompletedExports
  <2> QED BY <1>0, <2>1, <2>3, <2>4, <2>5, <2>6, LoopMoves
<1>3. ASSUME NEW t \in Occurrence, ClaimExecution(s, t) PROVE DeliveryInv'
  BY <1>3, ClaimKeeps
<1>4. CASE SendAccepted(s)
  <2> DEFINE b == [sender[s] EXCEPT !.phase = "accepted"]
  <2>1. sender' = [sender EXCEPT ![s] = b] /\ sender[s].phase = "claimed"
        /\ sends' = [sends EXCEPT ![sender[s].occurrence] = @ + 1] /\ accepted' = accepted \cup {sender[s].occurrence}
        /\ UNCHANGED <<exports, scheduleVars, crashes>>
    BY <1>4 DEF SendAccepted
  <2>2. b \in SenderRun /\ b.phase = "accepted" /\ b.occurrence = sender[s].occurrence
    BY <1>0 DEF SenderRun
  <2> HIDE DEF b
  <2> QED BY <1>0, <2>1, <2>2, LoopOnly DEF Busy
<1>5. CASE SendFails(s)
  <2>1. PICK f \in {"refused", "retry"} : sender' = [sender EXCEPT ![s] = [sender[s] EXCEPT !.phase = f]]
    BY <1>5 DEF SendFails
  <2>2. /\ sender[s].phase = "claimed" /\ sends' = [sends EXCEPT ![sender[s].occurrence] = @ + 1]
        /\ accepted' \in {accepted, accepted \cup {sender[s].occurrence}}
        /\ UNCHANGED <<exports, scheduleVars, crashes>>
    BY <1>5 DEF SendFails
  <2> DEFINE b == [sender[s] EXCEPT !.phase = f]
  <2>4. sender' = [sender EXCEPT ![s] = b]
    BY <2>1
  <2>3. b \in SenderRun /\ b.phase = f /\ b.occurrence = sender[s].occurrence
    BY <1>0 DEF SenderRun
  <2> HIDE DEF b
  <2> QED BY <1>0, <2>2, <2>3, <2>4, LoopOnly DEF Busy
<1>6. CASE CannotSend(s) \/ CompletionFails(s)
  <2>1. PICK f \in {"refused", "retry"} : sender' = [sender EXCEPT ![s] = [sender[s] EXCEPT !.phase = f]]
    BY <1>6 DEF CannotSend, CompletionFails
  <2>2. Busy(s) /\ UNCHANGED <<exports, scheduleVars, sends, accepted, crashes>>
    BY <1>6 DEF CannotSend, CompletionFails, Busy
  <2> DEFINE b == [sender[s] EXCEPT !.phase = f]
  <2>4. sender' = [sender EXCEPT ![s] = b]
    BY <2>1
  <2>3. b \in SenderRun /\ b.phase = f /\ b.occurrence = sender[s].occurrence
    BY <1>0 DEF SenderRun
  <2> HIDE DEF b
  <2> QED BY <1>0, <2>2, <2>3, <2>4, LoopOnly
<1>7. CASE CompleteDelivery(s)
  <2> DEFINE t == sender[s].occurrence
             b == [sender[s] EXCEPT !.phase = "completed"]
  <2>1. /\ sender[s].phase = "accepted" /\ SetStatus(t, "delivered")
        /\ sender' = [sender EXCEPT ![s] = b]
        /\ UNCHANGED <<exports, clock, schedule, exportFor, added, poller, edits, sends, accepted, crashes>>
    BY <1>7 DEF CompleteDelivery
  <2>2. t \in Occurrence /\ Busy(s) /\ t \in accepted /\ (Recorded(t) => HasArtifact(t))
    BY <1>0, <2>1 DEF Busy, DeliveryInv, SendersAreJustified
  <2>3. b \in SenderRun /\ b.phase = "completed" /\ b.occurrence = t
    BY <1>0 DEF SenderRun
  <2> HIDE DEF b
  <2> HIDE DEF t
  <2>4. /\ executions' \in [Occurrence -> Execution]
        /\ \A u \in Occurrence :
              /\ executions'[u].export = executions[u].export /\ executions'[u].attempts = executions[u].attempts
              /\ executions'[u].status = IF u = t /\ Recorded(t) THEN "delivered" ELSE executions[u].status
              /\ Recorded(u)' <=> Recorded(u)
    BY <1>0, <2>1, <2>2, StatusSet
  <2>5. \A u \in Occurrence : HasArtifact(u)' <=> HasArtifact(u)
    BY <2>1, <2>4 DEF HasArtifact
  <2>6. RowsStay
    BY <2>1, <2>2, <2>4, <2>5 DEF RowsStay
  <2> QED BY <1>0, <2>1, <2>2, <2>3, <2>4, <2>6, LoopMoves DEF t
<1>8. CASE NoteSuccess(s)
  <2>1. /\ sender' = [sender EXCEPT ![s] = [SendIdle EXCEPT !.phase = "claiming"]]
        /\ UNCHANGED <<exports, clock, executions, exportFor, added, poller, edits, sends, accepted, crashes>>
    BY <1>8 DEF NoteSuccess
  <2>2. schedule' \in Schedule /\ schedule'.exists = schedule.exists /\ schedule'.enabled = schedule.enabled
    BY <1>0, <1>8 DEF NoteSuccess, Schedule
  <2>3. RowsStay
    BY <2>1 DEF RowsStay, Recorded
  <2> QED BY <1>0, <1>1, <2>1, <2>2, <2>3, LoopMoves
<1>9. CASE FailDelivery(s)
  <2> DEFINE t == sender[s].occurrence
  <2>1. /\ Busy(s) /\ sender' = [sender EXCEPT ![s] = [SendIdle EXCEPT !.phase = "claiming"]]
        /\ UNCHANGED <<exports, clock, exportFor, added, poller, edits, sends, accepted, crashes>>
    BY <1>9 DEF FailDelivery, Busy
  <2>2. PICK status \in {"ready", "failed"} : SetStatus(t, status)
    BY <1>9 DEF FailDelivery
  <2>3. t \in Occurrence /\ (Recorded(t) => HasArtifact(t))
    BY <1>0, <2>1 DEF DeliveryInv, SendersAreJustified
  <2>4. schedule' \in Schedule /\ schedule'.exists = schedule.exists /\ schedule'.enabled = schedule.enabled
    BY <1>0, <1>9 DEF FailDelivery, Schedule
  <2> HIDE DEF t
  <2>5. /\ executions' \in [Occurrence -> Execution]
        /\ \A u \in Occurrence :
              /\ executions'[u].export = executions[u].export /\ executions'[u].attempts = executions[u].attempts
              /\ executions'[u].status = IF u = t /\ Recorded(t) THEN status ELSE executions[u].status
              /\ Recorded(u)' <=> Recorded(u)
    BY <1>0, <2>2, <2>3, StatusSet
  <2>6. \A u \in Occurrence : HasArtifact(u)' <=> HasArtifact(u)
    BY <2>1, <2>5 DEF HasArtifact
  <2>7. RowsStay
    BY <2>1, <2>3, <2>5, <2>6 DEF RowsStay
  <2> QED BY <1>0, <1>1, <2>1, <2>4, <2>5, <2>7, LoopMoves
<1>10. CASE TickEnds(s)
  BY <1>0, <1>1, <1>10, LoopOnly DEF TickEnds
<1>11. CASE SenderDies(s)
  <2>1. crashes' \in 0 .. MaxCrashes
    BY <1>0, <1>11, SchedulesAssumption DEF SenderDies
  <2> QED BY <1>0, <1>1, <1>11, <2>1, LoopOnly DEF SenderDies
<1> QED BY <1>2, <1>3, <1>4, <1>5, <1>6, <1>7, <1>8, <1>9, <1>10, <1>11 DEF SenderStep

\* Every step of schedules, exports and deliveries preserves the invariant.
LEMMA ScheduleNextKeeps == DeliveryInv /\ [ScheduleNext]_reportVars => DeliveryInv'
<1> SUFFICES ASSUME DeliveryInv, [ScheduleNext]_reportVars PROVE DeliveryInv'
  OBVIOUS
<1>0. ScheduleShape /\ ScheduleTypeOK
  BY DEF DeliveryInv, ScheduleShape
<1>1. CASE TimePasses
  BY <1>0, <1>1, ScheduleStepShape, QuietKeeps DEF TimePasses, sendVars
<1>2. ASSUME NEW now \in Reading, NEW period \in Periods, NEW enabled \in BOOLEAN,
             PatchSchedule(now, period, enabled)
      PROVE  DeliveryInv'
  <2>1. schedule.exists /\ UNCHANGED <<exports, executions, exportFor, sender, sends, accepted>>
    BY <1>2 DEF PatchSchedule, sendVars
  <2> QED BY <1>0, <1>2, <2>1, ScheduleStepShape, QuietKeeps
<1>3. ASSUME NEW x \in Exports, ExportMoves(x) PROVE DeliveryInv'
  <2>1. ScheduleShape' /\ ArtifactsStay /\ UNCHANGED <<schedule, executions, exportFor, sender, sends, accepted>>
    BY <1>0, <1>3, ExportStep DEF scheduleVars, sendVars
  <2>2. RowsStay /\ SendsStay
    BY <2>1 DEF RowsStay, SendsStay, Recorded
  <2>3. SendersStay
    BY <2>1 DEF SendersStay, Busy, DeliveryInv, SendersAreJustified
  <2> QED BY <2>1, <2>2, <2>3, DeliveriesStay
<1>4. CASE UNCHANGED reportVars
  <2>1. UNCHANGED <<exports, clock, schedule, executions, exportFor, added, poller, edits, sender, sends, accepted, crashes>>
    BY <1>4 DEF reportVars, scheduleVars, sendVars
  <2>2. ScheduleShape'
    BY <1>0, <2>1 DEF ScheduleShape, ScheduleTypeOK, RunsInOrder, Busy, DeliveryInv
  <2> QED BY <2>1, <2>2, QuietKeeps
<1> QED BY <1>1, <1>2, <1>3, <1>4, DeleteKeeps, PollerKeeps, SenderKeeps
       DEF ScheduleNext, PollingNext, SendingNext

-----------------------------------------------------------------------------
(* Schedules: the theorems                                                 *)

\* Whatever the schedule, the clocks and the loops do, their state keeps its types.
THEOREM ScheduleTypeCorrect == ScheduleSpec => []ScheduleTypeOK
<1>1. DeliveryInv => ScheduleTypeOK
  BY DEF DeliveryInv, ScheduleShape
<1> QED BY <1>1, ScheduleInitially, ScheduleNextKeeps, PTL DEF ScheduleSpec

\* Several API processes create the export of an occurrence once, although their
\* clocks differ, polls overlap and the schedule is edited (runDueSchedules).
THEOREM OneExportCorrect == ScheduleSpec => []OneExportPerOccurrence
<1>1. DeliveryInv => OneExportPerOccurrence
  BY DEF DeliveryInv
<1> QED BY <1>1, ScheduleInitially, ScheduleNextKeeps, PTL DEF ScheduleSpec

\* An execution is delivered only after the provider accepted its message, what may
\* be sent has an artifact or had one, and no message is given to the provider more
\* than MAX_ATTEMPTS times (email-delivery.js), for any number of senders.
THEOREM DeliveriesCorrect == ScheduleSpec => []DeliveriesAreJustified
<1>1. DeliveryInv => DeliveriesAreJustified
  <2> SUFFICES ASSUME DeliveryInv, NEW t \in Occurrence
               PROVE  /\ sends[t] <= MaxSends
                      /\ executions[t].status = "delivered" => t \in accepted
                      /\ executions[t].status \in {"ready", "delivered"} => HasArtifact(t)
    BY DEF DeliveriesAreJustified, HasArtifact
  <2>1. sends[t] \in Nat /\ Cardinality(Claims(t)) \in Nat /\ executions[t].attempts \in 0 .. MaxSends
    BY ClaimsFinite DEF DeliveryInv, ScheduleShape, ScheduleTypeOK, Execution
  <2> QED BY <2>1, SchedulesAssumption DEF DeliveryInv, SendsAreCounted, RowsAreJustified
<1> QED BY <1>1, ScheduleInitially, ScheduleNextKeeps, PTL DEF ScheduleSpec

-----------------------------------------------------------------------------
(* Exports and schedules together                                          *)

\* A step of the composition is a step of one component and leaves the other as it is.
LEMMA ReportsCompose == ReportsSpec => ExportSpec /\ ScheduleSpec
<1>1. ReportsInit => ExportInit /\ ScheduleInit
  BY DEF ReportsInit
<1>2. [ReportsNext]_reportsVars => [ExportNext]_exportVars /\ [ScheduleNext]_reportVars
  BY DEF ReportsNext, reportsVars, ScheduleNext
<1> QED BY <1>1, <1>2, PTL DEF ReportsSpec, ExportSpec, ScheduleSpec

\* Exports and schedules keep their types when they are explored together.
THEOREM ReportsTypeCorrect == ReportsSpec => []ReportsTypeOK
<1>1. ExportTypeOK /\ ScheduleTypeOK => ReportsTypeOK
  BY DEF ReportsTypeOK
<1> QED BY <1>1, ReportsCompose, ExportTypeCorrect, ScheduleTypeCorrect, PTL
=============================================================================

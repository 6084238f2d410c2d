--------------------------- MODULE ExportLifecycle ---------------------------
(***************************************************************************)
(* What a row of report_export_jobs shows to those that read it: its       *)
(* status and whether it holds an artifact.  ReportExports implements this *)
(* specification with the request, the queue and the workers that write    *)
(* the row; ScheduledDeliveries is composed with it.                       *)
(***************************************************************************)

CONSTANT Exports        \* the ids of export jobs

VARIABLE exports        \* exports[x]: status and artifact of the row with id x

ExportRow == [status: {"absent", "queued", "processing", "completed", "failed", "expired"},
              artifact: BOOLEAN]

NoExport == [status |-> "absent", artifact |-> FALSE]

\* A row that a run may still write: it exists and its artifact has not expired.
Live(x) == exports[x].status \notin {"absent", "expired"}

ExportsInit == exports = [x \in Exports |-> NoExport]

Queue(x) ==
    /\ exports[x].status = "absent"
    /\ exports' = [exports EXCEPT ![x].status = "queued"]

\* An attempt begins, also after one that failed or was overtaken.
Start(x) ==
    /\ Live(x)
    /\ exports' = [exports EXCEPT ![x].status = "processing"]

Store(x) ==
    /\ Live(x)
    /\ exports' = [exports EXCEPT ![x] = [status |-> "completed", artifact |-> TRUE]]

\* An attempt fails, for a retry or for good; an artifact stays where it is.
Fail(x) ==
    /\ Live(x)
    /\ \E outcome \in {"queued", "failed"} :
         exports' = [exports EXCEPT ![x].status = outcome]

Expire(x) ==
    /\ exports[x].status = "completed"
    /\ exports' = [exports EXCEPT ![x] = [status |-> "expired", artifact |-> FALSE]]

ExportsNext == \E x \in Exports : Queue(x) \/ Start(x) \/ Store(x) \/ Fail(x) \/ Expire(x)

ExportsSpec == ExportsInit /\ [][ExportsNext]_exports
=============================================================================

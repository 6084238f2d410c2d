------------------------- MODULE ScheduledDeliveries -------------------------
(***************************************************************************)
(* One report schedule: the occurrences that runDueSchedules turns into    *)
(* executions and export jobs, and the loops of email-delivery.js that     *)
(* promote, claim and send them.  The export jobs are what ExportLifecycle *)
(* says of them.                                                           *)
(*                                                                         *)
(* Time is counted in the occurrences of a daily schedule.  The clock of a *)
(* process may be behind by Skew.  next_delivery_attempt_at is not kept: a *)
(* row that may be due may be claimed; nor is delivery_status, which no    *)
(* statement reads.                                                        *)
(***************************************************************************)
EXTENDS Naturals, FiniteSets, ExportLifecycle

CONSTANTS
    Pollers,      \* runs of runDueSchedules; the timer may start one before the last ends
    Senders,      \* the delivery loops, one in each API process
    MaxClock,     \* bound of the model: the last occurrence
    Skew,         \* bound of the model: how far the clock of a process is behind
    Periods,      \* the frequencies a schedule may have, in days
    MaxEdits,     \* bound of the model: PATCH and DELETE of the schedule
    MaxSends,     \* MAX_ATTEMPTS of the code
    MaxCrashes    \* bound of the model: pollers and senders that die

ASSUME SchedulesAssumption ==
    /\ Exports \subseteq Nat
    /\ MaxClock \in Nat \ {0} /\ Skew \in Nat
    /\ Periods \subseteq Nat \ {0} /\ Periods # {}
    /\ MaxEdits \in Nat /\ MaxSends \in Nat \ {0} /\ MaxCrashes \in Nat
    /\ IsFiniteSet(Senders)

VARIABLES
    clock,       \* the time
    schedule,    \* the row of scheduled_report_schedules
    executions,  \* executions[t]: the row of the occurrence t
    exportFor,   \* exportFor[x]: the occurrence export job x was inserted for
    added,       \* the export jobs that have reached the queue
    poller,      \* poller[p]: where a run of runDueSchedules is
    sender,      \* sender[s]: where a delivery loop is and the row it has claimed
    sends,       \* history: sends[t] counts the messages given to the provider
    accepted,    \* the occurrences the provider has accepted a message for
    edits,       \* history: the edits so far
    crashes      \* history: the pollers and senders that have died

scheduleVars == <<clock, schedule, executions, exportFor, added, poller, edits>>
sendVars == <<sender, sends, accepted>>
reportVars == <<exports, scheduleVars, sendVars, crashes>>

-----------------------------------------------------------------------------
Occurrence == 1 .. MaxClock

NoOccurrence == 0

\* computeNextRun, with a day for its unit: NextRun has the details.
NextRunAt(period, from) ==
    CHOOSE t \in from + 1 .. from + period : t % period = 0

Schedule == [exists: BOOLEAN, enabled: BOOLEAN, period: Periods,
             next: Nat, error: BOOLEAN]

Execution == [status: {"absent", "exporting", "ready", "delivered", "failed"},
              export: Exports \cup {0}, attempts: 0 .. MaxSends]

NoExecution == [status |-> "absent", export |-> 0, attempts |-> 0]

PollIdle == [phase |-> "idle", now |-> 0, period |-> 0, occurrence |-> 0, export |-> 0]

SendIdle == [phase |-> "idle", occurrence |-> 0, attempt |-> 0]

ScheduleInit ==
    /\ ExportsInit
    /\ clock = 0
    /\ \E period \in Periods :
         schedule = [exists |-> TRUE, enabled |-> TRUE, period |-> period,
                     next |-> NextRunAt(period, 0), error |-> FALSE]
    /\ executions = [t \in Occurrence |-> NoExecution]
    /\ exportFor = [x \in Exports |-> NoOccurrence]
    /\ added = {}
    /\ poller = [p \in Pollers |-> PollIdle]
    /\ sender = [s \in Senders |-> SendIdle]
    /\ sends = [t \in Occurrence |-> 0]
    /\ accepted = {}
    /\ edits = 0
    /\ crashes = 0

Recorded(t) == executions[t].status # "absent"

\* What the clock of some process may read.
Reading == {now \in 0 .. clock : clock <= now + Skew}

TimePasses ==
    /\ clock < MaxClock
    /\ clock' = clock + 1
    /\ UNCHANGED <<exports, schedule, executions, exportFor, added, poller, edits, sendVars, crashes>>

-----------------------------------------------------------------------------
(* The routes of the schedule                                              *)

\* PATCH: the next run is computed again from the clock of the process.
PatchSchedule(now, period, enabled) ==
    /\ schedule.exists
    /\ edits < MaxEdits
    /\ edits' = edits + 1
    /\ schedule' = [schedule EXCEPT !.period = period, !.enabled = enabled,
                                    !.next = NextRunAt(period, now)]
    /\ UNCHANGED <<exports, clock, executions, exportFor, added, poller, sendVars, crashes>>

\* DELETE, with ON DELETE CASCADE to the executions; the export jobs stay.
DeleteSchedule ==
    /\ schedule.exists
    /\ edits < MaxEdits
    /\ edits' = edits + 1
    /\ schedule' = [schedule EXCEPT !.exists = FALSE, !.enabled = FALSE]
    /\ executions' = [t \in Occurrence |-> NoExecution]
    /\ UNCHANGED <<exports, clock, exportFor, added, poller, sendVars, crashes>>

-----------------------------------------------------------------------------
(* runDueSchedules                                                         *)

\* The first SELECT: the run keeps the row as it is now.
SelectDue(p, now) ==
    /\ poller[p].phase = "idle"
    /\ schedule.enabled
    /\ schedule.next <= now
    /\ poller' = [poller EXCEPT ![p] = [phase |-> "selected", now |-> now,
                                        period |-> schedule.period, occurrence |-> 0, export |-> 0]]
    /\ UNCHANGED <<exports, clock, schedule, executions, exportFor, added, edits, sendVars, crashes>>

\* SELECT ... FOR UPDATE SKIP LOCKED finds nothing: ROLLBACK.
SkipSchedule(p) ==
    /\ poller[p].phase = "selected"
    /\ ~(schedule.enabled /\ schedule.next <= poller[p].now)
    /\ poller' = [poller EXCEPT ![p] = PollIdle]
    /\ UNCHANGED <<exports, clock, schedule, executions, exportFor, added, edits, sendVars, crashes>>

\* Faulty variant of MayRun: only an occurrence that is due at this moment is run.
MayRunOnTime(p) == /\ poller[p].phase = "selected"
                   /\ schedule.enabled /\ schedule.next = poller[p].now

MayRun(p) == /\ poller[p].phase = "selected"
             /\ schedule.enabled /\ schedule.next <= poller[p].now

\* Faulty variant of IsNew: the unique key of the executions is missing.
AlwaysNew(t) == t \in Occurrence

\* INSERT ... ON CONFLICT (schedule_id, scheduled_for) DO NOTHING.
IsNew(t) == ~Recorded(t)

\* RETURNING id: ids are given out in their order.
IsFresh(x) == /\ exports[x].status = "absent"
              /\ \A y \in Exports : exports[y].status = "absent" => x <= y

\* The transaction of one schedule.  The next run follows the period that the
\* first SELECT read.
RunSchedule(p) ==
    LET t == schedule.next
        next == NextRunAt(poller[p].period, t)
    IN
    /\ MayRun(p)
    /\ t \in Occurrence
    /\ IF IsNew(t)
         THEN \E x \in Exports :
              /\ IsFresh(x)
              /\ Queue(x)
              /\ exportFor' = [exportFor EXCEPT ![x] = t]
              /\ executions' = [executions EXCEPT ![t] =
                    [status |-> "exporting", export |-> x, attempts |-> 0]]
              /\ schedule' = [schedule EXCEPT !.next = next, !.error = FALSE]
              /\ poller' = [poller EXCEPT ![p].phase = "adding", ![p].occurrence = t,
                                          ![p].export = x]
         ELSE /\ schedule' = [schedule EXCEPT !.next = next]
              /\ poller' = [poller EXCEPT ![p] = PollIdle]
              /\ UNCHANGED <<exports, exportFor, executions>>
    /\ UNCHANGED <<clock, added, edits, sendVars, crashes>>

AddExport(p) ==
    /\ poller[p].phase = "adding"
    /\ added' = added \cup {poller[p].export}
    /\ poller' = [poller EXCEPT ![p] = PollIdle]
    /\ UNCHANGED <<exports, clock, schedule, executions, exportFor, edits, sendVars, crashes>>

\* queue.add fails, the job may be in the queue nevertheless: the execution and
\* the schedule are marked, whatever has become of them.
AddFails(p, landed) ==
    LET t == poller[p].occurrence IN
    /\ poller[p].phase = "adding"
    /\ added' = IF landed THEN added \cup {poller[p].export} ELSE added
    /\ executions' = IF Recorded(t) THEN [executions EXCEPT ![t].status = "failed"]
                                    ELSE executions
    /\ schedule' = [schedule EXCEPT !.error = @ \/ schedule.exists]
    /\ poller' = [poller EXCEPT ![p] = PollIdle]
    /\ UNCHANGED <<exports, clock, exportFor, edits, sendVars, crashes>>

\* The process dies between COMMIT and queue.add, or anywhere else in the run; a
\* transaction that fails is rolled back, with the same effect.
PollerDies(p) ==
    /\ poller[p].phase # "idle"
    /\ crashes < MaxCrashes
    /\ crashes' = crashes + 1
    /\ poller' = [poller EXCEPT ![p] = PollIdle]
    /\ UNCHANGED <<exports, clock, schedule, executions, exportFor, added, edits, sendVars>>

-----------------------------------------------------------------------------
(* The export jobs move by themselves once they are in the queue           *)

ExportMoves(x) ==
    /\ \/ x \in added /\ (Start(x) \/ Store(x) \/ Fail(x))
       \/ Expire(x)
    /\ UNCHANGED <<scheduleVars, sendVars, crashes>>

-----------------------------------------------------------------------------
(* One tick of the delivery loop: promote, then claim and send             *)

\* The CASE of promoteCompletedExports; an export that has expired by now is not
\* looked for.
Promoted(t) ==
    LET x == executions[t].export IN
    IF executions[t].status = "exporting" /\ exports[x].status \in {"completed", "failed"}
      THEN [executions[t] EXCEPT !.status = IF exports[x].status = "completed"
                                              THEN "ready" ELSE "failed"]
      ELSE executions[t]

PromoteCompletedExports(s) ==
    /\ sender[s].phase = "idle"
    /\ executions' = [t \in Occurrence |-> Promoted(t)]
    /\ sender' = [sender EXCEPT ![s].phase = "claiming"]
    /\ UNCHANGED <<exports, clock, schedule, exportFor, added, poller, edits,
                   sends, accepted, crashes>>

\* Faulty variant of Claimable: the attempts are not limited.
ClaimableForEver(t) == executions[t].status = "ready"

Claimable(t) == executions[t].status = "ready" /\ executions[t].attempts < MaxSends

\* claimExecution: the row stays ready_for_delivery and due, so that another
\* loop may claim it as well.
ClaimExecution(s, t) ==
    /\ sender[s].phase = "claiming"
    /\ Claimable(t)
    /\ executions' = [executions EXCEPT ![t].attempts = @ + 1]
    /\ sender' = [sender EXCEPT ![s] = [phase |-> "claimed", occurrence |-> t,
                                        attempt |-> executions[t].attempts + 1]]
    /\ UNCHANGED <<exports, clock, schedule, exportFor, added, poller, edits,
                   sends, accepted, crashes>>

\* sendEmail: the provider accepts the message.
SendAccepted(s) ==
    LET t == sender[s].occurrence IN
    /\ sender[s].phase = "claimed"
    /\ sends' = [sends EXCEPT ![t] = @ + 1]
    /\ accepted' = accepted \cup {t}
    /\ sender' = [sender EXCEPT ![s].phase = "accepted"]
    /\ UNCHANGED <<exports, scheduleVars, crashes>>

\* classifyDeliveryError: the provider refuses the message for good, or for now;
\* a message it did accept may have its answer lost.
SendFails(s) ==
    LET t == sender[s].occurrence IN
    /\ sender[s].phase = "claimed"
    /\ sends' = [sends EXCEPT ![t] = @ + 1]
    /\ \/ /\ sender' = [sender EXCEPT ![s].phase = "refused"]
          /\ UNCHANGED accepted
       \/ /\ sender' = [sender EXCEPT ![s].phase = "retry"]
          /\ accepted' \in {accepted, accepted \cup {t}}
    /\ UNCHANGED <<exports, scheduleVars, crashes>>

\* The artifact is gone or too large to attach.
CannotSend(s) ==
    /\ sender[s].phase = "claimed"
    /\ sender' = [sender EXCEPT ![s].phase = "refused"]
    /\ UNCHANGED <<exports, scheduleVars, sends, accepted, crashes>>

SetStatus(t, status) ==
    executions' = IF Recorded(t) THEN [executions EXCEPT ![t].status = status] ELSE executions

\* completeDelivery: the UPDATE of the execution, unconditional, and then that
\* of the schedule.
CompleteDelivery(s) ==
    /\ sender[s].phase = "accepted"
    /\ SetStatus(sender[s].occurrence, "delivered")
    /\ sender' = [sender EXCEPT ![s].phase = "completed"]
    /\ UNCHANGED <<exports, clock, schedule, exportFor, added, poller, edits,
                   sends, accepted, crashes>>

NoteSuccess(s) ==
    /\ sender[s].phase = "completed"
    /\ schedule' = [schedule EXCEPT !.error = FALSE]
    /\ sender' = [sender EXCEPT ![s] = [SendIdle EXCEPT !.phase = "claiming"]]
    /\ UNCHANGED <<exports, clock, executions, exportFor, added, poller, edits,
                   sends, accepted, crashes>>

\* Either UPDATE of completeDelivery fails: the catch takes the message for one
\* that was not sent.
CompletionFails(s) ==
    /\ sender[s].phase \in {"accepted", "completed"}
    /\ sender' = [sender EXCEPT ![s].phase = "retry"]
    /\ UNCHANGED <<exports, scheduleVars, sends, accepted, crashes>>

\* Faulty variant of FailDelivery: the outcomes are mixed up.
FailAsDelivered(s) ==
    /\ sender[s].phase \in {"retry", "refused"}
    /\ SetStatus(sender[s].occurrence,
                 IF sender[s].phase = "retry" /\ sender[s].attempt < MaxSends
                   THEN "ready" ELSE "delivered")
    /\ schedule' = [schedule EXCEPT !.error = @ \/ schedule.exists]
    /\ sender' = [sender EXCEPT ![s] = [SendIdle EXCEPT !.phase = "claiming"]]
    /\ UNCHANGED <<exports, clock, exportFor, added, poller, edits, sends, accepted, crashes>>

\* failDelivery: unconditional as well, so that it also undoes a delivery that
\* another loop has completed.
FailDelivery(s) ==
    /\ sender[s].phase \in {"retry", "refused"}
    /\ SetStatus(sender[s].occurrence,
                 IF sender[s].phase = "retry" /\ sender[s].attempt < MaxSends
                   THEN "ready" ELSE "failed")
    /\ schedule' = [schedule EXCEPT !.error = @ \/ schedule.exists]
    /\ sender' = [sender EXCEPT ![s] = [SendIdle EXCEPT !.phase = "claiming"]]
    /\ UNCHANGED <<exports, clock, exportFor, added, poller, edits, sends, accepted, crashes>>

\* Nothing is left to claim, or the limit of the tick is reached.
TickEnds(s) ==
    /\ sender[s].phase = "claiming"
    /\ sender' = [sender EXCEPT ![s] = SendIdle]
    /\ UNCHANGED <<exports, scheduleVars, sends, accepted, crashes>>

SenderDies(s) ==
    /\ sender[s].phase # "idle"
    /\ crashes < MaxCrashes
    /\ crashes' = crashes + 1
    /\ sender' = [sender EXCEPT ![s] = SendIdle]
    /\ UNCHANGED <<exports, scheduleVars, sends, accepted>>

-----------------------------------------------------------------------------
PollerStep(p) ==
    \/ \E now \in Reading : SelectDue(p, now)
    \/ SkipSchedule(p)
    \/ RunSchedule(p)
    \/ AddExport(p)
    \/ \E landed \in BOOLEAN : AddFails(p, landed)

SenderStep(s) ==
    \/ PromoteCompletedExports(s)
    \/ \E t \in Occurrence : ClaimExecution(s, t)
    \/ SendAccepted(s)
    \/ SendFails(s)
    \/ CannotSend(s)
    \/ CompleteDelivery(s)
    \/ NoteSuccess(s)
    \/ CompletionFails(s)
    \/ FailDelivery(s)
    \/ TickEnds(s)

PollingNext ==
    \/ TimePasses
    \/ \E now \in Reading, period \in Periods, enabled \in BOOLEAN :
          PatchSchedule(now, period, enabled)
    \/ DeleteSchedule
    \/ \E p \in Pollers : PollerStep(p) \/ PollerDies(p)

SendingNext ==
    \/ \E x \in Exports : ExportMoves(x)
    \/ \E s \in Senders : SenderStep(s) \/ SenderDies(s)

ScheduleNext == PollingNext \/ SendingNext

ScheduleSpec == ScheduleInit /\ [][ScheduleNext]_reportVars

\* The timer polls every 60 seconds and a poll does not stop halfway for ever.
PollerFairness == \A p \in Pollers : WF_reportVars(PollerStep(p))

FairScheduleSpec == ScheduleSpec /\ PollerFairness

-----------------------------------------------------------------------------
(* Properties                                                              *)

ScheduleTypeOK ==
    /\ exports \in [Exports -> ExportRow]
    /\ clock \in 0 .. MaxClock
    /\ schedule \in Schedule
    /\ executions \in [Occurrence -> Execution]
    /\ exportFor \in [Exports -> 0 .. MaxClock]
    /\ added \in SUBSET Exports
    /\ poller \in [Pollers -> [phase: {"idle", "selected", "adding"}, now: 0 .. MaxClock,
                              period: Periods \cup {0}, occurrence: 0 .. MaxClock,
                              export: Exports \cup {0}]]
    /\ sender \in [Senders -> [phase: {"idle", "claiming", "claimed", "accepted",
                                       "completed", "retry", "refused"},
                              occurrence: 0 .. MaxClock, attempt: 0 .. MaxSends]]
    /\ sends \in [Occurrence -> Nat]
    /\ accepted \in SUBSET Occurrence
    /\ edits \in 0 .. MaxEdits
    /\ crashes \in 0 .. MaxCrashes

\* docs/SCHEDULED_REPORTS.md: several API processes create the export of an
\* occurrence once, although their clocks differ, polls overlap and the schedule
\* is edited meanwhile.
OneExportPerOccurrence ==
    \A x, y \in Exports :
        exportFor[x] # NoOccurrence /\ exportFor[x] = exportFor[y] => x = y

\* An execution is delivered only after the provider has accepted its message,
\* and one that may be sent has an artifact or had one that has expired: the
\* loops claim a row twice, fail what another has delivered and lose answers.  The
\* provider is given a message at most MAX_ATTEMPTS times.
DeliveriesAreJustified ==
    \A t \in Occurrence :
        /\ sends[t] <= MaxSends
        /\ executions[t].status = "delivered" => t \in accepted
        /\ executions[t].status \in {"ready", "delivered"} =>
             LET row == exports[executions[t].export]
             IN  row.artifact \/ row.status = "expired"

\* No occurrence is forgotten: a schedule that stays enabled gets an execution
\* for each occurrence it is due for, unless it is edited meanwhile.
OccurrencesRun ==
    \A t \in Occurrence, n \in 0 .. MaxEdits :
        /\ schedule.enabled /\ schedule.next = t /\ t <= clock
        /\ edits = n
        ~> Recorded(t) \/ edits # n
=============================================================================

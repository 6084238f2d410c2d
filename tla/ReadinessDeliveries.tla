------------------------- MODULE ReadinessDeliveries -------------------------
(***************************************************************************)
(* The e-mails about one workspace's readiness incident, composed with the *)
(* incident they report as its readers see it (IncidentLifecycle, which    *)
(* ReadinessIncidents implements).                                         *)
(*                                                                         *)
(* Senders are runs of processReadinessNotifications.  A row of            *)
(* readiness_regression_deliveries is keyed by its snapshot and its kind:  *)
(* a workspace has one incident.  next_attempt_at and claimed_at are not   *)
(* kept: any row that may be due may be chosen, and any claim may be found *)
(* stale, also one whose sender is only slow.                              *)
(***************************************************************************)
EXTENDS IncidentLifecycle

CONSTANTS
    Senders,       \* concurrent runs of processReadinessNotifications
    MaxAttempts,   \* MAX_ATTEMPTS of the code
    MaxRequeues,   \* bound of the model: manual requeues of a dead letter
    MaxDeaths      \* bound of the model: senders that die during a run

ASSUME MaxAttemptsAssumption == MaxAttempts \in Nat \ {0}
ASSUME MaxRequeuesAssumption == MaxRequeues \in Nat
ASSUME MaxDeathsAssumption == MaxDeaths \in Nat

VARIABLES
    deliveries,  \* deliveries[k]: status and attempts of the row with key k
    sender,      \* sender[s]: where a run is and the row it has claimed
    notifiedAt,  \* last_notified_at of the incident, 0 for NULL
    accepted,    \* the keys the provider has accepted a message for
    requeues,    \* history: the manual requeues so far
    deaths       \* history: the senders that have died so far

deliveryVars == <<deliveries, sender, notifiedAt, accepted, requeues, deaths>>
pipelineVars == <<lifecycleVars, deliveryVars>>

-----------------------------------------------------------------------------
Key == Stamp \X {"regression", "recovery"}

NoKey == <<0, "none">>

Delivery == [status: {"absent", "pending", "sending", "delivered", "failed"},
             attempts: 0 .. MaxAttempts]

Absent == [status |-> "absent", attempts |-> 0]

Run == [phase: {"idle", "recovered", "enqueuing", "claiming", "claimed", "accepted"},
        key: Key \cup {NoKey}]

At(phase) == [phase |-> phase, key |-> NoKey]

Recorded == {k \in Key : deliveries[k].status # "absent"}

Delivered == {k \in Key : deliveries[k].status = "delivered"}

\* Faulty variant of Due: a delivered row is due again.
DueUnlessSending(k) == deliveries[k].status \in {"pending", "failed", "delivered"}
                       /\ deliveries[k].attempts < MaxAttempts

\* Faulty variant of Due: the limit is off by one.
DueAtLimit(k) == deliveries[k].status \in {"pending", "failed"}
                 /\ deliveries[k].attempts <= MaxAttempts

\* The rows a claim may choose.
Due(k) == deliveries[k].status \in {"pending", "failed"}
          /\ deliveries[k].attempts < MaxAttempts

\* Faulty variant of Recoverable: the wrong status is looked for.
FailedWithAttemptsLeft(k) == deliveries[k].status = "failed" /\ deliveries[k].attempts < MaxAttempts

\* The rows recoverStaleReadinessDeliveries may find, if their claim is old enough.
Recoverable(k) == deliveries[k].status = "sending" /\ deliveries[k].attempts < MaxAttempts

DeliveryTypeOK ==
    /\ clock \in 0 .. MaxSnapshots
    /\ status \in {"none", "resolved"} \cup Active
    /\ latest \in 0 .. MaxSnapshots
    /\ counted \in SUBSET Stamp
    /\ deliveries \in [Key -> Delivery]
    /\ sender \in [Senders -> Run]
    /\ notifiedAt \in 0 .. MaxSnapshots
    /\ accepted \in SUBSET Key
    /\ requeues \in 0 .. MaxRequeues
    /\ deaths \in 0 .. MaxDeaths

DeliveryInit ==
    /\ LifecycleInit
    /\ deliveries = [k \in Key |-> Absent]
    /\ sender = [s \in Senders |-> At("idle")]
    /\ notifiedAt = 0
    /\ accepted = {}
    /\ requeues = 0
    /\ deaths = 0

-----------------------------------------------------------------------------
(* One run: recover, enqueue, then claim and deliver until nothing is due  *)

Goto(s, phase, key) == sender' = [sender EXCEPT ![s] = [phase |-> phase, key |-> key]]

\* recoverStaleReadinessDeliveries: one UPDATE of every claim that is stale.
RecoverStaleDeliveries(s, stale) ==
    /\ sender[s].phase = "idle"
    /\ deliveries' = [k \in Key |-> IF k \in stale
                                      THEN [deliveries[k] EXCEPT !.status = "failed"]
                                      ELSE deliveries[k]]
    /\ Goto(s, "recovered", NoKey)
    /\ UNCHANGED <<notifiedAt, accepted, requeues, deaths>>

StaleSets == SUBSET {k \in Key : Recoverable(k)}

\* INSERT ... SELECT ... ON CONFLICT DO NOTHING of at most one row.
InsertIf(condition, key) ==
    deliveries' = IF condition /\ deliveries[key].status = "absent"
                    THEN [deliveries EXCEPT ![key] = [status |-> "pending", attempts |-> 0]]
                    ELSE deliveries

\* last_notified_at IS NULL OR last_notified_at < last_detected_at.
NotYetNotified == notifiedAt < latest

\* Faulty variant of EnqueueRegression: also for an incident that has recovered.
EnqueueIfNotNotified(s) ==
    /\ sender[s].phase = "recovered"
    /\ InsertIf(NotYetNotified, <<latest, "regression">>)
    /\ Goto(s, "enqueuing", NoKey)
    /\ UNCHANGED <<notifiedAt, accepted, requeues, deaths>>

\* The first and the second INSERT of enqueueReadinessIncidentDeliveries; each
\* commits by itself.
EnqueueRegression(s) ==
    /\ sender[s].phase = "recovered"
    /\ InsertIf(status \in Active /\ NotYetNotified,
                <<latest, "regression">>)
    /\ Goto(s, "enqueuing", NoKey)
    /\ UNCHANGED <<notifiedAt, accepted, requeues, deaths>>

EnqueueRecovery(s) ==
    /\ sender[s].phase = "enqueuing"
    /\ InsertIf(status = "resolved", <<latest, "recovery">>)
    /\ Goto(s, "claiming", NoKey)
    /\ UNCHANGED <<notifiedAt, accepted, requeues, deaths>>

\* claimReadinessDelivery, FOR UPDATE SKIP LOCKED: one transaction that takes
\* the row, or fails it when the workspace has no active owner or admin.
ClaimDelivery(s, k) ==
    /\ sender[s].phase = "claiming"
    /\ Due(k)
    /\ \/ /\ deliveries' = [deliveries EXCEPT ![k] =
                 [status |-> "sending", attempts |-> deliveries[k].attempts + 1]]
          /\ Goto(s, "claimed", k)
       \/ /\ deliveries' = [deliveries EXCEPT ![k] =
                 [status |-> "failed", attempts |-> deliveries[k].attempts + 1]]
          /\ UNCHANGED sender
    /\ UNCHANGED <<notifiedAt, accepted, requeues, deaths>>

\* sendEmail: the provider accepts the message under the row's idempotency key.
SendAccepted(s) ==
    LET k == sender[s].key IN
    /\ sender[s].phase = "claimed"
    /\ accepted' = accepted \cup {k}
    /\ Goto(s, "accepted", k)
    /\ UNCHANGED <<deliveries, notifiedAt, requeues, deaths>>

\* Faulty variant of CompleteDelivery: last_notified_at is set whether or not the
\* row was still being sent.
CompleteUnguarded(s) ==
    LET k == sender[s].key IN
    /\ sender[s].phase = "accepted"
    /\ deliveries' = IF deliveries[k].status = "sending"
                       THEN [deliveries EXCEPT ![k].status = "delivered"]
                       ELSE deliveries
    /\ notifiedAt' = IF k[2] = "regression" THEN clock ELSE notifiedAt
    /\ Goto(s, "claiming", NoKey)
    /\ UNCHANGED <<accepted, requeues, deaths>>

\* The UPDATE ... WHERE status='sending' of deliverReadinessNotification and,
\* if it found the row, last_notified_at of the incident, in one transaction.
CompleteDelivery(s) ==
    LET k == sender[s].key IN
    /\ sender[s].phase = "accepted"
    /\ IF deliveries[k].status = "sending"
         THEN /\ deliveries' = [deliveries EXCEPT ![k].status = "delivered"]
              /\ notifiedAt' = IF k[2] = "regression" THEN clock ELSE notifiedAt
         ELSE UNCHANGED <<deliveries, notifiedAt>>
    /\ Goto(s, "claiming", NoKey)
    /\ UNCHANGED <<accepted, requeues, deaths>>

\* Faulty variant of MarkFailure: without WHERE status='sending'.
MarkFailureUnguarded(k) == deliveries' = [deliveries EXCEPT ![k].status = "failed"]

\* markFailure, WHERE status='sending'.
MarkFailure(k) ==
    deliveries' = IF deliveries[k].status = "sending"
                    THEN [deliveries EXCEPT ![k].status = "failed"]
                    ELSE deliveries

\* The provider refuses or times out; a message it did accept may have its
\* answer lost.
SendFails(s) ==
    LET k == sender[s].key IN
    /\ sender[s].phase = "claimed"
    /\ MarkFailure(k)
    /\ accepted' \in {accepted, accepted \cup {k}}
    /\ Goto(s, "claiming", NoKey)
    /\ UNCHANGED <<notifiedAt, requeues, deaths>>

\* The transaction of CompleteDelivery is rolled back and the row marked failed.
CompletionFails(s) ==
    /\ sender[s].phase = "accepted"
    /\ MarkFailure(sender[s].key)
    /\ Goto(s, "claiming", NoKey)
    /\ UNCHANGED <<notifiedAt, accepted, requeues, deaths>>

\* Nothing is due, or the limit of the run is reached.
RunEnds(s) ==
    /\ sender[s].phase = "claiming"
    /\ Goto(s, "idle", NoKey)
    /\ UNCHANGED <<deliveries, notifiedAt, accepted, requeues, deaths>>

\* The process dies, with whatever it has claimed.
SenderDies(s) ==
    /\ sender[s].phase # "idle"
    /\ deaths < MaxDeaths
    /\ deaths' = deaths + 1
    /\ Goto(s, "idle", NoKey)
    /\ UNCHANGED <<deliveries, notifiedAt, accepted, requeues>>

\* requeueReadinessDelivery with --apply: only a dead letter is eligible.
RequeueReadinessDelivery(k) ==
    /\ deliveries[k].status = "failed"
    /\ deliveries[k].attempts >= MaxAttempts
    /\ requeues < MaxRequeues
    /\ deliveries' = [deliveries EXCEPT ![k] = [status |-> "pending", attempts |-> 0]]
    /\ requeues' = requeues + 1
    /\ UNCHANGED <<sender, notifiedAt, accepted, deaths>>

-----------------------------------------------------------------------------
SenderStep(s) ==
    \/ \E stale \in StaleSets : RecoverStaleDeliveries(s, stale)
    \/ EnqueueRegression(s)
    \/ EnqueueRecovery(s)
    \/ \E k \in Key : ClaimDelivery(s, k)
    \/ SendAccepted(s)
    \/ SendFails(s)
    \/ CompleteDelivery(s)
    \/ CompletionFails(s)
    \/ RunEnds(s)
    \/ SenderDies(s)

DeliveryStep ==
    \/ \E s \in Senders : SenderStep(s)
    \/ \E k \in Key : RequeueReadinessDelivery(k)

DeliveryNext ==
    \/ LifecycleNext /\ UNCHANGED deliveryVars
    \/ DeliveryStep /\ UNCHANGED lifecycleVars

DeliverySpec == DeliveryInit /\ [][DeliveryNext]_pipelineVars

\* A sender does not stop between two of its steps for ever (the timer starts
\* it again, the calls to the provider have a timeout).  A claim that stays in
\* sending gets old enough for some run, and every due row gets its turn
\* (ORDER BY next_attempt_at).
SenderFairness ==
    /\ \A s \in Senders : WF_pipelineVars(SenderStep(s) /\ UNCHANGED lifecycleVars)
    /\ \A k \in Key :
         /\ SF_pipelineVars(/\ \E s \in Senders, stale \in StaleSets :
                                 k \in stale /\ RecoverStaleDeliveries(s, stale)
                            /\ UNCHANGED lifecycleVars)
         /\ SF_pipelineVars(/\ \E s \in Senders : ClaimDelivery(s, k)
                            /\ UNCHANGED lifecycleVars)

FairDeliverySpec == DeliverySpec /\ SenderFairness

-----------------------------------------------------------------------------
(* Properties                                                              *)

\* Every notification has a cause: a regression e-mail is about a snapshot that
\* the incident has counted, and no recovery is announced before one.  The
\* incident may move on between its classification, the two INSERTs and the send.
NotificationsHaveCause ==
    \A k \in Recorded :
        IF k[2] = "regression" THEN k[1] \in counted
                               ELSE \E at \in counted : at <= k[1]

\* last_notified_at is set only after a regression e-mail is recorded as
\* delivered, and a notified incident has such a row.
NotifiedMeansDelivered ==
    notifiedAt > 0 => \E k \in Delivered : k[2] = "regression" /\ k[1] <= notifiedAt

\* A delivered row is never claimed, failed, recovered or requeued again, also
\* when a slow sender answers late.
DeliveredIsFinal == [][Delivered \subseteq Delivered']_pipelineVars

\* The pipeline implements the promise: recorded once, accepted only when
\* recorded, told only when accepted, whatever is retried, stale or crashes.
Promise == INSTANCE NotificationPromise WITH
    Notifications <- Key, owed <- Recorded, told <- Delivered

KeepsPromise == Promise!PromiseSpec

\* No notification is forgotten: each one that is due ends delivered or has used
\* all of its attempts, whatever refuses it and wherever senders die.
DeliveriesSettle ==
    \A k \in Key : Due(k) ~> \/ deliveries[k].status = "delivered"
                            \/ deliveries[k].attempts = MaxAttempts

\* What docs/READINESS_REGRESSION_NOTIFICATIONS.md says of crashes: that a claim
\* left in sending is recovered.
ClaimsAreRecovered ==
    \A k \in Key : deliveries[k].status = "sending" ~> deliveries[k].status # "sending"
=============================================================================

-------------------------- MODULE OperationalAlerts --------------------------
(***************************************************************************)
(* One alert rule of a workspace: the loop that claims and evaluates it,   *)
(* the route that tests it, and the events they write and send.            *)
(*                                                                         *)
(* Whether the metric breaches the threshold is one fact that may change   *)
(* at any time (so may the threshold).  The interval and the cooldown are  *)
(* two facts as well: each may have passed.  Of the events only the state  *)
(* of the last one is kept: no statement reads whether it was delivered.   *)
(***************************************************************************)
EXTENDS Naturals

CONSTANTS
    Evaluators,   \* the loops of the API processes and the requests of the test route
    MaxAlertEdits \* bound of the model: PATCH and DELETE of the rule

ASSUME AlertBoundsAssumption == MaxAlertEdits \in Nat

VARIABLES
    rule,        \* the row of operational_alert_rules
    breaching,   \* compare(value, comparator, threshold), if evaluated now
    intervalDue, \* next_evaluation_at has passed
    cooled,      \* the cooldown since last_triggered_at has passed
    evaluator,   \* evaluator[v]: where an evaluation is and the rule as it read it
    lastEvent,   \* the state the last event was inserted with
    disturbed,   \* history: two evaluations overlapped or one was cut short
    alertEdits   \* history: the edits so far

alertVars == <<rule, breaching, intervalDue, cooled, evaluator, lastEvent, disturbed,
               alertEdits>>

-----------------------------------------------------------------------------
Rule == [exists: BOOLEAN, enabled: BOOLEAN, state: {"unknown", "healthy", "breached"},
         onRecovery: BOOLEAN]

\* What an evaluation has read of the rule, and decided.
Evaluation == [phase: {"idle", "claimed", "inserted", "quiet", "updated"},
               forced: BOOLEAN, wasBreached: BOOLEAN, cooled: BOOLEAN, onRecovery: BOOLEAN,
               breached: BOOLEAN]

NotEvaluating == [phase |-> "idle", forced |-> FALSE, wasBreached |-> FALSE, cooled |-> FALSE,
                  onRecovery |-> FALSE, breached |-> FALSE]

AlertTypeOK ==
    /\ rule \in Rule
    /\ breaching \in BOOLEAN /\ intervalDue \in BOOLEAN /\ cooled \in BOOLEAN
    /\ evaluator \in [Evaluators -> Evaluation]
    /\ lastEvent \in {"none", "triggered", "recovered"}
    /\ disturbed \in BOOLEAN
    /\ alertEdits \in 0 .. MaxAlertEdits

AlertInit ==
    /\ rule = [exists |-> TRUE, enabled |-> TRUE, state |-> "unknown", onRecovery |-> TRUE]
    /\ breaching = FALSE /\ intervalDue = TRUE /\ cooled = TRUE
    /\ evaluator = [v \in Evaluators |-> NotEvaluating]
    /\ lastEvent = "none"
    /\ disturbed = FALSE
    /\ alertEdits = 0

Evaluating == {v \in Evaluators : evaluator[v].phase # "idle"}

-----------------------------------------------------------------------------
MetricChanges ==
    /\ breaching' = ~breaching
    /\ UNCHANGED <<rule, intervalDue, cooled, evaluator, lastEvent, disturbed, alertEdits>>

AlertTimePasses ==
    /\ \/ intervalDue' = TRUE /\ UNCHANGED cooled
       \/ cooled' = TRUE /\ UNCHANGED intervalDue
    /\ UNCHANGED <<rule, breaching, evaluator, lastEvent, disturbed, alertEdits>>

\* PATCH: the rule is due at once.  A changed threshold is a MetricChanges.
PatchRule(enabled, onRecovery) ==
    /\ rule.exists
    /\ alertEdits < MaxAlertEdits
    /\ alertEdits' = alertEdits + 1
    /\ rule' = [rule EXCEPT !.enabled = enabled, !.onRecovery = onRecovery]
    /\ intervalDue' = TRUE
    /\ UNCHANGED <<breaching, cooled, evaluator, lastEvent, disturbed>>

\* DELETE; an evaluation under way fails at its next statement.
DeleteRule ==
    /\ rule.exists
    /\ alertEdits < MaxAlertEdits
    /\ alertEdits' = alertEdits + 1
    /\ rule' = [rule EXCEPT !.exists = FALSE, !.enabled = FALSE, !.state = "unknown"]
    /\ lastEvent' = "none"
    /\ evaluator' = [v \in Evaluators |-> NotEvaluating]
    /\ UNCHANGED <<breaching, intervalDue, cooled, disturbed>>

-----------------------------------------------------------------------------
Read(v, forced) ==
    /\ evaluator[v].phase = "idle"
    /\ evaluator' = [evaluator EXCEPT ![v] =
          [phase |-> "claimed", forced |-> forced, wasBreached |-> rule.state = "breached",
           cooled |-> cooled, onRecovery |-> rule.onRecovery, breached |-> FALSE]]
    /\ disturbed' = (disturbed \/ Evaluating # {})
    /\ UNCHANGED <<rule, breaching, cooled, lastEvent, alertEdits>>

\* claimDueRule moves next_evaluation_at on in the transaction that reads the rule.
ClaimDueRule(v) ==
    /\ rule.enabled /\ intervalDue
    /\ Read(v, FALSE)
    /\ intervalDue' = FALSE

\* POST /test reads the rule without a lock and forces a notification.
TestRule(v) ==
    /\ rule.exists
    /\ Read(v, TRUE)
    /\ UNCHANGED intervalDue

\* Faulty variant of ShouldNotify: the cooldown applies to every breach.
ShouldNotifyCooled(e, breached) ==
    e.forced \/ (breached /\ e.cooled) \/ (e.wasBreached /\ ~breached /\ e.onRecovery)

ShouldNotify(e, breached) ==
    \/ e.forced
    \/ breached /\ (~e.wasBreached \/ e.cooled)
    \/ e.wasBreached /\ ~breached /\ e.onRecovery

\* The metric is read and the event, if there is to be one, is inserted.
InsertEvent(v) ==
    LET e == evaluator[v]
        notify == ShouldNotify(e, breaching)
    IN
    /\ e.phase = "claimed"
    /\ lastEvent' = IF ~notify THEN lastEvent
                    ELSE IF e.wasBreached /\ ~breaching THEN "recovered" ELSE "triggered"
    /\ evaluator' = [evaluator EXCEPT ![v].phase = IF notify THEN "inserted" ELSE "quiet",
                                      ![v].breached = breaching]
    /\ UNCHANGED <<rule, breaching, intervalDue, cooled, disturbed, alertEdits>>

\* The metric is not available: only last_evaluated_at is written.
EvaluationFails(v) ==
    /\ evaluator[v].phase = "claimed"
    /\ evaluator' = [evaluator EXCEPT ![v] = NotEvaluating]
    /\ UNCHANGED <<rule, breaching, intervalDue, cooled, lastEvent, disturbed, alertEdits>>

\* The UPDATE of persistEvaluation; without an event the evaluation ends.
UpdateRule(v) ==
    LET e == evaluator[v] IN
    /\ e.phase \in {"inserted", "quiet"}
    /\ rule' = [rule EXCEPT !.state = IF e.breached THEN "breached" ELSE "healthy"]
    /\ cooled' = (cooled /\ e.phase = "quiet")
    /\ evaluator' = [evaluator EXCEPT ![v] = IF e.phase = "inserted"
                                               THEN [e EXCEPT !.phase = "updated"]
                                               ELSE NotEvaluating]
    /\ UNCHANGED <<breaching, intervalDue, lastEvent, disturbed, alertEdits>>

\* The message is sent, or fails and is never sent again; the event says so.
SendAlert(v) ==
    /\ evaluator[v].phase = "updated"
    /\ evaluator' = [evaluator EXCEPT ![v] = NotEvaluating]
    /\ UNCHANGED <<rule, breaching, intervalDue, cooled, lastEvent, disturbed, alertEdits>>

\* The process dies, or the database refuses a statement, in an evaluation.
EvaluatorDies(v) ==
    /\ evaluator[v].phase # "idle"
    /\ evaluator' = [evaluator EXCEPT ![v] = NotEvaluating]
    /\ disturbed' = TRUE
    /\ UNCHANGED <<rule, breaching, intervalDue, cooled, lastEvent, alertEdits>>

AlertNext ==
    \/ MetricChanges
    \/ AlertTimePasses
    \/ \E enabled, onRecovery \in BOOLEAN : PatchRule(enabled, onRecovery)
    \/ DeleteRule
    \/ \E v \in Evaluators :
         \/ ClaimDueRule(v) \/ TestRule(v) \/ InsertEvent(v) \/ EvaluationFails(v)
         \/ UpdateRule(v) \/ SendAlert(v) \/ EvaluatorDies(v)

AlertSpec == AlertInit /\ [][AlertNext]_alertVars

-----------------------------------------------------------------------------
(* Properties                                                              *)

\* A rule that shows a breach has told of it: the last event is an alert, not a
\* recovery, whatever was tested, edited or refused by the provider.  Two
\* evaluations at once, or one that is cut short, may leave a breach untold:
\* each decides by the state it read when it began.
BreachIsReported ==
    ~disturbed /\ rule.state = "breached" /\ Evaluating = {}
        => lastEvent = "triggered"

=============================================================================

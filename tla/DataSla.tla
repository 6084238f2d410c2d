------------------------------- MODULE DataSla ------------------------------
(***************************************************************************)
(* The data SLA monitor of one workspace (data-sla-monitor.js): runs that  *)
(* load the health of the mirror once, then save a snapshot and the        *)
(* incident of their verdict in one transaction, and an operator.          *)
(*                                                                         *)
(* An incident is identified by its set of breaches: the fingerprint drops *)
(* the numbers in them.                                                    *)
(***************************************************************************)
EXTENDS Naturals

CONSTANTS
    Breaches,      \* the breaches of classifyDataSla that may occur
    Severe,        \* those that make the grade critical
    Monitors,      \* runs of the monitor, one at a time each
    MaxEvaluations \* bound of the model: evaluations

ASSUME SlaAssumption == Severe \subseteq Breaches /\ MaxEvaluations \in Nat

VARIABLES
    health,       \* what is wrong with the mirror now: a set of breaches
    monitor,      \* monitor[m]: where a run is
    incident,     \* incident[b]: the row of data_sla_incidents with the breaches b
    verdict,      \* the snapshot that was saved last
    evaluations,  \* how many evaluations have begun
    settled       \* history: the incidents an operator resolved since that snapshot

slaVars == <<health, monitor, incident, verdict, evaluations, settled>>

-----------------------------------------------------------------------------
Defects == (SUBSET Breaches) \ {{}}

\* classifyDataSla.
Grade(found) == CASE found \cap Severe # {} -> "critical"
                  [] found # {} -> "warning"
                  [] OTHER -> "healthy"

\* A run that saves has written nothing that others see.  seen: the incidents
\* that were active for its UPDATE; late: others have saved since.
Monitor ==
    [phase: {"idle"}] \cup
    [phase: {"loaded", "saving"}, found: SUBSET Breaches, seen: SUBSET Defects, late: BOOLEAN]

IdleMonitor == [phase |-> "idle"]

IncidentRow == [status: {"none", "open", "acknowledged", "resolved"},
                severity: {"warning", "critical"}]

NoVerdict == [grade |-> "none", found |-> {}, late |-> FALSE]

SlaTypeOK ==
    /\ health \subseteq Breaches
    /\ monitor \in [Monitors -> Monitor]
    /\ incident \in [Defects -> IncidentRow]
    /\ verdict \in [grade: {"none", "healthy", "warning", "critical"},
                    found: SUBSET Breaches, late: BOOLEAN]
    /\ evaluations \in 0 .. MaxEvaluations
    /\ settled \subseteq Defects

SlaInit ==
    /\ health \in SUBSET Breaches
    /\ monitor = [m \in Monitors |-> IdleMonitor]
    /\ incident = [b \in Defects |-> [status |-> "none", severity |-> "warning"]]
    /\ verdict = NoVerdict
    /\ evaluations = 0
    /\ settled = {}

-----------------------------------------------------------------------------
HealthChanges ==
    /\ health' \in SUBSET Breaches
    /\ UNCHANGED <<monitor, incident, verdict, evaluations, settled>>

\* loadWorkspaceHealth, once for all workspaces.
LoadHealth(m) ==
    /\ monitor[m] = IdleMonitor
    /\ evaluations < MaxEvaluations
    /\ monitor' = [monitor EXCEPT ![m] =
          [phase |-> "loaded", found |-> health, seen |-> {}, late |-> FALSE]]
    /\ evaluations' = evaluations + 1
    /\ UNCHANGED <<health, incident, verdict, settled>>

\* Faulty variant of Active: an acknowledged incident is left alone.
OnlyOpen == {b \in Defects : incident[b].status = "open"}

Active == {b \in Defects : incident[b].status \in {"open", "acknowledged"}}

\* persistEvaluation up to its COMMIT: the UPDATE of a healthy verdict sees the
\* incidents that are active now, and not one another run is about to commit.
BeginSave(m) ==
    /\ monitor[m].phase = "loaded"
    /\ monitor' = [monitor EXCEPT ![m].phase = "saving", ![m].seen = Active]
    /\ UNCHANGED <<health, incident, verdict, evaluations, settled>>

\* Two upserts of one incident, and an UPDATE and an upsert, wait for each other:
\* the row that is locked is read again.  Only a row the UPDATE does not see is
\* missed.
CommitSave(m) ==
    LET found == monitor[m].found IN
    /\ monitor[m].phase = "saving"
    /\ incident' =
         IF Grade(found) = "healthy"
           THEN [b \in Defects |-> IF b \in monitor[m].seen
                                     THEN [incident[b] EXCEPT !.status = "resolved"]
                                     ELSE incident[b]]
           ELSE [incident EXCEPT ![found] =
                   [status |-> IF @.status = "acknowledged" THEN @.status ELSE "open",
                    severity |-> Grade(found)]]
    /\ verdict' = [grade |-> Grade(found), found |-> found, late |-> monitor[m].late]
    /\ monitor' = [n \in Monitors |->
          CASE n = m -> IdleMonitor
            [] n # m /\ monitor[n].phase = "saving" -> [monitor[n] EXCEPT !.late = TRUE]
            [] OTHER -> monitor[n]]
    /\ settled' = {}
    /\ UNCHANGED <<health, evaluations>>

\* The command dies or its transaction is rolled back.
MonitorFails(m) ==
    /\ monitor[m] # IdleMonitor
    /\ monitor' = [monitor EXCEPT ![m] = IdleMonitor]
    /\ UNCHANGED <<health, incident, verdict, evaluations, settled>>

\* transitionIncident: an incident that is not resolved is acknowledged ...
AcknowledgeSla(b) ==
    /\ b \in Active
    /\ incident' = [incident EXCEPT ![b].status = "acknowledged"]
    /\ UNCHANGED <<health, monitor, verdict, evaluations, settled>>

\* ... or resolved.
ResolveSla(b) ==
    /\ b \in Active
    /\ incident' = [incident EXCEPT ![b].status = "resolved"]
    /\ settled' = settled \cup {b}
    /\ UNCHANGED <<health, monitor, verdict, evaluations>>

SlaNext ==
    \/ HealthChanges
    \/ \E m \in Monitors : LoadHealth(m) \/ BeginSave(m) \/ CommitSave(m) \/ MonitorFails(m)
    \/ \E b \in Defects : AcknowledgeSla(b) \/ ResolveSla(b)

SlaSpec == SlaInit /\ [][SlaNext]_slaVars

-----------------------------------------------------------------------------
(* Properties                                                              *)

\* The incidents follow the snapshot that was saved last: after a healthy one
\* none is open or acknowledged, unless another run saved while it was being
\* saved; after any other its own incident is, with its grade, unless an
\* operator has resolved it since.
LastVerdictStands ==
    /\ verdict.grade = "healthy" /\ ~verdict.late => Active = {}
    /\ verdict.grade \in {"warning", "critical"} =>
          /\ verdict.found \in Active \cup settled
          /\ incident[verdict.found].severity = verdict.grade
=============================================================================

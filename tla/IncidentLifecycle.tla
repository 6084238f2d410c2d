-------------------------- MODULE IncidentLifecycle --------------------------
(***************************************************************************)
(* What the readiness incident of a workspace shows to those that read it: *)
(* its status, the snapshot it was last moved to and the regressions it    *)
(* counts.  ReadinessIncidents implements this specification, with the     *)
(* evaluations, snapshots and monitor runs that move the incident, and     *)
(* ReadinessDeliveries is composed with it.                                *)
(***************************************************************************)
EXTENDS Naturals

CONSTANT MaxSnapshots   \* bound of the model: snapshot transactions

ASSUME MaxSnapshotsAssumption == MaxSnapshots \in Nat

VARIABLES
    clock,    \* NOW(), counted in snapshot transactions that have begun
    status,   \* "none" before there is an incident
    latest,   \* created_at of latest_snapshot_id, which is last_detected_at
    counted   \* the regressions that occurrences counts

lifecycleVars == <<clock, status, latest, counted>>

Stamp == 1 .. MaxSnapshots

Active == {"open", "acknowledged"}

LifecycleInit == clock = 0 /\ status = "none" /\ latest = 0 /\ counted = {}

SnapshotBegins ==
    /\ clock < MaxSnapshots
    /\ clock' = clock + 1
    /\ UNCHANGED <<status, latest, counted>>

\* A regression later than everything the incident has recorded is counted.
Regress(at) ==
    /\ latest < at /\ at <= clock
    /\ status' = "open"
    /\ latest' = at
    /\ counted' = counted \cup {at}
    /\ UNCHANGED clock

\* A snapshot that is ready resolves an active incident.
Recover(at) ==
    /\ status \in Active
    /\ latest <= at /\ at <= clock
    /\ status' = "resolved"
    /\ latest' = at
    /\ UNCHANGED <<clock, counted>>

\* An operator acknowledges or resolves an active incident.
Operate ==
    /\ status \in Active
    /\ status' \in {"acknowledged", "resolved"}
    /\ UNCHANGED <<clock, latest, counted>>

LifecycleNext ==
    \/ SnapshotBegins
    \/ \E at \in Stamp : Regress(at)
    \/ \E at \in Stamp : Recover(at)
    \/ Operate

LifecycleSpec == LifecycleInit /\ [][LifecycleNext]_lifecycleVars
=============================================================================

---------------------- MODULE ReadinessDeliveriesProofs ----------------------
(***************************************************************************)
(* Proofs about ReadinessDeliveries for any number of senders, attempts,   *)
(* requeues and deaths: type correctness, that a delivered row is final,   *)
(* that every notification has a cause, and that the pipeline keeps the    *)
(* promise of NotificationPromise.                                         *)
(***************************************************************************)
EXTENDS ReadinessDeliveries, TLAPS

-----------------------------------------------------------------------------
(* Type correctness                                                        *)

\* A sender that has claimed a row, or had a message accepted, holds its key.
ClaimsHaveKeys ==
    \A s \in Senders : sender[s].phase \in {"claimed", "accepted"} => sender[s].key \in Key

DeliveryTypeInv == DeliveryTypeOK /\ ClaimsHaveKeys

\* The initial state has the right types.
LEMMA InitDeliveryTypeInv == DeliveryInit => DeliveryTypeInv
  BY MaxSnapshotsAssumption, MaxAttemptsAssumption, MaxRequeuesAssumption, MaxDeathsAssumption
  DEF DeliveryInit, LifecycleInit, DeliveryTypeInv, DeliveryTypeOK, ClaimsHaveKeys, Absent,
      Delivery, At, Run

\* The types of the variables that the incident's steps write.
LifecycleTypes ==
    /\ clock \in 0 .. MaxSnapshots
    /\ status \in {"none", "resolved"} \cup Active
    /\ latest \in 0 .. MaxSnapshots
    /\ counted \in SUBSET Stamp

\* Steps of the incident keep them.
LEMMA LifecycleKeepsTypes ==
  ASSUME LifecycleTypes, LifecycleNext PROVE LifecycleTypes'
<1> USE MaxSnapshotsAssumption DEF LifecycleTypes, Stamp, Active
<1>1. CASE SnapshotBegins
  BY <1>1 DEF SnapshotBegins
<1>2. ASSUME NEW at \in Stamp, Regress(at) PROVE LifecycleTypes'
  BY <1>2 DEF Regress
<1>3. ASSUME NEW at \in Stamp, Recover(at) PROVE LifecycleTypes'
  BY <1>3 DEF Recover
<1>4. CASE Operate
  BY <1>4 DEF Operate
<1> QED BY <1>1, <1>2, <1>3, <1>4 DEF LifecycleNext

\* Setting one row to a delivery keeps the type of the table.
LEMMA RowTypes ==
  ASSUME deliveries \in [Key -> Delivery], NEW k \in Key, NEW row \in Delivery
  PROVE  [deliveries EXCEPT ![k] = row] \in [Key -> Delivery]
  OBVIOUS

\* So does moving its status.
LEMMA StatusTypes ==
  ASSUME deliveries \in [Key -> Delivery], NEW k \in Key,
         NEW st \in {"absent", "pending", "sending", "delivered", "failed"}
  PROVE  [deliveries EXCEPT ![k].status = st] \in [Key -> Delivery]
<1>1. [deliveries[k] EXCEPT !.status = st] \in Delivery
  BY DEF Delivery
<1> QED BY <1>1

\* Moving a sender keeps the type of its state.
LEMMA GotoTypes ==
  ASSUME NEW s \in Senders, sender \in [Senders -> Run], ClaimsHaveKeys,
         NEW phase \in {"idle", "recovered", "enqueuing", "claiming", "claimed", "accepted"},
         NEW key \in Key \cup {NoKey}, phase \in {"claimed", "accepted"} => key \in Key,
         Goto(s, phase, key)
  PROVE  sender' \in [Senders -> Run] /\ ClaimsHaveKeys'
<1>1. [phase |-> phase, key |-> key] \in Run
  BY DEF Run
<1>2. sender' = [sender EXCEPT ![s] = [phase |-> phase, key |-> key]]
  BY DEF Goto
<1>3. sender' \in [Senders -> Run]
  BY <1>1, <1>2
<1>4. ASSUME NEW t \in Senders, sender'[t].phase \in {"claimed", "accepted"}
      PROVE  sender'[t].key \in Key
  <2>1. CASE t = s
    BY <1>2, <1>4, <2>1
  <2>2. CASE t # s
    BY <1>2, <1>4, <2>2 DEF ClaimsHaveKeys
  <2> QED BY <2>1, <2>2
<1> QED BY <1>3, <1>4 DEF ClaimsHaveKeys

\* The keys that the incident's latest snapshot gives, if there is an incident.
LEMMA LatestKeys ==
  ASSUME LifecycleTypes, latest # 0
  PROVE  <<latest, "regression">> \in Key /\ <<latest, "recovery">> \in Key
  BY MaxSnapshotsAssumption DEF LifecycleTypes, Key, Stamp

-----------------------------------------------------------------------------
(* The invariant                                                           *)

\* What the incident's readers may rely on: it refers to a snapshot that has
\* begun, and whatever its status, a regression no later than that was counted.
IncidentInv ==
    /\ LifecycleTypes
    /\ status # "none" => latest \in Stamp /\ \E at \in counted : at <= latest
    /\ status \in Active => latest \in counted
    /\ latest <= clock

\* A sender works on a recorded row, and completes only what was accepted.
ClaimsAreRecorded ==
    \A s \in Senders :
        /\ sender[s].phase \in {"claimed", "accepted"} => sender[s].key \in Recorded
        /\ sender[s].phase = "accepted" => sender[s].key \in accepted

PipelineInv ==
    /\ DeliveryTypeInv
    /\ IncidentInv
    /\ ClaimsAreRecorded
    /\ Delivered \subseteq accepted
    /\ accepted \subseteq Recorded
    /\ \A k \in Recorded : k[1] <= clock
    /\ NotificationsHaveCause
    /\ NotifiedMeansDelivered

\* The initial state satisfies it.
LEMMA InitPipelineInv == DeliveryInit => PipelineInv
<1> SUFFICES ASSUME DeliveryInit PROVE PipelineInv
  OBVIOUS
<1>1. DeliveryTypeInv /\ Recorded = {} /\ Delivered = {}
  BY InitDeliveryTypeInv DEF DeliveryInit, Recorded, Delivered, Absent
<1>2. IncidentInv
  BY MaxSnapshotsAssumption DEF DeliveryInit, LifecycleInit, IncidentInv, LifecycleTypes, Active
<1> QED BY <1>1, <1>2 DEF PipelineInv, DeliveryInit, ClaimsAreRecorded, At,
                          NotificationsHaveCause, NotifiedMeansDelivered

\* Steps of the incident keep its own part.
LEMMA LifecycleKeepsIncidentInv ==
  ASSUME IncidentInv, LifecycleNext
  PROVE  /\ IncidentInv'
         /\ clock <= clock' /\ clock \in Nat
         /\ counted \subseteq counted'
<1> DEFINE Kept == IncidentInv' /\ clock <= clock' /\ clock \in Nat /\ counted \subseteq counted'
<1> USE MaxSnapshotsAssumption
<1>0. LifecycleTypes' /\ LifecycleTypes
  BY LifecycleKeepsTypes DEF IncidentInv
<1>1. CASE SnapshotBegins
  BY <1>0, <1>1 DEF SnapshotBegins, IncidentInv, LifecycleTypes
<1>2. ASSUME NEW at \in Stamp, Regress(at) PROVE Kept
  BY <1>0, <1>2 DEF Regress, IncidentInv, LifecycleTypes, Stamp
<1>3. ASSUME NEW at \in Stamp, Recover(at) PROVE Kept
  BY <1>0, <1>3 DEF Recover, IncidentInv, LifecycleTypes, Stamp, Active
<1>4. CASE Operate
  BY <1>0, <1>4 DEF Operate, IncidentInv, LifecycleTypes, Active
<1> QED BY <1>1, <1>2, <1>3, <1>4 DEF LifecycleNext

-----------------------------------------------------------------------------
(* What a step of the pipeline does to the promise                         *)

\* Nothing that was promised changes.
Quiet == UNCHANGED <<Recorded, Delivered, accepted, notifiedAt>>

\* A notification that has a cause is recorded.
Owed ==
    \E k \in Key \ Recorded :
        /\ Recorded' = Recorded \cup {k}
        /\ IF k[2] = "regression" THEN k[1] \in counted ELSE \E at \in counted : at <= k[1]
        /\ k[1] <= clock
        /\ UNCHANGED <<Delivered, accepted, notifiedAt>>

\* The provider accepts a recorded notification.
Accepted ==
    \E k \in Recorded :
        /\ accepted' = accepted \cup {k}
        /\ UNCHANGED <<Recorded, Delivered, notifiedAt>>

\* An accepted notification is recorded as delivered.
Told ==
    \E k \in accepted \ Delivered :
        /\ Delivered' = Delivered \cup {k}
        /\ notifiedAt' = IF k[2] = "regression" THEN clock ELSE notifiedAt
        /\ UNCHANGED <<Recorded, accepted>>

\* What inserting a row does: nothing, or one more recorded notification.
LEMMA InsertEffect ==
  ASSUME DeliveryTypeInv, NEW condition \in BOOLEAN, NEW key, condition => key \in Key,
         InsertIf(condition, key)
  PROVE  /\ deliveries' \in [Key -> Delivery]
         /\ Delivered' = Delivered
         /\ \/ Recorded' = Recorded
            \/ condition /\ key \in Key \ Recorded /\ Recorded' = Recorded \cup {key}
<1>1. CASE deliveries' = deliveries
  BY <1>1 DEF Recorded, Delivered, DeliveryTypeInv, DeliveryTypeOK
<1>2. CASE /\ condition /\ deliveries[key].status = "absent"
           /\ deliveries' = [deliveries EXCEPT ![key] = [status |-> "pending", attempts |-> 0]]
  <2>1. [status |-> "pending", attempts |-> 0] \in Delivery
    BY MaxAttemptsAssumption DEF Delivery
  <2> QED BY <1>2, <2>1 DEF Recorded, Delivered, DeliveryTypeInv, DeliveryTypeOK
<1> QED BY <1>1, <1>2 DEF InsertIf

\* What moving a recorded, undelivered row to another status but delivered does.
LEMMA RowEffect ==
  ASSUME DeliveryTypeInv, NEW k \in Key, NEW row \in Delivery,
         deliveries[k].status \notin {"absent", "delivered"},
         row.status \notin {"absent", "delivered"},
         deliveries' = [deliveries EXCEPT ![k] = row]
  PROVE  /\ deliveries' \in [Key -> Delivery]
         /\ Recorded' = Recorded
         /\ Delivered' = Delivered
  BY DEF Recorded, Delivered, DeliveryTypeInv, DeliveryTypeOK

\* What marking a failure does.
LEMMA FailureEffect ==
  ASSUME DeliveryTypeInv, NEW k \in Key, MarkFailure(k)
  PROVE  /\ deliveries' \in [Key -> Delivery]
         /\ Recorded' = Recorded
         /\ Delivered' = Delivered
<1>1. CASE deliveries[k].status = "sending"
  <2> DEFINE row == [deliveries[k] EXCEPT !.status = "failed"]
  <2>1. row \in Delivery /\ row.status = "failed"
    BY DEF Delivery, DeliveryTypeInv, DeliveryTypeOK
  <2>2. deliveries' = [deliveries EXCEPT ![k] = row]
    BY <1>1 DEF MarkFailure
  <2> HIDE DEF row
  <2> QED BY <1>1, <2>1, <2>2, RowEffect
<1>2. CASE deliveries[k].status # "sending"
  BY <1>2 DEF MarkFailure, Recorded, Delivered, DeliveryTypeInv, DeliveryTypeOK
<1> QED BY <1>1, <1>2

\* Every step of a sender, and a requeue, has one of these effects, and keeps
\* the types and what the claims rest on.
StepEffect ==
    /\ DeliveryTypeInv'
    /\ ClaimsAreRecorded'
    /\ Quiet \/ Owed \/ Accepted \/ Told

\* A sender that goes to a phase without a claim keeps what the claims rest on.
LEMMA UnclaimedMoves ==
  ASSUME PipelineInv, UNCHANGED lifecycleVars, NEW s \in Senders,
         NEW phase \in {"idle", "recovered", "enqueuing", "claiming"}, Goto(s, phase, NoKey),
         deliveries' \in [Key -> Delivery], Recorded \subseteq Recorded',
         accepted' \in SUBSET Key, accepted \subseteq accepted',
         notifiedAt' \in 0 .. MaxSnapshots, requeues' \in 0 .. MaxRequeues,
         deaths' \in 0 .. MaxDeaths
  PROVE  DeliveryTypeInv' /\ ClaimsAreRecorded'
<1>1. sender' \in [Senders -> Run] /\ ClaimsHaveKeys'
  BY GotoTypes DEF PipelineInv, DeliveryTypeInv, DeliveryTypeOK
<1>2. DeliveryTypeInv'
  BY <1>1 DEF PipelineInv, DeliveryTypeInv, DeliveryTypeOK, lifecycleVars
<1>3. \A t \in Senders : t = s \/ sender'[t] = sender[t]
  BY DEF Goto, PipelineInv, DeliveryTypeInv, DeliveryTypeOK
<1>4. sender'[s].phase = phase
  BY DEF Goto, PipelineInv, DeliveryTypeInv, DeliveryTypeOK
<1> QED BY <1>2, <1>3, <1>4 DEF ClaimsAreRecorded, PipelineInv

\* So does one that goes to a phase with a claim on a recorded row.
LEMMA ClaimedMoves ==
  ASSUME PipelineInv, UNCHANGED lifecycleVars, NEW s \in Senders,
         NEW phase \in {"claimed", "accepted"}, NEW k \in Recorded, Goto(s, phase, k),
         phase = "accepted" => k \in accepted',
         deliveries' \in [Key -> Delivery], Recorded \subseteq Recorded',
         accepted' \in SUBSET Key, accepted \subseteq accepted',
         UNCHANGED <<notifiedAt, requeues, deaths>>
  PROVE  DeliveryTypeInv' /\ ClaimsAreRecorded'
<1>0. k \in Key
  BY DEF Recorded
<1>1. sender' \in [Senders -> Run] /\ ClaimsHaveKeys'
  BY <1>0, GotoTypes DEF PipelineInv, DeliveryTypeInv, DeliveryTypeOK
<1>2. DeliveryTypeInv'
  BY <1>1 DEF PipelineInv, DeliveryTypeInv, DeliveryTypeOK, lifecycleVars
<1>3. \A t \in Senders : t = s \/ sender'[t] = sender[t]
  BY DEF Goto, PipelineInv, DeliveryTypeInv, DeliveryTypeOK
<1>4. sender'[s].phase = phase /\ sender'[s].key = k
  BY DEF Goto, PipelineInv, DeliveryTypeInv, DeliveryTypeOK
<1> QED BY <1>2, <1>3, <1>4 DEF ClaimsAreRecorded, PipelineInv

\* Recovering stale claims.
LEMMA RecoverEffect ==
  ASSUME PipelineInv, UNCHANGED lifecycleVars, NEW s \in Senders,
         NEW stale \in StaleSets, RecoverStaleDeliveries(s, stale)
  PROVE  StepEffect
<1>1. DeliveryTypeInv /\ \A k \in stale : k \in Key /\ deliveries[k].status = "sending"
  BY DEF PipelineInv, StaleSets, Recoverable
<1>2. \A k \in Key : [deliveries[k] EXCEPT !.status = "failed"] \in Delivery
  BY <1>1 DEF Delivery, DeliveryTypeInv, DeliveryTypeOK
<1>3. deliveries' = [k \in Key |-> IF k \in stale
                                     THEN [deliveries[k] EXCEPT !.status = "failed"]
                                     ELSE deliveries[k]]
  BY DEF RecoverStaleDeliveries
<1>4. deliveries' \in [Key -> Delivery]
  BY <1>1, <1>2, <1>3 DEF DeliveryTypeInv, DeliveryTypeOK
<1>5. \A k \in Key : \/ deliveries'[k] = deliveries[k]
                     \/ deliveries[k].status = "sending" /\ deliveries'[k].status = "failed"
  <2> SUFFICES ASSUME NEW k \in Key, k \in stale PROVE deliveries'[k].status = "failed"
    BY <1>1, <1>3
  <2>1. deliveries'[k] = [deliveries[k] EXCEPT !.status = "failed"]
    BY <1>3
  <2>2. deliveries[k] \in Delivery
    BY <1>1 DEF DeliveryTypeInv, DeliveryTypeOK
  <2> QED BY <2>1, <2>2 DEF Delivery
<1>6. Recorded' = Recorded /\ Delivered' = Delivered
  BY <1>5 DEF Recorded, Delivered
<1>7. Goto(s, "recovered", NoKey) /\ UNCHANGED <<notifiedAt, accepted, requeues, deaths>>
  BY DEF RecoverStaleDeliveries
<1>8. DeliveryTypeInv' /\ ClaimsAreRecorded'
  BY <1>1, <1>4, <1>6, <1>7, UnclaimedMoves DEF DeliveryTypeInv, DeliveryTypeOK
<1> QED BY <1>6, <1>7, <1>8 DEF StepEffect, Quiet

\* The two INSERTs of the enqueue.
LEMMA EnqueueEffect ==
  ASSUME PipelineInv, UNCHANGED lifecycleVars, NEW s \in Senders,
         EnqueueRegression(s) \/ EnqueueRecovery(s)
  PROVE  StepEffect
<1>1. DeliveryTypeInv /\ IncidentInv /\ LifecycleTypes
  BY DEF PipelineInv, IncidentInv
<1>2. ASSUME NEW condition \in BOOLEAN, NEW kind \in {"regression", "recovery"},
             NEW phase \in {"enqueuing", "claiming"},
             condition => status # "none" /\ (kind = "regression" => status \in Active),
             InsertIf(condition, <<latest, kind>>), Goto(s, phase, NoKey),
             UNCHANGED <<notifiedAt, accepted, requeues, deaths>>
      PROVE  StepEffect
  <2> DEFINE key == <<latest, kind>>
  <2>1. condition => /\ key \in Key /\ latest <= clock
                     /\ \E at \in counted : at <= latest
                     /\ kind = "regression" => latest \in counted
    BY <1>1, <1>2 DEF IncidentInv, Key
  <2>2. key[1] = latest /\ key[2] = kind
    OBVIOUS
  <2> HIDE DEF key
  <2>3. /\ deliveries' \in [Key -> Delivery] /\ Delivered' = Delivered
        /\ \/ Recorded' = Recorded
           \/ condition /\ key \in Key \ Recorded /\ Recorded' = Recorded \cup {key}
    BY <1>1, <1>2, <2>1, InsertEffect DEF key
  <2>4. DeliveryTypeInv' /\ ClaimsAreRecorded'
    BY <1>1, <1>2, <2>3, UnclaimedMoves DEF DeliveryTypeInv, DeliveryTypeOK
  <2>5. CASE Recorded' = Recorded
    BY <1>2, <2>3, <2>4, <2>5 DEF StepEffect, Quiet
  <2>6. CASE condition /\ key \in Key \ Recorded /\ Recorded' = Recorded \cup {key}
    <3>1. Owed
      BY <1>2, <2>1, <2>2, <2>3, <2>6 DEF Owed
    <3> QED BY <2>4, <3>1 DEF StepEffect
  <2> QED BY <2>3, <2>5, <2>6
<1>3. CASE EnqueueRegression(s)
  <2> DEFINE condition == status \in Active /\ NotYetNotified
  <2>1. condition \in BOOLEAN /\ (condition => status # "none" /\ status \in Active)
    BY DEF Active
  <2>2. /\ InsertIf(condition, <<latest, "regression">>) /\ Goto(s, "enqueuing", NoKey)
        /\ UNCHANGED <<notifiedAt, accepted, requeues, deaths>>
    BY <1>3 DEF EnqueueRegression
  <2> HIDE DEF condition
  <2> QED BY <1>2, <2>1, <2>2
<1>4. CASE EnqueueRecovery(s)
  <2> DEFINE condition == status = "resolved"
  <2>1. condition \in BOOLEAN /\ (condition => status # "none")
    OBVIOUS
  <2>2. /\ InsertIf(condition, <<latest, "recovery">>) /\ Goto(s, "claiming", NoKey)
        /\ UNCHANGED <<notifiedAt, accepted, requeues, deaths>>
    BY <1>4 DEF EnqueueRecovery
  <2> HIDE DEF condition
  <2> QED BY <1>2, <2>1, <2>2
<1> QED BY <1>3, <1>4

\* The claim, with and without a recipient.
LEMMA ClaimEffect ==
  ASSUME PipelineInv, UNCHANGED lifecycleVars, NEW s \in Senders, NEW k \in Key,
         ClaimDelivery(s, k)
  PROVE  StepEffect
<1>1. DeliveryTypeInv /\ deliveries[k] \in Delivery /\ k \in Recorded
  BY DEF PipelineInv, DeliveryTypeInv, DeliveryTypeOK, ClaimDelivery, Due, Recorded
<1>2. ASSUME NEW st \in {"sending", "failed"},
             deliveries' = [deliveries EXCEPT ![k] =
                              [status |-> st, attempts |-> deliveries[k].attempts + 1]]
      PROVE  deliveries' \in [Key -> Delivery] /\ Recorded' = Recorded /\ Delivered' = Delivered
  <2> DEFINE row == [status |-> st, attempts |-> deliveries[k].attempts + 1]
  <2>1. deliveries[k].attempts + 1 \in 0 .. MaxAttempts
    BY <1>1, MaxAttemptsAssumption DEF ClaimDelivery, Due, Delivery
  <2>2. row \in Delivery /\ row.status = st
    BY <2>1 DEF Delivery
  <2>3. deliveries' = [deliveries EXCEPT ![k] = row]
    BY <1>2
  <2>4. deliveries[k].status \notin {"absent", "delivered"}
    BY DEF ClaimDelivery, Due
  <2> HIDE DEF row
  <2> QED BY <1>1, <1>2, <2>2, <2>3, <2>4, RowEffect
<1>3. UNCHANGED <<notifiedAt, accepted, requeues, deaths>>
  BY DEF ClaimDelivery
<1>4. CASE /\ deliveries' = [deliveries EXCEPT ![k] =
                 [status |-> "sending", attempts |-> deliveries[k].attempts + 1]]
           /\ Goto(s, "claimed", k)
  <2>1. DeliveryTypeInv' /\ ClaimsAreRecorded'
    BY <1>1, <1>2, <1>3, <1>4, ClaimedMoves DEF DeliveryTypeInv, DeliveryTypeOK
  <2> QED BY <1>2, <1>3, <1>4, <2>1 DEF StepEffect, Quiet
<1>5. CASE /\ deliveries' = [deliveries EXCEPT ![k] =
                 [status |-> "failed", attempts |-> deliveries[k].attempts + 1]]
           /\ UNCHANGED sender
  <2>1. deliveries' \in [Key -> Delivery] /\ Recorded' = Recorded /\ Delivered' = Delivered
    BY <1>2, <1>5
  <2>2. DeliveryTypeInv' /\ ClaimsAreRecorded'
    BY <1>1, <1>3, <1>5, <2>1
    DEF DeliveryTypeInv, DeliveryTypeOK, ClaimsHaveKeys, lifecycleVars, PipelineInv,
        ClaimsAreRecorded
  <2> QED BY <1>3, <2>1, <2>2 DEF StepEffect, Quiet
<1> QED BY <1>4, <1>5 DEF ClaimDelivery

\* The provider accepts, or the call fails.
LEMMA SendEffect ==
  ASSUME PipelineInv, UNCHANGED lifecycleVars, NEW s \in Senders,
         SendAccepted(s) \/ SendFails(s)
  PROVE  StepEffect
<1> DEFINE k == sender[s].key
<1>1. k \in Key /\ k \in Recorded /\ DeliveryTypeInv
  BY DEF SendAccepted, SendFails, PipelineInv, DeliveryTypeInv, ClaimsHaveKeys,
         ClaimsAreRecorded
<1>2. CASE SendAccepted(s)
  <2>1. /\ accepted' = accepted \cup {k} /\ Goto(s, "accepted", k)
        /\ UNCHANGED <<deliveries, notifiedAt, requeues, deaths>>
    BY <1>2 DEF SendAccepted
  <2>2. Recorded' = Recorded /\ Delivered' = Delivered
    BY <2>1 DEF Recorded, Delivered
  <2> HIDE DEF k
  <2>3. DeliveryTypeInv' /\ ClaimsAreRecorded'
    BY <1>1, <2>1, <2>2, ClaimedMoves DEF DeliveryTypeInv, DeliveryTypeOK
  <2> QED BY <1>1, <2>1, <2>2, <2>3 DEF StepEffect, Accepted
<1>3. CASE SendFails(s)
  <2>1. /\ accepted' = accepted \/ accepted' = accepted \cup {k}
        /\ MarkFailure(k) /\ Goto(s, "claiming", NoKey)
        /\ UNCHANGED <<notifiedAt, requeues, deaths>>
    BY <1>3 DEF SendFails
  <2> HIDE DEF k
  <2>2. deliveries' \in [Key -> Delivery] /\ Recorded' = Recorded /\ Delivered' = Delivered
    BY <1>1, <2>1, FailureEffect
  <2>3. DeliveryTypeInv' /\ ClaimsAreRecorded'
    BY <1>1, <2>1, <2>2, UnclaimedMoves DEF DeliveryTypeInv, DeliveryTypeOK
  <2>4. Quiet \/ Accepted
    BY <1>1, <2>1, <2>2 DEF Quiet, Accepted
  <2> QED BY <2>3, <2>4 DEF StepEffect
<1> QED BY <1>2, <1>3

\* The completion, and its failure.
LEMMA CompleteEffect ==
  ASSUME PipelineInv, UNCHANGED lifecycleVars, NEW s \in Senders,
         CompleteDelivery(s) \/ CompletionFails(s)
  PROVE  StepEffect
<1> DEFINE k == sender[s].key
<1>1. /\ k \in Key /\ k \in Recorded /\ k \in accepted /\ DeliveryTypeInv
      /\ Goto(s, "claiming", NoKey)
      /\ UNCHANGED <<accepted, requeues, deaths>>
  BY DEF CompleteDelivery, CompletionFails, PipelineInv, DeliveryTypeInv, ClaimsHaveKeys,
         ClaimsAreRecorded
<1>2. CASE CompleteDelivery(s) /\ deliveries[k].status = "sending"
  <2>1. /\ deliveries' = [deliveries EXCEPT ![k].status = "delivered"]
        /\ notifiedAt' = IF k[2] = "regression" THEN clock ELSE notifiedAt
    BY <1>2 DEF CompleteDelivery
  <2> HIDE DEF k
  <2>2. deliveries' \in [Key -> Delivery]
    BY <1>1, <2>1, StatusTypes DEF DeliveryTypeInv, DeliveryTypeOK
  <2>3. deliveries'[k].status = "delivered" /\ \A j \in Key \ {k} : deliveries'[j] = deliveries[j]
    BY <1>1, <2>1 DEF DeliveryTypeInv, DeliveryTypeOK, Delivery
  <2>4. Recorded' = Recorded /\ k \notin Delivered /\ Delivered' = Delivered \cup {k}
    BY <1>1, <1>2, <2>3 DEF Recorded, Delivered
  <2>5. notifiedAt' \in 0 .. MaxSnapshots
    BY <1>1, <2>1 DEF DeliveryTypeInv, DeliveryTypeOK
  <2>6. DeliveryTypeInv' /\ ClaimsAreRecorded'
    BY <1>1, <2>2, <2>4, <2>5, UnclaimedMoves DEF DeliveryTypeInv, DeliveryTypeOK
  <2>7. Told
    BY <1>1, <2>1, <2>4 DEF Told
  <2> QED BY <2>6, <2>7 DEF StepEffect
<1>3. CASE CompleteDelivery(s) /\ deliveries[k].status # "sending"
  <2>1. UNCHANGED <<deliveries, notifiedAt>>
    BY <1>3 DEF CompleteDelivery
  <2>2. Recorded' = Recorded /\ Delivered' = Delivered
    BY <2>1 DEF Recorded, Delivered
  <2>3. DeliveryTypeInv' /\ ClaimsAreRecorded'
    BY <1>1, <2>1, <2>2, UnclaimedMoves DEF DeliveryTypeInv, DeliveryTypeOK
  <2> QED BY <1>1, <2>1, <2>2, <2>3 DEF StepEffect, Quiet
<1>4. CASE CompletionFails(s)
  <2>1. MarkFailure(k) /\ UNCHANGED notifiedAt
    BY <1>4 DEF CompletionFails
  <2> HIDE DEF k
  <2>2. deliveries' \in [Key -> Delivery] /\ Recorded' = Recorded /\ Delivered' = Delivered
    BY <1>1, <2>1, FailureEffect
  <2>3. DeliveryTypeInv' /\ ClaimsAreRecorded'
    BY <1>1, <2>1, <2>2, UnclaimedMoves DEF DeliveryTypeInv, DeliveryTypeOK
  <2> QED BY <1>1, <2>1, <2>2, <2>3 DEF StepEffect, Quiet
<1> QED BY <1>2, <1>3, <1>4

\* A run ends or its process dies.
LEMMA EndEffect ==
  ASSUME PipelineInv, UNCHANGED lifecycleVars, NEW s \in Senders,
         RunEnds(s) \/ SenderDies(s)
  PROVE  StepEffect
<1>1. /\ Goto(s, "idle", NoKey)
      /\ UNCHANGED <<deliveries, notifiedAt, accepted, requeues>>
  BY DEF RunEnds, SenderDies
<1>2. DeliveryTypeInv /\ deaths' \in 0 .. MaxDeaths
  BY MaxDeathsAssumption DEF RunEnds, SenderDies, PipelineInv, DeliveryTypeInv, DeliveryTypeOK
<1>3. Recorded' = Recorded /\ Delivered' = Delivered
  BY <1>1 DEF Recorded, Delivered
<1>4. DeliveryTypeInv' /\ ClaimsAreRecorded'
  BY <1>1, <1>2, <1>3, UnclaimedMoves DEF DeliveryTypeInv, DeliveryTypeOK
<1> QED BY <1>1, <1>3, <1>4 DEF StepEffect, Quiet

\* A dead letter is requeued by hand.
LEMMA RequeueEffect ==
  ASSUME PipelineInv, UNCHANGED lifecycleVars, NEW k \in Key, RequeueReadinessDelivery(k)
  PROVE  StepEffect
<1> DEFINE row == [status |-> "pending", attempts |-> 0]
<1>1. DeliveryTypeInv
  BY DEF PipelineInv
<1>2. /\ deliveries' = [deliveries EXCEPT ![k] = row] /\ deliveries[k].status = "failed"
      /\ requeues' = requeues + 1 /\ requeues < MaxRequeues
      /\ UNCHANGED <<sender, notifiedAt, accepted, deaths>>
  BY DEF RequeueReadinessDelivery
<1>3. row \in Delivery /\ row.status = "pending"
  BY MaxAttemptsAssumption DEF Delivery
<1> HIDE DEF row
<1>4. deliveries' \in [Key -> Delivery] /\ Recorded' = Recorded /\ Delivered' = Delivered
  BY <1>1, <1>2, <1>3, RowEffect
<1>5. requeues' \in 0 .. MaxRequeues
  BY <1>1, <1>2, MaxRequeuesAssumption DEF DeliveryTypeInv, DeliveryTypeOK
<1>6. DeliveryTypeInv' /\ ClaimsAreRecorded'
  BY <1>1, <1>2, <1>4, <1>5
  DEF DeliveryTypeInv, DeliveryTypeOK, ClaimsHaveKeys, lifecycleVars, PipelineInv,
      ClaimsAreRecorded
<1> QED BY <1>2, <1>4, <1>6 DEF StepEffect, Quiet

\* Every step of the deliveries has one of the effects.
LEMMA DeliveryStepEffect ==
  ASSUME PipelineInv, DeliveryStep, UNCHANGED lifecycleVars
  PROVE  StepEffect
  BY RecoverEffect, EnqueueEffect, ClaimEffect, SendEffect, CompleteEffect, EndEffect,
     RequeueEffect
  DEF DeliveryStep, SenderStep

-----------------------------------------------------------------------------
(* The theorems                                                            *)

\* Steps of the incident leave the deliveries alone and keep the invariant.
LEMMA LifecycleKeepsPipelineInv ==
  ASSUME PipelineInv, LifecycleNext, UNCHANGED deliveryVars
  PROVE  PipelineInv' /\ Quiet
<1>1. /\ IncidentInv' /\ clock <= clock' /\ clock \in Nat /\ clock' \in Nat
      /\ counted \subseteq counted'
  BY LifecycleKeepsIncidentInv DEF PipelineInv, IncidentInv, LifecycleTypes
<1>2. /\ UNCHANGED <<deliveries, sender, notifiedAt, accepted, requeues, deaths>>
      /\ Recorded' = Recorded /\ Delivered' = Delivered
  BY DEF deliveryVars, Recorded, Delivered
<1>3. DeliveryTypeInv'
  BY <1>1, <1>2 DEF PipelineInv, DeliveryTypeInv, DeliveryTypeOK, ClaimsHaveKeys, IncidentInv,
                    LifecycleTypes
<1>4. \A k \in Recorded : k[1] <= clock'
  <2>1. \A k \in Recorded : k[1] \in Nat /\ k[1] <= clock
    BY DEF PipelineInv, Recorded, Key, Stamp
  <2> QED BY <1>1, <2>1
<1>5. NotificationsHaveCause'
  BY <1>1, <1>2 DEF PipelineInv, NotificationsHaveCause
<1>6. NotifiedMeansDelivered' /\ ClaimsAreRecorded'
  BY <1>2 DEF PipelineInv, NotifiedMeansDelivered, ClaimsAreRecorded
<1> QED BY <1>1, <1>2, <1>3, <1>4, <1>5, <1>6 DEF PipelineInv, Quiet

\* So does every effect of the deliveries.
LEMMA EffectKeepsPipelineInv ==
  ASSUME PipelineInv, StepEffect, UNCHANGED lifecycleVars
  PROVE  PipelineInv'
<1>1. /\ DeliveryTypeInv' /\ ClaimsAreRecorded' /\ UNCHANGED <<clock, status, latest, counted>>
  BY DEF StepEffect, lifecycleVars
<1>2. IncidentInv'
  BY <1>1 DEF PipelineInv, IncidentInv, LifecycleTypes
<1>3. CASE Quiet
  BY <1>1, <1>2, <1>3 DEF Quiet, PipelineInv, NotificationsHaveCause, NotifiedMeansDelivered
<1>4. CASE Owed
  <2>1. NotificationsHaveCause'
    BY <1>1, <1>4 DEF Owed, PipelineInv, NotificationsHaveCause
  <2> QED BY <1>1, <1>2, <1>4, <2>1 DEF Owed, PipelineInv, NotifiedMeansDelivered
<1>5. CASE Accepted
  BY <1>1, <1>2, <1>5
  DEF Accepted, PipelineInv, NotificationsHaveCause, NotifiedMeansDelivered
<1>6. CASE Told
  <2>1. PICK k \in accepted \ Delivered :
          /\ Delivered' = Delivered \cup {k}
          /\ notifiedAt' = IF k[2] = "regression" THEN clock ELSE notifiedAt
          /\ UNCHANGED <<Recorded, accepted>>
    BY <1>6 DEF Told
  <2>2. k[1] <= clock
    BY DEF PipelineInv
  <2>3. NotifiedMeansDelivered'
    BY <2>1, <2>2 DEF PipelineInv, NotifiedMeansDelivered
  <2> QED BY <1>1, <1>2, <2>1, <2>3 DEF PipelineInv, NotificationsHaveCause
<1> QED BY <1>3, <1>4, <1>5, <1>6 DEF StepEffect

\* Every step keeps the invariant and has one of the effects.
LEMMA NextPipelineInv ==
  ASSUME PipelineInv, [DeliveryNext]_pipelineVars
  PROVE  PipelineInv' /\ (Quiet \/ Owed \/ Accepted \/ Told)
<1>1. CASE LifecycleNext /\ UNCHANGED deliveryVars
  BY <1>1, LifecycleKeepsPipelineInv
<1>2. CASE DeliveryStep /\ UNCHANGED lifecycleVars
  BY <1>2, DeliveryStepEffect, EffectKeepsPipelineInv DEF StepEffect
<1>3. CASE UNCHANGED pipelineVars
  <2>1. UNCHANGED <<clock, status, latest, counted, deliveries, sender, notifiedAt, accepted,
                    requeues, deaths>>
    BY <1>3 DEF pipelineVars, lifecycleVars, deliveryVars
  <2>2. Recorded' = Recorded /\ Delivered' = Delivered
    BY <2>1 DEF Recorded, Delivered
  <2> QED BY <2>1, <2>2 DEF PipelineInv, Quiet, DeliveryTypeInv, DeliveryTypeOK,
            ClaimsHaveKeys, IncidentInv, LifecycleTypes, ClaimsAreRecorded,
            NotificationsHaveCause, NotifiedMeansDelivered
<1> QED BY <1>1, <1>2, <1>3 DEF DeliveryNext

\* PipelineInv holds in every reachable state.
LEMMA PipelineInvariant == DeliverySpec => []PipelineInv
<1>1. PipelineInv /\ [DeliveryNext]_pipelineVars => PipelineInv'
  BY NextPipelineInv
<1> QED BY InitPipelineInv, <1>1, PTL DEF DeliverySpec

\* The table, the senders and the incident always have their types; attempts
\* never exceed MaxAttempts.
THEOREM DeliveryTypeCorrect == DeliverySpec => []DeliveryTypeOK
<1>1. PipelineInv => DeliveryTypeOK
  BY DEF PipelineInv, DeliveryTypeInv
<1> QED BY PipelineInvariant, <1>1, PTL

\* However senders and the incident interleave, a regression e-mail is about a
\* counted regression and a recovery e-mail comes after one.
THEOREM CauseCorrect == DeliverySpec => []NotificationsHaveCause
<1>1. PipelineInv => NotificationsHaveCause
  BY DEF PipelineInv
<1> QED BY PipelineInvariant, <1>1, PTL

\* last_notified_at is set only by the delivery of a regression e-mail.
THEOREM NotifiedCorrect == DeliverySpec => []NotifiedMeansDelivered
<1>1. PipelineInv => NotifiedMeansDelivered
  BY DEF PipelineInv
<1> QED BY PipelineInvariant, <1>1, PTL

\* A delivered row stays delivered, whoever recovers, fails or requeues rows.
THEOREM DeliveredIsFinalCorrect == DeliverySpec => DeliveredIsFinal
<1>1. PipelineInv /\ [DeliveryNext]_pipelineVars => [Delivered \subseteq Delivered']_pipelineVars
  BY NextPipelineInv DEF Quiet, Owed, Accepted, Told
<1> QED BY PipelineInvariant, <1>1, PTL DEF DeliverySpec, DeliveredIsFinal

\* The pipeline, with its claims, attempts, races and deaths, implements the
\* promise: each step records, accepts or delivers one notification, or nothing.
THEOREM PromiseKept == DeliverySpec => KeepsPromise
<1>1. DeliveryInit => Promise!PromiseInit
  BY DEF DeliveryInit, Promise!PromiseInit, Recorded, Delivered, Absent
<1>2. PipelineInv /\ [DeliveryNext]_pipelineVars
        => [Promise!PromiseNext]_(Promise!promiseVars)
  <2> SUFFICES ASSUME PipelineInv, Quiet \/ Owed \/ Accepted \/ Told
               PROVE  Promise!PromiseNext \/ UNCHANGED Promise!promiseVars
    BY NextPipelineInv
  <2> USE DEF Promise!PromiseNext, Promise!promiseVars
  <2>0. Recorded \subseteq Key /\ accepted \subseteq Recorded /\ Delivered \subseteq accepted
    BY DEF PipelineInv, Recorded
  <2>1. CASE Quiet
    BY <2>1 DEF Quiet
  <2>2. CASE Owed
    BY <2>0, <2>2 DEF Owed, Promise!Owe
  <2>3. CASE Accepted
    <3>1. PICK k \in Recorded : /\ accepted' = accepted \cup {k}
                                /\ UNCHANGED <<Recorded, Delivered, notifiedAt>>
      BY <2>3 DEF Accepted
    <3>2. CASE k \in Delivered
      BY <2>0, <3>1, <3>2
    <3>3. CASE k \notin Delivered
      BY <2>0, <3>1, <3>3 DEF Promise!Accept
    <3> QED BY <3>2, <3>3
  <2>4. CASE Told
    BY <2>0, <2>4 DEF Told, Promise!Tell
  <2> QED BY <2>1, <2>2, <2>3, <2>4
<1> QED BY PipelineInvariant, <1>1, <1>2, PTL DEF DeliverySpec, KeepsPromise, Promise!PromiseSpec
=============================================================================

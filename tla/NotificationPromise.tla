------------------------- MODULE NotificationPromise -------------------------
(***************************************************************************)
(* What the readiness notifications promise, without claims, attempts,     *)
(* retries or crashes.  A notification is identified by its snapshot and   *)
(* its kind: the unique key of readiness_regression_deliveries, and the    *)
(* provider's idempotency key.                                             *)
(***************************************************************************)
CONSTANT Notifications

VARIABLES
    owed,      \* notifications that have been recorded
    accepted,  \* notifications the provider has accepted
    told       \* notifications that are recorded as delivered

promiseVars == <<owed, accepted, told>>

PromiseInit == owed = {} /\ accepted = {} /\ told = {}

\* A notification is recorded once and never withdrawn.
Owe(n) ==
    /\ n \notin owed
    /\ owed' = owed \cup {n}
    /\ UNCHANGED <<accepted, told>>

\* Only what is recorded, and not yet delivered, is handed to the provider.
Accept(n) ==
    /\ n \in owed \ told
    /\ accepted' = accepted \cup {n}
    /\ UNCHANGED <<owed, told>>

\* Only what the provider accepted is recorded as delivered, for good.
Tell(n) ==
    /\ n \in accepted \ told
    /\ told' = told \cup {n}
    /\ UNCHANGED <<owed, accepted>>

PromiseNext == \E n \in Notifications : Owe(n) \/ Accept(n) \/ Tell(n)

PromiseSpec == PromiseInit /\ [][PromiseNext]_promiseVars
=============================================================================

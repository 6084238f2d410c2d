---------------------------- MODULE DeviceNotices ---------------------------
(***************************************************************************)
(* The mails about sign-ins from a new device of one account               *)
(* (new-device-notifications.js): the loops of the API processes, each     *)
(* discovering candidates, claiming notices and sending them.              *)
(*                                                                         *)
(* Sign-ins are numbered in the order of created_at.  The 'delivered' of a *)
(* notice never lasts while its loop lives: the security event             *)
(* recorded after it has an action that the CHECK constraint of            *)
(* account-security.js does not list, the INSERT is refused, and the       *)
(* handler of the failure takes the delivered notice for a failed one.     *)
(***************************************************************************)
EXTENDS Naturals, FiniteSets

CONSTANTS
    SignIns,      \* bound of the model: sign-ins of the account
    Sources,      \* user agents and addresses a sign-in can have
    Loops,        \* the API processes
    MaxAttempts,  \* MAX_ATTEMPTS
    MaxMails      \* bound of the model: mails about one sign-in

ASSUME NoticesAssumption ==
    /\ SignIns \in Nat /\ MaxAttempts \in Nat \ {0} /\ MaxMails \in Nat
    /\ IsFiniteSet(Loops) /\ "none" \notin Sources

VARIABLES
    origin,  \* origin[n]: where sign-in n came from, "none" before it
    kept,    \* the sign-ins whose row is still in user_sessions
    recent,  \* the sign-ins within the look-back
    notice,  \* notice[n]: a row of account_security_notifications
    loop,    \* loop[p]: where the loop of process p is
    mails    \* mails[n]: history: the mails about n the provider has accepted

noticeVars == <<origin, kept, recent, notice, loop, mails>>

-----------------------------------------------------------------------------
SignIn == 1 .. SignIns
Made == {n \in SignIn : origin[n] # "none"}

\* due: next_attempt_at has come.
NoticeRow == [status: {"none", "pending", "sending", "delivered", "failed"},
              attempts: 0 .. MaxAttempts, due: BOOLEAN]

\* The phases of a loop: between two rounds, to claim, to send, to mark.
NoticeLoop ==
    [phase: {"resting", "claiming"}] \cup
    [phase: {"sending", "accepted", "recorded", "refused", "rejected"},
     for: SignIn, attempt: 1 .. MaxAttempts]

Resting == [phase |-> "resting"]
Claiming == [phase |-> "claiming"]

NoticesTypeOK ==
    /\ origin \in [SignIn -> Sources \cup {"none"}]
    /\ kept \subseteq Made /\ recent \subseteq Made
    /\ notice \in [SignIn -> NoticeRow]
    /\ loop \in [Loops -> NoticeLoop]
    /\ mails \in [SignIn -> 0 .. MaxMails]

NoticesInit ==
    /\ origin = [n \in SignIn |-> "none"]
    /\ kept = {} /\ recent = {}
    /\ notice = [n \in SignIn |-> [status |-> "none", attempts |-> 0, due |-> FALSE]]
    /\ loop = [p \in Loops |-> Resting]
    /\ mails = [n \in SignIn |-> 0]

-----------------------------------------------------------------------------
\* createSession.
SignInFrom(n, source) ==
    /\ origin[n] = "none" /\ \A k \in 1 .. n - 1 : origin[k] # "none"
    /\ origin' = [origin EXCEPT ![n] = source]
    /\ kept' = kept \cup {n}
    /\ recent' = recent \cup {n}
    /\ UNCHANGED <<notice, loop, mails>>

\* A logout, a revocation, the pruning of what is expired.
SessionGone(n) ==
    /\ n \in kept
    /\ kept' = kept \ {n}
    /\ UNCHANGED <<origin, recent, notice, loop, mails>>

LookbackPasses(n) ==
    /\ n \in recent
    /\ recent' = recent \ {n}
    /\ UNCHANGED <<origin, kept, notice, loop, mails>>

BackoffPasses(n) ==
    /\ notice[n].status = "pending" /\ ~notice[n].due
    /\ notice' = [notice EXCEPT ![n].due = TRUE]
    /\ UNCHANGED <<origin, kept, recent, loop, mails>>

-----------------------------------------------------------------------------
EarlierSignIns(n) == {k \in kept : k < n}

\* An older session is there, and none from the same browser and address.
FromNewDevice(n) ==
    /\ n \in kept \cap recent
    /\ EarlierSignIns(n) # {}
    /\ \A k \in EarlierSignIns(n) : origin[k] # origin[n]

\* discoverCandidates: one INSERT that leaves the rows there are alone.
Discover(p) ==
    /\ loop[p] = Resting
    /\ notice' = [n \in SignIn |->
          IF FromNewDevice(n) /\ notice[n].status = "none"
            THEN [status |-> "pending", attempts |-> 0, due |-> TRUE]
            ELSE notice[n]]
    /\ loop' = [loop EXCEPT ![p] = Claiming]
    /\ UNCHANGED <<origin, kept, recent, mails>>

\* Faulty variant of ClaimableNotice: the attempts have no end.
ClaimableForEver(n) ==
    notice[n].status \in {"pending", "sending"} /\ notice[n].due /\ n \in kept

ClaimableNotice(n) ==
    /\ notice[n].status \in {"pending", "sending"} /\ notice[n].due
    /\ notice[n].attempts < MaxAttempts
    /\ n \in kept

\* Faulty variant of Claimed: an attempt is counted when it has failed only.
ClaimedUncounted(n) == [notice[n] EXCEPT !.status = "sending"]

Claimed(n) == [notice[n] EXCEPT !.status = "sending", !.attempts = @ + 1]

\* claimNotification: next_attempt_at stays, so that another loop may claim the
\* notice again before it is sent.
ClaimNotice(p, n) ==
    /\ loop[p] = Claiming
    /\ ClaimableNotice(n)
    /\ notice' = [notice EXCEPT ![n] = Claimed(n)]
    /\ loop' = [loop EXCEPT ![p] =
          [phase |-> "sending", for |-> n, attempt |-> notice[n].attempts + 1]]
    /\ UNCHANGED <<origin, kept, recent, mails>>

NothingToClaim(p) ==
    /\ loop[p] = Claiming
    /\ \A n \in SignIn : ~ClaimableNotice(n)
    /\ loop' = [loop EXCEPT ![p] = Resting]
    /\ UNCHANGED <<origin, kept, recent, notice, mails>>

\* The provider takes the mail, whose answer is heard, or lost as a failure.
MailAccepted(p) ==
    /\ loop[p].phase = "sending"
    /\ mails[loop[p].for] < MaxMails
    /\ mails' = [mails EXCEPT ![loop[p].for] = @ + 1]
    /\ \E heard \in {"accepted", "refused"} : loop' = [loop EXCEPT ![p].phase = heard]
    /\ UNCHANGED <<origin, kept, recent, notice>>

\* The provider refuses it: for now, or for good.
MailRefused(p) ==
    /\ loop[p].phase = "sending"
    /\ \E how \in {"refused", "rejected"} : loop' = [loop EXCEPT ![p].phase = how]
    /\ UNCHANGED <<origin, kept, recent, notice, mails>>

\* markDelivered: the UPDATE ...
MarkNoticeDelivered(p) ==
    /\ loop[p].phase = "accepted"
    /\ notice' = [notice EXCEPT ![loop[p].for].status = "delivered"]
    /\ loop' = [loop EXCEPT ![p].phase = "recorded"]
    /\ UNCHANGED <<origin, kept, recent, mails>>

\* ... and the INSERT of the event, which the constraint refuses.
EventRefused(p) ==
    /\ loop[p].phase = "recorded"
    /\ loop' = [loop EXCEPT ![p].phase = "refused"]
    /\ UNCHANGED <<origin, kept, recent, notice, mails>>

\* markFailed, of the attempt that was claimed.
MarkNoticeFailed(p) ==
    /\ loop[p].phase \in {"refused", "rejected"}
    /\ LET again == loop[p].phase = "refused" /\ loop[p].attempt < MaxAttempts
       IN  notice' = [notice EXCEPT ![loop[p].for].status = IF again THEN "pending" ELSE "failed",
                                    ![loop[p].for].due = ~again]
    /\ loop' = [loop EXCEPT ![p] = Claiming]
    /\ UNCHANGED <<origin, kept, recent, mails>>

\* The process dies, the database fails, or ten notices are done.
LoopEnds(p) ==
    /\ loop[p] # Resting
    /\ loop' = [loop EXCEPT ![p] = Resting]
    /\ UNCHANGED <<origin, kept, recent, notice, mails>>

NoticesNext ==
    \/ \E n \in SignIn : \/ \E source \in Sources : SignInFrom(n, source)
                         \/ SessionGone(n) \/ LookbackPasses(n) \/ BackoffPasses(n)
    \/ \E p \in Loops :
         \/ Discover(p) \/ NothingToClaim(p)
         \/ \E n \in SignIn : ClaimNotice(p, n)
         \/ MailAccepted(p) \/ MailRefused(p)
         \/ MarkNoticeDelivered(p) \/ EventRefused(p) \/ MarkNoticeFailed(p)
         \/ LoopEnds(p)

NoticesSpec == NoticesInit /\ [][NoticesNext]_noticeVars

-----------------------------------------------------------------------------
(* Properties                                                              *)

\* A sign-in is announced at most MAX_ATTEMPTS times, however the loops overlap
\* and wherever a process dies: each mail has an attempt of its own, counted
\* before it is sent.  The first sign-in of an account is never announced.
NoticesAreBounded ==
    /\ \A n \in SignIn : mails[n] <= notice[n].attempts
    /\ \A n \in SignIn : mails[n] <= MaxAttempts
    /\ SignIns > 0 => mails[1] = 0
=============================================================================

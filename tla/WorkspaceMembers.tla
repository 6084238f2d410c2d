-------------------------- MODULE WorkspaceMembers --------------------------
(***************************************************************************)
(* The members of one workspace: their roles, the invitations, and the     *)
(* guard that a workspace keeps an owner (customer-auth.js).               *)
(*                                                                         *)
(* No request locks anything: the role of the caller is the one loaded     *)
(* with its session, the guard reads in statements of its own, and the     *)
(* write comes after them.  A user has one request under way at a time.    *)
(***************************************************************************)
EXTENDS Naturals, FiniteSets

CONSTANTS
    Users,        \* the accounts
    Creator,      \* the account that created the workspace
    MaxRequests   \* bound of the model: requests

ASSUME MembersAssumption ==
    IsFiniteSet(Users) /\ Creator \in Users /\ MaxRequests \in Nat \ {0}

VARIABLES
    role,        \* role[u]: workspace_memberships, "none" without a row
    invitation,  \* invitation[u]: the newest row of workspace_invitations for u
    asked,       \* asked[u]: the request u has under way
    requests,    \* requests so far
    raced        \* history: a request took effect after one it overlapped

memberVars == <<role, invitation, asked, requests, raced>>

-----------------------------------------------------------------------------
MemberRoles == {"owner", "admin", "viewer"}
Owners == {u \in Users : role[u] = "owner"}

\* "none" as the role that is asked for means removal.
Asked ==
    [op: {"set role", "invite", "revoke", "accept"},
     step: {"authorized", "counting", "cleared"},
     target: Users, to: MemberRoles \cup {"none"}, late: BOOLEAN]

NotAsked == [op |-> "none"]

MembersTypeOK ==
    /\ role \in [Users -> MemberRoles \cup {"none"}]
    /\ invitation \in [Users -> [status: {"none", "pending", "accepted", "revoked", "expired"},
                                 role: {"admin", "viewer"}]]
    /\ asked \in [Users -> Asked \cup {NotAsked}]
    /\ requests \in 0 .. MaxRequests
    /\ raced \in BOOLEAN

\* The transaction that creates a workspace makes its creator the owner.
MembersInit ==
    /\ role = [u \in Users |-> IF u = Creator THEN "owner" ELSE "none"]
    /\ invitation = [u \in Users |-> [status |-> "none", role |-> "viewer"]]
    /\ asked = [u \in Users |-> NotAsked]
    /\ requests = 0
    /\ raced = FALSE

-----------------------------------------------------------------------------
Ask(u, op, target, to) ==
    /\ asked[u] = NotAsked
    /\ requests < MaxRequests
    /\ asked' = [asked EXCEPT ![u] = [op |-> op, step |-> "authorized", target |-> target,
                                      to |-> to, late |-> FALSE]]
    /\ requests' = requests + 1
    /\ UNCHANGED <<role, invitation, raced>>

\* PATCH and DELETE /members/:userId: an owner, of anyone, itself included.
AskForRole(u, target, to) == role[u] = "owner" /\ Ask(u, "set role", target, to)

\* POST and DELETE /invitations: an admin or an owner.
AskToInvite(u, target, to) == role[u] \in {"owner", "admin"} /\ Ask(u, "invite", target, to)

AskToRevoke(u, target) ==
    role[u] \in {"owner", "admin"} /\ Ask(u, "revoke", target, "none")

\* POST /invitations/:token/accept reads the invitation.
AskToAccept(u) ==
    /\ invitation[u].status = "pending"
    /\ Ask(u, "accept", u, invitation[u].role)

Step(u, step) == asked' = [asked EXCEPT ![u].step = step]

\* Faulty variant of KeepsAnOwner: an owner may go as long as there is one.
KeepsSomeOwner == Cardinality(Owners) >= 1

KeepsAnOwner == Cardinality(Owners) > 1

\* ensureLastOwnerIsPreserved, its two SELECTs.
ReadTargetRole(u) ==
    /\ asked[u].op = "set role" /\ asked[u].step = "authorized"
    /\ Step(u, IF role[asked[u].target] = "owner" /\ asked[u].to # "owner"
                 THEN "counting" ELSE "cleared")
    /\ UNCHANGED <<role, invitation, requests, raced>>

CountOwners(u) ==
    /\ asked[u].op = "set role" /\ asked[u].step = "counting"
    /\ IF KeepsAnOwner THEN Step(u, "cleared")
                       ELSE asked' = [asked EXCEPT ![u] = NotAsked]
    /\ UNCHANGED <<role, invitation, requests, raced>>

\* The invitation of someone who is a member already is refused.
CheckNoMember(u) ==
    /\ asked[u].op = "invite" /\ asked[u].step = "authorized"
    /\ IF role[asked[u].target] = "none" THEN Step(u, "cleared")
                                         ELSE asked' = [asked EXCEPT ![u] = NotAsked]
    /\ UNCHANGED <<role, invitation, requests, raced>>

\* The request u takes effect; those under way have overlapped it.
Effect(u) ==
    /\ asked' = [v \in Users |->
          IF v = u THEN NotAsked
          ELSE IF asked[v] = NotAsked THEN NotAsked ELSE [asked[v] EXCEPT !.late = TRUE]]
    /\ raced' = (raced \/ asked[u].late)
    /\ UNCHANGED requests

\* The UPDATE or DELETE of the membership, if there is one.
SetRole(u) ==
    /\ asked[u].op = "set role" /\ asked[u].step = "cleared"
    /\ role' = [role EXCEPT ![asked[u].target] = IF @ = "none" THEN @ ELSE asked[u].to]
    /\ Effect(u)
    /\ UNCHANGED invitation

\* The pending row of the address is renewed, or a new one inserted.
Invite(u) ==
    /\ asked[u].op = "invite" /\ asked[u].step = "cleared"
    /\ invitation' = [invitation EXCEPT ![asked[u].target] =
                        [status |-> "pending", role |-> asked[u].to]]
    /\ Effect(u)
    /\ UNCHANGED role

RevokeInvitation(u) ==
    /\ asked[u].op = "revoke"
    /\ invitation' = [invitation EXCEPT ![asked[u].target].status =
                        IF @ = "pending" THEN "revoked" ELSE @]
    /\ Effect(u)
    /\ UNCHANGED role

\* The acceptance, in one transaction, whatever became of the invitation: a
\* member gets its role, the invitation that was read is accepted.
Accept(u) ==
    /\ asked[u].op = "accept"
    /\ role' = [role EXCEPT ![u] = asked[u].to]
    /\ \/ invitation' = [invitation EXCEPT ![u].status = "accepted"]
       \/ asked[u].late /\ UNCHANGED invitation  \* a newer row than the one it read
    /\ Effect(u)

\* GET /invitations expires what is over; an acceptance refuses it anyway.
ExpireInvitation(u) ==
    /\ invitation[u].status = "pending"
    /\ invitation' = [invitation EXCEPT ![u].status = "expired"]
    /\ UNCHANGED <<role, asked, requests, raced>>

RequestFails(u) ==
    /\ asked[u] # NotAsked
    /\ asked' = [asked EXCEPT ![u] = NotAsked]
    /\ UNCHANGED <<role, invitation, requests, raced>>

MembersNext ==
    \E u \in Users :
        \/ \E target \in Users :
             \/ \E to \in MemberRoles \cup {"none"} : AskForRole(u, target, to)
             \/ \E to \in {"admin", "viewer"} : AskToInvite(u, target, to)
             \/ AskToRevoke(u, target)
        \/ AskToAccept(u)
        \/ ReadTargetRole(u) \/ CountOwners(u) \/ CheckNoMember(u)
        \/ SetRole(u) \/ Invite(u) \/ RevokeInvitation(u) \/ Accept(u)
        \/ ExpireInvitation(u) \/ RequestFails(u)

MembersSpec == MembersInit /\ [][MembersNext]_memberVars

-----------------------------------------------------------------------------
(* Properties                                                              *)

\* "A workspace must always have at least one owner": no sequence of requests
\* takes the last owner away, neither by a change of a role, a removal nor an
\* invitation that lowers an owner who accepts it.  It takes two that overlap:
\* the guard is not part of the statement that writes.
OwnerlessOnlyByRace == Owners = {} => raced
=============================================================================

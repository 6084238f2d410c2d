--------------------------- MODULE AccountProofs ----------------------------
(***************************************************************************)
(* Proofs about accounts: members and invitations (WorkspaceMembers), the  *)
(* notices of new devices (DeviceNotices) and sessions and passwords       *)
(* (AccountSessions), for any accounts, devices, logins, tokens, processes *)
(* and bounds.                                                             *)
(***************************************************************************)
EXTENDS WorkspaceMembers, DeviceNotices, AccountSessions, FiniteSetTheorems, TLAPS

-----------------------------------------------------------------------------
(* Members: type correctness                                               *)

InvitationRow == [status: {"none", "pending", "accepted", "revoked", "expired"},
                  role: {"admin", "viewer"}]

\* Only those roles are offered by an invitation.
OfferedRoles ==
    \A u \in Users : asked[u].op \in {"invite", "accept"} => asked[u].to \in {"admin", "viewer"}

MembersShape == MembersTypeOK /\ OfferedRoles

\* A request that is under way has all its fields.
LEMMA UnderWay ==
  ASSUME NEW a \in Asked \cup {NotAsked}, a.op # "none"
  PROVE  a \in Asked /\ a # NotAsked
  BY DEF NotAsked

\* A request that moves on stays what it is.
LEMMA MovedOn ==
  ASSUME NEW a \in Asked, NEW s \in {"authorized", "counting", "cleared"}
  PROVE  /\ [a EXCEPT !.step = s] \in Asked
         /\ [a EXCEPT !.step = s].step = s /\ [a EXCEPT !.step = s].op = a.op
         /\ [a EXCEPT !.step = s].to = a.to /\ [a EXCEPT !.step = s].target = a.target
         /\ [a EXCEPT !.step = s].late = a.late
  BY DEF Asked

\* So does one that another overtakes.
LEMMA Overtaken ==
  ASSUME NEW a \in Asked
  PROVE  /\ [a EXCEPT !.late = TRUE] \in Asked
         /\ [a EXCEPT !.late = TRUE].late = TRUE /\ [a EXCEPT !.late = TRUE].op = a.op
         /\ [a EXCEPT !.late = TRUE].to = a.to
<1>1. [a EXCEPT !.late = TRUE] \in Asked
  BY DEF Asked
<1> QED BY <1>1 DEF Asked

\* The effect of a request ends it and overtakes those under way.
LEMMA EffectOf ==
  ASSUME MembersShape, NEW u \in Users, Effect(u)
  PROVE  /\ asked' \in [Users -> Asked \cup {NotAsked}] /\ asked'[u] = NotAsked
         /\ \A v \in Users : asked'[v] = NotAsked \/ asked'[v].late
         /\ OfferedRoles'
<1>0. NotAsked.op = "none"
  BY DEF NotAsked
<1>1. ASSUME NEW v \in Users
      PROVE  /\ asked'[v] \in Asked \cup {NotAsked}
             /\ asked'[v] = NotAsked \/ asked'[v].late
             /\ asked'[v].op \in {"invite", "accept"} => asked'[v].to \in {"admin", "viewer"}
  <2>1. CASE v = u \/ asked[v] = NotAsked
    BY <1>0, <2>1 DEF Effect
  <2>2. CASE v # u /\ asked[v] # NotAsked
    <3>1. asked[v] \in Asked /\ asked'[v] = [asked[v] EXCEPT !.late = TRUE]
      BY <2>2 DEF Effect, MembersShape, MembersTypeOK
    <3>2. /\ asked'[v] \in Asked /\ asked'[v].late
          /\ asked'[v].op = asked[v].op /\ asked'[v].to = asked[v].to
      BY <3>1, Overtaken
    <3> QED BY <3>2 DEF MembersShape, OfferedRoles
  <2> QED BY <2>1, <2>2
<1> QED BY <1>1 DEF Effect, OfferedRoles

\* A request moves on, or ends without effect.
LEMMA StepOf ==
  ASSUME MembersShape, NEW u \in Users, asked[u] \in Asked,
         NEW s \in {"authorized", "counting", "cleared"},
         Step(u, s) \/ asked' = [asked EXCEPT ![u] = NotAsked]
  PROVE  /\ asked' \in [Users -> Asked \cup {NotAsked}] /\ OfferedRoles'
         /\ \A v \in Users : v # u => asked'[v] = asked[v]
         /\ \/ asked'[u] = NotAsked
            \/ /\ asked'[u].op = asked[u].op /\ asked'[u].step = s
               /\ asked'[u].target = asked[u].target /\ asked'[u].to = asked[u].to
               /\ asked'[u].late = asked[u].late
<1>0. NotAsked.op = "none"
  BY DEF NotAsked
<1>1. CASE asked' = [asked EXCEPT ![u] = NotAsked]
  BY <1>0, <1>1 DEF MembersShape, MembersTypeOK, OfferedRoles
<1>2. CASE Step(u, s)
  <2>1. asked'[u] = [asked[u] EXCEPT !.step = s] /\ \A v \in Users : v # u => asked'[v] = asked[v]
    BY <1>2 DEF Step, MembersShape, MembersTypeOK
  <2>2. asked' \in [Users -> Asked \cup {NotAsked}]
    BY <1>2, MovedOn DEF Step, MembersShape, MembersTypeOK
  <2>3. /\ asked'[u].op = asked[u].op /\ asked'[u].step = s
        /\ asked'[u].target = asked[u].target /\ asked'[u].to = asked[u].to
        /\ asked'[u].late = asked[u].late
    BY <2>1, MovedOn
  <2>4. OfferedRoles'
    BY <2>1, <2>3 DEF MembersShape, OfferedRoles
  <2> QED BY <2>1, <2>2, <2>3, <2>4
<1> QED BY <1>1, <1>2

\* A request within the bound is counted.
LEMMA CountedRequest ==
  ASSUME requests \in 0 .. MaxRequests, requests < MaxRequests, requests' = requests + 1
  PROVE  requests' \in 0 .. MaxRequests
  BY MembersAssumption

\* Every step keeps the types.
LEMMA NextShape == MembersShape /\ [MembersNext]_memberVars => MembersShape'
<1> SUFFICES ASSUME MembersShape, [MembersNext]_memberVars PROVE MembersShape'
  OBVIOUS
<1>0. /\ role \in [Users -> MemberRoles \cup {"none"}] /\ raced \in BOOLEAN
      /\ invitation \in [Users -> InvitationRow] /\ requests \in 0 .. MaxRequests
      /\ asked \in [Users -> Asked \cup {NotAsked}] /\ OfferedRoles
  BY DEF MembersShape, MembersTypeOK, InvitationRow
<1>1. ASSUME NEW u \in Users, NEW op \in {"set role", "invite", "revoke", "accept"},
             NEW target \in Users, NEW to \in MemberRoles \cup {"none"},
             op \in {"invite", "accept"} => to \in {"admin", "viewer"}, Ask(u, op, target, to)
      PROVE  MembersShape'
  <2> DEFINE new == [op |-> op, step |-> "authorized", target |-> target, to |-> to, late |-> FALSE]
  <2>1. new \in Asked /\ new.op = op /\ new.to = to
    BY DEF Asked
  <2>2. asked' = [asked EXCEPT ![u] = new] /\ UNCHANGED <<role, invitation, raced>>
        /\ requests' = requests + 1 /\ requests < MaxRequests
    BY <1>1 DEF Ask
  <2> HIDE DEF new
  <2>3. asked' \in [Users -> Asked \cup {NotAsked}] /\ OfferedRoles'
    BY <1>0, <1>1, <2>1, <2>2 DEF OfferedRoles
  <2>4. requests' \in 0 .. MaxRequests
    BY <1>0, <2>2, CountedRequest
  <2> QED BY <1>0, <2>2, <2>3, <2>4 DEF MembersShape, MembersTypeOK, InvitationRow
<1>2. ASSUME NEW u \in Users, ReadTargetRole(u) \/ CountOwners(u) \/ CheckNoMember(u)
      PROVE  MembersShape'
  <2>1. asked[u] \in Asked
    BY <1>0, <1>2, UnderWay DEF ReadTargetRole, CountOwners, CheckNoMember
  <2>2. \/ Step(u, "counting") \/ Step(u, "cleared")
        \/ asked' = [asked EXCEPT ![u] = NotAsked]
    BY <1>2 DEF ReadTargetRole, CountOwners, CheckNoMember
  <2>3. asked' \in [Users -> Asked \cup {NotAsked}] /\ OfferedRoles'
    BY <2>1, <2>2, StepOf
  <2> QED BY <1>0, <1>2, <2>3 DEF ReadTargetRole, CountOwners, CheckNoMember, MembersShape,
             MembersTypeOK, InvitationRow
<1>3. ASSUME NEW u \in Users, SetRole(u) \/ Invite(u) \/ RevokeInvitation(u) \/ Accept(u)
      PROVE  MembersShape'
  <2>1. asked[u] \in Asked /\ asked[u].op # "none" /\ Effect(u)
    BY <1>0, <1>3, UnderWay DEF SetRole, Invite, RevokeInvitation, Accept
  <2>2. /\ asked[u].target \in Users /\ asked[u].to \in MemberRoles \cup {"none"}
        /\ asked[u].late \in BOOLEAN
    BY <2>1 DEF Asked
  <2>3. asked' \in [Users -> Asked \cup {NotAsked}] /\ OfferedRoles'
    BY <2>1, EffectOf
  <2>4. raced' \in BOOLEAN /\ requests' = requests
    BY <1>0, <2>1, <2>2, Zenon DEF Effect
  <2>5. role' \in [Users -> MemberRoles \cup {"none"}]
    BY <1>0, <1>3, <2>2 DEF SetRole, Invite, RevokeInvitation, Accept
  <2>6. invitation' \in [Users -> InvitationRow]
    <3>1. CASE SetRole(u)
      BY <1>0, <3>1 DEF SetRole
    <3>2. CASE Invite(u)
      <4>1. asked[u].to \in {"admin", "viewer"}
        BY <1>0, <3>2 DEF Invite, OfferedRoles
      <4>2. [status |-> "pending", role |-> asked[u].to] \in InvitationRow
        BY <4>1 DEF InvitationRow
      <4> QED BY <1>0, <2>2, <3>2, <4>2 DEF Invite
    <3>3. CASE RevokeInvitation(u) \/ Accept(u)
      <4>1. ASSUME NEW v \in Users, NEW s \in {"revoked", "accepted", invitation[v].status}
            PROVE  [invitation[v] EXCEPT !.status = s] \in InvitationRow
        BY <1>0 DEF InvitationRow
      <4>2. CASE Accept(u)
        BY <1>0, <4>1, <4>2 DEF Accept
      <4>3. CASE RevokeInvitation(u)
        <5>1. PICK v \in Users : \E s \in {"revoked", invitation[v].status} :
                invitation' = [invitation EXCEPT ![v].status = s]
          BY <1>0, <2>2, <4>3 DEF RevokeInvitation
        <5> QED BY <1>0, <4>1, <5>1
      <4> QED BY <3>3, <4>2, <4>3
    <3> QED BY <1>3, <3>1, <3>2, <3>3
  <2> QED BY <2>3, <2>4, <2>5, <2>6, <1>0 DEF MembersShape, MembersTypeOK, InvitationRow
<1>4. ASSUME NEW u \in Users, ExpireInvitation(u) PROVE MembersShape'
  <2>1. invitation' \in [Users -> InvitationRow]
    BY <1>0, <1>4 DEF ExpireInvitation, InvitationRow
  <2> QED BY <1>0, <1>4, <2>1 DEF ExpireInvitation, OfferedRoles, MembersShape, MembersTypeOK,
             InvitationRow
<1>5. ASSUME NEW u \in Users, RequestFails(u) PROVE MembersShape'
  <2>1. asked' \in [Users -> Asked \cup {NotAsked}] /\ OfferedRoles'
    BY <1>0, <1>5 DEF RequestFails, OfferedRoles, NotAsked
  <2> QED BY <1>0, <1>5, <2>1 DEF RequestFails, MembersShape, MembersTypeOK, InvitationRow
<1>6. CASE UNCHANGED memberVars
  BY <1>0, <1>6 DEF memberVars, OfferedRoles, MembersShape, MembersTypeOK, InvitationRow
<1>7. ASSUME NEW u \in Users, NEW target \in Users, NEW to \in MemberRoles \cup {"none"},
             AskForRole(u, target, to)
      PROVE  MembersShape'
  BY <1>1, <1>7 DEF AskForRole
<1>8. ASSUME NEW u \in Users, NEW target \in Users, NEW to \in {"admin", "viewer"},
             AskToInvite(u, target, to)
      PROVE  MembersShape'
  BY <1>1, <1>8 DEF AskToInvite, MemberRoles
<1>9. ASSUME NEW u \in Users, NEW target \in Users, AskToRevoke(u, target) PROVE MembersShape'
  BY <1>1, <1>9 DEF AskToRevoke
<1>10. ASSUME NEW u \in Users, AskToAccept(u) PROVE MembersShape'
  <2>1. invitation[u].role \in {"admin", "viewer"}
    BY <1>0 DEF InvitationRow
  <2>2. invitation[u].role \in MemberRoles \cup {"none"}
    BY <2>1 DEF MemberRoles
  <2> QED BY <1>1, <1>10, <2>1, <2>2 DEF AskToAccept
<1> QED BY <1>2, <1>3, <1>4, <1>5, <1>6, <1>7, <1>8, <1>9, <1>10 DEF MembersNext

\* The shape holds of a workspace with its creator.
LEMMA InitShape == MembersInit => MembersShape
<1> SUFFICES ASSUME MembersInit PROVE MembersShape
  OBVIOUS
<1>1. [status |-> "none", role |-> "viewer"] \in InvitationRow /\ NotAsked.op = "none"
  BY DEF InvitationRow, NotAsked
<1>2. invitation \in [Users -> InvitationRow] /\ OfferedRoles
  BY <1>1 DEF MembersInit, OfferedRoles
<1>3. role \in [Users -> MemberRoles \cup {"none"}]
  BY DEF MembersInit, MemberRoles
<1>4. asked \in [Users -> Asked \cup {NotAsked}] /\ raced \in BOOLEAN
  BY DEF MembersInit
<1>5. requests \in 0 .. MaxRequests
  BY MembersAssumption DEF MembersInit
<1> QED BY <1>2, <1>3, <1>4, <1>5 DEF MembersShape, MembersTypeOK, InvitationRow

\* The roles, the invitations and the requests always have the types that
\* customer-auth.js gives them.
THEOREM MembersTypeCorrect == MembersSpec => []MembersTypeOK
<1>1. MembersShape => MembersTypeOK
  BY DEF MembersShape
<1> QED BY InitShape, NextShape, <1>1, PTL DEF MembersSpec

-----------------------------------------------------------------------------
(* Members: the last owner                                                 *)

\* What a request that nothing overlapped has checked still holds: another owner
\* stays, and an invitation, made or accepted, is for someone who is no member.
CheckStands(u) ==
    ~asked[u].late =>
        /\ asked[u].op = "set role" /\ asked[u].step = "cleared" /\ asked[u].to # "owner"
             => Owners \ {asked[u].target} # {}
        /\ asked[u].op = "invite" /\ asked[u].step = "cleared" => role[asked[u].target] = "none"
        /\ asked[u].op = "accept" => role[u] = "none"

\* As long as no requests have raced, those invited are no members, and there is
\* an owner.
MembersInv ==
    /\ MembersShape
    /\ ~raced =>
         /\ Owners # {}
         /\ \A u \in Users : invitation[u].status = "pending" => role[u] = "none"
         /\ \A u \in Users : asked[u] # NotAsked => CheckStands(u)

\* More than one owner leaves another besides any one of them.
LEMMA AnotherOwner ==
  ASSUME Cardinality(Owners) > 1, NEW u
  PROVE  Owners \ {u} # {}
<1>1. SUFFICES ASSUME Owners \subseteq {u} PROVE FALSE
  OBVIOUS
<1>2. IsFiniteSet({u}) /\ Cardinality({u}) = 1
  BY FS_Singleton
<1>3. Cardinality(Owners) <= 1
  BY <1>1, <1>2, FS_Subset
<1>4. Cardinality(Owners) \in Nat
  BY <1>1, <1>2, FS_Subset, FS_CardinalityType
<1> QED BY <1>3, <1>4

\* The invariant holds of a workspace with its creator.
LEMMA InitMembersInv == MembersInit => MembersInv
<1> SUFFICES ASSUME MembersInit PROVE MembersInv
  OBVIOUS
<1>1. Creator \in Owners
  BY MembersAssumption DEF MembersInit, Owners
<1>2. \A u \in Users : invitation[u].status # "pending" /\ asked[u] = NotAsked
  BY DEF MembersInit
<1> QED BY <1>1, <1>2, InitShape DEF MembersInv

\* A step without effect, which changes neither a role nor an invitation, but the
\* request of one user.
LEMMA NoEffect ==
  ASSUME MembersInv, MembersShape', NEW u \in Users, UNCHANGED <<role, invitation, raced>>,
         \A v \in Users : v # u => asked'[v] = asked[v],
         ~raced /\ asked'[u] # NotAsked => CheckStands(u)'
  PROVE  MembersInv'
<1>1. Owners' = Owners
  BY DEF Owners
<1>2. ASSUME ~raced, NEW v \in Users, asked'[v] # NotAsked PROVE CheckStands(v)'
  <2>1. CASE v = u
    BY <1>2, <2>1
  <2>2. CASE v # u
    BY <1>1, <1>2, <2>2 DEF MembersInv, CheckStands
  <2> QED BY <2>1, <2>2
<1> QED BY <1>1, <1>2 DEF MembersInv

\* A request that begins has checked nothing; to accept, its invitation is pending.
LEMMA AskInv ==
  ASSUME MembersInv, MembersShape', NEW u \in Users, NEW op, NEW target, NEW to,
         Ask(u, op, target, to), op = "accept" => invitation[u].status = "pending"
  PROVE  MembersInv'
<1>1. /\ asked'[u] = [op |-> op, step |-> "authorized", target |-> target, to |-> to, late |-> FALSE]
      /\ \A v \in Users : v # u => asked'[v] = asked[v]
      /\ UNCHANGED <<role, invitation, raced>>
  BY DEF Ask, MembersInv, MembersShape, MembersTypeOK
<1>2. asked'[u].op = op /\ asked'[u].step = "authorized"
  BY <1>1
<1>3. ~raced => CheckStands(u)'
  BY <1>1, <1>2 DEF CheckStands, MembersInv
<1> QED BY <1>1, <1>3, NoEffect

\* The checks: the two SELECTs of the guard, and that of an invitation.
LEMMA CheckInv ==
  ASSUME MembersInv, MembersShape', NEW u \in Users,
         ReadTargetRole(u) \/ CountOwners(u) \/ CheckNoMember(u)
  PROVE  MembersInv'
<1>0. MembersShape /\ asked[u] \in Asked /\ UNCHANGED <<role, invitation, raced>>
  BY UnderWay DEF ReadTargetRole, CountOwners, CheckNoMember, MembersInv, MembersShape,
                  MembersTypeOK
<1>1. PICK s \in {"counting", "cleared"} :
        Step(u, s) \/ asked' = [asked EXCEPT ![u] = NotAsked]
  BY DEF ReadTargetRole, CountOwners, CheckNoMember
<1>2. /\ \A v \in Users : v # u => asked'[v] = asked[v]
      /\ \/ asked'[u] = NotAsked
         \/ /\ asked'[u].op = asked[u].op
            /\ asked'[u].target = asked[u].target /\ asked'[u].to = asked[u].to
  BY <1>0, <1>1, StepOf
<1>3. ASSUME ~raced, asked'[u] # NotAsked PROVE CheckStands(u)'
  <2>1. Owners' = Owners /\ Owners # {}
    BY <1>0, <1>3 DEF Owners, MembersInv
  <2>2. CASE ReadTargetRole(u)
    <3>1. CASE role[asked[u].target] = "owner" /\ asked[u].to # "owner"
      <4>1. Step(u, "counting")
        BY <2>2, <3>1 DEF ReadTargetRole
      <4>2. asked'[u].step = "counting" \/ asked'[u] = NotAsked
        BY <1>0, <4>1, StepOf
      <4> QED BY <1>2, <1>3, <2>2, <4>2 DEF CheckStands, ReadTargetRole
    <3>2. CASE role[asked[u].target] # "owner" \/ asked[u].to = "owner"
      <4>1. asked[u].to # "owner" => Owners \ {asked[u].target} # {}
        BY <2>1, <3>2 DEF Owners
      <4> QED BY <1>2, <1>3, <2>1, <2>2, <4>1 DEF CheckStands, ReadTargetRole
    <3> QED BY <3>1, <3>2
  <2>3. CASE CountOwners(u)
    <3>1. CASE KeepsAnOwner
      BY <1>2, <1>3, <2>1, <2>3, <3>1, AnotherOwner DEF CheckStands, CountOwners, KeepsAnOwner
    <3>2. CASE ~KeepsAnOwner
      <4>1. asked'[u] = NotAsked
        BY <1>0, <2>3, <3>2 DEF CountOwners, MembersShape, MembersTypeOK
      <4> QED BY <1>3, <4>1
    <3> QED BY <3>1, <3>2
  <2>4. CASE CheckNoMember(u)
    <3>1. CASE role[asked[u].target] = "none"
      BY <1>0, <1>2, <1>3, <2>4, <3>1 DEF CheckStands, CheckNoMember
    <3>2. CASE role[asked[u].target] # "none"
      <4>1. asked'[u] = NotAsked
        BY <1>0, <2>4, <3>2 DEF CheckNoMember, MembersShape, MembersTypeOK
      <4> QED BY <1>3, <4>1
    <3> QED BY <3>1, <3>2
  <2> QED BY <2>2, <2>3, <2>4
<1> QED BY <1>0, <1>2, <1>3, NoEffect

\* A request takes effect on what it has checked, or it has raced.
LEMMA EffectInv ==
  ASSUME MembersInv, MembersShape', NEW u \in Users,
         SetRole(u) \/ Invite(u) \/ RevokeInvitation(u) \/ Accept(u)
  PROVE  MembersInv'
<1>0. /\ MembersShape /\ asked[u] \in Asked /\ asked[u] # NotAsked /\ Effect(u)
      /\ role \in [Users -> MemberRoles \cup {"none"}]
      /\ invitation \in [Users -> InvitationRow] /\ asked[u].target \in Users
  BY UnderWay DEF SetRole, Invite, RevokeInvitation, Accept, MembersInv, MembersShape,
                  MembersTypeOK, Asked, InvitationRow
<1>1. \A v \in Users : asked'[v] = NotAsked \/ asked'[v].late
  BY <1>0, EffectOf
<1>2. SUFFICES ASSUME ~raced, ~asked[u].late
               PROVE  /\ Owners' # {}
                      /\ \A v \in Users : invitation'[v].status = "pending" => role'[v] = "none"
  <2>1. ~raced' => ~raced /\ ~asked[u].late
    BY <1>0 DEF Effect
  <2>2. \A v \in Users : asked'[v] # NotAsked => CheckStands(v)'
    BY <1>1 DEF CheckStands
  <2> QED BY <2>1, <2>2 DEF MembersInv
<1>3. /\ Owners # {} /\ CheckStands(u)
      /\ \A v \in Users : invitation[v].status = "pending" => role[v] = "none"
  BY <1>0, <1>2 DEF MembersInv
<1>4. CASE SetRole(u)
  <2>1. /\ invitation' = invitation /\ asked[u].op = "set role" /\ asked[u].step = "cleared"
        /\ \A v \in Users : v # asked[u].target => role'[v] = role[v]
        /\ role[asked[u].target] = "none" => role'[asked[u].target] = "none"
        /\ role[asked[u].target] # "none" => role'[asked[u].target] = asked[u].to
    BY <1>0, <1>4 DEF SetRole
  <2>2. Owners' # {}
    <3>1. CASE asked[u].to = "owner"
      BY <1>3, <2>1, <3>1 DEF Owners
    <3>2. CASE asked[u].to # "owner"
      BY <1>2, <1>3, <2>1, <3>2 DEF Owners, CheckStands
    <3> QED BY <3>1, <3>2
  <2> QED BY <1>3, <2>1, <2>2
<1>5. CASE Invite(u)
  <2>1. role' = role /\ role[asked[u].target] = "none"
    BY <1>2, <1>3, <1>5 DEF Invite, CheckStands
  <2>2. \A v \in Users : v # asked[u].target => invitation'[v] = invitation[v]
    BY <1>0, <1>5 DEF Invite
  <2> QED BY <1>3, <2>1, <2>2 DEF Owners
<1>6. CASE RevokeInvitation(u)
  <2>1. role' = role
    BY <1>6 DEF RevokeInvitation
  <2>2. \A v \in Users : invitation'[v].status = "pending" => invitation[v].status = "pending"
    BY <1>0, <1>6 DEF RevokeInvitation, InvitationRow
  <2> QED BY <1>3, <2>1, <2>2 DEF Owners
<1>7. CASE Accept(u)
  <2>1. role[u] = "none" /\ \A v \in Users : v # u => role'[v] = role[v]
    BY <1>0, <1>2, <1>3, <1>7 DEF Accept, CheckStands
  <2>2. invitation' = [invitation EXCEPT ![u].status = "accepted"]
    BY <1>2, <1>7 DEF Accept
  <2>3. \A v \in Users : invitation'[v].status = "pending" =>
                           invitation[v].status = "pending" /\ v # u
    BY <1>0, <2>2 DEF InvitationRow
  <2> QED BY <1>3, <2>1, <2>3 DEF Owners
<1> QED BY <1>4, <1>5, <1>6, <1>7

\* Every step keeps the invariant.
LEMMA NextMembersInv == MembersInv /\ [MembersNext]_memberVars => MembersInv'
<1> SUFFICES ASSUME MembersInv, [MembersNext]_memberVars PROVE MembersInv'
  OBVIOUS
<1>0. MembersShape /\ MembersShape'
  BY NextShape DEF MembersInv
<1>1. ASSUME NEW u \in Users, NEW target \in Users, NEW to \in MemberRoles \cup {"none"},
             AskForRole(u, target, to) \/ AskToInvite(u, target, to) \/ AskToRevoke(u, target)
      PROVE  MembersInv'
  BY <1>0, <1>1, AskInv DEF AskForRole, AskToInvite, AskToRevoke
<1>2. ASSUME NEW u \in Users, AskToAccept(u) PROVE MembersInv'
  BY <1>0, <1>2, AskInv DEF AskToAccept
<1>3. ASSUME NEW u \in Users, ReadTargetRole(u) \/ CountOwners(u) \/ CheckNoMember(u)
      PROVE  MembersInv'
  BY <1>0, <1>3, CheckInv
<1>4. ASSUME NEW u \in Users, SetRole(u) \/ Invite(u) \/ RevokeInvitation(u) \/ Accept(u)
      PROVE  MembersInv'
  BY <1>0, <1>4, EffectInv
<1>5. ASSUME NEW u \in Users, ExpireInvitation(u) PROVE MembersInv'
  <2>1. \A v \in Users : invitation'[v].status = "pending" => invitation[v].status = "pending"
    BY <1>0, <1>5 DEF ExpireInvitation, MembersShape, MembersTypeOK
  <2> QED BY <1>0, <1>5, <2>1 DEF ExpireInvitation, MembersInv, CheckStands, Owners
<1>6. ASSUME NEW u \in Users, RequestFails(u) PROVE MembersInv'
  BY <1>0, <1>6, NoEffect DEF RequestFails, MembersShape, MembersTypeOK
<1>7. CASE UNCHANGED memberVars
  BY <1>0, <1>7 DEF memberVars, MembersInv, CheckStands, Owners
<1>8. {"admin", "viewer"} \subseteq MemberRoles
  BY DEF MemberRoles
<1> QED BY <1>1, <1>2, <1>3, <1>4, <1>5, <1>6, <1>7, <1>8 DEF MembersNext

\* ensureLastOwnerIsPreserved keeps an owner through every sequence of requests of
\* which no two overlap.
THEOREM OwnerlessCorrect == MembersSpec => []OwnerlessOnlyByRace
<1>1. MembersInv => OwnerlessOnlyByRace
  BY DEF MembersInv, OwnerlessOnlyByRace
<1> QED BY InitMembersInv, NextMembersInv, <1>1, PTL DEF MembersSpec

-----------------------------------------------------------------------------
(* Notices: type correctness                                               *)

\* A loop that has claimed a notice.
BusyLoop == [phase: {"sending", "accepted", "recorded", "refused", "rejected"},
             for: SignIn, attempt: 1 .. MaxAttempts]

\* A loop has claimed a notice, or it rests or claims.
LEMMA BusyOrNot ==
  ASSUME NEW l \in NoticeLoop
  PROVE  /\ l.phase \in {"resting", "claiming"} \/ l \in BusyLoop
         /\ l \in BusyLoop => l.phase \notin {"resting", "claiming"}
  BY DEF NoticeLoop, BusyLoop

\* A loop that goes on with its notice stays with it.
LEMMA BusyStep ==
  ASSUME NEW l \in BusyLoop,
         NEW phase \in {"sending", "accepted", "recorded", "refused", "rejected"}
  PROVE  /\ [l EXCEPT !.phase = phase] \in BusyLoop
         /\ [l EXCEPT !.phase = phase].phase = phase /\ [l EXCEPT !.phase = phase].for = l.for
  BY DEF BusyLoop

\* The kinds of loops.
LEMMA LoopTypes ==
  /\ Resting \in NoticeLoop /\ Claiming \in NoticeLoop /\ BusyLoop \subseteq NoticeLoop
  /\ Resting.phase = "resting" /\ Claiming.phase = "claiming"
<1>1. Resting \in NoticeLoop /\ Claiming \in NoticeLoop
  BY DEF Resting, Claiming, NoticeLoop
<1>2. BusyLoop \subseteq NoticeLoop
  BY DEF BusyLoop, NoticeLoop
<1> QED BY <1>1, <1>2 DEF Resting, Claiming

\* The types hold before the first sign-in.
LEMMA NoticesInitTyped == NoticesInit => NoticesTypeOK
<1> SUFFICES ASSUME NoticesInit PROVE NoticesTypeOK
  OBVIOUS
<1>1. notice \in [SignIn -> NoticeRow]
  <2>1. [status |-> "none", attempts |-> 0, due |-> FALSE] \in NoticeRow
    BY NoticesAssumption DEF NoticeRow
  <2> QED BY <2>1 DEF NoticesInit
<1>2. loop \in [Loops -> NoticeLoop]
  BY LoopTypes DEF NoticesInit
<1>3. origin \in [SignIn -> Sources \cup {"none"}] /\ mails \in [SignIn -> 0 .. MaxMails]
  BY NoticesAssumption DEF NoticesInit
<1>4. kept \subseteq Made /\ recent \subseteq Made
  BY DEF NoticesInit
<1> QED BY <1>1, <1>2, <1>3, <1>4 DEF NoticesTypeOK

\* What the steps of a loop that has claimed a notice do to it.
LEMMA LoopStep ==
  ASSUME NoticesTypeOK, NEW p \in Loops, loop[p] \in BusyLoop,
         NEW phase \in {"sending", "accepted", "recorded", "refused", "rejected"},
         loop' = [loop EXCEPT ![p].phase = phase]
  PROVE  /\ loop' \in [Loops -> NoticeLoop]
         /\ \A q \in Loops : q # p => loop'[q] = loop[q]
         /\ loop'[p].phase = phase /\ loop'[p].for = loop[p].for
<1>1. loop' = [loop EXCEPT ![p] = [loop[p] EXCEPT !.phase = phase]]
  BY DEF NoticesTypeOK
<1>2. /\ [loop[p] EXCEPT !.phase = phase] \in NoticeLoop
      /\ [loop[p] EXCEPT !.phase = phase].phase = phase
      /\ [loop[p] EXCEPT !.phase = phase].for = loop[p].for
  BY BusyStep, LoopTypes
<1> QED BY <1>1, <1>2 DEF NoticesTypeOK

\* Sign-ins, the look-back and the ends of sessions keep the types.
LEMMA SessionTypeOK ==
  ASSUME NoticesTypeOK, NEW n \in SignIn,
         \/ \E source \in Sources : SignInFrom(n, source)
         \/ SessionGone(n) \/ LookbackPasses(n)
  PROVE  /\ NoticesTypeOK' /\ UNCHANGED <<notice, loop, mails>>
<1>1. ASSUME NEW source \in Sources, SignInFrom(n, source)
      PROVE  NoticesTypeOK' /\ UNCHANGED <<notice, loop, mails>>
  BY <1>1, NoticesAssumption DEF SignInFrom, NoticesTypeOK, Made
<1>2. CASE SessionGone(n)
  BY <1>2 DEF SessionGone, NoticesTypeOK, Made
<1>3. CASE LookbackPasses(n)
  BY <1>3 DEF LookbackPasses, NoticesTypeOK, Made
<1> QED BY <1>1, <1>2, <1>3

\* The rows that the steps of a loop write have the type of a notice.
LEMMA RowTypes ==
  ASSUME NoticesTypeOK, NEW n \in SignIn
  PROVE  /\ \A s \in {"delivered", "pending", "failed"}, d \in BOOLEAN :
              [notice[n] EXCEPT !.status = s, !.due = d] \in NoticeRow
         /\ [notice[n] EXCEPT !.due = TRUE] \in NoticeRow
         /\ [notice[n] EXCEPT !.status = "delivered"] \in NoticeRow
         /\ [status |-> "pending", attempts |-> 0, due |-> TRUE] \in NoticeRow
         /\ notice[n].attempts < MaxAttempts => Claimed(n) \in NoticeRow
<1>1. notice[n] \in NoticeRow /\ MaxAttempts \in Nat
  BY NoticesAssumption DEF NoticesTypeOK
<1>2. ASSUME NEW s \in {"delivered", "pending", "failed"}, NEW d \in BOOLEAN
      PROVE  [notice[n] EXCEPT !.status = s, !.due = d] \in NoticeRow
  BY <1>1 DEF NoticeRow
<1>3. [notice[n] EXCEPT !.due = TRUE] \in NoticeRow
  BY <1>1 DEF NoticeRow
<1>4. [notice[n] EXCEPT !.status = "delivered"] \in NoticeRow
  BY <1>1 DEF NoticeRow
<1>5. [status |-> "pending", attempts |-> 0, due |-> TRUE] \in NoticeRow
  BY <1>1 DEF NoticeRow
<1>6. ASSUME notice[n].attempts < MaxAttempts PROVE Claimed(n) \in NoticeRow
  <2>1. notice[n].attempts + 1 \in 0 .. MaxAttempts
    BY <1>1, <1>6 DEF NoticeRow
  <2>2. Claimed(n) = [notice[n] EXCEPT !.status = "sending", !.attempts = notice[n].attempts + 1]
    BY <1>1 DEF Claimed, NoticeRow
  <2> QED BY <1>1, <2>1, <2>2 DEF NoticeRow
<1> QED BY <1>2, <1>3, <1>4, <1>5, <1>6

-----------------------------------------------------------------------------
(* Notices: the bound                                                      *)

Announcing(n) == {p \in Loops : loop[p].phase = "sending" /\ loop[p].for = n}

\* Why the mails are bounded: every mail, and every loop about to send one, has an
\* attempt that was counted when the notice was claimed.  The first sign-in never
\* gets a notice.
NoticesInv ==
    /\ NoticesTypeOK
    /\ \A n \in SignIn : mails[n] + Cardinality(Announcing(n)) <= notice[n].attempts
    /\ \A n \in SignIn : notice[n].status = "none" => notice[n].attempts = 0
    /\ \A p \in Loops : loop[p] \in BusyLoop => notice[loop[p].for].status # "none"
    /\ SignIns > 0 => notice[1].status = "none"

\* How many loops may announce a notice.
LEMMA AnnouncingCount ==
  ASSUME NEW n
  PROVE  IsFiniteSet(Announcing(n)) /\ Cardinality(Announcing(n)) \in Nat
<1>1. Announcing(n) \subseteq Loops
  BY DEF Announcing
<1> QED BY <1>1, FS_Subset, FS_CardinalityType, NoticesAssumption

\* The invariant holds before the first sign-in.
LEMMA InitNoticesInv == NoticesInit => NoticesInv
<1> SUFFICES ASSUME NoticesInit PROVE NoticesInv
  OBVIOUS
<1>1. \A n \in SignIn : notice[n].status = "none" /\ notice[n].attempts = 0 /\ mails[n] = 0
  BY DEF NoticesInit
<1>2. ASSUME NEW n \in SignIn PROVE Cardinality(Announcing(n)) = 0
  <2>1. Announcing(n) = {}
    BY LoopTypes DEF NoticesInit, Announcing
  <2> QED BY <2>1, FS_EmptySet
<1>3. \A p \in Loops : loop[p] \notin BusyLoop
  BY LoopTypes, BusyOrNot DEF NoticesInit
<1>4. SignIns > 0 => 1 \in SignIn
  BY NoticesAssumption DEF SignIn
<1> QED BY <1>1, <1>2, <1>3, <1>4, NoticesInitTyped DEF NoticesInv

\* A step that neither counts an attempt nor sends a mail.
LEMMA NoNewMail ==
  ASSUME NoticesInv, NoticesTypeOK', mails' = mails,
         \A n \in SignIn : /\ notice'[n].attempts = notice[n].attempts
                           /\ notice'[n].status = "none" => notice[n].status = "none"
                           /\ n = 1 /\ notice[n].status = "none" => notice'[n].status = "none",
         \A p \in Loops : /\ loop'[p].phase = "sending" => loop'[p] = loop[p]
                          /\ loop'[p] \in BusyLoop =>
                               loop[p] \in BusyLoop /\ loop'[p].for = loop[p].for
  PROVE  NoticesInv'
<1>1. ASSUME NEW n \in SignIn
      PROVE  mails'[n] + Cardinality(Announcing(n)') <= notice'[n].attempts
  <2>1. Announcing(n)' \subseteq Announcing(n)
    BY DEF Announcing
  <2>2. /\ Cardinality(Announcing(n)') \in Nat /\ Cardinality(Announcing(n)) \in Nat
        /\ Cardinality(Announcing(n)') <= Cardinality(Announcing(n))
    BY <2>1, AnnouncingCount, FS_Subset, FS_CardinalityType
  <2>3. mails[n] \in Nat /\ notice[n].attempts \in Nat
    BY DEF NoticesInv, NoticesTypeOK, NoticeRow
  <2>4. mails[n] + Cardinality(Announcing(n)) <= notice[n].attempts
    BY DEF NoticesInv
  <2> QED BY <2>2, <2>3, <2>4
<1>2. \A n \in SignIn : notice'[n].status = "none" => notice'[n].attempts = 0
  BY DEF NoticesInv
<1>3. ASSUME NEW p \in Loops, loop'[p] \in BusyLoop PROVE notice'[loop'[p].for].status # "none"
  <2>1. loop[p] \in BusyLoop /\ loop'[p].for = loop[p].for /\ loop[p].for \in SignIn
    BY <1>3 DEF BusyLoop
  <2> QED BY <2>1 DEF NoticesInv
<1>4. SignIns > 0 => notice'[1].status = "none"
  BY NoticesAssumption DEF NoticesInv, SignIn
<1> QED BY <1>1, <1>2, <1>3, <1>4 DEF NoticesInv

\* A claim counts the attempt of the loop that is about to send.
LEMMA ClaimInv ==
  ASSUME NoticesInv, NEW p \in Loops, NEW n \in SignIn, ClaimNotice(p, n)
  PROVE  NoticesInv'
<1>0. /\ NoticesTypeOK /\ notice[n] \in NoticeRow /\ loop[p] = Claiming
      /\ notice[n].status \in {"pending", "sending"} /\ notice[n].attempts < MaxAttempts
      /\ UNCHANGED <<origin, kept, recent, mails>>
  BY DEF NoticesInv, NoticesTypeOK, ClaimNotice, ClaimableNotice
<1>1. /\ notice' = [notice EXCEPT ![n] = Claimed(n)]
      /\ notice[n].attempts \in Nat
      /\ Claimed(n).attempts = notice[n].attempts + 1 /\ Claimed(n).status = "sending"
  BY <1>0 DEF ClaimNotice, Claimed, NoticeRow
<1>2. /\ loop'[p] = [phase |-> "sending", for |-> n, attempt |-> notice[n].attempts + 1]
      /\ \A q \in Loops : q # p => loop'[q] = loop[q]
      /\ loop' \in [Loops -> NoticeLoop]
  <2>1. notice[n].attempts + 1 \in 1 .. MaxAttempts
    BY <1>0, <1>1, NoticesAssumption
  <2>2. [phase |-> "sending", for |-> n, attempt |-> notice[n].attempts + 1] \in BusyLoop
    BY <2>1 DEF BusyLoop
  <2> QED BY <1>0, <2>2, LoopTypes DEF ClaimNotice, NoticesTypeOK
<1>3. loop'[p].phase = "sending" /\ loop'[p].for = n /\ loop[p].phase = "claiming"
  BY <1>0, <1>2, LoopTypes
<1>4. NoticesTypeOK'
  BY <1>0, <1>1, <1>2, RowTypes DEF NoticesTypeOK, Made
<1>5. /\ notice'[n] = Claimed(n)
      /\ \A m \in SignIn : m # n => notice'[m] = notice[m]
  BY <1>0, <1>1 DEF NoticesTypeOK
<1>6. ASSUME NEW m \in SignIn
      PROVE  mails'[m] + Cardinality(Announcing(m)') <= notice'[m].attempts
  <2>1. /\ mails[m] \in Nat /\ Cardinality(Announcing(m)) \in Nat
        /\ mails[m] + Cardinality(Announcing(m)) <= notice[m].attempts
    BY AnnouncingCount DEF NoticesInv, NoticesTypeOK
  <2>2. CASE m = n
    <3>1. Announcing(n)' = Announcing(n) \cup {p} /\ p \notin Announcing(n)
      BY <1>2, <1>3 DEF Announcing
    <3>2. Cardinality(Announcing(n)') = Cardinality(Announcing(n)) + 1
      BY <3>1, AnnouncingCount, FS_AddElement
    <3> QED BY <1>0, <1>1, <1>5, <2>1, <2>2, <3>2
  <2>3. CASE m # n
    <3>1. Announcing(m)' = Announcing(m)
      BY <1>2, <1>3, <2>3 DEF Announcing
    <3> QED BY <1>0, <1>5, <2>1, <2>3, <3>1
  <2> QED BY <2>2, <2>3
<1>7. \A m \in SignIn : notice'[m].status = "none" => notice'[m].attempts = 0
  BY <1>1, <1>5 DEF NoticesInv
<1>8. ASSUME NEW q \in Loops, loop'[q] \in BusyLoop PROVE notice'[loop'[q].for].status # "none"
  <2>1. loop'[q].for \in SignIn
    BY <1>8 DEF BusyLoop
  <2> QED BY <1>1, <1>2, <1>3, <1>5, <1>8, <2>1 DEF NoticesInv
<1>9. SignIns > 0 => notice'[1].status = "none"
  BY <1>0, <1>5, NoticesAssumption DEF NoticesInv, SignIn
<1> QED BY <1>4, <1>6, <1>7, <1>8, <1>9 DEF NoticesInv

\* A mail uses up the attempt of the loop that sends it.
LEMMA MailInv ==
  ASSUME NoticesInv, NEW p \in Loops, MailAccepted(p)
  PROVE  NoticesInv'
<1>0. /\ NoticesTypeOK /\ loop[p] \in BusyLoop /\ loop[p].phase = "sending"
      /\ loop[p].for \in SignIn /\ UNCHANGED <<origin, kept, recent, notice>>
  BY BusyOrNot DEF MailAccepted, NoticesInv, NoticesTypeOK, BusyLoop
<1>1. /\ \A q \in Loops : q # p => loop'[q] = loop[q]
      /\ loop' \in [Loops -> NoticeLoop]
      /\ loop'[p].phase # "sending" /\ loop'[p].for = loop[p].for
  <2>1. PICK heard \in {"accepted", "refused"} : loop' = [loop EXCEPT ![p].phase = heard]
    BY DEF MailAccepted
  <2> QED BY <1>0, <2>1, LoopStep
<1>2. /\ mails'[loop[p].for] = mails[loop[p].for] + 1
      /\ \A m \in SignIn : m # loop[p].for => mails'[m] = mails[m]
      /\ mails' \in [SignIn -> 0 .. MaxMails]
  BY <1>0, NoticesAssumption DEF MailAccepted, NoticesTypeOK
<1>3. NoticesTypeOK'
  BY <1>0, <1>1, <1>2 DEF NoticesTypeOK, Made
<1>4. ASSUME NEW m \in SignIn
      PROVE  mails'[m] + Cardinality(Announcing(m)') <= notice'[m].attempts
  <2>1. /\ mails[m] \in Nat /\ Cardinality(Announcing(m)) \in Nat
        /\ mails[m] + Cardinality(Announcing(m)) <= notice[m].attempts
    BY AnnouncingCount DEF NoticesInv, NoticesTypeOK
  <2>2. CASE m = loop[p].for
    <3>1. Announcing(m)' = Announcing(m) \ {p} /\ p \in Announcing(m)
      BY <1>0, <1>1, <2>2 DEF Announcing
    <3>2. Cardinality(Announcing(m)') = Cardinality(Announcing(m)) - 1
      BY <3>1, AnnouncingCount, FS_RemoveElement
    <3> QED BY <1>0, <1>2, <2>1, <2>2, <3>2
  <2>3. CASE m # loop[p].for
    <3>1. Announcing(m)' = Announcing(m)
      BY <1>1, <1>0, <2>3 DEF Announcing
    <3> QED BY <1>0, <1>2, <2>1, <2>3, <3>1
  <2> QED BY <2>2, <2>3
<1>5. \A q \in Loops : loop'[q] \in BusyLoop => notice'[loop'[q].for].status # "none"
  BY <1>0, <1>1 DEF NoticesInv
<1> QED BY <1>0, <1>3, <1>4, <1>5 DEF NoticesInv

\* The steps of a loop that count and send nothing.
LEMMA QuietLoopInv ==
  ASSUME NoticesInv, NEW p \in Loops,
         \/ Discover(p) \/ NothingToClaim(p) \/ MailRefused(p) \/ MarkNoticeDelivered(p)
         \/ EventRefused(p) \/ MarkNoticeFailed(p) \/ LoopEnds(p)
  PROVE  NoticesInv'
<1>0. NoticesTypeOK /\ UNCHANGED <<origin, kept, recent, mails>> /\ loop[p] \in NoticeLoop
  BY DEF NoticesInv, NoticesTypeOK, Discover, NothingToClaim, MailRefused, MarkNoticeDelivered,
         EventRefused, MarkNoticeFailed, LoopEnds
<1>1. CASE NothingToClaim(p) \/ LoopEnds(p)
  <2>1. /\ notice' = notice /\ loop'[p] = Resting /\ loop' \in [Loops -> NoticeLoop]
        /\ \A q \in Loops : q # p => loop'[q] = loop[q]
    BY <1>0, <1>1, LoopTypes DEF NothingToClaim, LoopEnds, NoticesTypeOK
  <2>2. NoticesTypeOK'
    BY <1>0, <2>1 DEF NoticesTypeOK, Made
  <2> QED BY <1>0, <2>1, <2>2, LoopTypes, BusyOrNot, NoNewMail
<1>2. CASE Discover(p)
  <2>1. /\ loop'[p] = Claiming /\ loop' \in [Loops -> NoticeLoop]
        /\ \A q \in Loops : q # p => loop'[q] = loop[q]
    BY <1>0, <1>2, LoopTypes DEF Discover, NoticesTypeOK
  <2>2. ~FromNewDevice(1)
    <3>1. \A k \in kept : k \in 1 .. SignIns
      BY <1>0 DEF NoticesTypeOK, Made, SignIn
    <3>2. \A k \in 1 .. SignIns : ~(k < 1)
      BY NoticesAssumption
    <3> QED BY <3>1, <3>2 DEF FromNewDevice, EarlierSignIns
  <2>3. ASSUME NEW n \in SignIn
        PROVE  /\ notice'[n].attempts = notice[n].attempts
               /\ notice'[n].status = "none" => notice[n].status = "none"
               /\ n = 1 /\ notice[n].status = "none" => notice'[n].status = "none"
    <3>1. notice'[n] = IF FromNewDevice(n) /\ notice[n].status = "none"
                         THEN [status |-> "pending", attempts |-> 0, due |-> TRUE]
                         ELSE notice[n]
      BY <1>2 DEF Discover
    <3>2. notice[n].status = "none" => notice[n].attempts = 0
      BY DEF NoticesInv
    <3> QED BY <2>2, <3>1, <3>2
  <2>4. notice' \in [SignIn -> NoticeRow]
    BY <1>0, <1>2, RowTypes DEF Discover, NoticesTypeOK
  <2>5. NoticesTypeOK'
    BY <1>0, <2>1, <2>4 DEF NoticesTypeOK, Made
  <2> QED BY <1>0, <2>1, <2>3, <2>5, LoopTypes, BusyOrNot, NoNewMail
<1>3. CASE MailRefused(p) \/ EventRefused(p)
  <2>1. loop[p] \in BusyLoop /\ notice' = notice
    BY <1>0, <1>3, BusyOrNot DEF MailRefused, EventRefused
  <2>2. PICK how \in {"refused", "rejected"} : loop' = [loop EXCEPT ![p].phase = how]
    BY <1>3 DEF MailRefused, EventRefused
  <2>3. /\ loop' \in [Loops -> NoticeLoop] /\ loop'[p].phase # "sending"
        /\ loop'[p].for = loop[p].for /\ \A q \in Loops : q # p => loop'[q] = loop[q]
    BY <1>0, <2>1, <2>2, LoopStep
  <2>4. NoticesTypeOK'
    BY <1>0, <2>1, <2>3 DEF NoticesTypeOK, Made
  <2> QED BY <1>0, <2>1, <2>3, <2>4, NoNewMail
<1>4. CASE MarkNoticeDelivered(p) \/ MarkNoticeFailed(p)
  <2>1. loop[p] \in BusyLoop
    BY <1>0, <1>4, BusyOrNot DEF MarkNoticeDelivered, MarkNoticeFailed
  <2>2. PICK n \in SignIn : n = loop[p].for
    BY <2>1 DEF BusyLoop
  <2>3. notice[n] \in NoticeRow /\ notice[n].status # "none"
    BY <1>0, <2>1, <2>2 DEF NoticesInv, NoticesTypeOK
  <2>4. \E row \in NoticeRow :
          /\ row.attempts = notice[n].attempts /\ row.status # "none"
          /\ notice' = [notice EXCEPT ![n] = row]
    <3>1. CASE MarkNoticeDelivered(p)
      <4> DEFINE row == [notice[n] EXCEPT !.status = "delivered"]
      <4>1. notice' = [notice EXCEPT ![n] = row]
        BY <1>0, <2>2, <3>1 DEF MarkNoticeDelivered, NoticesTypeOK
      <4>2. row \in NoticeRow /\ row.attempts = notice[n].attempts /\ row.status # "none"
        BY <1>0, <2>3, RowTypes DEF NoticeRow
      <4> QED BY <4>1, <4>2
    <3>2. CASE MarkNoticeFailed(p)
      <4>1. PICK s \in {"pending", "failed"}, d \in BOOLEAN :
              notice' = [notice EXCEPT ![n] = [notice[n] EXCEPT !.status = s, !.due = d]]
        BY <1>0, <2>2, <3>2 DEF MarkNoticeFailed, NoticesTypeOK
      <4>2. /\ [notice[n] EXCEPT !.status = s, !.due = d] \in NoticeRow
            /\ [notice[n] EXCEPT !.status = s, !.due = d].attempts = notice[n].attempts
            /\ [notice[n] EXCEPT !.status = s, !.due = d].status # "none"
        BY <1>0, <2>3, RowTypes DEF NoticeRow
      <4> QED BY <4>1, <4>2
    <3> QED BY <1>4, <3>1, <3>2
  <2>5. /\ notice' \in [SignIn -> NoticeRow]
        /\ \A m \in SignIn : m # n => notice'[m] = notice[m]
        /\ notice'[n].attempts = notice[n].attempts /\ notice'[n].status # "none"
    BY <1>0, <2>4 DEF NoticesTypeOK
  <2>6. /\ loop' \in [Loops -> NoticeLoop] /\ loop'[p].phase # "sending"
        /\ loop'[p] \in BusyLoop => loop'[p].for = loop[p].for
        /\ \A q \in Loops : q # p => loop'[q] = loop[q]
    <3>1. CASE MarkNoticeDelivered(p)
      BY <1>0, <2>1, <3>1, LoopStep DEF MarkNoticeDelivered
    <3>2. CASE MarkNoticeFailed(p)
      BY <1>0, <3>2, LoopTypes, BusyOrNot DEF MarkNoticeFailed, NoticesTypeOK
    <3> QED BY <1>4, <3>1, <3>2
  <2>7. NoticesTypeOK'
    BY <1>0, <2>5, <2>6 DEF NoticesTypeOK, Made
  <2> QED BY <1>0, <2>1, <2>3, <2>5, <2>6, <2>7, NoNewMail
<1> QED BY <1>1, <1>2, <1>3, <1>4

\* Every step keeps the invariant.
LEMMA NextNoticesInv == NoticesInv /\ [NoticesNext]_noticeVars => NoticesInv'
<1> SUFFICES ASSUME NoticesInv, [NoticesNext]_noticeVars PROVE NoticesInv'
  OBVIOUS
<1>0. NoticesTypeOK
  BY DEF NoticesInv
<1>1. ASSUME NoticesTypeOK', UNCHANGED <<notice, loop, mails>> PROVE NoticesInv'
  BY <1>1, NoNewMail
<1>2. ASSUME NEW n \in SignIn,
             \/ \E source \in Sources : SignInFrom(n, source)
             \/ SessionGone(n) \/ LookbackPasses(n)
      PROVE  NoticesInv'
  BY <1>0, <1>1, <1>2, SessionTypeOK
<1>3. ASSUME NEW n \in SignIn, BackoffPasses(n) PROVE NoticesInv'
  <2>1. /\ notice' = [notice EXCEPT ![n] = [notice[n] EXCEPT !.due = TRUE]]
        /\ notice[n] \in NoticeRow /\ UNCHANGED <<origin, kept, recent, loop, mails>>
    BY <1>0, <1>3 DEF BackoffPasses, NoticesTypeOK
  <2>2. NoticesTypeOK'
    BY <1>0, <2>1, RowTypes DEF NoticesTypeOK, Made
  <2>3. \A m \in SignIn : /\ notice'[m].attempts = notice[m].attempts
                          /\ notice'[m].status = notice[m].status
    BY <1>0, <2>1 DEF NoticesTypeOK, NoticeRow
  <2> QED BY <2>1, <2>2, <2>3, NoNewMail
<1>4. CASE UNCHANGED noticeVars
  BY <1>0, <1>1, <1>4 DEF noticeVars, NoticesTypeOK, Made
<1> QED BY <1>2, <1>3, <1>4, ClaimInv, MailInv, QuietLoopInv DEF NoticesNext

\* The sign-ins, the notices and the loops always have the types that
\* new-device-notifications.js gives them.
THEOREM NoticesTypeCorrect == NoticesSpec => []NoticesTypeOK
<1>1. NoticesInv => NoticesTypeOK
  BY DEF NoticesInv
<1> QED BY InitNoticesInv, NextNoticesInv, <1>1, PTL DEF NoticesSpec

\* A sign-in is announced at most MAX_ATTEMPTS times and the first one never,
\* however many loops claim it and wherever one dies.
THEOREM NoticesBoundedCorrect == NoticesSpec => []NoticesAreBounded
<1>1. ASSUME NoticesInv PROVE NoticesAreBounded
  <2>1. ASSUME NEW n \in SignIn
        PROVE  mails[n] <= notice[n].attempts /\ mails[n] <= MaxAttempts
    <3>1. /\ mails[n] \in Nat /\ Cardinality(Announcing(n)) \in Nat
          /\ mails[n] + Cardinality(Announcing(n)) <= notice[n].attempts
          /\ notice[n].attempts \in 0 .. MaxAttempts
      BY <1>1, AnnouncingCount DEF NoticesInv, NoticesTypeOK, NoticeRow
    <3> QED BY <3>1, NoticesAssumption
  <2>2. ASSUME SignIns > 0 PROVE mails[1] = 0
    <3>1. 1 \in SignIn
      BY <2>2, NoticesAssumption DEF SignIn
    <3>2. mails[1] <= notice[1].attempts /\ notice[1].attempts = 0 /\ mails[1] \in Nat
      BY <1>1, <2>1, <2>2, <3>1 DEF NoticesInv, NoticesTypeOK
    <3> QED BY <3>2
  <2> QED BY <2>1, <2>2 DEF NoticesAreBounded
<1> QED BY InitNoticesInv, NextNoticesInv, <1>1, PTL DEF NoticesSpec

-----------------------------------------------------------------------------
(* Sessions: the invariant                                                 *)

\* No two sessions are at one place of the order, and the places are filled from 1.
Placed ==
    /\ lastSeen \in [Logins -> Nat]
    /\ \A l, k \in Sessions : lastSeen[l] = lastSeen[k] => l = k
    /\ \A l \in Sessions : lastSeen[l] <= Cardinality(Sessions)

\* The types of an account.
SessionsTyped ==
    /\ password \in 0 .. MaxPassword
    /\ login \in [Logins -> Login]
    /\ Placed
    /\ \A l \in Sessions : login[l].phase = "opened"
    /\ expired \subseteq Sessions
    /\ trusted \subseteq Devices
    /\ acting \in [Logins -> BOOLEAN]
    /\ overflow \subseteq Logins
    /\ token \in [Tokens -> Token]
    /\ spent \in Seq(Tokens)
    /\ overtaken \subseteq Logins

\* A sign-in that has verified a password, or has a session, is of the password
\* in force or was under way when another one was set.
SignInsFit ==
    \A l \in Logins : l \in Sessions \/ login[l].phase = "verified" =>
        login[l].password = password \/ l \in overtaken

\* An account without a password has neither sessions nor tokens.
BeforeSignUp ==
    password = 0 => /\ \A l \in Logins : login[l].phase = "none"
                    /\ \A t \in Tokens : token[t].state = "none"
                    /\ spent = <<>>

\* A token that has set a password is consumed for good.
SpentFits ==
    /\ \A i \in DOMAIN spent : token[spent[i]].state = "consumed"
    /\ IsInjective(spent)
    /\ password > 0 => Len(spent) = password - 1

\* The inductive invariant of an account.
SessionsInv == SessionsTyped /\ SignInsFit /\ BeforeSignUp /\ SpentFits

-----------------------------------------------------------------------------
(* Sessions: their order                                                   *)

\* An account has finitely many sessions.
LEMMA SessionsFinite ==
  ASSUME NEW S \in SUBSET Logins PROVE IsFiniteSet(S) /\ Cardinality(S) \in Nat
BY SessionsAssumption, FS_Subset, FS_CardinalityType

\* The sessions that are left keep their order.
LEMMA KeptIs ==
  ASSUME Placed, NEW S \in SUBSET Sessions
  PROVE  /\ Kept(S) \in [Logins -> Nat] /\ \A l \in Logins : Kept(S)[l] # 0 <=> l \in S
         /\ \A l, k \in S : Kept(S)[l] = Kept(S)[k] => l = k
         /\ \A l \in S : Kept(S)[l] <= Cardinality(S)
<1> DEFINE upTo(l) == {k \in S : lastSeen[k] <= lastSeen[l]}
<1>1. S \in SUBSET Logins /\ \A l \in S : lastSeen[l] \in Nat
  BY DEF Sessions, Placed
<1>2. IsFiniteSet(S) /\ Cardinality(S) \in Nat
  BY <1>1, SessionsFinite
<1>3. ASSUME NEW l \in S
      PROVE  Cardinality(upTo(l)) \in Nat /\ Cardinality(upTo(l)) # 0 /\ Cardinality(upTo(l)) <= Cardinality(S)
  <2>1. upTo(l) \in SUBSET S /\ l \in upTo(l)
    BY <1>1
  <2> HIDE DEF upTo
  <2> QED BY <1>1, <1>2, <2>1, SessionsFinite, FS_Subset, FS_EmptySet
<1>4. ASSUME NEW l \in S, NEW k \in S, lastSeen[l] < lastSeen[k]
      PROVE  Cardinality(upTo(l)) # Cardinality(upTo(k))
  <2>1. upTo(l) \in SUBSET upTo(k) /\ k \in upTo(k) /\ k \notin upTo(l) /\ upTo(k) \in SUBSET Logins
    BY <1>1, <1>4
  <2> HIDE DEF upTo
  <2> QED BY <2>1, SessionsFinite, FS_Subset
<1>5. \A l \in Logins : Kept(S)[l] = IF l \in S THEN Cardinality(upTo(l)) ELSE 0
  BY DEF Kept
<1> HIDE DEF upTo
<1>6. Kept(S) \in [Logins -> Nat]
  BY <1>3, <1>5 DEF Kept, upTo
<1>7. \A l, k \in S : Kept(S)[l] = Kept(S)[k] => l = k
  <2> SUFFICES ASSUME NEW l \in S, NEW k \in S, Kept(S)[l] = Kept(S)[k] PROVE l = k
    OBVIOUS
  <2>1. Cardinality(upTo(l)) = Cardinality(upTo(k))
    BY <1>1, <1>5
  <2>2. ~(lastSeen[l] < lastSeen[k]) /\ ~(lastSeen[k] < lastSeen[l])
    BY <1>4, <2>1
  <2>3. lastSeen[l] = lastSeen[k]
    BY <1>1, <2>2
  <2> QED BY <2>3 DEF Placed
<1> QED BY <1>1, <1>3, <1>5, <1>6, <1>7

\* Sessions that are deleted leave the others in their order.
LEMMA WithoutIs ==
  ASSUME Placed, NEW gone, Without(gone)
  PROVE  Placed' /\ Sessions' = Sessions \ gone /\ expired' = expired \ gone
<1> DEFINE S == Sessions \ gone
<1>1. lastSeen' = Kept(S) /\ expired' = expired \ gone
  BY DEF Without
<1>2. S \in SUBSET Sessions /\ S \in SUBSET Logins
  BY DEF Sessions
<1>3. /\ lastSeen' \in [Logins -> Nat] /\ \A l \in Logins : lastSeen'[l] # 0 <=> l \in S
      /\ \A l, k \in S : lastSeen'[l] = lastSeen'[k] => l = k
      /\ \A l \in S : lastSeen'[l] <= Cardinality(S)
  BY <1>1, <1>2, KeptIs
<1>4. Sessions' = S
  BY <1>2, <1>3 DEF Sessions
<1> QED BY <1>1, <1>3, <1>4 DEF Placed

\* A session that is seen now, or opened, is the last of them.
LEMMA SeenNowIs ==
  ASSUME Placed, NEW l \in Logins, SeenNow(l)
  PROVE  Placed' /\ Sessions' = Sessions \cup {l}
<1> DEFINE S == Sessions \ {l}
           left == Kept(S)
           last == Cardinality(S) + 1
<1>1. lastSeen' = [left EXCEPT ![l] = last]
  BY DEF SeenNow
<1>2. S \in SUBSET Sessions /\ S \in SUBSET Logins
  BY DEF Sessions
<1>3. Cardinality(S) \in Nat /\ IsFiniteSet(S)
  BY <1>2, SessionsFinite
<1>4. /\ left \in [Logins -> Nat] /\ \A k \in Logins : left[k] # 0 <=> k \in S
      /\ \A j, k \in S : left[j] = left[k] => j = k
      /\ \A k \in S : left[k] <= Cardinality(S)
  BY <1>2, KeptIs
<1>5. last \in Nat /\ last # 0 /\ last > Cardinality(S)
  BY <1>3
<1>6. l \notin S /\ Sessions \cup {l} = S \cup {l}
  OBVIOUS
<1>7. Cardinality(S \cup {l}) = last
  BY <1>3, <1>6, FS_AddElement
<1> HIDE DEF left, last, S
<1>8. lastSeen' \in [Logins -> Nat] /\ lastSeen'[l] = last /\ \A k \in Logins \ {l} : lastSeen'[k] = left[k]
  BY <1>1, <1>4, <1>5
<1>9. Sessions' = S \cup {l}
  BY <1>2, <1>4, <1>5, <1>8 DEF Sessions
<1>10. \A k \in S : lastSeen'[k] = left[k] /\ left[k] \in Nat /\ left[k] < last /\ left[k] <= last
  BY <1>2, <1>3, <1>4, <1>5, <1>6, <1>8
<1>11. \A j, k \in S \cup {l} : lastSeen'[j] = lastSeen'[k] => j = k
  BY <1>4, <1>5, <1>8, <1>10
<1>12. \A k \in S \cup {l} : lastSeen'[k] <= last
  BY <1>5, <1>8, <1>10
<1> QED BY <1>6, <1>7, <1>8, <1>9, <1>11, <1>12 DEF Placed

-----------------------------------------------------------------------------
(* Sessions: the steps                                                     *)

\* The invariant holds before the account exists.
LEMMA SessionsInitially == SessionsInit => SessionsInv
<1> SUFFICES ASSUME SessionsInit PROVE SessionsInv
  OBVIOUS
<1>1. /\ password = 0 /\ login \in [Logins -> {[phase |-> "none", password |-> 0, device |-> d] : d \in Devices}]
      /\ lastSeen = [l \in Logins |-> 0] /\ expired = {} /\ trusted = {} /\ acting = [l \in Logins |-> FALSE]
      /\ overflow = {} /\ token = [t \in Tokens |-> [state |-> "none", sees |-> {}]] /\ spent = <<>> /\ overtaken = {}
  BY DEF SessionsInit
<1>2. Sessions = {}
  BY <1>1 DEF Sessions
<1>3. Placed
  BY <1>1, <1>2 DEF Placed
<1>4. \A l \in Logins : login[l] \in Login /\ login[l].phase = "none"
  <2> SUFFICES ASSUME NEW l \in Logins PROVE login[l] \in Login /\ login[l].phase = "none"
    OBVIOUS
  <2>1. PICK d \in Devices : login[l] = [phase |-> "none", password |-> 0, device |-> d]
    BY <1>1
  <2> QED BY <2>1, SessionsAssumption DEF Login
<1>5. login \in [Logins -> Login]
  BY <1>1, <1>4
<1>6. token \in [Tokens -> Token]
  BY <1>1 DEF Token
<1>7. 0 \in 0 .. MaxPassword
  BY SessionsAssumption
<1>8. SessionsTyped
  BY <1>1, <1>2, <1>3, <1>5, <1>6, <1>7 DEF SessionsTyped
<1>9. SignInsFit
  BY <1>2, <1>4 DEF SignInsFit
<1>10. BeforeSignUp /\ SpentFits
  BY <1>1, <1>4 DEF BeforeSignUp, SpentFits, IsInjective
<1> QED BY <1>8, <1>9, <1>10 DEF SessionsInv

\* A step that opens no session and touches neither the password nor a token.
LEMMA NoNewSession ==
  ASSUME SessionsInv, UNCHANGED <<password, login, token, spent, overtaken>>,
         Placed', Sessions' \subseteq Sessions, expired' \subseteq Sessions', trusted' \subseteq Devices,
         acting' \in [Logins -> BOOLEAN], overflow' \subseteq Logins
  PROVE  SessionsInv'
<1>1. SessionsTyped'
  BY DEF SessionsInv, SessionsTyped
<1>2. SignInsFit'
  BY DEF SessionsInv, SignInsFit
<1>3. BeforeSignUp' /\ SpentFits'
  BY DEF SessionsInv, BeforeSignUp, SpentFits
<1> QED BY <1>1, <1>2, <1>3 DEF SessionsInv

\* A login that has shown the right password remembers which.
LEMMA VerifiedIs ==
  ASSUME login \in [Logins -> Login], NEW l \in Logins, NEW p \in 0 .. MaxPassword, Verified(l, p)
  PROVE  /\ login' \in [Logins -> Login] /\ login'[l].phase = "verified" /\ login'[l].password = p
         /\ \A k \in Logins \ {l} : login'[k] = login[k]
<1> DEFINE c == [login[l] EXCEPT !.phase = "verified", !.password = p]
<1>1. login' = [login EXCEPT ![l] = c]
  BY DEF Verified
<1>2. c \in Login /\ c.phase = "verified" /\ c.password = p
  BY DEF Login
<1> HIDE DEF c
<1> QED BY <1>1, <1>2

\* The account is created with its first password and session.
LEMMA SignUpKeeps ==
  ASSUME SessionsInv, NEW l \in Logins, SignUp(l) PROVE SessionsInv'
<1>0. SessionsTyped /\ SignInsFit /\ BeforeSignUp /\ SpentFits
  BY DEF SessionsInv
<1>1. /\ password = 0 /\ password' = 1 /\ Verified(l, 1)
      /\ UNCHANGED <<lastSeen, expired, trusted, acting, overflow, token, spent, overtaken>>
  BY DEF SignUp
<1>2. 1 \in 0 .. MaxPassword
  BY SessionsAssumption
<1>3. /\ login' \in [Logins -> Login] /\ login'[l].phase = "verified" /\ login'[l].password = 1
      /\ \A k \in Logins \ {l} : login'[k] = login[k]
  BY <1>0, <1>1, <1>2, VerifiedIs DEF SessionsTyped
<1>4. Sessions = {} /\ \A k \in Logins : login[k].phase = "none"
  BY <1>0, <1>1 DEF BeforeSignUp, SessionsTyped, Sessions
<1>5. Sessions' = Sessions /\ Placed'
  BY <1>0, <1>1 DEF Sessions, Placed, SessionsTyped
<1>6. SessionsTyped'
  BY <1>0, <1>1, <1>2, <1>3, <1>4, <1>5 DEF SessionsTyped
<1>7. SignInsFit'
  BY <1>1, <1>3, <1>4, <1>5 DEF SignInsFit
<1>8. BeforeSignUp'
  BY <1>1 DEF BeforeSignUp
<1>9. SpentFits'
  BY <1>0, <1>1 DEF SpentFits, BeforeSignUp
<1> QED BY <1>6, <1>7, <1>8, <1>9 DEF SessionsInv

\* A password is compared; a wrong one or a locked account ends the login.
LEMMA VerificationKeeps ==
  ASSUME SessionsInv, NEW l \in Logins, VerifyPassword(l) PROVE SessionsInv'
<1>0. SessionsTyped /\ SignInsFit /\ BeforeSignUp /\ SpentFits
  BY DEF SessionsInv
<1>1. /\ password > 0 /\ login[l].phase = "none" /\ Verified(l, password)
      /\ UNCHANGED <<password, lastSeen, expired, trusted, acting, overflow, token, spent, overtaken>>
  BY DEF VerifyPassword
<1>2. /\ login' \in [Logins -> Login] /\ login'[l].phase = "verified" /\ login'[l].password = password
      /\ \A k \in Logins \ {l} : login'[k] = login[k]
  BY <1>0, <1>1, VerifiedIs DEF SessionsTyped
<1>3. Sessions' = Sessions /\ Placed' /\ l \notin Sessions
  BY <1>0, <1>1 DEF Sessions, Placed, SessionsTyped
<1>4. \A k \in Sessions : k \in Logins
  BY DEF Sessions
<1>5. SessionsTyped'
  BY <1>0, <1>1, <1>2, <1>3, <1>4 DEF SessionsTyped
<1>6. SignInsFit'
  BY <1>0, <1>1, <1>2, <1>3 DEF SignInsFit
<1>7. BeforeSignUp'
  BY <1>0, <1>1 DEF BeforeSignUp, SessionsTyped
<1>8. SpentFits'
  BY <1>0, <1>1 DEF SpentFits
<1> QED BY <1>5, <1>6, <1>7, <1>8 DEF SessionsInv

\* A sign-in ends, with a session or without.
LEMMA OpenedKeeps ==
  ASSUME SessionsInv, NEW l \in Logins, login[l].phase = "verified",
         login' = [login EXCEPT ![l].phase = "opened"], Placed',
         Sessions' \in {Sessions, Sessions \cup {l}},
         UNCHANGED <<password, expired, trusted, acting, overflow, token, spent, overtaken>>
  PROVE  SessionsInv'
<1> DEFINE c == [login[l] EXCEPT !.phase = "opened"]
<1>0. SessionsTyped /\ SignInsFit /\ BeforeSignUp /\ SpentFits
  BY DEF SessionsInv
<1>1. login' = [login EXCEPT ![l] = c] /\ login[l] \in Login
  BY <1>0 DEF SessionsTyped
<1>2. c \in Login /\ c.phase = "opened" /\ c.password = login[l].password
  BY <1>1 DEF Login
<1> HIDE DEF c
<1>3. login' \in [Logins -> Login] /\ login'[l] = c /\ \A k \in Logins \ {l} : login'[k] = login[k]
  BY <1>0, <1>1, <1>2 DEF SessionsTyped
<1>4. \A k \in Sessions : k \in Logins
  BY DEF Sessions
<1>5. SessionsTyped'
  BY <1>0, <1>2, <1>3, <1>4 DEF SessionsTyped
<1>6. SignInsFit'
  <2> SUFFICES ASSUME NEW k \in Logins, k \in Sessions' \/ login'[k].phase = "verified"
      PROVE  login'[k].password = password \/ k \in overtaken
    BY DEF SignInsFit
  <2>1. CASE k = l
    BY <1>0, <1>2, <1>3, <2>1 DEF SignInsFit
  <2>2. CASE k # l
    BY <1>0, <1>3, <2>2 DEF SignInsFit
  <2> QED BY <2>1, <2>2
<1>7. BeforeSignUp'
  BY <1>0 DEF BeforeSignUp
<1>8. SpentFits'
  BY <1>0 DEF SpentFits
<1> QED BY <1>5, <1>6, <1>7, <1>8 DEF SessionsInv

\* A sign-in opens its session or breaks off.
LEMMA SignInEndKeeps ==
  ASSUME SessionsInv, NEW l \in Logins, CreateSession(l) \/ LoginFails(l) PROVE SessionsInv'
<1>0. Placed
  BY DEF SessionsInv, SessionsTyped
<1>1. CASE CreateSession(l)
  BY <1>0, <1>1, SeenNowIs, OpenedKeeps DEF CreateSession
<1>2. CASE LoginFails(l)
  <2>1. Placed' /\ Sessions' = Sessions
    BY <1>0, <1>2 DEF LoginFails, Placed, Sessions
  <2> QED BY <1>2, <2>1, OpenedKeeps DEF LoginFails
<1> QED BY <1>1, <1>2

\* What the sessions are before a step of a session.
LEMMA SessionsAre ==
  ASSUME SessionsInv
  PROVE  /\ Placed /\ expired \subseteq Sessions /\ Sessions \subseteq Logins /\ trusted \subseteq Devices
         /\ acting \in [Logins -> BOOLEAN] /\ overflow \subseteq Logins /\ \A l \in Logins : login[l].device \in Devices
BY DEF SessionsInv, SessionsTyped, Sessions, Login

\* Sessions are deleted, and a device may be forgotten.
LEMMA DeletionKeeps ==
  ASSUME SessionsInv, NEW gone, Without(gone), UNCHANGED <<password, login, token, spent, overtaken>>,
         trusted' = trusted, acting' \in [Logins -> BOOLEAN], overflow' \subseteq Logins
  PROVE  SessionsInv'
<1>1. Placed' /\ Sessions' = Sessions \ gone /\ expired' = expired \ gone
  BY SessionsAre, WithoutIs
<1> QED BY <1>1, SessionsAre, NoNewSession

\* A request of a session is served, and the session becomes the one seen last.
LEMMA RequestKeeps ==
  ASSUME SessionsInv, NEW l \in Logins,
         \/ LoadContext(l) \/ RequireAccountSession(l) \/ TrustCurrent(l) \/ \E d \in Devices : RevokeDevice(l, d)
         \/ SessionExpires(l)
  PROVE  SessionsInv'
<1>0. /\ Placed /\ expired \subseteq Sessions /\ Sessions \subseteq Logins /\ trusted \subseteq Devices
      /\ acting \in [Logins -> BOOLEAN] /\ overflow \subseteq Logins /\ \A k \in Logins : login[k].device \in Devices
  BY SessionsAre
<1>1. lastSeen' = lastSeen => Placed' /\ Sessions' = Sessions
  BY <1>0 DEF Placed, Sessions
<1>2. CASE LoadContext(l)
  <2>1. SeenNow(l) /\ l \in Sessions /\ UNCHANGED <<password, login, expired, trusted, acting, overflow, token, spent, overtaken>>
    BY <1>2 DEF LoadContext, Live
  <2>2. Placed' /\ Sessions' = Sessions
    BY <1>0, <2>1, SeenNowIs
  <2> QED BY <1>0, <2>1, <2>2, NoNewSession
<1>3. CASE RequireAccountSession(l)
  BY <1>0, <1>1, <1>3, NoNewSession DEF RequireAccountSession
<1>4. CASE TrustCurrent(l)
  BY <1>0, <1>1, <1>4, NoNewSession DEF TrustCurrent, Acted
<1>5. CASE \E d \in Devices : RevokeDevice(l, d)
  BY <1>0, <1>1, <1>5, NoNewSession DEF RevokeDevice, Acted
<1>6. CASE SessionExpires(l)
  BY <1>0, <1>1, <1>6, NoNewSession DEF SessionExpires, Live
<1> QED BY <1>2, <1>3, <1>4, <1>5, <1>6

\* Sessions are revoked by the user.
LEMMA RevocationKeeps ==
  ASSUME SessionsInv, NEW l \in Logins,
         \/ \E k \in Logins : RevokeSession(l, k)
         \/ \E n \in 1 .. Cardinality(Sessions) : RevokeStale(l, n)
         \/ RevokeOthers(l) \/ LogOut(l)
  PROVE  SessionsInv'
<1>0. acting \in [Logins -> BOOLEAN] /\ overflow \subseteq Logins
  BY SessionsAre
<1>1. acting' = [acting EXCEPT ![l] = FALSE] => acting' \in [Logins -> BOOLEAN]
  BY <1>0
<1>2. CASE \E k \in Logins : RevokeSession(l, k)
  BY <1>0, <1>1, <1>2, DeletionKeeps DEF RevokeSession, Acted
<1>3. CASE \E n \in 1 .. Cardinality(Sessions) : RevokeStale(l, n)
  BY <1>0, <1>1, <1>3, DeletionKeeps DEF RevokeStale, Acted
<1>4. CASE RevokeOthers(l)
  BY <1>0, <1>1, <1>4, DeletionKeeps DEF RevokeOthers, Acted
<1>5. CASE LogOut(l)
  BY <1>0, <1>5, DeletionKeeps DEF LogOut
<1> QED BY <1>2, <1>3, <1>4, <1>5

\* Sessions expire, are swept, or fall out above the cap.
LEMMA MaintenanceKeeps ==
  ASSUME SessionsInv,
         \/ PruneExpired \/ RevokeUserSessions \/ SelectOverflow \/ DeleteOverflow
         \/ \E batch \in 1 .. Cardinality(Logins) : EnforceAllCaps(batch)
  PROVE  SessionsInv'
<1>0. /\ Placed /\ expired \subseteq Sessions /\ Sessions \subseteq Logins /\ trusted \subseteq Devices
      /\ acting \in [Logins -> BOOLEAN] /\ overflow \subseteq Logins
  BY SessionsAre
<1>1. CASE PruneExpired
  BY <1>0, <1>1, DeletionKeeps DEF PruneExpired
<1>2. CASE RevokeUserSessions
  BY <1>0, <1>2, DeletionKeeps DEF RevokeUserSessions
<1>3. CASE SelectOverflow
  <2>1. PastCap \subseteq Logins
    BY <1>0 DEF PastCap, LiveSessions
  <2>2. Placed' /\ Sessions' = Sessions
    BY <1>0, <1>3 DEF SelectOverflow, Placed, Sessions
  <2> QED BY <1>0, <1>3, <2>1, <2>2, NoNewSession DEF SelectOverflow
<1>4. CASE DeleteOverflow
  BY <1>0, <1>4, DeletionKeeps DEF DeleteOverflow
<1>5. CASE \E batch \in 1 .. Cardinality(Logins) : EnforceAllCaps(batch)
  BY <1>0, <1>5, DeletionKeeps DEF EnforceAllCaps
<1> QED BY <1>1, <1>2, <1>3, <1>4, <1>5

\* A token that changes: what was consumed stays so.
LEMMA TokensKeep ==
  ASSUME SessionsInv, token' \in [Tokens -> Token],
         \A t \in Tokens : token[t].state = "consumed" => token'[t].state = "consumed",
         password > 0, UNCHANGED <<password, login, lastSeen, expired, trusted, acting, overflow, spent, overtaken>>
  PROVE  SessionsInv'
<1>0. SessionsTyped /\ SignInsFit /\ BeforeSignUp /\ SpentFits
  BY DEF SessionsInv
<1>1. Placed' /\ Sessions' = Sessions
  BY <1>0 DEF Placed, Sessions, SessionsTyped
<1>2. SessionsTyped'
  BY <1>0, <1>1 DEF SessionsTyped
<1>3. SignInsFit'
  BY <1>0, <1>1 DEF SignInsFit
<1>4. BeforeSignUp'
  BY <1>0 DEF BeforeSignUp, SessionsTyped
<1>5. SpentFits'
  <2>1. \A i \in DOMAIN spent : spent[i] \in Tokens
    BY <1>0 DEF SessionsTyped
  <2> QED BY <1>0, <2>1 DEF SpentFits
<1> QED BY <1>2, <1>3, <1>4, <1>5 DEF SessionsInv

\* A reset token is created and replaces the one before it.
LEMMA ForgotKeeps ==
  ASSUME SessionsInv, NEW t \in Tokens, BeginForgot(t) \/ CommitForgot(t) \/ TokenEnds(t) PROVE SessionsInv'
<1>0. token \in [Tokens -> Token] /\ BeforeSignUp /\ password \in Nat
      /\ UNCHANGED <<login, trusted, acting, overflow, password, expired, spent, overtaken, lastSeen>>
  BY SessionsAssumption DEF SessionsInv, SessionsTyped, BeginForgot, CommitForgot, TokenEnds, TokensChange
<1>1. password > 0
  BY <1>0 DEF BeginForgot, CommitForgot, TokenEnds, BeforeSignUp
<1>2. CASE BeginForgot(t)
  <2> DEFINE c == [state |-> "requested", sees |-> LiveTokens]
  <2>1. token' = [token EXCEPT ![t] = c] /\ token[t].state = "none"
    BY <1>2 DEF BeginForgot, TokensChange
  <2>2. c \in Token
    BY DEF Token, LiveTokens
  <2> HIDE DEF c
  <2>3. token' \in [Tokens -> Token] /\ \A u \in Tokens \ {t} : token'[u] = token[u]
    BY <1>0, <2>1, <2>2
  <2> QED BY <1>0, <1>1, <2>1, <2>3, TokensKeep
<1>3. CASE CommitForgot(t)
  <2> DEFINE consumed(u) == [token[u] EXCEPT !.state = "consumed"]
             live == [state |-> "live", sees |-> {}]
  <2>1. /\ token' = [u \in Tokens |-> CASE u = t -> live [] u \in token[t].sees -> consumed(u) [] OTHER -> token[u]]
        /\ token[t].state = "requested"
    BY <1>3 DEF CommitForgot, TokensChange
  <2>2. live \in Token /\ \A u \in Tokens : consumed(u) \in Token /\ consumed(u).state = "consumed"
    BY <1>0 DEF Token
  <2> HIDE DEF live, consumed
  <2>3. \A u \in Tokens : token'[u] \in {live, consumed(u), token[u]} /\ (u # t => token'[u] \in {consumed(u), token[u]})
    BY <2>1
  <2>4. token' \in [Tokens -> Token]
    <3>1. \A u \in Tokens : token'[u] \in Token
      BY <1>0, <2>2, <2>3
    <3>2. token' = [u \in Tokens |-> token'[u]]
      BY <2>1
    <3> QED BY <3>1, <3>2
  <2> QED BY <1>0, <1>1, <2>1, <2>2, <2>3, <2>4, TokensKeep
<1>4. CASE TokenEnds(t)
  <2>1. PICK end \in {"consumed", "expired"} : token' = [token EXCEPT ![t].state = end]
    BY <1>4 DEF TokenEnds, TokensChange
  <2> DEFINE c == [token[t] EXCEPT !.state = end]
  <2>2. token' = [token EXCEPT ![t] = c] /\ token[t].state = "live" /\ token[t] \in Token
    BY <1>0, <1>4, <2>1 DEF TokenEnds
  <2>3. c \in Token
    BY <2>2 DEF Token
  <2> HIDE DEF c
  <2>4. token' \in [Tokens -> Token] /\ \A u \in Tokens \ {t} : token'[u] = token[u]
    BY <1>0, <2>2, <2>3
  <2> QED BY <1>0, <1>1, <2>2, <2>4, TokensKeep
<1> QED BY <1>2, <1>3, <1>4

\* A new password takes all sessions and all live tokens with it.
LEMMA ResetKeeps ==
  ASSUME SessionsInv, NEW t \in Tokens, ResetPassword(t) PROVE SessionsInv'
<1> DEFINE consumed(u) == [token[u] EXCEPT !.state = "consumed"]
<1>0. SessionsTyped /\ SignInsFit /\ BeforeSignUp /\ SpentFits
  BY DEF SessionsInv
<1>1. /\ token[t].state = "live" /\ password < MaxPassword /\ password' = password + 1 /\ Without(Logins)
      /\ token' = [u \in Tokens |-> IF u \in LiveTokens THEN consumed(u) ELSE token[u]]
      /\ spent' = Append(spent, t) /\ overtaken' = overtaken \cup {l \in Logins : login[l].phase = "verified"}
      /\ UNCHANGED <<login, trusted, acting, overflow>>
  BY DEF ResetPassword, Revoked, TokensChange
<1>2. Placed' /\ Sessions' = {} /\ expired' = {}
  <2>1. Placed' /\ Sessions' = Sessions \ Logins /\ expired' = expired \ Logins
    BY <1>0, <1>1, WithoutIs DEF SessionsTyped
  <2> QED BY <1>0, <2>1 DEF Sessions, SessionsTyped
<1>3. password \in Nat /\ password > 0 /\ password' \in 0 .. MaxPassword
  BY <1>0, <1>1, SessionsAssumption DEF BeforeSignUp, SessionsTyped
<1>4. \A u \in Tokens : consumed(u) \in Token /\ consumed(u).state = "consumed"
  BY <1>0 DEF SessionsTyped, Token
<1> HIDE DEF consumed
<1>5. \A u \in Tokens : /\ token'[u] \in {consumed(u), token[u]}
                        /\ token[u].state = "live" => token'[u] = consumed(u)
  BY <1>1 DEF LiveTokens
<1>6. token' \in [Tokens -> Token]
  <2>1. \A u \in Tokens : token'[u] \in Token
    BY <1>0, <1>4, <1>5 DEF SessionsTyped
  <2>2. token' = [u \in Tokens |-> token'[u]]
    BY <1>1
  <2> QED BY <2>1, <2>2
<1>7. spent \in Seq(Tokens) /\ spent' \in Seq(Tokens)
  BY <1>0, <1>1 DEF SessionsTyped
<1>8. SessionsTyped'
  BY <1>0, <1>1, <1>2, <1>3, <1>6, <1>7 DEF SessionsTyped
<1>9. SignInsFit'
  BY <1>1, <1>2 DEF SignInsFit
<1>10. BeforeSignUp'
  BY <1>1, <1>3 DEF BeforeSignUp
<1>11. SpentFits'
  <2>1. /\ DOMAIN spent = 1 .. Len(spent) /\ Len(spent) \in Nat /\ DOMAIN spent' = 1 .. (Len(spent) + 1)
        /\ Len(spent') = Len(spent) + 1 /\ spent'[Len(spent) + 1] = t
        /\ \A i \in 1 .. Len(spent) : spent'[i] = spent[i] /\ spent[i] \in Tokens
    BY <1>1, <1>7
  <2>2. \A i \in 1 .. Len(spent) : token[spent[i]].state = "consumed" /\ spent[i] # t
    BY <1>0, <1>1, <2>1 DEF SpentFits
  <2>3. \A i \in 1 .. (Len(spent) + 1) : i \in 1 .. Len(spent) \/ i = Len(spent) + 1
    BY <2>1
  <2>4. \A i \in DOMAIN spent' : token'[spent'[i]].state = "consumed"
    BY <1>1, <1>4, <1>5, <2>1, <2>2, <2>3
  <2>5. IsInjective(spent')
    BY <1>0, <2>1, <2>2, <2>3 DEF SpentFits, IsInjective
  <2>6. Len(spent') = password' - 1
    BY <1>0, <1>1, <1>3, <2>1 DEF SpentFits
  <2> QED BY <2>4, <2>5, <2>6 DEF SpentFits
<1> QED BY <1>8, <1>9, <1>10, <1>11 DEF SessionsInv

\* Every step of logins, requests and resets preserves the invariant.
LEMMA SessionsNextKeeps == SessionsInv /\ [SessionsNext]_sessionVars => SessionsInv'
<1> SUFFICES ASSUME SessionsInv, [SessionsNext]_sessionVars PROVE SessionsInv'
  OBVIOUS
<1>1. CASE SessionsNext
  BY <1>1, SignUpKeeps, VerificationKeeps, SignInEndKeeps, RequestKeeps, RevocationKeeps, MaintenanceKeeps,
     ForgotKeeps, ResetKeeps DEF SessionsNext
<1>2. CASE UNCHANGED sessionVars
  <2>1. Placed' /\ Sessions' = Sessions
    BY <1>2, SessionsAre DEF sessionVars, Placed, Sessions
  <2> QED BY <1>2, <2>1, SessionsAre, NoNewSession DEF sessionVars
<1> QED BY <1>1, <1>2

\* The invariant holds in every reachable state.
LEMMA SessionsAlways == SessionsSpec => []SessionsInv
BY SessionsInitially, SessionsNextKeeps, PTL DEF SessionsSpec

-----------------------------------------------------------------------------
(* Sessions: the theorems                                                  *)

\* The type invariant of an account holds in every reachable state.
THEOREM SessionsTypeCorrect == SessionsSpec => []SessionsTypeOK
<1>1. SessionsInv => SessionsTypeOK
  <2> SUFFICES ASSUME SessionsInv PROVE SessionsTypeOK
    OBVIOUS
  <2>1. SessionsTyped /\ Placed
    BY DEF SessionsInv, SessionsTyped
  <2>2. IsFiniteSet(Logins) /\ Sessions \in SUBSET Logins
    BY SessionsAssumption DEF Sessions
  <2>3. Cardinality(Sessions) <= Cardinality(Logins) /\ Cardinality(Sessions) \in Nat /\ Cardinality(Logins) \in Nat
    BY <2>2, FS_Subset, FS_CardinalityType
  <2>4. \A l \in Logins : lastSeen[l] \in 0 .. Cardinality(Logins)
    BY <2>1, <2>3 DEF Placed, Sessions
  <2> QED BY <2>1, <2>4 DEF SessionsTypeOK, SessionsTyped, Placed
<1> QED BY SessionsAlways, <1>1, PTL

\* A session of an earlier password is that of a sign-in which was under way when
\* the password was set, and every password but the first cost a token of its own.
THEOREM PasswordCorrect == SessionsSpec => []SessionsFollowPassword
<1>1. SessionsInv => SessionsFollowPassword
  BY DEF SessionsInv, SignInsFit, SpentFits, SessionsFollowPassword, Sessions
<1> QED BY SessionsAlways, <1>1, PTL
=============================================================================

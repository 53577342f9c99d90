------------------------ MODULE OrganizationGuarantees ------------------------
(***************************************************************************)
(* What follows from the invariant of OrganizationProofs: requests do not  *)
(* wait for each other, changes are authorized when they are written,      *)
(* invitations count once, the services implement OwnedOrganization, and   *)
(* the workspaces and the name are changed by those entitled to it.        *)
(***************************************************************************)
EXTENDS OrganizationProofs, OrganizationWorkspaces

----------------------------------------------------------------------------
(* Locks *)

\* Two requests hold rows of one organization only if they are the same.
LEMMA OneHolder ==
    ASSUME OrganizationsSound, NEW r \in Request, NEW q \in Request,
           HoldsOrganization(r), HoldsOrganization(q), local[r].org = local[q].org
    PROVE  r = q
BY DEF OrganizationsSound, Sound, Checked

\* A request that waits for another while it holds its organization waits for
\* the row of its own account, and the other is about to answer.
LEMMA WaitsForUser ==
    ASSUME OrganizationsSound, NEW r \in Request, NEW q \in Request,
           HoldsOrganization(r), WaitsFor(r, q)
    PROVE  pc[r] = "accept_user" /\ pc[q] = "join" /\ r # q
<1> DEFINE o == local[r].org
<1>1. Sound(r) /\ TypeOK
  BY DEF OrganizationsSound
<1>2. r # q
  BY DEF WaitsFor
<1>3. ASSUME NEW m \in ActiveIn(o), membershipLock[m] = q PROVE FALSE
  BY <1>2, <1>3, OwnLocks, OneHolder DEF ActiveIn
<1>4. ASSUME NEW i \in Invitation, Exists(invitations, i), invitations[i].org = o,
             invitationLock[i] = q
      PROVE  FALSE
  <2>1. /\ pc[q] \in {"accept_user", "join"} /\ local[q].invitation = i
    BY <1>4, OwnLocks
  <2>2. Sound(q)
    BY DEF OrganizationsSound
  <2>3. HoldsOrganization(q) /\ local[q].org = o
    BY <1>4, <2>1, <2>2 DEF HoldsOrganization, Sound, Carries, Accepting
  <2> QED
    BY <1>2, <2>3, OneHolder
<1>5. CASE pc[r] = "actor" \/ pc[r] = "join"
  BY <1>3, <1>5 DEF WaitsFor, ActiveFor
<1>6. CASE pc[r] = "target"
  BY <1>3, <1>6 DEF WaitsFor
<1>7. CASE pc[r] = "owners"
  BY <1>3, <1>7 DEF WaitsFor, OwnersToLock, ActiveOwners
<1>8. CASE pc[r] = "invite"
  <2>1. \A i \in LiveFor(o, local[r].email) : invitationLock[i] # q
    BY <1>4 DEF LiveFor, LiveInvitation
  <2>2. \A m \in MembersAt(o, local[r].email) : membershipLock[m] # q
    BY <1>3 DEF MembersAt, ActiveFor
  <2> QED
    BY <1>8, <2>1, <2>2 DEF WaitsFor
<1>9. CASE pc[r] \in {"uninvite", "accept_row"}
  <2>1. local[r].invitation \in Invitation
    BY <1>1, <1>9 DEF Sound, Carries, Stage, Accepting
  <2>2. invitationLock[local[r].invitation] = q
    BY <1>9 DEF WaitsFor
  <2>3. Exists(invitations, local[r].invitation) /\ invitations[local[r].invitation].org = o
    BY <1>1, <1>9 DEF WaitsFor, Revocable, LiveInvitation, Sound, Carries, Accepting
  <2> QED
    BY <1>4, <2>1, <2>2, <2>3
<1>10. CASE pc[r] = "accept_user"
  <2>1. local[r].user \in User
    BY <1>1, <1>10 DEF Sound, Carries
  <2> QED
    BY <1>2, <1>10, <2>1, OwnLocks DEF WaitsFor
<1>11. pc[r] # "accept_organization"
  BY DEF HoldsOrganization
<1> QED
  BY <1>5, <1>6, <1>7, <1>8, <1>9, <1>10, <1>11 DEF WaitsFor

\* The request that another waits for holds its organization.
LEMMA WaitsForHolder ==
    ASSUME OrganizationsSound, NEW r \in Request, NEW q \in Request, WaitsFor(r, q)
    PROVE  HoldsOrganization(q)
<1>1. CASE HoldsOrganization(r)
  BY <1>1, WaitsForUser DEF HoldsOrganization
<1>2. CASE pc[r] = "accept_organization"
  <2>1. local[r].org \in Organization
    BY <1>2 DEF OrganizationsSound, TypeOK, Sound, Carries
  <2> QED
    BY <1>2, <2>1, OwnLocks DEF WaitsFor
<1> QED
  BY <1>1, <1>2 DEF WaitsFor, HoldsOrganization

\* The lock order of the membership and the invitation service, organization
\* first, keeps requests from waiting for each other: of three in a row, the
\* last but one is about to lock its account and the last about to answer.
THEOREM LocksNeverCycle == Spec => []NoLockCycle
<1>1. OrganizationsSound => NoLockCycle
  <2> SUFFICES ASSUME OrganizationsSound, NEW S \in SUBSET Request, S # {},
                      \A r \in S : \E q \in S : WaitsFor(r, q)
               PROVE  FALSE
    BY DEF NoLockCycle
  <2>1. PICK r \in S : TRUE
    OBVIOUS
  <2>2. PICK q \in S : WaitsFor(r, q)
    BY <2>1
  <2>3. PICK s \in S : WaitsFor(q, s)
    BY <2>2
  <2>4. PICK t \in S : WaitsFor(s, t)
    BY <2>3
  <2>5. HoldsOrganization(q) /\ HoldsOrganization(s)
    BY <2>2, <2>3, WaitsForHolder
  <2>6. pc[s] = "join"
    BY <2>3, <2>5, WaitsForUser
  <2>7. pc[s] = "accept_user"
    BY <2>4, <2>5, WaitsForUser
  <2> QED
    BY <2>6, <2>7
<1> QED
  BY <1>1, AlwaysSound, PTL

----------------------------------------------------------------------------
(* Which steps write which rows *)

MembershipStep ==
    \/ UNCHANGED <<organizations, memberships>>
    \/ \E r \in Request : change_write(r) \/ join(r)
    \/ \E r \in Request, u \in User, o \in Organization, m \in Membership : create(r, u, o, m)

InvitationStep ==
    \/ UNCHANGED invitations
    \/ \E r \in Request : issue(r) \/ revoke_invitation(r) \/ join(r)
    \/ \E i \in Invitation : invitation_expires(i)

LEMMA WhoWrites == [Next]_vars => MembershipStep /\ InvitationStep
<1> SUFFICES ASSUME [Next]_vars PROVE MembershipStep /\ InvitationStep
  OBVIOUS
<1> USE DEF MembershipStep, InvitationStep
<1>1. ASSUME NEW r \in Request, MembersStart(r) PROVE MembershipStep /\ InvitationStep
  <2>1. ASSUME NEW u \in User, NEW o \in Organization, NEW m \in Membership, create(r, u, o, m)
        PROVE  MembershipStep /\ InvitationStep
    BY <2>1 DEF create
  <2>2. ASSUME NEW u \in User, NEW o \in Organization,
               \/ list_start(r, u, o)
               \/ \E m \in Membership, new \in Role \cup {"revoked"} :
                        change_start(r, u, o, m, new)
        PROVE  MembershipStep /\ InvitationStep
    BY <2>2 DEF list_start, change_start, lock_organization, rows
  <2> QED
    BY <1>1, <2>1, <2>2 DEF MembersStart
<1>2. ASSUME NEW r \in Request, InvitationsStart(r) PROVE MembershipStep /\ InvitationStep
  BY <1>2 DEF InvitationsStart, invite_start, uninvite_start, accept_probe,
              lock_organization, rows
<1>3. ASSUME NEW r \in Request, MembersStep(r) PROVE MembershipStep /\ InvitationStep
  <2>1. CASE change_write(r)
    BY <2>1 DEF change_write
  <2>2. CASE ~change_write(r)
    BY <1>3, <2>2 DEF MembersStep, lock_actor, actor_rejected, list_active, lock_target,
       target_rejected, protect_last_owner, last_owner_refused, rows
  <2> QED
    BY <2>1, <2>2
<1>4. ASSUME NEW r \in Request, InvitationsStep(r) PROVE MembershipStep /\ InvitationStep
  <2>1. CASE join(r)
    BY <2>1
  <2>2. CASE issue(r)
    BY <2>2 DEF issue
  <2>3. CASE revoke_invitation(r)
    BY <2>3 DEF revoke_invitation
  <2>4. CASE \/ issue_rejected(r) \/ revoke_invitation_rejected(r) \/ accept_organization(r)
             \/ accept_row(r) \/ accept_user(r) \/ join_rejected(r)
    BY <2>4 DEF issue_rejected, revoke_invitation_rejected, accept_organization,
       accept_row, accept_user, join_rejected, rows
  <2> QED
    BY <1>4, <2>1, <2>2, <2>3, <2>4 DEF InvitationsStep
<1>5. ASSUME NEW r \in Request, failure(r) PROVE MembershipStep /\ InvitationStep
  BY <1>5 DEF failure, rows
<1>6. ASSUME NEW u \in User, anonymize(u) PROVE MembershipStep /\ InvitationStep
  BY <1>6 DEF anonymize
<1>7. ASSUME NEW i \in Invitation, invitation_expires(i) PROVE MembershipStep /\ InvitationStep
  BY <1>7 DEF invitation_expires
<1>8. CASE UNCHANGED vars
  BY <1>8 DEF vars, rows
<1> QED
  BY <1>1, <1>2, <1>3, <1>4, <1>5, <1>6, <1>7, <1>8 DEF Next, RequestStep

----------------------------------------------------------------------------
(* Authority *)

\* The policy lets only an owner, or an admin who removes a member, do what a
\* role change or a removal stands for.
LEMMA PolicyIsStrict ==
    ASSUME NEW role \in Role, NEW current \in Role, NEW new \in Role \cup {"revoked"},
           role_action(current, new) # "none", is_allowed(role, role_action(current, new))
    PROVE  \/ role = "owner"
           \/ role = "admin" /\ current = "member" /\ new = "revoked"
<1>1. CASE new = "revoked"
  BY <1>1 DEF role_action, is_allowed, AdminActions, MemberActions, Role
<1>2. CASE new # "revoked"
  BY <1>2 DEF role_action, is_allowed, AdminActions, MemberActions, Role
<1> QED
  BY <1>1, <1>2

\* A membership is changed only for an actor who is an owner, or an admin
\* removing a member, of the organization at the instant of the write, although
\* the policy was asked steps before.
THEOREM ChangesAreAuthorized == Spec => AuthorityIsCurrent
<1>1. ASSUME OrganizationsSound, [Next]_vars, NEW m \in Membership,
             Exists(memberships, m), memberships'[m] # memberships[m]
      PROVE  \E r \in Request : \E a \in ActiveIn(memberships[m].org) :
                /\ Writes(r)
                /\ local[r].actor = a /\ memberships[a].user = local[r].user
                /\ \/ memberships[a].role = "owner"
                   \/ /\ memberships[a].role = "admin"
                      /\ memberships[m].role = "member"
                      /\ memberships'[m].revoked
  <2>1. TypeOK
    BY <1>1 DEF OrganizationsSound
  <2>2. PICK r \in Request : change_write(r)
    <3>1. ASSUME NEW r \in Request, join(r) PROVE FALSE
      BY <1>1, <3>1, JoinEffect DEF Exists, Joins
    <3>2. ASSUME NEW r \in Request, NEW u \in User, NEW o \in Organization,
                 NEW n \in Membership, create(r, u, o, n)
          PROVE  FALSE
      BY <1>1, <3>2, CreateEffect DEF Exists
    <3> QED
      BY <1>1, <3>1, <3>2, WhoWrites DEF MembershipStep
  <2> DEFINE t == local[r].target
             a == local[r].actor
  <2>3. /\ m = t /\ t \in ActiveIn(local[r].org) /\ memberships[m].org = local[r].org
        /\ a \in ActiveFor(local[r].org, local[r].user) /\ TargetAccepted(r)
        /\ pc[r] = "write" /\ Finish(r)
    BY <1>1, <2>2, ChangeEffect DEF ActiveIn
  <2>4. /\ a \in ActiveIn(memberships[m].org) /\ memberships[a].user = local[r].user
    BY <2>3 DEF ActiveFor
  <2>5. memberships[a].role \in Role /\ memberships[m].role \in Role
    BY <1>1, <2>1, <2>4 DEF ActiveIn, TypeOK, Exists, MembershipRow
  <2>6. /\ local[r].new \in Role \cup {"revoked"}
        /\ local[r].new = "revoked" => memberships'[m].revoked
    BY <1>1, <2>2, <2>3, ChangeEffect DEF Role
  <2>7. \/ memberships[a].role = "owner"
        \/ /\ memberships[a].role = "admin" /\ memberships[m].role = "member"
           /\ local[r].new = "revoked"
    BY <2>3, <2>5, <2>6, PolicyIsStrict DEF TargetAccepted
  <2>8. Writes(r)
    BY <2>1, <2>3, FinishLocks DEF Writes
  <2> QED
    BY <2>4, <2>6, <2>7, <2>8
<1>2. OrganizationsSound /\ [Next]_vars =>
        [\A m \in Membership :
            Exists(memberships, m) /\ memberships'[m] # memberships[m] =>
                \E r \in Request : \E a \in ActiveIn(memberships[m].org) :
                    /\ Writes(r)
                    /\ local[r].actor = a /\ memberships[a].user = local[r].user
                    /\ \/ memberships[a].role = "owner"
                       \/ /\ memberships[a].role = "admin"
                          /\ memberships[m].role = "member"
                          /\ memberships'[m].revoked]_vars
  BY <1>1
<1> QED
  BY <1>2, AlwaysSound, PTL DEF Spec, AuthorityIsCurrent

----------------------------------------------------------------------------
(* Invitations *)

Joined == {m \in Membership : /\ memberships[m] = Unissued
                              /\ memberships'[m] # Unissued
                              /\ memberships'[m].org \in organizations}

Accepted == {i \in Invitation : /\ Exists(invitations, i)
                                /\ invitations'[i].state = "accepted"
                                /\ invitations[i].state # "accepted"}

CountOnce ==
    /\ \A m, n \in Joined : m = n
    /\ \A m \in Joined : \E i \in Accepted :
          /\ Accepted = {i}
          /\ LiveInvitation(i) /\ ~invitations[i].expired
          /\ invitations[i].org = memberships'[m].org
          /\ invitations[i].role = memberships'[m].role
          /\ invitations[i].email = memberships'[m].user
          /\ accounts[memberships'[m].user] = "active"
    /\ Accepted # {} => Joined # {}
    /\ \A i \in Invitation : Exists(invitations, i) /\ ~LiveInvitation(i) =>
          invitations'[i] = invitations[i]

\* Nobody joins an organization that exists except by an acceptance.
LEMMA NobodyElseJoins ==
    ASSUME OrganizationsSound, [Next]_vars, \A r \in Request : ~join(r)
    PROVE  Joined = {}
<1> SUFFICES ASSUME NEW m \in Joined PROVE FALSE
  OBVIOUS
<1>1. /\ m \in Membership /\ memberships[m] = Unissued /\ memberships'[m] # Unissued
      /\ memberships'[m].org \in organizations
  BY DEF Joined
<1>2. ASSUME NEW r \in Request, change_write(r) PROVE FALSE
  BY <1>1, <1>2, ChangeEffect DEF ActiveIn, Exists
<1>3. ASSUME NEW r \in Request, NEW u \in User, NEW o \in Organization,
             NEW n \in Membership, create(r, u, o, n)
      PROVE  FALSE
  <2>1. /\ o \notin organizations
        /\ memberships'[n] = [org |-> o, user |-> u, role |-> "owner", revoked |-> FALSE]
        /\ \A k \in Membership : k # n => memberships'[k] = memberships[k]
    BY <1>3, CreateEffect
  <2> QED
    BY <1>1, <2>1
<1> QED
  BY <1>1, <1>2, <1>3, WhoWrites DEF MembershipStep

\* No invitation is accepted except by an acceptance, and none that has ended
\* changes.
LEMMA NothingElseAccepts ==
    ASSUME OrganizationsSound, [Next]_vars, \A r \in Request : ~join(r)
    PROVE  /\ Accepted = {}
           /\ \A i \in Invitation : Exists(invitations, i) /\ ~LiveInvitation(i) =>
                 invitations'[i] = invitations[i]
<1>1. TypeOK
  BY DEF OrganizationsSound
<1> SUFFICES ASSUME NEW i \in Invitation, Exists(invitations, i)
             PROVE  \/ invitations'[i] = invitations[i]
                    \/ LiveInvitation(i) /\ invitations'[i].state # "accepted"
  BY DEF Accepted
<1>2. invitations[i] \in InvitationRow
  BY <1>1 DEF TypeOK, Exists
<1>3. ASSUME NEW r \in Request, issue(r)
      PROVE  \/ invitations'[i] = invitations[i]
             \/ LiveInvitation(i) /\ invitations'[i].state # "accepted"
  <2>1. PICK k \in Invitation :
          /\ invitations[k] = Unissued
          /\ invitations' = [invalidate_active_for_email(local[r].org, local[r].email) EXCEPT
                 ![k] = [org |-> local[r].org, email |-> local[r].email,
                         role |-> local[r].new, state |-> "live", expired |-> FALSE]]
    BY <1>3 DEF issue
  <2>2. i # k
    BY <2>1 DEF Exists
  <2>3. invitations'[i] = IF i \in LiveFor(local[r].org, local[r].email)
                          THEN [invitations[i] EXCEPT !.state = "invalidated"]
                          ELSE invitations[i]
    BY <2>1, <2>2 DEF invalidate_active_for_email
  <2> QED
    BY <1>2, <2>3 DEF LiveFor, InvitationRow
<1>4. ASSUME NEW r \in Request, revoke_invitation(r)
      PROVE  \/ invitations'[i] = invitations[i]
             \/ LiveInvitation(i) /\ invitations'[i].state # "accepted"
  <2>1. /\ LiveInvitation(local[r].invitation)
        /\ invitations' = [invitations EXCEPT ![local[r].invitation].state = "invalidated"]
    BY <1>4 DEF revoke_invitation, Revocable
  <2>2. CASE i # local[r].invitation
    BY <1>1, <2>1, <2>2 DEF TypeOK
  <2>3. CASE i = local[r].invitation
    BY <1>1, <1>2, <2>1, <2>3 DEF TypeOK, InvitationRow
  <2> QED
    BY <2>2, <2>3
<1>5. ASSUME NEW j \in Invitation, invitation_expires(j)
      PROVE  \/ invitations'[i] = invitations[i]
             \/ LiveInvitation(i) /\ invitations'[i].state # "accepted"
  <2>1. /\ LiveInvitation(j)
        /\ invitations' = [invitations EXCEPT ![j].expired = TRUE]
    BY <1>5 DEF invitation_expires
  <2> QED
    BY <1>1, <1>2, <2>1 DEF TypeOK, InvitationRow, LiveInvitation
<1> QED
  BY <1>3, <1>4, <1>5, WhoWrites DEF InvitationStep

\* One person joins for one live invitation of theirs, and no other step accepts
\* one, whatever revocation, reissue or second acceptance overlaps it.
THEOREM InvitationsAreSingleUse == Spec => InvitationsCountOnce
<1>1. ASSUME OrganizationsSound, [Next]_vars PROVE CountOnce
  <2>1. CASE \A r \in Request : ~join(r)
    BY <1>1, <2>1, NobodyElseJoins, NothingElseAccepts DEF CountOnce
  <2>2. ASSUME NEW r \in Request, join(r) PROVE CountOnce
    <3> DEFINE i == local[r].invitation
    <3>1. PICK m \in Membership : Joins(r, m)
      BY <1>1, <2>2, JoinEffect
    <3>2. Accepted = {i}
      BY <3>1 DEF Accepted, LiveInvitation, InvitationRow, Joins
    <3>3. /\ memberships'[m].org = local[r].org /\ memberships'[m].user = local[r].user
          /\ memberships'[m].role = invitations[i].role
      BY <3>1 DEF Joins
    <3>4. memberships'[m] # Unissued
      <4>1. local[r].org \in Organization /\ invitations[i].role \in Role
        BY <1>1, <3>1 DEF OrganizationsSound, TypeOK, InvitationRow, Role, Joins
      <4>2. memberships'[m] \in MembershipRow
        BY <3>1, <4>1 DEF MembershipRow, Joins
      <4> QED
        BY <4>2, OrganizationAssumption
    <3>5. Joined = {m}
      BY <3>1, <3>3, <3>4 DEF Joined, Joins
    <3>6. \A j \in Invitation : Exists(invitations, j) /\ ~LiveInvitation(j) =>
            invitations'[j] = invitations[j]
      BY <3>1 DEF Joins
    <3> QED
      BY <3>1, <3>2, <3>3, <3>5, <3>6 DEF CountOnce, Joins
  <2> QED
    BY <2>1, <2>2
<1>2. OrganizationsSound /\ [Next]_vars => [CountOnce]_vars
  BY <1>1
<1> QED
  BY <1>2, AlwaysSound, PTL DEF Spec, InvitationsCountOnce, CountOnce, Joined, Accepted

----------------------------------------------------------------------------
(* The refinement *)

\* The active memberships of u in o that a table of memberships holds, and the
\* role they give: roster, written for any table.
MembersOf(table, o, u) ==
    {m \in Membership : /\ table[m] # Unissued /\ table[m].org = o
                        /\ ~table[m].revoked /\ table[m].user = u}

RoleIn(table, o, u) ==
    IF MembersOf(table, o, u) = {} THEN "none"
    ELSE table[CHOOSE m \in MembersOf(table, o, u) : TRUE].role

LEMMA RosterIs ==
    /\ roster = [o \in Organization |-> [u \in User |-> RoleIn(memberships, o, u)]]
    /\ roster' = [o \in Organization |-> [u \in User |-> RoleIn(memberships', o, u)]]
<1>1. \A o \in Organization, u \in User : ActiveFor(o, u) = MembersOf(memberships, o, u)
  BY DEF ActiveFor, ActiveIn, Exists, MembersOf
<1>2. \A o \in Organization, u \in User : ActiveFor(o, u)' = MembersOf(memberships', o, u)
  BY DEF ActiveFor, ActiveIn, Exists, MembersOf
<1>3. \A o \in Organization, u \in User :
        (IF ActiveFor(o, u) = {} THEN "none"
         ELSE memberships[CHOOSE m \in ActiveFor(o, u) : TRUE].role) = RoleIn(memberships, o, u)
  <2> SUFFICES ASSUME NEW o \in Organization, NEW u \in User
               PROVE  (IF ActiveFor(o, u) = {} THEN "none"
                       ELSE memberships[CHOOSE m \in ActiveFor(o, u) : TRUE].role)
                          = RoleIn(memberships, o, u)
    OBVIOUS
  <2>1. ActiveFor(o, u) = MembersOf(memberships, o, u)
    BY <1>1
  <2> QED
    BY ONLY <2>1 DEF RoleIn
<1>4. \A o \in Organization, u \in User :
        (IF ActiveFor(o, u)' = {} THEN "none"
         ELSE memberships'[CHOOSE m \in ActiveFor(o, u)' : TRUE].role) = RoleIn(memberships', o, u)
  <2> SUFFICES ASSUME NEW o \in Organization, NEW u \in User
               PROVE  (IF ActiveFor(o, u)' = {} THEN "none"
                       ELSE memberships'[CHOOSE m \in ActiveFor(o, u)' : TRUE].role)
                          = RoleIn(memberships', o, u)
    OBVIOUS
  <2>1. ActiveFor(o, u)' = MembersOf(memberships', o, u)
    BY <1>2
  <2> QED
    BY ONLY <2>1 DEF RoleIn
<1>5. roster = [o \in Organization |-> [u \in User |-> RoleIn(memberships, o, u)]]
  BY <1>3 DEF roster, RoleOf
<1>6. roster' = [o \in Organization |-> [u \in User |-> RoleIn(memberships', o, u)]]
  BY <1>4 DEF roster, RoleOf
<1> QED
  BY <1>5, <1>6

LEMMA RoleKept ==
    ASSUME NEW T1, NEW T2, NEW o, NEW u,
           \A m \in Membership : m \in MembersOf(T1, o, u) <=> m \in MembersOf(T2, o, u),
           \A m \in MembersOf(T1, o, u) : T1[m] = T2[m]
    PROVE  RoleIn(T1, o, u) = RoleIn(T2, o, u)
<1>1. MembersOf(T1, o, u) = MembersOf(T2, o, u)
  BY DEF MembersOf
<1>2. CASE MembersOf(T1, o, u) = {}
  BY <1>1, <1>2 DEF RoleIn
<1>3. CASE MembersOf(T1, o, u) # {}
  <2>1. (CHOOSE m \in MembersOf(T1, o, u) : TRUE) \in MembersOf(T1, o, u)
    BY <1>3
  <2> QED
    BY <1>1, <1>3, <2>1 DEF RoleIn
<1> QED
  BY <1>2, <1>3

LEMMA RoleOfOne ==
    ASSUME NEW T, NEW o, NEW u, NEW m \in MembersOf(T, o, u),
           \A n \in MembersOf(T, o, u) : n = m
    PROVE  RoleIn(T, o, u) = T[m].role
<1>1. (CHOOSE n \in MembersOf(T, o, u) : TRUE) \in MembersOf(T, o, u)
  OBVIOUS
<1> QED
  BY <1>1 DEF RoleIn

\* In a sound state the role of an active membership is that of its account.
LEMMA RoleOfMember ==
    ASSUME OneActiveMembership, NEW o \in Organization, NEW u \in User,
           NEW m \in ActiveFor(o, u)
    PROVE  RoleIn(memberships, o, u) = memberships[m].role
<1>1. m \in MembersOf(memberships, o, u)
  BY DEF ActiveFor, ActiveIn, Exists, MembersOf
<1>2. \A n \in MembersOf(memberships, o, u) : n \in ActiveFor(o, u)
  BY DEF ActiveFor, ActiveIn, Exists, MembersOf
<1>3. \A n \in MembersOf(memberships, o, u) : n = m
  BY <1>2 DEF OneActiveMembership
<1> QED
  BY <1>1, <1>3, RoleOfOne

\* The step changes membership m and no other, and m is one of u in o.
OnlyOne(m, o, u) ==
    /\ \A n \in Membership : n # m => memberships'[n] = memberships[n]
    /\ \/ memberships[m] = Unissued
       \/ memberships[m].org = o /\ memberships[m].user = u
    /\ memberships'[m].org = o /\ memberships'[m].user = u

\* Then the role of u in o is all that may change.
LEMMA OneChange ==
    ASSUME NEW o \in Organization, NEW u \in User, NEW m \in Membership, OnlyOne(m, o, u)
    PROVE  roster' = [roster EXCEPT ![o][u] = RoleIn(memberships', o, u)]
<1> USE DEF OnlyOne
<1>1. ASSUME NEW p \in Organization, NEW w \in User, p # o \/ w # u
      PROVE  RoleIn(memberships', p, w) = RoleIn(memberships, p, w)
  <2>1. \A n \in Membership :
            n \in MembersOf(memberships', p, w) <=> n \in MembersOf(memberships, p, w)
    BY <1>1 DEF MembersOf
  <2>2. \A n \in MembersOf(memberships', p, w) : memberships'[n] = memberships[n]
    BY <1>1 DEF MembersOf
  <2> QED
    BY <2>1, <2>2, RoleKept
<1> DEFINE after == [roster EXCEPT ![o][u] = RoleIn(memberships', o, u)]
<1>2. \A p \in Organization : roster'[p] = after[p]
  <2> SUFFICES ASSUME NEW p \in Organization PROVE roster'[p] = after[p]
    OBVIOUS
  <2>1. /\ roster[p] = [w \in User |-> RoleIn(memberships, p, w)]
        /\ roster'[p] = [w \in User |-> RoleIn(memberships', p, w)]
    BY RosterIs
  <2>2. after[p] = IF p = o THEN [roster[p] EXCEPT ![u] = RoleIn(memberships', o, u)]
                            ELSE roster[p]
    BY RosterIs
  <2> HIDE DEF after
  <2>3. CASE p = o
    BY <1>1, <2>1, <2>2, <2>3
  <2>4. CASE p # o
    BY <1>1, <2>1, <2>2, <2>4
  <2> QED
    BY <2>3, <2>4
<1>3. /\ roster' = [p \in Organization |-> roster'[p]]
      /\ after = [p \in Organization |-> after[p]]
  BY RosterIs
<1> QED
  BY <1>2, <1>3

LEMMA OwnersAreOwners ==
    ASSUME OrganizationsSound, NEW o \in Organization, NEW n \in ActiveOwners(o)
    PROVE  /\ memberships[n].user \in User /\ n \in ActiveFor(o, memberships[n].user)
           /\ roster[o][memberships[n].user] = "owner"
<1>1. TypeOK /\ OneActiveMembership
  BY DEF OrganizationsSound
<1>2. n \in ActiveIn(o) /\ memberships[n].role = "owner"
  BY DEF ActiveOwners
<1>3. memberships[n].user \in User
  BY <1>1, <1>2 DEF ActiveIn, Exists, TypeOK, MembershipRow
<1>4. n \in ActiveFor(o, memberships[n].user)
  BY <1>2 DEF ActiveFor
<1> QED
  BY <1>1, <1>2, <1>3, <1>4, RoleOfMember, RosterIs

LEMMA FoundsOne ==
    ASSUME OrganizationsSound, NEW r \in Request, NEW u \in User, NEW o \in Organization,
           NEW m \in Membership, create(r, u, o, m)
    PROVE  Promise!Found(o, u)
<1>1. /\ memberships[m] = Unissued
      /\ memberships'[m] = [org |-> o, user |-> u, role |-> "owner", revoked |-> FALSE]
      /\ Exists(memberships', m)
      /\ \A n \in Membership : n # m => memberships'[n] = memberships[n]
      /\ \A w \in User : ActiveFor(o, w) = {}
  BY CreateEffect
<1>2. \A w \in User : MembersOf(memberships, o, w) = {}
  BY <1>1 DEF ActiveFor, ActiveIn, Exists, MembersOf
<1>3. roster[o] = [w \in User |-> "none"]
  BY <1>2, RosterIs DEF RoleIn
<1>4. RoleIn(memberships', o, u) = "owner"
  <2>1. m \in MembersOf(memberships', o, u)
    BY <1>1 DEF MembersOf, Exists
  <2>2. \A n \in MembersOf(memberships', o, u) : n = m
    BY <1>1, <1>2 DEF MembersOf
  <2> QED
    BY <1>1, <2>1, <2>2, RoleOfOne
<1>5. roster' = [roster EXCEPT ![o][u] = "owner"]
  <2>1. memberships'[m].org = o /\ memberships'[m].user = u
    BY <1>1
  <2>2. /\ \A n \in Membership : n # m => memberships'[n] = memberships[n]
        /\ memberships[m] = Unissued
    BY <1>1
  <2>3. OnlyOne(m, o, u)
    BY <2>1, <2>2 DEF OnlyOne
  <2>4. roster' = [roster EXCEPT ![o][u] = RoleIn(memberships', o, u)]
    BY <2>3, OneChange
  <2> QED
    BY <1>4, <2>4
<1> QED
  BY <1>3, <1>5 DEF Promise!Found, Promise!Absent

LEMMA JoinsOne ==
    ASSUME OrganizationsSound, NEW r \in Request, join(r)
    PROVE  \E o \in Organization, u \in User : Promise!Join(o, u)
<1> DEFINE i == local[r].invitation
           o == local[r].org
           u == local[r].user
<1>1. PICK m \in Membership : Joins(r, m)
  BY JoinEffect
<1>2. o \in Organization /\ TypeOK /\ EveryOrganizationHasAnOwner
  BY <1>1 DEF OrganizationsSound, TypeOK, Joins
<1>3. MembersOf(memberships, o, u) = {}
  BY <1>1 DEF ActiveFor, ActiveIn, Exists, MembersOf, Joins
<1>4. roster[o][u] = "none"
  BY <1>1, <1>2, <1>3, RosterIs DEF RoleIn, Joins
<1>5. roster[o] # [w \in User |-> "none"]
  <2>1. PICK n \in ActiveOwners(o) : TRUE
    BY <1>1, <1>2 DEF EveryOrganizationHasAnOwner, Joins
  <2>2. memberships[n].user \in User /\ roster[o][memberships[n].user] = "owner"
    BY <1>2, <2>1, OwnersAreOwners
  <2> QED
    BY <2>2
<1>6. memberships'[m] # Unissued
  <2>1. memberships'[m] \in MembershipRow
    BY <1>1, <1>2 DEF MembershipRow, Role, Joins
  <2> QED
    BY <2>1, OrganizationAssumption
<1>7. /\ memberships'[m].org = o /\ memberships'[m].user = u
      /\ ~memberships'[m].revoked /\ memberships'[m].role = invitations[i].role
  BY <1>1 DEF Joins
<1>8. RoleIn(memberships', o, u) = invitations[i].role
  <2>1. m \in MembersOf(memberships', o, u)
    BY <1>6, <1>7 DEF MembersOf
  <2>2. \A n \in MembersOf(memberships', o, u) : n = m
    BY <1>1, <1>3 DEF MembersOf, Joins
  <2> QED
    BY <1>7, <2>1, <2>2, RoleOfOne
<1>9. roster' = [roster EXCEPT ![o][u] = RoleIn(memberships', o, u)]
  <2>1. /\ \A n \in Membership : n # m => memberships'[n] = memberships[n]
        /\ memberships[m] = Unissued
    BY <1>1 DEF Joins
  <2>2. OnlyOne(m, o, u)
    BY <1>7, <2>1 DEF OnlyOne
  <2> QED
    BY <1>1, <1>2, <2>2, OneChange DEF Joins
<1>10. Promise!Join(o, u)
  BY <1>1, <1>4, <1>5, <1>8, <1>9 DEF Promise!Join, Promise!Absent, Joins
<1> QED
  BY <1>1, <1>2, <1>10 DEF Joins

LEMMA ChangesOne ==
    ASSUME OrganizationsSound, NEW r \in Request, change_write(r)
    PROVE  \E o \in Organization, u \in User : Promise!Change(o, u)
<1> DEFINE t == local[r].target
           o == local[r].org
           u == memberships[t].user
<1>1. /\ o \in organizations /\ OwnerLeft(r) /\ t \in Membership /\ t \in ActiveIn(o)
      /\ \A n \in Membership : n # t => memberships'[n] = memberships[n]
      /\ memberships'[t] \in MembershipRow
      /\ memberships'[t].org = o /\ memberships'[t].user = u
  BY ChangeEffect
<1>2. /\ o \in Organization /\ TypeOK /\ EveryOrganizationHasAnOwner
      /\ OneActiveMembership
  BY <1>1 DEF OrganizationsSound, TypeOK
<1>3. /\ memberships[t] \in MembershipRow /\ memberships[t].org = o /\ u \in User
      /\ t \in ActiveFor(o, u)
  BY <1>1, <1>2 DEF ActiveIn, ActiveFor, TypeOK, Exists, MembershipRow
<1>4. roster[o][u] \in Role
  BY <1>2, <1>3, RoleOfMember, RosterIs DEF MembershipRow
<1>5. roster' = [roster EXCEPT ![o][u] = RoleIn(memberships', o, u)]
  <2>1. OnlyOne(t, o, u)
    BY <1>1, <1>3 DEF OnlyOne
  <2> QED
    BY <1>1, <1>2, <1>3, <2>1, OneChange
<1>6. \A n \in MembersOf(memberships', o, u) : n = t
  <2> SUFFICES ASSUME NEW n \in MembersOf(memberships', o, u), n # t PROVE FALSE
    OBVIOUS
  <2>1. n \in ActiveFor(o, u)
    BY <1>1 DEF MembersOf, ActiveFor, ActiveIn, Exists
  <2> QED
    BY <1>2, <1>3, <2>1 DEF OneActiveMembership
<1>7. RoleIn(memberships', o, u) \in Role \cup {"none"}
  <2>1. CASE t \in MembersOf(memberships', o, u)
    <3>1. RoleIn(memberships', o, u) = memberships'[t].role
      BY <1>6, <2>1, RoleOfOne
    <3> QED
      BY <1>1, <3>1 DEF MembershipRow
  <2>2. CASE t \notin MembersOf(memberships', o, u)
    <3>1. MembersOf(memberships', o, u) = {}
      BY <1>6, <2>2
    <3> QED
      BY <3>1 DEF RoleIn
  <2> QED
    BY <2>1, <2>2
<1>8. \E w \in User : roster[o][w] = "owner" /\ w # u
  <2>1. PICK n \in ActiveOwners(o) : n # t
    <3>1. CASE memberships[t].role = "owner"
      BY <1>1, <3>1 DEF OwnerLeft
    <3>2. CASE memberships[t].role # "owner"
      BY <1>1, <1>2, <3>2 DEF EveryOrganizationHasAnOwner, ActiveOwners
    <3> QED
      BY <3>1, <3>2
  <2>2. /\ memberships[n].user \in User /\ n \in ActiveFor(o, memberships[n].user)
        /\ roster[o][memberships[n].user] = "owner"
    BY <1>2, <2>1, OwnersAreOwners
  <2>3. memberships[n].user # u
    BY <1>2, <1>3, <2>1, <2>2 DEF OneActiveMembership
  <2> QED
    BY <2>2, <2>3
<1>9. Promise!Change(o, u)
  <2>1. roster[o][u] # "none"
    BY <1>4 DEF Role
  <2>2. Promise!Owners(o) \ {u} # {}
    BY <1>8 DEF Promise!Owners
  <2>3. RoleIn(memberships', o, u) \in {"none", "member", "admin", "owner"}
    BY <1>7 DEF Role
  <2> QED
    BY <1>5, <2>1, <2>2, <2>3 DEF Promise!Change
<1> QED
  BY <1>2, <1>3, <1>9

\* The membership and the invitation service implement OwnedOrganization: however
\* requests overlap, the roster of an organization changes by one person at a
\* time and always has an owner.
THEOREM ServicesImplementOwnedOrganization == Spec => ImplementsOwnedOrganization
<1>1. Init => Promise!Init
  <2> SUFFICES ASSUME Init PROVE Promise!Init
    OBVIOUS
  <2>1. \A o \in Organization, u \in User : RoleIn(memberships, o, u) = "none"
    BY DEF Init, RoleIn, MembersOf
  <2> QED
    BY <2>1, RosterIs DEF Promise!Init, Promise!Absent
<1>2. OrganizationsSound /\ [Next]_vars => [Promise!Next]_roster
  <2> SUFFICES ASSUME OrganizationsSound, [Next]_vars, roster' # roster
               PROVE  Promise!Next
    OBVIOUS
  <2>1. ASSUME UNCHANGED <<organizations, memberships>>
        PROVE  UNCHANGED roster
    BY <2>1, RosterIs
  <2>2. ASSUME NEW r \in Request, change_write(r) PROVE Promise!Next
    BY <2>2, ChangesOne DEF Promise!Next
  <2>3. ASSUME NEW r \in Request, join(r) PROVE Promise!Next
    BY <2>3, JoinsOne DEF Promise!Next
  <2>4. ASSUME NEW r \in Request, NEW u \in User, NEW o \in Organization,
               NEW m \in Membership, create(r, u, o, m)
        PROVE  Promise!Next
    BY <2>4, FoundsOne DEF Promise!Next
  <2> QED
    BY <2>1, <2>2, <2>3, <2>4, WhoWrites DEF MembershipStep
<1> QED
  BY <1>1, <1>2, AlwaysSound, PTL DEF Spec, ImplementsOwnedOrganization, Promise!Spec

----------------------------------------------------------------------------
(* OrganizationWorkspaces *)

Task == [op: {"none", "rename", "create_workspace", "get_workspace"},
         at: {"idle", "resolve", "act"},
         user: User \cup {NONE}, org: Organization \cup {NONE}]

\* A request that the policy has let through has had the authority.
TenantsSound ==
    /\ task \in [Request -> Task]
    /\ \A r \in Request : task[r].at = "act" => r \in held

\* What a request does next does not depend on what the others do.
LEMMA TaskOfOthers ==
    ASSUME TenantsSound, NEW r \in Request, NEW t \in Task, task' = [task EXCEPT ![r] = t],
           Remembered, t.at = "act" => HasAuthority(r)'
    PROVE  TenantsSound'
<1>1. task' \in [Request -> Task]
  BY DEF TenantsSound
<1>2. ASSUME NEW q \in Request, task'[q].at = "act" PROVE q \in held'
  <2>1. task'[q] # NoTask
    BY <1>2 DEF NoTask
  <2>2. q \in held \/ HasAuthority(q)'
    BY <1>2 DEF TenantsSound
  <2> QED
    BY <2>1, <2>2 DEF Remembered
<1> QED
  BY <1>1, <1>2 DEF TenantsSound

\* The policy lets a request through only if its user has the authority.
LEMMA ResolvedHasAuthority ==
    ASSUME TenantsSound, NEW r \in Request, resolve(r), task'[r].at = "act"
    PROVE  HasAuthority(r)'
<1>1. /\ UNCHANGED <<memberships>>
      /\ \/ task' = [task EXCEPT ![r].at = "act"]
         \/ task' = [task EXCEPT ![r] = NoTask]
  BY DEF resolve, Answer, vars, rows
<1>2. task \in [Request -> Task]
  BY DEF TenantsSound
<1>3. task' = [task EXCEPT ![r].at = "act"]
  BY <1>1, <1>2 DEF NoTask
<1>4. PICK m \in ActiveFor(task[r].org, task[r].user) : allows(memberships[m].role, task[r].op)
  <2>1. task'[r] # NoTask
    BY DEF NoTask
  <2> QED
    BY <1>2, <2>1 DEF resolve, Answer
<1>5. /\ task'[r].org = task[r].org /\ task'[r].user = task[r].user
      /\ task'[r].op = task[r].op
  BY <1>2, <1>3 DEF Task
<1>6. m \in ActiveFor(task[r].org, task[r].user)' /\ memberships'[m] = memberships[m]
  BY <1>1, <1>4, <1>5 DEF ActiveFor, ActiveIn, Exists
<1>7. memberships'[m].role = "member" => task'[r].op = "get_workspace"
  BY <1>4, <1>5, <1>6 DEF allows
<1> QED
  BY <1>6, <1>7 DEF HasAuthority

\* What is let through has had the authority, whatever happens meanwhile.
LEMMA TenantsStaySound == TenantsSound /\ [TenantsNext]_allVars => TenantsSound'
<1> SUFFICES ASSUME TenantsSound, [TenantsNext]_allVars PROVE TenantsSound'
  OBVIOUS
<1>1. CASE UNCHANGED allVars
  BY <1>1 DEF allVars, TenantsSound
<1>2. CASE OrganizationsNext /\ Remembered
  <2>1. task' = task
    BY <1>2 DEF OrganizationsNext
  <2>2. ASSUME NEW q \in Request, task'[q].at = "act" PROVE q \in held'
    <3>1. task'[q] # NoTask /\ q \in held
      BY <2>1, <2>2 DEF NoTask, TenantsSound
    <3> QED
      BY <1>2, <3>1 DEF Remembered
  <2> QED
    BY <2>1, <2>2 DEF TenantsSound
<1>3. ASSUME NEW r \in Request, Remembered, TenantStart(r) PROVE TenantsSound'
  <2>1. PICK op \in TenantEvents, u \in User, o \in Organization : tenant_start(r, op, u, o)
    BY <1>3 DEF TenantStart, rename_start, create_workspace_start, get_workspace_start,
                tenant_start
  <2> DEFINE t == [op |-> op, at |-> "resolve", user |-> u, org |-> o]
  <2>2. t \in Task /\ t.at # "act"
    BY TenantAssumption DEF Task
  <2>3. task' = [task EXCEPT ![r] = t]
    BY <2>1 DEF tenant_start
  <2> HIDE DEF t
  <2> QED
    BY <1>3, <2>2, <2>3, TaskOfOthers
<1>4. NoTask \in Task /\ NoTask.at # "act"
  BY DEF NoTask, Task
<1>5. ASSUME NEW r \in Request, Remembered, Answer(r) PROVE TenantsSound'
  BY <1>4, <1>5, TaskOfOthers DEF Answer
<1>6. ASSUME NEW r \in Request, Remembered, resolve(r) PROVE TenantsSound'
  <2>1. CASE Answer(r)
    BY <1>5, <1>6, <2>1
  <2>2. CASE task' = [task EXCEPT ![r].at = "act"]
    <3> DEFINE t == [task[r] EXCEPT !.at = "act"]
    <3>1. t \in Task /\ task' = [task EXCEPT ![r] = t] /\ task'[r].at = "act"
      BY <2>2 DEF TenantsSound, Task
    <3>2. HasAuthority(r)'
      BY <1>6, <3>1, ResolvedHasAuthority
    <3> HIDE DEF t
    <3> QED
      BY <1>6, <3>1, <3>2, TaskOfOthers
  <2> QED
    BY <1>6, <2>1, <2>2 DEF resolve
<1>7. ASSUME NEW r \in Request, Remembered,
             update_name(r) \/ create_shared(r) \/ get_accessible(r) \/ tenant_failure(r)
      PROVE  TenantsSound'
  <2>1. Answer(r)
    BY <1>7 DEF update_name, create_shared, get_accessible, tenant_failure
  <2> QED
    BY <1>5, <1>7, <2>1
<1> QED
  BY <1>1, <1>2, <1>3, <1>6, <1>7 DEF TenantsNext, TenantStep

\* An organization is renamed, and a workspace created or shown, only for a
\* user who has been entitled to it at some moment since the request began.
THEOREM TenantsHadAuthority == TenantsSpec => AuthorityWasHeld
<1>1. TenantsInit => TenantsSound
  <2>1. NoTask \in Task /\ NoTask.at # "act"
    BY DEF NoTask, Task
  <2> QED
    BY <2>1 DEF TenantsInit, TenantsSound
<1>2. TenantsSound => \A r \in Request :
        update_name(r) \/ create_shared(r) \/ get_accessible(r) => r \in held
  BY DEF TenantsSound, update_name, create_shared, get_accessible
<1> QED
  BY <1>1, <1>2, TenantsStaySound, PTL DEF TenantsSpec, AuthorityWasHeld

\* What is proved of Organizations holds of the whole as well: whoever renames
\* an organization or creates its workspaces leaves members and locks alone.
THEOREM TenantsKeepOrganizations == TenantsSpec => Spec
<1>1. TenantsInit => Init
  BY DEF TenantsInit
<1>2. [TenantsNext]_allVars => [Next]_vars
  <2>1. ASSUME NEW r \in Request, TenantStart(r) \/ TenantStep(r) \/ tenant_failure(r)
        PROVE  UNCHANGED vars
    BY <2>1 DEF TenantStart, rename_start, create_workspace_start, get_workspace_start,
                tenant_start, TenantStep, resolve, update_name, create_shared,
                get_accessible, tenant_failure
  <2> QED
    BY <2>1 DEF TenantsNext, OrganizationsNext, allVars
<1> QED
  BY <1>1, <1>2, PTL DEF TenantsSpec, Spec
==============================================================================

-------------------------- MODULE OrganizationProofs --------------------------
(***************************************************************************)
(* Theorems about Organizations, for any sets of accounts, organizations,  *)
(* rows and requests.                                                      *)
(***************************************************************************)
EXTENDS Organizations, FiniteSetTheorems, TLAPS

----------------------------------------------------------------------------
(* The inductive invariant *)

\* The request has locked its organization.
HoldsOrganization(r) == pc[r] \notin {"idle", "accept_organization"}

Accepting(r) == pc[r] \in {"accept_organization", "accept_row", "accept_user", "join"}

\* What the request does once its actor is locked.
Stage(r) == IF pc[r] = "actor" THEN local[r].next ELSE pc[r]

\* The request has been sent what it will use.
Carries(r) ==
    /\ pc[r] # "idle" => local[r].user \in User /\ local[r].org \in organizations
    /\ pc[r] = "actor" => local[r].next \in {"list", "target", "invite", "uninvite"}
    /\ Stage(r) \in {"target", "owners", "write"} =>
            local[r].target \in Membership /\ local[r].new \in Role \cup {"revoked"}
    /\ Stage(r) = "invite" =>
            local[r].email \in User /\ local[r].new \in {"admin", "member"}
    /\ Stage(r) = "uninvite" => local[r].invitation \in Invitation
    /\ Accepting(r) =>
            /\ local[r].invitation \in Invitation
            /\ Exists(invitations, local[r].invitation)
            /\ invitations[local[r].invitation].org = local[r].org

\* Another active owner of the organization remains when the target goes.
OwnerLeft(r) ==
    memberships[local[r].target].role = "owner" =>
        \E n \in ActiveOwners(local[r].org) : n # local[r].target

\* What was checked under the lock of the organization is still so.
Checked(r) ==
    /\ HoldsOrganization(r) => organizationLock[local[r].org] = r
    /\ pc[r] \in {"list", "target", "owners", "write", "invite", "uninvite"} =>
            local[r].actor \in ActiveFor(local[r].org, local[r].user)
    /\ pc[r] \in {"owners", "write"} => TargetAccepted(r)
    /\ pc[r] = "write" => OwnerLeft(r)

Sound(r) == Carries(r) /\ Checked(r)

\* Rows are locked by requests that hold their organization.
LocksAreNested ==
    /\ \A o \in Organization : organizationLock[o] # NONE =>
            /\ HoldsOrganization(organizationLock[o])
            /\ local[organizationLock[o]].org = o
    /\ \A m \in Membership : membershipLock[m] # NONE =>
            /\ HoldsOrganization(membershipLock[m])
            /\ Exists(memberships, m)
            /\ memberships[m].org = local[membershipLock[m]].org
    /\ \A i \in Invitation : invitationLock[i] # NONE =>
            /\ pc[invitationLock[i]] \in {"accept_user", "join"}
            /\ local[invitationLock[i]].invitation = i
    /\ \A u \in User : userLock[u] # NONE =>
            pc[userLock[u]] = "join" /\ local[userLock[u]].user = u

\* Memberships and invitations belong to organizations that exist.
RowsBelong ==
    /\ \A m \in Membership : Exists(memberships, m) => memberships[m].org \in organizations
    /\ \A i \in Invitation : Exists(invitations, i) => invitations[i].org \in organizations

OrganizationsSound ==
    /\ TypeOK
    /\ \A r \in Request : Sound(r)
    /\ LocksAreNested
    /\ RowsBelong
    /\ EveryOrganizationHasAnOwner
    /\ OneActiveMembership
    /\ OneLiveInvitation

----------------------------------------------------------------------------
(* What a step leaves to the other requests *)

\* The step changes only memberships of organizations that h has locked, or of
\* one it founds; no row vanishes or moves to another organization.
RowsKept(h) ==
    /\ organizations \subseteq organizations'
    /\ \A m \in Membership : Exists(memberships, m) =>
            /\ Exists(memberships', m)
            /\ memberships'[m].org = memberships[m].org
            /\ organizationLock[memberships[m].org] # h => memberships'[m] = memberships[m]
    /\ \A m \in Membership : ~Exists(memberships, m) /\ Exists(memberships', m) =>
            \/ memberships'[m].org \notin organizations
            \/ organizationLock[memberships'[m].org] = h
    /\ \A i \in Invitation : Exists(invitations, i) =>
            /\ Exists(invitations', i)
            /\ invitations'[i].org = invitations[i].org

LEMMA OthersKeep ==
    ASSUME OrganizationsSound, NEW h, NEW q \in Request, q # h, RowsKept(h),
           pc'[q] = pc[q], local'[q] = local[q],
           \A o \in Organization : organizationLock[o] = q => organizationLock'[o] = q
    PROVE  Sound(q)'
<1> DEFINE o == local[q].org
<1>1. Sound(q) /\ RowsBelong /\ TypeOK
  BY DEF OrganizationsSound
<1>2. Carries(q)'
  BY <1>1 DEF Carries, Sound, RowsKept, Stage, Accepting, Exists
<1>3. ASSUME HoldsOrganization(q)
      PROVE  Checked(q)'
  <2>1. o \in organizations /\ organizationLock[o] = q
    BY <1>1, <1>3 DEF Sound, Carries, Checked, HoldsOrganization
  <2>2. organizationLock'[o] = q
    BY <1>1, <2>1 DEF TypeOK
  <2>3. \A m \in Membership : m \in ActiveIn(o) =>
            memberships'[m] = memberships[m] /\ Exists(memberships', m)
    BY <2>1 DEF ActiveIn, RowsKept
  <2>4. \A m \in Membership : Exists(memberships', m) /\ memberships'[m].org = o =>
            Exists(memberships, m) /\ memberships'[m] = memberships[m]
    BY <2>1 DEF RowsKept
  <2>5. {m \in Membership : /\ Exists(memberships', m)
                            /\ memberships'[m].org = o
                            /\ ~memberships'[m].revoked} = ActiveIn(o)
    BY <2>3, <2>4 DEF ActiveIn
  <2>6. CASE pc[q] \in {"owners", "write"}
    <3>1. local[q].target \in ActiveIn(o) /\ local[q].actor \in ActiveFor(o, local[q].user)
      BY <1>1, <2>6 DEF Sound, Checked, TargetAccepted
    <3>2. /\ memberships'[local[q].target] = memberships[local[q].target]
          /\ memberships'[local[q].actor] = memberships[local[q].actor]
      BY <2>3, <3>1 DEF ActiveFor, ActiveIn
    <3>3. TargetAccepted(q)'
      BY <1>1, <2>5, <2>6, <3>1, <3>2 DEF Sound, Checked, TargetAccepted, ActiveIn
    <3>4. (local[q].actor \in ActiveFor(o, local[q].user))'
      BY <2>5, <3>1, <3>2 DEF ActiveFor, ActiveIn
    <3>5. ASSUME pc[q] = "write" PROVE OwnerLeft(q)'
      <4>1. OwnerLeft(q)
        BY <1>1, <3>5 DEF Sound, Checked
      <4>2. ASSUME NEW n \in ActiveOwners(o)
            PROVE  n \in Membership /\ n \in ActiveOwners(o)'
        BY <2>3, <2>5, <4>2 DEF ActiveOwners, ActiveIn
      <4> QED
        BY <3>2, <4>1, <4>2 DEF OwnerLeft
    <3> QED
      BY <2>2, <2>6, <3>3, <3>4, <3>5 DEF Checked
  <2>7. CASE pc[q] \in {"list", "target", "invite", "uninvite"}
    <3>1. local[q].actor \in ActiveFor(o, local[q].user)
      BY <1>1, <2>7 DEF Sound, Checked
    <3>2. (local[q].actor \in ActiveFor(o, local[q].user))'
      BY <2>3, <2>5, <3>1 DEF ActiveFor, ActiveIn
    <3> QED
      BY <2>2, <2>7, <3>2 DEF Checked
  <2>8. CASE pc[q] \notin {"list", "target", "owners", "write", "invite", "uninvite"}
    BY <2>2, <2>8 DEF Checked
  <2> QED
    BY <2>6, <2>7, <2>8
<1>4. ASSUME ~HoldsOrganization(q)
      PROVE  Checked(q)'
  BY <1>4 DEF Checked, HoldsOrganization
<1> QED
  BY <1>2, <1>3, <1>4 DEF Sound

\* No row changes: what is said of the rows alone stays so.
LEMMA SameRows ==
    ASSUME OrganizationsSound, UNCHANGED rows
    PROVE  /\ \A h : RowsKept(h)
           /\ RowsBelong' /\ EveryOrganizationHasAnOwner'
           /\ OneActiveMembership' /\ OneLiveInvitation'
<1> USE DEF rows
<1>1. \A h : RowsKept(h)
  BY DEF RowsKept
<1>2. RowsBelong'
  BY DEF OrganizationsSound, RowsBelong
<1>3. EveryOrganizationHasAnOwner'
  BY DEF OrganizationsSound, EveryOrganizationHasAnOwner, ActiveOwners, ActiveIn
<1>4. OneActiveMembership'
  BY DEF OrganizationsSound, OneActiveMembership, ActiveFor, ActiveIn
<1>5. OneLiveInvitation'
  BY DEF OrganizationsSound, OneLiveInvitation, LiveFor, LiveInvitation
<1> QED
  BY <1>1, <1>2, <1>3, <1>4, <1>5

----------------------------------------------------------------------------
(* The three shapes of a step *)

LockTypes ==
    /\ organizationLock \in [Organization -> Request \cup {NONE}]
    /\ membershipLock \in [Membership -> Request \cup {NONE}]
    /\ invitationLock \in [Invitation -> Request \cup {NONE}]
    /\ userLock \in [User -> Request \cup {NONE}]

RowTypes ==
    /\ accounts \in [User -> {"active", "anonymized"}]
    /\ organizations \in SUBSET Organization
    /\ memberships \in [Membership -> MembershipRow \cup {Unissued}]
    /\ invitations \in [Invitation -> InvitationRow \cup {Unissued}]

\* Request r reads on: it may take rows that were free, none of which lies
\* outside the organization it holds.
LEMMA ContinueSound ==
    ASSUME OrganizationsSound, NEW r \in Request, UNCHANGED rows,
           NEW label \in PCs \ {"idle"}, NEW values \in Local, Continue(r, label, values),
           LockTypes', Sound(r)',
           \A o \in Organization :
               /\ organizationLock'[o] # organizationLock[o] =>
                      organizationLock[o] = NONE /\ organizationLock'[o] = r
               /\ organizationLock'[o] = r =>
                      label # "accept_organization" /\ values.org = o,
           \A m \in Membership :
               /\ membershipLock'[m] \in {membershipLock[m], r}
               /\ membershipLock'[m] = r =>
                      /\ label # "accept_organization"
                      /\ Exists(memberships, m) /\ memberships[m].org = values.org,
           \A i \in Invitation :
               /\ invitationLock'[i] \in {invitationLock[i], r}
               /\ invitationLock'[i] = r =>
                      label \in {"accept_user", "join"} /\ values.invitation = i,
           \A u \in User :
               /\ userLock'[u] \in {userLock[u], r}
               /\ userLock'[u] = r => label = "join" /\ values.user = u
    PROVE  OrganizationsSound'
<1>1. TypeOK /\ LocksAreNested /\ NONE \notin Request
  BY OrganizationAssumption DEF OrganizationsSound
<1>2. /\ pc'[r] = label /\ local'[r] = values
      /\ \A q \in Request : q # r => pc'[q] = pc[q] /\ local'[q] = local[q]
  BY <1>1 DEF Continue, TypeOK
<1>3. TypeOK'
  BY <1>1 DEF Continue, TypeOK, LockTypes, rows
<1>4. ASSUME NEW q \in Request
      PROVE  Sound(q)'
  <2>1. CASE q = r
    BY <2>1
  <2>2. CASE q # r
    <3>1. \A o \in Organization : organizationLock[o] = q => organizationLock'[o] = q
      BY <1>1
    <3> QED
      BY <1>2, <2>2, <3>1, SameRows, OthersKeep
  <2> QED
    BY <2>1, <2>2
<1>5. LocksAreNested'
  <2>1. \A o \in Organization : organizationLock'[o] # NONE =>
            /\ pc'[organizationLock'[o]] \notin {"idle", "accept_organization"}
            /\ local'[organizationLock'[o]].org = o
    BY <1>1, <1>2 DEF LocksAreNested, HoldsOrganization, LockTypes
  <2>2. \A m \in Membership : membershipLock'[m] # NONE =>
            /\ pc'[membershipLock'[m]] \notin {"idle", "accept_organization"}
            /\ Exists(memberships', m)
            /\ memberships'[m].org = local'[membershipLock'[m]].org
    BY <1>1, <1>2 DEF LocksAreNested, HoldsOrganization, LockTypes, rows
  <2>3. \A i \in Invitation : invitationLock'[i] # NONE =>
            /\ pc'[invitationLock'[i]] \in {"accept_user", "join"}
            /\ local'[invitationLock'[i]].invitation = i
    BY <1>1, <1>2 DEF LocksAreNested, LockTypes
  <2>4. \A u \in User : userLock'[u] # NONE =>
            pc'[userLock'[u]] = "join" /\ local'[userLock'[u]].user = u
    BY <1>1, <1>2 DEF LocksAreNested, LockTypes
  <2> QED
    BY <2>1, <2>2, <2>3, <2>4 DEF LocksAreNested, HoldsOrganization, Exists
<1> QED
  BY <1>3, <1>4, <1>5, SameRows DEF OrganizationsSound

\* What becomes of the locks when request r ends.
LEMMA FinishLocks ==
    ASSUME TypeOK, NEW r \in Request, Finish(r)
    PROVE  /\ LockTypes'
           /\ pc'[r] = "idle" /\ pc' \in [Request -> PCs] /\ local' \in [Request -> Local]
           /\ \A q \in Request : q # r => pc'[q] = pc[q] /\ local'[q] = local[q]
           /\ \A o \in Organization :
                /\ organizationLock'[o] # r
                /\ organizationLock[o] # r => organizationLock'[o] = organizationLock[o]
                /\ organizationLock'[o] \in {organizationLock[o], NONE}
           /\ \A m \in Membership :
                membershipLock'[m] # r /\ membershipLock'[m] \in {membershipLock[m], NONE}
           /\ \A i \in Invitation :
                invitationLock'[i] # r /\ invitationLock'[i] \in {invitationLock[i], NONE}
           /\ \A u \in User : userLock'[u] # r /\ userLock'[u] \in {userLock[u], NONE}
<1>1. NONE \notin Request
  BY OrganizationAssumption
<1>2. Nothing \in Local /\ "idle" \in PCs
  BY DEF Nothing, Local, PCs
<1>3. /\ pc'[r] = "idle" /\ pc' \in [Request -> PCs] /\ local' \in [Request -> Local]
      /\ \A q \in Request : q # r => pc'[q] = pc[q] /\ local'[q] = local[q]
  BY <1>2 DEF Finish, TypeOK
<1>4. LockTypes'
  BY DEF Finish, TypeOK, Released, LockTypes
<1>5. \A o \in Organization :
        /\ organizationLock'[o] # r
        /\ organizationLock[o] # r => organizationLock'[o] = organizationLock[o]
        /\ organizationLock'[o] \in {organizationLock[o], NONE}
  BY <1>1 DEF Finish, TypeOK, Released
<1>6. \A m \in Membership :
        membershipLock'[m] # r /\ membershipLock'[m] \in {membershipLock[m], NONE}
  BY <1>1 DEF Finish, TypeOK, Released
<1>7. \A i \in Invitation :
        invitationLock'[i] # r /\ invitationLock'[i] \in {invitationLock[i], NONE}
  BY <1>1 DEF Finish, TypeOK, Released
<1>8. \A u \in User : userLock'[u] # r /\ userLock'[u] \in {userLock[u], NONE}
  BY <1>1 DEF Finish, TypeOK, Released
<1> QED
  BY <1>3, <1>4, <1>5, <1>6, <1>7, <1>8

\* Request r ends, and has written only to the organization it holds.
LEMMA FinishSound ==
    ASSUME OrganizationsSound, NEW r \in Request, Finish(r), RowTypes', RowsKept(r),
           RowsBelong', EveryOrganizationHasAnOwner', OneActiveMembership',
           OneLiveInvitation'
    PROVE  OrganizationsSound'
<1>1. TypeOK /\ LocksAreNested /\ NONE \notin Request
  BY OrganizationAssumption DEF OrganizationsSound
<1>2. TypeOK'
  BY <1>1, FinishLocks DEF TypeOK, LockTypes, RowTypes
<1>3. ASSUME NEW q \in Request
      PROVE  Sound(q)'
  <2>1. CASE q = r
    <3>1. pc'[r] = "idle"
      BY <1>1, FinishLocks
    <3> QED
      BY <2>1, <3>1 DEF Sound, Carries, Checked, Stage, Accepting, HoldsOrganization
  <2>2. CASE q # r
    <3>1. /\ pc'[q] = pc[q] /\ local'[q] = local[q]
          /\ \A o \in Organization : organizationLock[o] = q => organizationLock'[o] = q
      BY <1>1, <2>2, FinishLocks
    <3> QED
      BY <2>2, <3>1, OthersKeep
  <2> QED
    BY <2>1, <2>2
<1>4. LocksAreNested'
  <2>1. \A o \in Organization : organizationLock'[o] # NONE =>
            /\ pc'[organizationLock'[o]] \notin {"idle", "accept_organization"}
            /\ local'[organizationLock'[o]].org = o
    BY <1>1, FinishLocks DEF LocksAreNested, HoldsOrganization, TypeOK
  <2>2. \A m \in Membership : membershipLock'[m] # NONE =>
            /\ pc'[membershipLock'[m]] \notin {"idle", "accept_organization"}
            /\ Exists(memberships', m)
            /\ memberships'[m].org = local'[membershipLock'[m]].org
    BY <1>1, FinishLocks DEF LocksAreNested, HoldsOrganization, TypeOK, RowsKept
  <2>3. \A i \in Invitation : invitationLock'[i] # NONE =>
            /\ pc'[invitationLock'[i]] \in {"accept_user", "join"}
            /\ local'[invitationLock'[i]].invitation = i
    BY <1>1, FinishLocks DEF LocksAreNested, TypeOK
  <2>4. \A u \in User : userLock'[u] # NONE =>
            pc'[userLock'[u]] = "join" /\ local'[userLock'[u]].user = u
    BY <1>1, FinishLocks DEF LocksAreNested, TypeOK
  <2> QED
    BY <2>1, <2>2, <2>3, <2>4 DEF LocksAreNested, HoldsOrganization, Exists
<1> QED
  BY <1>2, <1>3, <1>4 DEF OrganizationsSound

\* A refusal, a listing or a failure.
LEMMA RejectSound ==
    ASSUME OrganizationsSound, NEW r \in Request, Finish(r), UNCHANGED rows
    PROVE  OrganizationsSound'
<1>1. RowTypes'
  BY DEF OrganizationsSound, TypeOK, RowTypes, rows
<1> QED
  BY <1>1, SameRows, FinishSound

\* Rows change under no lock, and not those of an organization that exists.
LEMMA QuietSound ==
    ASSUME OrganizationsSound, UNCHANGED <<locks, pc, local>>, RowTypes', RowsKept(NONE),
           RowsBelong', EveryOrganizationHasAnOwner', OneActiveMembership',
           OneLiveInvitation'
    PROVE  OrganizationsSound'
<1> USE DEF locks
<1>1. TypeOK /\ LocksAreNested /\ NONE \notin Request
  BY OrganizationAssumption DEF OrganizationsSound
<1>2. TypeOK'
  BY <1>1 DEF TypeOK, RowTypes
<1>3. ASSUME NEW q \in Request
      PROVE  Sound(q)'
  <2>1. /\ pc'[q] = pc[q] /\ local'[q] = local[q] /\ q # NONE
        /\ \A o \in Organization : organizationLock[o] = q => organizationLock'[o] = q
    BY <1>1
  <2> QED
    BY <2>1, OthersKeep
<1>4. LocksAreNested'
  BY <1>1 DEF LocksAreNested, HoldsOrganization, RowsKept, Exists
<1> QED
  BY <1>2, <1>3, <1>4 DEF OrganizationsSound

----------------------------------------------------------------------------
(* Steps that read on *)

LEMMA OwnLocks ==
    ASSUME OrganizationsSound, NEW r \in Request
    PROVE  /\ \A o \in Organization : organizationLock[o] = r =>
                HoldsOrganization(r) /\ local[r].org = o
           /\ \A m \in Membership : membershipLock[m] = r =>
                /\ HoldsOrganization(r)
                /\ Exists(memberships, m) /\ memberships[m].org = local[r].org
           /\ \A i \in Invitation : invitationLock[i] = r =>
                pc[r] \in {"accept_user", "join"} /\ local[r].invitation = i
           /\ \A u \in User : userLock[u] = r => pc[r] = "join" /\ local[r].user = u
BY OrganizationAssumption DEF OrganizationsSound, LocksAreNested

\* A request that begins locks its organization.
LEMMA StartSound ==
    ASSUME OrganizationsSound, NEW r \in Request, NEW u \in User, NEW o \in Organization,
           pc[r] = "idle", NEW values \in Local, lock_organization(r, u, o, values),
           values.next \in {"list", "target", "invite", "uninvite"},
           values.next = "target" =>
               values.target \in Membership /\ values.new \in Role \cup {"revoked"},
           values.next = "invite" =>
               values.email \in User /\ values.new \in {"admin", "member"},
           values.next = "uninvite" => values.invitation \in Invitation
    PROVE  OrganizationsSound'
<1> DEFINE full == [values EXCEPT !.user = u, !.org = o]
<1>1. TypeOK
  BY DEF OrganizationsSound
<1>2. /\ full \in Local /\ full.user = u /\ full.org = o /\ full.next = values.next
      /\ full.target = values.target /\ full.new = values.new
      /\ full.email = values.email /\ full.invitation = values.invitation
  BY DEF Local
<1>3. "actor" \in PCs \ {"idle"}
  BY DEF PCs
<1>4. /\ Continue(r, "actor", full) /\ UNCHANGED rows /\ o \in organizations
      /\ membershipLock' = membershipLock /\ invitationLock' = invitationLock
      /\ userLock' = userLock /\ organizations' = organizations
      /\ organizationLock[o] \in {NONE, r}
      /\ organizationLock' = [organizationLock EXCEPT ![o] = r]
  BY DEF lock_organization, OrganizationFree, Free, Lock, rows
<1>5. pc'[r] = "actor" /\ local'[r] = full
  BY <1>1, <1>4 DEF Continue, TypeOK
<1>6. LockTypes'
  BY <1>1, <1>4 DEF LockTypes, TypeOK
<1>7. Sound(r)'
  <2>1. Carries(r)'
    BY <1>2, <1>4, <1>5 DEF Carries, Stage, Accepting
  <2>2. Checked(r)'
    BY <1>1, <1>2, <1>4, <1>5 DEF Checked, TypeOK
  <2> QED
    BY <2>1, <2>2 DEF Sound
<1>8. ~HoldsOrganization(r)
  BY DEF HoldsOrganization
<1>9. \A p \in Organization :
        /\ organizationLock'[p] # organizationLock[p] =>
               organizationLock[p] = NONE /\ organizationLock'[p] = r
        /\ organizationLock'[p] = r => full.org = p
  BY <1>1, <1>2, <1>4, <1>8, OwnLocks DEF TypeOK
<1>10. /\ \A m \in Membership : membershipLock'[m] = membershipLock[m] /\ membershipLock'[m] # r
       /\ \A i \in Invitation : invitationLock'[i] = invitationLock[i] /\ invitationLock'[i] # r
       /\ \A v \in User : userLock'[v] = userLock[v] /\ userLock'[v] # r
  BY <1>4, <1>8, OwnLocks DEF HoldsOrganization
<1> HIDE DEF full
<1> QED
  BY <1>2, <1>3, <1>4, <1>6, <1>7, <1>9, <1>10, ContinueSound

\* Request r holds its organization and goes on with the same values, having
\* locked memberships of that organization, or its invitation, or its user.
LEMMA GoOnSound ==
    ASSUME OrganizationsSound, NEW r \in Request, UNCHANGED <<rows, organizationLock>>,
           HoldsOrganization(r),
           NEW label \in PCs \ {"idle", "accept_organization"}, NEW values \in Local,
           Continue(r, label, values), LockTypes', Sound(r)', values.org = local[r].org,
           \A m \in Membership :
               /\ membershipLock'[m] \in {membershipLock[m], r}
               /\ membershipLock'[m] # membershipLock[m] => m \in ActiveIn(local[r].org),
           \A i \in Invitation :
               /\ invitationLock'[i] \in {invitationLock[i], r}
               /\ invitationLock'[i] = r =>
                      label \in {"accept_user", "join"} /\ values.invitation = i,
           \A u \in User :
               /\ userLock'[u] \in {userLock[u], r}
               /\ userLock'[u] = r => label = "join" /\ values.user = u
    PROVE  OrganizationsSound'
<1>1. \A o \in Organization :
        /\ organizationLock'[o] = organizationLock[o]
        /\ organizationLock'[o] = r => label # "accept_organization" /\ values.org = o
  BY OwnLocks
<1>2. \A m \in Membership : membershipLock'[m] = r =>
        /\ label # "accept_organization"
        /\ Exists(memberships, m) /\ memberships[m].org = values.org
  BY OwnLocks DEF ActiveIn
<1>3. UNCHANGED rows /\ label \in PCs \ {"idle"}
  OBVIOUS
<1> QED
  BY <1>1, <1>2, <1>3, ContinueSound

LEMMA LockActorSound ==
    ASSUME OrganizationsSound, NEW r \in Request, lock_actor(r)
    PROVE  OrganizationsSound'
<1>1. TypeOK /\ Sound(r)
  BY DEF OrganizationsSound
<1>2. PICK a \in ActiveFor(local[r].org, local[r].user) :
        /\ membershipLock' = Lock(membershipLock, a, r)
        /\ Continue(r, local[r].next, [local[r] EXCEPT !.actor = a])
  BY DEF lock_actor
<1> DEFINE values == [local[r] EXCEPT !.actor = a]
<1>3. a \in Membership /\ a \in ActiveIn(local[r].org)
  BY DEF ActiveFor, ActiveIn
<1>4. /\ values \in Local /\ values.actor = a /\ values.user = local[r].user
      /\ values.org = local[r].org /\ values.next = local[r].next
      /\ values.target = local[r].target /\ values.new = local[r].new
      /\ values.email = local[r].email /\ values.invitation = local[r].invitation
  BY <1>1, <1>3 DEF TypeOK, Local
<1>5. /\ pc[r] = "actor" /\ local[r].next \in {"list", "target", "invite", "uninvite"}
      /\ local[r].next \in PCs \ {"idle", "accept_organization"}
      /\ HoldsOrganization(r)
  BY <1>1 DEF lock_actor, At, Sound, Carries, PCs, HoldsOrganization
<1>6. UNCHANGED <<rows, organizationLock, invitationLock, userLock>>
  BY DEF lock_actor
<1>7. pc'[r] = local[r].next /\ local'[r] = values
  BY <1>1, <1>2 DEF Continue, TypeOK
<1>8. LockTypes'
  BY <1>1, <1>2, <1>6 DEF LockTypes, TypeOK, Lock
<1>9. Sound(r)'
  <2>1. Carries(r)'
    BY <1>1, <1>4, <1>5, <1>6, <1>7 DEF Sound, Carries, Stage, Accepting, rows
  <2>2. /\ organizationLock'[local'[r].org] = r
        /\ pc'[r] \notin {"owners", "write"}
    BY <1>1, <1>4, <1>5, <1>6, <1>7 DEF Sound, Checked
  <2>3. (local[r].actor \in ActiveFor(local[r].org, local[r].user))'
    BY <1>4, <1>6, <1>7 DEF ActiveFor, ActiveIn, Exists, rows
  <2>4. Checked(r)'
    BY <2>2, <2>3 DEF Checked
  <2> QED
    BY <2>1, <2>4 DEF Sound
<1>10. \A m \in Membership :
        /\ membershipLock'[m] \in {membershipLock[m], r}
        /\ membershipLock'[m] # membershipLock[m] => m \in ActiveIn(local[r].org)
  BY <1>1, <1>2, <1>3 DEF Lock, TypeOK
<1>11. /\ \A i \in Invitation : invitationLock'[i] = invitationLock[i] /\ invitationLock'[i] # r
       /\ \A u \in User : userLock'[u] = userLock[u] /\ userLock'[u] # r
  BY <1>5, <1>6, OwnLocks
<1> HIDE DEF values
<1> QED
  BY <1>2, <1>4, <1>5, <1>6, <1>8, <1>9, <1>10, <1>11, GoOnSound DEF values

LEMMA LockTargetSound ==
    ASSUME OrganizationsSound, NEW r \in Request, lock_target(r)
    PROVE  OrganizationsSound'
<1>1. TypeOK /\ Sound(r)
  BY DEF OrganizationsSound
<1>2. /\ pc[r] = "target" /\ TargetAccepted(r) /\ HoldsOrganization(r)
      /\ local[r].target \in ActiveIn(local[r].org) /\ local[r] \in Local
      /\ "owners" \in PCs \ {"idle", "accept_organization"}
  BY <1>1 DEF lock_target, At, TargetAccepted, TypeOK, PCs, HoldsOrganization
<1>3. /\ UNCHANGED <<rows, organizationLock, invitationLock, userLock>>
      /\ membershipLock' = [membershipLock EXCEPT ![local[r].target] = r]
      /\ Continue(r, "owners", local[r])
  BY DEF lock_target, Lock
<1>4. pc'[r] = "owners" /\ local'[r] = local[r]
  BY <1>1, <1>3 DEF Continue, TypeOK
<1>5. LockTypes'
  BY <1>1, <1>3 DEF LockTypes, TypeOK
<1>6. Sound(r)'
  <2>1. Carries(r)'
    BY <1>1, <1>2, <1>3, <1>4 DEF Sound, Carries, Stage, Accepting, rows
  <2>2. Checked(r)'
    BY <1>1, <1>2, <1>3, <1>4
    DEF Sound, Checked, HoldsOrganization, ActiveFor, ActiveIn, TargetAccepted, rows
  <2> QED
    BY <2>1, <2>2 DEF Sound
<1>7. \A m \in Membership :
        /\ membershipLock'[m] \in {membershipLock[m], r}
        /\ membershipLock'[m] # membershipLock[m] => m \in ActiveIn(local[r].org)
  BY <1>1, <1>2, <1>3 DEF TypeOK
<1>8. /\ \A i \in Invitation : invitationLock'[i] = invitationLock[i] /\ invitationLock'[i] # r
      /\ \A u \in User : userLock'[u] = userLock[u] /\ userLock'[u] # r
  BY <1>2, <1>3, OwnLocks
<1> QED
  BY <1>2, <1>3, <1>5, <1>6, <1>7, <1>8, GoOnSound

LEMMA AnotherOne ==
    ASSUME NEW S, IsFiniteSet(S), Cardinality(S) > 1, NEW x
    PROVE  \E n \in S : n # x
<1> SUFFICES ASSUME \A n \in S : n = x PROVE FALSE
  OBVIOUS
<1>1. S \subseteq {x}
  OBVIOUS
<1>2. IsFiniteSet({x}) /\ Cardinality({x}) = 1
  BY FS_Singleton
<1>3. Cardinality(S) <= 1
  BY <1>1, <1>2, FS_Subset
<1>4. Cardinality(S) \in Nat
  BY FS_CardinalityType
<1> QED
  BY <1>3, <1>4

LEMMA ProtectSound ==
    ASSUME OrganizationsSound, NEW r \in Request, protect_last_owner(r)
    PROVE  OrganizationsSound'
<1>1. TypeOK /\ Sound(r)
  BY DEF OrganizationsSound
<1>2. /\ pc[r] = "owners" /\ HoldsOrganization(r) /\ OwnerRemains(r) /\ TargetAccepted(r)
      /\ local[r] \in Local /\ "write" \in PCs \ {"idle", "accept_organization"}
  BY <1>1 DEF protect_last_owner, At, TypeOK, PCs, HoldsOrganization, Sound, Checked
<1>3. /\ UNCHANGED <<rows, organizationLock, invitationLock, userLock>>
      /\ membershipLock' = [m \in Membership |-> IF m \in OwnersToLock(r) THEN r
                                                 ELSE membershipLock[m]]
      /\ Continue(r, "write", local[r])
  BY DEF protect_last_owner
<1>4. pc'[r] = "write" /\ local'[r] = local[r]
  BY <1>1, <1>3 DEF Continue, TypeOK
<1>5. LockTypes'
  BY <1>1, <1>3 DEF LockTypes, TypeOK
<1>6. OwnerLeft(r)
  <2>1. IsFiniteSet(ActiveOwners(local[r].org))
    BY FiniteTables, FS_Subset DEF ActiveOwners, ActiveIn
  <2> QED
    BY <1>2, <2>1, AnotherOne DEF OwnerRemains, OwnerLeft
<1>7. Sound(r)'
  <2>1. Carries(r)'
    BY <1>1, <1>2, <1>3, <1>4 DEF Sound, Carries, Stage, Accepting, rows
  <2>2. OwnerLeft(r)'
    BY <1>3, <1>4, <1>6 DEF OwnerLeft, ActiveOwners, ActiveIn, rows
  <2>3. Checked(r)'
    BY <1>1, <1>2, <1>3, <1>4, <2>2
    DEF Sound, Checked, HoldsOrganization, ActiveFor, ActiveIn, TargetAccepted, rows
  <2> QED
    BY <2>1, <2>3 DEF Sound
<1>8. \A m \in Membership :
        /\ membershipLock'[m] \in {membershipLock[m], r}
        /\ membershipLock'[m] # membershipLock[m] => m \in ActiveIn(local[r].org)
  BY <1>1, <1>3 DEF TypeOK, OwnersToLock, ActiveOwners
<1>9. /\ \A i \in Invitation : invitationLock'[i] = invitationLock[i] /\ invitationLock'[i] # r
      /\ \A u \in User : userLock'[u] = userLock[u] /\ userLock'[u] # r
  BY <1>2, <1>3, OwnLocks
<1> QED
  BY <1>2, <1>3, <1>5, <1>7, <1>8, <1>9, GoOnSound

LEMMA ProbeSound ==
    ASSUME OrganizationsSound, NEW r \in Request, NEW u \in User, NEW i \in Invitation,
           accept_probe(r, u, i)
    PROVE  OrganizationsSound'
<1> DEFINE values == [Nothing EXCEPT !.user = u, !.org = invitations[i].org,
                                     !.invitation = i, !.probe = invitations[i]]
<1>1. TypeOK /\ RowsBelong
  BY DEF OrganizationsSound
<1>2. /\ pc[r] = "idle" /\ Exists(invitations, i) /\ UNCHANGED <<rows, locks>>
      /\ Continue(r, "accept_organization", values)
      /\ "accept_organization" \in PCs \ {"idle"}
  BY DEF accept_probe, Starts, PCs
<1>3. invitations[i] \in InvitationRow /\ invitations[i].org \in organizations
  BY <1>1, <1>2 DEF TypeOK, Exists, RowsBelong
<1>4. /\ values \in Local /\ values.user = u /\ values.org = invitations[i].org
      /\ values.invitation = i
  BY <1>3 DEF Nothing, Local, InvitationRow, PCs
<1>5. pc'[r] = "accept_organization" /\ local'[r] = values
  BY <1>1, <1>2 DEF Continue, TypeOK
<1>6. LockTypes'
  BY <1>1, <1>2 DEF LockTypes, TypeOK, locks
<1>7. Sound(r)'
  <2>1. Carries(r)'
    BY <1>2, <1>3, <1>4, <1>5 DEF Carries, Stage, Accepting, rows, Exists
  <2>2. Checked(r)'
    BY <1>5 DEF Checked, HoldsOrganization
  <2> QED
    BY <2>1, <2>2 DEF Sound
<1>8. ~HoldsOrganization(r)
  BY <1>2 DEF HoldsOrganization
<1>9. /\ \A o \in Organization : organizationLock'[o] = organizationLock[o] /\ organizationLock'[o] # r
      /\ \A m \in Membership : membershipLock'[m] = membershipLock[m] /\ membershipLock'[m] # r
      /\ \A j \in Invitation : invitationLock'[j] = invitationLock[j] /\ invitationLock'[j] # r
      /\ \A v \in User : userLock'[v] = userLock[v] /\ userLock'[v] # r
  BY <1>2, <1>8, OwnLocks DEF HoldsOrganization, locks
<1> HIDE DEF values
<1> QED
  BY <1>2, <1>4, <1>6, <1>7, <1>9, ContinueSound

LEMMA AcceptOrganizationSound ==
    ASSUME OrganizationsSound, NEW r \in Request, accept_organization(r)
    PROVE  OrganizationsSound'
<1> DEFINE o == local[r].org
<1>1. TypeOK /\ Sound(r)
  BY DEF OrganizationsSound
<1>2. /\ pc[r] = "accept_organization" /\ ~HoldsOrganization(r) /\ local[r] \in Local
      /\ o \in Organization /\ "accept_row" \in PCs \ {"idle"}
  BY <1>1 DEF accept_organization, At, HoldsOrganization, TypeOK, Sound, Carries, PCs
<1>3. /\ UNCHANGED <<rows, membershipLock, invitationLock, userLock>>
      /\ organizationLock[o] \in {NONE, r}
      /\ organizationLock' = [organizationLock EXCEPT ![o] = r]
      /\ Continue(r, "accept_row", local[r])
  BY DEF accept_organization, OrganizationFree, Free, Lock
<1>4. pc'[r] = "accept_row" /\ local'[r] = local[r]
  BY <1>1, <1>3 DEF Continue, TypeOK
<1>5. LockTypes'
  BY <1>1, <1>3 DEF LockTypes, TypeOK
<1>6. Sound(r)'
  <2>1. Carries(r)'
    BY <1>1, <1>2, <1>3, <1>4 DEF Sound, Carries, Stage, Accepting, rows, Exists
  <2>2. Checked(r)'
    BY <1>1, <1>2, <1>3, <1>4 DEF Checked, TypeOK
  <2> QED
    BY <2>1, <2>2 DEF Sound
<1>7. \A p \in Organization :
        /\ organizationLock'[p] # organizationLock[p] =>
               organizationLock[p] = NONE /\ organizationLock'[p] = r
        /\ organizationLock'[p] = r => o = p
  BY <1>1, <1>2, <1>3, OwnLocks DEF TypeOK
<1>8. /\ \A m \in Membership : membershipLock'[m] = membershipLock[m] /\ membershipLock'[m] # r
      /\ \A i \in Invitation : invitationLock'[i] = invitationLock[i] /\ invitationLock'[i] # r
      /\ \A v \in User : userLock'[v] = userLock[v] /\ userLock'[v] # r
  BY <1>2, <1>3, OwnLocks DEF HoldsOrganization
<1> QED
  BY <1>2, <1>3, <1>5, <1>6, <1>7, <1>8, ContinueSound

LEMMA AcceptRowSound ==
    ASSUME OrganizationsSound, NEW r \in Request, accept_row(r)
    PROVE  OrganizationsSound'
<1>1. TypeOK /\ Sound(r)
  BY DEF OrganizationsSound
<1>2. /\ pc[r] = "accept_row" /\ HoldsOrganization(r) /\ local[r] \in Local
      /\ local[r].invitation \in Invitation
      /\ "accept_user" \in PCs \ {"idle", "accept_organization"}
  BY <1>1 DEF accept_row, At, HoldsOrganization, TypeOK, Sound, Carries, Accepting, PCs
<1>3. /\ UNCHANGED <<rows, organizationLock, membershipLock, userLock>>
      /\ invitationLock' = [invitationLock EXCEPT ![local[r].invitation] = r]
      /\ Continue(r, "accept_user", local[r])
  BY DEF accept_row, Lock
<1>4. pc'[r] = "accept_user" /\ local'[r] = local[r]
  BY <1>1, <1>3 DEF Continue, TypeOK
<1>5. LockTypes'
  BY <1>1, <1>3 DEF LockTypes, TypeOK
<1>6. Sound(r)'
  BY <1>1, <1>2, <1>3, <1>4
  DEF Sound, Carries, Checked, HoldsOrganization, Stage, Accepting, rows, Exists
<1>7. /\ \A m \in Membership : membershipLock'[m] = membershipLock[m]
      /\ \A u \in User : userLock'[u] = userLock[u] /\ userLock'[u] # r
      /\ \A i \in Invitation :
            /\ invitationLock'[i] \in {invitationLock[i], r}
            /\ invitationLock'[i] = r => local[r].invitation = i
  BY <1>1, <1>2, <1>3, OwnLocks DEF TypeOK
<1> QED
  BY <1>2, <1>3, <1>5, <1>6, <1>7, GoOnSound

LEMMA AcceptUserSound ==
    ASSUME OrganizationsSound, NEW r \in Request, accept_user(r)
    PROVE  OrganizationsSound'
<1>1. TypeOK /\ Sound(r)
  BY DEF OrganizationsSound
<1>2. /\ pc[r] = "accept_user" /\ HoldsOrganization(r) /\ local[r] \in Local
      /\ local[r].user \in User
      /\ "join" \in PCs \ {"idle", "accept_organization"}
  BY <1>1 DEF accept_user, At, HoldsOrganization, TypeOK, Sound, Carries, PCs
<1>3. /\ UNCHANGED <<rows, organizationLock, membershipLock, invitationLock>>
      /\ userLock' = [userLock EXCEPT ![local[r].user] = r]
      /\ Continue(r, "join", local[r])
  BY DEF accept_user, Lock
<1>4. pc'[r] = "join" /\ local'[r] = local[r]
  BY <1>1, <1>3 DEF Continue, TypeOK
<1>5. LockTypes'
  BY <1>1, <1>3 DEF LockTypes, TypeOK
<1>6. Sound(r)'
  BY <1>1, <1>2, <1>3, <1>4
  DEF Sound, Carries, Checked, HoldsOrganization, Stage, Accepting, rows, Exists
<1>7. /\ \A m \in Membership : membershipLock'[m] = membershipLock[m]
      /\ \A u \in User :
            /\ userLock'[u] \in {userLock[u], r}
            /\ userLock'[u] = r => local[r].user = u
      /\ \A i \in Invitation :
            /\ invitationLock'[i] = invitationLock[i]
            /\ invitationLock'[i] = r => local[r].invitation = i
  BY <1>1, <1>2, <1>3, OwnLocks DEF TypeOK
<1> QED
  BY <1>2, <1>3, <1>5, <1>6, <1>7, GoOnSound

----------------------------------------------------------------------------
(* Steps that write *)

\* A role change or revocation gives its target another role or an end, and
\* leaves every other row as it was.
LEMMA ChangeEffect ==
    ASSUME OrganizationsSound, NEW r \in Request, change_write(r)
    PROVE  /\ pc[r] = "write" /\ Finish(r) /\ RowTypes'
           /\ UNCHANGED <<accounts, organizations, invitations>>
           /\ local[r].org \in organizations /\ organizationLock[local[r].org] = r
           /\ TargetAccepted(r) /\ OwnerLeft(r)
           /\ local[r].actor \in ActiveFor(local[r].org, local[r].user)
           /\ local[r].target \in Membership /\ local[r].target \in ActiveIn(local[r].org)
           /\ \A m \in Membership : m # local[r].target => memberships'[m] = memberships[m]
           /\ memberships'[local[r].target] \in MembershipRow
           /\ memberships'[local[r].target].org = local[r].org
           /\ memberships'[local[r].target].user = memberships[local[r].target].user
           /\ \/ memberships'[local[r].target].revoked /\ local[r].new = "revoked"
              \/ /\ ~memberships'[local[r].target].revoked
                 /\ local[r].new \in Role
                 /\ memberships'[local[r].target].role = local[r].new
<1> DEFINE t == local[r].target
<1>1. TypeOK /\ Sound(r)
  BY DEF OrganizationsSound
<1>2. pc[r] = "write" /\ Finish(r) /\ UNCHANGED <<accounts, organizations, invitations>>
  BY DEF change_write, At
<1>3. /\ local[r].org \in organizations /\ organizationLock[local[r].org] = r
      /\ TargetAccepted(r) /\ OwnerLeft(r) /\ t \in Membership
      /\ local[r].new \in Role \cup {"revoked"}
      /\ local[r].actor \in ActiveFor(local[r].org, local[r].user)
  BY <1>1, <1>2 DEF Sound, Carries, Checked, HoldsOrganization, Stage
<1>4. t \in ActiveIn(local[r].org)
  BY <1>3 DEF TargetAccepted
<1>5. /\ memberships[t] \in MembershipRow /\ memberships[t].org = local[r].org
      /\ ~memberships[t].revoked
  BY <1>1, <1>4 DEF TypeOK, ActiveIn, Exists
<1>6. CASE local[r].new = "revoked"
  <2>1. memberships' = [memberships EXCEPT ![t].revoked = TRUE]
    BY <1>6 DEF change_write
  <2>2. /\ \A m \in Membership : m # t => memberships'[m] = memberships[m]
        /\ memberships'[t] = [memberships[t] EXCEPT !.revoked = TRUE]
        /\ memberships' \in [Membership -> MembershipRow \cup {Unissued}]
    BY <1>1, <1>3, <1>5, <2>1 DEF TypeOK, MembershipRow
  <2> QED
    BY <1>1, <1>2, <1>3, <1>4, <1>5, <1>6, <2>2 DEF MembershipRow, RowTypes, TypeOK
<1>7. CASE local[r].new # "revoked"
  <2>1. memberships' = [memberships EXCEPT ![t].role = local[r].new]
    BY <1>7 DEF change_write
  <2>2. /\ \A m \in Membership : m # t => memberships'[m] = memberships[m]
        /\ memberships'[t] = [memberships[t] EXCEPT !.role = local[r].new]
        /\ memberships' \in [Membership -> MembershipRow \cup {Unissued}]
    BY <1>1, <1>3, <1>5, <1>7, <2>1 DEF TypeOK, MembershipRow
  <2> QED
    BY <1>1, <1>2, <1>3, <1>4, <1>5, <1>7, <2>2 DEF MembershipRow, RowTypes, TypeOK
<1> QED
  BY <1>6, <1>7

LEMMA ChangeSound ==
    ASSUME OrganizationsSound, NEW r \in Request, change_write(r)
    PROVE  OrganizationsSound'
<1> DEFINE t == local[r].target
           o == local[r].org
<1>1. /\ RowsBelong /\ EveryOrganizationHasAnOwner /\ OneActiveMembership /\ OneLiveInvitation
      /\ TypeOK
  BY DEF OrganizationsSound
<1>2. /\ Exists(memberships, t) /\ memberships[t].org = o /\ ~memberships[t].revoked
      /\ Exists(memberships', t)
  BY ChangeEffect, OrganizationAssumption DEF ActiveIn, Exists
<1>3. RowsKept(r)
  BY <1>2, ChangeEffect DEF RowsKept, Exists
<1>4. RowsBelong'
  BY <1>1, <1>2, ChangeEffect DEF RowsBelong, Exists
<1>5. EveryOrganizationHasAnOwner'
  <2> SUFFICES ASSUME NEW p \in organizations
               PROVE  \E m \in Membership :
                        /\ Exists(memberships', m) /\ memberships'[m].org = p
                        /\ ~memberships'[m].revoked /\ memberships'[m].role = "owner"
    BY ChangeEffect DEF EveryOrganizationHasAnOwner, ActiveOwners, ActiveIn, Exists
  <2>1. PICK m \in Membership : m \in ActiveOwners(p)
    BY <1>1 DEF EveryOrganizationHasAnOwner, ActiveOwners, ActiveIn
  <2>2. CASE m # t
    BY <2>1, <2>2, ChangeEffect DEF ActiveOwners, ActiveIn, Exists
  <2>3. CASE m = t
    <3>1. p = o /\ memberships[t].role = "owner"
      BY <1>2, <2>1, <2>3 DEF ActiveOwners, ActiveIn
    <3>2. PICK n \in ActiveOwners(o) : n # t
      BY <3>1, ChangeEffect DEF OwnerLeft
    <3> QED
      BY <3>1, <3>2, ChangeEffect DEF ActiveOwners, ActiveIn, Exists
  <2> QED
    BY <2>2, <2>3
<1>6. OneActiveMembership'
  <2> SUFFICES ASSUME NEW p \in Organization, NEW u \in User,
                      NEW m \in ActiveFor(p, u)', NEW n \in ActiveFor(p, u)'
               PROVE  m = n
    BY DEF OneActiveMembership
  <2>1. m \in ActiveFor(p, u) /\ n \in ActiveFor(p, u)
    BY <1>2, ChangeEffect DEF ActiveFor, ActiveIn, Exists
  <2> QED
    BY <1>1, <2>1 DEF OneActiveMembership
<1>7. OneLiveInvitation'
  BY <1>1, ChangeEffect DEF OneLiveInvitation, LiveFor, LiveInvitation
<1> QED
  BY <1>3, <1>4, <1>5, <1>6, <1>7, ChangeEffect, FinishSound

\* The memberships are as they were, and so is what is said of them.
LEMMA SameMemberships ==
    ASSUME OrganizationsSound, UNCHANGED <<organizations, memberships>>
    PROVE  EveryOrganizationHasAnOwner' /\ OneActiveMembership'
BY DEF OrganizationsSound, EveryOrganizationHasAnOwner, OneActiveMembership,
       ActiveOwners, ActiveFor, ActiveIn

\* Invitations only end, or are refreshed in their other fields.
LEMMA InvitationsSound ==
    ASSUME OrganizationsSound, UNCHANGED organizations,
           \A i \in Invitation :
                /\ Exists(invitations, i) <=> Exists(invitations', i)
                /\ Exists(invitations, i) =>
                    /\ invitations'[i].org = invitations[i].org
                    /\ invitations'[i].email = invitations[i].email
                    /\ invitations'[i].state = "live" => invitations[i].state = "live"
    PROVE  OneLiveInvitation' /\ \A i \in Invitation : Exists(invitations', i) =>
                                     invitations'[i].org \in organizations'
<1>1. OneLiveInvitation /\ RowsBelong
  BY DEF OrganizationsSound
<1>2. OneLiveInvitation'
  <2> SUFFICES ASSUME NEW o \in Organization, NEW v \in User,
                      NEW i \in LiveFor(o, v)', NEW j \in LiveFor(o, v)'
               PROVE  i = j
    BY DEF OneLiveInvitation
  <2>1. i \in LiveFor(o, v) /\ j \in LiveFor(o, v)
    BY DEF LiveFor, LiveInvitation, Exists
  <2> QED
    BY <1>1, <2>1 DEF OneLiveInvitation
<1> QED
  BY <1>1, <1>2 DEF RowsBelong

LEMMA RevokeInvitationSound ==
    ASSUME OrganizationsSound, NEW r \in Request, revoke_invitation(r)
    PROVE  OrganizationsSound'
<1> DEFINE i == local[r].invitation
<1>1. TypeOK /\ Sound(r) /\ RowsBelong
  BY DEF OrganizationsSound
<1>2. /\ pc[r] = "uninvite" /\ Finish(r) /\ LiveInvitation(i)
      /\ invitations' = [invitations EXCEPT ![i].state = "invalidated"]
      /\ UNCHANGED <<accounts, organizations, memberships>>
  BY DEF revoke_invitation, At, Revocable
<1>3. i \in Invitation /\ invitations[i] \in InvitationRow
  BY <1>1, <1>2 DEF Sound, Carries, Stage, TypeOK, LiveInvitation, Exists
<1>4. /\ \A j \in Invitation : j # i => invitations'[j] = invitations[j]
      /\ invitations'[i] = [invitations[i] EXCEPT !.state = "invalidated"]
      /\ invitations'[i] \in InvitationRow
      /\ invitations' \in [Invitation -> InvitationRow \cup {Unissued}]
  BY <1>1, <1>2, <1>3 DEF TypeOK, InvitationRow
<1>5. RowTypes'
  BY <1>1, <1>2, <1>4 DEF RowTypes, TypeOK
<1>6. \A j \in Invitation :
        /\ Exists(invitations, j) <=> Exists(invitations', j)
        /\ Exists(invitations, j) =>
            /\ invitations'[j].org = invitations[j].org
            /\ invitations'[j].email = invitations[j].email
            /\ invitations'[j].state = "live" => invitations[j].state = "live"
  BY <1>2, <1>3, <1>4, OrganizationAssumption DEF InvitationRow, LiveInvitation, Exists
<1>7. RowsKept(r)
  BY <1>2, <1>6 DEF RowsKept
<1>8. RowsBelong'
  BY <1>1, <1>2, <1>6, InvitationsSound DEF RowsBelong, Exists
<1> QED
  BY <1>2, <1>5, <1>6, <1>7, <1>8, SameMemberships, InvitationsSound, FinishSound

LEMMA IssueSound ==
    ASSUME OrganizationsSound, NEW r \in Request, issue(r)
    PROVE  OrganizationsSound'
<1> DEFINE o == local[r].org
           v == local[r].email
<1>1. TypeOK /\ Sound(r) /\ RowsBelong /\ OneLiveInvitation
  BY DEF OrganizationsSound
<1>2. /\ pc[r] = "invite" /\ Finish(r) /\ UNCHANGED <<accounts, organizations, memberships>>
      /\ o \in organizations /\ v \in User /\ local[r].new \in {"admin", "member"}
  BY <1>1 DEF issue, At, Sound, Carries, Stage
<1> DEFINE new == [org |-> o, email |-> v, role |-> local[r].new,
                   state |-> "live", expired |-> FALSE]
<1>3. PICK i \in Invitation :
        /\ invitations[i] = Unissued
        /\ invitations' = [invalidate_active_for_email(o, v) EXCEPT ![i] = new]
  BY DEF issue
<1>4. new \in InvitationRow
  BY <1>1, <1>2 DEF InvitationRow, TypeOK
<1>5. \A j \in Invitation : j # i =>
        invitations'[j] = IF j \in LiveFor(o, v)
                          THEN [invitations[j] EXCEPT !.state = "invalidated"]
                          ELSE invitations[j]
  BY <1>3 DEF invalidate_active_for_email
<1>6. invitations'[i] = new
  BY <1>3 DEF invalidate_active_for_email
<1>7. ASSUME NEW j \in LiveFor(o, v)
      PROVE  /\ j \in Invitation /\ j # i /\ Exists(invitations, j)
             /\ invitations[j] \in InvitationRow
             /\ [invitations[j] EXCEPT !.state = "invalidated"] \in InvitationRow
             /\ invitations'[j] = [invitations[j] EXCEPT !.state = "invalidated"]
  <2>1. j \in Invitation /\ j # i /\ Exists(invitations, j)
    BY <1>3 DEF LiveFor, LiveInvitation, Exists
  <2>2. invitations[j] \in InvitationRow
    BY <1>1, <2>1 DEF TypeOK, Exists
  <2> QED
    BY <1>5, <2>1, <2>2 DEF InvitationRow
<1>8. \A j \in Invitation : invitations'[j] \in InvitationRow \cup {Unissued}
  BY <1>1, <1>4, <1>5, <1>6, <1>7 DEF TypeOK
<1>9. RowTypes'
  <2>1. invitations' = [j \in Invitation |-> invitations'[j]]
    BY <1>3 DEF invalidate_active_for_email
  <2> QED
    BY <1>1, <1>2, <1>8, <2>1 DEF RowTypes, TypeOK
<1>10. \A j \in Invitation : Exists(invitations, j) =>
        /\ Exists(invitations', j)
        /\ invitations'[j].org = invitations[j].org
        /\ invitations'[j].email = invitations[j].email
  <2> SUFFICES ASSUME NEW j \in Invitation, Exists(invitations, j)
               PROVE  /\ Exists(invitations', j)
                      /\ invitations'[j].org = invitations[j].org
                      /\ invitations'[j].email = invitations[j].email
    OBVIOUS
  <2>1. j # i /\ invitations[j] \in InvitationRow
    BY <1>1, <1>3 DEF TypeOK, Exists
  <2>2. Unissued \notin InvitationRow
    BY OrganizationAssumption
  <2>3. CASE j \in LiveFor(o, v)
    BY <1>7, <2>1, <2>2, <2>3 DEF InvitationRow, Exists
  <2>4. CASE j \notin LiveFor(o, v)
    BY <1>5, <2>1, <2>4 DEF Exists
  <2> QED
    BY <2>3, <2>4
<1>11. RowsKept(r)
  BY <1>2, <1>10 DEF RowsKept
<1>12. RowsBelong'
  <2>1. ASSUME NEW j \in Invitation, Exists(invitations', j)
        PROVE  invitations'[j].org \in organizations
    <3>1. CASE j = i
      BY <1>2, <1>6, <3>1
    <3>2. CASE j # i
      <4>1. Exists(invitations, j)
        BY <1>5, <1>7, <2>1, <3>2 DEF Exists
      <4> QED
        BY <1>1, <1>10, <4>1 DEF RowsBelong
    <3> QED
      BY <3>1, <3>2
  <2> QED
    BY <1>1, <1>2, <2>1 DEF RowsBelong, Exists
<1>13. OneLiveInvitation'
  <2>1. ASSUME NEW j \in Invitation, j # i, LiveInvitation(j)'
        PROVE  /\ LiveInvitation(j) /\ j \notin LiveFor(o, v)
               /\ invitations'[j] = invitations[j]
    <3>1. j \notin LiveFor(o, v)
      BY <1>7, <2>1 DEF LiveInvitation, InvitationRow
    <3> QED
      BY <1>5, <2>1, <3>1 DEF LiveInvitation, Exists
  <2> SUFFICES ASSUME NEW p \in Organization, NEW w \in User,
                      NEW j \in LiveFor(p, w)', NEW k \in LiveFor(p, w)'
               PROVE  j = k
    BY DEF OneLiveInvitation
  <2>2. /\ j \in Invitation /\ LiveInvitation(j)'
        /\ invitations'[j].org = p /\ invitations'[j].email = w
        /\ k \in Invitation /\ LiveInvitation(k)'
        /\ invitations'[k].org = p /\ invitations'[k].email = w
    BY DEF LiveFor
  <2>3. CASE j # i /\ k # i
    BY <1>1, <2>1, <2>2, <2>3 DEF OneLiveInvitation, LiveFor
  <2>4. CASE j = i /\ k # i
    BY <1>6, <2>1, <2>2, <2>4 DEF LiveFor
  <2>5. CASE j # i /\ k = i
    BY <1>6, <2>1, <2>2, <2>5 DEF LiveFor
  <2> QED
    BY <2>3, <2>4, <2>5
<1> QED
  BY <1>2, <1>9, <1>11, <1>12, <1>13, SameMemberships, FinishSound

\* Request r adds membership m, for an account that had none there, and marks its
\* invitation.
Joins(r, m) ==
    LET o == local[r].org
        u == local[r].user
        i == local[r].invitation IN
    /\ pc[r] = "join" /\ Finish(r) /\ RowTypes'
    /\ UNCHANGED <<accounts, organizations>>
    /\ o \in organizations /\ organizationLock[o] = r
    /\ u \in User /\ accounts[u] = "active" /\ ActiveFor(o, u) = {}
    /\ i \in Invitation /\ LiveInvitation(i) /\ invitations[i] \in InvitationRow
    /\ ~invitations[i].expired
    /\ invitations[i].org = o /\ invitations[i].email = u
    /\ invitations[i].role \in {"admin", "member"}
    /\ memberships[m] = Unissued
    /\ memberships'[m] = [org |-> o, user |-> u, revoked |-> FALSE,
                          role |-> invitations[i].role]
    /\ \A n \in Membership : n # m => memberships'[n] = memberships[n]
    /\ invitations'[i] = [invitations[i] EXCEPT !.state = "accepted"]
    /\ \A j \in Invitation : j # i => invitations'[j] = invitations[j]

LEMMA JoinEffect ==
    ASSUME OrganizationsSound, NEW r \in Request, join(r)
    PROVE  \E m \in Membership : Joins(r, m)
<1> DEFINE i == local[r].invitation
<1>1. TypeOK /\ Sound(r)
  BY DEF OrganizationsSound
<1>2. /\ pc[r] = "join" /\ Finish(r) /\ Acceptable(r)
      /\ UNCHANGED <<accounts, organizations>>
      /\ invitations' = [invitations EXCEPT ![i].state = "accepted"]
  BY DEF join, At
<1>3. /\ local[r].org \in organizations /\ organizationLock[local[r].org] = r
      /\ local[r].user \in User /\ i \in Invitation /\ Exists(invitations, i)
      /\ invitations[i].org = local[r].org
  BY <1>1, <1>2 DEF Sound, Carries, Checked, HoldsOrganization, Accepting
<1>4. invitations[i] \in InvitationRow
  BY <1>1, <1>3 DEF TypeOK, Exists
<1>5. /\ LiveInvitation(i) /\ ~invitations[i].expired
      /\ invitations[i].email = local[r].user
      /\ accounts[local[r].user] = "active"
      /\ ActiveFor(local[r].org, local[r].user) = {}
  BY <1>2, <1>3 DEF Acceptable, get_by_token_hash_for_update, LiveInvitation
<1>6. PICK m \in Membership :
        /\ memberships[m] = Unissued
        /\ memberships' = [memberships EXCEPT ![m] =
               [org |-> local[r].org, user |-> local[r].user, revoked |-> FALSE,
                role |-> invitations[i].role]]
  BY DEF join, get_by_token_hash_for_update
<1>7. /\ invitations'[i] = [invitations[i] EXCEPT !.state = "accepted"]
      /\ \A j \in Invitation : j # i => invitations'[j] = invitations[j]
      /\ invitations' \in [Invitation -> InvitationRow \cup {Unissued}]
  BY <1>1, <1>2, <1>3, <1>4 DEF TypeOK, InvitationRow
<1>8. /\ invitations[i].role \in {"admin", "member"} /\ local[r].org \in Organization
      /\ memberships' \in [Membership -> MembershipRow \cup {Unissued}]
  BY <1>1, <1>3, <1>4, <1>6 DEF TypeOK, InvitationRow, MembershipRow, Role
<1>9. RowTypes'
  BY <1>1, <1>2, <1>7, <1>8 DEF RowTypes, TypeOK
<1> QED
  BY <1>1, <1>2, <1>3, <1>4, <1>5, <1>6, <1>7, <1>8, <1>9 DEF TypeOK, Joins

\* A new membership of an account that had none in the organization.
LEMMA NewMembership ==
    ASSUME OrganizationsSound, NEW o \in Organization, NEW u \in User,
           NEW m \in Membership, memberships[m] = Unissued,
           ActiveFor(o, u) = {},
           Exists(memberships', m), memberships'[m].org = o, memberships'[m].user = u,
           ~memberships'[m].revoked,
           \A n \in Membership : n # m => memberships'[n] = memberships[n],
           organizations' = organizations \cup {o},
           o \in organizations \/ memberships'[m].role = "owner"
    PROVE  EveryOrganizationHasAnOwner' /\ OneActiveMembership'
<1>1. EveryOrganizationHasAnOwner /\ OneActiveMembership
  BY DEF OrganizationsSound
<1>2. EveryOrganizationHasAnOwner'
  <2> SUFFICES ASSUME NEW p \in organizations'
               PROVE  \E n \in Membership :
                        /\ Exists(memberships', n) /\ memberships'[n].org = p
                        /\ ~memberships'[n].revoked /\ memberships'[n].role = "owner"
    BY DEF EveryOrganizationHasAnOwner, ActiveOwners, ActiveIn, Exists
  <2>1. CASE p \in organizations
    <3>1. PICK n \in Membership : n \in ActiveOwners(p)
      BY <1>1, <2>1 DEF EveryOrganizationHasAnOwner, ActiveOwners, ActiveIn
    <3> QED
      BY <3>1 DEF ActiveOwners, ActiveIn, Exists
  <2>2. CASE p \notin organizations
    BY <2>2
  <2> QED
    BY <2>1, <2>2
<1>3. OneActiveMembership'
  <2> SUFFICES ASSUME NEW p \in Organization, NEW w \in User,
                      NEW n \in ActiveFor(p, w)', NEW k \in ActiveFor(p, w)'
               PROVE  n = k
    BY DEF OneActiveMembership
  <2>1. \A l \in ActiveFor(p, w)' : /\ l \in Membership
                                    /\ l # m => l \in ActiveFor(p, w)
                                    /\ l = m => p = o /\ w = u
    BY DEF ActiveFor, ActiveIn, Exists
  <2> QED
    BY <1>1, <2>1 DEF OneActiveMembership
<1> QED
  BY <1>2, <1>3

LEMMA JoinSound ==
    ASSUME OrganizationsSound, NEW r \in Request, join(r)
    PROVE  OrganizationsSound'
<1> DEFINE i == local[r].invitation
<1>1. TypeOK /\ RowsBelong
  BY DEF OrganizationsSound
<1>2. PICK m \in Membership : Joins(r, m)
  BY JoinEffect
<1>3. memberships'[m] \in MembershipRow /\ Exists(memberships', m)
  <2>1. local[r].org \in Organization /\ invitations[i].role \in Role
    BY <1>1, <1>2 DEF TypeOK, Role, Joins
  <2>2. memberships'[m] \in MembershipRow
    BY <1>2, <2>1 DEF MembershipRow, Joins
  <2>3. Unissued \notin MembershipRow
    BY OrganizationAssumption
  <2> QED
    BY <2>2, <2>3 DEF Exists
<1>4. EveryOrganizationHasAnOwner' /\ OneActiveMembership'
  <2>1. organizations' = organizations \cup {local[r].org} /\ local[r].org \in Organization
    BY <1>1, <1>2 DEF TypeOK, Joins
  <2>2. /\ memberships'[m].org = local[r].org /\ memberships'[m].user = local[r].user
        /\ ~memberships'[m].revoked
    BY <1>2 DEF Joins
  <2> QED
    BY <1>2, <1>3, <2>1, <2>2, NewMembership DEF Joins
<1>5. \A j \in Invitation :
        /\ Exists(invitations, j) <=> Exists(invitations', j)
        /\ Exists(invitations, j) =>
            /\ invitations'[j].org = invitations[j].org
            /\ invitations'[j].email = invitations[j].email
            /\ invitations'[j].state = "live" => invitations[j].state = "live"
  BY <1>2, OrganizationAssumption DEF InvitationRow, LiveInvitation, Exists, Joins
<1>6. RowsKept(r)
  BY <1>2, <1>5 DEF RowsKept, Exists, Joins
<1>7. RowsBelong'
  BY <1>1, <1>2, <1>5, InvitationsSound DEF RowsBelong, Exists, Joins
<1> QED
  BY <1>2, <1>4, <1>5, <1>6, <1>7, InvitationsSound, FinishSound DEF Joins

LEMMA CreateEffect ==
    ASSUME OrganizationsSound, NEW r \in Request, NEW u \in User, NEW o \in Organization,
           NEW m \in Membership, create(r, u, o, m)
    PROVE  /\ UNCHANGED <<accounts, invitations, locks, pc, local>> /\ RowTypes'
           /\ o \notin organizations /\ organizations' = organizations \cup {o}
           /\ memberships[m] = Unissued
           /\ memberships'[m] = [org |-> o, user |-> u, role |-> "owner", revoked |-> FALSE]
           /\ memberships'[m] \in MembershipRow /\ Exists(memberships', m)
           /\ \A n \in Membership : n # m => memberships'[n] = memberships[n]
           /\ \A w \in User : ActiveFor(o, w) = {}
<1>1. TypeOK /\ RowsBelong
  BY DEF OrganizationsSound
<1>2. /\ UNCHANGED <<accounts, invitations, locks, pc, local>>
      /\ o \notin organizations /\ organizations' = organizations \cup {o}
      /\ memberships[m] = Unissued
      /\ memberships' = [memberships EXCEPT ![m] =
             [org |-> o, user |-> u, role |-> "owner", revoked |-> FALSE]]
  BY DEF create
<1> DEFINE new == [org |-> o, user |-> u, role |-> "owner", revoked |-> FALSE]
<1>3. new \in MembershipRow
  BY DEF MembershipRow, Role
<1>4. memberships'[m] = new /\ \A n \in Membership : n # m => memberships'[n] = memberships[n]
  BY <1>1, <1>2 DEF TypeOK
<1>5. Exists(memberships', m)
  BY <1>3, <1>4, OrganizationAssumption DEF Exists
<1>6. RowTypes'
  BY <1>1, <1>2, <1>3 DEF RowTypes, TypeOK
<1>7. \A w \in User : ActiveFor(o, w) = {}
  BY <1>1, <1>2 DEF RowsBelong, ActiveFor, ActiveIn
<1> QED
  BY <1>2, <1>3, <1>4, <1>5, <1>6, <1>7

LEMMA CreateSound ==
    ASSUME OrganizationsSound, NEW r \in Request, NEW u \in User, NEW o \in Organization,
           NEW m \in Membership, create(r, u, o, m)
    PROVE  OrganizationsSound'
<1>1. RowsBelong /\ OneLiveInvitation
  BY DEF OrganizationsSound
<1>2. /\ UNCHANGED <<accounts, invitations, locks, pc, local>> /\ RowTypes'
      /\ o \notin organizations /\ organizations' = organizations \cup {o}
      /\ memberships[m] = Unissued
      /\ memberships'[m] = [org |-> o, user |-> u, role |-> "owner", revoked |-> FALSE]
      /\ memberships'[m] \in MembershipRow /\ Exists(memberships', m)
      /\ \A n \in Membership : n # m => memberships'[n] = memberships[n]
      /\ \A w \in User : ActiveFor(o, w) = {}
  BY CreateEffect
<1>3. EveryOrganizationHasAnOwner' /\ OneActiveMembership'
  <2>1. /\ memberships'[m].org = o /\ memberships'[m].user = u
        /\ ~memberships'[m].revoked /\ memberships'[m].role = "owner"
    BY <1>2
  <2> QED
    BY <1>2, <2>1, NewMembership
<1>4. RowsKept(NONE)
  BY <1>1, <1>2 DEF RowsKept, Exists, RowsBelong
<1>5. RowsBelong'
  BY <1>1, <1>2 DEF RowsBelong, Exists
<1>6. OneLiveInvitation'
  BY <1>1, <1>2 DEF OneLiveInvitation, LiveFor, LiveInvitation
<1> QED
  BY <1>2, <1>3, <1>4, <1>5, <1>6, QuietSound

LEMMA AnonymizeSound ==
    ASSUME OrganizationsSound, NEW u \in User, anonymize(u)
    PROVE  OrganizationsSound'
<1>1. TypeOK /\ RowsBelong /\ OneLiveInvitation
  BY DEF OrganizationsSound
<1>2. /\ accounts' = [accounts EXCEPT ![u] = "anonymized"]
      /\ UNCHANGED <<organizations, memberships, invitations, locks, pc, local>>
  BY DEF anonymize
<1>3. RowTypes'
  BY <1>1, <1>2 DEF RowTypes, TypeOK
<1>4. RowsKept(NONE) /\ RowsBelong' /\ OneLiveInvitation'
  BY <1>1, <1>2 DEF RowsKept, RowsBelong, OneLiveInvitation, LiveFor, LiveInvitation
<1> QED
  BY <1>2, <1>3, <1>4, SameMemberships, QuietSound

LEMMA ExpirySound ==
    ASSUME OrganizationsSound, NEW i \in Invitation, invitation_expires(i)
    PROVE  OrganizationsSound'
<1>1. TypeOK /\ RowsBelong
  BY DEF OrganizationsSound
<1>2. /\ invitations' = [invitations EXCEPT ![i].expired = TRUE] /\ LiveInvitation(i)
      /\ UNCHANGED <<accounts, organizations, memberships, locks, pc, local>>
  BY DEF invitation_expires
<1>3. invitations[i] \in InvitationRow
  BY <1>1, <1>2 DEF TypeOK, LiveInvitation, Exists
<1>4. /\ \A j \in Invitation : j # i => invitations'[j] = invitations[j]
      /\ invitations'[i] = [invitations[i] EXCEPT !.expired = TRUE]
      /\ invitations'[i] \in InvitationRow
      /\ invitations' \in [Invitation -> InvitationRow \cup {Unissued}]
  BY <1>1, <1>2, <1>3 DEF TypeOK, InvitationRow
<1>5. RowTypes'
  BY <1>1, <1>2, <1>4 DEF RowTypes, TypeOK
<1>6. \A j \in Invitation :
        /\ Exists(invitations, j) <=> Exists(invitations', j)
        /\ Exists(invitations, j) =>
            /\ invitations'[j].org = invitations[j].org
            /\ invitations'[j].email = invitations[j].email
            /\ invitations'[j].state = "live" => invitations[j].state = "live"
  BY <1>2, <1>3, <1>4, OrganizationAssumption DEF InvitationRow, LiveInvitation, Exists
<1>7. RowsKept(NONE)
  BY <1>2, <1>6 DEF RowsKept
<1>8. RowsBelong'
  BY <1>1, <1>2, <1>6, InvitationsSound DEF RowsBelong, Exists
<1> QED
  BY <1>2, <1>5, <1>6, <1>7, <1>8, SameMemberships, InvitationsSound, QuietSound

----------------------------------------------------------------------------
(* The invariant *)

LEMMA InitSound == Init => OrganizationsSound
<1> SUFFICES ASSUME Init PROVE OrganizationsSound
  OBVIOUS
<1> USE DEF Init
<1>1. NONE \notin Request /\ Nothing \in Local /\ "idle" \in PCs
  BY OrganizationAssumption DEF Nothing, Local, PCs
<1>2. TypeOK
  BY <1>1 DEF TypeOK
<1>3. \A r \in Request : Sound(r)
  BY DEF Sound, Carries, Checked, Stage, Accepting, HoldsOrganization
<1>4. LocksAreNested
  BY DEF LocksAreNested
<1>5. RowsBelong /\ EveryOrganizationHasAnOwner /\ OneActiveMembership /\ OneLiveInvitation
  BY DEF RowsBelong, EveryOrganizationHasAnOwner, OneActiveMembership, OneLiveInvitation,
         ActiveFor, ActiveIn, LiveFor, LiveInvitation, Exists
<1> QED
  BY <1>2, <1>3, <1>4, <1>5 DEF OrganizationsSound

LEMMA StutterSound ==
    ASSUME OrganizationsSound, UNCHANGED vars
    PROVE  OrganizationsSound'
<1>1. UNCHANGED rows /\ UNCHANGED <<locks, pc, local>>
  BY DEF vars
<1>2. RowTypes'
  BY <1>1 DEF OrganizationsSound, TypeOK, RowTypes, rows
<1> QED
  BY <1>1, <1>2, SameRows, QuietSound

LEMMA MembersStartSound ==
    ASSUME OrganizationsSound, NEW r \in Request, MembersStart(r)
    PROVE  OrganizationsSound'
<1>1. PICK u \in User, o \in Organization :
        \/ \E m \in Membership : create(r, u, o, m)
        \/ list_start(r, u, o)
        \/ \E m \in Membership, new \in Role \cup {"revoked"} :
                change_start(r, u, o, m, new)
  BY DEF MembersStart
<1>2. ASSUME NEW m \in Membership, create(r, u, o, m) PROVE OrganizationsSound'
  BY <1>2, CreateSound
<1>3. CASE list_start(r, u, o)
  <2> DEFINE values == [Nothing EXCEPT !.next = "list"]
  <2>1. values \in Local /\ values.next = "list"
    BY DEF Nothing, Local, PCs
  <2>2. pc[r] = "idle" /\ lock_organization(r, u, o, values)
    BY <1>3 DEF list_start, Starts
  <2> HIDE DEF values
  <2> QED
    BY <2>1, <2>2, StartSound
<1>4. ASSUME NEW m \in Membership, NEW new \in Role \cup {"revoked"},
             change_start(r, u, o, m, new)
      PROVE  OrganizationsSound'
  <2> DEFINE values == [Nothing EXCEPT !.next = "target", !.target = m, !.new = new]
  <2>1. /\ values \in Local /\ values.next = "target" /\ values.target = m
        /\ values.new = new
    BY DEF Nothing, Local, PCs
  <2>2. pc[r] = "idle" /\ lock_organization(r, u, o, values)
    BY <1>4 DEF change_start, Starts
  <2> HIDE DEF values
  <2> QED
    BY <2>1, <2>2, StartSound
<1> QED
  BY <1>1, <1>2, <1>3, <1>4

LEMMA InvitationsStartSound ==
    ASSUME OrganizationsSound, NEW r \in Request, InvitationsStart(r)
    PROVE  OrganizationsSound'
<1>1. PICK u \in User :
        \/ \E o \in Organization :
            \/ \E v \in User, role \in {"admin", "member"} : invite_start(r, u, o, v, role)
            \/ \E i \in Invitation : uninvite_start(r, u, o, i)
        \/ \E i \in Invitation : accept_probe(r, u, i)
  BY DEF InvitationsStart
<1>2. ASSUME NEW o \in Organization, NEW v \in User, NEW role \in {"admin", "member"},
             invite_start(r, u, o, v, role)
      PROVE  OrganizationsSound'
  <2> DEFINE values == [Nothing EXCEPT !.next = "invite", !.email = v, !.new = role]
  <2>1. /\ values \in Local /\ values.next = "invite" /\ values.email = v
        /\ values.new = role
    BY DEF Nothing, Local, PCs, Role
  <2>2. pc[r] = "idle" /\ lock_organization(r, u, o, values)
    BY <1>2 DEF invite_start, Starts
  <2> HIDE DEF values
  <2> QED
    BY <2>1, <2>2, StartSound
<1>3. ASSUME NEW o \in Organization, NEW i \in Invitation, uninvite_start(r, u, o, i)
      PROVE  OrganizationsSound'
  <2> DEFINE values == [Nothing EXCEPT !.next = "uninvite", !.invitation = i]
  <2>1. values \in Local /\ values.next = "uninvite" /\ values.invitation = i
    BY DEF Nothing, Local, PCs
  <2>2. pc[r] = "idle" /\ lock_organization(r, u, o, values)
    BY <1>3 DEF uninvite_start, Starts
  <2> HIDE DEF values
  <2> QED
    BY <2>1, <2>2, StartSound
<1>4. ASSUME NEW i \in Invitation, accept_probe(r, u, i) PROVE OrganizationsSound'
  BY <1>4, ProbeSound
<1> QED
  BY <1>1, <1>2, <1>3, <1>4

\* The steps of a request that end it without a write.
Rejects(r) ==
    \/ actor_rejected(r) \/ list_active(r) \/ target_rejected(r) \/ last_owner_refused(r)
    \/ issue_rejected(r) \/ revoke_invitation_rejected(r) \/ join_rejected(r) \/ failure(r)

LEMMA RejectsSound ==
    ASSUME OrganizationsSound, NEW r \in Request, Rejects(r)
    PROVE  OrganizationsSound'
<1>1. Finish(r) /\ UNCHANGED rows
  BY DEF Rejects, actor_rejected, list_active, target_rejected, last_owner_refused,
         issue_rejected, revoke_invitation_rejected, join_rejected, failure
<1> QED
  BY <1>1, RejectSound

LEMMA NextSound == OrganizationsSound /\ [Next]_vars => OrganizationsSound'
<1> SUFFICES ASSUME OrganizationsSound, [Next]_vars PROVE OrganizationsSound'
  OBVIOUS
<1>1. ASSUME NEW r \in Request, MembersStep(r) PROVE OrganizationsSound'
  <2>1. CASE lock_actor(r)
    BY <2>1, LockActorSound
  <2>2. CASE lock_target(r)
    BY <2>2, LockTargetSound
  <2>3. CASE protect_last_owner(r)
    BY <2>3, ProtectSound
  <2>4. CASE change_write(r)
    BY <2>4, ChangeSound
  <2>5. CASE \/ actor_rejected(r) \/ list_active(r) \/ target_rejected(r)
             \/ last_owner_refused(r)
    BY <2>5, RejectsSound DEF Rejects
  <2> QED
    BY <1>1, <2>1, <2>2, <2>3, <2>4, <2>5 DEF MembersStep
<1>2. ASSUME NEW r \in Request, InvitationsStep(r) PROVE OrganizationsSound'
  <2>1. CASE issue(r)
    BY <2>1, IssueSound
  <2>2. CASE revoke_invitation(r)
    BY <2>2, RevokeInvitationSound
  <2>3. CASE accept_organization(r)
    BY <2>3, AcceptOrganizationSound
  <2>4. CASE accept_row(r)
    BY <2>4, AcceptRowSound
  <2>5. CASE accept_user(r)
    BY <2>5, AcceptUserSound
  <2>6. CASE join(r)
    BY <2>6, JoinSound
  <2>7. CASE issue_rejected(r) \/ revoke_invitation_rejected(r) \/ join_rejected(r)
    BY <2>7, RejectsSound DEF Rejects
  <2> QED
    BY <1>2, <2>1, <2>2, <2>3, <2>4, <2>5, <2>6, <2>7 DEF InvitationsStep
<1>3. ASSUME NEW r \in Request, failure(r) PROVE OrganizationsSound'
  BY <1>3, RejectsSound DEF Rejects
<1>4. CASE UNCHANGED vars
  BY <1>4, StutterSound
<1> QED
  BY <1>1, <1>2, <1>3, <1>4, MembersStartSound, InvitationsStartSound, AnonymizeSound,
     ExpirySound DEF Next, RequestStep

\* However requests overlap, what a request has checked under the lock of its
\* organization stays so until it ends, and only requests that hold the
\* organization lock its rows.
THEOREM AlwaysSound == Spec => []OrganizationsSound
BY InitSound, NextSound, PTL DEF Spec

\* Every reachable state is well typed.
THEOREM TypeCorrect == Spec => []TypeOK
<1>1. OrganizationsSound => TypeOK
  BY DEF OrganizationsSound
<1> QED
  BY <1>1, AlwaysSound, PTL

\* _protect_last_owner does what it is named for, for any number of concurrent
\* role changes, removals and acceptances: an organization that exists has an
\* active owner.
THEOREM AnOwnerRemains == Spec => []EveryOrganizationHasAnOwner
<1>1. OrganizationsSound => EveryOrganizationHasAnOwner
  BY DEF OrganizationsSound
<1> QED
  BY <1>1, AlwaysSound, PTL

\* The checks made under the lock of the organization keep an account from
\* having two active memberships of it.
THEOREM MembershipsAreUnique == Spec => []OneActiveMembership
<1>1. OrganizationsSound => OneActiveMembership
  BY DEF OrganizationsSound
<1> QED
  BY <1>1, AlwaysSound, PTL

\* invalidate_active_for_email leaves an address at most one live invitation.
THEOREM InvitationsAreUnique == Spec => []OneLiveInvitation
<1>1. OrganizationsSound => OneLiveInvitation
  BY DEF OrganizationsSound
<1> QED
  BY <1>1, AlwaysSound, PTL
==============================================================================

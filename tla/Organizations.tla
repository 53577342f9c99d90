---------------------------- MODULE Organizations ----------------------------
(***************************************************************************)
(* Shared organizations: memberships and invitations changed by concurrent *)
(* requests, the anonymization of accounts, the passing of time and the    *)
(* failures a request can meet.                                            *)
(***************************************************************************)
EXTENDS OrganizationInvitations

\* AccountAnonymizationApplicationService holds the users row to its commit;
\* memberships are left as they are.
anonymize(u) ==
    /\ "anonymize" \in Events
    /\ accounts[u] = "active"
    /\ userLock[u] = NONE
    /\ accounts' = [accounts EXCEPT ![u] = "anonymized"]
    /\ UNCHANGED <<organizations, memberships, invitations, locks, pc, local>>

\* expires_at passes.
invitation_expires(i) ==
    /\ "expiry" \in Events
    /\ LiveInvitation(i)
    /\ ~invitations[i].expired
    /\ invitations' = [invitations EXCEPT ![i].expired = TRUE]
    /\ UNCHANGED <<accounts, organizations, memberships, locks, pc, local>>

\* A database error, or the end of the process: the transaction rolls back.
failure(r) ==
    /\ "failure" \in Events
    /\ pc[r] # "idle"
    /\ Finish(r)
    /\ UNCHANGED rows

----------------------------------------------------------------------------
Init ==
    /\ accounts = [u \in User |-> "active"]
    /\ organizations = {}
    /\ memberships = [m \in Membership |-> Unissued]
    /\ invitations = [i \in Invitation |-> Unissued]
    /\ organizationLock = [o \in Organization |-> NONE]
    /\ membershipLock = [m \in Membership |-> NONE]
    /\ invitationLock = [i \in Invitation |-> NONE]
    /\ userLock = [u \in User |-> NONE]
    /\ pc = [r \in Request |-> "idle"]
    /\ local = [r \in Request |-> Nothing]

\* A request that has begun goes on until it has answered.
RequestStep(r) == MembersStep(r) \/ InvitationsStep(r)

Next ==
    \/ \E r \in Request :
        MembersStart(r) \/ InvitationsStart(r) \/ RequestStep(r) \/ failure(r)
    \/ \E u \in User : anonymize(u)
    \/ \E i \in Invitation : invitation_expires(i)

Spec == Init /\ [][Next]_vars

----------------------------------------------------------------------------
(* Types *)

TypeOK ==
    /\ accounts \in [User -> {"active", "anonymized"}]
    /\ organizations \in SUBSET Organization
    /\ memberships \in [Membership -> MembershipRow \cup {Unissued}]
    /\ invitations \in [Invitation -> InvitationRow \cup {Unissued}]
    /\ organizationLock \in [Organization -> Request \cup {NONE}]
    /\ membershipLock \in [Membership -> Request \cup {NONE}]
    /\ invitationLock \in [Invitation -> Request \cup {NONE}]
    /\ userLock \in [User -> Request \cup {NONE}]
    /\ pc \in [Request -> PCs]
    /\ local \in [Request -> Local]

----------------------------------------------------------------------------
(* Memberships *)

\* An organization that exists has an active owner, however demotions,
\* removals and departures of owners overlap.
EveryOrganizationHasAnOwner == \A o \in organizations : ActiveOwners(o) # {}

\* Nobody is an active member twice, so the partial unique index
\* uq_organization_memberships_active_identity never refuses a row: the checks
\* under the organization's lock suffice.
OneActiveMembership ==
    \A o \in Organization, u \in User : \A m, n \in ActiveFor(o, u) : m = n

\* Request r takes its last step, which writes.
Writes(r) == pc[r] \in {"write", "join", "invite", "uninvite"} /\ pc'[r] = "idle"

\* A membership that exists is changed only for an actor who at that instant is
\* an active member of the same organization: its owner, or its admin removing a
\* member.  What was authorized steps earlier is still so.
AuthorityIsCurrent ==
    [][\A m \in Membership :
        Exists(memberships, m) /\ memberships'[m] # memberships[m] =>
            \E r \in Request : \E a \in ActiveIn(memberships[m].org) :
                /\ Writes(r)
                /\ local[r].actor = a /\ memberships[a].user = local[r].user
                /\ \/ memberships[a].role = "owner"
                   \/ /\ memberships[a].role = "admin"
                      /\ memberships[m].role = "member"
                      /\ memberships'[m].revoked]_vars

RoleOf(o, u) ==
    LET active == ActiveFor(o, u)
    IN IF active = {} THEN "none" ELSE memberships[CHOOSE m \in active : TRUE].role

\* The role of each account in each organization, as its rows say.
roster == [o \in Organization |-> [u \in User |-> RoleOf(o, u)]]

Promise == INSTANCE OwnedOrganization

\* The two services implement OwnedOrganization: whatever overlaps, the roster
\* of an organization changes by one person at a time and keeps an owner.
ImplementsOwnedOrganization == Promise!Spec

----------------------------------------------------------------------------
(* Invitations *)

\* An organization has at most one live invitation per address, however issues
\* overlap: uq_organization_invitations_active_identity never refuses a row.
OneLiveInvitation ==
    \A o \in Organization, v \in User : \A i, j \in LiveFor(o, v) : i = j

\* People join an organization that exists one at a time, each by one live
\* invitation to their own address, which the same step marks accepted; none is
\* accepted otherwise, and one that has ended does not change again.  An
\* acceptance that overlaps a revocation, a reissue, another acceptance or the
\* anonymization of the account comes before it or fails.
InvitationsCountOnce ==
    [][LET joined == {m \in Membership : /\ memberships[m] = Unissued
                                         /\ memberships'[m] # Unissued
                                         /\ memberships'[m].org \in organizations}
           accepted == {i \in Invitation : /\ Exists(invitations, i)
                                           /\ invitations'[i].state = "accepted"
                                           /\ invitations[i].state # "accepted"}
       IN /\ \A m, n \in joined : m = n
          /\ \A m \in joined : \E i \in accepted :
                /\ accepted = {i}
                /\ LiveInvitation(i) /\ ~invitations[i].expired
                /\ invitations[i].org = memberships'[m].org
                /\ invitations[i].role = memberships'[m].role
                /\ invitations[i].email = memberships'[m].user
                /\ accounts[memberships'[m].user] = "active"
          /\ accepted # {} => joined # {}
          /\ \A i \in Invitation : Exists(invitations, i) /\ ~LiveInvitation(i) =>
                invitations'[i] = invitations[i]]_vars

----------------------------------------------------------------------------
(* Locks *)

\* Request q holds a row that the next step of r waits for.
WaitsFor(r, q) ==
    LET o == local[r].org
        Holds(lock, id) == lock[id] = q
    IN /\ r # q
       /\ \/ pc[r] = "actor" /\ \E a \in ActiveFor(o, local[r].user) : Holds(membershipLock, a)
          \/ /\ pc[r] = "target" /\ local[r].target \in ActiveIn(o)
             /\ Holds(membershipLock, local[r].target)
          \/ pc[r] = "owners" /\ \E m \in OwnersToLock(r) : Holds(membershipLock, m)
          \/ /\ pc[r] = "invite"
             /\ \/ \E m \in MembersAt(o, local[r].email) : Holds(membershipLock, m)
                \/ \E i \in LiveFor(o, local[r].email) : Holds(invitationLock, i)
          \/ /\ pc[r] = "uninvite" /\ Revocable(r)
             /\ Holds(invitationLock, local[r].invitation)
          \/ pc[r] = "accept_row" /\ Holds(invitationLock, local[r].invitation)
          \/ pc[r] = "accept_organization" /\ Holds(organizationLock, o)
          \/ pc[r] = "accept_user" /\ Holds(userLock, local[r].user)
          \/ pc[r] = "join" /\ \E m \in ActiveFor(o, local[r].user) : Holds(membershipLock, m)

\* "The organization lock serializes competing owner transitions before
\* membership locks can invert": no requests, two or more, wait for each other's
\* rows in a circle.
NoLockCycle ==
    \A S \in SUBSET Request :
        S # {} => \E r \in S : \A q \in S : ~WaitsFor(r, q)
=============================================================================

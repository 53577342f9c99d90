-------------------------- MODULE OrganizationStore --------------------------
(***************************************************************************)
(* The rows of shared organizations, the row locks of the requests that    *)
(* change them, and the policy that says who may change what.              *)
(*                                                                         *)
(* A request is a transaction, as in IdentityStore: its writes are applied *)
(* in its last step, its row locks are held from the SELECT ... FOR UPDATE *)
(* to that step, and a refusal or a failure ends it with no write.         *)
(***************************************************************************)
EXTENDS Integers, FiniteSets

CONSTANTS
    User,          \* accounts, each with one e-mail address
    Organization,  \* rows of table organizations, kind 'shared', that may be created
    Membership,    \* rows of table organization_memberships that may be created
    Invitation,    \* rows of table organization_invitations that may be created
    Request,       \* HTTP requests that run concurrently
    Events,        \* the endpoints and faults this instance explores
    Unissued,      \* an identifier no row has been given yet
    NONE           \* SQL NULL; also the holder of a free lock

\* A table has finitely many rows.
ASSUME FiniteTables == IsFiniteSet(Membership)

AllEvents == {"create", "list", "change", "invite", "uninvite", "accept",
              "anonymize", "expiry", "failure"}

VARIABLES
    accounts,         \* users.status: "active" or "anonymized"
    organizations,    \* the shared organizations that exist; none is ever blocked
    memberships,      \* organization_memberships
    invitations,      \* organization_invitations
    organizationLock, \* the request that holds each row FOR UPDATE
    membershipLock,
    invitationLock,
    userLock,
    pc,               \* what each request does next; "idle" between requests
    local             \* what each request has read or been sent

rows  == <<accounts, organizations, memberships, invitations>>
locks == <<organizationLock, membershipLock, invitationLock, userLock>>
vars  == <<rows, locks, pc, local>>

----------------------------------------------------------------------------
(* Rows *)

Role == {"owner", "admin", "member"}

MembershipRow == [org: Organization, user: User, role: Role, revoked: BOOLEAN]

InvitationRow == [org: Organization, email: User, role: {"admin", "member"},
                  state: {"live", "accepted", "invalidated"}, expired: BOOLEAN]

ASSUME OrganizationAssumption ==
    /\ Events \subseteq AllEvents
    /\ Unissued \notin MembershipRow \cup InvitationRow
    /\ NONE \notin Organization \cup Membership \cup Invitation \cup User \cup Request
    /\ NONE \notin Role \cup InvitationRow

Exists(table, id) == table[id] # Unissued

\* The memberships that are not revoked.
ActiveIn(o) ==
    {m \in Membership : /\ Exists(memberships, m)
                        /\ memberships[m].org = o
                        /\ ~memberships[m].revoked}

ActiveFor(o, u)    == {m \in ActiveIn(o) : memberships[m].user = u}
ActiveOwners(o)    == {m \in ActiveIn(o) : memberships[m].role = "owner"}

LiveInvitation(i) == Exists(invitations, i) /\ invitations[i].state = "live"

----------------------------------------------------------------------------
(* OrganizationPolicy *)

MemberActions == {"list_memberships"}

\* Mutant: an admin may also remove an admin.
AdminActions_More == MemberActions \cup {"invite_member", "invalidate_invitation",
                                         "remove_member", "remove_admin"}

AdminActions == MemberActions \cup {"invite_member", "invalidate_invitation",
                                    "remove_member"}

is_allowed(role, action) ==
    \/ role = "owner"
    \/ role = "admin" /\ action \in AdminActions
    \/ role = "member" /\ action \in MemberActions

\* The action that turning a membership of role current into new stands for,
\* where new is a role or "revoked"; "none" is refused.
role_action(current, new) ==
    IF new = "revoked" THEN [owner |-> "remove_owner", admin |-> "remove_admin",
                             member |-> "remove_member"][current]
    ELSE IF new = current THEN "none"
    ELSE IF new = "owner" THEN "promote_to_owner"
    ELSE IF current = "owner" THEN "demote_owner"
    ELSE [admin |-> "change_member_to_admin", member |-> "change_admin_to_member"][new]

----------------------------------------------------------------------------
(* Requests and locks *)

PCs == {"idle",
        "actor",                       \* the organization is locked
        "list",                        \* the actor too, and may list
        "target", "owners", "write",   \* change_role and revoke
        "invite", "uninvite",          \* issue and revoke of an invitation
        "accept_organization", "accept_row", "accept_user", "join"}

\* next is what the request does once its actor is locked; new is the role
\* asked for, or "revoked"; probe is the invitation as first read, unlocked.
Local == [user: User \cup {NONE}, org: Organization \cup {NONE}, next: PCs,
          actor: Membership \cup {NONE}, target: Membership \cup {NONE},
          new: Role \cup {"revoked", NONE}, email: User \cup {NONE},
          invitation: Invitation \cup {NONE}, probe: InvitationRow \cup {NONE}]

Nothing == [user |-> NONE, org |-> NONE, next |-> "idle", actor |-> NONE,
            target |-> NONE, new |-> NONE, email |-> NONE, invitation |-> NONE,
            probe |-> NONE]

Lock(lock, id, r) == [lock EXCEPT ![id] = r]

\* Nobody else holds the row.
Free(lock, id, r) == lock[id] \in {NONE, r}

\* Mutant: the transaction is neither committed nor rolled back.
Released_Kept(lock, r) == lock

\* The locks left when request r commits or rolls back.
Released(lock, r) == [id \in DOMAIN lock |-> IF lock[id] = r THEN NONE ELSE lock[id]]

\* Commit or rollback: the transaction ends, its locks go, the reply is sent.
Finish(r) ==
    /\ pc' = [pc EXCEPT ![r] = "idle"]
    /\ local' = [local EXCEPT ![r] = Nothing]
    /\ organizationLock' = Released(organizationLock, r)
    /\ membershipLock' = Released(membershipLock, r)
    /\ invitationLock' = Released(invitationLock, r)
    /\ userLock' = Released(userLock, r)

\* The request goes on to step label with the values it has read so far.
Continue(r, label, values) ==
    /\ pc' = [pc EXCEPT ![r] = label]
    /\ local' = [local EXCEPT ![r] = values]

At(r, label) == pc[r] = label

\* An idle server thread takes a request of an authenticated account.
Starts(r, event, u) == pc[r] = "idle" /\ event \in Events /\ accounts[u] = "active"

\* Mutant: the organization is read without FOR UPDATE.
OrganizationFree_Unlocked(o, r) == TRUE

\* OrganizationRepository.get_by_id_for_update would return row o at once.
OrganizationFree(o, r) == Free(organizationLock, o, r)
============================================================================

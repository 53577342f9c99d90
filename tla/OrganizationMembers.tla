------------------------- MODULE OrganizationMembers -------------------------
(***************************************************************************)
(* Founding a shared organization, and the lifecycle of its memberships:   *)
(* SharedOrganizationApplicationService.create and                         *)
(* OrganizationMembershipApplicationService.                               *)
(***************************************************************************)
EXTENDS OrganizationStore

\* SharedOrganizationApplicationService.create: the actor's users row is
\* locked, and the organization written with its first owner in one commit.
\* The first workspace of the same commit and a slug already in use, which
\* writes nothing, are left out.
create(r, u, o, m) ==
    /\ Starts(r, "create", u)
    /\ Free(userLock, u, r)
    /\ o \notin organizations
    /\ memberships[m] = Unissued
    /\ organizations' = organizations \cup {o}
    /\ memberships' = [memberships EXCEPT ![m] =
           [org |-> o, user |-> u, role |-> "owner", revoked |-> FALSE]]
    /\ UNCHANGED <<accounts, invitations, locks, pc, local>>

----------------------------------------------------------------------------
(* What the membership and the invitation service begin with *)

\* The organization is locked.  values is what the request was sent.
lock_organization(r, u, o, values) ==
    /\ o \in organizations
    /\ OrganizationFree(o, r)
    /\ organizationLock' = Lock(organizationLock, o, r)
    /\ Continue(r, "actor", [values EXCEPT !.user = u, !.org = o])
    /\ UNCHANGED <<rows, membershipLock, invitationLock, userLock>>

\* What the policy is asked before the request goes on: nothing yet for a
\* membership change, whose action depends on the target.
MayGoOn(role, next) ==
    CASE next = "list"     -> is_allowed(role, "list_memberships")
      [] next = "invite"   -> is_allowed(role, "invite_member")
      [] next = "uninvite" -> is_allowed(role, "invalidate_invitation")
      [] OTHER             -> TRUE

\* The actor's active membership is locked and gives the context.
lock_actor(r) ==
    /\ At(r, "actor")
    /\ \E a \in ActiveFor(local[r].org, local[r].user) :
        /\ Free(membershipLock, a, r)
        /\ MayGoOn(memberships[a].role, local[r].next)
        /\ membershipLock' = Lock(membershipLock, a, r)
        /\ Continue(r, local[r].next, [local[r] EXCEPT !.actor = a])
    /\ UNCHANGED <<rows, organizationLock, invitationLock, userLock>>

\* The actor has no active membership, or not the role for it.  The invitation
\* service asks the policy before it locks the membership.
actor_rejected(r) ==
    /\ At(r, "actor")
    /\ \A a \in ActiveFor(local[r].org, local[r].user) :
        /\ local[r].next = "list" => Free(membershipLock, a, r)
        /\ ~MayGoOn(memberships[a].role, local[r].next)
    /\ Finish(r)
    /\ UNCHANGED rows

----------------------------------------------------------------------------
(* OrganizationMembershipApplicationService *)

list_start(r, u, o) ==
    /\ Starts(r, "list", u)
    /\ lock_organization(r, u, o, [Nothing EXCEPT !.next = "list"])

\* list_active: the active memberships are read and the session is closed.
list_active(r) ==
    /\ At(r, "list")
    /\ Finish(r)
    /\ UNCHANGED rows

\* change_role, or revoke when new is "revoked", of any membership the caller
\* knows of.
change_start(r, u, o, m, new) ==
    /\ Starts(r, "change", u)
    /\ Exists(memberships, m)
    /\ lock_organization(r, u, o,
           [Nothing EXCEPT !.next = "target", !.target = m, !.new = new])

\* The target is an active membership of the organization, and the actor may
\* do to it what is asked.
TargetAccepted(r) ==
    LET m == local[r].target
        action == role_action(memberships[m].role, local[r].new) IN
    /\ m \in ActiveIn(local[r].org)
    /\ action # "none"
    /\ is_allowed(memberships[local[r].actor].role, action)

\* _locked_target, _role_action and _authorize.
lock_target(r) ==
    /\ At(r, "target")
    /\ Free(membershipLock, local[r].target, r)
    /\ TargetAccepted(r)
    /\ membershipLock' = Lock(membershipLock, local[r].target, r)
    /\ Continue(r, "owners", local[r])
    /\ UNCHANGED <<rows, organizationLock, invitationLock, userLock>>

target_rejected(r) ==
    /\ At(r, "target")
    /\ local[r].target \in ActiveIn(local[r].org) =>
            Free(membershipLock, local[r].target, r)
    /\ ~TargetAccepted(r)
    /\ Finish(r)
    /\ UNCHANGED rows

\* The rows list_active_owners_for_update locks: none unless the target is an
\* owner.
OwnersToLock(r) ==
    IF memberships[local[r].target].role = "owner" THEN ActiveOwners(local[r].org) ELSE {}

\* Mutant: one owner is enough to let an owner go.
OwnerRemains_OffByOne(r) ==
    memberships[local[r].target].role = "owner" =>
        Cardinality(ActiveOwners(local[r].org)) >= 1

\* Mutant: count_active_owners counts revoked memberships too.
OwnerRemains_Historical(r) ==
    memberships[local[r].target].role = "owner" =>
        Cardinality({m \in Membership : /\ Exists(memberships, m)
                                        /\ memberships[m].org = local[r].org
                                        /\ memberships[m].role = "owner"}) > 1

\* _protect_last_owner does not raise.
OwnerRemains(r) ==
    memberships[local[r].target].role = "owner" =>
        Cardinality(ActiveOwners(local[r].org)) > 1

\* The active owners are locked and counted.
protect_last_owner(r) ==
    /\ At(r, "owners")
    /\ \A m \in OwnersToLock(r) : Free(membershipLock, m, r)
    /\ OwnerRemains(r)
    /\ membershipLock' = [m \in Membership |-> IF m \in OwnersToLock(r) THEN r
                                               ELSE membershipLock[m]]
    /\ Continue(r, "write", local[r])
    /\ UNCHANGED <<rows, organizationLock, invitationLock, userLock>>

\* LastOrganizationOwnerError.
last_owner_refused(r) ==
    /\ At(r, "owners")
    /\ \A m \in OwnersToLock(r) : Free(membershipLock, m, r)
    /\ ~OwnerRemains(r)
    /\ Finish(r)
    /\ UNCHANGED rows

\* update_role or revoke, and the commit.
change_write(r) ==
    LET m == local[r].target IN
    /\ At(r, "write")
    /\ memberships' = IF local[r].new = "revoked"
                      THEN [memberships EXCEPT ![m].revoked = TRUE]
                      ELSE [memberships EXCEPT ![m].role = local[r].new]
    /\ Finish(r)
    /\ UNCHANGED <<accounts, organizations, invitations>>

MembersStep(r) ==
    \/ lock_actor(r) \/ actor_rejected(r)
    \/ list_active(r)
    \/ lock_target(r) \/ target_rejected(r)
    \/ protect_last_owner(r) \/ last_owner_refused(r) \/ change_write(r)

MembersStart(r) ==
    \E u \in User, o \in Organization :
        \/ \E m \in Membership : create(r, u, o, m)
        \/ list_start(r, u, o)
        \/ \E m \in Membership, new \in Role \cup {"revoked"} :
                change_start(r, u, o, m, new)
============================================================================

----------------------- MODULE OrganizationInvitations -----------------------
(***************************************************************************)
(* Invitations to a shared organization: issued to an e-mail address,      *)
(* accepted by the account that has it, or revoked.                        *)
(* OrganizationInvitationApplicationService.                               *)
(***************************************************************************)
EXTENDS OrganizationMembers

\* The live invitations of address v to organization o.
LiveFor(o, v) == {i \in Invitation : /\ LiveInvitation(i)
                                     /\ invitations[i].org = o
                                     /\ invitations[i].email = v}

\* The identifiers of an instance are bounded: a request that will create a
\* row only starts while there is one for it and for those already under way.
Room(table, makers) ==
    Cardinality({id \in DOMAIN table : table[id] = Unissued}) > Cardinality(makers)
Inviting == {q \in Request : pc[q] # "idle" /\ local[q].next = "invite"}
Joining  == {q \in Request : pc[q] \in {"accept_organization", "accept_row",
                                        "accept_user", "join"}}

----------------------------------------------------------------------------
(* issue *)

invite_start(r, u, o, v, role) ==
    /\ Starts(r, "invite", u)
    /\ Room(invitations, Inviting)
    /\ lock_organization(r, u, o,
           [Nothing EXCEPT !.next = "invite", !.email = v, !.new = role])

\* The active memberships of the account that has address v: an anonymized
\* account has given its address up.
MembersAt(o, v) == IF accounts[v] = "active" THEN ActiveFor(o, v) ELSE {}

\* Mutant: only expired invitations are replaced.
invalidate_active_for_email_Expired(o, v) ==
    [i \in Invitation |-> IF i \in LiveFor(o, v) /\ invitations[i].expired
                          THEN [invitations[i] EXCEPT !.state = "invalidated"]
                          ELSE invitations[i]]

\* OrganizationInvitationRepository.invalidate_active_for_email.
invalidate_active_for_email(o, v) ==
    [i \in Invitation |-> IF i \in LiveFor(o, v)
                          THEN [invitations[i] EXCEPT !.state = "invalidated"]
                          ELSE invitations[i]]

\* The live invitations of the address are replaced by a new one.
issue(r) ==
    LET o == local[r].org
        v == local[r].email IN
    /\ At(r, "invite")
    /\ MembersAt(o, v) = {}
    /\ \A i \in LiveFor(o, v) : Free(invitationLock, i, r)
    /\ \E i \in Invitation :
        /\ invitations[i] = Unissued
        /\ invitations' = [invalidate_active_for_email(o, v) EXCEPT
               ![i] = [org |-> o, email |-> v, role |-> local[r].new,
                       state |-> "live", expired |-> FALSE]]
    /\ Finish(r)
    /\ UNCHANGED <<accounts, organizations, memberships>>

\* The address belongs to a member.
issue_rejected(r) ==
    LET members == MembersAt(local[r].org, local[r].email) IN
    /\ At(r, "invite")
    /\ members # {}
    /\ \A m \in members : Free(membershipLock, m, r)
    /\ Finish(r)
    /\ UNCHANGED rows

----------------------------------------------------------------------------
(* revoke *)

uninvite_start(r, u, o, i) ==
    /\ Starts(r, "uninvite", u)
    /\ Exists(invitations, i)
    /\ lock_organization(r, u, o,
           [Nothing EXCEPT !.next = "uninvite", !.invitation = i])

\* The row is read without a lock: that of the organization stands for it.
Revocable(r) ==
    LET i == local[r].invitation IN
    /\ LiveInvitation(i)
    /\ invitations[i].org = local[r].org
    /\ ~invitations[i].expired

revoke_invitation(r) ==
    /\ At(r, "uninvite")
    /\ Revocable(r)
    /\ Free(invitationLock, local[r].invitation, r)
    /\ invitations' = [invitations EXCEPT ![local[r].invitation].state = "invalidated"]
    /\ Finish(r)
    /\ UNCHANGED <<accounts, organizations, memberships>>

revoke_invitation_rejected(r) ==
    /\ At(r, "uninvite")
    /\ ~Revocable(r)
    /\ Finish(r)
    /\ UNCHANGED rows

----------------------------------------------------------------------------
(* accept *)

\* The invitation of the token is read without a lock, to learn which
\* organization to lock.
accept_probe(r, u, i) ==
    /\ Starts(r, "accept", u)
    /\ Room(memberships, Joining)
    /\ Exists(invitations, i)
    /\ Continue(r, "accept_organization",
                [Nothing EXCEPT !.user = u, !.org = invitations[i].org,
                                !.invitation = i, !.probe = invitations[i]])
    /\ UNCHANGED <<rows, locks>>

accept_organization(r) ==
    /\ At(r, "accept_organization")
    /\ OrganizationFree(local[r].org, r)
    /\ organizationLock' = Lock(organizationLock, local[r].org, r)
    /\ Continue(r, "accept_row", local[r])
    /\ UNCHANGED <<rows, membershipLock, invitationLock, userLock>>

accept_row(r) ==
    /\ At(r, "accept_row")
    /\ Free(invitationLock, local[r].invitation, r)
    /\ invitationLock' = Lock(invitationLock, local[r].invitation, r)
    /\ Continue(r, "accept_user", local[r])
    /\ UNCHANGED <<rows, organizationLock, membershipLock, userLock>>

accept_user(r) ==
    /\ At(r, "accept_user")
    /\ Free(userLock, local[r].user, r)
    /\ userLock' = Lock(userLock, local[r].user, r)
    /\ Continue(r, "join", local[r])
    /\ UNCHANGED <<rows, organizationLock, membershipLock, invitationLock>>

\* Mutant: without populate_existing the locked read returns the object of the
\* first one.
get_by_token_hash_for_update_Probed(r) == local[r].probe

\* The row the locked read returns: populate_existing refreshes the object.
get_by_token_hash_for_update(r) == invitations[local[r].invitation]

\* Mutant: whoever has the token may use it.
Acceptable_Bearer(r) ==
    LET row == get_by_token_hash_for_update(r) IN
    /\ row.state = "live"
    /\ ~row.expired
    /\ accounts[local[r].user] = "active"

\* The invitation is live, has not expired and is for the address of the
\* actor, whose account is active and not a member.
Acceptable(r) ==
    LET row == get_by_token_hash_for_update(r) IN
    /\ row.state = "live"
    /\ ~row.expired
    /\ accounts[local[r].user] = "active"
    /\ row.email = local[r].user
    /\ ActiveFor(local[r].org, local[r].user) = {}

\* The membership is created, the invitation marked, and both committed.
join(r) ==
    /\ At(r, "join")
    /\ Acceptable(r)
    /\ \E m \in Membership :
        /\ memberships[m] = Unissued
        /\ memberships' = [memberships EXCEPT ![m] =
               [org |-> local[r].org, user |-> local[r].user, revoked |-> FALSE,
                role |-> get_by_token_hash_for_update(r).role]]
    /\ invitations' = [invitations EXCEPT ![local[r].invitation].state = "accepted"]
    /\ Finish(r)
    /\ UNCHANGED <<accounts, organizations>>

join_rejected(r) ==
    /\ At(r, "join")
    /\ ~Acceptable(r)
    /\ \A m \in ActiveFor(local[r].org, local[r].user) : Free(membershipLock, m, r)
    /\ Finish(r)
    /\ UNCHANGED rows

InvitationsStep(r) ==
    \/ issue(r) \/ issue_rejected(r)
    \/ revoke_invitation(r) \/ revoke_invitation_rejected(r)
    \/ accept_organization(r) \/ accept_row(r) \/ accept_user(r)
    \/ join(r) \/ join_rejected(r)

InvitationsStart(r) ==
    \E u \in User :
        \/ \E o \in Organization :
            \/ \E v \in User, role \in {"admin", "member"} : invite_start(r, u, o, v, role)
            \/ \E i \in Invitation : uninvite_start(r, u, o, i)
        \/ \E i \in Invitation : accept_probe(r, u, i)
============================================================================

--------------------------- MODULE LifecycleFlows ---------------------------
(***************************************************************************)
(* Registration, e-mail verification, password reset and anonymization:    *)
(* services/registration_service.py, email_verification_, password_reset_  *)
(* and account_anonymization_application_service.py.  E-mail delivery      *)
(* follows the commit and undoes nothing, so it is not a step; a challenge *)
(* whose message was lost is one that nobody confirms.                     *)
(***************************************************************************)
EXTENDS IdentityStore

----------------------------------------------------------------------------
(* RegistrationService.register *)

\* The advisory lock on the e-mail is taken and nobody has the address: user,
\* personal workspace and verification challenge are created and committed.
register(r, u) ==
    /\ Starts(r, "register") /\ RoomForChallenge
    /\ Free(emailLock, u)
    /\ users[u] = Absent
    /\ \E c \in Challenge :
        /\ challenges[c] = Unissued
        /\ challenges' = issue(c, u, "email_verification")
    /\ users' = [users EXCEPT ![u] = Pending]
    /\ UNCHANGED <<sessions, tokens, locks, pc, local>>

\* The address belongs to a pending account, read without a row lock.  Any
\* other account raises RegistrationError.
register_existing(r, u) ==
    /\ Starts(r, "register") /\ RoomForChallenge
    /\ Free(emailLock, u)
    /\ users[u].status = "pending"
    /\ emailLock' = Lock(emailLock, u, r)
    /\ Continue(r, "register_lock", [Nothing EXCEPT !.user = u])
    /\ UNCHANGED <<rows, userLock, sessionLock, challengeLock>>

\* get_by_id_for_update locks the row and returns the object that is already
\* in the session's identity map, so its status is not looked at again; the
\* workspace is read here and must be active (provision_for_user).
register_lock(r) ==
    /\ At(r, "register_lock")
    /\ Free(userLock, local[r].user)
    /\ users[local[r].user].workspace = "active"
    /\ userLock' = Lock(userLock, local[r].user, r)
    /\ Continue(r, "register_issue", local[r])
    /\ UNCHANGED <<rows, sessionLock, challengeLock, emailLock>>

register_rejected(r) ==
    /\ At(r, "register_lock")
    /\ Free(userLock, local[r].user)
    /\ users[local[r].user].workspace # "active"
    /\ Finish(r)
    /\ UNCHANGED rows

\* issue_email_verification and the commit: the UPDATE of the challenges to
\* be replaced waits for a confirmation that has one of them locked.
register_issue(r) ==
    LET u == local[r].user IN
    /\ At(r, "register_issue")
    /\ \A c \in ActiveChallenges(u, "email_verification") : Free(challengeLock, c)
    /\ \E c \in Challenge :
        /\ challenges[c] = Unissued
        /\ challenges' = issue(c, u, "email_verification")
    /\ Finish(r)
    /\ UNCHANGED <<users, sessions, tokens>>

----------------------------------------------------------------------------
(* EmailVerificationApplicationService.confirm *)

\* The challenge row is locked and consumable; otherwise nothing changes.
verify_consume(r, c) ==
    /\ Starts(r, "verify")
    /\ Exists(challenges, c)
    /\ Free(challengeLock, c)
    /\ consumable(c, "email_verification")
    /\ challengeLock' = Lock(challengeLock, c, r)
    /\ Continue(r, "verify_activate",
                [Nothing EXCEPT !.user = challenges[c].user, !.challenge = c])
    /\ UNCHANGED <<rows, userLock, sessionLock, emailLock>>

\* Mutant: the status of the account is not looked at.
VerifyAccepted_Always(r) == TRUE

\* The account still waits for its verification.
VerifyAccepted(r) == users[local[r].user].status = "pending"

\* Then the users row: a pending account becomes active, in one commit with
\* the consumption of the challenge.
verify_activate(r) ==
    /\ At(r, "verify_activate")
    /\ Free(userLock, local[r].user)
    /\ VerifyAccepted(r)
    /\ users' = [users EXCEPT ![local[r].user].status = "active"]
    /\ challenges' = [challenges EXCEPT ![local[r].challenge].state = "used"]
    /\ Finish(r)
    /\ UNCHANGED <<sessions, tokens>>

\* The account is not pending: the consumption is rolled back.
verify_rejected(r) ==
    /\ At(r, "verify_activate")
    /\ Free(userLock, local[r].user)
    /\ ~VerifyAccepted(r)
    /\ Finish(r)
    /\ UNCHANGED rows

----------------------------------------------------------------------------
(* PasswordResetApplicationService *)

\* request: under the lock of an active account, one challenge replaces the
\* others.  Reset challenges are locked only under their user's lock.
reset_request(r, u) ==
    /\ Starts(r, "reset_request") /\ RoomForChallenge
    /\ Free(userLock, u)
    /\ users[u].status = "active"
    /\ \E c \in Challenge :
        /\ challenges[c] = Unissued
        /\ challenges' = issue(c, u, "password_reset")
    /\ UNCHANGED <<users, sessions, tokens, locks, pc, local>>

\* confirm, find_password_reset_user_id: the owner is read without a lock,
\* whatever the state of the challenge.
reset_find(r, c) ==
    /\ Starts(r, "reset_confirm")
    /\ Exists(challenges, c)
    /\ challenges[c].purpose = "password_reset"
    /\ Continue(r, "reset_lock",
                [Nothing EXCEPT !.user = challenges[c].user, !.challenge = c])
    /\ UNCHANGED <<rows, locks>>

\* Mutant: the challenge is trusted as it was when its owner was looked up.
ResetAccepted_Found(r) == users[local[r].user].status = "active"

\* The account is still active and the challenge still consumable.
ResetAccepted(r) ==
    /\ users[local[r].user].status = "active"
    /\ consumable(local[r].challenge, "password_reset")

\* The users row is locked, then the challenge.
reset_lock(r) ==
    /\ At(r, "reset_lock")
    /\ Free(userLock, local[r].user)
    /\ Free(challengeLock, local[r].challenge)
    /\ ResetAccepted(r)
    /\ userLock' = Lock(userLock, local[r].user, r)
    /\ challengeLock' = Lock(challengeLock, local[r].challenge, r)
    /\ Continue(r, "reset_commit", local[r])
    /\ UNCHANGED <<rows, sessionLock, emailLock>>

reset_rejected(r) ==
    /\ At(r, "reset_lock")
    /\ Free(userLock, local[r].user)
    /\ ~ResetAccepted(r)
    /\ Finish(r)
    /\ UNCHANGED rows

\* The password and token_version change, every session of the account and
\* its refresh tokens are revoked, the challenge is used; the UPDATE of the
\* sessions waits for a refresh that has one of them locked.
reset_commit(r) ==
    LET u == local[r].user IN
    /\ At(r, "reset_commit")
    /\ \A s \in SessionsOf(u) : Free(sessionLock, s)
    /\ users' = [users EXCEPT ![u].version = @ + 1]
    /\ sessions' = revoke_all_by_user(u, "password_reset")
    /\ tokens' = revoke_session(SessionsOf(u))
    /\ challenges' = [challenges EXCEPT ![local[r].challenge].state = "used"]
    /\ Finish(r)

----------------------------------------------------------------------------
(* AccountAnonymizationApplicationService.anonymize_account, reached with   *)
(* the principal of AuthFlows                                               *)

\* The session is read again without a lock: not revoked, CSRF pair its own.
SessionAccepted(r) ==
    /\ sessions[local[r].session].revoked = NONE
    /\ sessions[local[r].session].csrf = local[r].csrf

anonymize_check(r) ==
    /\ At(r, "principal")
    /\ "anonymize" \in Events
    /\ SessionAccepted(r)
    /\ Continue(r, "anonymize_lock", local[r])
    /\ UNCHANGED <<rows, locks>>

anonymize_rejected(r) ==
    /\ At(r, "principal")
    /\ "anonymize" \in Events
    /\ ~SessionAccepted(r)
    /\ Finish(r)
    /\ UNCHANGED rows

\* Mutant: the status is not read again under the lock.
StillRegistered_Assumed(u) == TRUE

\* The account, read under its lock, has not been anonymized meanwhile.
StillRegistered(u) == users[u].status # "anonymized"

\* The users row is locked, then the workspace, which is only ever locked by
\* a request that holds its owner's row.
anonymize_lock(r) ==
    /\ At(r, "anonymize_lock")
    /\ Free(userLock, local[r].user)
    /\ StillRegistered(local[r].user)
    /\ userLock' = Lock(userLock, local[r].user, r)
    /\ Continue(r, "anonymize_commit", local[r])
    /\ UNCHANGED <<rows, sessionLock, challengeLock, emailLock>>

\* Somebody else has anonymized the account: nothing is left to do.
anonymize_repeated(r) ==
    /\ At(r, "anonymize_lock")
    /\ Free(userLock, local[r].user)
    /\ ~StillRegistered(local[r].user)
    /\ Finish(r)
    /\ UNCHANGED rows

\* Sessions are revoked and scrubbed, refresh tokens and challenges deleted,
\* the account anonymized and its workspace blocked, in one commit.
anonymize_account(r) ==
    LET u == local[r].user IN
    /\ At(r, "anonymize_commit")
    /\ \A s \in SessionsOf(u) : Free(sessionLock, s)
    /\ \A c \in ChallengesOf(u) : Free(challengeLock, c)
    /\ users' = [users EXCEPT ![u] = [status |-> "anonymized",
                                      version |-> @.version + 1,
                                      workspace |-> "blocked"]]
    /\ sessions' = revoke_and_anonymize_all_by_user(u, "owner_anonymized")
    /\ tokens' = delete_for_sessions(SessionsOf(u))
    /\ challenges' = delete_for_user(u)
    /\ Finish(r)

LifecycleStep(r) ==
    \/ register_lock(r) \/ register_rejected(r) \/ register_issue(r)
    \/ verify_activate(r) \/ verify_rejected(r)
    \/ reset_lock(r) \/ reset_rejected(r) \/ reset_commit(r)
    \/ anonymize_check(r) \/ anonymize_rejected(r)
    \/ anonymize_lock(r) \/ anonymize_repeated(r) \/ anonymize_account(r)

LifecycleStart(r) ==
    \/ \E u \in User : register(r, u) \/ register_existing(r, u) \/ reset_request(r, u)
    \/ \E c \in Challenge : verify_consume(r, c) \/ reset_find(r, c)
=============================================================================

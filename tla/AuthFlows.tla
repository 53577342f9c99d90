----------------------------- MODULE AuthFlows -----------------------------
(***************************************************************************)
(* Login, refresh rotation, the authenticated principal and logout:        *)
(* services/auth_service.py and services/access_token_authenticator.py.    *)
(***************************************************************************)
EXTENDS IdentityStore

----------------------------------------------------------------------------
(* AuthService.login *)

\* IdentityService.verify_credentials: the users row is read without a lock
\* while the password hash is compared.  A wrong password or an account that
\* is not active is refused, and nothing is written.
verify_credentials(r, u) ==
    /\ Starts(r, "login") /\ RoomForSession /\ RoomForToken
    /\ users[u].status = "active"
    /\ Continue(r, "login_open",
                [Nothing EXCEPT !.user = u, !.version = users[u].version])
    /\ UNCHANGED <<rows, locks>>

\* The session, its first refresh token and the commit.  The insert checks the
\* foreign key with FOR KEY SHARE on the users row, so it waits for a request
\* that holds that row FOR UPDATE; it does not look at the row again.
login(r) ==
    /\ At(r, "login_open")
    /\ Free(userLock, local[r].user)
    /\ \E s \in Session, t \in Token :
        /\ sessions[s] = Unissued
        /\ tokens[t] = Unissued
        /\ sessions' = [sessions EXCEPT ![s] =
               [user |-> local[r].user, version |-> local[r].version, csrf |-> t,
                revoked |-> NONE, expired |-> FALSE]]
        /\ tokens' = [tokens EXCEPT ![t] =
               [session |-> s, parent |-> NONE, used |-> FALSE,
                revoked |-> FALSE, reuse |-> FALSE]]
    /\ Finish(r)
    /\ UNCHANGED <<users, challenges>>

----------------------------------------------------------------------------
(* AuthService.refresh *)

\* Mutant: the session row is read without FOR UPDATE.
LockedForRefresh_Unlocked(t) ==
    /\ Exists(tokens, t)
    /\ sessions[tokens[t].session].revoked = NONE
    /\ ~sessions[tokens[t].session].expired

\* get_by_refresh_hash_for_update and the checks before the token's state:
\* the session row of token t is locked, is not revoked and has not expired.
LockedForRefresh(t) ==
    /\ Exists(tokens, t)
    /\ Free(sessionLock, tokens[t].session)
    /\ sessions[tokens[t].session].revoked = NONE
    /\ ~sessions[tokens[t].session].expired

\* A used token is presented: _revoke_compromised_session, committed.
refresh_reuse(r, t) ==
    /\ Starts(r, "refresh")
    /\ LockedForRefresh(t)
    /\ tokens[t].used
    /\ sessions' = revoke(tokens[t].session, "refresh_reuse_detected")
    /\ tokens' = [revoke_session({tokens[t].session}) EXCEPT ![t].reuse = TRUE]
    /\ UNCHANGED <<users, challenges, locks, pc, local>>

\* The token is unused, the CSRF pair is the session's and the token is not
\* revoked: the request keeps the session locked and goes on to the user.
refresh_lock(r, t, csrf) ==
    /\ Starts(r, "refresh") /\ RoomForToken
    /\ LockedForRefresh(t)
    /\ ~tokens[t].used
    /\ csrf = sessions[tokens[t].session].csrf
    /\ ~tokens[t].revoked
    /\ sessionLock' = Lock(sessionLock, tokens[t].session, r)
    /\ Continue(r, "refresh_rotate",
                [Nothing EXCEPT !.session = tokens[t].session, !.token = t])
    /\ UNCHANGED <<rows, userLock, challengeLock, emailLock>>

\* Mutant: the CSRF secret is not renewed.
renewed_Stale(s, t) == sessions

\* Mutant: the rotation also postpones the expiry of the session.
renewed_Sliding(s, t) == [sessions EXCEPT ![s].csrf = t, ![s].expired = FALSE]

\* The session with the CSRF secret issued with token t.
renewed(s, t) == [sessions EXCEPT ![s].csrf = t]

\* The users row is read without a lock and must be active; the successor is
\* written, the token marked used, the CSRF secret renewed, and all committed.
refresh_rotate(r) ==
    /\ At(r, "refresh_rotate")
    /\ users[sessions[local[r].session].user].status = "active"
    /\ \E t \in Token :
        /\ tokens[t] = Unissued
        /\ tokens' = [tokens EXCEPT
               ![local[r].token].used = TRUE,
               ![t] = [session |-> local[r].session, parent |-> local[r].token,
                       used |-> FALSE, revoked |-> FALSE, reuse |-> FALSE]]
        /\ sessions' = renewed(local[r].session, t)
    /\ Finish(r)
    /\ UNCHANGED <<users, challenges>>

\* The account of the session is not active: the refresh is rolled back.
refresh_rejected(r) ==
    /\ At(r, "refresh_rotate")
    /\ users[sessions[local[r].session].user].status # "active"
    /\ Finish(r)
    /\ UNCHANGED rows

----------------------------------------------------------------------------
(* AccessTokenAuthenticator.authenticate, then GET /auth/me or POST         *)
(* /auth/logout; DELETE /auth/me continues in LifecycleFlows                *)

\* The session behind an unexpired access token is read, without a lock.  An
\* access token names its session, user and token_version, and every one
\* issued for a session names the same.  csrf is the pair the browser sent.
\* wasLive only observes: whether the session authenticates at this instant.
authenticate_session(r, s, csrf) ==
    /\ pc[r] = "idle"
    /\ Events \cap {"me", "logout", "anonymize"} # {}
    /\ Exists(sessions, s)
    /\ sessions[s].revoked = NONE
    /\ ~sessions[s].expired
    /\ Continue(r, "auth_user",
                [Nothing EXCEPT !.session = s, !.user = sessions[s].user,
                                !.version = sessions[s].version, !.csrf = csrf,
                                !.wasLive = Authenticates(s)])
    /\ UNCHANGED <<rows, locks>>

\* Mutant: token_version is compared with the session's row only.
UserAccepted_AnyVersion(r) == users[local[r].user].status = "active"

\* The users row, read by a later statement, agrees with the claims.
UserAccepted(r) ==
    /\ users[local[r].user].status = "active"
    /\ users[local[r].user].version = local[r].version

\* The principal is built; the endpoint goes on with it.
authenticate_user(r) ==
    /\ At(r, "auth_user")
    /\ UserAccepted(r)
    /\ Continue(r, "principal", local[r])
    /\ UNCHANGED <<rows, locks>>

\* 401: the user is not active or its token_version has moved on.
authenticate_rejected(r) ==
    /\ At(r, "auth_user")
    /\ ~UserAccepted(r)
    /\ Finish(r)
    /\ UNCHANGED rows

\* GET /auth/me answers from the principal alone.
current_user(r) ==
    /\ At(r, "principal")
    /\ "me" \in Events
    /\ Finish(r)
    /\ UNCHANGED rows

\* What AuthService.logout checks of the session row once it has locked it.
LogoutAccepted(r) ==
    LET row == sessions[local[r].session] IN
    /\ row.user = local[r].user
    /\ row.version = local[r].version
    /\ ~row.expired
    /\ row.csrf = local[r].csrf

\* The session is revoked with its refresh tokens; nothing changes when it
\* already was.
logout(r) ==
    /\ At(r, "principal")
    /\ "logout" \in Events
    /\ Free(sessionLock, local[r].session)
    /\ LogoutAccepted(r)
    /\ IF sessions[local[r].session].revoked = NONE
       THEN /\ sessions' = revoke(local[r].session, "user_logout")
            /\ tokens' = revoke_session({local[r].session})
       ELSE UNCHANGED <<sessions, tokens>>
    /\ Finish(r)
    /\ UNCHANGED <<users, challenges>>

\* 401 or 403: the session has expired, or the CSRF pair is not its own.
logout_rejected(r) ==
    /\ At(r, "principal")
    /\ "logout" \in Events
    /\ Free(sessionLock, local[r].session)
    /\ ~LogoutAccepted(r)
    /\ Finish(r)
    /\ UNCHANGED rows

AuthStep(r) ==
    \/ login(r)
    \/ refresh_rotate(r) \/ refresh_rejected(r)
    \/ authenticate_user(r) \/ authenticate_rejected(r)
    \/ current_user(r) \/ logout(r) \/ logout_rejected(r)

AuthStart(r) ==
    \/ \E u \in User : verify_credentials(r, u)
    \/ \E t \in Token : refresh_reuse(r, t)
    \/ \E t, csrf \in Token : refresh_lock(r, t, csrf)
    \/ \E s \in Session : \E csrf \in TokensOf(s) : authenticate_session(r, s, csrf)
============================================================================

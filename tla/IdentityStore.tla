--------------------------- MODULE IdentityStore ---------------------------
(***************************************************************************)
(* The PostgreSQL rows that the identity services share, the row locks     *)
(* their transactions hold, and the HTTP requests that run them.           *)
(*                                                                         *)
(* A request is one SQLAlchemy Session.  Its uncommitted writes are seen   *)
(* by nobody else, so a model transaction keeps them to itself and applies *)
(* them all in its commit step; what others do see earlier is the rows it  *)
(* has locked (SELECT ... FOR UPDATE), which is what the lock variables    *)
(* record.  A step that needs a row another request has locked is disabled *)
(* until the lock is released, and then reads the committed row: READ      *)
(* COMMITTED re-evaluates a locked row after the wait.  A request that is  *)
(* refused writes nothing and is rolled back: where it was refused at its  *)
(* first look at the database no step is taken, elsewhere it ends with     *)
(* Finish.                                                                 *)
(***************************************************************************)
EXTENDS Integers, FiniteSets

CONSTANTS
    User,        \* rows of table users that may exist (one e-mail address each)
    Session,     \* rows of table auth_sessions that may be created
    Token,       \* rows of table auth_refresh_tokens that may be created
    Challenge,   \* rows of both one-time token tables that may be created
    Request,     \* HTTP requests that run concurrently
    Events,      \* the endpoints and faults this instance explores
    Unissued,    \* an identifier no row has been given yet
    Deleted,     \* the identifier of a deleted row, which is not given again
    NONE         \* SQL NULL; also the holder of a free lock

AllEvents == {"login", "refresh", "me", "logout", "anonymize", "register",
              "verify", "reset_request", "reset_confirm", "expiry", "failure"}

ASSUME FiniteChallenges == IsFiniteSet(Challenge)

ASSUME StoreAssumption ==
    /\ Events \subseteq AllEvents
    /\ NONE \notin User \cup Session \cup Token \cup Challenge \cup Request

VARIABLES
    users,         \* identity rows with the status of their personal workspace
    sessions,      \* auth_sessions
    tokens,        \* auth_refresh_tokens
    challenges,    \* email_verification_tokens and password_reset_tokens
    userLock,      \* the request that holds each users row FOR UPDATE
    sessionLock,   \* the request that holds each auth_sessions row FOR UPDATE
    challengeLock, \* the request that holds each challenge row FOR UPDATE
    emailLock,     \* the holder of the advisory lock on each user's e-mail
    pc,            \* what each request does next; "idle" between requests
    local          \* what each request has read or been sent

rows  == <<users, sessions, tokens, challenges>>
locks == <<userLock, sessionLock, challengeLock, emailLock>>
vars  == <<rows, locks, pc, local>>

----------------------------------------------------------------------------
(* Rows *)

UserStatus == {"absent", "pending", "active", "anonymized"}

UserRow == [status: UserStatus, version: Nat,
            workspace: {"none", "active", "blocked"}]

Absent   == [status |-> "absent", version |-> 1, workspace |-> "none"]
Pending  == [status |-> "pending", version |-> 1, workspace |-> "active"]
Verified == [status |-> "active", version |-> 1, workspace |-> "active"]

\* revoked_at and revocation_reason are written together: NONE or the reason.
Reason == {"user_logout", "refresh_reuse_detected", "password_reset",
           "owner_anonymized"}

\* A CSRF secret is issued with every refresh token and with nothing else:
\* the secret whose hash a session stores is named by that token.
SessionRow == [user: User, version: Nat, csrf: Token \cup {NONE},
               revoked: Reason \cup {NONE}, expired: BOOLEAN]

\* used_at and replaced_by_token_id are written by the same two calls: used.
\* The family is the session: only a login starts one.
TokenRow == [session: Session, parent: Token \cup {NONE}, used: BOOLEAN,
             revoked: BOOLEAN, reuse: BOOLEAN]

Purpose == {"email_verification", "password_reset"}

ChallengeRow == [user: User, purpose: Purpose,
                 state: {"live", "used", "invalidated"}, expired: BOOLEAN]

Exists(table, id) == table[id] \notin {Unissued, Deleted}

ASSUME RowAssumption ==
    /\ Unissued # Deleted
    /\ NONE \notin Reason
    /\ {Unissued, Deleted} \cap (SessionRow \cup TokenRow \cup ChallengeRow) = {}

SessionsOf(u)   == {s \in Session : Exists(sessions, s) /\ sessions[s].user = u}
TokensOf(s)     == {t \in Token : Exists(tokens, t) /\ tokens[t].session = s}
ChallengesOf(u) == {c \in Challenge : Exists(challenges, c) /\ challenges[c].user = u}

\* A refresh token that the rotation would still accept.
LiveToken(t) == Exists(tokens, t) /\ ~tokens[t].used /\ ~tokens[t].revoked

\* A challenge that has been neither consumed nor replaced.
LiveChallenge(c) == Exists(challenges, c) /\ challenges[c].state = "live"

\* What AccessTokenAuthenticator demands of the rows behind an access token
\* of session s: the claims repeat the session's user and token_version.
Authenticates(s) ==
    /\ Exists(sessions, s)
    /\ sessions[s].revoked = NONE
    /\ ~sessions[s].expired
    /\ users[sessions[s].user].status = "active"
    /\ users[sessions[s].user].version = sessions[s].version

----------------------------------------------------------------------------
(* Requests and locks *)

PCs == {"idle",
        "login_open",
        "refresh_rotate",
        "auth_user", "principal", "anonymize_lock", "anonymize_commit",
        "register_lock", "register_issue",
        "verify_activate",
        "reset_lock", "reset_commit"}

Local == [user: User \cup {NONE}, session: Session \cup {NONE},
          token: Token \cup {NONE}, challenge: Challenge \cup {NONE},
          csrf: Token \cup {NONE}, version: Nat, wasLive: BOOLEAN]

Nothing == [user |-> NONE, session |-> NONE, token |-> NONE, challenge |-> NONE,
            csrf |-> NONE, version |-> 0, wasLive |-> FALSE]

Free(lock, id)    == lock[id] = NONE
Lock(lock, id, r) == [lock EXCEPT ![id] = r]

\* Mutant: the transaction is neither committed nor rolled back.
Released_Kept(lock, r) == lock

\* The locks left when request r commits or rolls back.
Released(lock, r) == [id \in DOMAIN lock |-> IF lock[id] = r THEN NONE ELSE lock[id]]

\* Commit or rollback: the transaction ends, its locks go, the reply is sent.
Finish(r) ==
    /\ pc' = [pc EXCEPT ![r] = "idle"]
    /\ local' = [local EXCEPT ![r] = Nothing]
    /\ userLock' = Released(userLock, r)
    /\ sessionLock' = Released(sessionLock, r)
    /\ challengeLock' = Released(challengeLock, r)
    /\ emailLock' = Released(emailLock, r)

\* The request goes on to step label with the values it has read so far.
Continue(r, label, values) ==
    /\ pc' = [pc EXCEPT ![r] = label]
    /\ local' = [local EXCEPT ![r] = values]

\* The identifiers of an instance are bounded: a request that will create a
\* row only starts while there is one for it and for those already under way.
Room(table, labels) ==
    Cardinality({id \in DOMAIN table : table[id] = Unissued})
        > Cardinality({q \in Request : pc[q] \in labels})
RoomForSession   == Room(sessions, {"login_open"})
RoomForToken     == Room(tokens, {"login_open", "refresh_rotate"})
RoomForChallenge == Room(challenges, {"register_lock", "register_issue"})

At(r, label) == pc[r] = label
Starts(r, event) == pc[r] = "idle" /\ event \in Events

----------------------------------------------------------------------------
(* Bulk statements of the repositories, as the table they leave *)

\* Mutant: only the tokens already used are revoked.
revoke_session_Used(ss) ==
    [t \in Token |-> IF Exists(tokens, t) /\ tokens[t].session \in ss /\ tokens[t].used
                     THEN [tokens[t] EXCEPT !.revoked = TRUE] ELSE tokens[t]]

\* RefreshTokenRepository.revoke_session for each of a set of sessions.
revoke_session(ss) ==
    [t \in Token |-> IF Exists(tokens, t) /\ tokens[t].session \in ss
                     THEN [tokens[t] EXCEPT !.revoked = TRUE] ELSE tokens[t]]

\* RefreshTokenRepository.delete_for_sessions.
delete_for_sessions(ss) ==
    [t \in Token |-> IF Exists(tokens, t) /\ tokens[t].session \in ss
                     THEN Deleted ELSE tokens[t]]

\* Mutant: the row is deleted instead of being marked.
revoke_Deleted(s, reason) == [sessions EXCEPT ![s] = Deleted]

\* AuthSessionRepository.revoke: a session already revoked is left alone.
revoke(s, reason) ==
    [sessions EXCEPT ![s].revoked = IF @ = NONE THEN reason ELSE @]

\* Mutant: the filter on the user is lost.
revoke_all_by_user_Everyone(u, reason) ==
    [s \in Session |-> IF Exists(sessions, s) /\ sessions[s].revoked = NONE
                       THEN [sessions[s] EXCEPT !.revoked = reason] ELSE sessions[s]]

\* Mutant: the filter on revoked_at is lost.
revoke_all_by_user_Again(u, reason) ==
    [s \in Session |-> IF s \in SessionsOf(u)
                       THEN [sessions[s] EXCEPT !.revoked = reason] ELSE sessions[s]]

\* AuthSessionRepository.revoke_all_by_user: WHERE revoked_at IS NULL.
revoke_all_by_user(u, reason) ==
    [s \in Session |-> IF s \in SessionsOf(u) /\ sessions[s].revoked = NONE
                       THEN [sessions[s] EXCEPT !.revoked = reason] ELSE sessions[s]]

\* AuthSessionRepository.revoke_and_anonymize_all_by_user: every session of
\* the user, the revoked ones too, and the CSRF secret is overwritten.
revoke_and_anonymize_all_by_user(u, reason) ==
    [s \in Session |-> IF s \in SessionsOf(u)
                       THEN [sessions[s] EXCEPT !.revoked = reason, !.csrf = NONE]
                       ELSE sessions[s]]

\* The challenges that invalidate_active_for_user updates.
ActiveChallenges(u, purpose) ==
    {c \in ChallengesOf(u) : LiveChallenge(c) /\ challenges[c].purpose = purpose}

\* Mutant: the active challenges are not replaced.
issue_Kept(c, u, purpose) ==
    [challenges EXCEPT ![c] = [user |-> u, purpose |-> purpose, state |-> "live",
                               expired |-> FALSE]]

\* LifecycleTokenService._issue, whose caller holds the users row: replace
\* the active challenges of this user and purpose by the new challenge c.
issue(c, u, purpose) ==
    [d \in Challenge |->
        IF d = c THEN [user |-> u, purpose |-> purpose, state |-> "live", expired |-> FALSE]
        ELSE IF d \in ActiveChallenges(u, purpose)
             THEN [challenges[d] EXCEPT !.state = "invalidated"]
             ELSE challenges[d]]

\* LifecycleTokenService._consume accepts the row.
consumable(c, purpose) ==
    LiveChallenge(c) /\ challenges[c].purpose = purpose /\ ~challenges[c].expired

\* delete_for_user on both challenge tables.
delete_for_user(u) ==
    [c \in Challenge |-> IF c \in ChallengesOf(u) THEN Deleted ELSE challenges[c]]
============================================================================

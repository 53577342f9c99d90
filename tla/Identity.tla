------------------------------ MODULE Identity ------------------------------
(***************************************************************************)
(* The identity system: the authentication and account lifecycle endpoints *)
(* run by concurrent requests over one database, the passing of time, and  *)
(* the failures a request can meet.                                        *)
(***************************************************************************)
EXTENDS AuthFlows, LifecycleFlows

----------------------------------------------------------------------------
(* Time, failures and PostgreSQL's deadlock detector *)

\* expires_at passes.  A refresh token outlives the session it belongs to,
\* which was given the same lifetime no later, so it needs no clock.
session_expires(s) ==
    /\ "expiry" \in Events
    /\ Exists(sessions, s)
    /\ ~sessions[s].expired
    /\ sessions' = [sessions EXCEPT ![s].expired = TRUE]
    /\ UNCHANGED <<users, tokens, challenges, locks, pc, local>>

challenge_expires(c) ==
    /\ "expiry" \in Events
    /\ LiveChallenge(c)
    /\ ~challenges[c].expired
    /\ challenges' = [challenges EXCEPT ![c].expired = TRUE]
    /\ UNCHANGED <<users, sessions, tokens, locks, pc, local>>

\* A database error, or the end of the process: the transaction rolls back.
failure(r) ==
    /\ "failure" \in Events
    /\ pc[r] # "idle"
    /\ Finish(r)
    /\ UNCHANGED rows

\* Request q holds a row that the next step of r waits for.
WaitsFor(r, q) ==
    LET u == local[r].user
        Holds(lock, id) == lock[id] = q
    IN /\ r # q
       /\ \/ /\ pc[r] \in {"login_open", "register_lock", "verify_activate",
                           "reset_lock", "anonymize_lock"}
             /\ Holds(userLock, u)
          \/ /\ pc[r] \in {"reset_commit", "anonymize_commit"}
             /\ \E s \in SessionsOf(u) : Holds(sessionLock, s)
          \/ /\ pc[r] = "register_issue"
             /\ \E c \in ActiveChallenges(u, "email_verification") : Holds(challengeLock, c)
          \/ /\ pc[r] = "anonymize_commit"
             /\ \E c \in ChallengesOf(u) : Holds(challengeLock, c)

\* After deadlock_timeout PostgreSQL cancels one transaction of the cycle.
deadlock_victim(r) ==
    /\ \E q \in Request : WaitsFor(r, q) /\ WaitsFor(q, r)
    /\ Finish(r)
    /\ UNCHANGED rows

----------------------------------------------------------------------------
(* An empty database, but for accounts that were verified earlier *)
Init ==
    /\ users \in [User -> {Absent, Verified}]
    /\ sessions = [s \in Session |-> Unissued]
    /\ tokens = [t \in Token |-> Unissued]
    /\ challenges = [c \in Challenge |-> Unissued]
    /\ userLock = [u \in User |-> NONE]
    /\ sessionLock = [s \in Session |-> NONE]
    /\ challengeLock = [c \in Challenge |-> NONE]
    /\ emailLock = [u \in User |-> NONE]
    /\ pc = [r \in Request |-> "idle"]
    /\ local = [r \in Request |-> Nothing]

\* A request that has begun goes on until it has answered.
RequestStep(r) == AuthStep(r) \/ LifecycleStep(r) \/ deadlock_victim(r)

Next ==
    \/ \E r \in Request :
        AuthStart(r) \/ LifecycleStart(r) \/ RequestStep(r) \/ failure(r)
    \/ \E s \in Session : session_expires(s)
    \/ \E c \in Challenge : challenge_expires(c)

Spec == Init /\ [][Next]_vars

\* The server keeps running its requests.  PostgreSQL hands a row lock to
\* the requests in its queue, so a step that is enabled again and again is
\* not passed over for ever: strong fairness.
FairSpec == Spec /\ \A r \in Request : SF_vars(RequestStep(r))

----------------------------------------------------------------------------
(* Types *)

TypeOK ==
    /\ users \in [User -> UserRow]
    /\ sessions \in [Session -> SessionRow \cup {Unissued}]
    /\ tokens \in [Token -> TokenRow \cup {Unissued, Deleted}]
    /\ challenges \in [Challenge -> ChallengeRow \cup {Unissued, Deleted}]
    /\ userLock \in [User -> Request \cup {NONE}]
    /\ sessionLock \in [Session -> Request \cup {NONE}]
    /\ challengeLock \in [Challenge -> Request \cup {NONE}]
    /\ emailLock \in [User -> Request \cup {NONE}]
    /\ pc \in [Request -> PCs]
    /\ local \in [Request -> Local]

----------------------------------------------------------------------------
(* What holds between rows, locks and requests: the invariants below rest on *)
(* it                                                                       *)

\* A request holds the rows it has locked from that step to its commit, and
\* no others.
HoldsWhatItLocked(r) ==
    /\ \A s \in Session : sessionLock[s] = r <=>
            pc[r] = "refresh_rotate" /\ local[r].session = s
    /\ \A u \in User : userLock[u] = r <=>
            /\ pc[r] \in {"register_issue", "reset_commit", "anonymize_commit"}
            /\ local[r].user = u
    /\ \A c \in Challenge : challengeLock[c] = r <=>
            pc[r] \in {"verify_activate", "reset_commit"} /\ local[r].challenge = c

LocksAreHeld == \A r \in Request : HoldsWhatItLocked(r)

\* The rows a request goes on to use are there: nobody deletes a locked row,
\* nor any session.
FindsItsRows(r) ==
    /\ pc[r] \in {"login_open", "register_lock", "register_issue",
                  "verify_activate", "reset_lock", "reset_commit"} =>
            local[r].user \in User
    /\ pc[r] \in {"auth_user", "principal", "anonymize_lock", "anonymize_commit"} =>
            /\ local[r].session \in Session
            /\ Exists(sessions, local[r].session)
            /\ sessions[local[r].session].user = local[r].user
            /\ sessions[local[r].session].version = local[r].version
    /\ pc[r] = "refresh_rotate" =>
            /\ local[r].session \in Session
            /\ local[r].token \in Token
            /\ Exists(sessions, local[r].session)
            /\ sessions[local[r].session].revoked = NONE
            /\ LiveToken(local[r].token)
            /\ tokens[local[r].token].session = local[r].session
    /\ pc[r] = "reset_lock" => local[r].challenge \in Challenge
    /\ pc[r] \in {"verify_activate", "reset_commit"} =>
            /\ local[r].challenge \in Challenge
            /\ Exists(challenges, local[r].challenge)

RowsAreThere ==
    /\ \A t \in Token : Exists(tokens, t) => Exists(sessions, tokens[t].session)
    /\ \A r \in Request : FindsItsRows(r)

----------------------------------------------------------------------------
(* Refresh tokens *)

\* A session that is not revoked has exactly one refresh token that rotation
\* would accept, and a revoked one has none: concurrent refreshes, logouts and
\* resets never leave two successors, a dead session with a usable token, or
\* a usable session without one.
LiveSessionHasOneLiveToken ==
    \A s \in Session : Exists(sessions, s) =>
        IF sessions[s].revoked = NONE
        THEN \E t \in TokensOf(s) : \A n \in TokensOf(s) : LiveToken(n) <=> n = t
        ELSE \A t \in TokensOf(s) : ~LiveToken(t)

\* The tokens of a session are one chain: a token is used exactly when another
\* token of the same session replaces it, and it is replaced only once.
RotationIsLinear ==
    \A t \in Token : Exists(tokens, t) =>
        LET successors == {n \in Token : Exists(tokens, n) /\ tokens[n].parent = t} IN
        /\ tokens[t].used <=> successors # {}
        /\ \A n, m \in successors : n = m
        /\ \A n \in successors : tokens[n].session = tokens[t].session

\* The CSRF secret of a session that is not revoked was issued with the refresh
\* token that is live: a rotation never leaves the secret of another rotation.
CsrfFollowsRotation ==
    \A s \in Session : Exists(sessions, s) /\ sessions[s].revoked = NONE =>
        LiveToken(sessions[s].csrf) /\ tokens[sessions[s].csrf].session = s

\* A session in which a used refresh token was presented again is revoked and
\* stays so: no rotation, even one under way at the time, survives a replay.
ReplayEndsSession ==
    \A t \in Token : Exists(tokens, t) /\ tokens[t].reuse =>
        /\ tokens[t].used
        /\ sessions[tokens[t].session].revoked # NONE
        /\ \A n \in TokensOf(tokens[t].session) : ~LiveToken(n)

----------------------------------------------------------------------------
(* Authentication *)

\* Session and user are read by two statements between which anything may
\* commit; still, whoever is given a principal held a session that
\* authenticated when its row was read.
PrincipalWasLive ==
    \A r \in Request : pc[r] = "principal" => local[r].wasLive

\* A step that revokes sessions either revokes one and leaves every account as
\* it is, or changes the token_version of one account, revokes the sessions of
\* no other, and leaves no session of that account unrevoked.
RevocationIsScoped ==
    [][LET revoked == {s \in Session : /\ Exists(sessions, s)
                                       /\ sessions[s].revoked = NONE
                                       /\ sessions'[s].revoked # NONE}
       IN revoked # {} =>
            \/ users' = users /\ \E s \in revoked : revoked = {s}
            \/ \E u \in User :
                /\ users'[u].version > users[u].version
                /\ \A s \in revoked : sessions[s].user = u
                /\ \A s \in SessionsOf(u) : sessions'[s].revoked # NONE]_vars

\* The recorded reason of a revocation is the first one, except that
\* anonymization overwrites it: a session killed by a replay is never later
\* shown as an ordinary logout or reset.
RevocationReasonIsKept ==
    [][\A s \in Session :
        Exists(sessions, s) /\ sessions[s].revoked # NONE =>
            sessions'[s].revoked \in {sessions[s].revoked, "owner_anonymized"}]_vars

\* What a browser is promised of its access tokens: SessionAccess, where a
\* session gives access, and to whom, is read off the rows.
access == [s \in Session |-> IF ~Exists(sessions, s) THEN "unopened"
                             ELSE IF Authenticates(s) THEN "granted" ELSE "lost"]
owner == [s \in Session |-> IF Exists(sessions, s) THEN sessions[s].user ELSE NONE]

Promise == INSTANCE SessionAccess

\* The endpoints implement SessionAccess: access is lost for good, by itself
\* or with all the other sessions of its account, and never moves.
ImplementsSessionAccess == Promise!Spec

----------------------------------------------------------------------------
(* Accounts and challenges *)

\* Each consumed reset challenge changed the credentials of its account once:
\* two confirmations of one challenge never both count.
VersionCountsResets ==
    \A u \in User : users[u].status \in {"pending", "active"} =>
        users[u].version = 1 + Cardinality({c \in ChallengesOf(u) :
            challenges[c].purpose = "password_reset" /\ challenges[c].state = "used"})

\* An account has at most one challenge per purpose that is neither consumed
\* nor replaced, however requests for it overlap.
OneLiveChallenge ==
    \A c, d \in Challenge :
        LiveChallenge(c) /\ LiveChallenge(d) /\ c # d =>
            \/ challenges[c].user # challenges[d].user
            \/ challenges[c].purpose # challenges[d].purpose

\* An account is activated in the step that consumes one verification
\* challenge of its own, and no verification challenge is consumed otherwise.
ActivationConsumesOneChallenge ==
    [][LET consumed == {c \in Challenge : /\ LiveChallenge(c)
                                          /\ challenges[c].purpose = "email_verification"
                                          /\ challenges'[c] # Deleted
                                          /\ challenges'[c].state = "used"}
           activated == {u \in User : /\ users[u].status # "active"
                                      /\ users'[u].status = "active"}
       IN /\ \A u \in activated :
                /\ users[u].status = "pending"
                /\ \E c \in consumed : challenges[c].user = u /\ consumed = {c}
          /\ \A c \in consumed : challenges[c].user \in activated]_vars

\* An anonymized account stays as it was left: no registration, verification or
\* reset that was under way revives it or changes its token_version.
AnonymizationIsIrreversible ==
    [][\A u \in User : users[u].status = "anonymized" => users'[u] = users[u]]_vars

----------------------------------------------------------------------------
(* Liveness *)

\* Every request is answered: no row lock is waited for without end.
RequestsFinish == \A r \in Request : pc[r] # "idle" ~> pc[r] = "idle"

----------------------------------------------------------------------------
(* What the documentation says and the code does not keep *)

\* "Permanently remove refresh-token hashes for an anonymized account":
\* an anonymized account has no refresh token and no session left open.
AnonymizedAccountKeepsNoCredential ==
    \A u \in User : users[u].status = "anonymized" =>
        \A s \in SessionsOf(u) : sessions[s].revoked # NONE /\ TokensOf(s) = {}
=============================================================================

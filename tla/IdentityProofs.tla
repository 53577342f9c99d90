--------------------------- MODULE IdentityProofs ---------------------------
(***************************************************************************)
(* Theorems about Identity, for any sets of accounts, rows and requests.   *)
(***************************************************************************)
EXTENDS Identity, TLAPS

----------------------------------------------------------------------------
(* Operators on the tables *)

\* Ending a transaction leaves well-typed locks and an idle request.
LEMMA FinishType ==
    ASSUME TypeOK, NEW r \in Request, Finish(r)
    PROVE  /\ userLock' \in [User -> Request \cup {NONE}]
           /\ sessionLock' \in [Session -> Request \cup {NONE}]
           /\ challengeLock' \in [Challenge -> Request \cup {NONE}]
           /\ emailLock' \in [User -> Request \cup {NONE}]
           /\ pc' \in [Request -> PCs]
           /\ local' \in [Request -> Local]
<1>1. Nothing \in Local
  BY DEF Nothing, Local
<1>2. "idle" \in PCs
  BY DEF PCs
<1> QED
  BY <1>1, <1>2 DEF Finish, TypeOK, Released

\* The bulk statements of the repositories keep the types of their tables.
LEMMA BulkType ==
    ASSUME TypeOK
    PROVE  /\ \A ss \in SUBSET Session :
                /\ revoke_session(ss) \in [Token -> TokenRow \cup {Unissued, Deleted}]
                /\ delete_for_sessions(ss) \in [Token -> TokenRow \cup {Unissued, Deleted}]
           /\ \A u \in User, reason \in Reason :
                /\ revoke_all_by_user(u, reason) \in [Session -> SessionRow \cup {Unissued}]
                /\ revoke_and_anonymize_all_by_user(u, reason)
                        \in [Session -> SessionRow \cup {Unissued}]
           /\ \A s \in Session, reason \in Reason : Exists(sessions, s) =>
                revoke(s, reason) \in [Session -> SessionRow \cup {Unissued}]
           /\ \A c \in Challenge, u \in User, p \in Purpose :
                issue(c, u, p) \in [Challenge -> ChallengeRow \cup {Unissued, Deleted}]
           /\ \A u \in User :
                delete_for_user(u) \in [Challenge -> ChallengeRow \cup {Unissued, Deleted}]
<1> USE DEF TypeOK, Exists
<1>1. ASSUME NEW ss \in SUBSET Session
      PROVE  /\ revoke_session(ss) \in [Token -> TokenRow \cup {Unissued, Deleted}]
             /\ delete_for_sessions(ss) \in [Token -> TokenRow \cup {Unissued, Deleted}]
  BY DEF revoke_session, delete_for_sessions, TokenRow
<1>2. ASSUME NEW u \in User, NEW reason \in Reason
      PROVE  /\ revoke_all_by_user(u, reason) \in [Session -> SessionRow \cup {Unissued}]
             /\ revoke_and_anonymize_all_by_user(u, reason)
                     \in [Session -> SessionRow \cup {Unissued}]
  <2>1. ASSUME NEW s \in Session, sessions[s] \in SessionRow
        PROVE  /\ [sessions[s] EXCEPT !.revoked = reason] \in SessionRow
               /\ [sessions[s] EXCEPT !.revoked = reason, !.csrf = NONE] \in SessionRow
    BY <2>1 DEF SessionRow
  <2>2. ASSUME NEW s \in Session, s \in SessionsOf(u)
        PROVE  sessions[s] \in SessionRow
    BY <2>2 DEF SessionsOf
  <2> QED
    BY <2>1, <2>2 DEF revoke_all_by_user, revoke_and_anonymize_all_by_user
<1>3. ASSUME NEW s \in Session, NEW reason \in Reason, Exists(sessions, s)
      PROVE  revoke(s, reason) \in [Session -> SessionRow \cup {Unissued}]
  BY <1>3 DEF revoke, SessionRow
<1>4. ASSUME NEW c \in Challenge, NEW u \in User, NEW p \in Purpose
      PROVE  issue(c, u, p) \in [Challenge -> ChallengeRow \cup {Unissued, Deleted}]
  BY DEF issue, ChallengeRow, ActiveChallenges, ChallengesOf
<1>5. ASSUME NEW u \in User
      PROVE  delete_for_user(u) \in [Challenge -> ChallengeRow \cup {Unissued, Deleted}]
  BY DEF delete_for_user
<1> QED
  BY <1>1, <1>2, <1>3, <1>4, <1>5

\* Only an existing row is a row.
LEMMA RowsExist ==
    ASSUME TypeOK
    PROVE  /\ \A s \in Session : Exists(sessions, s) <=> sessions[s] \in SessionRow
           /\ \A t \in Token : Exists(tokens, t) <=> tokens[t] \in TokenRow
           /\ \A c \in Challenge : Exists(challenges, c) <=> challenges[c] \in ChallengeRow
BY RowAssumption DEF TypeOK, Exists

\* revoke_session changes revoked and nothing else, in the tokens of ss.
LEMMA RevokedTokens ==
    ASSUME TypeOK, NEW ss \in SUBSET Session, NEW t \in Token
    PROVE  /\ Exists(tokens, t) =>
                /\ revoke_session(ss)[t] \in TokenRow
                /\ revoke_session(ss)[t].session = tokens[t].session
                /\ revoke_session(ss)[t].parent = tokens[t].parent
                /\ revoke_session(ss)[t].used = tokens[t].used
                /\ revoke_session(ss)[t].reuse = tokens[t].reuse
                /\ tokens[t].session \in ss => revoke_session(ss)[t].revoked
                /\ tokens[t].session \notin ss => revoke_session(ss)[t] = tokens[t]
           /\ ~Exists(tokens, t) => revoke_session(ss)[t] = tokens[t]
<1>1. revoke_session(ss)[t] = IF Exists(tokens, t) /\ tokens[t].session \in ss
                              THEN [tokens[t] EXCEPT !.revoked = TRUE] ELSE tokens[t]
  BY DEF revoke_session
<1>2. Exists(tokens, t) => tokens[t] \in TokenRow
  BY RowsExist
<1> HIDE DEF revoke_session
<1> QED
  BY <1>1, <1>2 DEF TokenRow

----------------------------------------------------------------------------
(* Types, locks and the rows they guard *)

\* The inductive invariant on which every theorem below rests.
Basic == TypeOK /\ LocksAreHeld /\ RowsAreThere

\* What the requests other than r hold is as it was.
OthersKeepLocks(r) ==
    \A q \in Request \ {r} :
        /\ \A s \in Session : sessionLock'[s] = q <=> sessionLock[s] = q
        /\ \A u \in User : userLock'[u] = q <=> userLock[u] = q
        /\ \A c \in Challenge : challengeLock'[c] = q <=> challengeLock[c] = q

\* A transaction that ends gives back its locks and takes none.
LEMMA FinishLocks ==
    ASSUME TypeOK, LocksAreHeld, NEW r \in Request, Finish(r)
    PROVE  LocksAreHeld'
<1> SUFFICES ASSUME NEW q \in Request
             PROVE  HoldsWhatItLocked(q)'
  BY DEF LocksAreHeld
<1>1. NONE # q
  BY StoreAssumption
<1>2. CASE q = r
  BY <1>1, <1>2 DEF Finish, Released, TypeOK, HoldsWhatItLocked
<1>3. CASE q # r
  <2>1. pc'[q] = pc[q] /\ local'[q] = local[q]
    BY <1>3 DEF Finish, TypeOK
  <2>2. /\ \A s \in Session : sessionLock'[s] = q <=> sessionLock[s] = q
        /\ \A u \in User : userLock'[u] = q <=> userLock[u] = q
        /\ \A c \in Challenge : challengeLock'[c] = q <=> challengeLock[c] = q
    BY <1>1, <1>3 DEF Finish, Released, TypeOK
  <2> QED
    BY <2>1, <2>2 DEF LocksAreHeld, HoldsWhatItLocked
<1> QED
  BY <1>2, <1>3

\* No session is deleted or given to another account.
SessionsPersist ==
    \A s \in Session : Exists(sessions, s) =>
        /\ Exists(sessions', s)
        /\ sessions'[s].user = sessions[s].user
        /\ sessions'[s].version = sessions[s].version

\* What a step writes spares the rows that the requests of Q have locked.
LockedRowsPersist(Q) ==
    \A q \in Q :
        /\ \A s \in Session, t \in Token :
            /\ sessionLock[s] = q /\ tokens[t].session = s
            /\ sessions[s].revoked = NONE /\ LiveToken(t)
            => /\ sessions'[s].revoked = NONE /\ LiveToken(t)'
               /\ tokens'[t].session = s
        /\ \A c \in Challenge : challengeLock[c] = q /\ Exists(challenges, c) =>
                Exists(challenges', c)

LEMMA RowsPersist ==
    ASSUME Basic, NEW Q \in SUBSET Request, SessionsPersist, LockedRowsPersist(Q),
           NEW q \in Q, pc'[q] = pc[q], local'[q] = local[q]
    PROVE  FindsItsRows(q)'
<1>1. FindsItsRows(q) /\ HoldsWhatItLocked(q)
  BY DEF Basic, RowsAreThere, LocksAreHeld
<1>2. ASSUME pc[q] = "refresh_rotate"
      PROVE  /\ sessionLock[local[q].session] = q
             /\ local[q].session \in Session /\ local[q].token \in Token
             /\ sessions'[local[q].session].revoked = NONE
             /\ LiveToken(local[q].token)'
             /\ tokens'[local[q].token].session = local[q].session
  BY <1>1, <1>2 DEF FindsItsRows, HoldsWhatItLocked, LockedRowsPersist
<1>3. ASSUME pc[q] \in {"verify_activate", "reset_commit"}
      PROVE  Exists(challenges', local[q].challenge)
  BY <1>1, <1>3 DEF FindsItsRows, HoldsWhatItLocked, LockedRowsPersist
<1> QED
  BY <1>1, <1>2, <1>3 DEF FindsItsRows, SessionsPersist

\* A transaction that ends having written the tables with their types, and
\* without taking from another request the rows it will use.
LEMMA CommitBasic ==
    ASSUME Basic, NEW r \in Request, Finish(r),
           users' \in [User -> UserRow],
           sessions' \in [Session -> SessionRow \cup {Unissued}],
           tokens' \in [Token -> TokenRow \cup {Unissued, Deleted}],
           challenges' \in [Challenge -> ChallengeRow \cup {Unissued, Deleted}],
           \A t \in Token : Exists(tokens', t) => Exists(sessions', tokens'[t].session),
           SessionsPersist, LockedRowsPersist(Request \ {r})
    PROVE  Basic'
<1> USE DEF Basic
<1>1. TypeOK'
  BY FinishType DEF TypeOK
<1>2. LocksAreHeld'
  BY FinishLocks
<1>3. FindsItsRows(r)'
  BY DEF Finish, FindsItsRows, TypeOK
<1>4. ASSUME NEW q \in Request \ {r}
      PROVE  FindsItsRows(q)'
  <2>1. pc'[q] = pc[q] /\ local'[q] = local[q]
    BY DEF Finish, TypeOK
  <2> QED
    BY <2>1, RowsPersist
<1> QED
  BY <1>1, <1>2, <1>3, <1>4 DEF RowsAreThere

\* A transaction that ends without writing disturbs nobody.
LEMMA RejectBasic ==
    ASSUME Basic, NEW r \in Request, Finish(r), UNCHANGED rows
    PROVE  Basic'
<1>1. SessionsPersist /\ LockedRowsPersist(Request \ {r})
  BY DEF SessionsPersist, LockedRowsPersist, rows, LiveToken, Exists
<1> QED
  BY <1>1, CommitBasic DEF Basic, TypeOK, RowsAreThere, rows, Exists

\* A transaction that goes on to another step, having written nothing.
LEMMA ContinueBasic ==
    ASSUME Basic, NEW r \in Request, NEW label \in PCs, NEW values \in Local,
           Continue(r, label, values), UNCHANGED rows,
           userLock' \in [User -> Request \cup {NONE}],
           sessionLock' \in [Session -> Request \cup {NONE}],
           challengeLock' \in [Challenge -> Request \cup {NONE}],
           emailLock' \in [User -> Request \cup {NONE}],
           OthersKeepLocks(r), HoldsWhatItLocked(r)', FindsItsRows(r)'
    PROVE  Basic'
<1> USE DEF Basic
<1>1. TypeOK'
  BY DEF TypeOK, Continue, rows
<1>2. ASSUME NEW q \in Request \ {r}
      PROVE  HoldsWhatItLocked(q)' /\ FindsItsRows(q)'
  <2>1. pc'[q] = pc[q] /\ local'[q] = local[q]
    BY DEF Continue, TypeOK
  <2>2. HoldsWhatItLocked(q)'
    BY <2>1 DEF OthersKeepLocks, LocksAreHeld, HoldsWhatItLocked
  <2>3. FindsItsRows(q)'
    BY <2>1 DEF RowsAreThere, FindsItsRows, rows, LiveToken, Exists
  <2> QED
    BY <2>2, <2>3
<1>3. LocksAreHeld'
  BY <1>2 DEF LocksAreHeld
<1>4. RowsAreThere'
  BY <1>2 DEF RowsAreThere, rows, Exists
<1> QED
  BY <1>1, <1>3, <1>4

LEMMA InitBasic == Init => Basic
<1> SUFFICES ASSUME Init PROVE Basic
  OBVIOUS
<1>1. TypeOK
  BY DEF Init, TypeOK, Absent, Verified, UserRow, UserStatus, PCs, Nothing, Local
<1>2. LocksAreHeld
  BY StoreAssumption DEF Init, LocksAreHeld, HoldsWhatItLocked
<1>3. RowsAreThere
  BY DEF Init, RowsAreThere, FindsItsRows, Exists
<1> QED
  BY <1>1, <1>2, <1>3 DEF Basic

----------------------------------------------------------------------------
(* The steps that read on, or lock a row, and write nothing *)

LEMMA AuthReadsBasic ==
    ASSUME Basic, NEW r \in Request
    PROVE  /\ \A u \in User : verify_credentials(r, u) => Basic'
           /\ \A t, csrf \in Token : refresh_lock(r, t, csrf) => Basic'
           /\ \A s \in Session : \A csrf \in TokensOf(s) :
                authenticate_session(r, s, csrf) => Basic'
           /\ authenticate_user(r) => Basic'
<1> USE StoreAssumption DEF Basic, Starts, At, locks
<1>1. ASSUME NEW u \in User, verify_credentials(r, u)
      PROVE  Basic'
  <2> DEFINE values == [Nothing EXCEPT !.user = u, !.version = users[u].version]
  <2> USE <1>1 DEF verify_credentials
  <2>1. "login_open" \in PCs /\ values \in Local
    BY DEF TypeOK, PCs, Local, Nothing, UserRow
  <2>2. OthersKeepLocks(r)
    BY DEF OthersKeepLocks
  <2>3. HoldsWhatItLocked(r)'
    BY DEF HoldsWhatItLocked, LocksAreHeld, TypeOK, Continue
  <2>4. FindsItsRows(r)'
    BY DEF FindsItsRows, TypeOK, Continue, Nothing
  <2> QED
    BY <2>1, <2>2, <2>3, <2>4, ContinueBasic DEF TypeOK
<1>2. ASSUME NEW t \in Token, NEW csrf \in Token, refresh_lock(r, t, csrf)
      PROVE  Basic'
  <2> DEFINE s == tokens[t].session
             values == [Nothing EXCEPT !.session = s, !.token = t]
  <2> USE <1>2 DEF refresh_lock, LockedForRefresh, Free
  <2>1. s \in Session /\ Exists(sessions, s)
    BY DEF RowsAreThere, TypeOK, TokenRow, Exists
  <2>2. "refresh_rotate" \in PCs /\ values \in Local
    BY <2>1 DEF PCs, Local, Nothing
  <2>3. sessionLock' \in [Session -> Request \cup {NONE}]
    BY <2>1 DEF TypeOK, Lock
  <2>4. OthersKeepLocks(r)
    BY <2>1 DEF OthersKeepLocks, Lock, TypeOK
  <2>5. HoldsWhatItLocked(r)'
    BY <2>1 DEF HoldsWhatItLocked, LocksAreHeld, TypeOK, Continue, Lock, Nothing
  <2>6. FindsItsRows(r)'
    <3>1. pc'[r] = "refresh_rotate" /\ local'[r].session = s /\ local'[r].token = t
      BY DEF TypeOK, Continue, Nothing
    <3>2. LiveToken(t)' /\ Exists(sessions', s)
      BY <2>1 DEF LiveToken, Exists, rows
    <3>3. sessions'[s].revoked = NONE /\ tokens'[t].session = s
      BY DEF rows
    <3> HIDE <1>2 DEF refresh_lock, s
    <3> QED
      BY <2>1, <3>1, <3>2, <3>3 DEF FindsItsRows
  <2> QED
    BY <2>2, <2>3, <2>4, <2>5, <2>6, ContinueBasic DEF TypeOK
<1>3. ASSUME NEW s \in Session, NEW csrf \in TokensOf(s), authenticate_session(r, s, csrf)
      PROVE  Basic'
  <2> DEFINE values == [Nothing EXCEPT !.session = s, !.user = sessions[s].user,
                                       !.version = sessions[s].version, !.csrf = csrf,
                                       !.wasLive = Authenticates(s)]
  <2> USE <1>3 DEF authenticate_session
  <2>1. /\ Authenticates(s) \in BOOLEAN
        /\ sessions[s].user \in User /\ sessions[s].version \in Nat
        /\ csrf \in Token
    BY DEF Authenticates, TypeOK, SessionRow, Exists, TokensOf
  <2>2. "auth_user" \in PCs /\ values \in Local
    BY <2>1 DEF PCs, Local, Nothing
  <2>3. OthersKeepLocks(r)
    BY DEF OthersKeepLocks
  <2>4. HoldsWhatItLocked(r)'
    BY DEF HoldsWhatItLocked, LocksAreHeld, TypeOK, Continue
  <2>5. FindsItsRows(r)'
    BY DEF FindsItsRows, TypeOK, Continue, Nothing, rows, Exists
  <2> QED
    BY <2>2, <2>3, <2>4, <2>5, ContinueBasic DEF TypeOK
<1>4. ASSUME authenticate_user(r)
      PROVE  Basic'
  <2> USE <1>4 DEF authenticate_user
  <2>1. "principal" \in PCs /\ local[r] \in Local
    BY DEF PCs, TypeOK
  <2>2. OthersKeepLocks(r)
    BY DEF OthersKeepLocks
  <2>3. HoldsWhatItLocked(r)'
    BY DEF HoldsWhatItLocked, LocksAreHeld, TypeOK, Continue
  <2>4. FindsItsRows(r)'
    BY DEF FindsItsRows, RowsAreThere, TypeOK, Continue, rows, Exists
  <2> QED
    BY <2>1, <2>2, <2>3, <2>4, ContinueBasic DEF TypeOK
<1> QED
  BY <1>1, <1>2, <1>3, <1>4

LEMMA LifecycleReadsBasic ==
    ASSUME Basic, NEW r \in Request
    PROVE  /\ \A u \in User : register_existing(r, u) => Basic'
           /\ \A c \in Challenge : verify_consume(r, c) \/ reset_find(r, c) => Basic'
           /\ register_lock(r) \/ reset_lock(r) => Basic'
           /\ anonymize_check(r) \/ anonymize_lock(r) => Basic'
<1> USE StoreAssumption DEF Basic, Starts, At, locks
<1>1. ASSUME NEW u \in User, register_existing(r, u)
      PROVE  Basic'
  <2> USE <1>1 DEF register_existing
  <2>1. "register_lock" \in PCs /\ [Nothing EXCEPT !.user = u] \in Local
    BY DEF PCs, Local, Nothing
  <2>2. OthersKeepLocks(r)
    BY DEF OthersKeepLocks
  <2>3. HoldsWhatItLocked(r)'
    BY DEF HoldsWhatItLocked, LocksAreHeld, TypeOK, Continue
  <2>4. FindsItsRows(r)'
    BY DEF FindsItsRows, TypeOK, Continue, Nothing
  <2> QED
    BY <2>1, <2>2, <2>3, <2>4, ContinueBasic DEF TypeOK, Lock
<1>2. ASSUME NEW c \in Challenge, Exists(challenges, c)
      PROVE  challenges[c].user \in User
  BY <1>2 DEF TypeOK, Exists, ChallengeRow
<1>3. ASSUME NEW c \in Challenge, verify_consume(r, c)
      PROVE  Basic'
  <2> DEFINE values == [Nothing EXCEPT !.user = challenges[c].user, !.challenge = c]
  <2> USE <1>2, <1>3 DEF verify_consume, Free
  <2>1. "verify_activate" \in PCs /\ values \in Local
    BY DEF PCs, Local, Nothing
  <2>2. OthersKeepLocks(r)
    BY DEF OthersKeepLocks, Lock, TypeOK
  <2>3. HoldsWhatItLocked(r)'
    BY DEF HoldsWhatItLocked, LocksAreHeld, TypeOK, Continue, Lock, Nothing
  <2>4. FindsItsRows(r)'
    BY DEF FindsItsRows, TypeOK, Continue, Nothing, rows, Exists
  <2> QED
    BY <2>1, <2>2, <2>3, <2>4, ContinueBasic DEF TypeOK, Lock
<1>4. ASSUME NEW c \in Challenge, reset_find(r, c)
      PROVE  Basic'
  <2> DEFINE values == [Nothing EXCEPT !.user = challenges[c].user, !.challenge = c]
  <2> USE <1>2, <1>4 DEF reset_find
  <2>1. "reset_lock" \in PCs /\ values \in Local
    BY DEF PCs, Local, Nothing
  <2>2. OthersKeepLocks(r)
    BY DEF OthersKeepLocks
  <2>3. HoldsWhatItLocked(r)'
    BY DEF HoldsWhatItLocked, LocksAreHeld, TypeOK, Continue
  <2>4. FindsItsRows(r)'
    BY DEF FindsItsRows, TypeOK, Continue, Nothing
  <2> QED
    BY <2>1, <2>2, <2>3, <2>4, ContinueBasic DEF TypeOK
<1>5. ASSUME register_lock(r)
      PROVE  Basic'
  <2> USE <1>5 DEF register_lock, Free
  <2>1. /\ "register_issue" \in PCs /\ local[r] \in Local
        /\ local[r].user \in User
    BY DEF PCs, TypeOK, RowsAreThere, FindsItsRows
  <2>2. OthersKeepLocks(r)
    BY <2>1 DEF OthersKeepLocks, Lock, TypeOK
  <2>3. HoldsWhatItLocked(r)'
    BY <2>1 DEF HoldsWhatItLocked, LocksAreHeld, TypeOK, Continue, Lock
  <2>4. FindsItsRows(r)'
    BY <2>1 DEF FindsItsRows, TypeOK, Continue
  <2> QED
    BY <2>1, <2>2, <2>3, <2>4, ContinueBasic DEF TypeOK, Lock
<1>6. ASSUME reset_lock(r)
      PROVE  Basic'
  <2> USE <1>6 DEF reset_lock, Free
  <2>1. /\ "reset_commit" \in PCs /\ local[r] \in Local
        /\ local[r].user \in User /\ local[r].challenge \in Challenge
    BY DEF PCs, TypeOK, RowsAreThere, FindsItsRows
  <2>2. OthersKeepLocks(r)
    BY <2>1 DEF OthersKeepLocks, Lock, TypeOK
  <2>3. HoldsWhatItLocked(r)'
    BY <2>1 DEF HoldsWhatItLocked, LocksAreHeld, TypeOK, Continue, Lock
  <2>4. FindsItsRows(r)'
    BY <2>1 DEF FindsItsRows, TypeOK, Continue, rows, Exists, ResetAccepted, consumable,
                LiveChallenge
  <2> QED
    BY <2>1, <2>2, <2>3, <2>4, ContinueBasic DEF TypeOK, Lock
<1>7. ASSUME anonymize_check(r)
      PROVE  Basic'
  <2> USE <1>7 DEF anonymize_check
  <2>1. "anonymize_lock" \in PCs /\ local[r] \in Local
    BY DEF PCs, TypeOK
  <2>2. OthersKeepLocks(r)
    BY DEF OthersKeepLocks
  <2>3. HoldsWhatItLocked(r)'
    BY DEF HoldsWhatItLocked, LocksAreHeld, TypeOK, Continue
  <2>4. FindsItsRows(r)'
    BY DEF FindsItsRows, RowsAreThere, TypeOK, Continue, rows, Exists
  <2> QED
    BY <2>1, <2>2, <2>3, <2>4, ContinueBasic DEF TypeOK
<1>8. ASSUME anonymize_lock(r)
      PROVE  Basic'
  <2> USE <1>8 DEF anonymize_lock, Free
  <2>1. /\ "anonymize_commit" \in PCs /\ local[r] \in Local
        /\ local[r].user \in User
    BY DEF PCs, TypeOK, RowsAreThere, FindsItsRows, SessionRow, Exists
  <2>2. OthersKeepLocks(r)
    BY <2>1 DEF OthersKeepLocks, Lock, TypeOK
  <2>3. HoldsWhatItLocked(r)'
    BY <2>1 DEF HoldsWhatItLocked, LocksAreHeld, TypeOK, Continue, Lock
  <2>4. FindsItsRows(r)'
    BY <2>1 DEF FindsItsRows, RowsAreThere, TypeOK, Continue, rows, Exists
  <2> QED
    BY <2>1, <2>2, <2>3, <2>4, ContinueBasic DEF TypeOK, Lock
<1> QED
  BY <1>1, <1>3, <1>4, <1>5, <1>6, <1>7, <1>8

----------------------------------------------------------------------------
(* The steps that write *)

\* A transaction of one step, which leaves no lock and no request behind.
LEMMA WriteBasic ==
    ASSUME Basic, UNCHANGED <<locks, pc, local>>,
           users' \in [User -> UserRow],
           sessions' \in [Session -> SessionRow \cup {Unissued}],
           tokens' \in [Token -> TokenRow \cup {Unissued, Deleted}],
           challenges' \in [Challenge -> ChallengeRow \cup {Unissued, Deleted}],
           \A t \in Token : Exists(tokens', t) => Exists(sessions', tokens'[t].session),
           SessionsPersist, LockedRowsPersist(Request)
    PROVE  Basic'
<1> USE DEF Basic, locks
<1>1. TypeOK'
  BY DEF TypeOK
<1>2. LocksAreHeld'
  BY DEF LocksAreHeld, HoldsWhatItLocked
<1>3. ASSUME NEW q \in Request
      PROVE  FindsItsRows(q)'
  BY RowsPersist
<1> QED
  BY <1>1, <1>2, <1>3 DEF RowsAreThere

LEMMA StartsBasic ==
    ASSUME Basic, NEW r \in Request
    PROVE  /\ \A t \in Token : refresh_reuse(r, t) => Basic'
           /\ \A u \in User : register(r, u) \/ reset_request(r, u) => Basic'
<1> USE StoreAssumption, RowAssumption DEF Basic, Starts, At
<1>1. ASSUME NEW t \in Token, refresh_reuse(r, t)
      PROVE  Basic'
  <2> DEFINE s == tokens[t].session
  <2> USE <1>1 DEF refresh_reuse, LockedForRefresh, Free
  <2>1. s \in Session /\ Exists(sessions, s) /\ tokens[t] \in TokenRow
    BY RowsExist DEF RowsAreThere, TokenRow
  <2>2. sessions' \in [Session -> SessionRow \cup {Unissued}]
    BY <2>1, BulkType DEF Reason
  <2>3. /\ tokens' \in [Token -> TokenRow \cup {Unissued, Deleted}]
        /\ \A n \in Token \ {t} : tokens'[n] = revoke_session({s})[n]
        /\ tokens'[t] \in TokenRow /\ tokens'[t].session = s
    <3>1. revoke_session({s})[t] \in TokenRow /\ revoke_session({s})[t].session = s
      BY <2>1, RowsExist, RevokedTokens
    <3> DEFINE R == revoke_session({s})
    <3>2. R \in [Token -> TokenRow \cup {Unissued, Deleted}]
      BY <2>1, BulkType
    <3>3. tokens' = [R EXCEPT ![t].reuse = TRUE]
      OBVIOUS
    <3> HIDE <1>1 DEF R
    <3> QED
      BY <3>1, <3>2, <3>3 DEF R, TokenRow
  <2>4. /\ \A x \in Session : sessions[x] \in SessionRow => sessions'[x] \in SessionRow
        /\ \A x \in Session \ {s} : sessions'[x] = sessions[x]
        /\ sessions'[s].user = sessions[s].user
        /\ sessions'[s].version = sessions[s].version
    BY <2>1, RowsExist DEF TypeOK, revoke, SessionRow, Reason
  <2>5. \A n \in Token : Exists(tokens, n) /\ tokens[n].session # s => tokens'[n] = tokens[n]
    BY <2>1, <2>3, RevokedTokens
  <2>6. \A n \in Token : Exists(tokens', n) =>
            Exists(tokens, n) /\ tokens'[n].session = tokens[n].session
    BY <2>1, <2>3, RevokedTokens, RowsExist DEF Exists
  <2>7. SessionsPersist
    BY <2>4, RowsExist DEF SessionsPersist, Exists
  <2>8. LockedRowsPersist(Request)
    <3>1. sessionLock[s] \notin Request
      BY DEF TypeOK
    <3>2. ASSUME NEW q \in Request, NEW x \in Session, NEW n \in Token,
                 sessionLock[x] = q, tokens[n].session = x, LiveToken(n)
          PROVE  sessions'[x] = sessions[x] /\ tokens'[n] = tokens[n]
      BY <2>4, <2>5, <3>1, <3>2 DEF LiveToken
    <3>3. challenges' = challenges
      OBVIOUS
    <3> HIDE <1>1
    <3> QED
      BY <3>2, <3>3 DEF LockedRowsPersist, LiveToken, Exists
  <2>9. \A n \in Token : Exists(tokens', n) => Exists(sessions', tokens'[n].session)
    BY <2>6, <2>7, RowsExist DEF RowsAreThere, SessionsPersist, TokenRow
  <2> QED
    BY <2>2, <2>3, <2>7, <2>8, <2>9, WriteBasic DEF TypeOK
<1>2. ASSUME NEW u \in User, register(r, u) \/ reset_request(r, u)
      PROVE  Basic'
  <2> USE <1>2 DEF register, reset_request
  <2>1. users' \in [User -> UserRow]
    BY DEF TypeOK, Pending, UserRow, UserStatus
  <2>2. PICK c \in Challenge, p \in Purpose : challenges' = issue(c, u, p)
    BY DEF Purpose
  <2>3. challenges' \in [Challenge -> ChallengeRow \cup {Unissued, Deleted}]
    BY <2>2, BulkType
  <2>4. \A d \in Challenge : challenges[d] \in ChallengeRow => challenges'[d] \in ChallengeRow
    BY <2>2 DEF issue, ChallengeRow, ActiveChallenges
  <2>5. SessionsPersist /\ LockedRowsPersist(Request)
    BY <2>4, RowsExist DEF SessionsPersist, LockedRowsPersist, LiveToken, Exists
  <2> QED
    BY <2>1, <2>3, <2>5, WriteBasic DEF TypeOK, RowsAreThere, Exists
<1> QED
  BY <1>1, <1>2

LEMMA TimeBasic ==
    ASSUME Basic
    PROVE  /\ \A s \in Session : session_expires(s) => Basic'
           /\ \A c \in Challenge : challenge_expires(c) => Basic'
<1> USE RowAssumption DEF Basic
<1>1. ASSUME NEW s \in Session, session_expires(s)
      PROVE  Basic'
  <2> USE <1>1 DEF session_expires
  <2>1. /\ sessions' \in [Session -> SessionRow \cup {Unissued}]
        /\ \A x \in Session : sessions[x] \in SessionRow =>
                /\ sessions'[x] \in SessionRow
                /\ sessions'[x].user = sessions[x].user
                /\ sessions'[x].version = sessions[x].version
                /\ sessions'[x].revoked = sessions[x].revoked
    <3>1. sessions[s] \in SessionRow
      BY RowsExist
    <3>2. /\ sessions'[s] \in SessionRow
          /\ sessions'[s].user = sessions[s].user
          /\ sessions'[s].version = sessions[s].version
          /\ sessions'[s].revoked = sessions[s].revoked
      BY <3>1 DEF TypeOK, SessionRow
    <3>3. \A x \in Session \ {s} : sessions'[x] = sessions[x]
      BY DEF TypeOK
    <3> QED
      BY <3>1, <3>2, <3>3 DEF TypeOK
  <2>2. SessionsPersist
    BY <2>1, RowsExist DEF SessionsPersist, Exists
  <2>3. \A t \in Token : Exists(tokens, t) =>
            tokens[t].session \in Session /\ Exists(sessions', tokens[t].session)
    BY <2>1, RowsExist DEF RowsAreThere, TokenRow, Exists
  <2>4. LockedRowsPersist(Request)
    <3>1. \A t \in Token : Exists(tokens, t) =>
              sessions'[tokens[t].session].revoked = sessions[tokens[t].session].revoked
      BY <2>1, <2>3, RowsExist DEF RowsAreThere
    <3> QED
      BY <3>1 DEF LockedRowsPersist, LiveToken, Exists
  <2> QED
    BY <2>1, <2>2, <2>3, <2>4, WriteBasic DEF TypeOK, Exists
<1>2. ASSUME NEW c \in Challenge, challenge_expires(c)
      PROVE  Basic'
  <2> USE <1>2 DEF challenge_expires
  <2>1. /\ challenges' \in [Challenge -> ChallengeRow \cup {Unissued, Deleted}]
        /\ \A d \in Challenge : challenges[d] \in ChallengeRow =>
                challenges'[d] \in ChallengeRow
    BY RowsExist DEF TypeOK, ChallengeRow, LiveChallenge
  <2>2. SessionsPersist /\ LockedRowsPersist(Request)
    BY <2>1, RowsExist DEF SessionsPersist, LockedRowsPersist, LiveToken, Exists
  <2> QED
    BY <2>1, <2>2, WriteBasic DEF TypeOK, RowsAreThere, Exists
<1> QED
  BY <1>1, <1>2

\* Revoking the sessions of an account changes neither owner nor version, and
\* leaves the sessions of the other accounts as they are.
LEMMA RevokedSessions ==
    ASSUME TypeOK, NEW u \in User, NEW reason \in Reason, NEW s \in Session,
           NEW table \in {revoke_all_by_user(u, reason),
                          revoke_and_anonymize_all_by_user(u, reason)}
    PROVE  /\ Exists(sessions, s) =>
                /\ table[s] \in SessionRow
                /\ table[s].user = sessions[s].user
                /\ table[s].version = sessions[s].version
                /\ table[s].expired = sessions[s].expired
           /\ s \in SessionsOf(u) => table[s].revoked # NONE
           /\ s \notin SessionsOf(u) => table[s] = sessions[s]
<1>1. \/ table[s] = sessions[s]
      \/ /\ s \in SessionsOf(u)
         /\ \/ table[s] = [sessions[s] EXCEPT !.revoked = reason]
            \/ table[s] = [sessions[s] EXCEPT !.revoked = reason, !.csrf = NONE]
  BY DEF revoke_all_by_user, revoke_and_anonymize_all_by_user
<1>2. s \in SessionsOf(u) /\ sessions[s].revoked = NONE =>
        \/ table[s] = [sessions[s] EXCEPT !.revoked = reason]
        \/ table[s] = [sessions[s] EXCEPT !.revoked = reason, !.csrf = NONE]
  BY DEF revoke_all_by_user, revoke_and_anonymize_all_by_user
<1>3. Exists(sessions, s) => sessions[s] \in SessionRow
  BY RowsExist
<1>4. s \in SessionsOf(u) => Exists(sessions, s)
  BY DEF SessionsOf
<1>5. reason # NONE
  BY RowAssumption
<1> QED
  BY <1>1, <1>2, <1>3, <1>4, <1>5 DEF SessionRow

LEMMA TokensHaveSessions ==
    ASSUME Basic, NEW t \in Token, Exists(tokens, t)
    PROVE  tokens[t].session \in Session /\ Exists(sessions, tokens[t].session)
BY RowsExist DEF Basic, RowsAreThere, TokenRow

LEMMA AuthCommitsBasic ==
    ASSUME Basic, NEW r \in Request
    PROVE  login(r) \/ refresh_rotate(r) \/ logout(r) => Basic'
<1> USE StoreAssumption, RowAssumption DEF Basic, At
<1>1. ASSUME login(r)
      PROVE  Basic'
  <2> USE <1>1 DEF login
  <2>1. local[r].user \in User /\ local[r].version \in Nat
    BY DEF RowsAreThere, FindsItsRows, TypeOK, Local
  <2>2. PICK s \in Session, t \in Token :
            /\ sessions[s] = Unissued /\ tokens[t] = Unissued
            /\ sessions' = [sessions EXCEPT ![s] =
                   [user |-> local[r].user, version |-> local[r].version, csrf |-> t,
                    revoked |-> NONE, expired |-> FALSE]]
            /\ tokens' = [tokens EXCEPT ![t] =
                   [session |-> s, parent |-> NONE, used |-> FALSE,
                    revoked |-> FALSE, reuse |-> FALSE]]
    OBVIOUS
  <2>3. /\ sessions'[s] \in SessionRow /\ tokens'[t] \in TokenRow
        /\ tokens'[t].session = s
        /\ \A x \in Session \ {s} : sessions'[x] = sessions[x]
        /\ \A n \in Token \ {t} : tokens'[n] = tokens[n]
    BY <2>1, <2>2 DEF SessionRow, TokenRow, TypeOK
  <2>4. /\ sessions' \in [Session -> SessionRow \cup {Unissued}]
        /\ tokens' \in [Token -> TokenRow \cup {Unissued, Deleted}]
    BY <2>2, <2>3 DEF TypeOK
  <2>5. UNCHANGED <<users, challenges>> /\ Finish(r)
    OBVIOUS
  <2> HIDE <1>1
  <2>6. SessionsPersist
    BY <2>2, <2>3 DEF SessionsPersist, Exists
  <2>7. \A n \in Token : Exists(tokens', n) => Exists(sessions', tokens'[n].session)
    <3>1. ASSUME NEW n \in Token \ {t}, Exists(tokens', n)
          PROVE  Exists(sessions', tokens'[n].session)
      BY <2>3, <2>6, <3>1, TokensHaveSessions DEF SessionsPersist, Exists
    <3>2. Exists(sessions', s)
      BY <2>3 DEF Exists
    <3> QED
      BY <2>3, <3>1, <3>2
  <2>8. LockedRowsPersist(Request \ {r})
    <3>1. ASSUME NEW n \in Token, LiveToken(n)
          PROVE  tokens[n].session # s /\ n # t
      BY <2>2, <3>1, RowsExist DEF LiveToken, Exists, RowsAreThere
    <3> QED
      BY <2>3, <2>5, <3>1 DEF LockedRowsPersist, LiveToken, Exists
  <2> QED
    BY <2>4, <2>5, <2>6, <2>7, <2>8, CommitBasic DEF TypeOK
<1>2. ASSUME refresh_rotate(r)
      PROVE  Basic'
  <2> DEFINE s == local[r].session
             old == local[r].token
  <2> USE <1>2 DEF refresh_rotate
  <2>1. /\ s \in Session /\ old \in Token
        /\ sessionLock[s] = r
        /\ Exists(sessions, s) /\ Exists(tokens, old)
        /\ sessions[s] \in SessionRow /\ tokens[old] \in TokenRow
        /\ tokens[old].session = s
    BY RowsExist DEF RowsAreThere, FindsItsRows, LiveToken, LocksAreHeld, HoldsWhatItLocked
  <2>2. PICK t \in Token :
            /\ tokens[t] = Unissued
            /\ tokens' = [tokens EXCEPT
                   ![old].used = TRUE,
                   ![t] = [session |-> s, parent |-> old, used |-> FALSE,
                           revoked |-> FALSE, reuse |-> FALSE]]
            /\ sessions' = [sessions EXCEPT ![s].csrf = t]
    BY DEF renewed
  <2>3. /\ sessions'[s] \in SessionRow
        /\ sessions'[s].user = sessions[s].user
        /\ sessions'[s].version = sessions[s].version
        /\ \A x \in Session \ {s} : sessions'[x] = sessions[x]
    BY <2>1, <2>2 DEF SessionRow, TypeOK
  <2>4. old # t
    BY <2>1, <2>2 DEF Exists
  <2>5. /\ tokens'[old] \in TokenRow /\ tokens'[old].session = s
        /\ tokens'[t] \in TokenRow /\ tokens'[t].session = s
        /\ \A n \in Token \ {old, t} : tokens'[n] = tokens[n]
    BY <2>1, <2>2, <2>4 DEF TokenRow, TypeOK
  <2>6. /\ sessions' \in [Session -> SessionRow \cup {Unissued}]
        /\ tokens' \in [Token -> TokenRow \cup {Unissued, Deleted}]
    BY <2>1, <2>2, <2>3, <2>5 DEF TypeOK
  <2>7. UNCHANGED <<users, challenges>> /\ Finish(r)
    OBVIOUS
  <2> HIDE <1>2 DEF s, old
  <2>8. SessionsPersist
    BY <2>1, <2>3 DEF SessionsPersist, Exists
  <2>9. \A n \in Token : Exists(tokens', n) => Exists(sessions', tokens'[n].session)
    <3>1. ASSUME NEW n \in Token \ {old, t}, Exists(tokens', n)
          PROVE  Exists(sessions', tokens'[n].session)
      BY <2>5, <2>8, <3>1, TokensHaveSessions DEF SessionsPersist, Exists
    <3>2. Exists(sessions', s)
      BY <2>3 DEF Exists
    <3> QED
      BY <2>5, <3>1, <3>2
  <2>10. LockedRowsPersist(Request \ {r})
    <3>1. ASSUME NEW n \in Token, LiveToken(n), tokens[n].session # s
          PROVE  n \notin {old, t}
      BY <2>1, <2>2, <3>1 DEF LiveToken, Exists
    <3> QED
      BY <2>1, <2>3, <2>5, <2>7, <3>1 DEF LockedRowsPersist, LiveToken, Exists
  <2> QED
    BY <2>6, <2>7, <2>8, <2>9, <2>10, CommitBasic DEF TypeOK
<1>3. ASSUME logout(r)
      PROVE  Basic'
  <2> DEFINE s == local[r].session
  <2>1. s \in Session /\ Exists(sessions, s) /\ sessions[s] \in SessionRow
    BY <1>3, RowsExist DEF logout, RowsAreThere, FindsItsRows
  <2>2. Finish(r) /\ UNCHANGED <<users, challenges>> /\ sessionLock[s] = NONE
    BY <1>3 DEF logout, Free
  <2>3. CASE sessions[s].revoked # NONE
    BY <1>3, <2>2, <2>3, RejectBasic DEF logout, rows
  <2>4. CASE sessions[s].revoked = NONE
    <3>1. sessions' = revoke(s, "user_logout") /\ tokens' = revoke_session({s})
      BY <1>3, <2>4 DEF logout
    <3> HIDE DEF s
    <3>2. /\ sessions' \in [Session -> SessionRow \cup {Unissued}]
          /\ tokens' \in [Token -> TokenRow \cup {Unissued, Deleted}]
      BY <2>1, <3>1, BulkType DEF Reason
    <3>3. /\ sessions'[s] \in SessionRow
          /\ sessions'[s].user = sessions[s].user
          /\ sessions'[s].version = sessions[s].version
          /\ \A x \in Session \ {s} : sessions'[x] = sessions[x]
      BY <2>1, <3>1 DEF revoke, SessionRow, Reason, TypeOK
    <3>4. SessionsPersist
      BY <2>1, <3>3 DEF SessionsPersist, Exists
    <3>5. \A n \in Token :
              /\ Exists(tokens', n) =>
                    Exists(tokens, n) /\ tokens'[n].session = tokens[n].session
              /\ Exists(tokens, n) /\ tokens[n].session # s => tokens'[n] = tokens[n]
      BY <2>1, <3>1, RevokedTokens, RowsExist DEF Exists
    <3>6. \A n \in Token : Exists(tokens', n) => Exists(sessions', tokens'[n].session)
      BY <3>4, <3>5, RowsExist DEF RowsAreThere, SessionsPersist, TokenRow
    <3>7. LockedRowsPersist(Request \ {r})
      BY <2>1, <2>2, <3>3, <3>5 DEF LockedRowsPersist, LiveToken, Exists
    <3> QED
      BY <2>2, <3>2, <3>4, <3>6, <3>7, CommitBasic DEF TypeOK
  <2> QED
    BY <2>3, <2>4
<1> QED
  BY <1>1, <1>2, <1>3

\* Issuing a challenge deletes none.
LEMMA IssuedChallenges ==
    ASSUME TypeOK, NEW c \in Challenge, NEW u \in User, NEW p \in Purpose,
           NEW d \in Challenge, Exists(challenges, d)
    PROVE  issue(c, u, p)[d] \in ChallengeRow
<1>1. challenges[d] \in ChallengeRow
  BY RowsExist
<1> QED
  BY <1>1 DEF issue, ChallengeRow

LEMMA LifecycleCommitsBasic ==
    ASSUME Basic, NEW r \in Request
    PROVE  /\ register_issue(r) \/ verify_activate(r) => Basic'
           /\ reset_commit(r) \/ anonymize_account(r) => Basic'
<1> USE RowAssumption DEF Basic, At
<1>1. FindsItsRows(r) /\ HoldsWhatItLocked(r)
  BY DEF RowsAreThere, LocksAreHeld
<1>2. ASSUME register_issue(r)
      PROVE  Basic'
  <2>1. local[r].user \in User
    BY <1>1, <1>2 DEF register_issue, FindsItsRows
  <2>2. PICK c \in Challenge, p \in Purpose : challenges' = issue(c, local[r].user, p)
    BY <1>2 DEF register_issue, Purpose
  <2>3. Finish(r) /\ UNCHANGED <<users, sessions, tokens>>
    BY <1>2 DEF register_issue
  <2>4. SessionsPersist /\ LockedRowsPersist(Request \ {r})
    BY <2>1, <2>2, <2>3, IssuedChallenges DEF SessionsPersist, LockedRowsPersist, LiveToken,
       Exists
  <2> QED
    BY <2>1, <2>2, <2>3, <2>4, BulkType, CommitBasic DEF TypeOK, RowsAreThere, Exists
<1>3. ASSUME verify_activate(r)
      PROVE  Basic'
  <2> DEFINE c == local[r].challenge
  <2>1. local[r].user \in User /\ c \in Challenge /\ challenges[c] \in ChallengeRow
    BY <1>1, <1>3, RowsExist DEF verify_activate, FindsItsRows
  <2>2. /\ Finish(r) /\ UNCHANGED <<sessions, tokens>>
        /\ users' = [users EXCEPT ![local[r].user].status = "active"]
        /\ challenges' = [challenges EXCEPT ![c].state = "used"]
    BY <1>3 DEF verify_activate
  <2>3. users' \in [User -> UserRow]
    BY <2>1, <2>2 DEF TypeOK, UserRow, UserStatus
  <2>4. /\ challenges' \in [Challenge -> ChallengeRow \cup {Unissued, Deleted}]
        /\ challenges'[c] \in ChallengeRow
        /\ \A d \in Challenge \ {c} : challenges'[d] = challenges[d]
    BY <2>1, <2>2 DEF TypeOK, ChallengeRow
  <2>5. SessionsPersist /\ LockedRowsPersist(Request \ {r})
    BY <2>2, <2>4 DEF SessionsPersist, LockedRowsPersist, LiveToken, Exists
  <2> QED
    BY <2>2, <2>3, <2>4, <2>5, CommitBasic DEF TypeOK, RowsAreThere, Exists
<1>4. ASSUME reset_commit(r)
      PROVE  Basic'
  <2> DEFINE u == local[r].user
             c == local[r].challenge
  <2>1. u \in User /\ c \in Challenge /\ challenges[c] \in ChallengeRow
    BY <1>1, <1>4, RowsExist DEF reset_commit, FindsItsRows
  <2>2. /\ Finish(r)
        /\ \A s \in SessionsOf(u) : Free(sessionLock, s)
        /\ users' = [users EXCEPT ![u].version = @ + 1]
        /\ sessions' = revoke_all_by_user(u, "password_reset")
        /\ tokens' = revoke_session(SessionsOf(u))
        /\ challenges' = [challenges EXCEPT ![c].state = "used"]
    BY <1>4 DEF reset_commit
  <2> HIDE DEF u, c
  <2>3. users' \in [User -> UserRow]
    BY <2>1, <2>2 DEF TypeOK, UserRow
  <2>4. /\ challenges' \in [Challenge -> ChallengeRow \cup {Unissued, Deleted}]
        /\ challenges'[c] \in ChallengeRow
        /\ \A d \in Challenge \ {c} : challenges'[d] = challenges[d]
    BY <2>1, <2>2 DEF TypeOK, ChallengeRow
  <2>5. /\ SessionsOf(u) \in SUBSET Session /\ "password_reset" \in Reason
        /\ \A s \in SessionsOf(u), q \in Request : sessionLock[s] # q
    BY <2>2, StoreAssumption DEF SessionsOf, Reason, Free
  <2>6. /\ sessions' \in [Session -> SessionRow \cup {Unissued}]
        /\ tokens' \in [Token -> TokenRow \cup {Unissued, Deleted}]
    BY <2>1, <2>2, <2>5, BulkType
  <2>7. SessionsPersist
    BY <2>1, <2>2, <2>5, RevokedSessions DEF SessionsPersist, Exists
  <2>8. \A t \in Token :
            /\ Exists(tokens', t) =>
                    Exists(tokens, t) /\ tokens'[t].session = tokens[t].session
            /\ Exists(tokens, t) /\ tokens[t].session \notin SessionsOf(u) =>
                    tokens'[t] = tokens[t]
    BY <2>2, <2>5, RevokedTokens DEF Exists
  <2>9. \A t \in Token : Exists(tokens', t) => Exists(sessions', tokens'[t].session)
    BY <2>7, <2>8, TokensHaveSessions DEF SessionsPersist
  <2>10. \A s \in Session \ SessionsOf(u) : sessions'[s] = sessions[s]
    BY <2>1, <2>2, <2>5, RevokedSessions
  <2>11. LockedRowsPersist(Request \ {r})
    BY <2>4, <2>5, <2>8, <2>10 DEF LockedRowsPersist, LiveToken, Exists
  <2> QED
    BY <2>2, <2>3, <2>4, <2>6, <2>7, <2>9, <2>11, CommitBasic
<1>5. ASSUME anonymize_account(r)
      PROVE  Basic'
  <2> DEFINE u == local[r].user
  <2>1. u \in User
    BY <1>1, <1>5, RowsExist DEF anonymize_account, FindsItsRows, SessionRow
  <2>2. /\ Finish(r)
        /\ \A s \in SessionsOf(u) : Free(sessionLock, s)
        /\ \A c \in ChallengesOf(u) : Free(challengeLock, c)
        /\ users' = [users EXCEPT ![u] = [status |-> "anonymized",
                                           version |-> @.version + 1,
                                           workspace |-> "blocked"]]
        /\ sessions' = revoke_and_anonymize_all_by_user(u, "owner_anonymized")
        /\ tokens' = delete_for_sessions(SessionsOf(u))
        /\ challenges' = delete_for_user(u)
    BY <1>5 DEF anonymize_account
  <2> HIDE DEF u
  <2>3. users' \in [User -> UserRow]
    BY <2>1, <2>2 DEF TypeOK, UserRow, UserStatus
  <2>4. /\ SessionsOf(u) \in SUBSET Session /\ "owner_anonymized" \in Reason
        /\ \A s \in SessionsOf(u), q \in Request : sessionLock[s] # q
        /\ \A c \in ChallengesOf(u), q \in Request : challengeLock[c] # q
    BY <2>2, StoreAssumption DEF SessionsOf, Reason, Free
  <2>5. /\ sessions' \in [Session -> SessionRow \cup {Unissued}]
        /\ tokens' \in [Token -> TokenRow \cup {Unissued, Deleted}]
        /\ challenges' \in [Challenge -> ChallengeRow \cup {Unissued, Deleted}]
    BY <2>1, <2>2, <2>4, BulkType
  <2>6. SessionsPersist
    BY <2>1, <2>2, <2>4, RevokedSessions DEF SessionsPersist, Exists
  <2>7. /\ \A s \in Session \ SessionsOf(u) : sessions'[s] = sessions[s]
        /\ \A c \in Challenge \ ChallengesOf(u) : challenges'[c] = challenges[c]
    BY <2>1, <2>2, <2>4, RevokedSessions DEF delete_for_user
  <2>8. \A t \in Token :
            /\ Exists(tokens', t) => Exists(tokens, t) /\ tokens'[t] = tokens[t]
            /\ Exists(tokens, t) /\ tokens[t].session \notin SessionsOf(u) =>
                    tokens'[t] = tokens[t]
    BY <2>2 DEF delete_for_sessions, Exists
  <2>9. \A t \in Token : Exists(tokens', t) => Exists(sessions', tokens'[t].session)
    BY <2>6, <2>8, TokensHaveSessions DEF SessionsPersist
  <2>10. LockedRowsPersist(Request \ {r})
    BY <2>4, <2>7, <2>8 DEF LockedRowsPersist, LiveToken, Exists
  <2> QED
    BY <2>2, <2>3, <2>5, <2>6, <2>9, <2>10, CommitBasic
<1> QED
  BY <1>2, <1>3, <1>4, <1>5

LEMMA RefusalsBasic ==
    ASSUME Basic, NEW r \in Request,
           \/ refresh_rejected(r) \/ authenticate_rejected(r)
           \/ current_user(r) \/ logout_rejected(r)
           \/ register_rejected(r) \/ verify_rejected(r) \/ reset_rejected(r)
           \/ anonymize_rejected(r) \/ anonymize_repeated(r)
           \/ failure(r) \/ deadlock_victim(r)
    PROVE  Basic'
<1>1. Finish(r) /\ UNCHANGED rows
  BY DEF refresh_rejected, authenticate_rejected, current_user, logout_rejected,
         register_rejected, verify_rejected, reset_rejected, anonymize_rejected,
         anonymize_repeated, failure, deadlock_victim
<1> QED
  BY <1>1, RejectBasic

\* Every step preserves the invariant.
LEMMA NextBasic == Basic /\ [Next]_vars => Basic'
<1> SUFFICES ASSUME Basic, [Next]_vars
             PROVE  Basic'
  OBVIOUS
<1>1. ASSUME NEW r \in Request, AuthStart(r) PROVE Basic'
  BY <1>1, AuthReadsBasic, StartsBasic DEF AuthStart
<1>2. ASSUME NEW r \in Request, LifecycleStart(r) PROVE Basic'
  BY <1>2, LifecycleReadsBasic, StartsBasic DEF LifecycleStart
<1>3. ASSUME NEW r \in Request, AuthStep(r) PROVE Basic'
  BY <1>3, AuthReadsBasic, AuthCommitsBasic, RefusalsBasic DEF AuthStep
<1>4. ASSUME NEW r \in Request, LifecycleStep(r) PROVE Basic'
  BY <1>4, LifecycleReadsBasic, LifecycleCommitsBasic, RefusalsBasic DEF LifecycleStep
<1>5. ASSUME NEW r \in Request, deadlock_victim(r) \/ failure(r) PROVE Basic'
  BY <1>5, RefusalsBasic
<1>6. CASE UNCHANGED vars
  BY <1>6 DEF vars, rows, locks, Basic, TypeOK, LocksAreHeld, HoldsWhatItLocked,
              RowsAreThere, FindsItsRows, Exists, LiveToken
<1> QED
  BY <1>1, <1>2, <1>3, <1>4, <1>5, <1>6, TimeBasic DEF Next, RequestStep

\* Whatever the numbers of accounts, rows and requests, the state is well
\* typed, a request holds exactly the row locks of the transaction it is in,
\* and finds the rows it goes on to use.
THEOREM TypesAndLocks == Spec => []Basic
<1>1. Init => Basic
  BY InitBasic
<1>2. Basic /\ [Next]_vars => Basic'
  BY NextBasic
<1> QED
  BY <1>1, <1>2, PTL DEF Spec

THEOREM TypeCorrect == Spec => []TypeOK
<1>1. Basic => TypeOK
  BY DEF Basic
<1> QED
  BY <1>1, TypesAndLocks, PTL

----------------------------------------------------------------------------
(* The refresh tokens of a session stay one chain with one live end: what  *)
(* a step of Identity can do to the two tables is one of five things,      *)
(* listed first; that each action does one of them is a lemma per group of *)
(* actions, and the invariant is then preserved by five cases.             *)

----------------------------------------------------------------------------
(* What a step does to sessions and tokens *)

\* Session s is there as much as it was, with its revocation and CSRF secret.
SessionKept(s) ==
    /\ Exists(sessions', s) <=> Exists(sessions, s)
    /\ Exists(sessions, s) => /\ sessions'[s].revoked = sessions[s].revoked
                              /\ sessions'[s].csrf = sessions[s].csrf

\* Nothing, but for the clock.
Quiet == tokens' = tokens /\ \A s \in Session : SessionKept(s)

\* Session s is opened with refresh token t.
OpensWith(s, t) ==
    /\ sessions[s] = Unissued /\ tokens[t] = Unissued
    /\ Exists(sessions', s)
    /\ sessions'[s].revoked = NONE /\ sessions'[s].csrf = t
    /\ tokens'[t] = [session |-> s, parent |-> NONE, used |-> FALSE,
                     revoked |-> FALSE, reuse |-> FALSE]
    /\ \A x \in Session \ {s} : SessionKept(x)
    /\ \A n \in Token \ {t} : tokens'[n] = tokens[n]

\* The live token old of session s is replaced by t.
Rotates(s, old, t) ==
    /\ tokens[t] = Unissued
    /\ LiveToken(old) /\ tokens[old].session = s
    /\ Exists(sessions, s) /\ sessions[s].revoked = NONE
    /\ Exists(sessions', s)
    /\ sessions'[s].revoked = NONE /\ sessions'[s].csrf = t
    /\ tokens'[t] = [session |-> s, parent |-> old, used |-> FALSE,
                     revoked |-> FALSE, reuse |-> FALSE]
    /\ Exists(tokens', old)
    /\ tokens'[old].session = s /\ tokens'[old].parent = tokens[old].parent
    /\ tokens'[old].used /\ tokens'[old].reuse = tokens[old].reuse
    /\ \A x \in Session \ {s} : SessionKept(x)
    /\ \A n \in Token \ {old, t} : tokens'[n] = tokens[n]

\* The sessions of ss are left revoked.
Closes(ss) ==
    /\ \A s \in ss : /\ Exists(sessions, s) /\ Exists(sessions', s)
                     /\ sessions'[s].revoked # NONE
    /\ \A s \in Session \ ss : SessionKept(s)

\* They keep their refresh tokens, which are revoked; one that had been used
\* may be marked as presented again.
Revokes(ss) ==
    /\ Closes(ss)
    /\ \A t \in Token :
        IF Exists(tokens, t) /\ tokens[t].session \in ss
        THEN /\ Exists(tokens', t)
             /\ tokens'[t].session = tokens[t].session
             /\ tokens'[t].parent = tokens[t].parent
             /\ tokens'[t].used = tokens[t].used
             /\ tokens'[t].revoked
             /\ tokens'[t].reuse => tokens[t].reuse \/ tokens[t].used
        ELSE tokens'[t] = tokens[t]

\* They lose their refresh tokens.
Deletes(ss) ==
    /\ Closes(ss)
    /\ \A t \in Token : tokens'[t] = IF Exists(tokens, t) /\ tokens[t].session \in ss
                                     THEN Deleted ELSE tokens[t]

TableStep ==
    \/ Quiet
    \/ \E s \in Session, t \in Token : OpensWith(s, t)
    \/ \E s \in Session, old, t \in Token : Rotates(s, old, t)
    \/ \E ss \in SUBSET Session : Revokes(ss) \/ Deletes(ss)

LEMMA QuietSteps ==
    ASSUME Basic, UNCHANGED <<sessions, tokens>>
    PROVE  Quiet
BY DEF Quiet, SessionKept, Exists

LEMMA ExpiryIsQuiet ==
    ASSUME Basic, NEW s \in Session, session_expires(s)
    PROVE  Quiet
<1>1. tokens' = tokens /\ sessions[s] \in SessionRow
  BY RowsExist DEF session_expires, Basic
<1>2. \A x \in Session \ {s} : sessions'[x] = sessions[x]
  BY DEF session_expires, Basic, TypeOK
<1>3. /\ sessions'[s] \in SessionRow
      /\ sessions'[s].revoked = sessions[s].revoked
      /\ sessions'[s].csrf = sessions[s].csrf
  BY <1>1 DEF session_expires, Basic, TypeOK, SessionRow
<1> QED
  BY <1>1, <1>2, <1>3, RowAssumption DEF Quiet, SessionKept, Exists

LEMMA LoginOpens ==
    ASSUME Basic, NEW r \in Request, login(r)
    PROVE  \E s \in Session, t \in Token : OpensWith(s, t)
<1> USE DEF Basic
<1>1. local[r].user \in User /\ local[r].version \in Nat
  BY DEF login, At, RowsAreThere, FindsItsRows, TypeOK, Local
<1>2. PICK s \in Session, t \in Token :
          /\ sessions[s] = Unissued /\ tokens[t] = Unissued
          /\ sessions' = [sessions EXCEPT ![s] =
                 [user |-> local[r].user, version |-> local[r].version, csrf |-> t,
                  revoked |-> NONE, expired |-> FALSE]]
          /\ tokens' = [tokens EXCEPT ![t] =
                 [session |-> s, parent |-> NONE, used |-> FALSE,
                  revoked |-> FALSE, reuse |-> FALSE]]
  BY DEF login
<1>3. /\ sessions'[s] \in SessionRow
      /\ sessions'[s].revoked = NONE /\ sessions'[s].csrf = t
      /\ \A x \in Session \ {s} : sessions'[x] = sessions[x]
  BY <1>1, <1>2 DEF SessionRow, TypeOK
<1>4. /\ tokens'[t] = [session |-> s, parent |-> NONE, used |-> FALSE,
                       revoked |-> FALSE, reuse |-> FALSE]
      /\ \A n \in Token \ {t} : tokens'[n] = tokens[n]
  BY <1>2 DEF TypeOK
<1>5. Exists(sessions', s) /\ \A x \in Session \ {s} : SessionKept(x)
  BY <1>3, RowAssumption DEF Exists, SessionKept
<1>6. OpensWith(s, t)
  BY <1>2, <1>3, <1>4, <1>5 DEF OpensWith
<1> QED
  BY <1>6

LEMMA RefreshRotates ==
    ASSUME Basic, NEW r \in Request, refresh_rotate(r)
    PROVE  \E s \in Session, old, t \in Token : Rotates(s, old, t)
<1> USE DEF Basic
<1> DEFINE s == local[r].session
           old == local[r].token
<1>1. /\ s \in Session /\ old \in Token
      /\ Exists(sessions, s) /\ LiveToken(old)
      /\ sessions[s].revoked = NONE /\ tokens[old].session = s
  BY DEF refresh_rotate, At, RowsAreThere, FindsItsRows
<1>2. PICK t \in Token :
          /\ tokens[t] = Unissued
          /\ tokens' = [tokens EXCEPT
                 ![old].used = TRUE,
                 ![t] = [session |-> s, parent |-> old, used |-> FALSE,
                         revoked |-> FALSE, reuse |-> FALSE]]
          /\ sessions' = [sessions EXCEPT ![s].csrf = t]
  BY DEF refresh_rotate, renewed
<1> HIDE DEF s, old
<1>3. sessions[s] \in SessionRow /\ tokens[old] \in TokenRow /\ old # t
  BY <1>1, <1>2, RowsExist DEF LiveToken, Exists
<1>4. /\ sessions'[s] \in SessionRow
      /\ sessions'[s].revoked = NONE /\ sessions'[s].csrf = t
      /\ \A x \in Session \ {s} : sessions'[x] = sessions[x]
  BY <1>1, <1>2, <1>3 DEF SessionRow, TypeOK
<1>5. /\ tokens'[t] = [session |-> s, parent |-> old, used |-> FALSE,
                       revoked |-> FALSE, reuse |-> FALSE]
      /\ \A n \in Token \ {old, t} : tokens'[n] = tokens[n]
  BY <1>1, <1>2, <1>3 DEF TypeOK
<1>6. /\ tokens'[old] \in TokenRow
      /\ tokens'[old].session = s /\ tokens'[old].parent = tokens[old].parent
      /\ tokens'[old].used /\ tokens'[old].reuse = tokens[old].reuse
  BY <1>1, <1>2, <1>3 DEF TypeOK, TokenRow
<1>7. /\ Exists(sessions', s) /\ Exists(tokens', old)
      /\ \A x \in Session \ {s} : SessionKept(x)
  BY <1>4, <1>6, RowAssumption DEF Exists, SessionKept
<1>8. Rotates(s, old, t)
  BY <1>1, <1>2, <1>4, <1>5, <1>6, <1>7 DEF Rotates
<1> QED
  BY <1>1, <1>8

\* Revoking one session, in a logout or after a replay.
LEMMA RevokeCloses ==
    ASSUME Basic, NEW s \in Session, Exists(sessions, s), NEW reason \in Reason,
           sessions' = revoke(s, reason)
    PROVE  Closes({s})
<1>1. sessions[s] \in SessionRow
  BY RowsExist DEF Basic
<1>2. /\ sessions'[s] \in SessionRow
      /\ sessions'[s].revoked # NONE
      /\ \A x \in Session \ {s} : sessions'[x] = sessions[x]
  BY <1>1, RowAssumption DEF Basic, TypeOK, SessionRow, revoke
<1> QED
  BY <1>2, RowAssumption DEF Closes, SessionKept, Exists

\* Revoking all the sessions of an account.
LEMMA RevokeAllCloses ==
    ASSUME Basic, NEW u \in User, NEW reason \in Reason,
           sessions' \in {revoke_all_by_user(u, reason),
                          revoke_and_anonymize_all_by_user(u, reason)}
    PROVE  Closes(SessionsOf(u))
<1>1. ASSUME NEW s \in SessionsOf(u)
      PROVE  Exists(sessions, s) /\ Exists(sessions', s) /\ sessions'[s].revoked # NONE
  <2>1. s \in Session /\ Exists(sessions, s)
    BY DEF SessionsOf
  <2>2. sessions'[s] \in SessionRow /\ sessions'[s].revoked # NONE
    BY <2>1, RevokedSessions DEF Basic
  <2> QED
    BY <2>1, <2>2, RowAssumption DEF Exists
<1>2. ASSUME NEW s \in Session \ SessionsOf(u)
      PROVE  SessionKept(s)
  <2>1. sessions'[s] = sessions[s]
    BY RevokedSessions DEF Basic
  <2> QED
    BY <2>1 DEF SessionKept, Exists
<1> QED
  BY <1>1, <1>2 DEF Closes

LEMMA ReplayRevokes ==
    ASSUME Basic, NEW r \in Request, NEW t \in Token, refresh_reuse(r, t)
    PROVE  \E ss \in SUBSET Session : Revokes(ss)
<1> DEFINE s == tokens[t].session
           revoked == revoke_session({s})
<1>1. /\ Exists(tokens, t) /\ tokens[t].used
      /\ sessions' = revoke(s, "refresh_reuse_detected")
      /\ tokens' = [revoked EXCEPT ![t].reuse = TRUE]
  BY DEF refresh_reuse, LockedForRefresh
<1>2. s \in Session /\ Exists(sessions, s)
  BY <1>1, TokensHaveSessions
<1>3. Closes({s})
  BY <1>1, <1>2, RevokeCloses DEF Reason
<1>4. revoked \in [Token -> TokenRow \cup {Unissued, Deleted}]
  BY <1>2, BulkType DEF Basic
<1>5. ASSUME NEW n \in Token
      PROVE  IF Exists(tokens, n) /\ tokens[n].session \in {s}
             THEN /\ Exists(tokens', n)
                  /\ tokens'[n].session = tokens[n].session
                  /\ tokens'[n].parent = tokens[n].parent
                  /\ tokens'[n].used = tokens[n].used
                  /\ tokens'[n].revoked
                  /\ tokens'[n].reuse => tokens[n].reuse \/ tokens[n].used
             ELSE tokens'[n] = tokens[n]
  <2>1. /\ Exists(tokens, n) =>
              /\ revoked[n] \in TokenRow
              /\ revoked[n].session = tokens[n].session
              /\ revoked[n].parent = tokens[n].parent
              /\ revoked[n].used = tokens[n].used
              /\ revoked[n].reuse = tokens[n].reuse
              /\ tokens[n].session \in {s} => revoked[n].revoked
              /\ tokens[n].session \notin {s} => revoked[n] = tokens[n]
        /\ ~Exists(tokens, n) => revoked[n] = tokens[n]
    BY <1>2, RevokedTokens DEF Basic
  <2>2. CASE n = t
    <3>1. /\ tokens'[t] \in TokenRow
          /\ tokens'[t].session = revoked[t].session
          /\ tokens'[t].parent = revoked[t].parent
          /\ tokens'[t].used = revoked[t].used
          /\ tokens'[t].revoked = revoked[t].revoked
      <4>1. revoked[t] \in TokenRow
        BY <1>1, <2>1, <2>2
      <4> HIDE DEF revoked
      <4> QED
        BY <1>1, <1>4, <4>1 DEF TokenRow
    <3> QED
      BY <1>1, <2>1, <2>2, <3>1, RowAssumption DEF Exists
  <2>3. CASE n # t
    <3>1. tokens'[n] = revoked[n]
      BY <1>1, <1>4, <2>3
    <3> HIDE DEF revoked
    <3> QED
      BY <2>1, <3>1, RowAssumption DEF Exists
  <2> QED
    BY <2>2, <2>3
<1>6. Revokes({s})
  BY <1>3, <1>5 DEF Revokes
<1> QED
  BY <1>2, <1>6

\* revoke_session on the tokens of sessions that are left revoked.
LEMMA RevokesAll ==
    ASSUME Basic, NEW ss \in SUBSET Session, Closes(ss), tokens' = revoke_session(ss)
    PROVE  Revokes(ss)
<1> SUFFICES ASSUME NEW n \in Token
             PROVE  IF Exists(tokens, n) /\ tokens[n].session \in ss
                    THEN /\ Exists(tokens', n)
                         /\ tokens'[n].session = tokens[n].session
                         /\ tokens'[n].parent = tokens[n].parent
                         /\ tokens'[n].used = tokens[n].used
                         /\ tokens'[n].revoked
                         /\ tokens'[n].reuse => tokens[n].reuse \/ tokens[n].used
                    ELSE tokens'[n] = tokens[n]
  BY DEF Revokes
<1> QED
  BY RevokedTokens, RowAssumption DEF Basic, Exists

LEMMA LogoutStep ==
    ASSUME Basic, NEW r \in Request, logout(r)
    PROVE  TableStep
<1> DEFINE s == local[r].session
<1>1. s \in Session /\ Exists(sessions, s)
  BY DEF logout, At, Basic, RowsAreThere, FindsItsRows
<1>2. CASE sessions[s].revoked # NONE
  BY <1>2, QuietSteps DEF logout, TableStep
<1>3. CASE sessions[s].revoked = NONE
  <2>1. sessions' = revoke(s, "user_logout") /\ tokens' = revoke_session({s})
    BY <1>3 DEF logout
  <2>2. Closes({s})
    BY <1>1, <2>1, RevokeCloses DEF Reason
  <2>3. Revokes({s})
    BY <1>1, <2>1, <2>2, RevokesAll
  <2> QED
    BY <1>1, <2>3 DEF TableStep
<1> QED
  BY <1>2, <1>3

LEMMA LifecycleCommits ==
    ASSUME Basic, NEW r \in Request, reset_commit(r) \/ anonymize_account(r)
    PROVE  \E ss \in SUBSET Session : Revokes(ss) \/ Deletes(ss)
<1> DEFINE u == local[r].user
<1>1. FindsItsRows(r)
  BY DEF Basic, RowsAreThere
<1>2. SessionsOf(u) \in SUBSET Session
  BY DEF SessionsOf
<1>3. CASE reset_commit(r)
  <2>1. /\ u \in User
        /\ sessions' = revoke_all_by_user(u, "password_reset")
        /\ tokens' = revoke_session(SessionsOf(u))
    BY <1>1, <1>3 DEF reset_commit, At, FindsItsRows
  <2> HIDE DEF u
  <2>2. Closes(SessionsOf(u))
    BY <2>1, RevokeAllCloses DEF Reason
  <2> QED
    BY <1>2, <2>1, <2>2, RevokesAll
<1>4. CASE anonymize_account(r)
  <2>1. /\ u \in User
        /\ sessions' = revoke_and_anonymize_all_by_user(u, "owner_anonymized")
        /\ tokens' = delete_for_sessions(SessionsOf(u))
    BY <1>1, <1>4, RowsExist DEF anonymize_account, At, FindsItsRows, Basic, SessionRow
  <2> HIDE DEF u
  <2>2. Closes(SessionsOf(u))
    BY <2>1, RevokeAllCloses DEF Reason
  <2>3. Deletes(SessionsOf(u))
    BY <2>1, <2>2 DEF Deletes, delete_for_sessions
  <2> QED
    BY <1>2, <2>3
<1> QED
  BY <1>3, <1>4

LEMMA TableSteps ==
    ASSUME Basic, [Next]_vars
    PROVE  TableStep
<1> USE QuietSteps DEF TableStep, rows
<1>1. ASSUME NEW r \in Request, AuthStart(r) PROVE TableStep
  BY <1>1, ReplayRevokes DEF AuthStart, verify_credentials, refresh_lock,
                             authenticate_session
<1>2. ASSUME NEW r \in Request, LifecycleStart(r) PROVE TableStep
  BY <1>2 DEF LifecycleStart, register, register_existing, reset_request,
              verify_consume, reset_find
<1>3. ASSUME NEW r \in Request, AuthStep(r) PROVE TableStep
  BY <1>3, LoginOpens, RefreshRotates, LogoutStep DEF AuthStep, refresh_rejected,
     authenticate_user, authenticate_rejected, current_user, logout_rejected
<1>4. ASSUME NEW r \in Request, LifecycleStep(r) PROVE TableStep
  BY <1>4, LifecycleCommits DEF LifecycleStep, register_lock, register_rejected,
     register_issue, verify_activate, verify_rejected, reset_lock, reset_rejected,
     anonymize_check, anonymize_rejected, anonymize_lock, anonymize_repeated
<1>5. ASSUME NEW r \in Request, deadlock_victim(r) \/ failure(r) PROVE TableStep
  BY <1>5 DEF deadlock_victim, failure
<1>6. ASSUME NEW s \in Session, session_expires(s) PROVE TableStep
  BY <1>6, ExpiryIsQuiet
<1>7. ASSUME NEW c \in Challenge, challenge_expires(c) PROVE TableStep
  BY <1>7 DEF challenge_expires
<1>8. CASE UNCHANGED vars
  BY <1>8 DEF vars
<1> QED
  BY <1>1, <1>2, <1>3, <1>4, <1>5, <1>6, <1>7, <1>8 DEF Next, RequestStep

----------------------------------------------------------------------------
(* The invariant *)

\* Token n took over from t.
Follows(n, t) == Exists(tokens, n) /\ tokens[n].parent = t

\* A token that took over did so from a token that is still there, in the same
\* session, and is used; no two took over from the same one; and a used token
\* was taken over from.
Chained ==
    /\ \A n \in Token : Exists(tokens, n) /\ tokens[n].parent # NONE =>
            LET t == tokens[n].parent IN
            /\ t \in Token /\ Exists(tokens, t)
            /\ tokens[t].session = tokens[n].session
            /\ tokens[t].used
    /\ \A n, m \in Token :
            Exists(tokens, n) /\ Exists(tokens, m) /\ n # m =>
                tokens[n].parent # tokens[m].parent \/ tokens[n].parent = NONE
    /\ \A t \in Token : Exists(tokens, t) /\ tokens[t].used =>
            \E n \in Token : Follows(n, t)

\* A token presented again had been used, and its session is revoked.
ReplayRevoked ==
    \A t \in Token : Exists(tokens, t) /\ tokens[t].reuse =>
        tokens[t].used /\ sessions[tokens[t].session].revoked # NONE

\* The live token of a session is the one its CSRF secret was issued with.
SoundSession(s) ==
    Exists(sessions, s) =>
        IF sessions[s].revoked = NONE
        THEN /\ sessions[s].csrf \in TokensOf(s)
             /\ \A n \in TokensOf(s) : LiveToken(n) <=> n = sessions[s].csrf
        ELSE \A n \in TokensOf(s) : ~LiveToken(n)

\* With Basic, the inductive invariant of the rotation.
Rotation == /\ \A s \in Session : SoundSession(s)
            /\ Chained
            /\ ReplayRevoked

\* A rotation finds no token already following the one it replaces: that one
\* is not used.
LEMMA LiveHasNoSuccessor ==
    ASSUME Basic, Chained, NEW t \in Token, LiveToken(t), NEW n \in Token, Exists(tokens, n)
    PROVE  tokens[n].parent # t
<1>1. t # NONE
  BY StoreAssumption
<1> QED
  BY <1>1 DEF Chained, LiveToken

\* A session whose row is kept, and whose tokens are the same rows, stays sound.
LEMMA UntouchedSession ==
    ASSUME NEW x \in Session, SoundSession(x), SessionKept(x),
           \A n \in Token : n \in TokensOf(x) \/ n \in TokensOf(x)' =>
                tokens'[n] = tokens[n]
    PROVE  SoundSession(x)'
<1>1. \A n \in Token : Exists(tokens', n) /\ tokens'[n].session = x
                        <=> Exists(tokens, n) /\ tokens[n].session = x
  BY DEF TokensOf, Exists
<1> QED
  BY <1>1 DEF SoundSession, SessionKept, TokensOf, LiveToken, Exists

LEMMA QuietRotation ==
    ASSUME Basic, Rotation, Quiet
    PROVE  Rotation'
<1> USE DEF Rotation, Quiet
<1>1. \A t \in Token : Exists(tokens, t) =>
          tokens[t].session \in Session /\ Exists(sessions, tokens[t].session)
  BY TokensHaveSessions
<1>2. \A s \in Session : SoundSession(s)'
  BY UntouchedSession
<1>3. Chained'
  BY DEF Chained, Follows, Exists
<1>4. ReplayRevoked'
  BY <1>1 DEF ReplayRevoked, SessionKept, Exists
<1> QED
  BY <1>2, <1>3, <1>4

LEMMA OpensRotation ==
    ASSUME Basic, Rotation, NEW s \in Session, NEW t \in Token, OpensWith(s, t)
    PROVE  Rotation'
<1> USE DEF Rotation
<1>1. /\ sessions[s] = Unissued /\ tokens[t] = Unissued
      /\ Exists(sessions', s)
      /\ sessions'[s].revoked = NONE /\ sessions'[s].csrf = t
      /\ \A x \in Session \ {s} : SessionKept(x)
      /\ \A n \in Token \ {t} : tokens'[n] = tokens[n]
  BY DEF OpensWith
<1>2. /\ tokens'[t] \in TokenRow
      /\ tokens'[t].session = s /\ tokens'[t].parent = NONE
      /\ tokens'[t].used = FALSE /\ tokens'[t].revoked = FALSE /\ tokens'[t].reuse = FALSE
  BY DEF OpensWith, TokenRow
<1>3. Exists(tokens', t) /\ LiveToken(t)'
  BY <1>2, RowAssumption DEF LiveToken, Exists
<1>4. /\ ~Exists(tokens, t)
      /\ \A n \in Token : Exists(tokens, n) => n # t /\ tokens[n].session # s
  BY <1>1, TokensHaveSessions DEF Exists
<1>5. ASSUME NEW x \in Session
      PROVE  SoundSession(x)'
  <2>1. CASE x = s
    BY <1>1, <1>2, <1>3, <1>4, <2>1 DEF SoundSession, TokensOf, LiveToken, Exists
  <2>2. CASE x # s
    <3>1. \A n \in Token : n \in TokensOf(x) \/ n \in TokensOf(x)' => n # t
      BY <1>2, <1>4, <2>2 DEF TokensOf
    <3> QED
      BY <1>1, <2>2, <3>1, UntouchedSession
  <2> QED
    BY <2>1, <2>2
<1>6. Chained'
  BY <1>1, <1>2, <1>3, <1>4 DEF Chained, Follows, Exists
<1>7. ReplayRevoked'
  <2>1. ASSUME NEW n \in Token, Exists(tokens', n), tokens'[n].reuse
        PROVE  tokens'[n].used /\ sessions'[tokens'[n].session].revoked # NONE
    <3>1. n # t
      BY <1>2, <2>1
    <3>2. tokens'[n] = tokens[n] /\ Exists(tokens, n)
      BY <1>1, <2>1, <3>1 DEF Exists
    <3>3. /\ tokens[n].session \in Session \ {s}
          /\ Exists(sessions, tokens[n].session)
      BY <1>4, <3>2, TokensHaveSessions
    <3> QED
      BY <1>1, <2>1, <3>2, <3>3 DEF ReplayRevoked, SessionKept
  <2> QED
    BY <2>1 DEF ReplayRevoked
<1> QED
  BY <1>5, <1>6, <1>7

LEMMA RotatesRotation ==
    ASSUME Basic, Rotation, NEW s \in Session, NEW old \in Token, NEW t \in Token,
           Rotates(s, old, t)
    PROVE  Rotation'
<1> USE DEF Rotation
<1>1. /\ tokens[t] = Unissued
      /\ LiveToken(old) /\ tokens[old].session = s
      /\ Exists(sessions, s) /\ sessions[s].revoked = NONE
      /\ Exists(sessions', s)
      /\ sessions'[s].revoked = NONE /\ sessions'[s].csrf = t
      /\ Exists(tokens', old)
      /\ tokens'[old].session = s /\ tokens'[old].parent = tokens[old].parent
      /\ tokens'[old].used /\ tokens'[old].reuse = tokens[old].reuse
      /\ \A x \in Session \ {s} : SessionKept(x)
      /\ \A n \in Token \ {old, t} : tokens'[n] = tokens[n]
  BY DEF Rotates
<1>2. /\ tokens'[t] \in TokenRow
      /\ tokens'[t].session = s /\ tokens'[t].parent = old
      /\ tokens'[t].used = FALSE /\ tokens'[t].revoked = FALSE /\ tokens'[t].reuse = FALSE
  BY DEF Rotates, TokenRow
<1>3. Exists(tokens', t) /\ LiveToken(t)'
  BY <1>2, RowAssumption DEF LiveToken, Exists
<1>4. ~Exists(tokens, t) /\ old # t /\ Exists(tokens, old) /\ ~tokens[old].used
  BY <1>1 DEF LiveToken, Exists
<1>5. \A n \in TokensOf(s) : LiveToken(n) <=> n = old
  BY <1>1, <1>4 DEF SoundSession, TokensOf
<1>6. ASSUME NEW x \in Session
      PROVE  SoundSession(x)'
  <2>1. CASE x = s
    <3>1. \A n \in Token : Exists(tokens', n) /\ tokens'[n].session = s =>
              (LiveToken(n)' <=> n = t)
      BY <1>1, <1>2, <1>3, <1>4, <1>5 DEF TokensOf, LiveToken, Exists
    <3> QED
      BY <1>1, <1>2, <1>3, <2>1, <3>1 DEF SoundSession, TokensOf, LiveToken
  <2>2. CASE x # s
    <3>1. \A n \in Token : n \in TokensOf(x) \/ n \in TokensOf(x)' => n \notin {old, t}
      BY <1>1, <1>2, <1>4, <2>2 DEF TokensOf
    <3> QED
      BY <1>1, <2>2, <3>1, UntouchedSession
  <2> QED
    BY <2>1, <2>2
<1>7. Chained'
  <2>1. ASSUME NEW n \in Token, Exists(tokens, n)
        PROVE  /\ n # t /\ tokens[n].parent # old /\ Exists(tokens', n)
               /\ tokens'[n].parent = tokens[n].parent
               /\ tokens'[n].session = tokens[n].session
               /\ tokens[n].used => tokens'[n].used
               /\ tokens'[n].used => tokens[n].used \/ n = old
    BY <1>1, <1>4, <2>1, LiveHasNoSuccessor DEF Exists
  <2>2. ASSUME NEW n \in Token, Exists(tokens', n), n # t
        PROVE  Exists(tokens, n)
    BY <1>1, <1>4, <2>2 DEF Exists
  <2>3. \A n \in Token : Exists(tokens', n) /\ tokens'[n].parent # NONE =>
            LET p == tokens'[n].parent IN
            /\ p \in Token /\ Exists(tokens', p)
            /\ tokens'[p].session = tokens'[n].session
            /\ tokens'[p].used
    BY <1>1, <1>2, <2>1, <2>2 DEF Chained
  <2>4. \A n, m \in Token :
            Exists(tokens', n) /\ Exists(tokens', m) /\ n # m =>
                tokens'[n].parent # tokens'[m].parent \/ tokens'[n].parent = NONE
    BY <1>2, <2>1, <2>2 DEF Chained
  <2>5. ASSUME NEW n \in Token, Exists(tokens', n), tokens'[n].used
        PROVE  \E m \in Token : Exists(tokens', m) /\ tokens'[m].parent = n
    <3>1. CASE n = old
      BY <1>2, <1>3, <3>1
    <3>2. CASE n # old
      BY <1>2, <2>1, <2>2, <2>5, <3>2 DEF Chained, Follows
    <3> QED
      BY <3>1, <3>2
  <2> QED
    BY <2>3, <2>4, <2>5 DEF Chained, Follows
<1>8. ReplayRevoked'
  <2>1. ASSUME NEW n \in Token, Exists(tokens', n), tokens'[n].reuse
        PROVE  tokens'[n].used /\ sessions'[tokens'[n].session].revoked # NONE
    <3>1. n # t /\ n # old
      BY <1>1, <1>2, <1>4, <2>1 DEF ReplayRevoked
    <3>2. tokens'[n] = tokens[n] /\ Exists(tokens, n)
      BY <1>1, <2>1, <3>1 DEF Exists
    <3>3. /\ tokens[n].session \in Session
          /\ Exists(sessions, tokens[n].session)
          /\ sessions[tokens[n].session].revoked # NONE /\ tokens[n].used
      BY <2>1, <3>2, TokensHaveSessions DEF ReplayRevoked
    <3> QED
      BY <1>1, <3>2, <3>3 DEF SessionKept
  <2> QED
    BY <2>1 DEF ReplayRevoked
<1> QED
  BY <1>6, <1>7, <1>8

LEMMA RevokesRotation ==
    ASSUME Basic, Rotation, NEW ss \in SUBSET Session, Revokes(ss)
    PROVE  Rotation'
<1> USE DEF Rotation
<1>1. /\ \A s \in ss : /\ Exists(sessions, s) /\ Exists(sessions', s)
                       /\ sessions'[s].revoked # NONE
      /\ \A s \in Session \ ss : SessionKept(s)
  BY DEF Revokes, Closes
<1>2. /\ \A t \in Token : Exists(tokens', t) <=> Exists(tokens, t)
      /\ \A t \in Token : Exists(tokens, t) =>
            /\ tokens'[t].session = tokens[t].session
            /\ tokens'[t].parent = tokens[t].parent
            /\ tokens'[t].used = tokens[t].used
            /\ tokens'[t].reuse => tokens[t].reuse \/ tokens[t].used
            /\ tokens[t].session \in ss => tokens'[t].revoked
            /\ tokens[t].session \notin ss => tokens'[t] = tokens[t]
  BY DEF Revokes, Exists
<1>3. ASSUME NEW x \in Session
      PROVE  SoundSession(x)'
  <2>1. CASE x \in ss
    BY <1>1, <1>2, <2>1 DEF SoundSession, TokensOf, LiveToken
  <2>2. CASE x \notin ss
    <3>1. \A n \in Token : n \in TokensOf(x) \/ n \in TokensOf(x)' =>
              tokens'[n] = tokens[n]
      BY <1>2, <2>2 DEF TokensOf
    <3> QED
      BY <1>1, <2>2, <3>1, UntouchedSession
  <2> QED
    BY <2>1, <2>2
<1>4. Chained'
  BY <1>2 DEF Chained, Follows
<1>5. ReplayRevoked'
  <2>1. ASSUME NEW n \in Token, Exists(tokens', n), tokens'[n].reuse
        PROVE  tokens'[n].used /\ sessions'[tokens'[n].session].revoked # NONE
    <3>1. /\ tokens[n].session \in Session
          /\ Exists(sessions, tokens[n].session)
          /\ Exists(tokens, n)
      BY <1>2, <2>1, TokensHaveSessions
    <3>2. CASE tokens[n].session \in ss
      BY <1>1, <1>2, <2>1, <3>1, <3>2 DEF ReplayRevoked
    <3>3. CASE tokens[n].session \notin ss
      BY <1>1, <1>2, <2>1, <3>1, <3>3 DEF ReplayRevoked, SessionKept
    <3> QED
      BY <3>2, <3>3
  <2> QED
    BY <2>1 DEF ReplayRevoked
<1> QED
  BY <1>3, <1>4, <1>5

LEMMA DeletesRotation ==
    ASSUME Basic, Rotation, NEW ss \in SUBSET Session, Deletes(ss)
    PROVE  Rotation'
<1> USE DEF Rotation
<1>1. /\ \A s \in ss : /\ Exists(sessions, s) /\ Exists(sessions', s)
                       /\ sessions'[s].revoked # NONE
      /\ \A s \in Session \ ss : SessionKept(s)
  BY DEF Deletes, Closes
<1>2. \A t \in Token :
          /\ Exists(tokens', t) <=> Exists(tokens, t) /\ tokens[t].session \notin ss
          /\ Exists(tokens', t) => tokens'[t] = tokens[t]
  BY DEF Deletes, Exists
<1>3. ASSUME NEW x \in Session
      PROVE  SoundSession(x)'
  <2>1. CASE x \in ss
    BY <1>1, <1>2, <2>1 DEF SoundSession, TokensOf
  <2>2. CASE x \notin ss
    <3>1. \A n \in Token : n \in TokensOf(x) \/ n \in TokensOf(x)' =>
              tokens'[n] = tokens[n]
      BY <1>2, <2>2 DEF TokensOf
    <3> QED
      BY <1>1, <2>2, <3>1, UntouchedSession
  <2> QED
    BY <2>1, <2>2
<1>4. Chained'
  <2>1. \A n \in Token : Exists(tokens', n) /\ tokens[n].parent # NONE =>
            LET p == tokens[n].parent IN
            /\ p \in Token /\ Exists(tokens', p)
            /\ tokens[p].session = tokens[n].session
            /\ tokens[p].used
    BY <1>2 DEF Chained
  <2>2. ASSUME NEW t \in Token, Exists(tokens', t), tokens[t].used
        PROVE  \E n \in Token : Exists(tokens', n) /\ tokens[n].parent = t
    <3>1. PICK n \in Token : Exists(tokens, n) /\ tokens[n].parent = t
      BY <1>2, <2>2 DEF Chained, Follows
    <3>2. t # NONE
      BY StoreAssumption
    <3>3. tokens[n].session = tokens[t].session
      BY <3>1, <3>2 DEF Chained
    <3> QED
      BY <1>2, <2>2, <3>1, <3>3
  <2>3. \A n \in Token : Exists(tokens', n) /\ tokens'[n].parent # NONE =>
            LET p == tokens'[n].parent IN
            /\ p \in Token /\ Exists(tokens', p)
            /\ tokens'[p].session = tokens'[n].session
            /\ tokens'[p].used
    BY <1>2, <2>1
  <2>4. \A n, m \in Token :
            Exists(tokens', n) /\ Exists(tokens', m) /\ n # m =>
                tokens'[n].parent # tokens'[m].parent \/ tokens'[n].parent = NONE
    BY <1>2 DEF Chained
  <2>5. \A t \in Token : Exists(tokens', t) /\ tokens'[t].used =>
            \E n \in Token : Exists(tokens', n) /\ tokens'[n].parent = t
    BY <1>2, <2>2
  <2> QED
    BY <2>3, <2>4, <2>5 DEF Chained, Follows
<1>5. ReplayRevoked'
  <2>1. ASSUME NEW n \in Token, Exists(tokens', n), tokens'[n].reuse
        PROVE  tokens'[n].used /\ sessions'[tokens'[n].session].revoked # NONE
    <3>1. /\ tokens'[n] = tokens[n]
          /\ tokens[n].session \in Session \ ss
          /\ Exists(sessions, tokens[n].session)
          /\ Exists(tokens, n)
      BY <1>2, <2>1, TokensHaveSessions
    <3> QED
      BY <1>1, <2>1, <3>1 DEF ReplayRevoked, SessionKept
  <2> QED
    BY <2>1 DEF ReplayRevoked
<1> QED
  BY <1>3, <1>4, <1>5

LEMMA RotationInductive ==
    /\ Init => Rotation
    /\ Basic /\ Rotation /\ [Next]_vars => Rotation'
<1>1. ASSUME Init
      PROVE  Rotation
  <2>1. /\ \A s \in Session : ~Exists(sessions, s)
        /\ \A t \in Token : ~Exists(tokens, t)
    BY <1>1 DEF Init, Exists
  <2> QED
    BY <2>1 DEF Rotation, SoundSession, Chained, ReplayRevoked
<1>2. ASSUME Basic, Rotation, [Next]_vars
      PROVE  Rotation'
  BY <1>2, TableSteps, QuietRotation, OpensRotation, RotatesRotation, RevokesRotation,
     DeletesRotation DEF TableStep
<1> QED
  BY <1>1, <1>2

----------------------------------------------------------------------------
(* Theorems *)

LEMMA AlwaysRotation == Spec => [](Basic /\ Rotation)
<1>1. Init => Basic /\ Rotation
  BY InitBasic, RotationInductive
<1>2. Basic /\ Rotation /\ [Next]_vars => (Basic /\ Rotation)'
  BY NextBasic, RotationInductive
<1> QED
  BY <1>1, <1>2, PTL DEF Spec

\* AuthService.refresh, logout and the resets, however they overlap, leave an
\* unrevoked session exactly one refresh token that works, and a revoked one
\* none.
THEOREM OneLiveToken == Spec => []LiveSessionHasOneLiveToken
<1>1. Rotation => LiveSessionHasOneLiveToken
  BY DEF Rotation, SoundSession, LiveSessionHasOneLiveToken
<1> QED
  BY <1>1, AlwaysRotation, PTL

\* AuthService.refresh replaces a token once, by one of the same session.
THEOREM TokensFormAChain == Spec => []RotationIsLinear
<1>1. ASSUME Basic, Rotation
      PROVE  RotationIsLinear
  <2> SUFFICES ASSUME NEW t \in Token, Exists(tokens, t)
               PROVE  LET successors == {n \in Token : Exists(tokens, n)
                                                        /\ tokens[n].parent = t} IN
                      /\ tokens[t].used <=> successors # {}
                      /\ \A n, m \in successors : n = m
                      /\ \A n \in successors : tokens[n].session = tokens[t].session
    BY DEF RotationIsLinear
  <2>1. t # NONE /\ tokens[t].used \in BOOLEAN
    BY <1>1, StoreAssumption, RowsExist DEF Basic, TokenRow
  <2> QED
    BY <1>1, <2>1 DEF Rotation, Chained, Follows
<1> QED
  BY <1>1, AlwaysRotation, PTL

\* The CSRF hash that AuthService.refresh and logout compare with was written
\* by the login or rotation that issued the live token.
THEOREM CsrfIsCurrent == Spec => []CsrfFollowsRotation
<1>1. Rotation => CsrfFollowsRotation
  BY DEF Rotation, SoundSession, CsrfFollowsRotation, TokensOf
<1> QED
  BY <1>1, AlwaysRotation, PTL

\* After _revoke_compromised_session the session is over, for good.
THEOREM ReplayIsFinal == Spec => []ReplayEndsSession
<1>1. ASSUME Basic, Rotation
      PROVE  ReplayEndsSession
  BY <1>1, TokensHaveSessions DEF Rotation, SoundSession, ReplayRevoked, ReplayEndsSession
<1> QED
  BY <1>1, AlwaysRotation, PTL
=============================================================================

---------------------------- MODULE AccountProofs ----------------------------
(***************************************************************************)
(* Accounts, their challenges and the access of their sessions, for any    *)
(* numbers of accounts, sessions, challenges and requests.                 *)
(*                                                                         *)
(* As for the tokens, what a step can do to the three tables is listed     *)
(* first, as one of ten things; that each action does one of them rests on *)
(* what its request knows of the rows it has looked at.                    *)
(***************************************************************************)
EXTENDS IdentityProofs, FiniteSetTheorems

----------------------------------------------------------------------------
(* The invariant *)

\* Challenge c is live, and one of account u for this purpose.
LiveFor(c, u, purpose) ==
    /\ LiveChallenge(c)
    /\ challenges[c].user = u
    /\ challenges[c].purpose = purpose

\* An account that has a session has been active, and no session is ahead of its
\* token_version; an account that has a challenge exists.
RowsAgree ==
    /\ \A s \in Session : Exists(sessions, s) =>
            LET u == sessions[s].user IN
            /\ users[u].status \in {"active", "anonymized"}
            /\ sessions[s].version <= users[u].version
    /\ \A c \in Challenge : Exists(challenges, c) =>
            users[challenges[c].user].status # "absent"

\* What request r has seen of its account and its challenge, by a read or under
\* a lock, and what is left of it by its next step.
Knows(r) ==
    LET u == local[r].user
        c == local[r].challenge IN
    /\ pc[r] = "login_open" => /\ users[u].status \in {"active", "anonymized"}
                               /\ local[r].version <= users[u].version
    /\ pc[r] = "auth_user" /\ ~local[r].wasLive =>
            users[u].status # "active" \/ users[u].version # local[r].version
    /\ pc[r] = "principal" => local[r].wasLive
    /\ pc[r] \in {"register_lock", "register_issue"} => users[u].status # "absent"
    /\ pc[r] = "verify_activate" => LiveFor(c, u, "email_verification")
    /\ pc[r] = "reset_lock" => \/ challenges[c] = Deleted
                               \/ /\ Exists(challenges, c)
                                  /\ challenges[c].user = u
                                  /\ challenges[c].purpose = "password_reset"
    /\ pc[r] = "reset_commit" => /\ users[u].status = "active"
                                 /\ LiveFor(c, u, "password_reset")
    /\ pc[r] = "anonymize_commit" => users[u].status = "active"

AccountsSound == Basic /\ RowsAgree /\ \A r \in Request : Knows(r)

----------------------------------------------------------------------------
(* What a step does to accounts, sessions and challenges *)

\* Session s is there as much as it was, and says the same of its access.
Same(s) ==
    /\ Exists(sessions', s) <=> Exists(sessions, s)
    /\ Exists(sessions, s) => /\ sessions'[s].user = sessions[s].user
                              /\ sessions'[s].version = sessions[s].version
                              /\ sessions'[s].revoked = sessions[s].revoked
                              /\ sessions'[s].expired = sessions[s].expired

SessionsSame == \A s \in Session : Same(s)

\* Session s gets a new state of its own; accounts and challenges stay.
Only(s) ==
    /\ users' = users /\ challenges' = challenges
    /\ Exists(sessions', s)
    /\ \A x \in Session \ {s} : Same(x)

\* Session s is opened for an account that has been active, with a version it
\* has had.
Opens(s) ==
    /\ Only(s)
    /\ sessions[s] = Unissued
    /\ sessions'[s].user \in User
    /\ users[sessions'[s].user].status \in {"active", "anonymized"}
    /\ sessions'[s].version <= users[sessions'[s].user].version
    /\ sessions'[s].revoked = NONE

Expires(s) ==
    /\ Only(s)
    /\ Exists(sessions, s)
    /\ sessions'[s].user = sessions[s].user
    /\ sessions'[s].version = sessions[s].version
    /\ sessions'[s].revoked = sessions[s].revoked
    /\ sessions'[s].expired

Ends(s) ==
    /\ Only(s)
    /\ Exists(sessions, s)
    /\ sessions'[s].user = sessions[s].user
    /\ sessions'[s].version = sessions[s].version
    /\ sessions[s].revoked = NONE /\ sessions'[s].revoked # NONE

\* All sessions of u end; one that had ended keeps its reason, or gets that of
\* an anonymization.
EndsAll(u) ==
    \A s \in Session :
        IF s \in SessionsOf(u)
        THEN /\ Exists(sessions', s)
             /\ sessions'[s].user = sessions[s].user
             /\ sessions'[s].version = sessions[s].version
             /\ sessions'[s].revoked # NONE
             /\ sessions[s].revoked # NONE =>
                    sessions'[s].revoked \in {sessions[s].revoked, "owner_anonymized"}
        ELSE Same(s)

Ages(c) ==
    /\ users' = users /\ SessionsSame
    /\ LiveChallenge(c)
    /\ challenges' = [challenges EXCEPT ![c].expired = TRUE]

Registers(u, c) ==
    /\ SessionsSame
    /\ users[u] = Absent /\ users' = [users EXCEPT ![u] = Pending]
    /\ challenges[c] = Unissued
    /\ challenges' = issue(c, u, "email_verification")

Reissues(u, c, purpose) ==
    /\ users' = users /\ SessionsSame
    /\ users[u].status # "absent"
    /\ challenges[c] = Unissued
    /\ challenges' = issue(c, u, purpose)

Activates(u, c) ==
    /\ SessionsSame
    /\ users[u].status = "pending"
    /\ users' = [users EXCEPT ![u].status = "active"]
    /\ LiveFor(c, u, "email_verification")
    /\ challenges' = [challenges EXCEPT ![c].state = "used"]

Resets(u, c) ==
    /\ EndsAll(u)
    /\ users[u].status = "active"
    /\ users' = [users EXCEPT ![u].version = @ + 1]
    /\ LiveFor(c, u, "password_reset")
    /\ challenges' = [challenges EXCEPT ![c].state = "used"]

Anonymizes(u) ==
    /\ EndsAll(u)
    /\ users[u].status = "active"
    /\ users' = [users EXCEPT ![u] = [status |-> "anonymized",
                                      version |-> @.version + 1,
                                      workspace |-> "blocked"]]
    /\ challenges' = delete_for_user(u)

Still == users' = users /\ challenges' = challenges /\ SessionsSame

AccountStep ==
    \/ Still
    \/ \E s \in Session : Opens(s) \/ Expires(s) \/ Ends(s)
    \/ \E c \in Challenge : Ages(c)
    \/ \E u \in User, c \in Challenge :
        \/ Registers(u, c) \/ Activates(u, c) \/ Resets(u, c)
        \/ \E p \in Purpose : Reissues(u, c, p)
    \/ \E u \in User : Anonymizes(u)

----------------------------------------------------------------------------
(* Steps preserve what other requests know *)

\* What a step writes spares the rows that request q has locked.
Spared(q) ==
    /\ \A u \in User : userLock[u] = q /\ users[u].status # "absent" => users'[u] = users[u]
    /\ \A c \in Challenge : challengeLock[c] = q /\ LiveChallenge(c) =>
            /\ LiveChallenge(c)'
            /\ challenges'[c].user = challenges[c].user
            /\ challenges'[c].purpose = challenges[c].purpose

Rests(q) == pc'[q] = pc[q] /\ local'[q] = local[q]

\* Accounts only go forward, and a challenge stays what it is until it is deleted.
Forward ==
    /\ \A u \in User :
        /\ users'[u].version \in Nat
        /\ users[u].version <= users'[u].version
        /\ users[u].status # "absent" => users'[u].status # "absent"
        /\ users[u].status \in {"active", "anonymized"} =>
                users'[u].status \in {"active", "anonymized"}
        /\ users[u].status = "anonymized" => users'[u] = users[u]
    /\ \A c \in Challenge : challenges[c] # Unissued =>
        \/ challenges'[c] = Deleted
        \/ /\ Exists(challenges, c) /\ Exists(challenges', c)
           /\ challenges'[c].user = challenges[c].user
           /\ challenges'[c].purpose = challenges[c].purpose

\* The rows of a table after issue: the new one, those it replaces, the others.
LEMMA IssueKeeps ==
    ASSUME NEW c \in Challenge, NEW u \in User, NEW p \in Purpose,
           NEW d \in Challenge, d # c, ~LiveFor(d, u, p)
    PROVE  issue(c, u, p)[d] = challenges[d]
<1>1. d \notin ActiveChallenges(u, p)
  BY DEF ActiveChallenges, ChallengesOf, LiveFor, LiveChallenge
<1> QED
  BY <1>1 DEF issue

LEMMA IssueIs ==
    ASSUME NEW c \in Challenge, NEW u \in User, NEW p \in Purpose
    PROVE  issue(c, u, p)[c] = [user |-> u, purpose |-> p, state |-> "live",
                                expired |-> FALSE]
BY DEF issue

LEMMA IssueReplaces ==
    ASSUME TypeOK, NEW c \in Challenge, NEW u \in User, NEW p \in Purpose,
           NEW d \in Challenge, d # c, LiveFor(d, u, p)
    PROVE  /\ issue(c, u, p)[d] \in ChallengeRow
           /\ issue(c, u, p)[d].user = u
           /\ issue(c, u, p)[d].purpose = p
           /\ issue(c, u, p)[d].state = "invalidated"
<1>1. d \in ActiveChallenges(u, p)
  BY DEF ActiveChallenges, ChallengesOf, LiveFor, LiveChallenge
<1>2. issue(c, u, p)[d] = [challenges[d] EXCEPT !.state = "invalidated"]
  BY <1>1 DEF issue
<1>3. challenges[d] \in ChallengeRow
  BY RowsExist DEF LiveFor, LiveChallenge
<1>4. /\ [challenges[d] EXCEPT !.state = "invalidated"] \in ChallengeRow
      /\ [challenges[d] EXCEPT !.state = "invalidated"].user = u
      /\ [challenges[d] EXCEPT !.state = "invalidated"].purpose = p
      /\ [challenges[d] EXCEPT !.state = "invalidated"].state = "invalidated"
  BY <1>3 DEF ChallengeRow, LiveFor
<1> QED
  BY <1>2, <1>4

\* A challenge that changes its state or its expiry stays one of its account.
LEMMA MarkIs ==
    ASSUME TypeOK, NEW c \in Challenge, Exists(challenges, c),
           \/ challenges' = [challenges EXCEPT ![c].state = "used"]
           \/ challenges' = [challenges EXCEPT ![c].expired = TRUE]
    PROVE  /\ Exists(challenges', c)
           /\ challenges'[c] \in ChallengeRow
           /\ challenges'[c].user = challenges[c].user
           /\ challenges'[c].purpose = challenges[c].purpose
           /\ challenges' = [challenges EXCEPT ![c].state = "used"] =>
                challenges'[c].state = "used"
           /\ challenges' = [challenges EXCEPT ![c].expired = TRUE] =>
                challenges'[c].state = challenges[c].state
           /\ \A d \in Challenge \ {c} : challenges'[d] = challenges[d]
<1>1. challenges[c] \in ChallengeRow
  BY RowsExist
<1>2. /\ [challenges[c] EXCEPT !.state = "used"] \in ChallengeRow
      /\ [challenges[c] EXCEPT !.expired = TRUE] \in ChallengeRow
  BY <1>1 DEF ChallengeRow
<1>3. ASSUME challenges' = [challenges EXCEPT ![c].state = "used"]
      PROVE  /\ challenges'[c] = [challenges[c] EXCEPT !.state = "used"]
             /\ \A d \in Challenge \ {c} : challenges'[d] = challenges[d]
  BY <1>3 DEF TypeOK
<1>4. ASSUME challenges' = [challenges EXCEPT ![c].expired = TRUE]
      PROVE  /\ challenges'[c] = [challenges[c] EXCEPT !.expired = TRUE]
             /\ \A d \in Challenge \ {c} : challenges'[d] = challenges[d]
  BY <1>4 DEF TypeOK
<1>5. challenges'[c] \in ChallengeRow => Exists(challenges', c)
  BY RowAssumption DEF Exists
<1> QED
  BY <1>1, <1>2, <1>3, <1>4, <1>5 DEF ChallengeRow

\* What each of the ten things does to accounts.
LEMMA UserSteps ==
    ASSUME TypeOK, AccountStep, NEW u \in User
    PROVE  \/ users'[u] = users[u]
           \/ users[u] = Absent /\ users'[u] = Pending
           \/ /\ users[u].status = "pending" /\ users'[u].status = "active"
              /\ users'[u].version = users[u].version
              /\ \E c \in Challenge : Activates(u, c)
           \/ /\ users[u].status = "active" /\ users'[u].status = "active"
              /\ users'[u].version = users[u].version + 1
              /\ \E c \in Challenge : Resets(u, c)
           \/ /\ users[u].status = "active" /\ users'[u].status = "anonymized"
              /\ users'[u].version = users[u].version + 1
<1>1. users[u] \in UserRow /\ users \in [User -> UserRow]
  BY DEF TypeOK
<1>2. ASSUME NEW v \in User, NEW c \in Challenge, Registers(v, c)
      PROVE  IF u = v THEN users[u] = Absent /\ users'[u] = Pending
                      ELSE users'[u] = users[u]
  BY <1>1, <1>2 DEF Registers
<1>3. ASSUME NEW v \in User, NEW c \in Challenge, Activates(v, c)
      PROVE  IF u = v
             THEN /\ users[u].status = "pending" /\ users'[u].status = "active"
                  /\ users'[u].version = users[u].version
             ELSE users'[u] = users[u]
  BY <1>1, <1>3 DEF Activates, UserRow
<1>4. ASSUME NEW v \in User, NEW c \in Challenge, Resets(v, c)
      PROVE  IF u = v
             THEN /\ users[u].status = "active" /\ users'[u].status = "active"
                  /\ users'[u].version = users[u].version + 1
             ELSE users'[u] = users[u]
  BY <1>1, <1>4 DEF Resets, UserRow
<1>5. ASSUME NEW v \in User, Anonymizes(v)
      PROVE  IF u = v
             THEN /\ users[u].status = "active" /\ users'[u].status = "anonymized"
                  /\ users'[u].version = users[u].version + 1
             ELSE users'[u] = users[u]
  BY <1>1, <1>5 DEF Anonymizes, UserRow
<1>6. \/ users' = users
      \/ \E v \in User, c \in Challenge : Registers(v, c) \/ Activates(v, c) \/ Resets(v, c)
      \/ \E v \in User : Anonymizes(v)
  BY DEF AccountStep, Still, Opens, Expires, Ends, Only, Ages, Reissues
<1> QED
  BY <1>2, <1>3, <1>4, <1>5, <1>6

LEMMA UsersForward ==
    ASSUME TypeOK, AccountStep, NEW u \in User
    PROVE  /\ users'[u].version \in Nat
           /\ users[u].version <= users'[u].version
           /\ users[u].status # "absent" => users'[u].status # "absent"
           /\ users[u].status \in {"active", "anonymized"} =>
                    users'[u].status \in {"active", "anonymized"}
           /\ users[u].status = "anonymized" => users'[u] = users[u]
<1>1. users[u].version \in Nat
  BY DEF TypeOK, UserRow
<1>2. Absent.status = "absent" /\ Absent.version = 1 /\ Pending.status = "pending"
      /\ Pending.version = 1
  BY DEF Absent, Pending
<1> QED
  BY <1>1, <1>2, UserSteps

\* And to challenges: those there are keep their account and purpose, a new one
\* is live, and only one way leads out of each state.
LEMMA ChallengesForward ==
    ASSUME TypeOK, AccountStep, NEW c \in Challenge, challenges[c] # Unissued
    PROVE  \/ challenges'[c] = Deleted
           \/ /\ Exists(challenges, c) /\ Exists(challenges', c)
              /\ challenges'[c].user = challenges[c].user
              /\ challenges'[c].purpose = challenges[c].purpose
<1> DEFINE Kept == \/ challenges'[c] = Deleted
                   \/ /\ Exists(challenges, c) /\ Exists(challenges', c)
                      /\ challenges'[c].user = challenges[c].user
                      /\ challenges'[c].purpose = challenges[c].purpose
<1>1. ASSUME challenges'[c] = challenges[c]
      PROVE  Kept
  BY <1>1 DEF Exists
<1>2. ASSUME NEW d \in Challenge, Exists(challenges, d),
             \/ challenges' = [challenges EXCEPT ![d].state = "used"]
             \/ challenges' = [challenges EXCEPT ![d].expired = TRUE]
      PROVE  Kept
  <2>1. CASE c = d
    BY <1>2, <2>1, MarkIs
  <2>2. CASE c # d
    <3>1. challenges'[c] = challenges[c]
      BY <1>2, <2>2, MarkIs
    <3> QED
      BY <3>1, <1>1
  <2> QED
    BY <2>1, <2>2
<1>3. ASSUME NEW d \in Challenge, NEW u \in User, NEW p \in Purpose,
             challenges[d] = Unissued, challenges' = issue(d, u, p)
      PROVE  Kept
  <2>1. c # d
    BY <1>3
  <2>2. CASE LiveFor(c, u, p)
    <3>1. /\ challenges'[c] \in ChallengeRow
          /\ challenges'[c].user = u /\ challenges'[c].purpose = p
      <4>1. /\ issue(d, u, p)[c] \in ChallengeRow
            /\ issue(d, u, p)[c].user = u /\ issue(d, u, p)[c].purpose = p
        BY <2>1, <2>2, IssueReplaces
      <4> QED
        BY <1>3, <4>1
    <3>2. Exists(challenges', c)
      BY <3>1, RowAssumption DEF Exists
    <3> QED
      BY <2>2, <3>1, <3>2 DEF LiveFor, LiveChallenge
  <2>3. CASE ~LiveFor(c, u, p)
    <3>1. challenges'[c] = challenges[c]
      <4>1. issue(d, u, p)[c] = challenges[c]
        BY <2>1, <2>3, IssueKeeps
      <4> QED
        BY <1>3, <4>1
    <3> QED
      BY <3>1, <1>1
  <2> QED
    BY <2>2, <2>3
<1>4. ASSUME NEW u \in User, challenges' = delete_for_user(u)
      PROVE  Kept
  <2>1. challenges'[c] = IF c \in ChallengesOf(u) THEN Deleted ELSE challenges[c]
    BY <1>4 DEF delete_for_user
  <2> QED
    BY <1>1, <2>1
<1>5. /\ \A d \in Challenge : Ages(d) => Exists(challenges, d)
      /\ \A u \in User, d \in Challenge :
            Activates(u, d) \/ Resets(u, d) => Exists(challenges, d)
  BY DEF Ages, Activates, Resets, LiveFor, LiveChallenge
<1>6. challenges' = challenges => Kept
  BY <1>1
<1> HIDE DEF Kept
<1>7. Still \/ (\E s \in Session : Opens(s) \/ Expires(s) \/ Ends(s)) => Kept
  BY <1>6 DEF Still, Opens, Expires, Ends, Only
<1>8. (\E d \in Challenge : Ages(d)) => Kept
  BY <1>2, <1>5 DEF Ages
<1>9. ASSUME NEW u \in User, NEW d \in Challenge
      PROVE  /\ Registers(u, d) => Kept
             /\ \A p \in Purpose : Reissues(u, d, p) => Kept
             /\ Activates(u, d) \/ Resets(u, d) => Kept
  BY <1>2, <1>3, <1>5 DEF Registers, Reissues, Activates, Resets, Purpose
<1>10. (\E u \in User : Anonymizes(u)) => Kept
  BY <1>4 DEF Anonymizes
<1>11. Kept
  BY <1>7, <1>8, <1>9, <1>10 DEF AccountStep
<1> QED
  BY <1>11 DEF Kept

LEMMA GoesForward ==
    ASSUME TypeOK, AccountStep
    PROVE  Forward
BY UsersForward, ChallengesForward DEF Forward

\* What a request that waits knows stays true.
LEMMA StillKnows ==
    ASSUME Basic, RowsAgree, AccountStep, NEW q \in Request, Knows(q), Rests(q), Spared(q)
    PROVE  Knows(q)'
<1> DEFINE u == local[q].user
           c == local[q].challenge
           s == local[q].session
<1>1. Forward /\ TypeOK
  BY GoesForward DEF Basic
<1>2. FindsItsRows(q) /\ HoldsWhatItLocked(q)
  BY DEF Basic, RowsAreThere, LocksAreHeld
<1>3. /\ local[q].version \in Nat
      /\ pc[q] \in {"login_open", "auth_user", "register_lock", "register_issue",
                    "verify_activate", "reset_lock", "reset_commit", "anonymize_commit"} =>
            u \in User
  <2>1. pc[q] \in {"auth_user", "anonymize_commit"} => sessions[s].user \in User
    BY <1>1, <1>2, RowsExist DEF FindsItsRows, SessionRow
  <2> QED
    BY <1>1, <1>2, <2>1 DEF FindsItsRows, TypeOK, Local
<1>4. \A v \in User : users[v] \in UserRow /\ users[v].version \in Nat
  BY <1>1 DEF TypeOK, UserRow
<1>5. ASSUME pc[q] = "login_open"
      PROVE  /\ users'[u].status \in {"active", "anonymized"}
             /\ local[q].version <= users'[u].version
  <2>1. /\ users'[u].status \in {"active", "anonymized"}
        /\ users'[u].version \in Nat /\ users[u].version <= users'[u].version
    BY <1>1, <1>3, <1>5 DEF Knows, Forward
  <2>2. local[q].version <= users[u].version
    BY <1>5 DEF Knows
  <2> QED
    BY <1>3, <1>4, <1>5, <2>1, <2>2
<1>6. ASSUME pc[q] = "auth_user", ~local[q].wasLive
      PROVE  users'[u].status # "active" \/ users'[u].version # local[q].version
  <2>1. /\ users[u].status \in {"active", "anonymized"}
        /\ local[q].version <= users[u].version
    BY <1>2, <1>6 DEF FindsItsRows, RowsAgree
  <2>2. CASE users[u].status = "anonymized"
    BY <1>1, <1>3, <1>6, <2>2 DEF Forward
  <2>3. CASE users[u].version # local[q].version
    <3>1. users'[u].version \in Nat /\ users[u].version <= users'[u].version
      BY <1>1, <1>3, <1>6 DEF Forward
    <3> QED
      BY <1>3, <1>4, <1>6, <2>1, <2>3, <3>1
  <2> QED
    BY <1>6, <2>1, <2>2, <2>3 DEF Knows
<1>7. ASSUME pc[q] \in {"register_lock", "register_issue"}
      PROVE  users'[u].status # "absent"
  BY <1>1, <1>3, <1>7 DEF Knows, Forward
<1>8. ASSUME NEW p \in Purpose, LiveFor(c, u, p), c \in Challenge, challengeLock[c] = q
      PROVE  LiveFor(c, u, p)'
  BY <1>8 DEF LiveFor, Spared, Rests
<1>9. pc[q] = "verify_activate" => LiveFor(c, u, "email_verification")'
  BY <1>2, <1>8 DEF Knows, FindsItsRows, HoldsWhatItLocked, Purpose
<1>10. ASSUME pc[q] = "reset_lock"
       PROVE  \/ challenges'[c] = Deleted
              \/ /\ Exists(challenges', c)
                 /\ challenges'[c].user = u
                 /\ challenges'[c].purpose = "password_reset"
  <2>1. c \in Challenge /\ challenges[c] # Unissued
    BY <1>2, <1>10, RowAssumption DEF Knows, FindsItsRows, Exists
  <2> QED
    BY <1>1, <1>10, <2>1, RowAssumption DEF Knows, Forward, Exists
<1>11. pc[q] = "reset_commit" => /\ users'[u].status = "active"
                                 /\ LiveFor(c, u, "password_reset")'
  <2>1. pc[q] = "reset_commit" => LiveFor(c, u, "password_reset")'
    BY <1>2, <1>8 DEF Knows, FindsItsRows, HoldsWhatItLocked, Purpose
  <2>2. pc[q] = "reset_commit" => users'[u] = users[u] /\ users[u].status = "active"
    BY <1>2, <1>3 DEF Knows, HoldsWhatItLocked, Spared
  <2> QED
    BY <2>1, <2>2
<1>12. pc[q] = "anonymize_commit" => users'[u].status = "active"
  <2>1. pc[q] = "anonymize_commit" => users'[u] = users[u] /\ users[u].status = "active"
    BY <1>2, <1>3 DEF Knows, HoldsWhatItLocked, Spared
  <2> QED
    BY <2>1
<1>13. pc[q] = "principal" => local[q].wasLive
  BY DEF Knows
<1>14. /\ pc'[q] = pc[q] /\ local'[q] = local[q]
       /\ local'[q].user = u /\ local'[q].challenge = c
  BY DEF Rests
<1>15. /\ LiveFor(c, u, "email_verification")' =>
            LiveFor(local[q].challenge, local[q].user, "email_verification")'
       /\ LiveFor(c, u, "password_reset")' =>
            LiveFor(local[q].challenge, local[q].user, "password_reset")'
  BY <1>14 DEF LiveFor
<1> QED
  BY <1>5, <1>6, <1>7, <1>9, <1>10, <1>11, <1>12, <1>13, <1>14, <1>15 DEF Knows

\* What a step leaves of a session: the account and version it was opened with,
\* which are those of an account that has been active.
LEMMA SessionsForward ==
    ASSUME TypeOK, AccountStep, NEW s \in Session, Exists(sessions', s)
    PROVE  \/ /\ Exists(sessions, s)
              /\ sessions'[s].user = sessions[s].user
              /\ sessions'[s].version = sessions[s].version
           \/ /\ users' = users
              /\ users[sessions'[s].user].status \in {"active", "anonymized"}
              /\ sessions'[s].version <= users[sessions'[s].user].version
<1> DEFINE Kept == /\ Exists(sessions, s)
                   /\ sessions'[s].user = sessions[s].user
                   /\ sessions'[s].version = sessions[s].version
           Opened == /\ users' = users
                     /\ users[sessions'[s].user].status \in {"active", "anonymized"}
                     /\ sessions'[s].version <= users[sessions'[s].user].version
<1>1. Same(s) => Kept
  BY DEF Same
<1>2. \A u \in User : EndsAll(u) => Kept
  BY <1>1 DEF EndsAll, SessionsOf
<1>3. \A x \in Session : Opens(x) => Kept \/ Opened
  BY <1>1 DEF Opens, Only
<1>4. \A x \in Session : Expires(x) \/ Ends(x) => Kept
  BY <1>1 DEF Expires, Ends, Only
<1>5. SessionsSame => Kept
  BY <1>1 DEF SessionsSame
<1> HIDE DEF Kept, Opened
<1>6. Kept \/ Opened
  BY <1>2, <1>3, <1>4, <1>5 DEF AccountStep, Still, Ages, Registers, Reissues, Activates,
     Resets, Anonymizes
<1> QED
  BY <1>6 DEF Kept, Opened

\* A challenge is only issued for an account that exists.
LEMMA NewChallenges ==
    ASSUME TypeOK, AccountStep, NEW c \in Challenge, challenges[c] = Unissued,
           Exists(challenges', c)
    PROVE  \E u \in User : \E p \in Purpose :
              /\ challenges' = issue(c, u, p)
              /\ challenges'[c].user = u
              /\ users'[u].status # "absent"
<1>1. challenges'[c] # challenges[c]
  BY RowAssumption DEF Exists
<1>2. ASSUME NEW d \in Challenge, Exists(challenges, d),
             \/ challenges' = [challenges EXCEPT ![d].state = "used"]
             \/ challenges' = [challenges EXCEPT ![d].expired = TRUE]
      PROVE  FALSE
  <2>1. c # d
    BY <1>2 DEF Exists
  <2> QED
    BY <1>1, <1>2, <2>1, MarkIs
<1>3. ASSUME NEW d \in Challenge, NEW u \in User, NEW p \in Purpose,
             challenges[d] = Unissued, challenges' = issue(d, u, p)
      PROVE  c = d /\ challenges'[c].user = u
  <2>1. ~LiveFor(c, u, p)
    BY DEF LiveFor, LiveChallenge, Exists
  <2>2. c # d => issue(d, u, p)[c] = challenges[c]
    BY <2>1, IssueKeeps
  <2>3. c = d
    BY <1>1, <1>3, <2>2
  <2>4. issue(d, u, p)[c] = [user |-> u, purpose |-> p, state |-> "live", expired |-> FALSE]
    BY <1>3, <2>3, IssueIs
  <2>5. challenges'[c] = [user |-> u, purpose |-> p, state |-> "live", expired |-> FALSE]
    BY <1>3, <2>4
  <2> QED
    BY <2>3, <2>5
<1>4. ASSUME NEW u \in User, challenges' = delete_for_user(u)
      PROVE  FALSE
  <2>1. c \notin ChallengesOf(u)
    BY DEF ChallengesOf, Exists
  <2>2. delete_for_user(u)[c] = challenges[c]
    BY <2>1 DEF delete_for_user
  <2> QED
    BY <1>1, <1>4, <2>2
<1>5. CASE challenges' = challenges
  BY <1>1, <1>5
<1>6. ASSUME NEW u \in User, NEW d \in Challenge, Registers(u, d)
      PROVE  /\ challenges' = issue(c, u, "email_verification")
             /\ challenges'[c].user = u
             /\ users'[u].status # "absent"
  <2>1. /\ challenges[d] = Unissued /\ challenges' = issue(d, u, "email_verification")
        /\ "email_verification" \in Purpose
        /\ users' = [users EXCEPT ![u] = Pending]
    BY <1>6 DEF Registers, Purpose
  <2>2. c = d /\ challenges'[c].user = u
    BY <1>3, <2>1
  <2>3. users'[u] = Pending
    BY <2>1 DEF TypeOK
  <2> QED
    BY <2>1, <2>2, <2>3 DEF Pending
<1>7. ASSUME NEW u \in User, NEW d \in Challenge, NEW p \in Purpose, Reissues(u, d, p)
      PROVE  /\ challenges' = issue(c, u, p)
             /\ challenges'[c].user = u
             /\ users'[u].status # "absent"
  <2>1. /\ challenges[d] = Unissued /\ challenges' = issue(d, u, p)
        /\ users' = users /\ users[u].status # "absent"
    BY <1>7 DEF Reissues
  <2>2. c = d /\ challenges'[c].user = u
    BY <1>3, <2>1
  <2> QED
    BY <2>1, <2>2
<1>8. /\ \A s \in Session : ~(Opens(s) \/ Expires(s) \/ Ends(s))
      /\ ~Still
  BY <1>5, <1>1 DEF Opens, Expires, Ends, Only, Still
<1>9. \A d \in Challenge : ~Ages(d)
  BY <1>2 DEF Ages, LiveChallenge
<1>10. \A u \in User, d \in Challenge : ~Activates(u, d) /\ ~Resets(u, d)
  BY <1>2 DEF Activates, Resets, LiveFor, LiveChallenge
<1>11. \A u \in User : ~Anonymizes(u)
  BY <1>4 DEF Anonymizes
<1>12. "email_verification" \in Purpose
  BY DEF Purpose
<1> QED
  BY <1>6, <1>7, <1>8, <1>9, <1>10, <1>11, <1>12 DEF AccountStep

\* Rows go on agreeing with each other.
LEMMA RowsStillAgree ==
    ASSUME TypeOK, RowsAgree, AccountStep
    PROVE  RowsAgree'
<1>1. ASSUME NEW s \in Session, Exists(sessions', s)
      PROVE  /\ users'[sessions'[s].user].status \in {"active", "anonymized"}
             /\ sessions'[s].version <= users'[sessions'[s].user].version
  <2>1. CASE /\ users' = users
             /\ users[sessions'[s].user].status \in {"active", "anonymized"}
             /\ sessions'[s].version <= users[sessions'[s].user].version
    BY <2>1
  <2>2. CASE /\ Exists(sessions, s)
             /\ sessions'[s].user = sessions[s].user
             /\ sessions'[s].version = sessions[s].version
    <3> DEFINE u == sessions[s].user
               v == sessions[s].version
    <3>1. u \in User /\ v \in Nat
      BY <2>2, RowsExist DEF SessionRow
    <3>2. users[u].status \in {"active", "anonymized"} /\ v <= users[u].version
      BY <2>2 DEF RowsAgree
    <3>3. users[u].version \in Nat
      BY <3>1 DEF TypeOK, UserRow
    <3>4. /\ users'[u].version \in Nat /\ users[u].version <= users'[u].version
          /\ users'[u].status \in {"active", "anonymized"}
      BY <3>1, <3>2, GoesForward DEF Forward
    <3>5. v <= users'[u].version
      BY <3>1, <3>2, <3>3, <3>4
    <3> QED
      BY <2>2, <3>4, <3>5
  <2> QED
    BY <1>1, <2>1, <2>2, SessionsForward
<1>2. ASSUME NEW c \in Challenge, Exists(challenges', c)
      PROVE  users'[challenges'[c].user].status # "absent"
  <2>1. CASE challenges[c] = Unissued
    BY <1>2, <2>1, NewChallenges
  <2>2. CASE challenges[c] # Unissued
    <3>1. Exists(challenges, c) /\ challenges'[c].user = challenges[c].user
      BY <1>2, <2>2, GoesForward DEF Forward, Exists
    <3>2. challenges[c].user \in User /\ users[challenges[c].user].status # "absent"
      BY <3>1, RowsExist DEF ChallengeRow, RowsAgree
    <3> QED
      BY <3>1, <3>2, GoesForward DEF Forward
  <2> QED
    BY <2>1, <2>2
<1> QED
  BY <1>1, <1>2 DEF RowsAgree

----------------------------------------------------------------------------
(* Every step does one of the ten things, and spares what it must *)

Accounted ==
    /\ AccountStep
    /\ \A q \in Request : Knows(q)' \/ (Rests(q) /\ Spared(q))

\* Steps that write no row spare everything.
LEMMA StillSpares ==
    ASSUME UNCHANGED rows
    PROVE  AccountStep /\ \A q \in Request : Spared(q)
<1>1. Still
  BY DEF Still, SessionsSame, Same, rows, Exists
<1>2. \A q \in Request : Spared(q)
  BY DEF Spared, rows, LiveChallenge, Exists
<1> QED
  BY <1>1, <1>2 DEF AccountStep

\* The ways a step leaves its own request and the others.
LEMMA FinishAccounted ==
    ASSUME TypeOK, NEW r \in Request, Finish(r), AccountStep,
           \A q \in Request \ {r} : Spared(q)
    PROVE  Accounted
<1>1. Knows(r)'
  BY DEF Finish, TypeOK, Knows
<1>2. \A q \in Request \ {r} : Rests(q)
  BY DEF Finish, TypeOK, Rests
<1> QED
  BY <1>1, <1>2 DEF Accounted

LEMMA ContinueAccounted ==
    ASSUME TypeOK, NEW r \in Request, NEW label, NEW values, Continue(r, label, values),
           UNCHANGED rows, Knows(r)'
    PROVE  Accounted
<1>1. \A q \in Request \ {r} : Rests(q)
  BY DEF Continue, TypeOK, Rests
<1> QED
  BY <1>1, StillSpares DEF Accounted

LEMMA WriteAccounted ==
    ASSUME UNCHANGED <<pc, local>>, AccountStep, \A q \in Request : Spared(q)
    PROVE  Accounted
BY DEF Accounted, Rests

\* A request that goes on remembers what it has read.
LEMMA AuthReadsAccounted ==
    ASSUME AccountsSound, NEW r \in Request
    PROVE  /\ \A u \in User : verify_credentials(r, u) => Accounted
           /\ \A t, csrf \in Token : refresh_lock(r, t, csrf) => Accounted
           /\ \A s \in Session : \A csrf \in TokensOf(s) :
                authenticate_session(r, s, csrf) => Accounted
           /\ authenticate_user(r) => Accounted
<1> USE DEF AccountsSound, Basic
<1>1. ASSUME NEW label, NEW values, Continue(r, label, values)
      PROVE  pc'[r] = label /\ local'[r] = values
  BY <1>1 DEF Continue, TypeOK
<1>2. ASSUME NEW u \in User, verify_credentials(r, u)
      PROVE  Accounted
  <2> DEFINE values == [Nothing EXCEPT !.user = u, !.version = users[u].version]
  <2>1. /\ Continue(r, "login_open", values) /\ UNCHANGED rows
        /\ users[u].status = "active"
    BY <1>2 DEF verify_credentials
  <2>2. values.user = u /\ values.version = users[u].version
    BY DEF Nothing
  <2> HIDE DEF values
  <2>3. pc'[r] = "login_open" /\ local'[r] = values
    BY <1>1, <2>1
  <2>4. users[u].version \in Nat /\ users' = users
    BY <2>1 DEF TypeOK, UserRow, rows
  <2>5. Knows(r)'
    BY <2>1, <2>2, <2>3, <2>4 DEF Knows
  <2> QED
    BY <2>1, <2>5, ContinueAccounted
<1>3. ASSUME NEW t \in Token, NEW csrf \in Token, refresh_lock(r, t, csrf)
      PROVE  Accounted
  <2> DEFINE values == [Nothing EXCEPT !.session = tokens[t].session, !.token = t]
  <2>1. Continue(r, "refresh_rotate", values) /\ UNCHANGED rows
    BY <1>3 DEF refresh_lock
  <2> HIDE DEF values
  <2>2. pc'[r] = "refresh_rotate" /\ local'[r] = values
    BY <1>1, <2>1
  <2>3. Knows(r)'
    BY <2>2 DEF Knows
  <2> QED
    BY <2>1, <2>3, ContinueAccounted
<1>4. ASSUME NEW s \in Session, NEW csrf \in TokensOf(s), authenticate_session(r, s, csrf)
      PROVE  Accounted
  <2> DEFINE values == [Nothing EXCEPT !.session = s, !.user = sessions[s].user,
                                       !.version = sessions[s].version, !.csrf = csrf,
                                       !.wasLive = Authenticates(s)]
  <2>1. /\ Continue(r, "auth_user", values) /\ UNCHANGED rows
        /\ Exists(sessions, s) /\ sessions[s].revoked = NONE /\ ~sessions[s].expired
    BY <1>4 DEF authenticate_session
  <2>2. /\ values.user = sessions[s].user /\ values.version = sessions[s].version
        /\ values.wasLive = Authenticates(s)
    BY DEF Nothing
  <2> HIDE DEF values
  <2>3. pc'[r] = "auth_user" /\ local'[r] = values
    BY <1>1, <2>1
  <2>4. ~Authenticates(s) => \/ users[sessions[s].user].status # "active"
                             \/ users[sessions[s].user].version # sessions[s].version
    BY <2>1 DEF Authenticates
  <2>5. ~local'[r].wasLive => \/ users'[local'[r].user].status # "active"
                              \/ users'[local'[r].user].version # local'[r].version
    BY <2>1, <2>2, <2>3, <2>4 DEF rows
  <2>6. Knows(r)'
    BY <2>3, <2>5 DEF Knows
  <2> QED
    BY <2>1, <2>6, ContinueAccounted
<1>5. ASSUME authenticate_user(r)
      PROVE  Accounted
  <2>1. /\ Continue(r, "principal", local[r]) /\ UNCHANGED rows
        /\ pc[r] = "auth_user" /\ UserAccepted(r)
    BY <1>5 DEF authenticate_user, At
  <2>2. pc'[r] = "principal" /\ local'[r] = local[r]
    BY <1>1, <2>1
  <2>3. local[r].wasLive
    BY <2>1 DEF Knows, UserAccepted
  <2>4. Knows(r)'
    BY <2>2, <2>3 DEF Knows
  <2> QED
    BY <2>1, <2>4, ContinueAccounted
<1> QED
  BY <1>2, <1>3, <1>4, <1>5

LEMMA LifecycleReadsAccounted ==
    ASSUME AccountsSound, NEW r \in Request
    PROVE  /\ \A u \in User : register_existing(r, u) => Accounted
           /\ register_lock(r) => Accounted
           /\ \A c \in Challenge : verify_consume(r, c) \/ reset_find(r, c) => Accounted
           /\ reset_lock(r) => Accounted
           /\ anonymize_check(r) \/ anonymize_lock(r) => Accounted
<1> USE DEF AccountsSound, Basic
<1>1. ASSUME NEW label, NEW values, Continue(r, label, values)
      PROVE  pc'[r] = label /\ local'[r] = values
  BY <1>1 DEF Continue, TypeOK
<1>2. ASSUME NEW u \in User, register_existing(r, u)
      PROVE  Accounted
  <2> DEFINE values == [Nothing EXCEPT !.user = u]
  <2>1. /\ Continue(r, "register_lock", values) /\ UNCHANGED rows
        /\ users[u].status = "pending"
    BY <1>2 DEF register_existing
  <2>2. values.user = u
    BY DEF Nothing
  <2> HIDE DEF values
  <2>3. pc'[r] = "register_lock" /\ local'[r] = values
    BY <1>1, <2>1
  <2>4. Knows(r)'
    BY <2>1, <2>2, <2>3 DEF Knows, rows
  <2> QED
    BY <2>1, <2>4, ContinueAccounted
<1>3. ASSUME register_lock(r)
      PROVE  Accounted
  <2>1. /\ Continue(r, "register_issue", local[r]) /\ UNCHANGED rows
        /\ pc[r] = "register_lock"
    BY <1>3 DEF register_lock, At
  <2>2. pc'[r] = "register_issue" /\ local'[r] = local[r]
    BY <1>1, <2>1
  <2>3. Knows(r)'
    BY <2>1, <2>2 DEF Knows, rows
  <2> QED
    BY <2>1, <2>3, ContinueAccounted
<1>4. ASSUME NEW c \in Challenge, verify_consume(r, c)
      PROVE  Accounted
  <2> DEFINE values == [Nothing EXCEPT !.user = challenges[c].user, !.challenge = c]
  <2>1. /\ Continue(r, "verify_activate", values) /\ UNCHANGED rows
        /\ consumable(c, "email_verification")
    BY <1>4 DEF verify_consume
  <2>2. values.user = challenges[c].user /\ values.challenge = c
    BY DEF Nothing
  <2> HIDE DEF values
  <2>3. pc'[r] = "verify_activate" /\ local'[r] = values
    BY <1>1, <2>1
  <2>4. LiveChallenge(c)' /\ challenges' = challenges
    BY <2>1 DEF consumable, LiveChallenge, Exists, rows
  <2>5. LiveFor(local[r].challenge, local[r].user, "email_verification")'
    <3>1. local'[r].challenge = c /\ local'[r].user = challenges[c].user
      BY <2>2, <2>3
    <3> QED
      BY <2>1, <2>4, <3>1 DEF LiveFor, consumable, LiveChallenge, Exists
  <2>6. Knows(r)'
    BY <2>3, <2>5 DEF Knows
  <2> QED
    BY <2>1, <2>6, ContinueAccounted
<1>5. ASSUME NEW c \in Challenge, reset_find(r, c)
      PROVE  Accounted
  <2> DEFINE values == [Nothing EXCEPT !.user = challenges[c].user, !.challenge = c]
  <2>1. /\ Continue(r, "reset_lock", values) /\ UNCHANGED rows
        /\ Exists(challenges, c) /\ challenges[c].purpose = "password_reset"
    BY <1>5 DEF reset_find
  <2>2. values.user = challenges[c].user /\ values.challenge = c
    BY DEF Nothing
  <2> HIDE DEF values
  <2>3. pc'[r] = "reset_lock" /\ local'[r] = values
    BY <1>1, <2>1
  <2>4. challenges' = challenges /\ Exists(challenges', c)
    BY <2>1 DEF rows, Exists
  <2>5. Knows(r)'
    BY <2>1, <2>2, <2>3, <2>4 DEF Knows
  <2> QED
    BY <2>1, <2>5, ContinueAccounted
<1>6. ASSUME reset_lock(r)
      PROVE  Accounted
  <2> DEFINE c == local[r].challenge
             u == local[r].user
  <2>1. /\ Continue(r, "reset_commit", local[r]) /\ UNCHANGED rows
        /\ pc[r] = "reset_lock"
        /\ users[u].status = "active"
        /\ consumable(c, "password_reset")
    BY <1>6 DEF reset_lock, At, ResetAccepted
  <2>2. pc'[r] = "reset_commit" /\ local'[r] = local[r]
    BY <1>1, <2>1
  <2>3. LiveChallenge(c) /\ challenges[c] # Deleted
    BY <2>1 DEF consumable, LiveChallenge, Exists
  <2>4. LiveFor(c, u, "password_reset")
    BY <2>1, <2>3 DEF Knows, LiveFor
  <2>5. LiveFor(local[r].challenge, local[r].user, "password_reset")'
    BY <2>1, <2>2, <2>4 DEF LiveFor, LiveChallenge, Exists, rows
  <2>6. users'[local'[r].user].status = "active"
    BY <2>1, <2>2 DEF rows
  <2>7. Knows(r)'
    BY <2>2, <2>5, <2>6 DEF Knows
  <2> QED
    BY <2>1, <2>7, ContinueAccounted
<1>7. ASSUME anonymize_check(r)
      PROVE  Accounted
  <2>1. Continue(r, "anonymize_lock", local[r]) /\ UNCHANGED rows
    BY <1>7 DEF anonymize_check
  <2>2. pc'[r] = "anonymize_lock"
    BY <1>1, <2>1
  <2>3. Knows(r)'
    BY <2>2 DEF Knows
  <2> QED
    BY <2>1, <2>3, ContinueAccounted
<1>8. ASSUME anonymize_lock(r)
      PROVE  Accounted
  <2> DEFINE s == local[r].session
             u == local[r].user
  <2>1. /\ Continue(r, "anonymize_commit", local[r]) /\ UNCHANGED rows
        /\ pc[r] = "anonymize_lock"
        /\ users[u].status # "anonymized"
    BY <1>8 DEF anonymize_lock, At, StillRegistered
  <2>2. pc'[r] = "anonymize_commit" /\ local'[r] = local[r]
    BY <1>1, <2>1
  <2>3. s \in Session /\ Exists(sessions, s) /\ sessions[s].user = u
    BY <2>1 DEF RowsAreThere, FindsItsRows
  <2>4. users[u].status = "active"
    BY <2>1, <2>3 DEF RowsAgree
  <2>5. users'[local'[r].user].status = "active"
    BY <2>1, <2>2, <2>4 DEF rows
  <2>6. Knows(r)'
    BY <2>2, <2>5 DEF Knows
  <2> QED
    BY <2>1, <2>6, ContinueAccounted
<1> QED
  BY <1>2, <1>3, <1>4, <1>5, <1>6, <1>7, <1>8

LEMMA RefusalsAccounted ==
    ASSUME AccountsSound, NEW r \in Request,
           \/ refresh_rejected(r) \/ authenticate_rejected(r)
           \/ current_user(r) \/ logout_rejected(r)
           \/ register_rejected(r) \/ verify_rejected(r) \/ reset_rejected(r)
           \/ anonymize_rejected(r) \/ anonymize_repeated(r)
           \/ failure(r) \/ deadlock_victim(r)
    PROVE  Accounted
<1>1. Finish(r) /\ UNCHANGED rows
  BY DEF refresh_rejected, authenticate_rejected, current_user, logout_rejected,
         register_rejected, verify_rejected, reset_rejected, anonymize_rejected,
         anonymize_repeated, failure, deadlock_victim
<1> QED
  BY <1>1, StillSpares, FinishAccounted DEF AccountsSound, Basic

\* A session that changes in one field only, revoked, expired or csrf.
LEMMA OneSession ==
    ASSUME TypeOK, NEW s \in Session, Exists(sessions, s), NEW x,
           \/ sessions' = [sessions EXCEPT ![s].csrf = x]
           \/ sessions' = [sessions EXCEPT ![s].revoked = x]
           \/ sessions' = [sessions EXCEPT ![s].expired = x],
           sessions'[s] \in SessionRow
    PROVE  /\ Exists(sessions', s)
           /\ sessions'[s].user = sessions[s].user
           /\ sessions'[s].version = sessions[s].version
           /\ sessions' = [sessions EXCEPT ![s].csrf = x] => Same(s)
           /\ sessions' = [sessions EXCEPT ![s].revoked = x] => sessions'[s].revoked = x
           /\ sessions' = [sessions EXCEPT ![s].expired = x] =>
                /\ sessions'[s].revoked = sessions[s].revoked
                /\ sessions'[s].expired = x
           /\ \A z \in Session \ {s} : Same(z)
<1>1. sessions[s] \in SessionRow
  BY RowsExist
<1>2. Exists(sessions', s)
  BY RowAssumption DEF Exists
<1>3. \A z \in Session \ {s} : sessions'[z] = sessions[z]
  BY DEF TypeOK
<1>4. \A z \in Session \ {s} : Same(z)
  BY <1>3 DEF Same, Exists
<1>5. ASSUME sessions' = [sessions EXCEPT ![s].csrf = x]
      PROVE  Same(s)
  <2>1. sessions'[s] = [sessions[s] EXCEPT !.csrf = x]
    BY <1>5 DEF TypeOK
  <2>2. /\ sessions'[s].user = sessions[s].user
        /\ sessions'[s].version = sessions[s].version
        /\ sessions'[s].revoked = sessions[s].revoked
        /\ sessions'[s].expired = sessions[s].expired
    BY <1>1, <2>1 DEF SessionRow
  <2> QED
    BY <1>2, <2>2 DEF Same
<1> QED
  BY <1>1, <1>2, <1>4, <1>5 DEF SessionRow, TypeOK

LEMMA OpensAndRefreshesAccounted ==
    ASSUME AccountsSound, NEW r \in Request
    PROVE  login(r) \/ refresh_rotate(r) => Accounted
<1> USE DEF AccountsSound, Basic
<1>1. FindsItsRows(r)
  BY DEF RowsAreThere
<1>2. ASSUME login(r)
      PROVE  Accounted
  <2>1. /\ Finish(r) /\ users' = users /\ challenges' = challenges
        /\ pc[r] = "login_open"
    BY <1>2 DEF login, At
  <2>2. PICK s \in Session, t \in Token :
            /\ sessions[s] = Unissued
            /\ sessions' = [sessions EXCEPT ![s] =
                   [user |-> local[r].user, version |-> local[r].version, csrf |-> t,
                    revoked |-> NONE, expired |-> FALSE]]
    BY <1>2 DEF login
  <2>3. local[r].user \in User /\ local[r].version \in Nat
    BY <1>1, <2>1 DEF FindsItsRows, TypeOK, Local
  <2>4. /\ sessions'[s] = [user |-> local[r].user, version |-> local[r].version,
                           csrf |-> t, revoked |-> NONE, expired |-> FALSE]
        /\ \A x \in Session \ {s} : sessions'[x] = sessions[x]
    BY <2>2 DEF TypeOK
  <2>5. sessions'[s] \in SessionRow
    BY <2>3, <2>4 DEF SessionRow
  <2>6. Only(s)
    BY <2>1, <2>4, <2>5, RowAssumption DEF Only, Same, Exists
  <2>7. /\ users[local[r].user].status \in {"active", "anonymized"}
        /\ local[r].version <= users[local[r].user].version
    BY <2>1 DEF Knows
  <2>8. /\ sessions'[s].user = local[r].user
        /\ sessions'[s].version = local[r].version
        /\ sessions'[s].revoked = NONE
    BY <2>4
  <2>9. Opens(s)
    BY <2>2, <2>3, <2>6, <2>7, <2>8 DEF Opens
  <2>10. \A q \in Request : Spared(q)
    BY <2>1 DEF Spared, LiveChallenge, Exists
  <2> QED
    BY <2>1, <2>9, <2>10, FinishAccounted DEF AccountStep
<1>3. ASSUME refresh_rotate(r)
      PROVE  Accounted
  <2> DEFINE s == local[r].session
  <2>1. /\ Finish(r) /\ users' = users /\ challenges' = challenges
        /\ pc[r] = "refresh_rotate"
    BY <1>3 DEF refresh_rotate, At
  <2>2. PICK t \in Token : sessions' = [sessions EXCEPT ![s].csrf = t]
    BY <1>3 DEF refresh_rotate, renewed
  <2>3. s \in Session /\ Exists(sessions, s) /\ sessions[s] \in SessionRow
    BY <1>1, <2>1, RowsExist DEF FindsItsRows
  <2> HIDE DEF s
  <2>4. sessions'[s] \in SessionRow
    BY <2>2, <2>3 DEF SessionRow, TypeOK
  <2>5. Same(s) /\ \A z \in Session \ {s} : Same(z)
    BY <2>2, <2>3, <2>4, OneSession
  <2>6. Still
    BY <2>1, <2>5 DEF Still, SessionsSame
  <2>7. \A q \in Request : Spared(q)
    BY <2>1 DEF Spared, LiveChallenge, Exists
  <2> QED
    BY <2>1, <2>6, <2>7, FinishAccounted DEF AccountStep
<1> QED
  BY <1>2, <1>3

LEMMA RevokeEnds ==
    ASSUME TypeOK, NEW s \in Session, Exists(sessions, s), sessions[s].revoked = NONE,
           NEW reason \in Reason, sessions' = revoke(s, reason),
           users' = users, challenges' = challenges
    PROVE  Ends(s)
<1>1. sessions[s] \in SessionRow
  BY RowsExist
<1>2. sessions' = [sessions EXCEPT ![s].revoked = reason]
  BY DEF revoke, TypeOK
<1>3. sessions'[s] \in SessionRow
  BY <1>1, <1>2 DEF SessionRow, TypeOK
<1>4. /\ Exists(sessions', s)
      /\ sessions'[s].user = sessions[s].user
      /\ sessions'[s].version = sessions[s].version
      /\ sessions'[s].revoked = reason
      /\ \A z \in Session \ {s} : Same(z)
  BY <1>2, <1>3, OneSession
<1> QED
  BY <1>4, RowAssumption DEF Ends, Only

LEMMA EndsAccounted ==
    ASSUME AccountsSound, NEW r \in Request
    PROVE  /\ \A t \in Token : refresh_reuse(r, t) => Accounted
           /\ logout(r) => Accounted
<1> USE DEF AccountsSound, Basic
<1>1. ASSUME users' = users, challenges' = challenges
      PROVE  \A q \in Request : Spared(q)
  BY <1>1 DEF Spared, LiveChallenge, Exists
<1>2. ASSUME NEW t \in Token, refresh_reuse(r, t)
      PROVE  Accounted
  <2> DEFINE s == tokens[t].session
  <2>1. /\ users' = users /\ challenges' = challenges /\ UNCHANGED <<pc, local>>
        /\ Exists(tokens, t) /\ sessions[s].revoked = NONE
        /\ sessions' = revoke(s, "refresh_reuse_detected")
        /\ "refresh_reuse_detected" \in Reason
    BY <1>2 DEF refresh_reuse, LockedForRefresh, Reason
  <2>2. s \in Session /\ Exists(sessions, s)
    BY <2>1, TokensHaveSessions
  <2>3. Ends(s)
    BY <2>1, <2>2, RevokeEnds
  <2> QED
    BY <1>1, <2>1, <2>2, <2>3, WriteAccounted DEF AccountStep
<1>3. ASSUME logout(r)
      PROVE  Accounted
  <2> DEFINE s == local[r].session
  <2>1. /\ Finish(r) /\ users' = users /\ challenges' = challenges
        /\ pc[r] = "principal"
    BY <1>3 DEF logout, At
  <2>2. s \in Session /\ Exists(sessions, s)
    BY <2>1 DEF RowsAreThere, FindsItsRows
  <2>3. CASE sessions[s].revoked = NONE
    <3>1. sessions' = revoke(s, "user_logout") /\ "user_logout" \in Reason
      BY <1>3, <2>3 DEF logout, Reason
    <3>2. Ends(s)
      BY <2>1, <2>2, <2>3, <3>1, RevokeEnds
    <3> QED
      BY <1>1, <2>1, <2>2, <3>2, FinishAccounted DEF AccountStep
  <2>4. CASE sessions[s].revoked # NONE
    <3>1. sessions' = sessions
      BY <1>3, <2>4 DEF logout
    <3>2. Still
      BY <2>1, <3>1 DEF Still, SessionsSame, Same, Exists
    <3> QED
      BY <1>1, <2>1, <3>2, FinishAccounted DEF AccountStep
  <2> QED
    BY <2>3, <2>4
<1> QED
  BY <1>2, <1>3

\* Issuing spares the challenges that it does not replace.
LEMMA IssueSpares ==
    ASSUME TypeOK, NEW c \in Challenge, NEW u \in User, NEW p \in Purpose,
           challenges[c] = Unissued, challenges' = issue(c, u, p),
           NEW d \in Challenge, LiveChallenge(d), ~LiveFor(d, u, p)
    PROVE  /\ LiveChallenge(d)'
           /\ challenges'[d].user = challenges[d].user
           /\ challenges'[d].purpose = challenges[d].purpose
<1>1. d # c
  BY DEF LiveChallenge, Exists
<1>2. issue(c, u, p)[d] = challenges[d]
  BY <1>1, IssueKeeps
<1>3. challenges'[d] = challenges[d]
  BY <1>2
<1> QED
  BY <1>3 DEF LiveChallenge, Exists

LEMMA RegistersAccounted ==
    ASSUME AccountsSound, NEW r \in Request
    PROVE  /\ \A u \in User : register(r, u) \/ reset_request(r, u) => Accounted
           /\ register_issue(r) => Accounted
<1> USE DEF AccountsSound, Basic
<1>1. /\ "email_verification" \in Purpose /\ "password_reset" \in Purpose
      /\ SessionsSame \/ sessions' # sessions
  BY DEF Purpose, SessionsSame, Same, Exists
<1>2. \A q \in Request : q # NONE
  BY StoreAssumption
<1>3. ASSUME NEW u \in User, register(r, u)
      PROVE  Accounted
  <2>1. PICK c \in Challenge : /\ challenges[c] = Unissued
                               /\ challenges' = issue(c, u, "email_verification")
    BY <1>3 DEF register
  <2>2. /\ users[u] = Absent /\ users' = [users EXCEPT ![u] = Pending]
        /\ sessions' = sessions /\ UNCHANGED <<pc, local>>
    BY <1>3 DEF register
  <2>3. Registers(u, c)
    BY <1>1, <2>1, <2>2 DEF Registers
  <2>4. \A d \in Challenge : ~LiveFor(d, u, "email_verification")
    BY <2>2 DEF RowsAgree, LiveFor, LiveChallenge, Absent
  <2>5. \A v \in User : users[v].status # "absent" => users'[v] = users[v]
    BY <2>2 DEF TypeOK, Absent
  <2>6. \A q \in Request : Spared(q)
    BY <1>1, <2>1, <2>4, <2>5, IssueSpares DEF Spared
  <2> QED
    BY <2>2, <2>3, <2>6, WriteAccounted DEF AccountStep
<1>4. ASSUME NEW u \in User, reset_request(r, u)
      PROVE  Accounted
  <2>1. PICK c \in Challenge : /\ challenges[c] = Unissued
                               /\ challenges' = issue(c, u, "password_reset")
    BY <1>4 DEF reset_request
  <2>2. /\ users[u].status = "active" /\ users' = users /\ userLock[u] = NONE
        /\ sessions' = sessions /\ UNCHANGED <<pc, local>>
    BY <1>4 DEF reset_request, Free
  <2>3. Reissues(u, c, "password_reset")
    BY <1>1, <2>1, <2>2 DEF Reissues
  <2>4. ASSUME NEW q \in Request, NEW d \in Challenge, challengeLock[d] = q,
               LiveFor(d, u, "password_reset")
        PROVE  FALSE
    <3>1. pc[q] \in {"verify_activate", "reset_commit"} /\ local[q].challenge = d
      BY <2>4 DEF LocksAreHeld, HoldsWhatItLocked
    <3>2. pc[q] = "reset_commit"
      BY <2>4, <3>1 DEF Knows, LiveFor
    <3>3. local[q].user = u
      BY <2>4, <3>1, <3>2 DEF Knows, LiveFor
    <3>4. userLock[u] = q
      BY <3>2, <3>3 DEF LocksAreHeld, HoldsWhatItLocked
    <3> QED
      BY <1>2, <2>2, <3>4
  <2>5. \A q \in Request : Spared(q)
    BY <1>1, <2>1, <2>2, <2>4, IssueSpares DEF Spared
  <2> QED
    BY <1>1, <2>2, <2>3, <2>5, WriteAccounted DEF AccountStep
<1>5. ASSUME register_issue(r)
      PROVE  Accounted
  <2> DEFINE u == local[r].user
  <2>1. PICK c \in Challenge : /\ challenges[c] = Unissued
                               /\ challenges' = issue(c, u, "email_verification")
    BY <1>5 DEF register_issue
  <2>2. /\ users' = users /\ sessions' = sessions /\ Finish(r)
        /\ pc[r] = "register_issue"
        /\ \A d \in ActiveChallenges(u, "email_verification") : challengeLock[d] = NONE
    BY <1>5 DEF register_issue, At, Free
  <2>3. u \in User /\ users[u].status # "absent"
    BY <2>2 DEF Knows, RowsAreThere, FindsItsRows
  <2> HIDE DEF u
  <2>4. Reissues(u, c, "email_verification")
    BY <1>1, <2>1, <2>2, <2>3 DEF Reissues
  <2>5. \A d \in Challenge, q \in Request : challengeLock[d] = q =>
            ~LiveFor(d, u, "email_verification")
    BY <1>2, <2>2 DEF LiveFor, ActiveChallenges, ChallengesOf, LiveChallenge
  <2>6. \A q \in Request : Spared(q)
    BY <1>1, <2>1, <2>2, <2>3, <2>5, IssueSpares DEF Spared
  <2> QED
    BY <1>1, <2>2, <2>3, <2>4, <2>6, FinishAccounted DEF AccountStep
<1> QED
  BY <1>3, <1>4, <1>5

LEMMA EndsAllHolds ==
    ASSUME TypeOK, NEW u \in User,
           \/ sessions' = revoke_all_by_user(u, "password_reset")
           \/ sessions' = revoke_and_anonymize_all_by_user(u, "owner_anonymized")
    PROVE  EndsAll(u)
<1> SUFFICES ASSUME NEW s \in Session
             PROVE  IF s \in SessionsOf(u)
                    THEN /\ Exists(sessions', s)
                         /\ sessions'[s].user = sessions[s].user
                         /\ sessions'[s].version = sessions[s].version
                         /\ sessions'[s].revoked # NONE
                         /\ sessions[s].revoked # NONE =>
                                sessions'[s].revoked \in
                                    {sessions[s].revoked, "owner_anonymized"}
                    ELSE Same(s)
  BY DEF EndsAll
<1>1. PICK reason \in Reason : sessions' \in {revoke_all_by_user(u, reason),
                                              revoke_and_anonymize_all_by_user(u, reason)}
  BY DEF Reason
<1>2. /\ Exists(sessions, s) =>
            /\ sessions'[s] \in SessionRow
            /\ sessions'[s].user = sessions[s].user
            /\ sessions'[s].version = sessions[s].version
      /\ s \in SessionsOf(u) => sessions'[s].revoked # NONE
      /\ s \notin SessionsOf(u) => sessions'[s] = sessions[s]
  BY <1>1, RevokedSessions
<1>3. CASE s \notin SessionsOf(u)
  BY <1>2, <1>3 DEF Same, Exists
<1>4. CASE s \in SessionsOf(u)
  <2>1. Exists(sessions, s) /\ Exists(sessions', s) /\ sessions[s] \in SessionRow
    BY <1>2, <1>4, RowsExist, RowAssumption DEF SessionsOf, Exists
  <2>2. ASSUME sessions[s].revoked # NONE,
               sessions' = revoke_all_by_user(u, "password_reset")
        PROVE  sessions'[s].revoked = sessions[s].revoked
    <3>1. revoke_all_by_user(u, "password_reset")[s] = sessions[s]
      BY <2>2 DEF revoke_all_by_user
    <3> QED
      BY <2>2, <3>1
  <2>3. ASSUME sessions' = revoke_and_anonymize_all_by_user(u, "owner_anonymized")
        PROVE  sessions'[s].revoked = "owner_anonymized"
    <3>1. revoke_and_anonymize_all_by_user(u, "owner_anonymized")[s] =
            [sessions[s] EXCEPT !.revoked = "owner_anonymized", !.csrf = NONE]
      BY <1>4 DEF revoke_and_anonymize_all_by_user
    <3>2. [sessions[s] EXCEPT !.revoked = "owner_anonymized", !.csrf = NONE].revoked
            = "owner_anonymized"
      BY <2>1 DEF SessionRow
    <3> QED
      BY <2>3, <3>1, <3>2
  <2> QED
    BY <1>2, <1>4, <2>1, <2>2, <2>3
<1> QED
  BY <1>3, <1>4

LEMMA ConfirmationsAccounted ==
    ASSUME AccountsSound, NEW r \in Request
    PROVE  verify_activate(r) \/ reset_commit(r) \/ anonymize_account(r) => Accounted
<1> USE DEF AccountsSound, Basic
<1> DEFINE u == local[r].user
           c == local[r].challenge
<1>1. /\ FindsItsRows(r) /\ HoldsWhatItLocked(r) /\ Knows(r)
      /\ \A q \in Request : q # NONE
  BY StoreAssumption DEF RowsAreThere, LocksAreHeld
<1>2. ASSUME NEW d \in Challenge, LiveChallenge(d), d # c, c \in Challenge,
             Exists(challenges, c),
             challenges' = [challenges EXCEPT ![c].state = "used"]
      PROVE  /\ LiveChallenge(d)'
             /\ challenges'[d].user = challenges[d].user
             /\ challenges'[d].purpose = challenges[d].purpose
  <2>1. challenges'[d] = challenges[d]
    BY <1>2 DEF TypeOK
  <2> QED
    BY <1>2, <2>1 DEF LiveChallenge, Exists
<1>3. ASSUME verify_activate(r)
      PROVE  Accounted
  <2>1. /\ pc[r] = "verify_activate" /\ Finish(r) /\ sessions' = sessions
        /\ userLock[u] = NONE /\ users[u].status = "pending"
        /\ users' = [users EXCEPT ![u].status = "active"]
        /\ challenges' = [challenges EXCEPT ![c].state = "used"]
    BY <1>3 DEF verify_activate, VerifyAccepted, At, Free
  <2>2. /\ u \in User /\ c \in Challenge /\ Exists(challenges, c)
        /\ challengeLock[c] = r
        /\ LiveFor(c, u, "email_verification")
    BY <1>1, <2>1 DEF FindsItsRows, HoldsWhatItLocked, Knows
  <2> HIDE DEF u, c
  <2>3. Activates(u, c)
    BY <2>1, <2>2 DEF Activates, SessionsSame, Same, Exists
  <2>4. \A v \in User : v # u => users'[v] = users[v]
    BY <2>1 DEF TypeOK
  <2>5. \A q \in Request \ {r} : Spared(q)
    BY <1>1, <1>2, <2>1, <2>2, <2>4 DEF Spared
  <2> QED
    BY <2>1, <2>2, <2>3, <2>5, FinishAccounted DEF AccountStep
<1>4. ASSUME reset_commit(r)
      PROVE  Accounted
  <2>1. /\ pc[r] = "reset_commit" /\ Finish(r)
        /\ users' = [users EXCEPT ![u].version = @ + 1]
        /\ sessions' = revoke_all_by_user(u, "password_reset")
        /\ challenges' = [challenges EXCEPT ![c].state = "used"]
    BY <1>4 DEF reset_commit, At
  <2>2. /\ u \in User /\ c \in Challenge /\ Exists(challenges, c)
        /\ challengeLock[c] = r /\ userLock[u] = r
        /\ users[u].status = "active"
        /\ LiveFor(c, u, "password_reset")
    BY <1>1, <2>1 DEF FindsItsRows, HoldsWhatItLocked, Knows
  <2> HIDE DEF u, c
  <2>3. Resets(u, c)
    BY <2>1, <2>2, EndsAllHolds DEF Resets
  <2>4. \A v \in User : v # u => users'[v] = users[v]
    BY <2>1 DEF TypeOK
  <2>5. \A q \in Request \ {r} : Spared(q)
    BY <1>1, <1>2, <2>1, <2>2, <2>4 DEF Spared
  <2> QED
    BY <2>1, <2>2, <2>3, <2>5, FinishAccounted DEF AccountStep
<1>5. ASSUME anonymize_account(r)
      PROVE  Accounted
  <2>1. /\ pc[r] = "anonymize_commit" /\ Finish(r)
        /\ \A d \in ChallengesOf(u) : challengeLock[d] = NONE
        /\ users' = [users EXCEPT ![u] = [status |-> "anonymized",
                                           version |-> @.version + 1,
                                           workspace |-> "blocked"]]
        /\ sessions' = revoke_and_anonymize_all_by_user(u, "owner_anonymized")
        /\ challenges' = delete_for_user(u)
    BY <1>5 DEF anonymize_account, At, Free
  <2>2. u \in User /\ userLock[u] = r /\ users[u].status = "active"
    BY <1>1, <2>1, RowsExist DEF FindsItsRows, HoldsWhatItLocked, Knows, SessionRow
  <2> HIDE DEF u, c
  <2>3. Anonymizes(u)
    BY <2>1, <2>2, EndsAllHolds DEF Anonymizes
  <2>4. \A v \in User : v # u => users'[v] = users[v]
    BY <2>1 DEF TypeOK
  <2>5. ASSUME NEW q \in Request, NEW d \in Challenge, challengeLock[d] = q,
               LiveChallenge(d)
        PROVE  /\ LiveChallenge(d)'
               /\ challenges'[d].user = challenges[d].user
               /\ challenges'[d].purpose = challenges[d].purpose
    <3>1. d \notin ChallengesOf(u)
      BY <1>1, <2>1, <2>5
    <3>2. challenges'[d] = challenges[d]
      BY <2>1, <3>1 DEF delete_for_user
    <3> QED
      BY <2>5, <3>2 DEF LiveChallenge, Exists
  <2>6. \A q \in Request \ {r} : Spared(q)
    BY <1>1, <2>2, <2>4, <2>5 DEF Spared
  <2> QED
    BY <2>1, <2>2, <2>3, <2>6, FinishAccounted DEF AccountStep
<1> QED
  BY <1>3, <1>4, <1>5

LEMMA TimeAccounted ==
    ASSUME AccountsSound
    PROVE  /\ \A s \in Session : session_expires(s) => Accounted
           /\ \A c \in Challenge : challenge_expires(c) => Accounted
<1> USE DEF AccountsSound, Basic
<1>1. ASSUME NEW s \in Session, session_expires(s)
      PROVE  Accounted
  <2>1. /\ users' = users /\ challenges' = challenges /\ UNCHANGED <<pc, local>>
        /\ Exists(sessions, s)
        /\ sessions' = [sessions EXCEPT ![s].expired = TRUE]
    BY <1>1 DEF session_expires
  <2>2. sessions'[s] \in SessionRow
    BY <2>1, RowsExist DEF SessionRow, TypeOK
  <2>3. Expires(s)
    BY <2>1, <2>2, OneSession DEF Expires, Only
  <2>4. \A q \in Request : Spared(q)
    BY <2>1 DEF Spared, LiveChallenge, Exists
  <2> QED
    BY <2>1, <2>3, <2>4, WriteAccounted DEF AccountStep
<1>2. ASSUME NEW c \in Challenge, challenge_expires(c)
      PROVE  Accounted
  <2>1. /\ users' = users /\ sessions' = sessions /\ UNCHANGED <<pc, local>>
        /\ LiveChallenge(c) /\ Exists(challenges, c)
        /\ challenges' = [challenges EXCEPT ![c].expired = TRUE]
    BY <1>2 DEF challenge_expires, LiveChallenge
  <2>2. Ages(c)
    BY <2>1 DEF Ages, SessionsSame, Same, Exists
  <2>3. /\ Exists(challenges', c)
        /\ challenges'[c].user = challenges[c].user
        /\ challenges'[c].purpose = challenges[c].purpose
        /\ challenges'[c].state = challenges[c].state
        /\ \A d \in Challenge \ {c} : challenges'[d] = challenges[d]
    BY <2>1, MarkIs
  <2>4. \A q \in Request : Spared(q)
    BY <2>1, <2>3 DEF Spared, LiveChallenge, Exists
  <2> QED
    BY <2>1, <2>2, <2>4, WriteAccounted DEF AccountStep
<1> QED
  BY <1>1, <1>2

LEMMA EveryStepAccounted ==
    ASSUME AccountsSound, [Next]_vars
    PROVE  Accounted
<1>1. ASSUME NEW r \in Request, AuthStart(r) PROVE Accounted
  BY <1>1, AuthReadsAccounted, EndsAccounted DEF AuthStart
<1>2. ASSUME NEW r \in Request, LifecycleStart(r) PROVE Accounted
  BY <1>2, LifecycleReadsAccounted, RegistersAccounted DEF LifecycleStart
<1>3. ASSUME NEW r \in Request, AuthStep(r) PROVE Accounted
  BY <1>3, AuthReadsAccounted, OpensAndRefreshesAccounted, EndsAccounted,
     RefusalsAccounted DEF AuthStep
<1>4. ASSUME NEW r \in Request, LifecycleStep(r) PROVE Accounted
  BY <1>4, LifecycleReadsAccounted, RegistersAccounted, ConfirmationsAccounted,
     RefusalsAccounted DEF LifecycleStep
<1>5. ASSUME NEW r \in Request, deadlock_victim(r) \/ failure(r) PROVE Accounted
  BY <1>5, RefusalsAccounted
<1>6. CASE UNCHANGED vars
  <2>1. UNCHANGED rows /\ UNCHANGED <<pc, local>>
    BY <1>6 DEF vars
  <2> QED
    BY <2>1, StillSpares, WriteAccounted
<1> QED
  BY <1>1, <1>2, <1>3, <1>4, <1>5, <1>6, TimeAccounted DEF Next, RequestStep

----------------------------------------------------------------------------
(* The invariant holds *)

LEMMA InitAccounts == Init => AccountsSound
<1> SUFFICES ASSUME Init PROVE AccountsSound
  OBVIOUS
<1>1. RowsAgree
  BY DEF Init, RowsAgree, Exists
<1>2. \A r \in Request : Knows(r)
  BY DEF Init, Knows
<1> QED
  BY <1>1, <1>2, InitBasic DEF AccountsSound

LEMMA NextAccounts == AccountsSound /\ [Next]_vars => AccountsSound'
<1> SUFFICES ASSUME AccountsSound, [Next]_vars
             PROVE  AccountsSound'
  OBVIOUS
<1>1. Accounted
  BY EveryStepAccounted
<1>2. Basic'
  BY NextBasic DEF AccountsSound
<1>3. RowsAgree'
  BY <1>1, RowsStillAgree DEF AccountsSound, Basic, Accounted
<1>4. \A q \in Request : Knows(q)'
  BY <1>1, StillKnows DEF AccountsSound, Accounted
<1> QED
  BY <1>2, <1>3, <1>4 DEF AccountsSound

LEMMA AlwaysAccounts == Spec => []AccountsSound
<1>1. Init => AccountsSound
  BY InitAccounts
<1>2. AccountsSound /\ [Next]_vars => AccountsSound'
  BY NextAccounts
<1> QED
  BY <1>1, <1>2, PTL DEF Spec

\* Whatever commits between the two reads of an authentication, the session a
\* principal was built from authenticated when its row was read.
THEOREM PrincipalsWereLive == Spec => []PrincipalWasLive
<1>1. AccountsSound => PrincipalWasLive
  BY DEF AccountsSound, Knows, PrincipalWasLive
<1> QED
  BY <1>1, AlwaysAccounts, PTL


----------------------------------------------------------------------------
(* Challenges *)

\* The ways challenge d can change.
LEMMA ChallengeSteps ==
    ASSUME TypeOK, AccountStep, NEW d \in Challenge
    PROVE  \/ challenges'[d] = challenges[d]
           \/ /\ challenges[d] = Unissued
              /\ Exists(challenges', d)
              /\ challenges'[d].state = "live"
           \/ /\ LiveChallenge(d)
              /\ Exists(challenges', d)
              /\ challenges'[d].user = challenges[d].user
              /\ challenges'[d].purpose = challenges[d].purpose
              /\ challenges'[d].state \in {"live", "invalidated"}
           \/ /\ LiveChallenge(d)
              /\ Exists(challenges', d)
              /\ challenges'[d].user = challenges[d].user
              /\ challenges'[d].purpose = challenges[d].purpose
              /\ challenges'[d].state = "used"
              /\ \E u \in User : Activates(u, d) \/ Resets(u, d)
           \/ /\ challenges'[d] = Deleted
              /\ \E u \in User : Anonymizes(u) /\ d \in ChallengesOf(u)
<1> DEFINE Kept == challenges'[d] = challenges[d]
           Issued == /\ challenges[d] = Unissued
                     /\ Exists(challenges', d)
                     /\ challenges'[d].state = "live"
           Stays == /\ LiveChallenge(d)
                    /\ Exists(challenges', d)
                    /\ challenges'[d].user = challenges[d].user
                    /\ challenges'[d].purpose = challenges[d].purpose
           Unused == challenges'[d].state \in {"live", "invalidated"}
           Used == /\ challenges'[d].state = "used"
                   /\ \E u \in User : Activates(u, d) \/ Resets(u, d)
           Removed == /\ challenges'[d] = Deleted
                      /\ \E u \in User : Anonymizes(u) /\ d \in ChallengesOf(u)
           Ways == Kept \/ Issued \/ (Stays /\ Unused) \/ (Stays /\ Used) \/ Removed
<1>1. challenges' = challenges => Kept
  OBVIOUS
<1>2. ASSUME NEW c \in Challenge, NEW u \in User, NEW p \in Purpose,
             challenges[c] = Unissued, challenges' = issue(c, u, p)
      PROVE  Kept \/ Issued \/ (Stays /\ Unused)
  <2>1. CASE d = c
    <3>1. issue(c, u, p)[d] = [user |-> u, purpose |-> p, state |-> "live",
                               expired |-> FALSE]
      BY <2>1, IssueIs
    <3>2. challenges'[d] = [user |-> u, purpose |-> p, state |-> "live",
                            expired |-> FALSE]
      BY <1>2, <3>1
    <3>3. challenges'[d] \in ChallengeRow
      BY <3>2 DEF ChallengeRow
    <3>4. Exists(challenges', d) /\ challenges'[d].state = "live"
      <4>1. challenges'[d].state = "live"
        BY <3>2
      <4>2. Exists(challenges', d)
        BY <3>3, RowAssumption DEF Exists
      <4> QED
        BY <4>1, <4>2
    <3>5. challenges[d] = Unissued
      BY <1>2, <2>1
    <3>6. Issued
      BY <3>4, <3>5
    <3> QED
      BY <3>6
  <2>2. CASE d # c /\ LiveFor(d, u, p)
    <3>1. /\ issue(c, u, p)[d] \in ChallengeRow
          /\ issue(c, u, p)[d].user = u /\ issue(c, u, p)[d].purpose = p
          /\ issue(c, u, p)[d].state = "invalidated"
      BY <2>2, IssueReplaces
    <3>2. Exists(challenges', d)
      BY <1>2, <3>1, RowAssumption DEF Exists
    <3> QED
      BY <1>2, <2>2, <3>1, <3>2 DEF LiveFor
  <2>3. CASE d # c /\ ~LiveFor(d, u, p)
    <3>1. issue(c, u, p)[d] = challenges[d]
      BY <2>3, IssueKeeps
    <3> QED
      BY <1>2, <3>1
  <2> QED
    BY <2>1, <2>2, <2>3
<1>3. ASSUME NEW c \in Challenge, Ages(c)
      PROVE  Kept \/ (Stays /\ Unused)
  <2>1. /\ LiveChallenge(c) /\ Exists(challenges, c) /\ challenges[c].state = "live"
        /\ challenges' = [challenges EXCEPT ![c].expired = TRUE]
    BY <1>3 DEF Ages, LiveChallenge
  <2> QED
    BY <2>1, MarkIs
<1>4. ASSUME NEW c \in Challenge, NEW u \in User, Activates(u, c) \/ Resets(u, c)
      PROVE  Kept \/ (Stays /\ Used)
  <2>1. /\ LiveChallenge(c) /\ Exists(challenges, c)
        /\ challenges' = [challenges EXCEPT ![c].state = "used"]
    BY <1>4 DEF Activates, Resets, LiveFor, LiveChallenge
  <2>2. /\ d # c => challenges'[d] = challenges[d]
        /\ Exists(challenges', c)
        /\ challenges'[c].user = challenges[c].user
        /\ challenges'[c].purpose = challenges[c].purpose
        /\ challenges'[c].state = "used"
    BY <2>1, MarkIs
  <2> QED
    BY <1>4, <2>1, <2>2
<1>5. ASSUME NEW u \in User, Anonymizes(u)
      PROVE  Kept \/ Removed
  BY <1>5 DEF Anonymizes, delete_for_user
<1> HIDE DEF Kept, Issued, Stays, Unused, Used, Removed
<1>6. ASSUME NEW u \in User, NEW c \in Challenge
      PROVE  /\ Registers(u, c) => Ways
             /\ \A p \in Purpose : Reissues(u, c, p) => Ways
             /\ Activates(u, c) \/ Resets(u, c) => Ways
  BY <1>2, <1>4 DEF Registers, Reissues, Purpose
<1>7. \/ Still \/ (\E s \in Session : Opens(s) \/ Expires(s) \/ Ends(s)) => Ways
  BY <1>1 DEF Still, Opens, Expires, Ends, Only
<1>8. /\ \A c \in Challenge : Ages(c) => Ways
      /\ \A u \in User : Anonymizes(u) => Ways
  BY <1>3, <1>5
<1> HIDE DEF Ways
<1>9. Ways
  BY <1>6, <1>7, <1>8 DEF AccountStep
<1> QED
  BY <1>9 DEF Ways, Kept, Issued, Stays, Unused, Used, Removed

\* A second live challenge is never left beside the first.
LEMMA OneLiveStep ==
    ASSUME TypeOK, AccountStep, OneLiveChallenge
    PROVE  OneLiveChallenge'
<1> SUFFICES ASSUME NEW c \in Challenge, NEW d \in Challenge,
                    LiveChallenge(c)', LiveChallenge(d)', c # d,
                    challenges'[c].user = challenges'[d].user,
                    challenges'[c].purpose = challenges'[d].purpose
             PROVE  FALSE
  BY DEF OneLiveChallenge
<1>1. /\ Exists(challenges', c) /\ challenges'[c].state = "live"
      /\ Exists(challenges', d) /\ challenges'[d].state = "live"
  BY DEF LiveChallenge
<1>2. ASSUME NEW e \in Challenge, e \in {c, d}
      PROVE  \/ challenges[e] = Unissued
             \/ /\ LiveChallenge(e)
                /\ challenges'[e].user = challenges[e].user
                /\ challenges'[e].purpose = challenges[e].purpose
  <2>1. CASE challenges'[e] = challenges[e]
    BY <1>1, <1>2, <2>1 DEF LiveChallenge, Exists
  <2>2. CASE challenges'[e] # challenges[e]
    BY <1>1, <1>2, <2>2, ChallengeSteps DEF Exists
  <2> QED
    BY <2>1, <2>2
<1>3. ASSUME NEW e \in Challenge, NEW f \in Challenge, e # f, {e, f} = {c, d},
             challenges[e] = Unissued
      PROVE  FALSE
  <2>1. PICK u \in User, p \in Purpose : challenges' = issue(e, u, p)
    BY <1>1, <1>3, NewChallenges
  <2>2. challenges'[e].user = u /\ challenges'[e].purpose = p
    <3>1. issue(e, u, p)[e] = [user |-> u, purpose |-> p, state |-> "live",
                               expired |-> FALSE]
      BY IssueIs
    <3> QED
      BY <2>1, <3>1
  <2>3. challenges'[f].user = u /\ challenges'[f].purpose = p
    BY <1>3, <2>2
  <2>4. CASE LiveFor(f, u, p)
    <3>1. issue(e, u, p)[f].state = "invalidated"
      BY <1>3, <2>4, IssueReplaces
    <3>2. challenges'[f].state = "live"
      BY <1>1, <1>3
    <3>3. challenges'[f].state = issue(e, u, p)[f].state
      BY <2>1
    <3> QED
      BY <3>1, <3>2, <3>3
  <2>5. CASE ~LiveFor(f, u, p)
    <3>1. issue(e, u, p)[f] = challenges[f]
      BY <1>3, <2>5, IssueKeeps
    <3>2. challenges'[f] = challenges[f]
      BY <2>1, <3>1
    <3>3. Exists(challenges', f) /\ challenges'[f].state = "live"
      BY <1>1, <1>3
    <3> QED
      BY <2>3, <2>5, <3>2, <3>3 DEF LiveFor, LiveChallenge, Exists
  <2> QED
    BY <2>4, <2>5
<1>4. /\ LiveChallenge(c) /\ LiveChallenge(d)
      /\ challenges[c].user = challenges[d].user
      /\ challenges[c].purpose = challenges[d].purpose
  BY <1>2, <1>3
<1> QED
  BY <1>4 DEF OneLiveChallenge

\* Whatever requests for challenges overlap, an account keeps at most one live
\* challenge per purpose.
THEOREM ChallengesReplaceEachOther == Spec => []OneLiveChallenge
<1>1. Init => OneLiveChallenge
  BY DEF Init, OneLiveChallenge, LiveChallenge, Exists
<1>2. AccountsSound /\ OneLiveChallenge /\ [Next]_vars => OneLiveChallenge'
  BY EveryStepAccounted, OneLiveStep DEF AccountsSound, Basic, Accounted
<1> QED
  BY <1>1, <1>2, AlwaysAccounts, PTL DEF Spec


----------------------------------------------------------------------------
(* Token versions *)

UsedResets(u) == {c \in ChallengesOf(u) : /\ challenges[c].purpose = "password_reset"
                                          /\ challenges[c].state = "used"}

\* Only a reset of an account, or its anonymization, changes the set of reset
\* challenges it has used.
LEMMA UsedResetsStay ==
    ASSUME TypeOK, AccountStep, NEW u \in User, \A c \in Challenge : ~Resets(u, c),
           ~Anonymizes(u)
    PROVE  UsedResets(u)' = UsedResets(u)
<1>1. ASSUME NEW d \in Challenge
      PROVE  d \in UsedResets(u)' <=> d \in UsedResets(u)
  <2>1. CASE challenges'[d] = challenges[d]
    BY <2>1 DEF UsedResets, ChallengesOf, Exists
  <2>2. CASE /\ challenges[d] = Unissued
             /\ challenges'[d].state = "live"
    BY <2>2 DEF UsedResets, ChallengesOf, Exists
  <2>3. CASE /\ LiveChallenge(d)
             /\ challenges'[d].state \in {"live", "invalidated"}
    BY <2>3 DEF UsedResets, ChallengesOf, LiveChallenge
  <2>4. ASSUME NEW v \in User, Activates(v, d) \/ Resets(v, d), LiveChallenge(d),
               challenges'[d].user = challenges[d].user,
               challenges'[d].purpose = challenges[d].purpose
        PROVE  d \notin UsedResets(u)' /\ d \notin UsedResets(u)
    <3>1. \/ challenges[d].purpose = "email_verification"
          \/ challenges[d].user = v /\ v # u
      BY <2>4 DEF Activates, Resets, LiveFor
    <3> QED
      BY <2>4, <3>1 DEF UsedResets, ChallengesOf, LiveChallenge
  <2>5. ASSUME NEW v \in User, Anonymizes(v), d \in ChallengesOf(v), challenges'[d] = Deleted
        PROVE  d \notin UsedResets(u)' /\ d \notin UsedResets(u)
    <3>1. challenges[d].user = v /\ v # u
      BY <2>5 DEF ChallengesOf
    <3> QED
      BY <2>5, <3>1 DEF UsedResets, ChallengesOf, Exists
  <2> QED
    BY <2>1, <2>2, <2>3, <2>4, <2>5, ChallengeSteps
<1> QED
  BY <1>1 DEF UsedResets, ChallengesOf

\* A reset adds its challenge.
LEMMA ResetsAddOne ==
    ASSUME TypeOK, NEW u \in User, NEW c \in Challenge, Resets(u, c)
    PROVE  UsedResets(u)' = UsedResets(u) \cup {c} /\ c \notin UsedResets(u)
<1>1. /\ LiveChallenge(c) /\ Exists(challenges, c) /\ challenges[c].state = "live"
      /\ challenges[c].user = u /\ challenges[c].purpose = "password_reset"
      /\ challenges' = [challenges EXCEPT ![c].state = "used"]
  BY DEF Resets, LiveFor, LiveChallenge
<1>2. /\ Exists(challenges', c)
      /\ challenges'[c].user = challenges[c].user
      /\ challenges'[c].purpose = challenges[c].purpose
      /\ challenges'[c].state = "used"
      /\ \A d \in Challenge \ {c} : challenges'[d] = challenges[d]
  BY <1>1, MarkIs
<1>3. c \in UsedResets(u)' /\ c \notin UsedResets(u)
  BY <1>1, <1>2 DEF UsedResets, ChallengesOf
<1>4. \A d \in Challenge \ {c} : d \in UsedResets(u)' <=> d \in UsedResets(u)
  BY <1>2 DEF UsedResets, ChallengesOf, Exists
<1>5. UsedResets(u) \subseteq Challenge /\ UsedResets(u)' \subseteq Challenge
  BY DEF UsedResets, ChallengesOf
<1> QED
  BY <1>3, <1>4, <1>5

LEMMA VersionStep ==
    ASSUME TypeOK, RowsAgree, AccountStep, VersionCountsResets
    PROVE  VersionCountsResets'
<1> SUFFICES ASSUME NEW u \in User, users'[u].status \in {"pending", "active"}
             PROVE  users'[u].version = 1 + Cardinality(UsedResets(u)')
  BY DEF VersionCountsResets, UsedResets
<1>1. users[u].status \in {"pending", "active"} =>
        users[u].version = 1 + Cardinality(UsedResets(u))
  BY DEF VersionCountsResets, UsedResets
<1>2. ASSUME NEW c \in Challenge, Resets(u, c)
      PROVE  users'[u].version = 1 + Cardinality(UsedResets(u)')
  <2>1. IsFiniteSet(UsedResets(u))
    <3>1. UsedResets(u) \in SUBSET Challenge
      BY DEF UsedResets, ChallengesOf
    <3> QED
      BY <3>1, FiniteChallenges, FS_Subset
  <2>2. UsedResets(u)' = UsedResets(u) \cup {c} /\ c \notin UsedResets(u)
    BY <1>2, ResetsAddOne
  <2> DEFINE S == UsedResets(u)
  <2> HIDE DEF S
  <2>3. /\ Cardinality(S) \in Nat
        /\ c \notin S => Cardinality(S \cup {c}) = Cardinality(S) + 1
    BY <2>1, FS_AddElement, FS_CardinalityType DEF S
  <2>4. Cardinality(UsedResets(u)') = Cardinality(UsedResets(u)) + 1
    BY <2>2, <2>3 DEF S
  <2>5. /\ users[u].status = "active"
        /\ users'[u].version = users[u].version + 1
    BY <1>2 DEF Resets, TypeOK, UserRow
  <2> QED
    BY <1>1, <2>3, <2>4, <2>5 DEF S
<1>3. CASE \A c \in Challenge : ~Resets(u, c)
  <2>1. ~Anonymizes(u)
    BY DEF Anonymizes, TypeOK
  <2>2. UsedResets(u)' = UsedResets(u)
    BY <1>3, <2>1, UsedResetsStay
  <2>3. CASE users[u] = Absent /\ users'[u] = Pending
    <3>1. UsedResets(u) = {}
      BY <2>3 DEF RowsAgree, UsedResets, ChallengesOf, Absent
    <3>2. Cardinality(UsedResets(u)) = 0
      BY <3>1, FS_EmptySet
    <3> QED
      BY <2>2, <2>3, <3>2 DEF Pending
  <2>4. CASE users[u].status \in {"pending", "active"}
             /\ users'[u].version = users[u].version
    BY <1>1, <2>2, <2>4
  <2> QED
    BY <1>3, <2>3, <2>4, UserSteps
<1> QED
  BY <1>2, <1>3

\* However many confirmations of however many challenges overlap, an account's
\* token_version counts the reset challenges it has consumed.
THEOREM VersionIsResetCount == Spec => []VersionCountsResets
<1>1. Init => VersionCountsResets
  <2> SUFFICES ASSUME Init, NEW u \in User
               PROVE  users[u].version = 1 + Cardinality(UsedResets(u))
    BY DEF VersionCountsResets, UsedResets
  <2>1. UsedResets(u) = {}
    BY DEF Init, UsedResets, ChallengesOf, Exists
  <2>2. Cardinality(UsedResets(u)) = 0
    BY <2>1, FS_EmptySet
  <2> QED
    BY <2>2 DEF Init, Absent, Verified
<1>2. AccountsSound /\ VersionCountsResets /\ [Next]_vars => VersionCountsResets'
  BY EveryStepAccounted, VersionStep DEF AccountsSound, Basic, Accounted
<1> QED
  BY <1>1, <1>2, AlwaysAccounts, PTL DEF Spec

----------------------------------------------------------------------------
(* What a step never does *)

\* No registration, verification or reset that was under way when an account
\* was anonymized changes it afterwards.
THEOREM AnonymizedForGood == Spec => AnonymizationIsIrreversible
<1>1. AccountsSound /\ [Next]_vars =>
        (\A u \in User : users[u].status = "anonymized" => users'[u] = users[u])
  BY EveryStepAccounted, UsersForward DEF AccountsSound, Basic, Accounted
<1> QED
  BY <1>1, AlwaysAccounts, PTL DEF Spec, AnonymizationIsIrreversible

\* What the step does to verification challenges and accounts, as the property
\* says it.
LEMMA ActivationStep ==
    ASSUME TypeOK, AccountStep
    PROVE  LET consumed == {c \in Challenge : /\ LiveChallenge(c)
                                              /\ challenges[c].purpose = "email_verification"
                                              /\ challenges'[c] # Deleted
                                              /\ challenges'[c].state = "used"}
               activated == {u \in User : /\ users[u].status # "active"
                                          /\ users'[u].status = "active"}
           IN /\ \A u \in activated :
                    /\ users[u].status = "pending"
                    /\ \E c \in consumed : challenges[c].user = u /\ consumed = {c}
              /\ \A c \in consumed : challenges[c].user \in activated
<1> DEFINE consumed == {c \in Challenge : /\ LiveChallenge(c)
                                          /\ challenges[c].purpose = "email_verification"
                                          /\ challenges'[c] # Deleted
                                          /\ challenges'[c].state = "used"}
           activated == {u \in User : /\ users[u].status # "active"
                                      /\ users'[u].status = "active"}
<1>1. ASSUME NEW u \in User, NEW c \in Challenge, Activates(u, c)
      PROVE  /\ users[u].status = "pending" /\ u \in activated
             /\ challenges[c].user = u /\ consumed = {c}
  <2>1. /\ LiveChallenge(c) /\ Exists(challenges, c)
        /\ challenges[c].user = u /\ challenges[c].purpose = "email_verification"
        /\ challenges' = [challenges EXCEPT ![c].state = "used"]
        /\ users[u].status = "pending"
        /\ users' = [users EXCEPT ![u].status = "active"]
    BY <1>1 DEF Activates, LiveFor, LiveChallenge
  <2>2. users'[u].status = "active"
    BY <2>1 DEF TypeOK, UserRow
  <2>3. /\ Exists(challenges', c) /\ challenges'[c].state = "used"
        /\ \A d \in Challenge \ {c} : challenges'[d] = challenges[d]
    BY <2>1, MarkIs
  <2>4. \A d \in Challenge : d \in consumed <=> d = c
    BY <2>1, <2>3 DEF Exists, LiveChallenge
  <2> QED
    BY <2>1, <2>2, <2>4
<1>2. ASSUME NEW c \in consumed
      PROVE  \E u \in User : Activates(u, c)
  <2>1. /\ c \in Challenge /\ LiveChallenge(c) /\ challenges[c].state = "live"
        /\ challenges[c].purpose = "email_verification"
        /\ challenges'[c] # Deleted /\ challenges'[c].state = "used"
    BY DEF LiveChallenge
  <2>2. challenges[c] # Unissued
    BY <2>1 DEF LiveChallenge, Exists
  <2>3. PICK u \in User : Activates(u, c) \/ Resets(u, c)
    BY <2>1, <2>2, ChallengeSteps
  <2>4. ~Resets(u, c)
    BY <2>1 DEF Resets, LiveFor
  <2> QED
    BY <2>3, <2>4
<1>3. ASSUME NEW u \in activated
      PROVE  \E c \in Challenge : Activates(u, c)
  <2>1. u \in User /\ users[u].status # "active" /\ users'[u].status = "active"
    OBVIOUS
  <2>2. Pending.status # "active"
    BY DEF Pending
  <2> QED
    BY <2>1, <2>2, UserSteps
<1> HIDE DEF consumed, activated
<1>4. ASSUME NEW u \in activated
      PROVE  /\ users[u].status = "pending"
             /\ \E c \in consumed : challenges[c].user = u /\ consumed = {c}
  <2>1. u \in User
    BY DEF activated
  <2> QED
    BY <1>1, <1>3, <1>4, <2>1
<1>5. ASSUME NEW c \in consumed
      PROVE  challenges[c].user \in activated
  <2>1. c \in Challenge
    BY DEF consumed
  <2> QED
    BY <1>1, <1>2, <2>1
<1> QED
  BY <1>4, <1>5 DEF consumed, activated

\* An account becomes active only together with the consumption of one of its
\* own verification challenges, whatever registrations and confirmations overlap.
THEOREM ActivationIsByChallenge == Spec => ActivationConsumesOneChallenge
<1>1. AccountsSound /\ [Next]_vars =>
        LET consumed == {c \in Challenge : /\ LiveChallenge(c)
                                           /\ challenges[c].purpose = "email_verification"
                                           /\ challenges'[c] # Deleted
                                           /\ challenges'[c].state = "used"}
            activated == {u \in User : /\ users[u].status # "active"
                                       /\ users'[u].status = "active"}
        IN /\ \A u \in activated :
                 /\ users[u].status = "pending"
                 /\ \E c \in consumed : challenges[c].user = u /\ consumed = {c}
           /\ \A c \in consumed : challenges[c].user \in activated
  <2> SUFFICES ASSUME AccountsSound, [Next]_vars
               PROVE  TypeOK /\ AccountStep
    BY ActivationStep
  <2> QED
    BY EveryStepAccounted DEF AccountsSound, Basic, Accounted
<1> QED
  BY <1>1, AlwaysAccounts, PTL DEF Spec, ActivationConsumesOneChallenge


----------------------------------------------------------------------------
(* Sessions *)

\* The ways a step can change sessions and accounts together.
LEMMA SessionSteps ==
    ASSUME TypeOK, AccountStep
    PROVE  \/ /\ SessionsSame
              /\ \A u \in User : users[u].status \in {"active", "anonymized"} =>
                    users'[u] = users[u]
           \/ \E s \in Session : Opens(s) \/ Expires(s) \/ Ends(s)
           \/ \E u \in User :
                /\ EndsAll(u) /\ users[u].status = "active"
                /\ users'[u].version > users[u].version
                /\ \A v \in User \ {u} : users'[v] = users[v]
<1>1. ASSUME NEW u \in User, \/ \E c \in Challenge : Resets(u, c)
                             \/ Anonymizes(u)
      PROVE  /\ EndsAll(u) /\ users[u].status = "active"
             /\ users'[u].version > users[u].version
             /\ \A v \in User \ {u} : users'[v] = users[v]
  <2>1. users[u] \in UserRow /\ users[u].version \in Nat
    BY DEF TypeOK, UserRow
  <2>2. /\ EndsAll(u) /\ users[u].status = "active"
        /\ \A v \in User \ {u} : users'[v] = users[v]
    BY <1>1 DEF Resets, Anonymizes, TypeOK
  <2>3. users'[u].version = users[u].version + 1
    BY <1>1, <2>1 DEF Resets, Anonymizes, TypeOK, UserRow
  <2> QED
    BY <2>1, <2>2, <2>3
<1> DEFINE Aside == /\ SessionsSame
                    /\ \A u \in User : users[u].status \in {"active", "anonymized"} =>
                          users'[u] = users[u]
<1>2. ASSUME NEW u \in User, NEW c \in Challenge
      PROVE  /\ Registers(u, c) => Aside
             /\ Activates(u, c) => Aside
             /\ \A p \in Purpose : Reissues(u, c, p) => Aside
  BY DEF Registers, Activates, Reissues, TypeOK, Absent
<1>3. /\ Still => Aside
      /\ \A c \in Challenge : Ages(c) => Aside
  BY DEF Still, Ages
<1> QED
  BY <1>1, <1>2, <1>3 DEF AccountStep

LEMMA RevocationStep ==
    ASSUME TypeOK, AccountStep
    PROVE  /\ LET revoked == {s \in Session : /\ Exists(sessions, s)
                                              /\ sessions[s].revoked = NONE
                                              /\ sessions'[s].revoked # NONE}
              IN revoked # {} =>
                   \/ users' = users /\ \E s \in revoked : revoked = {s}
                   \/ \E u \in User :
                       /\ users'[u].version > users[u].version
                       /\ \A s \in revoked : sessions[s].user = u
                       /\ \A s \in SessionsOf(u) : sessions'[s].revoked # NONE
           /\ \A s \in Session : Exists(sessions, s) /\ sessions[s].revoked # NONE =>
                sessions'[s].revoked \in {sessions[s].revoked, "owner_anonymized"}
<1> DEFINE Revoked(s) == /\ Exists(sessions, s)
                         /\ sessions[s].revoked = NONE
                         /\ sessions'[s].revoked # NONE
           Kept(s) == Exists(sessions, s) /\ sessions[s].revoked # NONE =>
                        sessions'[s].revoked \in {sessions[s].revoked, "owner_anonymized"}
           revoked == {s \in Session : Revoked(s)}
           Scoped == \/ revoked = {}
                     \/ users' = users /\ \E s \in revoked : revoked = {s}
                     \/ \E u \in User :
                         /\ users'[u].version > users[u].version
                         /\ \A s \in revoked : sessions[s].user = u
                         /\ \A s \in SessionsOf(u) : sessions'[s].revoked # NONE
<1>1. \A s \in Session : Same(s) => ~Revoked(s) /\ Kept(s)
  BY DEF Same
<1>2. ASSUME SessionsSame
      PROVE  Scoped /\ \A s \in Session : Kept(s)
  BY <1>1, <1>2 DEF SessionsSame
<1>3. ASSUME NEW s \in Session, Opens(s) \/ Expires(s) \/ Ends(s)
      PROVE  Scoped /\ \A x \in Session : Kept(x)
  <2>1. /\ users' = users
        /\ \A x \in Session \ {s} : ~Revoked(x) /\ Kept(x)
    BY <1>1, <1>3 DEF Opens, Expires, Ends, Only
  <2>2. Kept(s)
    BY <1>3 DEF Opens, Expires, Ends, Exists
  <2>3. revoked = {} \/ revoked = {s}
    BY <2>1
  <2> QED
    BY <2>1, <2>2, <2>3
<1>4. ASSUME NEW u \in User, EndsAll(u), users'[u].version > users[u].version
      PROVE  Scoped /\ \A x \in Session : Kept(x)
  <2>1. /\ \A s \in Session : s \in SessionsOf(u) =>
                sessions'[s].revoked # NONE /\ Kept(s)
        /\ \A s \in Session : s \notin SessionsOf(u) => Same(s)
    BY <1>4 DEF EndsAll
  <2>2. \A s \in revoked : s \in SessionsOf(u)
    BY <1>1, <2>1
  <2>3. /\ \A s \in SessionsOf(u) : s \in Session /\ sessions[s].user = u
    BY DEF SessionsOf
  <2> QED
    BY <1>1, <1>4, <2>1, <2>2, <2>3
<1> HIDE DEF Kept
<1>5. Scoped /\ \A s \in Session : Kept(s)
  BY <1>2, <1>3, <1>4, SessionSteps
<1> QED
  BY <1>5 DEF Kept

\* However logins, refreshes, resets and anonymizations overlap, a step revokes
\* one session, or all those of the one account whose credentials it changes.
THEOREM RevocationsAreScoped == Spec => RevocationIsScoped
<1>1. AccountsSound /\ [Next]_vars =>
        LET revoked == {s \in Session : /\ Exists(sessions, s)
                                        /\ sessions[s].revoked = NONE
                                        /\ sessions'[s].revoked # NONE}
        IN revoked # {} =>
             \/ users' = users /\ \E s \in revoked : revoked = {s}
             \/ \E u \in User :
                 /\ users'[u].version > users[u].version
                 /\ \A s \in revoked : sessions[s].user = u
                 /\ \A s \in SessionsOf(u) : sessions'[s].revoked # NONE
  <2> SUFFICES ASSUME AccountsSound, [Next]_vars
               PROVE  TypeOK /\ AccountStep
    BY RevocationStep
  <2> QED
    BY EveryStepAccounted DEF AccountsSound, Basic, Accounted
<1> QED
  BY <1>1, AlwaysAccounts, PTL DEF Spec, RevocationIsScoped

\* The reason a session was first revoked for is overwritten by nothing but an
\* anonymization.
THEOREM ReasonsAreKept == Spec => RevocationReasonIsKept
<1>1. AccountsSound /\ [Next]_vars =>
        (\A s \in Session :
            Exists(sessions, s) /\ sessions[s].revoked # NONE =>
                sessions'[s].revoked \in {sessions[s].revoked, "owner_anonymized"})
  <2> SUFFICES ASSUME AccountsSound, [Next]_vars
               PROVE  TypeOK /\ AccountStep
    BY RevocationStep
  <2> QED
    BY EveryStepAccounted DEF AccountsSound, Basic, Accounted
<1> QED
  BY <1>1, AlwaysAccounts, PTL DEF Spec, RevocationReasonIsKept

----------------------------------------------------------------------------
(* Refinement *)

\* A session that is the same, of an account that is the same, gives the same
\* access.
LEMMA SameAccess ==
    ASSUME NEW s \in Session, Same(s),
           Exists(sessions, s) => users'[sessions[s].user] = users[sessions[s].user]
    PROVE  access'[s] = access[s] /\ owner'[s] = owner[s]
<1>1. Exists(sessions, s) => (Authenticates(s)' <=> Authenticates(s))
  BY DEF Same, Authenticates
<1>2. /\ access[s] = (IF ~Exists(sessions, s) THEN "unopened"
                      ELSE IF Authenticates(s) THEN "granted" ELSE "lost")
      /\ access'[s] = (IF ~Exists(sessions', s) THEN "unopened"
                       ELSE IF Authenticates(s)' THEN "granted" ELSE "lost")
      /\ owner[s] = (IF Exists(sessions, s) THEN sessions[s].user ELSE NONE)
      /\ owner'[s] = (IF Exists(sessions', s) THEN sessions'[s].user ELSE NONE)
  BY DEF access, owner
<1> QED
  BY <1>1, <1>2 DEF Same

\* Opening one session, ending or expiring one, and ending all those of an
\* account are the steps of SessionAccess.
LEMMA OpenIsOpen ==
    ASSUME TypeOK, NEW s \in Session, Opens(s)
    PROVE  Promise!Next
<1> DEFINE u == sessions'[s].user
           outcome == IF Authenticates(s)' THEN "granted" ELSE "lost"
<1>1. ~Exists(sessions, s) /\ Exists(sessions', s) /\ u \in User
  BY DEF Opens, Only, Exists
<1>2. access[s] = "unopened" /\ access'[s] = outcome /\ owner'[s] = u
  BY <1>1 DEF access, owner
<1>3. \A x \in Session \ {s} : access'[x] = access[x] /\ owner'[x] = owner[x]
  BY SameAccess DEF Opens, Only
<1>4. /\ access' = [access EXCEPT ![s] = outcome]
      /\ owner' = [owner EXCEPT ![s] = u]
  BY <1>2, <1>3 DEF access, owner
<1>5. outcome \in {"granted", "lost"}
  OBVIOUS
<1> HIDE DEF outcome, u
<1>6. Promise!Open(s, u, outcome)
  BY <1>2, <1>4 DEF Promise!Open
<1> QED
  BY <1>1, <1>5, <1>6 DEF Promise!Next

LEMMA EndIsWithdraw ==
    ASSUME TypeOK, NEW s \in Session, Expires(s) \/ Ends(s)
    PROVE  Promise!Next \/ UNCHANGED <<access, owner>>
<1>1. /\ Exists(sessions, s) /\ Exists(sessions', s)
      /\ sessions'[s].user = sessions[s].user
      /\ ~Authenticates(s)'
  BY DEF Expires, Ends, Only, Authenticates
<1>2. /\ access[s] \in {"granted", "lost"}
      /\ access'[s] = "lost" /\ owner'[s] = owner[s]
  BY <1>1 DEF access, owner
<1>3. \A x \in Session \ {s} : access'[x] = access[x] /\ owner'[x] = owner[x]
  BY SameAccess DEF Expires, Ends, Only
<1>4. /\ access' = [access EXCEPT ![s] = "lost"]
      /\ owner' = owner
  BY <1>2, <1>3 DEF access, owner
<1>5. CASE access[s] = "granted"
  <2>1. Promise!Withdraw(s)
    BY <1>4, <1>5 DEF Promise!Withdraw
  <2> QED
    BY <2>1 DEF Promise!Next
<1>6. CASE access[s] = "lost"
  <2>1. access' = access
    BY <1>2, <1>3, <1>6 DEF access
  <2> QED
    BY <1>4, <2>1
<1> QED
  BY <1>2, <1>5, <1>6

LEMMA EndsAllIsWithdrawAll ==
    ASSUME TypeOK, NEW u \in User, EndsAll(u), \A v \in User \ {u} : users'[v] = users[v]
    PROVE  Promise!Next
<1>1. ASSUME NEW s \in Session
      PROVE  /\ access'[s] = IF access[s] = "granted" /\ owner[s] = u
                             THEN "lost" ELSE access[s]
             /\ owner'[s] = owner[s]
  <2>1. CASE s \in SessionsOf(u)
    <3>1. /\ Exists(sessions, s) /\ Exists(sessions', s)
          /\ sessions[s].user = u /\ sessions'[s].user = u
          /\ sessions'[s].revoked # NONE
      BY <2>1 DEF EndsAll, SessionsOf
    <3>2. ~Authenticates(s)'
      BY <3>1 DEF Authenticates
    <3>3. /\ access[s] \in {"granted", "lost"} /\ owner[s] = u
          /\ access'[s] = "lost" /\ owner'[s] = u
      BY <3>1, <3>2 DEF access, owner
    <3> QED
      BY <3>3
  <2>2. CASE s \notin SessionsOf(u)
    <3>1. Same(s)
      BY <2>2 DEF EndsAll
    <3>2. Exists(sessions, s) => sessions[s].user \in User \ {u}
      BY <2>2, RowsExist DEF SessionsOf, SessionRow
    <3>3. access'[s] = access[s] /\ owner'[s] = owner[s]
      BY <3>1, <3>2, SameAccess
    <3>4. access[s] = "granted" => owner[s] # u
      BY <3>2 DEF access, owner
    <3> QED
      BY <3>3, <3>4
  <2> QED
    BY <2>1, <2>2
<1>2. /\ access' = [s \in Session |-> IF access[s] = "granted" /\ owner[s] = u
                                       THEN "lost" ELSE access[s]]
      /\ owner' = owner
  BY <1>1 DEF access, owner
<1>3. Promise!WithdrawAll(u)
  BY <1>2 DEF Promise!WithdrawAll
<1> QED
  BY <1>3 DEF Promise!Next

LEMMA AccessStep ==
    ASSUME TypeOK, RowsAgree, AccountStep
    PROVE  [Promise!Next]_<<access, owner>>
<1>1. ASSUME SessionsSame,
             \A u \in User : users[u].status \in {"active", "anonymized"} =>
                users'[u] = users[u]
      PROVE  UNCHANGED <<access, owner>>
  <2>1. ASSUME NEW s \in Session
        PROVE  access'[s] = access[s] /\ owner'[s] = owner[s]
    <3>1. Exists(sessions, s) =>
            /\ sessions[s].user \in User
            /\ users[sessions[s].user].status \in {"active", "anonymized"}
      BY RowsExist DEF SessionRow, RowsAgree
    <3> QED
      BY <1>1, <3>1, SameAccess DEF SessionsSame
  <2> QED
    BY <2>1 DEF access, owner
<1> QED
  BY <1>1, SessionSteps, OpenIsOpen, EndIsWithdraw, EndsAllIsWithdrawAll

\* Rotation, replay, logout, reset and anonymization, however they overlap, take
\* access from one session or from all those of one account, and never return it.
THEOREM IdentityImplementsSessionAccess == Spec => ImplementsSessionAccess
<1>1. Init => Promise!Init
  BY DEF Init, Promise!Init, access, owner, Exists
<1>2. AccountsSound /\ [Next]_vars => [Promise!Next]_<<access, owner>>
  BY EveryStepAccounted, AccessStep DEF AccountsSound, Basic, Accounted
<1> QED
  BY <1>1, <1>2, AlwaysAccounts, PTL DEF Spec, ImplementsSessionAccess, Promise!Spec
=============================================================================

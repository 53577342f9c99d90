--------------------------- MODULE SessionAccess ---------------------------
(***************************************************************************)
(* What the identity system promises about access tokens, with no word of  *)
(* rows, locks, token versions or rotation.  A session belongs to the      *)
(* account it was opened for; it gives access from its opening, unless the *)
(* credentials changed while it was being opened; access is withdrawn from *)
(* one session, or from all the sessions of an account at once, and is     *)
(* never given back.                                                       *)
(***************************************************************************)
CONSTANTS User, Session, NONE

VARIABLES
    access,   \* whether the access tokens of each session are accepted
    owner     \* the account each session belongs to

Init ==
    /\ access = [s \in Session |-> "unopened"]
    /\ owner = [s \in Session |-> NONE]

\* A login completes; "lost" when a change of credentials overtook it.
Open(s, u, outcome) ==
    /\ access[s] = "unopened"
    /\ access' = [access EXCEPT ![s] = outcome]
    /\ owner' = [owner EXCEPT ![s] = u]

\* Logout, replay of a refresh token, expiry.
Withdraw(s) ==
    /\ access[s] = "granted"
    /\ access' = [access EXCEPT ![s] = "lost"]
    /\ UNCHANGED owner

\* Password reset, anonymization.
WithdrawAll(u) ==
    /\ access' = [s \in Session |-> IF access[s] = "granted" /\ owner[s] = u
                                    THEN "lost" ELSE access[s]]
    /\ UNCHANGED owner

Next ==
    \/ \E s \in Session, u \in User, outcome \in {"granted", "lost"} : Open(s, u, outcome)
    \/ \E s \in Session : Withdraw(s)
    \/ \E u \in User : WithdrawAll(u)

Spec == Init /\ [][Next]_<<access, owner>>
============================================================================

---------------------------- MODULE ScopedSearch ----------------------------
(***************************************************************************)
(* What a search promises: one reply to each question, which is a failure  *)
(* without results, or different contents out of the scope of the          *)
(* question, no more than were asked for.                                  *)
(***************************************************************************)
EXTENDS Integers, Functions

CONSTANTS Content, TopKs

VARIABLES asked, reply

NoQuestion == [scope |-> {}, top_k |-> 0]
NoReply    == [state |-> "none", results |-> <<>>]

Replies(question, r) ==
    \/ r = [state |-> "failed", results |-> <<>>]
    \/ /\ r.state = "ok"
       /\ \E n \in 0..question.top_k :
            r.results \in {s \in [1..n -> question.scope] : IsInjective(s)}

Init == asked = NoQuestion /\ reply = NoReply

\* A question, which may be answered at once.
Ask ==
    /\ asked = NoQuestion
    /\ \E scope \in SUBSET Content, top_k \in TopKs : asked' = [scope |-> scope, top_k |-> top_k]
    /\ reply' = NoReply \/ Replies(asked', reply')

Reply ==
    /\ asked # NoQuestion /\ reply = NoReply
    /\ Replies(asked, reply')
    /\ UNCHANGED asked

Leave ==
    /\ reply # NoReply
    /\ asked' = NoQuestion /\ reply' = NoReply

Next == Ask \/ Reply \/ Leave

Spec == Init /\ [][Next]_<<asked, reply>>
============================================================================

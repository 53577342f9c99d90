----------------------------- MODULE TextIndex -----------------------------
(***************************************************************************)
(* What embeddings promise to a search: a content is offered under the     *)
(* vector of the text it has at that moment, or not at all.  An offer      *)
(* ends when the text changes, and may be withdrawn and renewed.  The one  *)
(* exception is a vector that was computed before another was stored: it   *)
(* may be of another text, until a vector is stored that is not.           *)
(***************************************************************************)
EXTENDS Integers

CONSTANTS Content, NONE

VARIABLES
    text,     \* the text of each content
    offered,  \* the text whose vector it is found by, or NONE
    overtaken \* the contents whose last vector was computed before another

Init ==
    /\ text \in [Content -> {"raw", "enriched"}]
    /\ offered = [c \in Content |-> NONE]
    /\ overtaken = {}

Rewrite(c) ==
    /\ text[c] = "raw"
    /\ text' = [text EXCEPT ![c] = "enriched"]
    /\ offered' = [offered EXCEPT ![c] = NONE]
    /\ UNCHANGED overtaken

Offer(c) ==
    /\ offered' = [offered EXCEPT ![c] = text[c]]
    /\ overtaken' = overtaken \ {c}
    /\ UNCHANGED text

Overtake(c) ==
    /\ \E t \in {"raw", "enriched", NONE} : offered' = [offered EXCEPT ![c] = t]
    /\ overtaken' = overtaken \cup {c}
    /\ UNCHANGED text

Withdraw(c) ==
    /\ offered' = [offered EXCEPT ![c] = NONE]
    /\ overtaken' \in {overtaken, overtaken \ {c}}
    /\ UNCHANGED text

Next == \E c \in Content : Rewrite(c) \/ Offer(c) \/ Overtake(c) \/ Withdraw(c)

Spec == Init /\ [][Next]_<<text, offered, overtaken>>
============================================================================

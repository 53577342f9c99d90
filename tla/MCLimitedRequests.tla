------------------------- MODULE MCLimitedRequests -------------------------
(***************************************************************************)
(* An instance of LimitedRequests for TLC: acceptances of invitations by   *)
(* one account, whose network address may be refused before it is.         *)
(***************************************************************************)
EXTENDS LimitedRequests, TLC

Identities == [ip |-> {"a"}, user |-> {"u"}]
Limits     == [k \in Keys |-> IF k[2] = "ip" THEN 2 ELSE 1]
============================================================================

----------------------------- MODULE MCIdentity -----------------------------
(***************************************************************************)
(* Instances of Identity for TLC.  Identifiers are drawn at random by the  *)
(* code and only compared for equality, so permuting those of one kind     *)
(* does not change a behaviour.                                            *)
(***************************************************************************)
EXTENDS Identity, TLC

Symmetry == Permutations(User) \cup Permutations(Session) \cup Permutations(Token)
                \cup Permutations(Challenge) \cup Permutations(Request)
=============================================================================

---------------------------- MODULE MCWorkspaces ----------------------------
(***************************************************************************)
(* Instances of Workspaces for TLC: one or two sources, whose feeds have   *)
(* one or two entries.                                                     *)
(***************************************************************************)
EXTENDS Workspaces, TLC

CONSTANTS s1, s2, c1, c2, c3

TwoFeeds == c1 :> s1 @@ c3 :> s2
OneFeed  == c1 :> s1 @@ c2 :> s1

\* Identifiers are drawn at random by the code and only compared for equality,
\* so permuting those of one kind does not change a behaviour.
Symmetry == Permutations(Workspace) \cup Permutations(Link) \cup Permutations(Request)
=============================================================================

------------------------------ MODULE MCSearch ------------------------------
(***************************************************************************)
(* An instance of Search for TLC: four contents, lists of two and of       *)
(* one, two seeds.  The limits keep the proportions they have in           *)
(* production, where GraphLimit = Cap - MaxSeeds + GraphBudget as well.    *)
(***************************************************************************)
EXTENDS Search

Contents == 1..4
Scores   == {50, 100}   \* two neighbours may tie, or differ
=============================================================================

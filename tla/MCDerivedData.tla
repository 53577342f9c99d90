--------------------------- MODULE MCDerivedData ---------------------------
(***************************************************************************)
(* An instance of DerivedData for TLC: three contents, one relationship    *)
(* and two candidates for each.                                            *)
(***************************************************************************)
EXTENDS DerivedData, TLC

Contents  == 1..3

\* The first two are seven and a half days apart, the first and the third one
\* and a half: 1 and 3 count different days, and 1 and 2 give different points.
Dates  == (1 :> 0) @@ (2 :> 15) @@ (3 :> 3)

\* 1 gives 2 and 3 the same score, 2 gives 1 a higher one; 2 and 3 score too little.
Points == [p \in Pairs |-> CASE p = {1, 2} -> 18 [] p = {1, 3} -> 16 [] OTHER -> 10]

\* Both requests embed the content that one of them enriches, and relate.
Endpoints == ("r1" :> {"enrich", "run", "rebuild_batch", "generate_batch", "failure"})
          @@ ("r2" :> {"generate", "rebuild", "failure"})

\* The same without relationships and failures.
Overlapping == ("r1" :> {"enrich", "generate"}) @@ ("r2" :> {"generate"})
============================================================================

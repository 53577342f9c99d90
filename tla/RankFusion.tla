----------------------------- MODULE RankFusion -----------------------------
(***************************************************************************)
(* Reciprocal rank fusion of the lexical and the vector results, and the   *)
(* ranking of the contents related to the best of them.                    *)
(*                                                                         *)
(* A content is a number, and numbers are ordered as identifiers are.      *)
(* Scores are exact fractions; the code rounds its sums to floats, which   *)
(* could only matter for two sums closer than a rounding error.            *)
(***************************************************************************)
EXTENDS Integers, Sequences, FiniteSets, Functions

CONSTANTS
    Content,       \* identifiers of contents
    RrfK,          \* HYBRID_RRF_K: how little the first places count
    MaxSeeds,      \* fused results whose relationships are followed
    GraphLimit     \* related contents that are kept

ASSUME ContentAssumption == Content \subseteq Nat /\ IsFiniteSet(Content)
ASSUME RankAssumption == RrfK \in Nat \ {0} /\ MaxSeeds \in Nat \ {0} /\ GraphLimit \in Nat \ {0}

----------------------------------------------------------------------------
(* Lists *)

\* Elements m to n of a list, as many as there are: list[m-1:n].
Part(list, m, n) == SubSeq(list, m, IF n <= Len(list) THEN n ELSE Len(list))

\* The lists of at most n different elements of S.
Lists(S, n) == UNION {{s \in [1..k -> S] : IsInjective(s)} : k \in 0..n}

\* The elements of S in the order Before: one list when Before is a total order.
Ordered(S, Before(_, _)) ==
    {s \in [1..Cardinality(S) -> S] :
        \A i, j \in 1..Cardinality(S) : i < j => Before(s[i], s[j])}

Position(list, c) == CHOOSE i \in DOMAIN list : list[i] = c

\* A list without the elements outside S.
Only(list, S) ==
    Ordered(Range(list) \cap S, LAMBDA c, d : Position(list, c) < Position(list, d))

----------------------------------------------------------------------------
(* Scores *)

Zero == [num |-> 0, den |-> 1]
Plus(p, q) == [num |-> p.num * q.den + q.num * p.den, den |-> p.den * q.den]
Exceeds(p, q) == p.num * q.den > q.num * p.den
Equals(p, q)  == p.num * q.den = q.num * p.den

\* What one list adds to the score of a content.
Contribution(list, c) ==
    IF c \in Range(list) THEN [num |-> 1, den |-> RrfK + Position(list, c)] ELSE Zero

FusedScore(lexical, vector, c) == Plus(Contribution(lexical, c), Contribution(vector, c))

\* Mutant: the smallest score comes first.
Ranked_Ascending(S, score) ==
    Ordered(S, LAMBDA c, d : \/ Exceeds(score[d], score[c])
                             \/ Equals(score[c], score[d]) /\ c < d)

\* Higher scores first, then smaller identifiers.
Ranked(S, score) ==
    Ordered(S, LAMBDA c, d : \/ Exceeds(score[c], score[d])
                             \/ Equals(score[c], score[d]) /\ c < d)

\* ReciprocalRankFusion.fuse
fuse(lexical, vector, top_k) ==
    LET found == Range(lexical) \cup Range(vector)
        score == [c \in found |-> FusedScore(lexical, vector, c)]
    IN {Part(s, 1, top_k) : s \in Ranked(found, score)}

----------------------------------------------------------------------------
(* Relationships of the seeds: edges[{c, d}] is the score of the            *)
(* relationship between c and d, 0 when there is none.                      *)

Seeds(fused) == Part(fused, 1, MaxSeeds)

Pairs(seeds) == {p \in SUBSET Content : Cardinality(p) = 2 /\ p \cap Range(seeds) # {}}

\* Neighbours of a seed that are not seeds themselves.
Neighbors(seeds, edges) ==
    {c \in Content \ Range(seeds) : \E i \in DOMAIN seeds : edges[{seeds[i], c}] > 0}

\* Mutant: the last contributing seed counts alone.
GraphScore_Overwritten(seeds, edges, c) ==
    LET Total[n \in 0..Len(seeds)] ==
            IF n = 0 THEN Zero
            ELSE IF edges[{seeds[n], c}] = 0 THEN Total[n - 1]
            ELSE [num |-> edges[{seeds[n], c}], den |-> n]
    IN Total[Len(seeds)]

\* A relationship counts its score divided by the rank of its seed.
GraphScore(seeds, edges, c) ==
    LET Total[n \in 0..Len(seeds)] ==
            IF n = 0 THEN Zero
            ELSE Plus(Total[n - 1], [num |-> edges[{seeds[n], c}], den |-> n])
    IN Total[Len(seeds)]

\* Mutant: the limit is one short.
aggregate_Short(seeds, edges) ==
    LET near  == Neighbors(seeds, edges)
        score == [c \in near |-> GraphScore(seeds, edges, c)]
    IN {Part(s, 1, GraphLimit - 1) : s \in Ranked(near, score)}

\* GraphCandidateAggregator.aggregate, of what ContentRelationshipRepository.neighbors reads.
aggregate(seeds, edges) ==
    LET near  == Neighbors(seeds, edges)
        score == [c \in near |-> GraphScore(seeds, edges, c)]
    IN {Part(s, 1, GraphLimit) : s \in Ranked(near, score)}
=============================================================================

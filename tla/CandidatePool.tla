---------------------------- MODULE CandidatePool ----------------------------
(***************************************************************************)
(* The candidates that are reranked: a bounded pool in which contents that *)
(* were found leave a share to contents related to them.                   *)
(***************************************************************************)
EXTENDS RankFusion

CONSTANTS
    Cap,               \* the most candidates a provider is given
    MinimumHorizon,    \* candidates there is room for, however few are asked for
    OverfetchFactor,   \* candidates for each result asked for
    GraphPercent       \* share of the related contents

ASSUME PoolAssumption ==
    /\ Cap \in Nat \ {0} /\ MinimumHorizon \in Nat /\ OverfetchFactor \in Nat \ {0}
    /\ GraphPercent \in 0..100

Least(m, n) == IF m <= n THEN m ELSE n
Most(m, n)  == IF m >= n THEN m ELSE n

horizon(top_k) == Least(Cap, Most(MinimumHorizon, OverfetchFactor * top_k))

\* ceil(H * GRAPH_SHARE)
GraphBudget(top_k) == (horizon(top_k) * GraphPercent + 99) \div 100

\* Mutant: places that one source leaves free stay free.
build_Unfilled(rrf, graph, top_k) ==
    LET g == GraphBudget(top_k) IN
    Part(rrf, 1, horizon(top_k) - g) \o Part(graph, 1, g)

\* PreRerankingCandidatePool.build, of a list of related contents without those in rrf.
build(rrf, graph, top_k) ==
    LET H == horizon(top_k)
        g == GraphBudget(top_k)
        r == H - g
        chosen_rrf   == Part(rrf, 1, r)
        chosen_graph == Part(graph, 1, g)
        more_rrf     == Part(rrf, r + 1, r + g - Len(chosen_graph))
        more_graph   == Part(graph, g + 1, g + r - Len(chosen_rrf))
    IN Part(chosen_rrf \o chosen_graph \o more_rrf \o more_graph, 1, H)
==============================================================================

------------------------------- MODULE Search -------------------------------
(***************************************************************************)
(* Searches, one after the other, and what they promise.                   *)
(***************************************************************************)
EXTENDS RerankingPipeline

Init ==
    /\ pc = "idle"
    /\ request = [kind |-> "none", top_k |-> 0]
    /\ scope = {} /\ found = NotFound /\ fused = <<>> /\ edges = <<>> /\ graph = <<>>
    /\ pool = <<>> /\ matched_by = Nowhere /\ items = <<>> /\ answer = Unanswered

Arrival ==
    \E kind \in Kinds, top_k \in TopKs :
        \/ \E visible \in SUBSET Content : begin(kind, top_k, visible)
        \/ kind = "workspace" /\ nothing_visible(top_k)
        \/ begin_fails(kind, top_k)

\* What the server does with a request that has arrived.
Step ==
    \/ search_lexical \/ lexical_fails
    \/ search_vector \/ search_vector_only \/ vector_fails
    \/ expand \/ expansion_fails
    \/ filter_eligible \/ nothing_eligible
    \/ read_documents \/ pipeline_fails
    \/ rerank \/ invalid_response \/ provider_fails
    \/ hydrate \/ hydrate_vector \/ hydration_fails

Next == Arrival \/ Step \/ end

Spec == Init /\ [][Next]_vars
----------------------------------------------------------------------------
(* Rankings *)

\* The place of a content in a list it may not be in.
Place(list, c) == IF c \in Range(list) THEN Position(list, c) ELSE Cardinality(Content) + 1

\* c is not behind d.
NotBehind(list, c, d) == d \in Range(list) => c \in Range(list) /\ Position(list, c) <= Position(list, d)

\* A content that is ahead of another one in a list, and behind it in none, is
\* not behind it in the fusion, nor cut off before it.
FusionRespectsLists ==
    pc = "expand" =>
        LET l == found.lexical
            v == found.vector
        IN \A c, d \in Range(l) \cup Range(v) :
            Place(l, c) <= Place(l, d) /\ Place(v, c) <= Place(v, d) => NotBehind(fused, c, d)

\* What the first n seeds have to do with c.
Nearness(c, n) ==
    LET Total[k \in 0..n] == IF k = 0 THEN 0 ELSE Total[k - 1] + edges[{Seeds(fused)[k], c}]
    IN Total[n]

\* A visible neighbour that has at least as much to do with the first n seeds
\* as another one, for every n, and more for some n, is not behind it, nor cut
\* off before it.
GraphPrefersNearSeeds ==
    pc = "eligibility" =>
        LET seeds == DOMAIN Seeds(fused) IN
        \A c, d \in Neighbors(Seeds(fused), edges) \cap scope :
            /\ \A n \in seeds : Nearness(c, n) >= Nearness(d, n)
            /\ \E n \in seeds : Nearness(c, n) > Nearness(d, n)
            => NotBehind(graph, c, d)

----------------------------------------------------------------------------
(* The pool *)

FromRrf   == Range(pool) \cap Range(fused)
FromGraph == Range(pool) \ Range(fused)

\* The pool has the room that the code gives it, that is the horizon of the
\* candidates the fusion may return; n contents were found and m others related.
Shares(n, m) ==
    LET H == horizon(candidate_limit)
        g == GraphBudget(candidate_limit)
    IN /\ Len(pool) = Least(H, n + m)
       /\ Cardinality(FromGraph) >= Least(g, m)
       /\ Cardinality(FromRrf) >= Least(H - g, n)

\* The pool has the places that the code gives it, by the number of candidates
\* fused (PoolKeepsToHorizon is about what ADR-001 gives it).  None of them stays
\* empty while either source has candidates left, each has its share, and within
\* each nobody is passed over.
PoolIsFair ==
    pc = "eligibility" =>
        /\ Shares(Len(fused), Cardinality(Range(graph) \ Range(fused)))
        /\ \A c, d \in Range(fused) : NotBehind(fused, c, d) => NotBehind(pool, c, d)
        /\ \A c, d \in Range(graph) \ Range(fused) :
                NotBehind(graph, c, d) => NotBehind(pool, c, d)

\* "H = min(100, max(20, 5 * top_k))" of the top_k that was asked for, and "Nunca
\* ultrapassar H" (ADR-001, Decision 2): the candidates that are reranked are
\* never more.
PoolKeepsToHorizon == pc = "eligibility" => Len(pool) <= horizon(request.top_k)

\* The neighbours of seeds that the request may show and that were not found.
Related == (Neighbors(Seeds(fused), edges) \cap scope) \ Range(fused)

\* The limit on related contents, which counts contents that were found as
\* well, leaves enough for the pool of a request that may show everything.
GraphLimitIsEnough ==
    pc = "eligibility" /\ request.kind = "global" => Shares(Len(fused), Cardinality(Related))

----------------------------------------------------------------------------
(* Answers *)

\* A hybrid request is answered with as many results as it asked for, or with
\* all eligible candidates, each once and with its own provenance.
AnswerIsComplete ==
    pc = "answered" /\ answer.status = 200 /\ request.kind # "vector" =>
        /\ Len(items) = Least(request.top_k, Len(pool))
        /\ \A i, j \in DOMAIN items : items[i].content = items[j].content => i = j
        /\ \A i \in DOMAIN items : /\ items[i].content \in Range(pool)
                                   /\ items[i].matched_by = matched_by[items[i].content]

asked == [scope |-> scope, top_k |-> request.top_k]
reply ==
    IF pc # "answered" THEN [state |-> "none", results |-> <<>>]
    ELSE [state   |-> IF answer.status = 200 THEN "ok" ELSE "failed",
          results |-> [i \in DOMAIN items |-> items[i].content]]

Scoped == INSTANCE ScopedSearch

\* Whatever changes between its statements, a search is one question and one
\* reply out of its scope.
ImplementsScopedSearch == Scoped!Spec
=============================================================================

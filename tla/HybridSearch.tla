---------------------------- MODULE HybridSearch ----------------------------
(***************************************************************************)
(* One search request from its arrival to its answer: POST /search/hybrid  *)
(* ("global"), POST /workspaces/current/search/hybrid ("workspace") and    *)
(* POST /search/vector ("vector").                                         *)
(*                                                                         *)
(* Searches write nothing, and every statement of one reads what is        *)
(* committed at that moment.  Other requests may change everything between *)
(* two statements, so each statement returns any rows that the code's own  *)
(* conditions on them allow, whatever an earlier one has returned.         *)
(***************************************************************************)
EXTENDS CandidatePool

CONSTANTS
    LexicalK, VectorK,   \* the lengths of the two lists that are fused
    TopKs,               \* numbers of results that are asked for
    EdgeScores,          \* scores of relationships
    Kinds                \* the endpoints that are used

ASSUME SearchAssumption ==
    /\ LexicalK \in Nat \ {0} /\ VectorK \in Nat \ {0} /\ TopKs \subseteq Nat \ {0}
    /\ EdgeScores \subseteq 1..100
    /\ Kinds \subseteq {"global", "workspace", "vector"}

VARIABLES
    pc,          \* how far the request has come
    request,     \* its endpoint and how many results it asks for
    scope,       \* the contents it may show
    found,       \* the results of the two retrievals
    fused,       \* the results of the fusion
    edges,       \* the relationships that were read
    graph,       \* the related contents that were kept
    pool,        \* the candidates
    matched_by,  \* where each candidate comes from
    items,       \* the results
    answer       \* the status and the exception it stands for

working == <<found, fused, edges, graph>>
vars == <<pc, request, scope, found, fused, edges, graph, pool, matched_by, items, answer>>

Origins   == {"lexical", "vector", "graph"}
Nowhere   == [c \in Content |-> {}]
NotFound  == [lexical |-> <<>>, vector |-> <<>>]
Unanswered == [status |-> 0, exception |-> "none"]
candidate_limit == Least(Cap, LexicalK + VectorK)

\* The production limits are in this proportion: GraphLimit is 100, MaxSeeds 20,
\* and there are at most 100 candidates, 20 of them for related contents.
ASSUME ProportionAssumption ==
    /\ GraphLimit >= Most(candidate_limit - MaxSeeds, 0) + GraphBudget(candidate_limit)
    /\ GraphLimit + 1 >= horizon(candidate_limit)

----------------------------------------------------------------------------
(* Answers *)

\* The routers turn a RuntimeError into 503, the workspace's router does not;
\* the application has handlers for the errors of the reranking provider.
StatusOf(kind, exception) ==
    CASE exception = "none" -> 200
      [] exception = "RerankingProviderUnavailableError" -> 503
      [] exception = "RerankingProviderResponseError" -> 502
      [] exception = "RuntimeError" /\ kind # "workspace" -> 503
      [] OTHER -> 500

Forget ==
    /\ found' = NotFound /\ fused' = <<>> /\ edges' = <<>> /\ graph' = <<>>

\* The request is answered with these results, or fails with none.
Answer(kind, exception, results) ==
    /\ pc' = "answered"
    /\ items' = results
    /\ answer' = [status |-> StatusOf(kind, exception), exception |-> exception]

Fail(exception) ==
    /\ Answer(request.kind, exception, <<>>)
    /\ Forget
    /\ UNCHANGED <<request, scope, pool, matched_by>>

Continue(next) == pc' = next /\ UNCHANGED <<request, scope, items, answer>>

----------------------------------------------------------------------------
(* The request *)

\* A request arrives; it may show the contents in visible.
Begin(kind, top_k, visible) ==
    /\ pc = "idle"
    /\ kind # "workspace" => visible = Content
    /\ request' = [kind |-> kind, top_k |-> top_k]
    /\ scope' = visible

begin(kind, top_k, visible) ==
    /\ Begin(kind, top_k, visible)
    /\ visible # {}
    /\ pc' = IF kind = "vector" THEN "vector" ELSE "lexical"
    /\ UNCHANGED <<working, pool, matched_by, items, answer>>

\* WorkspaceHybridSearchService.search: the workspace shows nothing.
nothing_visible(top_k) ==
    /\ Begin("workspace", top_k, {})
    /\ Answer("workspace", "none", <<>>)
    /\ UNCHANGED <<working, pool, matched_by>>

\* VoyageRerankingProvider is built with every hybrid request: no API key, or
\* the statement that lists what is visible fails.
begin_fails(kind, top_k) ==
    /\ Begin(kind, top_k, Content)
    /\ \E exception \in {"RerankingProviderConfigurationError", "SQLAlchemyError"} :
        /\ exception = "RerankingProviderConfigurationError" => kind # "vector"
        /\ exception = "SQLAlchemyError" => kind = "workspace"
        /\ Answer(kind, exception, <<>>)
    /\ UNCHANGED <<working, pool, matched_by>>

\* The client has the answer.
end ==
    /\ pc = "answered"
    /\ pc' = "idle"
    /\ request' = [kind |-> "none", top_k |-> 0]
    /\ scope' = {} /\ pool' = <<>> /\ matched_by' = Nowhere
    /\ items' = <<>> /\ answer' = Unanswered
    /\ UNCHANGED working

----------------------------------------------------------------------------
(* Retrieval *)

\* VectorSearchRepository: the nearest of the usable embeddings, which have the
\* hash of their content's text; the two statements may see different rows.
search_candidates(n) == Lists(scope, n)

\* LexicalSearchRepository.search
search_lexical ==
    /\ pc = "lexical"
    /\ \E list \in Lists(scope, LexicalK) : found' = [found EXCEPT !.lexical = list]
    /\ Continue("vector")
    /\ UNCHANGED <<fused, edges, graph, pool, matched_by>>

lexical_fails ==
    /\ pc = "lexical"
    /\ Fail("RuntimeError")

\* VectorCandidateService.search for a hybrid request, and the fusion.
search_vector ==
    /\ pc = "vector" /\ request.kind # "vector"
    /\ \E list \in search_candidates(VectorK) :
        /\ found' = [found EXCEPT !.vector = list]
        /\ fused' \in fuse(found.lexical, list, candidate_limit)
    /\ Continue("expand")
    /\ UNCHANGED <<edges, graph, pool, matched_by>>

\* VectorSearchService.search: the list is the result.
search_vector_only ==
    /\ pc = "vector" /\ request.kind = "vector"
    /\ pc' = "hydrate"
    /\ pool' \in search_candidates(request.top_k)
    /\ matched_by' = [c \in Content |-> IF c \in Range(pool') THEN {"vector"} ELSE {}]
    /\ items' = [i \in DOMAIN pool' |-> [content |-> pool'[i], matched_by |-> {"vector"}]]
    /\ UNCHANGED <<working, request, scope, answer>>

\* OpenAIEmbeddingProvider raises RuntimeError when it has no key or gets a
\* malformed response, and lets through what the OpenAI client raises when the
\* service does not answer.  The hybrid search makes a RuntimeError of a
\* database error, the vector search does not.
vector_fails ==
    /\ pc = "vector"
    /\ \/ \E e \in {"RuntimeError", "OpenAIError"} : Fail(e)
       \/ request.kind = "vector" /\ Fail("SQLAlchemyError")

----------------------------------------------------------------------------
(* Expansion and pool *)

Shown(near) == Range(near) \cap scope

\* The first occurrence of a candidate decides: "graph" only if it was not found.
Provenance(c, added) ==
    IF c \in added THEN {"graph"}
    ELSE {o \in {"lexical", "vector"} : c \in Range(found[o])}

\* GraphExpansionService.expand, the visibility filter, and the candidate pool.
expand ==
    /\ pc = "expand"
    /\ edges' \in [Pairs(Seeds(fused)) -> EdgeScores \cup {0}]
    /\ \E near \in aggregate(Seeds(fused), edges') :
        /\ graph' \in Only(near, Shown(near))
        /\ \E new \in Only(graph', Range(graph') \ Range(fused)) :
            /\ pool' = build(fused, new, candidate_limit)
            /\ matched_by' = [c \in Content |-> IF c \in Range(pool')
                                                THEN Provenance(c, Range(new)) ELSE {}]
    /\ Continue("eligibility")
    /\ UNCHANGED <<found, fused>>

expansion_fails ==
    /\ pc = "expand"
    /\ fused # <<>>
    /\ Fail("RuntimeError")
=============================================================================

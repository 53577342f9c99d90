-------------------------- MODULE RerankingPipeline --------------------------
(***************************************************************************)
(* What a hybrid search does with its candidates: HybridRerankingPipeline, *)
(* RerankingService and the provider's adapter.                            *)
(***************************************************************************)
EXTENDS HybridSearch

\* ContentEligibilityRepository.filter_eligible: the candidates that are processed.
filter_eligible ==
    /\ pc = "eligibility"
    /\ \E processed \in SUBSET Range(pool) :
        /\ processed # {}
        /\ pool' \in Only(pool, processed)
        /\ matched_by' = [c \in Content |-> IF c \in processed THEN matched_by[c] ELSE {}]
    /\ Continue("documents")
    /\ Forget

nothing_eligible ==
    /\ pc = "eligibility"
    /\ Answer(request.kind, "none", <<>>)
    /\ pool' = <<>> /\ matched_by' = Nowhere
    /\ Forget
    /\ UNCHANGED <<request, scope>>

\* A statement fails, or RerankDocumentFormatter refuses a stored document.
DocumentErrors == {"SQLAlchemyError", "ValueError"}

\* RerankDocumentRepository.hydrate and RerankDocumentFormatter.format
read_documents ==
    /\ pc = "documents"
    /\ Continue("rerank")
    /\ UNCHANGED <<working, pool, matched_by>>

pipeline_fails ==
    \/ pc = "eligibility" /\ pool # <<>> /\ Fail("SQLAlchemyError")
    \/ pc = "documents" /\ \E e \in DocumentErrors : Fail(e)

\* Responses of the provider: indices of documents, in any number and order,
\* with or without a score that is not a number.
Responses ==
    [indices : UNION {[1..k -> 0..Len(pool)] : k \in 0..(Len(pool) + 1)}, finite : BOOLEAN]

\* Mutant: an index may be repeated.
Valid_Repeated(response) ==
    /\ response.finite
    /\ Len(response.indices) = Len(pool)
    /\ \A i \in DOMAIN response.indices : response.indices[i] < Len(pool)

\* VoyageRerankingProvider._map_response and RerankingService._validate_provider_results:
\* every document once, with a finite score.
Valid(response) ==
    /\ response.finite
    /\ Len(response.indices) = Len(pool)
    /\ \A i \in DOMAIN response.indices : response.indices[i] < Len(pool)
    /\ IsInjective(response.indices)

\* Mutant: top_k is not applied.
Results_All(indices) ==
    [i \in DOMAIN indices |->
        LET c == pool[indices[i] + 1] IN [content |-> c, matched_by |-> matched_by[c]]]

\* The first top_k documents, in the provider's order.
Results(indices) ==
    [i \in 1..Least(request.top_k, Len(indices)) |->
        LET c == pool[indices[i] + 1] IN [content |-> c, matched_by |-> matched_by[c]]]

rerank ==
    /\ pc = "rerank"
    /\ pc' = "hydrate"
    /\ \E response \in Responses : Valid(response) /\ items' = Results(response.indices)
    /\ UNCHANGED <<working, request, scope, pool, matched_by, answer>>

invalid_response ==
    /\ pc = "rerank"
    /\ \E response \in Responses : ~Valid(response)
    /\ Fail("RerankingProviderResponseError")

\* The provider refuses the key or the request, times out, can not be reached,
\* limits the rate, or its client raises something else.
ProviderErrors ==
    {"RerankingProviderConfigurationError", "RerankingProviderUnavailableError", "VoyageError"}

provider_fails ==
    /\ pc = "rerank"
    /\ \E e \in ProviderErrors : Fail(e)

\* ContentHydrationRepository.hydrate: nothing deletes a content, so every
\* result is found.
hydrate ==
    /\ pc = "hydrate" /\ request.kind # "vector"
    /\ Answer(request.kind, "none", items)
    /\ UNCHANGED <<working, request, scope, pool, matched_by>>

\* VectorSearchService drops the results whose similarity is not a number.
hydrate_vector ==
    /\ pc = "hydrate" /\ request.kind = "vector"
    /\ \E finite \in SUBSET Range(items) :
        \E results \in Only(items, finite) : Answer("vector", "none", results)
    /\ UNCHANGED <<working, request, scope, pool, matched_by>>

hydration_fails ==
    /\ pc = "hydrate"
    /\ items # <<>>
    /\ Fail("SQLAlchemyError")
==============================================================================

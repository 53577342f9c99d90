---------------------------- MODULE DerivedData ----------------------------
(***************************************************************************)
(* Enrichment, embedding and relating of contents at the same time, and    *)
(* what remains true of the results.                                       *)
(***************************************************************************)
EXTENDS Enrichment, Embeddings, Relationships

\* The process ends, or the database fails, before the commit.
failure(r) ==
    /\ "failure" \in Events[r]
    /\ pc[r] # "idle"
    /\ Finish(r)
    /\ lock' = [c \in Content |-> IF lock[c] = r THEN NONE ELSE lock[c]]
    /\ UNCHANGED rows

Init ==
    /\ text = [c \in Content |-> IF c \in Enrichable THEN "raw" ELSE Enriched]
    /\ status = [c \in Content |-> IF c \in Enrichable THEN "pending" ELSE "processed"]
    /\ embedding = [c \in Content |-> NONE]
    /\ overtaken = {}
    /\ links = [p \in Pairs |-> NONE]
    /\ lock = [c \in Content |-> NONE]
    /\ pc = [r \in Request |-> "idle"]
    /\ local = [r \in Request |-> Nothing]

Start(r) == EnrichmentStart(r) \/ EmbeddingsStart(r) \/ RelationshipsStart(r)

Step(r) == EnrichmentStep(r) \/ EmbeddingsStep(r) \/ RelationshipsStep(r)

Failure(r) == record_failure(r) \/ embedding_fails(r) \/ failure(r)

Next == \E r \in Request : Start(r) \/ Step(r) \/ Failure(r)

Spec == Init /\ [][Next]_vars

----------------------------------------------------------------------------
(* Embeddings *)

Index == INSTANCE TextIndex WITH
    offered <- [c \in Content |-> IF IsEligible(c) THEN embedding[c].vector ELSE NONE]

\* Whatever overtakes the provider's answer, a search finds a content by the
\* vector of its present text or does not find it, unless the vector was stored
\* by a request for which another had replaced the embedding it had loaded.
ImplementsTextIndex == Index!Spec

\* A vector that was stored by a request which nobody overtook is that of the
\* text it is found for.
VectorIsOfItsTextUnlessOvertaken ==
    \A c \in Content \ overtaken : IsEligible(c) => embedding[c].vector = text[c]

\* "Only matching completed records are usable": a record that matches the
\* text of its content has the vector of that text.
UsableVectorIsOfItsText == \A c \in Content : IsEligible(c) => embedding[c].vector = text[c]

----------------------------------------------------------------------------
(* Relationships *)

\* Two contents are related only once both are enriched, with a score and a
\* distance that one of them gives the other.
LinksAreJustified ==
    \A c, d \in Content :
        c # d /\ links[{c, d}] # NONE =>
            /\ text[c] = Enriched /\ text[d] = Enriched
            /\ links[{c, d}].score >= Minimum
            /\ links[{c, d}] \in {Calculated(c, d), Calculated(d, c)}

\* No other request has touched the row of pair p, or inserted it, since r
\* has read the relationships of its content.
Untouched(r, p) == links[p] = local[r].had[p] /\ p \notin local[r].lost

\* The pairs of content t that are worth keeping among the candidates.
BestPairs(t, candidates) ==
    LET good == {c \in candidates : Score(t, c) >= Minimum}
    IN CHOOSE B \in SUBSET good :
        /\ Cardinality(B) = IF Cardinality(good) < MaxRelated THEN Cardinality(good) ELSE MaxRelated
        /\ \A b \in B, c \in good \ B :
             \/ Score(t, b) > Score(t, c)
             \/ Score(t, b) = Score(t, c) /\ b < c

\* A rebuild leaves its content with exactly its best candidates, as it has
\* calculated them, except for pairs that another rebuild has written since it looked;
\* and it writes no pair of two others.
RebuildIsExact ==
    [][\A r \in Request :
        store(r) =>
            LET t == Current(r)
                best == BestPairs(t, local[r].candidates)
            IN \A p \in Pairs :
                 /\ t \notin p => links'[p] = links[p]
                 /\ t \in p /\ Untouched(r, p) =>
                      LET c == CHOOSE c \in p : c # t
                      IN links'[p] = IF c \in best THEN Calculated(t, c) ELSE NONE]_vars
============================================================================

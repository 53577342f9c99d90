----------------------------- MODULE Enrichment -----------------------------
(***************************************************************************)
(* POST /contents/{id}/enrich, which takes a content whatever its status,  *)
(* and POST /enrichment/run, which takes those that are pending.           *)
(***************************************************************************)
EXTENDS ContentStore

enrich_one_content(r) ==
    \E c \in Enrichable : Begin(r, "enrich", "enrich", FALSE, {c}, {c})

\* Up to Limit pending contents, oldest first.
run_enrichment(r) ==
    LET pending == {c \in Enrichable : status[c] = "pending"} IN
    Begin(r, "run", "enrich", FALSE, pending, pending)

\* The derived columns end up with the same values whether or not they are
\* written; the status is written unless it was loaded as processed.  A run
\* has not loaded it when an earlier commit has expired the content.
enrich_content(r) ==
    LET c == Current(r) IN
    /\ At(r, "enrich")
    /\ text' = [text EXCEPT ![c] = Enriched]
    /\ status' = [status EXCEPT ![c] = IF local[r].status[c] = "processed" THEN @ ELSE "processed"]
    /\ Continue(r, "refresh", Expired(local[r]))
    /\ UNCHANGED <<embedding, overtaken, links, lock>>

\* The row is read again, for the log and the answer.
refresh(r) ==
    /\ At(r, "refresh")
    /\ NextContent(r, "enrich", local[r])
    /\ UNCHANGED <<rows, lock>>

\* An error before the commit, or after it; the next commit records it.
record_failure(r) ==
    /\ pc[r] \in {"enrich", "refresh"} /\ "failure" \in Events[r]
    /\ status' = [status EXCEPT ![Current(r)] = "failed"]
    /\ NextContent(r, "enrich", Expired(local[r]))
    /\ UNCHANGED <<text, embedding, overtaken, links, lock>>

EnrichmentStart(r) == enrich_one_content(r) \/ run_enrichment(r)
EnrichmentStep(r)  == enrich_content(r) \/ refresh(r)
============================================================================

----------------------------- MODULE Embeddings -----------------------------
(***************************************************************************)
(* POST /embeddings/contents/{id}/generate and POST /embeddings/generate.  *)
(***************************************************************************)
EXTENDS ContentStore

\* "Only matching completed records are usable."
is_stale(row, hash) == row.status # "completed" \/ row.hash # hash

\* The embeddings a search may use: those that are not stale for the text the
\* content has now, and have a vector.
IsEligible(c) == /\ embedding[c] # NONE
                 /\ ~is_stale(embedding[c], text[c])
                 /\ embedding[c].vector # NONE

generate(r) ==
    \E c \in Embeddable, force \in BOOLEAN : Begin(r, "generate", "text", force, {c}, {})

\* The contents of a list of identifiers, or all of them.
generate_batch(r) ==
    \E C \in SUBSET Embeddable, force \in BOOLEAN :
        Begin(r, "generate_batch", "text", force, C, C)

\* What the session has loaded of the content is what it embeds.
read_text(r) ==
    /\ At(r, "text")
    /\ Continue(r, "row", Loaded(local[r], Current(r)))
    /\ UNCHANGED <<rows, lock>>

digest(r) == local[r].text[Current(r)]

\* The row is as wanted, and goes unchanged.
Skipped(r, row) == row # NONE /\ ~is_stale(row, digest(r)) /\ ~local[r].force

read_row(r) ==
    LET row == embedding[Current(r)] IN
    /\ At(r, "row")
    /\ IF row # NONE /\ is_stale(row, digest(r)) THEN Continue(r, "stale", [local[r] EXCEPT !.row = row])
       ELSE IF Skipped(r, row) THEN NextContent(r, "text", local[r])
       ELSE Continue(r, "flush", [local[r] EXCEPT !.row = row])
    /\ UNCHANGED <<rows, lock>>

\* Waits for the row's lock, unless the row was loaded as stale already.  The
\* digest stays in a variable; the session forgets everything else.
mark_stale(r) ==
    LET c == Current(r) IN
    /\ At(r, "stale")
    /\ IF local[r].row.status = "stale" THEN UNCHANGED rows
       ELSE /\ lock[c] = NONE
            /\ embedding' = [embedding EXCEPT ![c].status = "stale"]
            /\ UNCHANGED <<text, status, overtaken, links>>
    /\ Continue(r, "reload", [Expired(local[r]) EXCEPT !.text[c] = digest(r)])
    /\ UNCHANGED lock

reload_row(r) ==
    LET row == embedding[Current(r)] IN
    /\ At(r, "reload")
    /\ IF Skipped(r, row) THEN NextContent(r, "text", [local[r] EXCEPT !.text = Nothing.text])
       ELSE Continue(r, "flush", [local[r] EXCEPT !.row = row])
    /\ UNCHANGED <<rows, lock>>

\* The row becomes "processing", which nobody else sees, and stays locked; a
\* new one is inserted, unless another request has done so.
flush_processing(r) ==
    LET c == Current(r) IN
    /\ At(r, "flush") /\ lock[c] = NONE
    /\ IF local[r].row = NONE /\ embedding[c] # NONE
       THEN Finish(r) /\ UNCHANGED lock
       ELSE Continue(r, "call", local[r]) /\ lock' = [lock EXCEPT ![c] = r]
    /\ UNCHANGED rows

\* The row of content c becomes row, its lock is given back.
Write(r, row) ==
    LET c == Current(r) IN
    /\ At(r, "call")
    /\ embedding' = [embedding EXCEPT ![c] = row]
    /\ lock' = [lock EXCEPT ![c] = NONE]
    /\ NextContent(r, "text", Expired(local[r]))
    /\ UNCHANGED <<text, status, links>>

\* Mutant: the hash is that of the text the content has when the vector arrives.
embedded_Current(r) ==
    /\ Write(r, [vector |-> digest(r), hash |-> text[Current(r)], status |-> "completed"])
    /\ UNCHANGED overtaken

\* Another request has stored a vector of another text since r loaded the row.
Overtaken(r) ==
    local[r].row # NONE /\ embedding[Current(r)].hash # local[r].row.hash

\* The hash is written if it differs from the loaded one.
embedded(r) ==
    LET row  == local[r].row
        kept == row # NONE /\ row.hash = digest(r)
    IN /\ Write(r, [vector |-> digest(r),
                    hash   |-> IF kept THEN embedding[Current(r)].hash ELSE digest(r),
                    status |-> "completed"])
       /\ overtaken' = IF Overtaken(r) THEN overtaken \cup {Current(r)}
                       ELSE overtaken \ {Current(r)}

\* The provider has failed, or its vector has the wrong length.
embedding_fails(r) ==
    LET row == embedding[Current(r)] IN
    /\ "failure" \in Events[r]
    /\ Write(r, IF row = NONE THEN [vector |-> NONE, hash |-> NONE, status |-> "failed"]
                ELSE [row EXCEPT !.status = "failed"])
    /\ UNCHANGED overtaken

EmbeddingsStart(r) == generate(r) \/ generate_batch(r)
EmbeddingsStep(r)  == \/ read_text(r) \/ read_row(r) \/ mark_stale(r) \/ reload_row(r)
                      \/ flush_processing(r) \/ embedded(r)
============================================================================

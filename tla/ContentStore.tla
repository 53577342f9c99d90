---------------------------- MODULE ContentStore ----------------------------
(***************************************************************************)
(* What is derived from the contents that have been ingested: category,    *)
(* topics and keywords (the enrichment), one embedding per content, and    *)
(* scored relationships between contents.                                  *)
(*                                                                         *)
(* A request is one database session at READ COMMITTED.  A session keeps   *)
(* the rows it has loaded until its next commit or rollback, and a commit  *)
(* writes only the columns whose new value differs from the loaded one.    *)
(***************************************************************************)
EXTENDS Integers, FiniteSets, Sequences, Functions

CONSTANTS
    Content,     \* contents, numbered in the order of their creation
    Request,     \* HTTP requests that run concurrently
    Events,      \* the endpoints and faults each of them explores
    Enrichable,  \* the contents the enrichment is requested of
    Embeddable,  \* the contents that embeddings are requested of
    NONE         \* SQL NULL; a row that does not exist

AllEvents ==
    {"enrich", "run", "generate", "generate_batch", "rebuild", "rebuild_batch", "failure"}

ASSUME StoreAssumption ==
    /\ Content \subseteq Nat /\ IsFiniteSet(Content)
    /\ Enrichable \subseteq Content /\ Embeddable \subseteq Content
    /\ Events \in [Request -> SUBSET AllEvents]

VARIABLES
    text,       \* the text to embed, with or without what the enrichment adds
    status,     \* processing_status
    embedding,  \* content_embeddings: one row or NONE per content
    overtaken,  \* history: contents whose vector was stored by a request that
                \* had loaded an embedding which others have replaced since
    links,      \* content_relationships: one row or NONE per pair
    lock,       \* the request that has locked or is inserting an embedding
    pc,         \* what each request does next; "idle" between requests
    local       \* what each request's session has loaded

rows == <<text, status, embedding, overtaken, links>>
vars == <<rows, lock, pc, local>>

----------------------------------------------------------------------------
(* Rows *)

\* No request changes title, summary or date of a content, so the enrichment
\* derives the same category, topics and keywords whenever it runs.
Texts    == {"raw", "enriched"}
Enriched == "enriched"

Statuses == {"pending", "processed", "failed"}

\* A vector and a hash are named by the text they were computed of.
EmbeddingRow == [vector: Texts \cup {NONE}, hash: Texts \cup {NONE},
                 status: {"stale", "failed", "completed"}]

\* The columns of a relationship that depend on which of its two contents it
\* was calculated for: the others follow from these and the pair.
RelationshipRow == [score: 0..100, days: Nat \cup {NONE}]

ASSUME NoneAssumption ==
    /\ NONE \notin Texts /\ NONE \notin Statuses /\ NONE \notin Request
    /\ NONE \notin EmbeddingRow /\ NONE \notin RelationshipRow

Pairs == UNION {{{c, d} : d \in Content \ {c}} : c \in Content}

Incident(c) == {p \in Pairs : c \in p}

----------------------------------------------------------------------------
(* Requests *)

PCs == {"idle",
        "enrich", "refresh",                          \* enrichment
        "text", "row", "stale", "reload", "flush", "call",  \* embeddings
        "target", "candidates", "existing", "store"}  \* relationships

\* text and status are what the session has loaded of each content, NONE when
\* it has expired.  todo are the contents that are left, the current one first.
\* row, candidates and had are what was read for the current content, lost the
\* pairs of had whose row another request has deleted since.
Nothing == [op |-> "none", force |-> FALSE, todo |-> <<>>,
            text |-> [c \in Content |-> NONE], status |-> [c \in Content |-> NONE],
            row |-> NONE, candidates |-> {}, had |-> [p \in Pairs |-> NONE], lost |-> {}]

At(r, label) == pc[r] = label
Current(r)   == Head(local[r].todo)
Others(r)    == Request \ {r}

\* The contents C in the order of their creation.
InOrder(C) == CHOOSE s \in [1..Cardinality(C) -> C] : \A i, j \in DOMAIN s : i < j => s[i] < s[j]

Continue(r, label, values) ==
    /\ pc' = [pc EXCEPT ![r] = label]
    /\ local' = [local EXCEPT ![r] = values]

Finish(r) == Continue(r, "idle", Nothing)

\* A request for the contents C, which have just been loaded, or not yet.
Begin(r, event, label, force, C, loaded) ==
    /\ pc[r] = "idle" /\ event \in Events[r]
    /\ IF C = {} THEN Finish(r)
       ELSE Continue(r, label,
              [Nothing EXCEPT !.op = event, !.force = force, !.todo = InOrder(C),
                              !.text = [c \in Content |-> IF c \in loaded THEN text[c] ELSE NONE],
                              !.status = [c \in Content |-> IF c \in loaded THEN status[c] ELSE NONE]])
    /\ UNCHANGED <<rows, lock>>

\* What a session that has read these values keeps after a commit or rollback.
Expired(values) ==
    [Nothing EXCEPT !.op = values.op, !.force = values.force, !.todo = values.todo]

\* The session has loaded content c.
Loaded(values, c) ==
    IF values.status[c] # NONE THEN values
    ELSE [values EXCEPT !.text[c] = text[c], !.status[c] = status[c]]

\* The request goes on to the next content it has to do, or answers.
NextContent(r, label, values) ==
    IF Len(values.todo) = 1 THEN Finish(r)
    ELSE Continue(r, label, [values EXCEPT !.todo = Tail(@), !.row = NONE, !.candidates = {},
                                           !.had = Nothing.had, !.lost = {}])
============================================================================

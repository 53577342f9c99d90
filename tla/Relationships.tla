--------------------------- MODULE Relationships ---------------------------
(***************************************************************************)
(* POST /relationships/contents/{id}/rebuild and POST                      *)
(* /relationships/rebuild.                                                 *)
(***************************************************************************)
EXTENDS ContentStore

CONSTANTS
    Base,           \* the points a pair has for topics, keywords, category,
                    \* text and source; 0 if it shares no signal
    Published,      \* when a content was published, in half days, if it is known
    Minimum,        \* MINIMUM_RELATIONSHIP_SCORE
    MaxRelated,     \* MAX_RELATIONSHIPS_PER_CONTENT
    MaxCandidates   \* MAX_CANDIDATES_PER_CONTENT

ASSUME RelationshipAssumption ==
    /\ Base \in [Pairs -> 0..95]
    /\ \A c \in DOMAIN Published : Published[c] \in Nat
    /\ Minimum \in 1..100 /\ MaxRelated \in Nat \ {0} /\ MaxCandidates \in Nat \ {0}

----------------------------------------------------------------------------
(* Scores *)

\* abs((a - b).days): whole days, rounded towards the past before the sign goes.
Distance(c, d) ==
    LET days == (Published[c] - Published[d]) \div 2 IN IF days < 0 THEN -days ELSE days

Dated(c, d) == {c, d} \subseteq DOMAIN Published

Temporal(c, d) ==
    IF Dated(c, d)
    THEN CASE Distance(c, d) <= 7  -> 5
           [] Distance(c, d) \in 8..30  -> 3
           [] Distance(c, d) \in 31..90 -> 1
           [] OTHER -> 0
    ELSE 0

Score(target, c) == Base[{target, c}] + Temporal(target, c)

Calculated(target, c) ==
    [score |-> Score(target, c), days |-> IF Dated(target, c) THEN Distance(target, c) ELSE NONE]

\* The n elements of S that no n others are ahead of.
First(n, S, Ahead(_, _)) == {c \in S : Cardinality({d \in S : Ahead(d, c)}) < n}

\* Mutant: whatever their status.
candidates_for_Any(target) ==
    LET Older(d, c) == d < c IN
    First(MaxCandidates, {c \in Content \ {target} : Base[{target, c}] > 0}, Older)

candidates_for(target) ==
    LET Older(d, c) == d < c IN
    First(MaxCandidates,
          {c \in Content \ {target} : status[c] = "processed" /\ Base[{target, c}] > 0}, Older)

\* Those with the best scores, of which MaxRelated are kept.  Identifiers are
\* random, and decide between equal scores; the order of creation stands for theirs.
Qualified(target, candidates) ==
    LET Better(d, c) == \/ Score(target, d) > Score(target, c)
                        \/ Score(target, d) = Score(target, c) /\ d < c
    IN First(MaxRelated, {c \in candidates : Score(target, c) >= Minimum}, Better)

----------------------------------------------------------------------------
(* Requests *)

rebuild_content(r) ==
    \E c \in Content : Begin(r, "rebuild", "target", FALSE, {c}, {})

rebuild_batch(r) ==
    LET processed == {c \in Content : status[c] = "processed"} IN
    Begin(r, "rebuild_batch", "target", FALSE, processed, processed)

\* The status is what the session has loaded; a content that is not processed
\* is an error, which a batch goes on after.
get_target(r) ==
    LET values == Loaded(local[r], Current(r)) IN
    /\ At(r, "target")
    /\ IF values.status[Current(r)] = "processed" THEN Continue(r, "candidates", values)
       ELSE NextContent(r, "target", Expired(values))
    /\ UNCHANGED <<rows, lock>>

read_candidates(r) ==
    /\ At(r, "candidates")
    /\ Continue(r, "existing", [local[r] EXCEPT !.candidates = candidates_for(Current(r))])
    /\ UNCHANGED <<rows, lock>>

read_existing(r) ==
    /\ At(r, "existing")
    /\ Continue(r, "store",
         [local[r] EXCEPT !.had = [p \in Pairs |-> IF Current(r) \in p THEN links[p] ELSE NONE]])
    /\ UNCHANGED <<rows, lock>>

\* The row a rebuild of its current content wants pair p to have, or NONE.
Wanted(r, p) ==
    LET t == Current(r) IN
    IF \E c \in Qualified(t, local[r].candidates) : p = {t, c}
    THEN Calculated(t, CHOOSE c \in p : c # t) ELSE NONE

Created(r) == {p \in Incident(Current(r)) : local[r].had[p] = NONE /\ Wanted(r, p) # NONE}
Deleted(r) == {p \in Incident(Current(r)) : local[r].had[p] # NONE /\ Wanted(r, p) = NONE}
Updated(r) == {p \in Incident(Current(r)) : local[r].had[p] # NONE
                                           /\ Wanted(r, p) \notin {NONE, local[r].had[p]}}

\* Another request has inserted a pair to be created, or deleted the row of
\* one to be updated: the commit fails.
Conflict(r) ==
    \/ \E p \in Created(r) : links[p] # NONE
    \/ Updated(r) \cap local[r].lost # {}

\* Rows that are gone are not missed by a deletion, and a pair that someone
\* has inserted again in the meantime has another row.
Removed(r) == Deleted(r) \ local[r].lost

\* Mutant: only what is wanted is written.
store_NeverDeletes(r) ==
    /\ At(r, "store") /\ ~Conflict(r)
    /\ links' = [p \in Pairs |-> IF p \in Created(r) \cup Updated(r) THEN Wanted(r, p) ELSE links[p]]
    /\ NextContent(r, "target", Expired(local[r]))
    /\ UNCHANGED <<text, status, embedding, overtaken, lock>>

store(r) ==
    LET written == Created(r) \cup Updated(r)
        removed == Removed(r)
        last    == Len(local[r].todo) = 1
    IN /\ At(r, "store")
       /\ pc' = [pc EXCEPT ![r] = IF last THEN "idle" ELSE "target"]
       /\ ~Conflict(r)
       /\ links' = [p \in Pairs |-> IF p \in written THEN Wanted(r, p)
                                    ELSE IF p \in removed THEN NONE ELSE links[p]]
       /\ local' = [q \in Request |->
            IF q # r THEN [local[q] EXCEPT !.lost = @ \cup {p \in removed : local[q].had[p] # NONE}]
            ELSE IF last THEN Nothing ELSE [Expired(local[r]) EXCEPT !.todo = Tail(@)]]
       /\ UNCHANGED <<text, status, embedding, overtaken, lock>>

\* The exception ends a batch, too.
store_fails(r) ==
    /\ At(r, "store") /\ Conflict(r)
    /\ Finish(r)
    /\ UNCHANGED <<rows, lock>>

RelationshipsStart(r) == rebuild_content(r) \/ rebuild_batch(r)
RelationshipsStep(r)  == \/ get_target(r) \/ read_candidates(r) \/ read_existing(r)
                         \/ store(r) \/ store_fails(r)
============================================================================

------------------------------ MODULE ScoutRuns ------------------------------
(***************************************************************************)
(* Ingestion of RSS feeds: ScoutService.run, which takes the sources one   *)
(* after the other, each in a transaction of its own.                      *)
(***************************************************************************)
EXTENDS WorkspaceStore

\* The enabled sources are listed, in no particular order; the instance bounds
\* how many.
run_start(r, todo) ==
    /\ Starts(r, "scout")
    /\ todo # {}
    /\ todo \subseteq sources
    /\ Cardinality(todo) <= MaxSources
    /\ Continue(r, "sources", [Nothing EXCEPT !.todo = todo])
    /\ UNCHANGED rows

\* Mutant: the source is tried again.
NextSource_Again(r) ==
    Continue(r, "sources", [Nothing EXCEPT !.todo = local[r].todo])

\* Whatever happened to the source, the run goes on with the next one.
NextSource(r) ==
    Continue(r, "sources", [Nothing EXCEPT !.todo = local[r].todo \ {local[r].source}])

\* The source's row is read again, its feed fetched and parsed.
fetch(r, s, feed) ==
    /\ At(r, "sources")
    /\ s \in local[r].todo \cap sources
    /\ feed \subseteq EntriesOf({s})
    /\ Continue(r, "entries",
                [local[r] EXCEPT !.source = s, !.fetched = feed, !.batch = feed])
    /\ UNCHANGED rows

\* SafeRSSFetchError: the source is skipped.
fetch_failed(r, s) ==
    /\ At(r, "sources")
    /\ s \in local[r].todo \cap sources
    /\ Continue(r, "sources", [local[r] EXCEPT !.todo = @ \ {s}])
    /\ UNCHANGED rows

\* The source's row is gone: the handler that would log it reads it as well,
\* and what that raises ends the run.
source_gone(r) ==
    \/ At(r, "sources") /\ local[r].todo \ sources # {}
    \/ At(r, "checked") /\ local[r].source \notin sources

run_aborted(r) ==
    /\ source_gone(r)
    /\ Finish(r)
    /\ UNCHANGED rows

run_done(r) ==
    /\ At(r, "sources")
    /\ local[r].todo = {}
    /\ Finish(r)
    /\ UNCHANGED rows

----------------------------------------------------------------------------
(* _ingest_source *)

\* The entries other runs have inserted and not committed.
BeingAdded(r) == UNION {local[q].added : q \in Others(r)}

\* Mutant: the check reads what is not committed.
Exists_Dirty(r, c) == c \in contents \cup local[r].added \cup BeingAdded(r)

\* The fingerprint is found.
Exists(r, c) == c \in contents \cup local[r].added

entry_known(r, c) ==
    /\ At(r, "entries")
    /\ c \in local[r].batch
    /\ Exists(r, c)
    /\ Continue(r, "entries", [local[r] EXCEPT !.batch = @ \ {c}])
    /\ UNCHANGED rows

entry_new(r, c) ==
    /\ At(r, "entries")
    /\ c \in local[r].batch
    /\ ~Exists(r, c)
    /\ Continue(r, "checked", [local[r] EXCEPT !.entry = c])
    /\ UNCHANGED rows

\* The insert waits for a run that has inserted the same fingerprint.
Waits(r) == local[r].entry \in BeingAdded(r)

entry_added(r) ==
    /\ At(r, "checked")
    /\ local[r].source \in sources
    /\ ~Waits(r)
    /\ local[r].entry \notin contents
    /\ Continue(r, "entries", [local[r] EXCEPT !.batch = @ \ {local[r].entry},
                                               !.added = @ \cup {local[r].entry},
                                               !.entry = NONE])
    /\ UNCHANGED rows

\* IntegrityError: another run has committed the entry after the check.  All
\* the entries of this source are rolled back.
entry_rejected(r) ==
    /\ At(r, "checked")
    /\ local[r].source \in sources
    /\ local[r].entry \in contents
    /\ NextSource(r)
    /\ UNCHANGED rows

source_commit(r) ==
    /\ At(r, "entries")
    /\ local[r].batch = {}
    /\ contents' = contents \cup local[r].added
    /\ NextSource(r)
    /\ UNCHANGED <<sources, links, visible, unsettled>>

\* Request q has inserted the entry that r is about to insert.
WaitsForRun(r, q) ==
    r # q /\ At(r, "checked") /\ local[r].entry \in local[q].added

\* Two runs have inserted the entries of one feed in different orders:
\* PostgreSQL cancels one, whose source is rolled back.
deadlock_victim(r) ==
    /\ \E q \in Request : WaitsForRun(r, q) /\ WaitsForRun(q, r)
    /\ NextSource(r)
    /\ UNCHANGED rows

ScoutStep(r) ==
    \/ \E s \in Source : \/ \E feed \in SUBSET Content : fetch(r, s, feed)
                         \/ fetch_failed(r, s)
    \/ run_aborted(r) \/ run_done(r)
    \/ \E c \in Content : entry_known(r, c) \/ entry_new(r, c)
    \/ entry_added(r) \/ entry_rejected(r) \/ source_commit(r) \/ deadlock_victim(r)

ScoutStart(r) == \E todo \in SUBSET sources : run_start(r, todo)
============================================================================

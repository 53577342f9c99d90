--------------------------- MODULE WorkspaceStore ---------------------------
(***************************************************************************)
(* Canonical sources and contents, the sources each workspace is linked    *)
(* to, and the contents it shows: a projection derived from the links.     *)
(*                                                                         *)
(* A request is a transaction at READ COMMITTED (a Scout run is one per    *)
(* source).  Its writes are invisible until it commits, and are kept in    *)
(* local until then; a statement of another request that meets them waits. *)
(***************************************************************************)
EXTENDS Integers, FiniteSets

CONSTANTS
    Workspace,  \* personal workspaces, each with its organization
    Source,     \* rows of table sources
    Content,    \* feed entries, named by their fingerprint
    FeedOf,     \* the source whose feed an entry appears in
    Link,       \* identifiers of rows of table workspace_sources
    Request,    \* HTTP requests that run concurrently
    MaxSources, \* a bound on the sources a Scout run goes through
    Events,     \* the endpoints and faults this instance explores
    NONE        \* SQL NULL; a row that does not exist

AllEvents == {"link", "unlink", "scout", "delete_source", "failure"}

VARIABLES
    sources,   \* the sources that exist
    contents,  \* the entries that have been ingested
    links,     \* workspace_sources
    visible,   \* workspace_content_visibility
    unsettled, \* history: workspaces whose last rebuild was overtaken by another
    pc,        \* what each request does next; "idle" between requests
    local      \* what each request has read, and written without committing

rows == <<sources, contents, links, visible, unsettled>>
vars == <<rows, pc, local>>

----------------------------------------------------------------------------
(* Rows *)

LinkRow == [workspace: Workspace, source: Source]

ASSUME WorkspaceAssumption ==
    /\ Events \subseteq AllEvents
    /\ MaxSources \in Nat
    /\ FeedOf \in [Content -> Source]
    /\ NONE \notin LinkRow \cup Workspace \cup Source \cup Content \cup Link

EntriesOf(S) == {c \in Content : FeedOf[c] \in S}

\* Mutant: the rows of the workspace are not found, and a rebuild removes none.
RowsOf_None(w) == {}

\* The rows of the projection that belong to workspace w.
RowsOf(w) == {row \in visible : row[1] = w}

LinkedSources(w) ==
    {s \in Source : \E l \in Link : links[l] = [workspace |-> w, source |-> s]}

----------------------------------------------------------------------------
(* Requests *)

PCs == {"idle",
        "link", "unlink",               \* the link has been looked up
        "read", "delete", "deleting", "insert",  \* the link is written; the rebuild
        "sources", "entries", "checked"}  \* a Scout run

\* link is the row to remove; removed what the rebuild deletes, or will have
\* deleted once its statement ends; expected what it inserts.  todo are the
\* sources a Scout run has left, fetched the entries of the feed it is at,
\* batch those it has not come to, added those it has inserted.  Two are
\* history: stored, the contents of its source when a link began, and overtaken, whether
\* another rebuild of the workspace has committed since this one read its links.
Local == [workspace: Workspace \cup {NONE}, source: Source \cup {NONE},
          op: {"link", "unlink", "none"}, link: Link \cup {NONE},
          expected: SUBSET Content, removed: SUBSET (Workspace \X Content),
          stored: SUBSET Content, overtaken: BOOLEAN, todo: SUBSET Source,
          fetched: SUBSET Content, batch: SUBSET Content, entry: Content \cup {NONE}, added: SUBSET Content]

Nothing == [workspace |-> NONE, source |-> NONE, op |-> "none", link |-> NONE,
            expected |-> {}, removed |-> {}, stored |-> {}, overtaken |-> FALSE,
            todo |-> {}, fetched |-> {}, batch |-> {}, entry |-> NONE, added |-> {}]

At(r, label) == pc[r] = label

Starts(r, event) == pc[r] = "idle" /\ event \in Events

\* The request goes on to step label with the values it has read so far.
Continue(r, label, values) ==
    /\ pc' = [pc EXCEPT ![r] = label]
    /\ local' = [local EXCEPT ![r] = values]

\* Rollback, or the end of a request that wrote nothing.
Finish(r) == Continue(r, "idle", Nothing)

Others(r) == Request \ {r}

\* The link of request q has been written and not committed.
Pending(q) == pc[q] \in {"read", "delete", "deleting", "insert"}
============================================================================

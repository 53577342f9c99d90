----------------------------- MODULE Workspaces -----------------------------
(***************************************************************************)
(* Workspaces over canonical content: requests that link and unlink        *)
(* sources, Scout runs and deletions of sources at the same time.          *)
(***************************************************************************)
EXTENDS WorkspaceSources, ScoutRuns

\* DELETE /sources/{source_id}.  The foreign key of contents refuses it for a
\* source that has any; workspace_sources rows go with it.  It waits for
\* requests that have locked the source's row, or are deleting such a link.
delete_source(s) ==
    /\ "delete_source" \in Events
    /\ s \in sources
    /\ contents \cap EntriesOf({s}) = {}
    /\ \A q \in Request : /\ ~(Pending(q) /\ local[q].source = s)
                          /\ local[q].added \cap EntriesOf({s}) = {}
    /\ sources' = sources \ {s}
    /\ links' = [l \in Link |-> IF links[l] # NONE /\ links[l].source = s THEN NONE
                                ELSE links[l]]
    /\ UNCHANGED <<contents, visible, unsettled, pc, local>>

\* A database error, or the end of the process, before the commit.
failure(r) ==
    /\ "failure" \in Events
    /\ pc[r] # "idle"
    /\ Finish(r)
    /\ UNCHANGED rows

\* A Scout run goes on after an error with one source.
source_failed(r) ==
    /\ "failure" \in Events
    /\ pc[r] \in {"entries", "checked"}
    /\ local[r].source \in sources
    /\ NextSource(r)
    /\ UNCHANGED rows

----------------------------------------------------------------------------
Init ==
    /\ sources = Source
    /\ contents = {}
    /\ links = [l \in Link |-> NONE]
    /\ visible = {}
    /\ unsettled = {}
    /\ pc = [r \in Request |-> "idle"]
    /\ local = [r \in Request |-> Nothing]

\* A request that has begun goes on until it has answered.
RequestStep(r) == SourcesStep(r) \/ ScoutStep(r)

Next ==
    \/ \E r \in Request :
        SourcesStart(r) \/ ScoutStart(r) \/ RequestStep(r) \/ failure(r) \/ source_failed(r)
    \/ \E s \in Source : delete_source(s)

Spec == Init /\ [][Next]_vars

\* The server keeps running its requests, and a row is handed to those who
\* wait for it in turn.
FairSpec == Spec /\ \A r \in Request : SF_vars(RequestStep(r))

----------------------------------------------------------------------------
(* Types *)

TypeOK ==
    /\ sources \in SUBSET Source
    /\ contents \in SUBSET Content
    /\ links \in [Link -> LinkRow \cup {NONE}]
    /\ visible \in SUBSET (Workspace \X Content)
    /\ unsettled \in SUBSET Workspace
    /\ pc \in [Request -> PCs]
    /\ local \in [Request -> Local]

----------------------------------------------------------------------------
(* The projection *)

\* Request r commits a link or an unlink.
Relinks(r) == pc[r] = "insert" /\ pc'[r] = "idle" /\ links' # links

\* A request that links a source ends with its contents visible: all that were
\* stored when it began, whatever other requests and runs do meanwhile.
NewLinkShowsItsContents ==
    [][\A r \in Request : Relinks(r) /\ local[r].op = "link" =>
            {local[r].workspace} \X local[r].stored \subseteq visible']_vars

\* A workspace shows only contents of sources it is linked to.
VisibleIsLinked ==
    \A row \in visible : FeedOf[row[2]] \in LinkedSources(row[1])

\* A workspace whose last rebuild no other has overtaken shows only contents
\* of sources it is linked to: the next rebuild that is left alone repairs what
\* overlapping ones have mixed.
SettledViewIsLinked ==
    \A row \in visible :
        row[1] \in unsettled \/ FeedOf[row[2]] \in LinkedSources(row[1])

linked == [w \in Workspace |-> LinkedSources(w)]
shown  == [w \in Workspace |-> {c \in Content : <<w, c>> \in visible}]

View == INSTANCE WorkspaceView WITH stored <- contents

\* However requests for one workspace overlap, links, unlinks, ingestion,
\* deletions of sources and failed requests implement WorkspaceView.
ImplementsWorkspaceView == View!Spec

----------------------------------------------------------------------------
(* Ingestion *)

\* When a run commits a source, every entry of the feed it has read is stored,
\* inserted by itself or by another run: an entry that was skipped because it
\* was found can not be rolled back any more.
FetchedIsStored ==
    [][\A r \in Request : pc[r] = "entries" /\ local[r].batch = {} /\ contents' # contents
            /\ pc'[r] = "sources" => local[r].fetched \subseteq contents']_vars

\* Every request is answered, although runs may insert the same entries in
\* different orders.
RequestsFinish == \A r \in Request : []<>(pc[r] = "idle")
=============================================================================

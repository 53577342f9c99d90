-------------------------- MODULE WorkspaceSources --------------------------
(***************************************************************************)
(* Linking a source to the current workspace and unlinking it, each with   *)
(* the rebuild of the projection: WorkspaceSourceService and               *)
(* WorkspaceVisibilityProjectionService.  Nothing keeps two requests for   *)
(* one workspace from overlapping.                                         *)
(***************************************************************************)
EXTENDS WorkspaceStore

\* A bound: requests that link have an identifier each for their row.
Room ==
    Cardinality({l \in Link : links[l] = NONE /\ \A q \in Request : local[q].link # l})
        > Cardinality({q \in Request : local[q].op = "link"})

\* link: the source exists and is not linked yet.  Otherwise nothing is written.
link_start(r, w, s) ==
    /\ Starts(r, "link")
    /\ Room
    /\ s \in sources \ LinkedSources(w)
    /\ Continue(r, "link", [Nothing EXCEPT !.workspace = w, !.source = s, !.op = "link",
                                           !.stored = contents \cap EntriesOf({s})])
    /\ UNCHANGED rows

\* Another request has written a link of the same workspace and source: the
\* unique index makes the insert wait for it.
SameLinkPending(r) ==
    \E q \in Others(r) : /\ Pending(q)
                         /\ local[q].workspace = local[r].workspace
                         /\ local[q].source = local[r].source

\* The insert is accepted by the unique index and the foreign key.
LinkAccepted(r) ==
    local[r].source \in sources \ LinkedSources(local[r].workspace)

link_create(r) ==
    /\ At(r, "link")
    /\ ~SameLinkPending(r)
    /\ LinkAccepted(r)
    /\ Continue(r, "read", local[r])
    /\ UNCHANGED rows

\* IntegrityError: the router rolls back.
link_rejected(r) ==
    /\ At(r, "link")
    /\ ~SameLinkPending(r)
    /\ ~LinkAccepted(r)
    /\ Finish(r)
    /\ UNCHANGED rows

\* unlink: the link exists.
unlink_start(r, l) ==
    /\ Starts(r, "unlink")
    /\ links[l] # NONE
    /\ Continue(r, "unlink",
                [Nothing EXCEPT !.workspace = links[l].workspace, !.op = "unlink",
                                !.source = links[l].source, !.link = l])
    /\ UNCHANGED rows

\* The row is deleted, when another request has not deleted it already: the
\* ORM only warns that no row matched, and the projection is rebuilt anyway.
unlink_delete(r) ==
    /\ At(r, "unlink")
    /\ \A q \in Others(r) : ~(Pending(q) /\ local[q].link = local[r].link)
    /\ Continue(r, "read", IF links[local[r].link] = NONE
                           THEN [local[r] EXCEPT !.link = NONE] ELSE local[r])
    /\ UNCHANGED rows

----------------------------------------------------------------------------
(* WorkspaceVisibilityProjectionService.rebuild *)

\* Mutant: the link is not flushed before the sources are read.
LinkedTo_Unflushed(r) == LinkedSources(local[r].workspace)

\* The sources linked to the workspace, as the request sees them.
LinkedTo(r) ==
    IF local[r].op = "link" THEN LinkedSources(local[r].workspace) \cup {local[r].source}
    ELSE IF local[r].link = NONE THEN LinkedSources(local[r].workspace)
    ELSE LinkedSources(local[r].workspace) \ {local[r].source}

expected_content_ids(r) ==
    /\ At(r, "read")
    /\ Continue(r, "delete", [local[r] EXCEPT !.expected = contents \cap EntriesOf(LinkedTo(r))])
    /\ UNCHANGED rows

\* The rows that other requests have deleted and not committed.
BeingRemoved(r) ==
    UNION {local[q].removed : q \in {p \in Others(r) : pc[p] = "insert"}}

\* The DELETE of replace takes the rows of the workspace committed by now, and
\* waits for those that another request is deleting.
replace_delete(r) ==
    /\ At(r, "delete")
    /\ Continue(r, IF RowsOf(local[r].workspace) \cap BeingRemoved(r) = {} THEN "insert"
                   ELSE "deleting",
                [local[r] EXCEPT !.removed = RowsOf(local[r].workspace)])
    /\ UNCHANGED rows

\* It leaves alone the rows that are gone by then, and does not find rows
\* inserted since (see replace).
replace_deleted(r) ==
    /\ At(r, "deleting")
    /\ local[r].removed \cap BeingRemoved(r) = {}
    /\ Continue(r, "insert", local[r])
    /\ UNCHANGED rows

\* The rows of the rebuilt projection.
Inserted(r) == {local[r].workspace} \X local[r].expected

\* The primary key refuses no row.
ReplaceAccepted(r) == Inserted(r) \cap (visible \ local[r].removed) = {}

\* The links after request r has committed.
Relinked(r) ==
    IF local[r].op = "unlink"
    THEN {[l \in Link |-> IF l = local[r].link THEN NONE ELSE links[l]]}
    ELSE {[links EXCEPT ![l] = [workspace |-> local[r].workspace, source |-> local[r].source]] :
            l \in {k \in Link : links[k] = NONE /\ \A q \in Request : local[q].link # k}}

\* Request q is at the rebuild of the same workspace, and has read its links.
Overtakes(r, q) ==
    pc[q] \in {"delete", "deleting", "insert"} /\ local[q].workspace = local[r].workspace

\* A statement of request q that runs meanwhile does not find the rows r deleted.
Forget(r, q) == [local[q] EXCEPT !.removed = @ \ local[r].removed,
                                 !.overtaken = @ \/ Overtakes(r, q)]

\* The INSERT of replace, and the router's commit.
replace(r) ==
    /\ At(r, "insert")
    /\ Inserted(r) \cap BeingRemoved(r) = {}
    /\ ReplaceAccepted(r)
    /\ visible' = (visible \ local[r].removed) \cup Inserted(r)
    /\ links' \in Relinked(r)
    /\ unsettled' = IF local[r].overtaken THEN unsettled \cup {local[r].workspace}
                    ELSE unsettled \ {local[r].workspace}
    /\ pc' = [pc EXCEPT ![r] = "idle"]
    /\ local' = [q \in Request |-> IF q = r THEN Nothing ELSE Forget(r, q)]
    /\ UNCHANGED <<sources, contents>>

\* IntegrityError: another rebuild of the workspace has committed the row.
replace_rejected(r) ==
    /\ At(r, "insert")
    /\ Inserted(r) \cap BeingRemoved(r) = {}
    /\ ~ReplaceAccepted(r)
    /\ Finish(r)
    /\ UNCHANGED rows

SourcesStep(r) ==
    \/ link_create(r) \/ link_rejected(r) \/ unlink_delete(r)
    \/ expected_content_ids(r) \/ replace_delete(r) \/ replace_deleted(r)
    \/ replace(r) \/ replace_rejected(r)

SourcesStart(r) ==
    \/ \E w \in Workspace, s \in Source : link_start(r, w, s)
    \/ \E l \in Link : unlink_start(r, l)
============================================================================

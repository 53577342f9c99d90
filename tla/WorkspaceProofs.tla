--------------------------- MODULE WorkspaceProofs ---------------------------
(***************************************************************************)
(* Theorems about Workspaces, for any sets of workspaces, sources,         *)
(* contents, links and requests.                                           *)
(***************************************************************************)
EXTENDS Workspaces, TLAPS

----------------------------------------------------------------------------
(* The inductive invariant *)

LinkPCs == {"link", "unlink", "read", "delete", "deleting", "insert"}

\* A request at a step has read the values v that the step uses.
Carries(label, v) ==
    /\ label \in LinkPCs => v.workspace \in Workspace /\ v.source \in Source
    /\ label = "checked" => v.entry \in Content

\* What it has computed covers what it is to show or to store.
Covers(label, v) ==
    /\ v.stored \subseteq contents
    /\ v.op = "link" /\ label \in LinkPCs => v.stored \subseteq EntriesOf({v.source})
    /\ v.op = "link" /\ label \in {"delete", "deleting", "insert"} =>
            v.stored \subseteq v.expected
    /\ label \in {"entries", "checked"} => v.fetched \ v.batch \subseteq contents \cup v.added

Sound(label, v) == Carries(label, v) /\ Covers(label, v)

WorkspacesSound == TypeOK /\ \A r \in Request : Sound(pc[r], local[r])

----------------------------------------------------------------------------
(* The shape of a step *)

\* A step that changes no row is sound if what its request goes on with is.
LEMMA QuietSound ==
    ASSUME WorkspacesSound, NEW r \in Request, NEW label \in PCs, NEW v \in Local,
           Continue(r, label, v), UNCHANGED rows, Sound(label, v)
    PROVE  WorkspacesSound'
<1>1. TypeOK'
  BY DEF WorkspacesSound, TypeOK, Continue, rows
<1>2. ASSUME NEW q \in Request PROVE Sound(pc[q], local[q])'
  <2>1. contents' = contents
    BY DEF rows
  <2>2. CASE q = r
    <3>1. pc'[q] = label /\ local'[q] = v
      BY <2>2 DEF WorkspacesSound, TypeOK, Continue
    <3>2. QED
      BY <2>1, <3>1 DEF Sound, Carries, Covers
  <2>3. CASE q # r
    <3>1. pc'[q] = pc[q] /\ local'[q] = local[q]
      BY <2>3 DEF WorkspacesSound, TypeOK, Continue
    <3>2. QED
      BY <2>1, <3>1 DEF WorkspacesSound, Sound, Carries, Covers
  <2>4. QED
    BY <2>2, <2>3
<1>3. QED
  BY <1>1, <1>2 DEF WorkspacesSound

\* A request with nothing to go on with is sound.
LEMMA NothingSound == Nothing \in Local /\ Sound("idle", Nothing)
  BY DEF Nothing, Local, Sound, Carries, Covers, LinkPCs

\* The end of a request.
LEMMA FinishSound ==
    ASSUME WorkspacesSound, NEW r \in Request, Finish(r), UNCHANGED rows
    PROVE  WorkspacesSound'
  BY NothingSound, QuietSound DEF Finish, PCs

\* The rest of a Scout run is sound after any of its sources.
LEMMA NextSourceSound ==
    ASSUME WorkspacesSound, NEW r \in Request, NextSource(r), UNCHANGED rows
    PROVE  WorkspacesSound'
<1> DEFINE v == [Nothing EXCEPT !.todo = local[r].todo \ {local[r].source}]
<1>1. v \in Local
  BY DEF WorkspacesSound, TypeOK, Local, Nothing
<1>2. Sound("sources", v)
  BY DEF Nothing, Sound, Carries, Covers, LinkPCs
<1>3. QED
  BY <1>1, <1>2, QuietSound DEF NextSource, PCs

----------------------------------------------------------------------------
(* Links and unlinks *)

LEMMA LinkStartSound ==
    ASSUME WorkspacesSound, NEW r \in Request, NEW w \in Workspace, NEW s \in Source,
           link_start(r, w, s)
    PROVE  WorkspacesSound'
<1> DEFINE v == [Nothing EXCEPT !.workspace = w, !.source = s, !.op = "link",
                                !.stored = contents \cap EntriesOf({s})]
<1>1. v \in Local
  BY DEF WorkspacesSound, TypeOK, Local, Nothing
<1>2. Sound("link", v)
  BY DEF Nothing, Sound, Carries, Covers
<1>3. QED
  BY <1>1, <1>2, QuietSound DEF link_start, PCs

LEMMA UnlinkStartSound ==
    ASSUME WorkspacesSound, NEW r \in Request, NEW l \in Link, unlink_start(r, l)
    PROVE  WorkspacesSound'
<1> DEFINE v == [Nothing EXCEPT !.workspace = links[l].workspace, !.op = "unlink",
                                !.source = links[l].source, !.link = l]
<1>1. links[l] \in LinkRow
  BY DEF WorkspacesSound, TypeOK, unlink_start
<1>2. v \in Local
  BY <1>1 DEF WorkspacesSound, TypeOK, Local, Nothing, LinkRow
<1>3. Sound("unlink", v)
  BY <1>1 DEF Nothing, Sound, Carries, Covers, LinkRow
<1>4. QED
  BY <1>2, <1>3, QuietSound DEF unlink_start, PCs

LEMMA LinkStepsSound ==
    ASSUME WorkspacesSound, NEW r \in Request,
           \/ link_create(r)
           \/ link_rejected(r)
           \/ unlink_delete(r)
           \/ expected_content_ids(r)
           \/ replace_delete(r)
           \/ replace_deleted(r)
           \/ replace_rejected(r)
    PROVE  WorkspacesSound'
<1>1. local[r] \in Local /\ Sound(pc[r], local[r])
  BY DEF WorkspacesSound, TypeOK
<1>2. CASE link_create(r)
  <2>1. Sound("read", local[r])
    BY <1>1, <1>2 DEF link_create, At, Sound, Carries, Covers, LinkPCs
  <2>2. QED
    BY <1>1, <1>2, <2>1, QuietSound DEF link_create, PCs
<1>3. CASE link_rejected(r)
  BY <1>3, FinishSound DEF link_rejected
<1>4. CASE unlink_delete(r)
  <2> DEFINE v == IF links[local[r].link] = NONE
                  THEN [local[r] EXCEPT !.link = NONE] ELSE local[r]
  <2>1. v \in Local
    BY <1>1 DEF Local
  <2>2. Sound("read", v)
    BY <1>1, <1>4 DEF unlink_delete, At, Sound, Carries, Covers, LinkPCs, Local
  <2>3. QED
    BY <1>4, <2>1, <2>2, QuietSound DEF unlink_delete, PCs
<1>5. CASE expected_content_ids(r)
  <2> DEFINE v == [local[r] EXCEPT !.expected = contents \cap EntriesOf(LinkedTo(r))]
  <2>1. v \in Local
    BY <1>1 DEF Local, EntriesOf
  <2>2. local[r].op = "link" => local[r].source \in LinkedTo(r)
    BY DEF LinkedTo
  <2>3. Sound("delete", v)
    BY <1>1, <1>5, <2>2
       DEF expected_content_ids, At, Sound, Carries, Covers, LinkPCs, EntriesOf, Local
  <2>4. QED
    BY <1>5, <2>1, <2>3, QuietSound DEF expected_content_ids, PCs
<1>6. CASE replace_delete(r)
  <2> DEFINE v == [local[r] EXCEPT !.removed = RowsOf(local[r].workspace)]
             label == IF RowsOf(local[r].workspace) \cap BeingRemoved(r) = {} THEN "insert"
                      ELSE "deleting"
  <2>1. v \in Local
    BY <1>1 DEF Local, RowsOf, WorkspacesSound, TypeOK
  <2>2. Sound("insert", v) /\ Sound("deleting", v)
    BY <1>1, <1>6 DEF replace_delete, At, Sound, Carries, Covers, LinkPCs, Local
  <2>3. label \in PCs /\ Sound(label, v)
    BY <2>2 DEF PCs
  <2>4. QED
    BY <1>6, <2>1, <2>3, QuietSound DEF replace_delete
<1>7. CASE replace_deleted(r)
  <2>1. Sound("insert", local[r])
    BY <1>1, <1>7 DEF replace_deleted, At, Sound, Carries, Covers, LinkPCs
  <2>2. QED
    BY <1>1, <1>7, <2>1, QuietSound DEF replace_deleted, PCs
<1>8. CASE replace_rejected(r)
  BY <1>8, FinishSound DEF replace_rejected
<1>9. QED
  BY <1>2, <1>3, <1>4, <1>5, <1>6, <1>7, <1>8

\* The commit of a link or an unlink.
LEMMA ReplaceSound ==
    ASSUME WorkspacesSound, NEW r \in Request, replace(r)
    PROVE  WorkspacesSound'
<1>1. local[r] \in Local /\ Sound(pc[r], local[r]) /\ pc[r] = "insert"
  BY DEF WorkspacesSound, TypeOK, replace, At
<1>2. local[r].workspace \in Workspace /\ local[r].source \in Source
  BY <1>1 DEF Sound, Carries, LinkPCs
<1>3. contents' = contents /\ sources' = sources
  BY DEF replace
<1>4. links' \in [Link -> LinkRow \cup {NONE}]
  <2>1. ASSUME NEW l \in Link
        PROVE  [links EXCEPT ![l] = [workspace |-> local[r].workspace,
                                     source |-> local[r].source]]
                 \in [Link -> LinkRow \cup {NONE}]
    BY <1>2 DEF WorkspacesSound, TypeOK, LinkRow
  <2>2. [l \in Link |-> IF l = local[r].link THEN NONE ELSE links[l]]
          \in [Link -> LinkRow \cup {NONE}]
    BY DEF WorkspacesSound, TypeOK
  <2>3. QED
    BY <2>1, <2>2 DEF replace, Relinked
<1>5. visible' \in SUBSET (Workspace \X Content)
  BY <1>1, <1>2 DEF WorkspacesSound, TypeOK, replace, Inserted, Local
<1>6. ASSUME NEW q \in Request
      PROVE  pc'[q] \in PCs /\ local'[q] \in Local /\ Sound(pc'[q], local'[q])
  <2>1. CASE q = r
    <3>1. pc'[q] = "idle" /\ local'[q] = Nothing
      BY <2>1 DEF replace, WorkspacesSound, TypeOK
    <3>2. QED
      BY <3>1, NothingSound DEF PCs
  <2>2. CASE q # r
    <3>1. pc'[q] = pc[q] /\ local'[q] = Forget(r, q)
      BY <2>2 DEF replace, WorkspacesSound, TypeOK
    <3>2. local[q] \in Local /\ Sound(pc[q], local[q]) /\ pc[q] \in PCs
      BY DEF WorkspacesSound, TypeOK
    <3>3. Forget(r, q) \in Local
      BY <3>2 DEF Forget, Local
    <3>4. Sound(pc[q], Forget(r, q))
      BY <3>2 DEF Forget, Local, Sound, Carries, Covers
    <3>5. QED
      BY <3>1, <3>2, <3>3, <3>4
  <2>3. QED
    BY <2>1, <2>2
<1>7. pc' \in [Request -> PCs] /\ local' \in [Request -> Local]
  <2>1. DOMAIN pc' = Request /\ pc' = [q \in Request |-> pc'[q]]
    BY DEF replace, WorkspacesSound, TypeOK
  <2>2. local' = [q \in Request |-> local'[q]]
    BY DEF replace
  <2>3. QED
    BY <1>6, <2>1, <2>2
<1>8. TypeOK'
  <2>1. unsettled' \in SUBSET Workspace
    BY <1>2 DEF replace, TypeOK, WorkspacesSound
  <2>2. QED
    BY <1>3, <1>4, <1>5, <1>7, <2>1 DEF TypeOK, WorkspacesSound
<1>9. ASSUME NEW q \in Request PROVE Sound(pc[q], local[q])'
  BY <1>3, <1>6 DEF Sound, Carries, Covers
<1>10. QED
  BY <1>8, <1>9 DEF WorkspacesSound

----------------------------------------------------------------------------
(* Scout runs *)

LEMMA RunStartSound ==
    ASSUME WorkspacesSound, NEW r \in Request, NEW todo \in SUBSET sources,
           run_start(r, todo)
    PROVE  WorkspacesSound'
<1> DEFINE v == [Nothing EXCEPT !.todo = todo]
<1>1. v \in Local
  BY DEF WorkspacesSound, TypeOK, Local, Nothing
<1>2. Sound("sources", v)
  BY DEF Nothing, Sound, Carries, Covers, LinkPCs
<1>3. QED
  BY <1>1, <1>2, QuietSound DEF run_start, PCs

LEMMA FetchSound ==
    ASSUME WorkspacesSound, NEW r \in Request, NEW s \in Source,
           \/ \E feed \in SUBSET Content : fetch(r, s, feed)
           \/ fetch_failed(r, s)
    PROVE  WorkspacesSound'
<1>1. local[r] \in Local /\ Sound(pc[r], local[r])
  BY DEF WorkspacesSound, TypeOK
<1>2. ASSUME NEW feed \in SUBSET Content, fetch(r, s, feed) PROVE WorkspacesSound'
  <2> DEFINE v == [local[r] EXCEPT !.source = s, !.fetched = feed, !.batch = feed]
  <2>1. v \in Local
    BY <1>1 DEF Local
  <2>2. Sound("entries", v)
    BY <1>1 DEF Sound, Carries, Covers, LinkPCs, Local
  <2>3. QED
    BY <1>2, <2>1, <2>2, QuietSound DEF fetch, PCs
<1>3. CASE fetch_failed(r, s)
  <2> DEFINE v == [local[r] EXCEPT !.todo = @ \ {s}]
  <2>1. v \in Local
    BY <1>1 DEF Local
  <2>2. Sound("sources", v)
    BY <1>1 DEF Sound, Carries, Covers, LinkPCs, Local
  <2>3. QED
    BY <1>3, <2>1, <2>2, QuietSound DEF fetch_failed, PCs
<1>4. QED
  BY <1>2, <1>3

LEMMA EntrySound ==
    ASSUME WorkspacesSound, NEW r \in Request,
           \/ \E c \in Content : entry_known(r, c) \/ entry_new(r, c)
           \/ entry_added(r)
    PROVE  WorkspacesSound'
<1>1. local[r] \in Local /\ Sound(pc[r], local[r])
  BY DEF WorkspacesSound, TypeOK
<1>2. ASSUME NEW c \in Content, entry_known(r, c) PROVE WorkspacesSound'
  <2> DEFINE v == [local[r] EXCEPT !.batch = @ \ {c}]
  <2>1. v \in Local
    BY <1>1 DEF Local
  <2>2. Sound("entries", v)
    BY <1>1, <1>2 DEF entry_known, Exists, At, Sound, Carries, Covers, LinkPCs, Local
  <2>3. QED
    BY <1>2, <2>1, <2>2, QuietSound DEF entry_known, PCs
<1>3. ASSUME NEW c \in Content, entry_new(r, c) PROVE WorkspacesSound'
  <2> DEFINE v == [local[r] EXCEPT !.entry = c]
  <2>1. v \in Local
    BY <1>1 DEF Local
  <2>2. Sound("checked", v)
    BY <1>1, <1>3 DEF entry_new, At, Sound, Carries, Covers, LinkPCs, Local
  <2>3. QED
    BY <1>3, <2>1, <2>2, QuietSound DEF entry_new, PCs
<1>4. CASE entry_added(r)
  <2> DEFINE v == [local[r] EXCEPT !.batch = @ \ {local[r].entry},
                                   !.added = @ \cup {local[r].entry}, !.entry = NONE]
  <2>1. local[r].entry \in Content
    BY <1>1, <1>4 DEF entry_added, At, Sound, Carries
  <2>2. v \in Local
    BY <1>1, <2>1 DEF Local
  <2>3. Sound("entries", v)
    BY <1>1, <1>4 DEF entry_added, At, Sound, Carries, Covers, LinkPCs, Local
  <2>4. QED
    BY <1>4, <2>2, <2>3, QuietSound DEF entry_added, PCs
<1>5. QED
  BY <1>2, <1>3, <1>4

\* The commit of a source.
LEMMA SourceCommitSound ==
    ASSUME WorkspacesSound, NEW r \in Request, source_commit(r)
    PROVE  WorkspacesSound'
<1> DEFINE v == [Nothing EXCEPT !.todo = local[r].todo \ {local[r].source}]
<1>1. local[r] \in Local
  BY DEF WorkspacesSound, TypeOK
<1>2. v \in Local
  BY <1>1 DEF Local, Nothing
<1>3. TypeOK'
  BY <1>1, <1>2 DEF WorkspacesSound, TypeOK, source_commit, NextSource, Continue, PCs, Local
<1>4. ASSUME NEW q \in Request PROVE Sound(pc[q], local[q])'
  <2>1. contents \subseteq contents'
    BY DEF source_commit
  <2>2. CASE q = r
    <3>1. pc'[q] = "sources" /\ local'[q] = v
      BY <2>2 DEF WorkspacesSound, TypeOK, source_commit, NextSource, Continue
    <3>2. QED
      BY <3>1 DEF Sound, Carries, Covers, LinkPCs, Nothing
  <2>3. CASE q # r
    <3>1. pc'[q] = pc[q] /\ local'[q] = local[q]
      BY <2>3 DEF WorkspacesSound, TypeOK, source_commit, NextSource, Continue
    <3>2. QED
      BY <2>1, <3>1 DEF WorkspacesSound, Sound, Carries, Covers
  <2>4. QED
    BY <2>2, <2>3
<1>5. QED
  BY <1>3, <1>4 DEF WorkspacesSound

LEMMA DeleteSourceSound ==
    ASSUME WorkspacesSound, NEW s \in Source, delete_source(s)
    PROVE  WorkspacesSound'
<1>1. TypeOK'
  BY DEF WorkspacesSound, TypeOK, delete_source
<1>2. pc' = pc /\ local' = local /\ contents' = contents
  BY DEF delete_source
<1>3. QED
  BY <1>1, <1>2 DEF WorkspacesSound, Sound, Carries, Covers

----------------------------------------------------------------------------
(* Every step *)

LEMMA InitSound == Init => WorkspacesSound
<1>1. SUFFICES ASSUME Init PROVE WorkspacesSound
  OBVIOUS
<1>2. TypeOK
  <2>1. Nothing \in Local
    BY NothingSound
  <2>2. pc \in [Request -> PCs] /\ local \in [Request -> Local]
    BY <1>1, <2>1 DEF Init, PCs
  <2>3. sources \in SUBSET Source /\ contents \in SUBSET Content
        /\ visible \in SUBSET (Workspace \X Content) /\ links \in [Link -> LinkRow \cup {NONE}]
        /\ unsettled \in SUBSET Workspace
    BY <1>1 DEF Init
  <2>4. QED
    BY <2>2, <2>3 DEF TypeOK
<1>3. ASSUME NEW r \in Request PROVE Sound(pc[r], local[r])
  <2>1. pc[r] = "idle" /\ local[r] = Nothing
    BY <1>1 DEF Init
  <2>2. QED
    BY <2>1 DEF Sound, Carries, Covers, LinkPCs, Nothing
<1>4. QED
  BY <1>2, <1>3 DEF WorkspacesSound

LEMMA NextSound == WorkspacesSound /\ [Next]_vars => WorkspacesSound'
<1>1. SUFFICES ASSUME WorkspacesSound, [Next]_vars PROVE WorkspacesSound'
  OBVIOUS
<1>2. CASE UNCHANGED vars
  BY <1>1, <1>2 DEF vars, rows, WorkspacesSound, TypeOK, Sound, Carries, Covers
<1>3. ASSUME NEW s \in Source, delete_source(s) PROVE WorkspacesSound'
  BY <1>1, <1>3, DeleteSourceSound
<1>4. ASSUME NEW r \in Request, SourcesStart(r) PROVE WorkspacesSound'
  BY <1>1, <1>4, LinkStartSound, UnlinkStartSound DEF SourcesStart
<1>5. ASSUME NEW r \in Request, ScoutStart(r) PROVE WorkspacesSound'
  BY <1>1, <1>5, RunStartSound DEF ScoutStart
<1>6. ASSUME NEW r \in Request, SourcesStep(r) PROVE WorkspacesSound'
  BY <1>1, <1>6, LinkStepsSound, ReplaceSound DEF SourcesStep
<1>7. ASSUME NEW r \in Request, ScoutStep(r) PROVE WorkspacesSound'
  <2>1. CASE run_aborted(r) \/ run_done(r)
    BY <1>1, <2>1, FinishSound DEF run_aborted, run_done
  <2>2. CASE entry_rejected(r) \/ deadlock_victim(r)
    BY <1>1, <2>2, NextSourceSound DEF entry_rejected, deadlock_victim
  <2>3. CASE source_commit(r)
    BY <1>1, <2>3, SourceCommitSound
  <2>4. CASE \E c \in Content : entry_known(r, c) \/ entry_new(r, c)
    BY <1>1, <2>4, EntrySound
  <2>5. CASE entry_added(r)
    BY <1>1, <2>5, EntrySound
  <2>6. CASE \E s \in Source : \/ \E feed \in SUBSET Content : fetch(r, s, feed)
                              \/ fetch_failed(r, s)
    BY <1>1, <2>6, FetchSound
  <2>7. QED
    BY <1>7, <2>1, <2>2, <2>3, <2>4, <2>5, <2>6 DEF ScoutStep
<1>8. ASSUME NEW r \in Request, failure(r) PROVE WorkspacesSound'
  BY <1>1, <1>8, FinishSound DEF failure
<1>9. ASSUME NEW r \in Request, source_failed(r) PROVE WorkspacesSound'
  BY <1>1, <1>9, NextSourceSound DEF source_failed
<1>10. QED
  BY <1>1, <1>2, <1>3, <1>4, <1>5, <1>6, <1>7, <1>8, <1>9 DEF Next, RequestStep

\* The inductive invariant.
THEOREM AlwaysSound == Spec => []WorkspacesSound
  BY InitSound, NextSound, PTL DEF Spec

\* Every reachable state is well typed: sources, contents, links, the
\* projection and what requests have read (the models and get_db).
THEOREM TypeCorrect == Spec => []TypeOK
<1>1. WorkspacesSound => TypeOK
  BY DEF WorkspacesSound
<1>2. QED
  BY <1>1, AlwaysSound, PTL

----------------------------------------------------------------------------
(* What each table is written by *)

\* Requests at every other step leave the rows alone.
LEMMA WhoWrites ==
    ASSUME [Next]_vars, ~UNCHANGED rows
    PROVE  \/ \E r \in Request : replace(r) \/ source_commit(r)
           \/ \E s \in Source : delete_source(s)
<1>1. ASSUME NEW r \in Request, SourcesStep(r) PROVE UNCHANGED rows \/ replace(r)
  BY <1>1 DEF SourcesStep, link_create, link_rejected, unlink_delete, expected_content_ids,
              replace_delete, replace_deleted, replace_rejected
<1>2. ASSUME NEW r \in Request, ScoutStep(r) PROVE UNCHANGED rows \/ source_commit(r)
  BY <1>2 DEF ScoutStep, fetch, fetch_failed, run_aborted, run_done, entry_known, entry_new,
              entry_added, entry_rejected, deadlock_victim
<1>3. ASSUME NEW r \in Request,
             SourcesStart(r) \/ ScoutStart(r) \/ failure(r) \/ source_failed(r)
      PROVE  UNCHANGED rows
  BY <1>3 DEF SourcesStart, link_start, unlink_start, ScoutStart, run_start, failure,
              source_failed
<1>4. UNCHANGED vars => UNCHANGED rows
  BY DEF vars
<1>5. QED
  BY <1>1, <1>2, <1>3, <1>4 DEF Next, RequestStep

LEMMA LinkShows ==
    WorkspacesSound /\ [Next]_vars =>
        \A r \in Request : Relinks(r) /\ local[r].op = "link" =>
            {local[r].workspace} \X local[r].stored \subseteq visible'
<1>1. SUFFICES ASSUME WorkspacesSound, [Next]_vars, NEW r \in Request, Relinks(r),
                      local[r].op = "link"
               PROVE  {local[r].workspace} \X local[r].stored \subseteq visible'
  OBVIOUS
<1>2. pc[r] = "insert" /\ pc'[r] = "idle" /\ links' # links
  BY <1>1 DEF Relinks
<1>3. replace(r)
  <2>1. ~UNCHANGED rows
    BY <1>2 DEF rows
  <2>2. ASSUME NEW q \in Request, replace(q) PROVE q = r
    BY <1>1, <1>2, <2>2 DEF replace, WorkspacesSound, TypeOK
  <2>3. ~\E s \in Source : delete_source(s)
    BY <1>2 DEF delete_source
  <2>4. ~\E q \in Request : source_commit(q)
    BY <1>2 DEF source_commit
  <2>5. QED
    BY <1>1, <2>1, <2>2, <2>3, <2>4, WhoWrites
<1>4. local[r].stored \subseteq local[r].expected
  BY <1>1, <1>2 DEF WorkspacesSound, Sound, Covers
<1>5. {local[r].workspace} \X local[r].expected \subseteq visible'
  BY <1>3 DEF replace, Inserted
<1>6. QED
  BY <1>4, <1>5

\* A committed link shows every content of its source that was stored when the
\* request began, whatever overlaps it (WorkspaceSourceService.link).
THEOREM LinksShowTheirContents == Spec => NewLinkShowsItsContents
<1>1. WorkspacesSound /\ [Next]_vars
        => [\A r \in Request : Relinks(r) /\ local[r].op = "link" =>
              {local[r].workspace} \X local[r].stored \subseteq visible']_vars
  BY LinkShows
<1>2. QED
  BY <1>1, AlwaysSound, PTL DEF Spec, NewLinkShowsItsContents

LEMMA CommitStores ==
    WorkspacesSound /\ [Next]_vars =>
        \A r \in Request : pc[r] = "entries" /\ local[r].batch = {} /\ contents' # contents
            /\ pc'[r] = "sources" => local[r].fetched \subseteq contents'
<1>1. SUFFICES ASSUME WorkspacesSound, [Next]_vars, NEW r \in Request, pc[r] = "entries",
                      local[r].batch = {}, contents' # contents, pc'[r] = "sources"
               PROVE  local[r].fetched \subseteq contents'
  OBVIOUS
<1>2. source_commit(r)
  <2>1. ~UNCHANGED rows
    BY <1>1 DEF rows
  <2>2. ASSUME NEW q \in Request, source_commit(q) PROVE q = r
    BY <1>1, <2>2 DEF source_commit, NextSource, Continue, WorkspacesSound, TypeOK
  <2>3. ~\E s \in Source : delete_source(s)
    BY <1>1 DEF delete_source
  <2>4. ~\E q \in Request : replace(q)
    BY <1>1 DEF replace
  <2>5. QED
    BY <1>1, <2>1, <2>2, <2>3, <2>4, WhoWrites
<1>3. local[r].fetched \subseteq contents \cup local[r].added
  BY <1>1 DEF WorkspacesSound, Sound, Covers
<1>4. QED
  BY <1>2, <1>3 DEF source_commit

\* However many Scout runs overlap, none passes over an entry of a feed that is
\* not stored when it commits the source (ScoutService._ingest_source).
THEOREM SkippedEntriesAreStored == Spec => FetchedIsStored
<1>1. WorkspacesSound /\ [Next]_vars
        => [\A r \in Request : pc[r] = "entries" /\ local[r].batch = {}
              /\ contents' # contents /\ pc'[r] = "sources"
                => local[r].fetched \subseteq contents']_vars
  BY CommitStores
<1>2. QED
  BY <1>1, AlwaysSound, PTL DEF Spec, FetchedIsStored

----------------------------------------------------------------------------
(* However requests for one workspace overlap, linking, unlinking,         *)
(* ingestion and deletion of sources implement WorkspaceView.              *)

----------------------------------------------------------------------------
(* The inductive invariant *)

\* The steps of a rebuild, after the link is written and after it is read.
PendingPCs == {"read", "delete", "deleting", "insert"}
RebuildPCs == {"delete", "deleting", "insert"}

\* The sources linked to its workspace as a request with values v sees them.
Sees(v) ==
    IF v.op = "link" THEN LinkedSources(v.workspace) \cup {v.source}
    ELSE IF v.link = NONE THEN LinkedSources(v.workspace)
    ELSE LinkedSources(v.workspace) \ {v.source}

\* The link that a request is to write is new, and the one it is to remove is
\* of the source and workspace it has read, or gone before the request has
\* written anything.
LinkIsKnown(label, v) ==
    /\ label = "link" => v.op = "link"
    /\ label = "unlink" => v.op = "unlink"
    /\ label \in LinkPCs => v.op \in {"link", "unlink"}
    /\ label \in LinkPCs /\ v.op = "link" => v.link = NONE
    /\ label \in PendingPCs /\ v.op = "link" => v.source \notin LinkedSources(v.workspace)
    /\ label \in LinkPCs /\ v.op = "unlink" /\ v.link # NONE =>
            /\ v.link \in Link
            /\ \/ links[v.link] = [workspace |-> v.workspace, source |-> v.source]
               \/ label = "unlink" /\ links[v.link] = NONE

\* A rebuild inserts stored contents, and deletes rows of its workspace only.
RebuildIsStored(label, v) ==
    /\ label \in RebuildPCs => v.expected \subseteq contents
    /\ label \in {"deleting", "insert"} => v.removed \subseteq {v.workspace} \X Content

\* A rebuild that no other has overtaken inserts contents of the sources it
\* sees, among them all that are visible, and deletes all rows of its workspace.
RebuildIsExact(label, v) ==
    label \in RebuildPCs /\ ~v.overtaken =>
        /\ v.expected \subseteq EntriesOf(Sees(v))
        /\ \A c \in Content :
              <<v.workspace, c>> \in visible /\ FeedOf[c] \in Sees(v) => c \in v.expected
        /\ label # "delete" => v.removed = RowsOf(v.workspace)

Exact(label, v) == LinkIsKnown(label, v) /\ RebuildIsStored(label, v) /\ RebuildIsExact(label, v)

\* Values u and v are of requests that write different links: the unique index
\* and the row locks keep them apart.
Apart(u, v) ==
    /\ ~(u.op = "link" /\ v.op = "link" /\ u.workspace = v.workspace /\ u.source = v.source)
    /\ ~(u.link # NONE /\ u.link = v.link)

Separate(r, label, v) ==
    label \in PendingPCs =>
        \A q \in Request : q # r /\ pc[q] \in PendingPCs => Apart(local[q], v)

UniqueLinks ==
    \A l, k \in Link : links[l] # NONE /\ links[l] = links[k] => l = k

VisibleIsStored ==
    \A w \in Workspace, c \in Content : <<w, c>> \in visible =>
        c \in contents /\ (w \in unsettled \/ FeedOf[c] \in LinkedSources(w))

ViewSound ==
    /\ WorkspacesSound
    /\ UniqueLinks
    /\ VisibleIsStored
    /\ \A r \in Request : Exact(pc[r], local[r]) /\ Separate(r, pc[r], local[r])

----------------------------------------------------------------------------
(* The shape of a step *)

\* What a request has read stays exact while the tables stay what they are.
LEMMA StillExact ==
    ASSUME contents' = contents, links' = links, visible' = visible,
           NEW q \in Request, Exact(pc'[q], local'[q])
    PROVE  Exact(pc[q], local[q])'
<1>1. LinkedSources(local[q].workspace)' = LinkedSources(local'[q].workspace)
  BY DEF LinkedSources
<1>2. Sees(local[q])' = Sees(local'[q])
  BY <1>1 DEF Sees
<1>3. RowsOf(local[q].workspace)' = RowsOf(local'[q].workspace)
  BY DEF RowsOf
<1>4. LinkIsKnown(pc[q], local[q])'
  BY <1>1 DEF Exact, LinkIsKnown
<1>5. RebuildIsStored(pc[q], local[q])'
  BY DEF Exact, RebuildIsStored
<1>6. RebuildIsExact(pc[q], local[q])'
  BY <1>2, <1>3 DEF Exact, RebuildIsExact
<1>7. QED
  BY <1>4, <1>5, <1>6 DEF Exact

\* Requests stay apart when one goes on with values that are apart from what
\* the others have written.
LEMMA StillSeparate ==
    ASSUME ViewSound, NEW r \in Request, NEW label, NEW v,
           pc'[r] = label, local'[r] = v,
           \A q \in Request : q # r => pc'[q] = pc[q] /\ local'[q] = local[q],
           Separate(r, label, v)
    PROVE  \A q \in Request : Separate(q, pc[q], local[q])'
<1>1. SUFFICES ASSUME NEW q \in Request, NEW p \in Request, p # q,
                      pc'[q] \in PendingPCs, pc'[p] \in PendingPCs
               PROVE  Apart(local'[p], local'[q])
  BY DEF Separate, Apart
<1>2. CASE q = r
  <2>1. pc'[p] = pc[p] /\ local'[p] = local[p]
    BY <1>1, <1>2
  <2>2. QED
    BY <1>1, <1>2, <2>1 DEF Separate
<1>3. CASE p = r
  <2>1. pc'[q] = pc[q] /\ local'[q] = local[q]
    BY <1>1, <1>3
  <2>2. Apart(local'[q], local'[p])
    BY <1>1, <1>3, <2>1 DEF Separate
  <2>3. QED
    BY <2>2 DEF Apart
<1>4. CASE q # r /\ p # r
  <2>1. /\ pc'[q] = pc[q] /\ local'[q] = local[q]
        /\ pc'[p] = pc[p] /\ local'[p] = local[p]
    BY <1>4
  <2>2. QED
    BY <1>1, <2>1 DEF ViewSound, Separate
<1>5. QED
  BY <1>2, <1>3, <1>4

\* A step that changes no row keeps the invariant if what its request goes on
\* with is exact and apart from the others.
LEMMA QuietExact ==
    ASSUME ViewSound, WorkspacesSound', NEW r \in Request, NEW label, NEW v,
           Continue(r, label, v), UNCHANGED rows, Exact(label, v), Separate(r, label, v)
    PROVE  ViewSound'
<1>1. /\ pc' = [pc EXCEPT ![r] = label]
      /\ local' = [local EXCEPT ![r] = v]
      /\ contents' = contents /\ links' = links /\ visible' = visible
      /\ unsettled' = unsettled
  BY DEF Continue, rows
<1>2. /\ pc'[r] = label /\ local'[r] = v
      /\ \A q \in Request : q # r => pc'[q] = pc[q] /\ local'[q] = local[q]
  BY <1>1 DEF ViewSound, WorkspacesSound, TypeOK
<1>3. UniqueLinks' /\ VisibleIsStored'
  BY <1>1 DEF ViewSound, UniqueLinks, VisibleIsStored, LinkedSources
<1>4. ASSUME NEW q \in Request PROVE Exact(pc[q], local[q])'
  <2>1. Exact(pc'[q], local'[q])
    <3>1. CASE q = r
      BY <1>2, <3>1
    <3>2. CASE q # r
      <4>1. Exact(pc[q], local[q]) /\ pc'[q] = pc[q] /\ local'[q] = local[q]
        BY <1>2, <3>2 DEF ViewSound
      <4>2. QED
        BY <4>1
    <3>3. QED
      BY <3>1, <3>2
  <2>2. QED
    BY <1>1, <2>1, StillExact
<1>5. \A q \in Request : Separate(q, pc[q], local[q])'
  BY <1>2, StillSeparate
<1>6. QED
  BY <1>3, <1>4, <1>5 DEF ViewSound

\* A request that is not at a link has nothing to rebuild.
LEMMA NowhereExact ==
    ASSUME NEW r, NEW label \in PCs \ LinkPCs, NEW v
    PROVE  Exact(label, v) /\ Separate(r, label, v)
  BY DEF Exact, LinkIsKnown, RebuildIsStored, RebuildIsExact, Separate, PCs, LinkPCs,
         PendingPCs, RebuildPCs

LEMMA FinishExact ==
    ASSUME ViewSound, WorkspacesSound', NEW r \in Request, Finish(r), UNCHANGED rows
    PROVE  ViewSound'
<1>1. "idle" \in PCs \ LinkPCs
  BY DEF PCs, LinkPCs
<1>2. QED
  BY <1>1, NowhereExact, QuietExact DEF Finish

LEMMA NextSourceExact ==
    ASSUME ViewSound, WorkspacesSound', NEW r \in Request, NextSource(r), UNCHANGED rows
    PROVE  ViewSound'
<1>1. "sources" \in PCs \ LinkPCs
  BY DEF PCs, LinkPCs
<1>2. QED
  BY <1>1, NowhereExact, QuietExact DEF NextSource

----------------------------------------------------------------------------
(* Steps that change no row *)

LEMMA StartsExact ==
    ASSUME ViewSound, WorkspacesSound', NEW r \in Request, SourcesStart(r)
    PROVE  ViewSound'
<1>1. ASSUME NEW w \in Workspace, NEW s \in Source, link_start(r, w, s) PROVE ViewSound'
  <2> DEFINE v == [Nothing EXCEPT !.workspace = w, !.source = s, !.op = "link",
                                  !.stored = contents \cap EntriesOf({s})]
  <2>1. v.op = "link" /\ v.link = NONE
    BY DEF Nothing
  <2>2. Exact("link", v) /\ Separate(r, "link", v)
    BY <2>1 DEF Exact, LinkIsKnown, RebuildIsStored, RebuildIsExact, Separate, LinkPCs,
                PendingPCs, RebuildPCs
  <2>3. QED
    BY <1>1, <2>2, QuietExact DEF link_start
<1>2. ASSUME NEW l \in Link, unlink_start(r, l) PROVE ViewSound'
  <2> DEFINE v == [Nothing EXCEPT !.workspace = links[l].workspace, !.op = "unlink",
                                  !.source = links[l].source, !.link = l]
  <2>1. v.workspace = links[l].workspace /\ v.op = "unlink" /\ v.link = l
        /\ v.source = links[l].source
    BY DEF Nothing
  <2>2. links[l] = [workspace |-> links[l].workspace, source |-> links[l].source]
    BY <1>2 DEF unlink_start, ViewSound, WorkspacesSound, TypeOK, LinkRow
  <2>3. Exact("unlink", v) /\ Separate(r, "unlink", v)
    BY <2>1, <2>2 DEF Exact, LinkIsKnown, RebuildIsStored, RebuildIsExact, Separate, LinkPCs,
                      PendingPCs, RebuildPCs
  <2>4. QED
    BY <1>2, <2>3, QuietExact DEF unlink_start
<1>3. QED
  BY <1>1, <1>2 DEF SourcesStart

\* A request that has written its link stays apart from the others as long as
\* it goes on with the same one.
LEMMA KeepsApart ==
    ASSUME ViewSound, NEW r \in Request, NEW label, NEW v, pc[r] \in PendingPCs,
           v.op = local[r].op, v.workspace = local[r].workspace,
           v.source = local[r].source, v.link = local[r].link
    PROVE  Separate(r, label, v)
  BY DEF ViewSound, Separate, Apart

LEMMA LinkStepsExact ==
    ASSUME ViewSound, WorkspacesSound', NEW r \in Request,
           \/ link_create(r)
           \/ link_rejected(r)
           \/ unlink_delete(r)
           \/ expected_content_ids(r)
           \/ replace_delete(r)
           \/ replace_deleted(r)
           \/ replace_rejected(r)
    PROVE  ViewSound'
<1>1. Exact(pc[r], local[r]) /\ local[r] \in Local
  BY DEF ViewSound, WorkspacesSound, TypeOK
<1>2. CASE link_create(r)
  <2>1. local[r].source \notin LinkedSources(local[r].workspace)
        /\ local[r].op = "link" /\ local[r].link = NONE
    BY <1>1, <1>2 DEF link_create, LinkAccepted, At, Exact, LinkIsKnown, LinkPCs
  <2>2. Exact("read", local[r])
    BY <1>1, <1>2, <2>1
       DEF link_create, At, Exact, LinkIsKnown, RebuildIsStored, RebuildIsExact, LinkPCs,
           RebuildPCs
  <2>3. Separate(r, "read", local[r])
    BY <1>2, <2>1
       DEF link_create, SameLinkPending, Pending, Others, Separate, Apart, PendingPCs
  <2>4. QED
    BY <1>2, <2>2, <2>3, QuietExact DEF link_create
<1>3. CASE link_rejected(r)
  BY <1>3, FinishExact DEF link_rejected
<1>4. CASE unlink_delete(r)
  <2> DEFINE v == IF links[local[r].link] = NONE
                  THEN [local[r] EXCEPT !.link = NONE] ELSE local[r]
  <2>1. /\ v.workspace = local[r].workspace /\ v.source = local[r].source
        /\ v.op = local[r].op
        /\ v.link = IF links[local[r].link] = NONE THEN NONE ELSE local[r].link
    BY <1>1 DEF Local
  <2>2. v.op = "unlink"
    BY <1>1, <1>4, <2>1 DEF unlink_delete, At, Exact, LinkIsKnown
  <2>3. LinkIsKnown("read", v)
    BY <1>1, <1>4, <2>1, <2>2 DEF unlink_delete, At, Exact, LinkIsKnown, LinkPCs
  <2>4. Exact("read", v)
    BY <2>3 DEF Exact, RebuildIsStored, RebuildIsExact, RebuildPCs
  <2>5. Separate(r, "read", v)
    BY <1>4, <2>1, <2>2 DEF unlink_delete, Pending, Others, Separate, Apart, PendingPCs
  <2>6. QED
    BY <1>4, <2>4, <2>5, QuietExact DEF unlink_delete
<1>5. CASE expected_content_ids(r)
  <2> DEFINE v == [local[r] EXCEPT !.expected = contents \cap EntriesOf(LinkedTo(r))]
  <2>1. /\ v.workspace = local[r].workspace /\ v.source = local[r].source
        /\ v.op = local[r].op /\ v.link = local[r].link
        /\ v.expected = contents \cap EntriesOf(LinkedTo(r))
    BY <1>1 DEF Local
  <2>2. LinkedTo(r) = Sees(v)
    BY <2>1 DEF LinkedTo, Sees
  <2>3. LinkIsKnown("delete", v)
    BY <1>1, <1>5, <2>1
       DEF expected_content_ids, At, Exact, LinkIsKnown, LinkPCs, PendingPCs
  <2>4. local[r].workspace \in Workspace
    BY <1>5 DEF expected_content_ids, At, LinkPCs, ViewSound, WorkspacesSound, Sound, Carries
  <2>5. RebuildIsExact("delete", v) /\ RebuildIsStored("delete", v)
    BY <2>1, <2>2, <2>4
       DEF RebuildIsExact, RebuildIsStored, ViewSound, VisibleIsStored, EntriesOf
  <2>6. Exact("delete", v)
    BY <2>3, <2>5 DEF Exact
  <2>7. Separate(r, "delete", v)
    <3>1. pc[r] \in PendingPCs
      BY <1>5 DEF expected_content_ids, At, PendingPCs
    <3> HIDE DEF v
    <3>2. QED
      BY <2>1, <3>1, KeepsApart
  <2>8. QED
    BY <1>5, <2>6, <2>7, QuietExact DEF expected_content_ids
<1>6. CASE replace_delete(r)
  <2> DEFINE v == [local[r] EXCEPT !.removed = RowsOf(local[r].workspace)]
             label == IF RowsOf(local[r].workspace) \cap BeingRemoved(r) = {} THEN "insert"
                      ELSE "deleting"
  <2>1. /\ v.workspace = local[r].workspace /\ v.source = local[r].source
        /\ v.op = local[r].op /\ v.link = local[r].link /\ v.expected = local[r].expected
        /\ v.removed = RowsOf(local[r].workspace) /\ v.overtaken = local[r].overtaken
    BY <1>1 DEF Local
  <2>2. Sees(v) = Sees(local[r])
    BY <2>1 DEF Sees
  <2>3. RowsOf(v.workspace) \subseteq {v.workspace} \X Content
    BY DEF RowsOf, ViewSound, WorkspacesSound, TypeOK
  <2>4. ASSUME NEW next \in {"insert", "deleting"} PROVE Exact(next, v)
    <3>1. LinkIsKnown(next, v)
      BY <1>1, <1>6, <2>1 DEF replace_delete, At, Exact, LinkIsKnown, LinkPCs, PendingPCs
    <3>2. RebuildIsStored(next, v)
      BY <1>1, <1>6, <2>1, <2>3 DEF replace_delete, At, Exact, RebuildIsStored, RebuildPCs
    <3>3. RebuildIsExact(next, v)
      BY <1>1, <1>6, <2>1, <2>2 DEF replace_delete, At, Exact, RebuildIsExact, RebuildPCs
    <3>4. QED
      BY <3>1, <3>2, <3>3 DEF Exact
  <2>5. Separate(r, label, v)
    <3>1. pc[r] \in PendingPCs
      BY <1>6 DEF replace_delete, At, PendingPCs
    <3> HIDE DEF v, label
    <3>2. QED
      BY <2>1, <3>1, KeepsApart
  <2>6. QED
    BY <1>6, <2>4, <2>5, QuietExact DEF replace_delete
<1>7. CASE replace_deleted(r)
  <2>1. Exact("insert", local[r])
    BY <1>1, <1>7
       DEF replace_deleted, At, Exact, LinkIsKnown, RebuildIsStored, RebuildIsExact, LinkPCs,
           PendingPCs, RebuildPCs
  <2>2. Separate(r, "insert", local[r])
    BY <1>7, KeepsApart DEF replace_deleted, At, PendingPCs
  <2>3. QED
    BY <1>7, <2>1, <2>2, QuietExact DEF replace_deleted
<1>8. CASE replace_rejected(r)
  BY <1>8, FinishExact DEF replace_rejected
<1>9. QED
  BY <1>2, <1>3, <1>4, <1>5, <1>6, <1>7, <1>8

\* Scout runs link nothing.
LEMMA RunsExact ==
    ASSUME ViewSound, WorkspacesSound', NEW r \in Request,
           ScoutStart(r) \/ ScoutStep(r), UNCHANGED rows
    PROVE  ViewSound'
<1>1. ASSUME NEW label \in {"sources", "entries", "checked"}, NEW v, Continue(r, label, v)
      PROVE  ViewSound'
  <2>1. label \in PCs \ LinkPCs
    BY <1>1 DEF PCs, LinkPCs
  <2>2. QED
    BY <1>1, <2>1, NowhereExact, QuietExact
<1>2. CASE run_aborted(r) \/ run_done(r)
  BY <1>2, FinishExact DEF run_aborted, run_done
<1>3. CASE entry_rejected(r) \/ deadlock_victim(r) \/ source_commit(r)
  BY <1>3, NextSourceExact DEF entry_rejected, deadlock_victim, source_commit
<1>4. QED
  BY <1>1, <1>2, <1>3
     DEF ScoutStart, run_start, ScoutStep, fetch, fetch_failed, entry_known, entry_new,
         entry_added

----------------------------------------------------------------------------
(* Steps that change rows *)

LEMMA CommitExact ==
    ASSUME ViewSound, WorkspacesSound', NEW r \in Request, source_commit(r)
    PROVE  ViewSound'
<1> DEFINE v == [Nothing EXCEPT !.todo = local[r].todo \ {local[r].source}]
<1>1. /\ pc' = [pc EXCEPT ![r] = "sources"] /\ local' = [local EXCEPT ![r] = v]
      /\ contents \subseteq contents' /\ links' = links /\ visible' = visible
      /\ unsettled' = unsettled
  BY DEF source_commit, NextSource, Continue
<1>2. /\ pc'[r] = "sources" /\ local'[r] = v
      /\ \A q \in Request : q # r => pc'[q] = pc[q] /\ local'[q] = local[q]
  BY <1>1 DEF ViewSound, WorkspacesSound, TypeOK
<1>3. Exact("sources", v) /\ Separate(r, "sources", v)
  BY NowhereExact DEF PCs, LinkPCs
<1>4. UniqueLinks'
  BY <1>1 DEF ViewSound, UniqueLinks
<1>5. VisibleIsStored'
  BY <1>1 DEF ViewSound, VisibleIsStored, LinkedSources
<1>6. ASSUME NEW q \in Request PROVE Exact(pc[q], local[q])'
  <2>1. Exact(pc'[q], local'[q])
    <3>1. CASE q = r
      BY <1>2, <1>3, <3>1
    <3>2. CASE q # r
      <4>1. Exact(pc[q], local[q]) /\ pc'[q] = pc[q] /\ local'[q] = local[q]
        BY <1>2, <3>2 DEF ViewSound
      <4>2. QED
        BY <4>1
    <3>3. QED
      BY <3>1, <3>2
  <2>2. LinkedSources(local[q].workspace)' = LinkedSources(local'[q].workspace)
    BY <1>1 DEF LinkedSources
  <2>3. Sees(local[q])' = Sees(local'[q])
    BY <2>2 DEF Sees
  <2>4. RowsOf(local[q].workspace)' = RowsOf(local'[q].workspace)
    BY <1>1 DEF RowsOf
  <2>5. LinkIsKnown(pc[q], local[q])'
    BY <1>1, <2>1, <2>2 DEF Exact, LinkIsKnown
  <2>6. RebuildIsStored(pc[q], local[q])'
    BY <1>1, <2>1 DEF Exact, RebuildIsStored
  <2>7. RebuildIsExact(pc[q], local[q])'
    BY <1>1, <2>1, <2>3, <2>4 DEF Exact, RebuildIsExact
  <2>8. QED
    BY <2>5, <2>6, <2>7 DEF Exact
<1>7. \A q \in Request : Separate(q, pc[q], local[q])'
  BY <1>2, <1>3, StillSeparate
<1>8. QED
  BY <1>4, <1>5, <1>6, <1>7 DEF ViewSound

\* The links that remain when a source goes.
LEMMA LinksWithout ==
    ASSUME NEW s \in Source, delete_source(s), NEW w \in Workspace
    PROVE  LinkedSources(w)' = LinkedSources(w) \ {s}
<1>1. \A l \in Link : links'[l] = IF links[l] # NONE /\ links[l].source = s THEN NONE
                                  ELSE links[l]
  BY DEF delete_source
<1>2. \A t \in Source : [workspace |-> w, source |-> t] # NONE
  BY WorkspaceAssumption DEF LinkRow
<1>3. \A l \in Link, t \in Source :
        links'[l] = [workspace |-> w, source |-> t]
          <=> links[l] = [workspace |-> w, source |-> t] /\ t # s
  BY <1>1, <1>2
<1>4. QED
  BY <1>3 DEF LinkedSources

LEMMA DeleteExact ==
    ASSUME ViewSound, WorkspacesSound', NEW s \in Source, delete_source(s)
    PROVE  ViewSound'
<1>1. /\ pc' = pc /\ local' = local /\ contents' = contents /\ visible' = visible
      /\ unsettled' = unsettled
      /\ \A l \in Link : links'[l] = IF links[l] # NONE /\ links[l].source = s THEN NONE
                                     ELSE links[l]
      /\ contents \cap EntriesOf({s}) = {}
  BY DEF delete_source
<1>2. \A c \in contents : FeedOf[c] # s
  BY <1>1 DEF EntriesOf, ViewSound, WorkspacesSound, TypeOK
<1>3. UniqueLinks'
  BY <1>1 DEF ViewSound, UniqueLinks
<1>4. VisibleIsStored'
  BY <1>1, <1>2, LinksWithout DEF ViewSound, VisibleIsStored
<1>5. ASSUME NEW r \in Request PROVE Exact(pc[r], local[r])'
  <2>1. Exact(pc[r], local[r]) /\ pc[r] \in PCs
    BY DEF ViewSound, WorkspacesSound, TypeOK
  <2>2. CASE pc[r] \notin LinkPCs
    <3>1. pc'[r] \in PCs \ LinkPCs
      BY <1>1, <2>1, <2>2
    <3>2. QED
      BY <3>1 DEF Exact, LinkIsKnown, RebuildIsStored, RebuildIsExact, PCs, LinkPCs,
                  PendingPCs, RebuildPCs
  <2>3. CASE pc[r] \in LinkPCs
    <3>1. local[r].workspace \in Workspace
      BY <2>3 DEF ViewSound, WorkspacesSound, Sound, Carries
    <3>2. LinkedSources(local[r].workspace)' = LinkedSources(local[r].workspace) \ {s}
      <4> DEFINE w == local[r].workspace
      <4>1. \A t \in Source : [workspace |-> w, source |-> t] # NONE
        BY <3>1, WorkspaceAssumption DEF LinkRow
      <4>2. \A l \in Link, t \in Source :
              links'[l] = [workspace |-> w, source |-> t]
                <=> links[l] = [workspace |-> w, source |-> t] /\ t # s
        BY <1>1, <4>1
      <4>3. QED
        BY <1>1, <4>2 DEF LinkedSources
    <3>3. pc[r] \in PendingPCs => local[r].source # s
      BY DEF delete_source, Pending, PendingPCs
    <3>4. LinkIsKnown(pc[r], local[r])'
      BY <1>1, <2>1, <2>3, <3>2, <3>3
         DEF Exact, LinkIsKnown, LinkPCs, PendingPCs
    <3>5. Sees(local[r]) \ {s} \subseteq Sees(local[r])'
          /\ Sees(local[r])' \subseteq Sees(local[r])
      BY <1>1, <3>2 DEF Sees
    <3>6. RowsOf(local[r].workspace)' = RowsOf(local[r].workspace)
      BY <1>1 DEF RowsOf
    <3>7. RebuildIsStored(pc[r], local[r])'
      BY <1>1, <2>1 DEF Exact, RebuildIsStored
    <3>8. RebuildIsExact(pc[r], local[r])'
      BY <1>1, <1>2, <2>1, <3>5, <3>6 DEF Exact, RebuildIsStored, RebuildIsExact, EntriesOf
    <3>9. QED
      BY <3>4, <3>7, <3>8 DEF Exact
  <2>4. QED
    BY <2>2, <2>3
<1>6. ASSUME NEW r \in Request PROVE Separate(r, pc[r], local[r])'
  BY <1>1 DEF ViewSound, Separate, Apart
<1>7. QED
  BY <1>3, <1>4, <1>5, <1>6 DEF ViewSound

\* A commit links what its request saw, and changes no link that another
\* request refers to, except that it may remove it.
LEMMA LinksAfter ==
    ASSUME ViewSound, NEW r \in Request, replace(r)
    PROVE  /\ UniqueLinks'
           /\ \A w \in Workspace : LinkedSources(w)' =
                  IF w = local[r].workspace THEN Sees(local[r]) ELSE LinkedSources(w)
           /\ \A l \in Link : \/ links'[l] = links[l]
                              \/ l = local[r].link /\ links'[l] = NONE
                              \/ \A q \in Request : local[q].link # l
<1> DEFINE v == local[r]
           row(w, s) == [workspace |-> w, source |-> s]
<1>1. /\ v.workspace \in Workspace /\ v.source \in Source
      /\ v.op \in {"link", "unlink"}
      /\ v.op = "link" => v.source \notin LinkedSources(v.workspace)
      /\ v.op = "unlink" /\ v.link # NONE =>
            v.link \in Link /\ links[v.link] = row(v.workspace, v.source)
  BY DEF replace, At, ViewSound, WorkspacesSound, Sound, Carries, Exact, LinkIsKnown, LinkPCs,
         PendingPCs
<1>2. \A w \in Workspace, s \in Source : row(w, s) # NONE
  BY WorkspaceAssumption DEF LinkRow
<1>3. \A w, x, s, t : row(w, s) = row(x, t) => w = x /\ s = t
  <2>1. \A w, s : row(w, s).workspace = w /\ row(w, s).source = s
    OBVIOUS
  <2>2. QED
    BY <2>1
<1>4. links \in [Link -> LinkRow \cup {NONE}]
  BY DEF ViewSound, WorkspacesSound, TypeOK
<1>5. CASE v.op = "link"
  <2>1. PICK k \in Link : /\ links[k] = NONE
                          /\ \A q \in Request : local[q].link # k
                          /\ links' = [links EXCEPT ![k] = row(v.workspace, v.source)]
    BY <1>5 DEF replace, Relinked
  <2>2. \A l \in Link : links'[l] = IF l = k THEN row(v.workspace, v.source) ELSE links[l]
    BY <1>4, <2>1
  <2>3. \A l \in Link : links[l] # row(v.workspace, v.source)
    BY <1>1, <1>5 DEF LinkedSources
  <2>4. UniqueLinks'
    BY <2>2, <2>3 DEF ViewSound, UniqueLinks
  <2>5. ASSUME NEW w \in Workspace
        PROVE  LinkedSources(w)' = IF w = v.workspace THEN Sees(v) ELSE LinkedSources(w)
    <3>1. \A s \in Source : (\E l \in Link : links'[l] = row(w, s))
              <=> \/ \E l \in Link : links[l] = row(w, s)
                  \/ w = v.workspace /\ s = v.source
      BY <1>2, <1>3, <2>1, <2>2
    <3>2. LinkedSources(w)' = LinkedSources(w)
                                \cup (IF w = v.workspace THEN {v.source} ELSE {})
      BY <1>1, <3>1 DEF LinkedSources
    <3>3. QED
      BY <1>5, <3>2 DEF Sees
  <2>6. QED
    BY <2>1, <2>2, <2>4, <2>5
<1>6. CASE v.op = "unlink"
  <2>1. \A l \in Link : links'[l] = IF l = v.link THEN NONE ELSE links[l]
    BY <1>6 DEF replace, Relinked
  <2>2. UniqueLinks'
    BY <2>1 DEF ViewSound, UniqueLinks
  <2>3. ASSUME NEW w \in Workspace
        PROVE  LinkedSources(w)' = IF w = v.workspace THEN Sees(v) ELSE LinkedSources(w)
    <3>1. CASE v.link = NONE
      <4>1. \A l \in Link : links'[l] = links[l]
        BY <2>1, <3>1, WorkspaceAssumption
      <4>2. LinkedSources(w)' = LinkedSources(w)
        BY <4>1 DEF LinkedSources
      <4>3. QED
        BY <1>6, <3>1, <4>2 DEF Sees
    <3>2. CASE v.link # NONE
      <4>1. v.link \in Link /\ links[v.link] = row(v.workspace, v.source)
        BY <1>1, <1>6, <3>2
      <4>2. \A l \in Link : links[l] = row(v.workspace, v.source) => l = v.link
        BY <1>1, <1>2, <4>1 DEF ViewSound, UniqueLinks
      <4>3. \A s \in Source : (\E l \in Link : links'[l] = row(w, s))
                <=> (\E l \in Link : links[l] = row(w, s))
                      /\ ~(w = v.workspace /\ s = v.source)
        BY <1>2, <1>3, <2>1, <4>1, <4>2
      <4>4. LinkedSources(w)' = LinkedSources(w)
                                  \ (IF w = v.workspace THEN {v.source} ELSE {})
        BY <1>1, <4>3 DEF LinkedSources
      <4>5. QED
        BY <1>6, <3>2, <4>4 DEF Sees
    <3>3. QED
      BY <3>1, <3>2
  <2>4. QED
    BY <2>1, <2>2, <2>3
<1>7. QED
  BY <1>1, <1>5, <1>6

\* A commit that nobody has overtaken shows its workspace what was expected.
\* Every commit leaves other workspaces what they showed, and stored contents.
LEMMA RowsAfter ==
    ASSUME ViewSound, NEW r \in Request, replace(r)
    PROVE  /\ \A w \in Workspace, c \in Content : w # local[r].workspace =>
                (<<w, c>> \in visible' <=> <<w, c>> \in visible)
           /\ ~local[r].overtaken => \A c \in Content :
                <<local[r].workspace, c>> \in visible' <=> c \in local[r].expected
           /\ \A w \in Workspace, c \in Content : <<w, c>> \in visible' => c \in contents
<1>1. /\ local[r].removed \subseteq {local[r].workspace} \X Content
      /\ local[r].expected \subseteq contents
      /\ ~local[r].overtaken => local[r].removed = RowsOf(local[r].workspace)
  BY DEF replace, At, ViewSound, Exact, RebuildIsStored, RebuildIsExact, RebuildPCs
<1>2. visible' = (visible \ local[r].removed)
                   \cup ({local[r].workspace} \X local[r].expected)
  BY DEF replace, Inserted
<1>3. ASSUME NEW w \in Workspace, NEW c \in Content, w # local[r].workspace
      PROVE  <<w, c>> \in visible' <=> <<w, c>> \in visible
  BY <1>1, <1>2, <1>3
<1>4. ASSUME ~local[r].overtaken, NEW c \in Content
      PROVE  <<local[r].workspace, c>> \in visible' <=> c \in local[r].expected
  BY <1>1, <1>2, <1>4 DEF RowsOf
<1>5. ASSUME NEW w \in Workspace, NEW c \in Content, <<w, c>> \in visible'
      PROVE  c \in contents
  BY <1>1, <1>2, <1>5 DEF ViewSound, VisibleIsStored
<1>6. QED
  BY <1>3, <1>4, <1>5

\* What a commit does to the values of another request.
LEMMA OthersAfter ==
    ASSUME ViewSound, NEW r \in Request, replace(r), NEW q \in Request, q # r
    PROVE  /\ pc'[q] = pc[q]
           /\ local'[q].workspace = local[q].workspace /\ local'[q].source = local[q].source
           /\ local'[q].op = local[q].op /\ local'[q].link = local[q].link
           /\ local'[q].expected = local[q].expected
           /\ local'[q].removed = local[q].removed \ local[r].removed
           /\ ~local'[q].overtaken => ~local[q].overtaken /\ ~Overtakes(r, q)
<1>1. pc'[q] = pc[q] /\ local'[q] = Forget(r, q) /\ local[q] \in Local
  BY DEF replace, ViewSound, WorkspacesSound, TypeOK
<1>2. QED
  BY <1>1 DEF Forget, Local

\* A commit leaves the others' links and rebuilds exact.
LEMMA OthersExact ==
    ASSUME ViewSound, NEW r \in Request, replace(r), NEW q \in Request, q # r
    PROVE  Exact(pc[q], local[q])'
<1> DEFINE v == local[r]
           u == local[q]
<1>1. /\ v.workspace \in Workspace /\ pc[r] = "insert" /\ v.op \in {"link", "unlink"}
      /\ contents' = contents
      /\ v.removed \subseteq {v.workspace} \X Content
  BY DEF replace, At, ViewSound, WorkspacesSound, Sound, Carries, Exact, LinkIsKnown,
         RebuildIsStored, LinkPCs
<1>2. Exact(pc[q], u) /\ u \in Local /\ pc[q] \in PCs
  BY DEF ViewSound, WorkspacesSound, TypeOK
<1>3. CASE pc[q] \notin LinkPCs
  <2>1. pc'[q] \in PCs \ LinkPCs
    BY <1>2, <1>3, OthersAfter
  <2>2. QED
    BY <2>1 DEF Exact, LinkIsKnown, RebuildIsStored, RebuildIsExact, PCs, LinkPCs,
                PendingPCs, RebuildPCs
<1>4. CASE pc[q] \in LinkPCs
  <2>1. u.workspace \in Workspace
    BY <1>4 DEF ViewSound, WorkspacesSound, Sound, Carries
  <2>2. LinkedSources(local[q].workspace)'
          = IF u.workspace = v.workspace THEN Sees(v) ELSE LinkedSources(u.workspace)
    <3>1. \A w : LinkedSources(w)'
            = {s \in Source : \E l \in Link : links'[l] = [workspace |-> w, source |-> s]}
      BY DEF LinkedSources
    <3>2. LinkedSources(local[q].workspace)'
            = {s \in Source : \E l \in Link : links'[l] = [workspace |-> u.workspace,
                                                         source |-> s]}
      BY OthersAfter DEF LinkedSources
    <3>3. \A w \in Workspace : LinkedSources(w)' =
            IF w = v.workspace THEN Sees(v) ELSE LinkedSources(w)
      BY LinksAfter
    <3>4. QED
      BY <2>1, <3>1, <3>2, <3>3
  <2>3. pc[q] \in PendingPCs => Apart(v, u)
    BY <1>1 DEF ViewSound, Separate, PendingPCs
  <2>4. u.op = "unlink" /\ u.link # NONE =>
          \/ links'[u.link] = links[u.link]
          \/ pc[q] = "unlink" /\ links'[u.link] = NONE
    <3>1. SUFFICES ASSUME u.op = "unlink", u.link # NONE, links'[u.link] # links[u.link]
                   PROVE  pc[q] = "unlink" /\ links'[u.link] = NONE
      OBVIOUS
    <3>2. u.link \in Link
      BY <1>2, <1>4, <3>1 DEF Exact, LinkIsKnown
    <3>3. u.link = v.link /\ links'[u.link] = NONE
      BY <3>1, <3>2, LinksAfter
    <3>4. pc[q] \notin PendingPCs
      BY <2>3, <3>1, <3>3 DEF Apart
    <3>5. pc[q] # "link"
      BY <1>2, <3>1 DEF Exact, LinkIsKnown
    <3>6. QED
      BY <1>4, <3>3, <3>4, <3>5 DEF LinkPCs, PendingPCs
  <2>5. pc[q] \in PendingPCs /\ u.op = "link" =>
          u.source \notin LinkedSources(local[q].workspace)'
    <3>1. SUFFICES ASSUME pc[q] \in PendingPCs, u.op = "link"
                   PROVE  u.source \notin LinkedSources(local[q].workspace)'
      OBVIOUS
    <3>2. u.source \notin LinkedSources(u.workspace)
      BY <1>2, <3>1 DEF Exact, LinkIsKnown
    <3>3. CASE u.workspace = v.workspace
      BY <2>2, <2>3, <3>1, <3>2, <3>3 DEF Apart, Sees
    <3>4. CASE u.workspace # v.workspace
      BY <2>2, <3>2, <3>4
    <3>5. QED
      BY <3>3, <3>4
  <2>6. LinkIsKnown(pc[q], local[q])'
    BY <1>2, <1>4, <2>4, <2>5, OthersAfter DEF Exact, LinkIsKnown
  <2>7. RebuildIsStored(pc[q], local[q])'
    BY <1>1, <1>2, OthersAfter DEF Exact, RebuildIsStored
  <2>8. RebuildIsExact(pc[q], local[q])'
    <3>1. SUFFICES ASSUME pc'[q] \in RebuildPCs, ~local'[q].overtaken
                   PROVE  /\ local'[q].expected \subseteq EntriesOf(Sees(local[q])')
                          /\ \A c \in Content :
                                /\ <<local'[q].workspace, c>> \in visible'
                                /\ FeedOf[c] \in Sees(local[q])'
                                => c \in local'[q].expected
                          /\ pc'[q] # "delete" =>
                                local'[q].removed = RowsOf(local[q].workspace)'
      BY DEF RebuildIsExact, EntriesOf
    <3>2. u.workspace # v.workspace
      BY <3>1, OthersAfter DEF Overtakes, RebuildPCs
    <3>3. Sees(local[q])' = Sees(u)
      BY <2>2, <3>2, OthersAfter DEF Sees
    <3>4. /\ u.expected \subseteq EntriesOf(Sees(u))
          /\ \A c \in Content :
                <<u.workspace, c>> \in visible /\ FeedOf[c] \in Sees(u) => c \in u.expected
          /\ pc[q] # "delete" => u.removed = RowsOf(u.workspace)
      BY <1>2, <3>1, OthersAfter DEF Exact, RebuildIsExact
    <3>5. \A c \in Content : <<u.workspace, c>> \in visible' <=> <<u.workspace, c>> \in visible
      BY <2>1, <3>2, RowsAfter
    <3>6. RowsOf(local[q].workspace)' = RowsOf(u.workspace)
      <4>1. RowsOf(local[q].workspace)' = {row \in visible' : row[1] = u.workspace}
        BY OthersAfter DEF RowsOf
      <4>2. visible' = (visible \ v.removed) \cup ({v.workspace} \X v.expected)
        BY DEF replace, Inserted
      <4>3. QED
        BY <1>1, <3>2, <4>1, <4>2 DEF RowsOf
    <3>7. pc[q] # "delete" => local'[q].removed = RowsOf(u.workspace)
      <4>1. RowsOf(u.workspace) \cap v.removed = {}
        BY <1>1, <3>2 DEF RowsOf
      <4>2. local'[q].removed = u.removed \ v.removed
        BY OthersAfter
      <4>3. QED
        BY <3>4, <4>1, <4>2
    <3>8. QED
      BY <3>3, <3>4, <3>5, <3>6, <3>7, OthersAfter
  <2>9. QED
    BY <2>6, <2>7, <2>8 DEF Exact
<1>5. QED
  BY <1>3, <1>4

LEMMA ReplaceExact ==
    ASSUME ViewSound, WorkspacesSound', NEW r \in Request, replace(r)
    PROVE  ViewSound'
<1> DEFINE v == local[r]
<1>1. /\ v.workspace \in Workspace
      /\ ~v.overtaken => v.expected \subseteq EntriesOf(Sees(v))
      /\ contents' = contents
      /\ unsettled' = IF v.overtaken THEN unsettled \cup {v.workspace}
                      ELSE unsettled \ {v.workspace}
  BY DEF replace, At, ViewSound, WorkspacesSound, Sound, Carries, Exact, RebuildIsExact,
         LinkPCs, RebuildPCs
<1>2. pc'[r] = "idle" /\ local'[r] = Nothing
  BY DEF replace, ViewSound, WorkspacesSound, TypeOK
<1>3. UniqueLinks'
  BY LinksAfter
<1>4. VisibleIsStored'
  <2>1. ASSUME NEW w \in Workspace, NEW c \in Content, <<w, c>> \in visible',
               w \notin unsettled'
        PROVE  FeedOf[c] \in LinkedSources(w)'
    <3>1. CASE w = v.workspace
      BY <1>1, <2>1, <3>1, RowsAfter, LinksAfter DEF EntriesOf
    <3>2. CASE w # v.workspace
      BY <1>1, <2>1, <3>2, RowsAfter, LinksAfter DEF ViewSound, VisibleIsStored
    <3>3. QED
      BY <3>1, <3>2
  <2>2. \A w \in Workspace, c \in Content :
          <<w, c>> \in visible' =>
            c \in contents' /\ (w \in unsettled' \/ FeedOf[c] \in LinkedSources(w)')
    BY <1>1, <2>1, RowsAfter
  <2>3. QED
    BY <2>2 DEF VisibleIsStored
<1>5. ASSUME NEW q \in Request PROVE Exact(pc[q], local[q])'
  <2>1. CASE q = r
    <3>1. pc'[q] = "idle"
      BY <1>2, <2>1
    <3>2. QED
      BY <3>1 DEF Exact, LinkIsKnown, RebuildIsStored, RebuildIsExact, LinkPCs, PendingPCs,
                  RebuildPCs
  <2>2. CASE q # r
    BY <2>2, OthersExact
  <2>3. QED
    BY <2>1, <2>2
<1>6. ASSUME NEW q \in Request PROVE Separate(q, pc[q], local[q])'
  <2>1. SUFFICES ASSUME NEW p \in Request, p # q,
                        pc'[q] \in PendingPCs, pc'[p] \in PendingPCs
                 PROVE  Apart(local'[p], local'[q])
    BY DEF Separate, Apart
  <2>2. p # r /\ q # r
    BY <1>2, <2>1 DEF PendingPCs
  <2>3. Apart(local[p], local[q])
    BY <2>1, <2>2, OthersAfter DEF ViewSound, Separate
  <2>4. QED
    BY <2>2, <2>3, OthersAfter DEF Apart
<1>7. QED
  BY <1>3, <1>4, <1>5, <1>6 DEF ViewSound

----------------------------------------------------------------------------
(* Every step *)

LEMMA ViewInit == Init => ViewSound
<1>1. SUFFICES ASSUME Init PROVE ViewSound
  OBVIOUS
<1>2. WorkspacesSound
  BY <1>1, InitSound
<1>3. UniqueLinks /\ VisibleIsStored
  BY <1>1 DEF Init, UniqueLinks, VisibleIsStored
<1>4. ASSUME NEW r \in Request PROVE Exact(pc[r], local[r]) /\ Separate(r, pc[r], local[r])
  BY <1>1, NowhereExact DEF Init, PCs, LinkPCs
<1>5. QED
  BY <1>2, <1>3, <1>4 DEF ViewSound

LEMMA ViewNext == ViewSound /\ [Next]_vars => ViewSound'
<1>1. SUFFICES ASSUME ViewSound, [Next]_vars PROVE ViewSound'
  OBVIOUS
<1>2. WorkspacesSound'
  BY <1>1, NextSound DEF ViewSound
<1>3. CASE UNCHANGED vars
  <2>1. /\ pc' = pc /\ local' = local /\ unsettled' = unsettled
        /\ contents' = contents /\ links' = links /\ visible' = visible
    BY <1>3 DEF vars, rows
  <2>2. ASSUME NEW r \in Request PROVE Exact(pc[r], local[r])'
    <3>1. Exact(pc'[r], local'[r])
      <4>1. Exact(pc[r], local[r])
        BY <1>1 DEF ViewSound
      <4>2. QED
        BY <2>1, <4>1
    <3>2. QED
      BY <2>1, <3>1, StillExact
  <2>3. \A r \in Request : Separate(r, pc[r], local[r])'
    BY <1>1, <2>1 DEF ViewSound, Separate, Apart
  <2>4. UniqueLinks' /\ VisibleIsStored'
    BY <1>1, <2>1 DEF ViewSound, UniqueLinks, VisibleIsStored, LinkedSources
  <2>5. QED
    BY <1>2, <2>2, <2>3, <2>4 DEF ViewSound
<1>4. ASSUME NEW s \in Source, delete_source(s) PROVE ViewSound'
  BY <1>1, <1>2, <1>4, DeleteExact
<1>5. ASSUME NEW r \in Request, SourcesStart(r) PROVE ViewSound'
  BY <1>1, <1>2, <1>5, StartsExact
<1>6. ASSUME NEW r \in Request, SourcesStep(r) PROVE ViewSound'
  BY <1>1, <1>2, <1>6, LinkStepsExact, ReplaceExact DEF SourcesStep
<1>7. ASSUME NEW r \in Request, ScoutStart(r) \/ ScoutStep(r) PROVE ViewSound'
  <2>1. CASE source_commit(r)
    BY <1>1, <1>2, <2>1, CommitExact
  <2>2. CASE ~source_commit(r)
    <3>1. UNCHANGED rows
      BY <1>7, <2>2 DEF ScoutStart, run_start, ScoutStep, fetch, fetch_failed, run_aborted,
                        run_done, entry_known, entry_new, entry_added, entry_rejected,
                        deadlock_victim
    <3>2. QED
      BY <1>1, <1>2, <1>7, <3>1, RunsExact
  <2>3. QED
    BY <2>1, <2>2
<1>8. ASSUME NEW r \in Request, failure(r) PROVE ViewSound'
  BY <1>1, <1>2, <1>8, FinishExact DEF failure
<1>9. ASSUME NEW r \in Request, source_failed(r) PROVE ViewSound'
  BY <1>1, <1>2, <1>9, NextSourceExact DEF source_failed
<1>10. QED
  BY <1>1, <1>3, <1>4, <1>5, <1>6, <1>7, <1>8, <1>9 DEF Next, RequestStep

\* The inductive invariant.
THEOREM ViewsStaySound == Spec => []ViewSound
  BY ViewInit, ViewNext, PTL DEF Spec

\* However requests overlap, a workspace whose last rebuild no other overtook
\* shows only contents of the sources it is linked to: what overlapping
\* requests mix, the next one repairs (WorkspaceVisibilityProjectionService).
THEOREM SettledViewsAreLinked == Spec => []SettledViewIsLinked
<1>1. ViewSound => SettledViewIsLinked
  BY DEF ViewSound, VisibleIsStored, SettledViewIsLinked, WorkspacesSound, TypeOK
<1>2. QED
  BY <1>1, ViewsStaySound, PTL

----------------------------------------------------------------------------
(* The refinement *)

LEMMA ViewStarts == Init => View!Init
<1>1. SUFFICES ASSUME Init PROVE View!Init
  OBVIOUS
<1>2. ASSUME NEW w \in Workspace PROVE LinkedSources(w) = {}
  <2>1. \A s \in Source : [workspace |-> w, source |-> s] # NONE
    BY WorkspaceAssumption DEF LinkRow
  <2>2. \A l \in Link : links[l] = NONE
    BY <1>1 DEF Init
  <2>3. QED
    BY <2>1, <2>2 DEF LinkedSources
<1>3. linked = [w \in Workspace |-> {}]
  BY <1>2 DEF linked
<1>4. shown = [w \in Workspace |-> {}]
  BY <1>1 DEF Init, shown
<1>5. QED
  BY <1>1, <1>3, <1>4 DEF Init, View!Init

\* A commit links or unlinks one source.
LEMMA ReplaceChangesLinks ==
    ASSUME ViewSound, NEW r \in Request, replace(r)
    PROVE  /\ local[r].workspace \in Workspace
           /\ linked' = [linked EXCEPT ![local[r].workspace] = Sees(local[r])]
           /\ View!LinksChange(local[r].workspace)
<1> DEFINE v == local[r]
           w == v.workspace
<1>1. w \in Workspace /\ v.source \in Source
  BY DEF replace, At, ViewSound, WorkspacesSound, Sound, Carries, LinkPCs
<1>2. linked' = [linked EXCEPT ![w] = Sees(v)]
  BY <1>1, LinksAfter DEF linked
<1>3. linked[w] = LinkedSources(w)
  BY <1>1 DEF linked
<1>4. Sees(v) = linked[w] \cup {v.source} \/ Sees(v) = linked[w] \ {v.source}
  <2>1. CASE v.op # "link" /\ v.link = NONE
    <3>1. Sees(v) = linked[w]
      BY <1>3, <2>1 DEF Sees
    <3>2. QED
      BY <3>1
  <2>2. CASE v.op = "link" \/ v.link # NONE
    BY <1>3, <2>2 DEF Sees
  <2>3. QED
    BY <2>1, <2>2
<1>5. QED
  BY <1>1, <1>2, <1>4 DEF View!LinksChange

\* A commit that no other has overtaken relinks its workspace.
LEMMA ReplaceRelinks ==
    ASSUME ViewSound, NEW r \in Request, replace(r), ~local[r].overtaken
    PROVE  View!Relink(local[r].workspace)
<1> DEFINE v == local[r]
           w == v.workspace
<1>1. /\ w \in Workspace
      /\ v.expected \subseteq contents \cap EntriesOf(Sees(v))
      /\ \A c \in Content : <<w, c>> \in visible /\ FeedOf[c] \in Sees(v) => c \in v.expected
      /\ contents' = contents
      /\ unsettled' = unsettled \ {w}
  BY ReplaceChangesLinks
     DEF replace, At, ViewSound, Exact, RebuildIsStored, RebuildIsExact, RebuildPCs
<1>2. v.expected \subseteq Content /\ contents \subseteq Content
  BY DEF ViewSound, WorkspacesSound, TypeOK, Local
<1>3. linked'[w] = Sees(v)
  BY <1>1, ReplaceChangesLinks DEF linked
<1>4. shown' = [shown EXCEPT ![w] = v.expected]
  <2>1. \A x \in Workspace : {c \in Content : <<x, c>> \in visible'}
          = IF x = w THEN v.expected ELSE {c \in Content : <<x, c>> \in visible}
    BY <1>2, RowsAfter
  <2>2. QED
    BY <2>1 DEF shown
<1>5. v.expected \in SUBSET (contents \cap View!Of(linked'[w]))
  BY <1>1, <1>3 DEF View!Of, EntriesOf
<1>6. shown[w] \cap View!Of(linked'[w]) \subseteq v.expected
  BY <1>1, <1>3 DEF View!Of, shown
<1>7. QED
  BY <1>1, <1>4, <1>5, <1>6, ReplaceChangesLinks DEF View!Relink

\* One that another has overtaken leaves stored contents in its workspace.
LEMMA ReplaceOvertakes ==
    ASSUME ViewSound, NEW r \in Request, replace(r), local[r].overtaken
    PROVE  View!Overtake(local[r].workspace)
<1> DEFINE w == local[r].workspace
           new == {c \in Content : <<w, c>> \in visible'}
<1>1. w \in Workspace
  BY ReplaceChangesLinks
<1>2. contents' = contents /\ unsettled' = unsettled \cup {w}
  BY DEF replace
<1>3. new \in SUBSET contents
  BY <1>1, RowsAfter
<1>4. shown' = [shown EXCEPT ![w] = new]
  <2>1. \A x \in Workspace : {c \in Content : <<x, c>> \in visible'}
          = IF x = w THEN new ELSE {c \in Content : <<x, c>> \in visible}
    BY RowsAfter
  <2>2. QED
    BY <2>1 DEF shown
<1>5. QED
  BY <1>2, <1>3, <1>4, ReplaceChangesLinks DEF View!Overtake

LEMMA CommitPublishes ==
    ASSUME ViewSound, NEW r \in Request, source_commit(r)
    PROVE  View!Publish
<1>1. /\ contents' = contents \cup local[r].added
      /\ links' = links /\ visible' = visible /\ unsettled' = unsettled
  BY DEF source_commit
<1>2. local[r].added \in SUBSET Content
  BY DEF ViewSound, WorkspacesSound, TypeOK, Local
<1>3. linked' = linked /\ shown' = shown
  BY <1>1 DEF linked, shown, LinkedSources
<1>4. QED
  BY <1>1, <1>2, <1>3 DEF View!Publish

LEMMA DeleteWithdraws ==
    ASSUME NEW s \in Source, delete_source(s)
    PROVE  View!Withdraw(s)
<1>1. contents \cap EntriesOf({s}) = {} /\ contents' = contents /\ visible' = visible
      /\ unsettled' = unsettled
  BY DEF delete_source
<1>2. linked' = [w \in Workspace |-> linked[w] \ {s}]
  BY LinksWithout DEF linked
<1>3. QED
  BY <1>1, <1>2 DEF View!Withdraw, View!Of, EntriesOf, shown

LEMMA StepsRefine ==
    ViewSound /\ [Next]_vars => [View!Next]_<<contents, linked, shown, unsettled>>
<1>1. SUFFICES ASSUME ViewSound, [Next]_vars
               PROVE  [View!Next]_<<contents, linked, shown, unsettled>>
  OBVIOUS
<1>2. CASE UNCHANGED rows
  BY <1>2 DEF rows, linked, shown, LinkedSources
<1>3. ASSUME NEW r \in Request, replace(r) PROVE View!Next
  <2>1. local[r].workspace \in Workspace
    BY <1>1, <1>3, ReplaceChangesLinks
  <2>2. View!Relink(local[r].workspace) \/ View!Overtake(local[r].workspace)
    BY <1>1, <1>3, ReplaceRelinks, ReplaceOvertakes
  <2>3. QED
    BY <2>1, <2>2 DEF View!Next
<1>4. ASSUME NEW r \in Request, source_commit(r) PROVE View!Next
  BY <1>1, <1>4, CommitPublishes DEF View!Next
<1>5. ASSUME NEW s \in Source, delete_source(s) PROVE View!Next
  BY <1>5, DeleteWithdraws DEF View!Next
<1>6. QED
  BY <1>1, <1>2, <1>3, <1>4, <1>5, WhoWrites

\* However requests overlap, every step of links, unlinks, Scout runs, deletions
\* and failures is a step of WorkspaceView or none.
THEOREM WorkspacesImplementView == Spec => ImplementsWorkspaceView
<1>1. Init => View!Init
  BY ViewStarts
<1>2. ViewSound /\ [Next]_vars => [View!Next]_<<contents, linked, shown, unsettled>>
  BY StepsRefine
<1>3. Spec => []ViewSound
  BY ViewsStaySound
<1>4. QED
  BY <1>1, <1>2, <1>3, PTL DEF Spec, ImplementsWorkspaceView, View!Spec
============================================================================

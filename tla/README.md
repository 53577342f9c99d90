# Gearia operating system: formal models

TLA+ models of the Python service in `src/services/api/app` (FastAPI,
SQLAlchemy, PostgreSQL, Redis), the TLC runs that check them on small instances
and the TLAPS proofs of what holds for every instance. Paths below are relative
to `src/services/api/app` unless they start with `src/`.

## 1. Inventory

| Component | State it keeps | Operations | Interacts through |
|---|---|---|---|
| Authentication sessions (`services/auth_service.py`, `access_token_authenticator.py`) | `auth_sessions`, `auth_refresh_tokens` | login, refresh (rotation, reuse detection), principal of an access token, logout | rows shared with the account lifecycle; row locks |
| Account lifecycle (`registration_service.py`, `email_verification_`, `password_reset_`, `account_anonymization_application_service.py`, `lifecycle_token_service.py`) | `users`, both one-time token tables, the personal workspace | register / reissue, verify, request and confirm a reset, anonymize | rows and locks shared with the sessions; an advisory lock per e-mail |
| Rate limiter (`services/rate_limiter.py`, and the policies in `auth_dependencies.py`, `organization_dependencies.py`) | Redis counters with an expiry | consume | called first by every endpoint of the rows above and of organizations |
| Organizations (`organization_membership_`, `shared_organization_`, `organization_metadata_application_service.py`, `organization_policy.py`, `organization_context_resolver.py`) | `organizations`, `organization_memberships` | create, change role, revoke, rename, resolve the caller's role | row locks in a stated order |
| Invitations (`organization_invitation_application_service.py`) | `organization_invitations` | issue, accept, revoke | memberships |
| Workspaces of organizations (`organization_workspace_application_service.py`, `workspace_context_resolver.py`) | `workspaces` | create, show | organizations |
| Workspace projection (`workspace_service.py`, `workspace_visibility_projection_service.py`) | `workspace_sources`, `workspace_content_visibility` | link and unlink a source, each with a rebuild; verify | source links, ingested contents |
| Scout ingestion (`scout.py`, `safe_rss_fetcher.py`) | `contents` | run over all sources, fetch with redirects | network, contents |
| Enrichment, embeddings, relationships (`enrichment_service.py`, `embedding_service.py`, `relationship_service.py`) | derived columns of a content, `content_embeddings`, `content_relationships` | enrich, embed, rebuild relationships, singly and in batches | the text and the status of a content; an embedding provider |
| Hybrid search (`hybrid_search_service.py`, `reciprocal_rank_fusion.py`, `graph_*`, `pre_reranking_candidate_pool.py`) | none | retrieve, fuse, expand, pool | database reads, an embedding provider |
| Reranking (`hybrid_reranking_pipeline.py`, `reranking_service.py`, `voyage_reranking_provider.py`) | none | filter, read documents, rerank, hydrate | database reads, a reranking provider |

What is hard in this code: every endpoint is a transaction of a thread pool at
READ COMMITTED, so two statements of one request may see two states of the
database; some rows are locked (`FOR UPDATE`) and some are only read; work as
slow as a password hash or a call of a provider happens between a check and the
write that relies on it; the ORM hands back objects it has already loaded and
writes only the columns it takes to have changed; the same rows are locked in more
than one order; Redis and the providers fail at any point of a request.
`PROJECT.json` lists these hazards line by line.

What makes each component correct:

- *Sessions*: one usable refresh token per unrevoked session; a linear chain of
  rotations; a replay ends the session; an access token is accepted only while
  its session is live and its credentials are current; lost access never comes
  back.
- *Lifecycle*: a challenge counts once; a new challenge replaces the others;
  activation, reset and anonymization each happen under the account's lock;
  an anonymized account never changes; every request is answered.
- *Rate limiter*: nothing runs uncounted while Redis answers; a window of any
  position lets fewer than twice the limit pass; a refused client is told the true
  wait; no counter stays for ever.
- *Organizations*: an active organization always has an active owner; an
  invitation is accepted at most once and never after its revocation; at most
  one active membership per person; only those do something who are, or have just
  been, entitled to it.
- *Projection*: a workspace shows contents of its linked sources only, a new link
  shows what its source has, and nothing shown is lost before it is unlinked.
- *Ingestion*: an entry is stored once, and none is skipped that is not stored.
- *Derived data*: a search finds a content by the vector of its present text or not
  at all; two contents are related only for a reason that still holds; a rebuild
  leaves exactly the best candidates.
- *Search and reranking*: a ranking respects what it is made of, the pool is full and
  fair, and a reply is a failure or exactly the results asked for, out of what the
  request may show.

## 2. Modules

| Module | Models |
|---|---|
| `IdentityStore` | the rows, row locks and requests shared by all identity endpoints, and the bulk statements of the repositories |
| `AuthFlows` | login, refresh, the authenticator, `GET /auth/me`, logout |
| `LifecycleFlows` | register, reissue, verify, reset, anonymize |
| `Identity` | the composition: both flows, the passing of time, failures, PostgreSQL's deadlock detector; all properties |
| `SessionAccess` | the abstract specification of what an access token is worth |
| `MCIdentity` | instances for TLC |
| `IdentityProofs`, `AccountProofs` | theorems about `Identity` |
| `OrganizationStore` | the rows, row locks and requests of shared organizations, and the policy |
| `OrganizationMembers` | founding an organization; listing, changing and revoking memberships |
| `OrganizationInvitations` | issuing, accepting and revoking invitations |
| `Organizations` | the composition: both services, anonymization of accounts, expiry, failures; all properties |
| `OwnedOrganization` | the abstract specification of who is in an organization |
| `MCOrganizations` | instances for TLC |
| `OrganizationWorkspaces` | `Organizations` with the names and the workspaces of organizations, which are changed without a lock on the members |
| `MCOrganizationWorkspaces` | an instance for TLC |
| `OrganizationProofs`, `OrganizationGuarantees` | theorems about `Organizations` and `OrganizationWorkspaces` |
| `WorkspaceStore` | sources, contents, links, the projection, and requests with what they have not committed |
| `WorkspaceSources` | linking and unlinking a source, with the rebuild of the projection |
| `ScoutRuns` | ingestion of feeds, a transaction per source |
| `Workspaces` | the composition: both, deletion of sources, failures; all properties |
| `WorkspaceView` | the abstract specification of what a workspace shows |
| `MCWorkspaces` | instances for TLC |
| `WorkspaceProofs` | theorems about `Workspaces` |
| `RateLimiter` | the Redis script, its counters and their expiry, the decision and its fallback |
| `LimitedRequests` | the endpoints and the counters each of them consumes, one after the other; all properties |
| `MCLimitedRequests` | an instance for TLC |
| `LimitProofs` | theorems about `LimitedRequests` |
| `ContentStore` | what is derived from contents, and requests with what their sessions have loaded |
| `Enrichment`, `Embeddings`, `Relationships` | the three services |
| `DerivedData` | the composition: all three and failures; all properties |
| `TextIndex` | the abstract specification of what embeddings promise to a search |
| `MCDerivedData` | instances for TLC |
| `DerivedProofs` | theorems about `DerivedData` |
| `RankFusion` | reciprocal rank fusion and the ranking of related contents |
| `CandidatePool` | the pool of candidates |
| `HybridSearch` | a request from its arrival to the pool, and how it is answered |
| `RerankingPipeline` | what happens to the candidates |
| `Search` | the composition; all properties |
| `ScopedSearch` | the abstract specification of a search |
| `MCSearch` | an instance for TLC |
| `SearchProofs` | theorems about `Search` |

The compositions share no variable, except that `OrganizationWorkspaces` extends
`Organizations` with all its variables and steps. `Identity` models accounts and
sessions in full and leaves organizations out; `Organizations` takes from it only that
an account can be anonymized under the lock of its row; `Workspaces` takes workspaces
as given; `DerivedData` takes contents as given, since nothing deletes one; `Search`
reads everything and relies on nothing that the others promise.

### How state and actions correspond to the code

A **request** `r` is one HTTP request, hence one SQLAlchemy session and one
transaction (`db.py`, `get_db`). `pc[r]` says where it is between two statements
that other transactions can come between, and `local[r]` what it has read.

- *Reads without a lock* are steps of their own: the row may have changed by
  the time the request uses what it read (`verify_credentials`, `reset_find`,
  `authenticate_session`, `authenticate_user`, `register_existing`).
- *`SELECT ... FOR UPDATE`* is a step that is enabled while the row is free and
  records the holder in `userLock`, `sessionLock` or `challengeLock`; the row is
  read after the wait, as READ COMMITTED does. `pg_advisory_xact_lock` on the
  e-mail is `emailLock`.
- *Writes* are invisible until the commit, so a transaction's writes are all
  applied in its last step, together with the release of its locks (`Finish`).
  A bulk `UPDATE` or `DELETE` waits for the rows that others have locked; the
  insert of a session waits for a request that holds its user's row, because the
  foreign key takes that row `FOR KEY SHARE`.
- *A refusal or an exception* rolls back: `Finish` with no write. A refusal at the
  first look at the database is not a step, since nothing was written or locked.
- *A transaction whose locks and writes come with no statement between them
  that another request could influence* is one step (`register`,
  `refresh_reuse`, `reset_request`).

Abstractions, with their reasons:

- A token, a CSRF secret or a challenge is the name of its row: hashes and random
  bytes only matter as values nobody else can present. A CSRF secret is issued
  with each refresh token and with nothing else, so it carries that token's name.
- The password is not in the state: a reset changes the password and
  `token_version` together, so a session's `version` says which password it was
  opened with.
- `used_at` and `replaced_by_token_id` are written by the same two calls and are
  one field. A family is a session, because only login starts one.
- A refresh token gets the lifetime of its session at the same time or later, so
  only sessions and challenges expire.
- The personal workspace is locked only by requests that hold its owner's row, so
  it is a field of the account. The personal organization and membership that
  provisioning also writes are changed by nothing else and are left out: the
  services of section "organizations" below refuse personal organizations.
- After an anonymization the e-mail address is free again; the account that
  registers it next is another element of `User`.
- No code stores the statuses SUSPENDED and LOCKED; they are left out.
- The rate limiter refuses a request before it reads anything: no step here, a module
  of its own (`LimitedRequests`).
- E-mail is sent after the commit and its failure undoes nothing: no step.

### Organizations

The same conventions hold, with these lock steps. A membership or invitation
request locks the organization (`lock_organization`), then the actor's membership
(`lock_actor`), then what it is about: `lock_target` and `protect_last_owner`, or
the invitation that `revoke_invitation` writes. An acceptance first reads its
invitation without a lock (`accept_probe`), then locks the organization, the
invitation and the users row, and decides in `join` or `join_rejected`.

- *The ORM's identity map.* A locked read refreshes an object only with
  `populate_existing`. The acceptance holds the object of `accept_probe` when it
  reads the row again, and `get_by_token_hash_for_update` has the option; the
  model keeps both (`probe` and the row), and a mutant leaves the option out. The
  other locked reads of these services find nothing in the map: it is weak, and
  the authenticator lets go of the rows it loads.
- *The membership service* locks the actor's membership and asks the policy
  afterwards; *the invitation service* asks the policy before it locks it.
  `actor_rejected` has both.
- *The owner rows* are locked one after the other by one statement, under the lock
  of the organization, which nobody can then take: one step.
- *`list_active`* reads under the same locks and ends the transaction by closing
  the session.
- *Expiry* is a flag of the invitation, set by `invitation_expires`; the check and
  the write of an acceptance have no statement between them that waits while
  another request could hold its row, so they are one step.
- *An account* has one e-mail address; an anonymized one has given it up, and the
  account that takes it over is another element of `User`. An `existing_user` is
  therefore found by its address only while it is active (`MembersAt`).
- *Left out*: nothing ever blocks a shared organization; a slug already in use
  ends `create` with nothing written; the first workspace `create` writes in the
  same commit, and the name, are in `OrganizationWorkspaces`.
- `Room` keeps a request that will insert a row from starting when all identifiers
  of the instance are given out or promised. It is a bound, not a guard of the code;
  the proofs do not rely on it.

### Workspaces

No request here locks a row before it writes, so what matters is which statement
sees which commit:

- `link_start` and `unlink_start` are the lookups; `link_create` and `unlink_delete`
  the flushed statements on `workspace_sources`. The new link, or the removed one,
  is only in `local` until the commit; others see `links` (`LinkedTo` is what the
  request itself sees). `link_create` waits for a request that has written the same
  link, and is refused if that one commits.
- The rebuild is three statements. `expected_content_ids` reads the contents of the
  linked sources; `replace_delete` takes the rows of the workspace that are committed
  when the DELETE starts, and `replace_deleted` ends a DELETE that had to wait for
  rows another request was deleting: rows that are gone by then are left out
  (`Forget`), rows inserted since are not seen; `replace` is the INSERT with the
  commit that follows it at once, refused by the primary key in `replace_rejected`.
- A Scout run has a transaction per source: `fetch`, then for each entry the check of
  the fingerprint (`entry_known`, `entry_new`) and the flushed INSERT (`entry_added`,
  or `entry_rejected`, which rolls back the entries of that source), then
  `source_commit`. Runs that wait for each other's fingerprints are broken up by
  `deadlock_victim`. `run_aborted` is the handler of an error that fails itself,
  because it reads the row of a source deleted meanwhile.
- `delete_source` is refused by the foreign key of `contents`, takes the links with
  it, and waits for those who hold the source's row or one of its links.
- *Left out*: a fetch is a set of entries or a failure, without its redirects and
  limits; sources exist from the start, and their editing and `enabled` flag are left
  out (a run may start with any set of them); blocking of a workspace by an
  anonymization; that a DELETE which waits has locked some of its rows already. The
  identifiers of links are used again only when no row and no request has them.
- *Histories*, which no guard reads: `stored` is what the source of a link had when the
  request began; `overtaken` whether another rebuild of the workspace was committed since
  the request read what to show, and `unsettled` the workspaces whose last rebuild was
  such a one. `Room` is a bound, as above, and so is `MaxSources`, on the sources of one
  run.

### Workspaces and names of organizations

A request that renames an organization, or creates or shows a workspace, resolves the
caller's role with plain reads (`resolve`), and acts in a later step that waits at
most for the lock of the organization: `update_name` takes it, the foreign key of
`create_shared` needs it, `get_accessible` reads. `held` remembers which
requests have been entitled to what they ask at some moment since they began. A step
of `Organizations` is a step here; founding also writes the name and the first
workspace. Names and workspaces carry no value that the others read.

### Rate limiter

A tick is half a second of the instance. `eval` is the Lua script, one step for
everybody else; `consume` is a call that is answered, `consume_unanswered` one whose
connection breaks before or after the script ran. `Order` is the order in which the
dependencies consume the counters of a request, `First` the one that is next and `Rest`
what is left after it; a refusal keeps those consumed before. `Policies` says which identities an
endpoint counts, with one definition per service whose dependencies choose them. Counts
beyond the limit are not told apart. `recent` is a history: who was let pass less than a window
ago, by age and by number in the window that counted the request. All policies of the code share one window, and all are
configured to fail open; `RateLimiter` has both modes. That Redis keeps its keys while
it cannot be reached is an assumption about its deployment.

### Derived data

A text is named by its state, with or without what the enrichment adds: no request
changes the title, summary or date of a content, and the enrichment derives the same
from them each time. A vector and a hash are named by the text they were computed of.

- *What a session has loaded* (`text`, `status`, `row` of `local`) is used until the
  session commits or rolls back, and a commit writes the columns that differ from what
  was loaded: `enrich_content` writes the status unless it was loaded as processed,
  `embedded` the hash unless the loaded row had it.
- *Embedding* is read the text (`read_text`), read the row (`read_row`), mark it stale and
  commit (`mark_stale`), read it again (`reload_row`), flush it as processing, which
  locks it (`flush_processing`), and store vector, hash and status when the provider has
  answered (`embedded`, `embedding_fails`).
- *Relating* is read the target, its candidates, its existing rows, and write
  (`store`). A row is a score and the distance in days that goes into it, so that an update
  is written when either differs, as `_relationship_changed` has it; the breakdown is a
  function of the two contents and of that distance. `lost` are the rows read that another rebuild
  has deleted since; an update of one fails (`store_fails`), a deletion of one is not
  missed. Candidates of one score are taken in the order of their identifiers, which are
  numbers here and random in the code: an order is all that matters.
- *History*: `overtaken` has the contents whose vector was stored by a request that had
  loaded an embedding which others had replaced by one of another text. No guard reads it.
- *Left out*: dry runs and lists, which write nothing. `Base` is what two contents have
  in common, which is computed from their texts; `Temporal` is computed as in the code.

### Search

A search writes nothing, and every statement of one sees what is committed at that
moment. So each statement returns any rows that the code's own conditions allow,
whatever an earlier one has returned: what enrichment, embedding, relating, linking
and unlinking do meanwhile is in that choice. The lists, the fusion, the
expansion and the pool are computed as the code does, on exact fractions. `scope` is
what the request may show: all contents, or those of a workspace when it was asked
for. `Responses` are indices in any number and order; the provider can refuse, time
out or be limited; each failure has the status the routers give it (`StatusOf`).

## 3. Runs

Bounds are the sizes of the sets in the `.cfg` files; the others are `Room` and
`MaxWorkspaces`, which keep requests from starting that would need an identifier the
instance does not have; `MaxSources`, how many sources a Scout run goes through;
`Enrichable` and `Embeddable`, which contents an instance lets be enriched and embedded;
`Most` in `RateLimiter`, beyond which counts are not told apart; and `OneEnding` in `MCOrganizations`, the constraint of `organizations_owners`:
at most one account is anonymized, membership revoked or invitation expired. `CHECK_DEADLOCK FALSE` stands where identifiers are finite, so that a run ends in
states where the server is quiet and no new row can be made: `identity_*`,
`organization*` and `workspaces*`. That requests do not get stuck is there a liveness
property. `derived_data`, `rate_limiter` and `search` are checked for deadlock.

| Run | Instance | States | Question |
|---|---|---|---|
| `identity_sessions` | 2 accounts, 2 sessions, 4 tokens, 1 challenge, 2 requests; login, refresh, me, logout, anonymize, both halves of a reset, expiry, failures | 297,930 | Does a session keep one chain of tokens with one live end? Is access granted only while live, lost for good and account by account? Does the code implement `SessionAccess`? |
| `identity_lifecycle` | 1 account, 1 session, 2 tokens, 2 challenges, 2 requests; all lifecycle endpoints, login, refresh, expiry, with fairness | 91,938 | Do challenges replace each other, is activation exact, does a reset count once, is anonymization final, does every request end? |
| `organizations_owners` | 3 accounts, 1 organization, 3 memberships, 2 invitations, 2 requests, all endpoints and faults; `OneEnding` | 459,162 | Is there always an owner, is nobody a member twice, is each change authorized when it is written, does an invitation count once, do requests wait in a cycle, does the code implement `OwnedOrganization`? |
| `organization_workspaces` | 2 accounts, 1 organization, 2 memberships, 1 invitation, 2 workspaces, 2 requests; everything but anonymization, with fairness | 297,141 | Is a rename, a new or a shown workspace for somebody who was entitled to it? Does every request about an organization end? |
| `workspaces` | 1 workspace, 2 sources, one with 2 entries, 2 links, 2 requests, runs over one source; deletion of sources, failures, with fairness | 322,848 | Does the code implement `WorkspaceView` however requests overlap? Does a new link show its contents, is what a run skips stored, does every request end? |
| `derived_data` | 3 contents of which 1 can be enriched and embedded, 1 relationship and 2 candidates for each; one request that enriches and relates, one that embeds and relates; failures | 584,432 | Does the code implement `TextIndex`, are relationships justified, is a rebuild exact? |
| `rate_limiter` | acceptances by one account from one address, limits 1 and 2, a window of 4 ticks, 2 requests | 285,684 | Are bursts bounded, waits honest, executions counted, and do counters end? |
| `search` | 4 contents, lists of 2 and 1, 2 seeds, a pool of 3, 1 or 2 results | 189,149 | Are rankings and the pool what they should be; is each reply complete; does the code implement `ScopedSearch`? |
| `derived_vectors`, `workspaces_unlinked_visible`, `identity_login_overtaken`, `search_pool_horizon` | the smallest instance that shows each; for the last, that of `search` | | Statements of the repository that the code does not keep (section 6) |

Why these are enough: a race here is between two requests on the same rows,
and one of them may run from start to end, or several times, between two steps of the
other. Two sessions tell "this session" from "the sessions of this account", two
accounts tell both from "all sessions". Four tokens allow two rotations of one session
while another session exists; two challenges are a consumed or replaced one and its
successor, or two that are issued at once. In an organization, two owners can race only
if somebody made the second one an owner; a third account lets an outsider join or be
removed meanwhile. Three memberships are a founder, one who joins, and one who joins
again or a second guest; two invitations are a replaced and a live one; a revocation or
a reissue can come between the two ends of an acceptance. Requests of different
organizations share only users rows, so one organization is enough. A workspace with two
sources can lose the contents of one while the other is linked; two entries of one feed
can be inserted in different orders, and a source without entries can be deleted; workspaces
share only contents, which they do not change, so one is enough; runs over both sources
pass as well (`MaxSources = 2`, 606,014 states) and are left out only for the time they
take; a link identifier more than there are links at a time lets one be written while
another is removed. A content that both requests embed while one of them enriches it, and
two that are enriched, with one relationship each, make a rebuild keep one pair, drop
another and meet a rebuild from the other side; the pair of the first two is seven and a
half days apart, so that its distance and its score depend on the side. A limit of one and one of two make
either counter the one that refuses; four ticks are a window in which the rounding to
seconds shows. In a search, four contents fill the two lists (three places), the
neighbours of two seeds and a pool that is too small for all; the limits keep the
proportion they have in production (section 6).

**Fairness.** `FairSpec` and `TenantsSpec` assume strong fairness of each request's own
steps, and nothing about requests starting, time or failures. The thread pool keeps
running a request it has begun; a request that waits for a row is in PostgreSQL's lock
queue, which is first come first served, so a lock that is released again and
again is not withheld for ever: that is why the fairness is strong. The deadlock
detector is part of `RequestStep` in `Identity` and, for Scout runs, in `Workspaces`,
since `deadlock_timeout` always elapses. `Organizations` has none: it needs none.
`LimitedRequests` assumes that time passes (`WF_vars(Tick)`) and nothing else. No
instance with fairness has a symmetry set. "Every request ends" is stated as `[]<>`
idle: a request that never began is idle as well.

**Properties.** They are stated in the composing modules (`Identity`, `Organizations`,
`OrganizationWorkspaces`, `Workspaces`, `LimitedRequests`, `DerivedData`, `Search`),
each with the behaviour it is about. Five are refinements:

- `ImplementsSessionAccess`: `access` and `owner` are read off the rows and must
  behave as `SessionAccess` says, whose actions know no locks, versions or rotation.
- `ImplementsOwnedOrganization`: the `roster` read off the membership rows changes by
  one person at a time and keeps an owner.
- `ImplementsWorkspaceView`: links and contents shown, read off their tables.
- `ImplementsTextIndex`: a content is `offered` by the vector that a search may use.
- `ImplementsScopedSearch`: one question, one reply.

Every property has a mutant: a definition named after the one it replaces
(`LockedForRefresh_Unlocked`, `renewed_Stale`, ...), with one plausible mistake,
under which TLC finds the property violated in the same run. The map of `PROJECT.json` names the
definitions that translate code; disjunctions of actions, sets of events, bounds and
histories have no entry, since they translate none.

## 4. Proofs

`IdentityProofs` proves, for any sets of accounts, rows and requests and any set
of events:

- `TypesAndLocks`: `Basic` is invariant, where `Basic` is `TypeOK` with
  `LocksAreHeld` (a request holds exactly the locks of the transaction it is in)
  and `RowsAreThere` (what a request has read still names an existing row; a
  session under rotation is unrevoked and its token live);
- `TypeCorrect`: the type invariant follows.

`TypeOK` alone is not inductive: `refresh_reuse` writes the session its token
points to, which must exist, and `reset_commit` and `refresh_rotate` write rows
they read in an earlier step, which stay there because they are locked. That is
what `RowsAreThere` and `LocksAreHeld` add. The proof has a lemma for each shape
of step (`ContinueBasic`: read on or take a lock; `CommitBasic`: write and end;
`RejectBasic`: end; `WriteBasic`: a transaction of one step), and a case for each
action that shows it has one of these shapes.

Assumptions: `StoreAssumption` and `RowAssumption` (NULL is not an identifier or
a reason, and an absent row is not a row), both evaluated by TLC in every run.

It also proves what the rotation of refresh tokens is for, on top of `Basic`: `OneLiveToken` (`LiveSessionHasOneLiveToken`), `TokensFormAChain`
(`RotationIsLinear`), `CsrfIsCurrent` (`CsrfFollowsRotation`) and `ReplayIsFinal`
(`ReplayEndsSession`). The four are proved as one inductive invariant: a rotation
keeps one live token because the token it replaces was the only one, and that token
is still live when the rotation commits because its session has been locked since it
was read. A revocation takes the session's tokens in the same step.

`AccountProofs` proves the other safety properties of `Identity` and that it implements
`SessionAccess`. The invariant is `AccountsSound`: `Basic`, with two more parts.

- `RowsAgree`: an account that has a session has been active, no session is ahead of
  its account's `token_version`, and an account that has a challenge exists. Without it
  a login that completes late could give access that a reset had taken.
- `Knows`: what a request has seen of its account and its challenge, and what is left
  of it by its next step. What it read without a lock only survives as far as accounts
  go forward (`Forward`: versions never fall, an anonymized account never changes);
  what it has locked stays as it was (`Spared`).

`AccountStep` lists what a step can do to accounts, sessions and challenges, ten things
in all, and `EveryStepAccounted` shows that each action does one of them and disturbs no
other request. From the list follow, one lemma each, `PrincipalsWereLive`,
`ChallengesReplaceEachOther`, `VersionIsResetCount` (where the assumption
`FiniteChallenges` comes in: a cardinality is counted), `ActivationIsByChallenge`,
`AnonymizedForGood`, `RevocationsAreScoped` and `ReasonsAreKept`. In
`IdentityImplementsSessionAccess`, `Opens` maps to `Open`, `Expires` and `Ends` to
`Withdraw` or to nothing, a reset and an anonymization to `WithdrawAll`, the rest to a
stutter.

`OrganizationProofs` and `OrganizationGuarantees` prove every safety property of
`Organizations`, for any sets of accounts, organizations, rows and requests:

- `AlwaysSound`: `OrganizationsSound` is invariant. Its core is `Checked`: a request
  past `accept_organization` holds its organization, and whatever it has checked
  (that its actor is a member, that the actor may do it to the target, that another
  owner remains) is still so. Nothing weaker is inductive: `protect_last_owner` counts
  owners in one step and `change_write` takes one away in a later one. It is kept
  because a step changes only memberships of an organization its request has locked
  (`RowsKept`), so it disturbs no other request (`OthersKeep`). `LocksAreNested` says
  that every membership and invitation row is locked under the lock of its
  organization.
- `TypeCorrect`, `AnOwnerRemains`, `MembershipsAreUnique`, `InvitationsAreUnique`:
  the invariants the runs check follow. That two owners are counted means that one
  is left when the target goes is where finite cardinalities come in, and with them the
  assumption `FiniteTables`.
- `LocksNeverCycle`: a request that waits for a membership or an invitation holds the
  organization, and so does the one it waits for, which is impossible; what remains are
  waits for an organization, which those hold who wait at most for a users row, and
  waits for a users row, which those hold who wait for nothing (`WaitsForUser`,
  `WaitsForHolder`). So no requests, two or more, wait in a circle.
- `ChangesAreAuthorized`, `InvitationsAreSingleUse`: the action properties, from a
  lemma that names the steps that write each table (`WhoWrites`).
- `ServicesImplementOwnedOrganization`: founding maps to `Found`, `join` to `Join`,
  `change_write` to `Change`, and every other step leaves the roster alone.

Assumptions: `OrganizationAssumption` (NULL and the absent row are nothing else)
and `FiniteTables` (a table has finitely many rows), both evaluated by TLC.

`OrganizationGuarantees` also proves two theorems about `OrganizationWorkspaces`:

- `TenantsHadAuthority` (`AuthorityWasHeld`): that a request which the policy has let
  through is in `held` is inductive (`TenantsSound`), since a request keeps what it
  asks until it ends and `held` keeps the request as long.
- `TenantsKeepOrganizations`: `TenantsSpec` implies `Spec`, so everything proved of
  `Organizations` holds of the whole.

`WorkspaceProofs` proves every safety property of `Workspaces` that holds, for any sets
of workspaces, sources, contents, links and requests, which overlap in any way:

- `AlwaysSound`: `WorkspacesSound` is invariant: `TypeOK`, what a request has read at
  each step (`Carries`), and that what it has computed covers what it is to show or
  store (`Covers`). Contents are never removed, so what was stored at the start of a
  link stays stored; the entries of a feed that a run is done with are stored or
  among those it has flushed.
- `TypeCorrect`, `LinksShowTheirContents` and `SkippedEntriesAreStored` follow.

The second part is about what overlapping requests can do to a view. A request that
another rebuild of its workspace overtook can leave contents there without a link
(section 6, finding 3); that is all:

- `ViewsStaySound`: `ViewSound` is invariant: a source is linked once (`UniqueLinks`),
  requests in flight write different links (`Separate`), every content shown is stored and,
  unless its workspace is `unsettled`, its source linked (`VisibleIsStored`), and a rebuild
  between its statements stays exact as long as it is not `overtaken` (`Exact`): it is to
  insert stored contents of the sources it sees linked, all that were visible among them,
  and has deleted all rows of its workspace. `VisibleIsStored` alone is not inductive, since
  `replace` inserts what `expected_content_ids` read two statements earlier.
- `SettledViewsAreLinked` follows: `VisibleIsLinked`, which `workspaces_unlinked_visible`
  finds violated, holds of every workspace whose last rebuild no other overtook, so that the
  next one left alone repairs what overlapping ones have mixed.
- `WorkspacesImplementView`: `replace` maps to `Relink` or, when it was overtaken, to
  `Overtake`; `source_commit` to `Publish`, `delete_source` to `Withdraw`, every other step
  to a stutter.

Assumption: `WorkspaceAssumption` (NULL is nothing else, a content has one feed),
evaluated by TLC.

`SearchProofs` proves, for any contents, lists, limits and scores:

- `AlwaysSound`: `SearchSound` is invariant. The lists, the pool and the results stay
  in the scope of the request (`ListsInScope`, `ResultsInScope`), and the results are
  complete (`ResultsComplete`). It is needed because no step looks at the scope or at
  repetitions again: `rerank` relies on the pool being a list of different contents of
  the scope, which `expand` and `filter_eligible` made it, and on the indices being
  those of all documents, which `Valid` has checked. What the operators on lists
  return is stated in lemmas of their own (`PartType`, `OnlyType`, `FuseType`,
  `BuildType`).
- `AnswersAreComplete` (`AnswerIsComplete`) follows.
- `SearchesAreScoped` (`ImplementsScopedSearch`): an arrival maps to `Ask`, a step that
  answers to `Reply`, `end` to `Leave`, every other step to a stutter.

- `AlwaysRanked`: `RankingsSound` is invariant: from the retrieval to the filter, a
  hybrid request keeps the lists its rankings were computed of. The four theorems about
  rankings rest on it and on what the operators compute:
- `FusionsRespectLists` (`FusionRespectsLists`): the place of a content in a list is its
  contribution (`ContributionOrder`), larger fractions have larger sums (`SumExceeds`),
  and what comes first in the order of scores is not cut off before what comes later
  (`CutKeepsOrder`).
- `GraphsPreferNearSeeds` (`GraphPrefersNearSeeds`): who has no less to do with the first
  `n` seeds for every `n`, and more for some, has the higher score, because a seed's
  weight is divided by its position: seed after seed, `n` times the lead in score is no
  less than the lead in nearness (`NearerScoresMore`). The score and the nearness are sums that the model writes as recursive functions; that
  each is its recursion (`Recursion`) and the induction along the seeds are argued by the
  least number for which they would fail (`NatLessThanWellFounded`).
- `PoolsAreFair` (`PoolIsFair`): the four parts of the pool put together are a prefix of
  either list, one of them within the other, no shorter than its share (`PoolShape`,
  `BuildShape`); all of the property follows from that shape (`BuildIsFair`).
- `GraphLimitsAreEnough` (`GraphLimitIsEnough`): related contents that were found as well
  are at most as many as there are results that are not seeds, so that what the limit
  leaves (`EnoughAreLeft`, `EnoughAreKept`) still fills the shares.

Assumptions: `ContentAssumption`, `RankAssumption`, `PoolAssumption` and
`SearchAssumption` (limits are positive, contents finitely many numbers), and for the last
theorem `ProportionAssumption`: `GraphLimit` is no less than the candidates that are not
seeds with the share of the graph, and no less than the pool less one. It is so of the
limits in the code (100 candidates, 20 seeds, a share of 20, a limit of 100). All are
evaluated by TLC. No assumption is made about scores or about what the statements return.

`LimitProofs` proves every safety property of `LimitedRequests`, for any endpoints,
identities, requests, limits and length of the window:

- `AlwaysLimited`: `LimitsSound` is invariant. A key exists as long as its counter
  (`CountersSound`); what a request has passed and has left are what its endpoint asks
  (`RequestsSound`); and for each key (`RecentSound`) the requests of the window that
  runs have the numbers up to its count, the first of them the age of the window, while
  of the window before, whose first request is older than a window, no number is there
  twice.
- `BurstsAreBounded` (`BurstIsBounded`): hence no stretch of a window's length lets more
  than `2 * limit - 1` requests pass. A bound on the number alone is not inductive: it
  takes the numbers to know that the first request of the window before is gone by
  the time the next window begins.
- `WaitsAreHonest` (`WaitIsHonest`): a refused key keeps its counter and its expiry until
  the wait is over, since only the request that counts 1 sets the expiry (`EvalIsHonest`).
  `Rounding` is what telling the wait in seconds costs: half a second.
- `NothingIsUncounted` (`ExecutedWasCounted`): an endpoint does its work when no identity
  is left, and what is not left has been passed.

Assumptions: `PolicyAssumption` (a second is an even number of ticks, limits are
positive), `EndpointAssumption`, `IdentityAssumption` and `KeyAssumption` (there is a key
for each identity that an endpoint counts), evaluated by TLC.

`DerivedProofs` proves every safety property of `DerivedData`, for any contents, events
and requests, which overlap in any way:

- `AlwaysDerived`: `DerivedSound` is invariant: `RowsSound`, `SessionsSound` and `LinksAreJustified`.
  That the relationships are justified is not inductive alone, since `store` compares
  what the request has read in earlier steps: its target and its candidates were enriched
  then (`SessionSound`), and a content that is enriched stays so. A status that a
  session has loaded is not newer than the row, which is why writing only the columns
  that differ does no harm (`EnrichmentIsSound`).
- `LinksAreAlwaysJustified` (`LinksAreJustified`) follows.
- `RebuildsAreExact` (`RebuildIsExact`): what a rebuild leaves is the set of the best
  candidates. The code sorts and cuts; the property speaks of a set that nobody outside
  beats. `OneIsBest` shows that there is exactly one such set for a strict total order
  (`BetterIsOrder`), `QualifiedIsBest` that the code's is such a set.

- `VectorsAlwaysSound`: `VectorsSound` is invariant: a row has no hash of an enriched text
  that its content does not have yet, and a completed row has the vector of its hash unless
  the request that stored it was `overtaken`. The hash alone is not enough: `embedded`
  writes it only when it differs from the one it loaded.
- `VectorsAreOfTheirText` (`VectorIsOfItsTextUnlessOvertaken`): `UsableVectorIsOfItsText`,
  which `derived_vectors` finds violated, fails for no other reason than that a generation
  stored its vector after another had replaced the row it had loaded.
- `TextIndexIsImplemented` (`ImplementsTextIndex`): `enrich_content` maps to `Rewrite`,
  `embedded` to `Offer`, `Overtake` or `Withdraw`, `mark_stale` and `embedding_fails` to
  `Withdraw`, each or a stutter, and every other step to a stutter.

Assumptions: `StoreAssumption` (contents are finitely many numbers), `NoneAssumption`
(NULL is nothing else) and `RelationshipAssumption`, evaluated by TLC.

## 5. Only model-checked, and not modelled

Model-checked only:

- `RequestsFinish` of `Identity` and of `Workspaces`, `EveryRequestIsAnswered` and
  `CountersEnd`: liveness under fairness, which is outside the prover's reach.

Every safety property, action property and refinement that a passing run checks is proved,
from assumptions on the constants alone: none says which requests overlap.

Not modelled, with the reason of each in `PROJECT.json` under `components`: the
cryptographic encodings, cookies, schemas, logging, telemetry, configuration,
middleware, the web application and deployment files (no state that a property here
depends on); e-mail delivery (a stub that runs after the commit); within modelled
components the lists and dry runs that only read, the redirects and limits of one
fetch of a feed, the editing of sources, and `GET /search/contents`, one statement.

## 6. Where code and documentation disagree

Each of these has a run that ends in the violation, and an entry under `findings`.

1. *A vector can be that of another text.* Two generations of one content overlap; the
   one that ends last has loaded a row whose hash the other has replaced since, and
   does not write its own hash because it has not changed. The record counts as usable
   with the vector of the old text. `derived_vectors`. Nothing else leads to it
   (`VectorsAreOfTheirText`).
2. *Anonymization can miss a login.* `login` reads the account without a lock,
   compares the password, and inserts the session later. If the anonymization
   commits in between, the account keeps an unrevoked session and a refresh
   token hash. They open nothing (`ImplementsSessionAccess` holds), but they are
   not removed. `identity_login_overtaken`.
3. *A link can bring back what an unlink removed.* Two overlapping requests of one
   workspace: the link reads its expected contents, the unlink of another source
   commits, the link inserts what it read. The contents of the unlinked source stay
   visible until the next link or unlink. `workspaces_unlinked_visible`. Nothing
   else leads to it (`SettledViewsAreLinked`).
4. *The pool is larger than the decision says.* `HybridSearchService` builds the pool for
   the number of candidates it fuses (`hybrid_search_service.py:148`), 100 with the default
   settings, so that H is 100 for every `top_k`. ADR-001, which is accepted and which
   `PreRerankingCandidatePool.build` names as its source, derives H from the public `top_k`
   (1 gives 20, 10 gives 50) and says that it is never exceeded. An integration test asserts
   the 100, so code and test agree with each other. `search_pool_horizon`: a search for one
   result reranks three candidates where the formula, with the constants of the instance,
   gives two. `PoolIsFair`, and its theorem `PoolsAreFair`, are about how the pool is filled
   in the room that the code gives it.

Observations made while modelling, which have no run of their own:

- A login that a password reset overtakes leaves a session of the old password that is
  not revoked (`auth_service.py:150`). Its access tokens are refused, because it
  carries the old `token_version`, but `refresh` goes on rotating it.
- The lock order stated at `account_anonymization_application_service.py:96` ("Global
  order: user row, personal workspace, then credential rows") has an exception:
  verification locks the challenge before the account. PostgreSQL breaks the cycle, and
  `identity_lifecycle` shows that requests still end.
- A reissue can follow a verification that commits while it waits, because the locked
  read returns the object read before (`registration_service.py:60`). The challenge it
  issues is useless.
- What the OpenAI client raises when its service does not answer is no `RuntimeError`
  (`openai_embedding_provider.py:12`), so a search answers 500 where it answers 503 for
  other failures of retrieval (`StatusOf`).
- The relationship score of two contents depends on whose relationships are rebuilt
  when they are not a whole number of days apart (`relationship_service.py:221`); the
  pair has the score of the last rebuild. `LinksAreJustified` allows both.
- The limit on related contents counts contents that were found as well and contents a
  workspace hides. For a search that may show everything it is just enough
  (`GraphLimitIsEnough`): 100, which is the pool's cap of 100, less 20 seeds, plus the
  share of 20. For a workspace, hidden neighbours can take the places of shown ones
  (`hybrid_search_service.py:141`).

## 7. Plan

Done: the modules of section 2, with the theorems of section 4. What is left, in this
order:

1. The editing of sources, when more than their `enabled` flag depends on it.
2. Theorems of `OrganizationWorkspaces` about names and workspaces, should a property be
   stated of them beyond `AuthorityWasHeld`.

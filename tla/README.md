# A verification of kun-galgame-patch

TLA+ models of the stateful core of the Go API (`src/apps/api`), TLC runs over small instances, and TLAPS
proofs. Paths below are relative to `src/apps/api/` unless they begin with `src/`. `PROJECT.json` maps every
definition to the lines it stands for, lists every hazard at its line, and names the mutant of the code that
each checked property rejects.

- [1. The system](#1-the-system)
- [2. Plan](#2-plan)
- [3. ActivityPush](#3-activitypush-the-outbox)
- [4. Members](#4-members-a-session-and-an-account)
- [5. ArtifactLifecycle](#5-artifactlifecycle-the-files-of-a-resource)
- [6. Followers](#6-followers-claims-verdicts-ratings-walls)
- [7. Requests](#7-requests-merges-decisions-inbox-uploads-favourites-permissions-links)
- [8. Services](#8-services-a-page-a-wall-a-room-a-feed)
- [9. What is proved](#9-what-is-proved)
- [10. What is only model-checked, and what is not modelled](#10-what-is-only-model-checked-and-what-is-not-modelled)
- [11. Findings and observations](#11-findings-and-observations)

## 1. The system

A site on which readers share patches for visual novels. The Go API keeps its own rows in PostgreSQL and its
sessions and caches in Redis; catalog (works), community (feed, comments, inbox), OAuth, the artifact service
(files) and trust are other services it calls, and whose feeds its crons read. What is hard here is not in any
one handler. It is that every part keeps a copy of something another part or service owns, updates it in
several calls that may each fail, and repairs it later.

| Component | State it keeps | Operations | What is hard | Correct when |
| --- | --- | --- | --- | --- |
| **Activity push** `internal/community/activitypush`, migrations 043 and 053 | `activity_push_queue`, `activity_push_sent`; community's activities | triggers enqueue; a 10s tick claims, resolves, pushes, records, acks; a daily reconcile | reads at different times, late writes, crashes between steps, two processes, two writers of the ledger | no change is lost; the feed never shows what never was; hidden content goes; the ledger is never ahead |
| **Sessions** `internal/middleware/session.go`, `auth.go` | Redis session and refresh lock | read, refresh under a lock, wait, write back, log out, revoke | rotation of the refresh token under concurrent requests; locks that outlive their holder | nobody is logged out by concurrency; nothing brings a session back; every request answers |
| **Artifact lifecycle** `internal/normalize`, `internal/repack`, edits in `internal/patch/service` | `patch_resource.artifact_uuid`, `patch_resource_normalize`, `patch_resource_repack`, its purge queue; the artifact service | edit, delete, claim, complete, fail, attach, withdraw, purge | edits read before their transaction, repeated completes, deletes queued for later | what is offered is stored; a done job is swapped; repacks follow their file |
| **Anchor presentations** `presentation*.go`, migration 045 | second outbox and ledger | triggers enqueue, a comment and a sweep enqueue what no trigger sees; tick; reconcile | a send accepted and not recorded; best-effort enqueues | every known wall ends presented as its page is, or withdrawn |
| **Catalog merges** `cron/catalog_merge_sync.go`, `patch/merge`, migration 052 | redirect ledger, merge records, pages | renumber, fold, flatten, revoke, undo, retry | chains, undos of re-pointed merges, replay of the feed's tail, undos that fail | every old number leads to the page that has its rows; an undo puts everything back |
| **Claim events** `cron/claim_event_sync.go` | cursor, processed ids, page visibility | read a feed, act, notify | overlapping and dying syncs; a resource landing during a ban | each event acts once; a banned page is hidden; no event blocks the next |
| **Catalog and deletion mirrors** `cron/catalog_mirror_sync.go`, `catalog_deletion_mirror.go` | cursor, verdict and deletion stamp of a page | drain a feed, ask, write, fill | an answer older than its write; pages created meanwhile | every page ends with catalog's verdict |
| Cron scheduler `cron/cron.go` | none | `SkipIfStillRunning` chains | a job that outlasts its period | one run of a job at a time in one process |
| **Community inbox** `community/inbox` | message rows by seq, cursor | sync, upsert, retract, read, forward reads | two syncs and a reader; a retraction overtaken by an older page | the newest version shows; a retracted message stays away; read stays read |
| **Ratings** `internal/rating` | local copies of ratings, cursor | write through, drain the feed | own write against a delayed feed | the copy ends as the original |
| **Trust enforcement** `trust/enforce`, migration 042 | ledger of decisions, per-subject watermark, the subject's own state | apply a disposition | redelivery, reordering, an adapter that acts before the commit | the newest decision is what is in force |
| Trust gate and reports | none | classify, report | - | - |
| **Uploads** `common/upload` | once-markers, owners, daily quotas | init, complete, abort, reserve an image, reset | a marker set before the effect; a counter against its limit; midnight | a stored upload is charged once; no day passes its limit |
| **Permissions** `permission`, `pkg/perm` | layers with their change log, a snapshot per process | edit, reload | two editors of one matrix; an older load over a newer one | saves are serial; a moderator never exceeds an admin |
| **Favourites and per-reader caches** `usercache`, `favorite`, `folder_membership.go` | values by generation; the counter of a game | toggle, set folders, fill, forget | a fill that began before the write; a refusal half way | a view after a write shows it; the counter follows |
| **Patch pages and resources** `internal/patch` | `patch`, `patch_resource`, likes, contributors, facets, counters; files and awards elsewhere | create, adopt, claim and delete a page; publish, edit, hide, like, delete a resource | a dozen writes after the first, none of them locked, beside another request's | counters and facets come to the rows; what is hidden stays hidden; a page has one owner; no file is offered that is gone |
| **Comments and awards** `internal/comment`, `pkg/moemoepoint` | the page's counter, contributors, cached balances, notices; posts and ledger elsewhere | post with a key, edit, delete, like, flag, purge | a retried key, a lost answer, a balance read twice at once | a press counts once; points and notices come to the posts |
| **Chat** `internal/chat`, its page | rooms, messages, history, reactions; the page's list and cursor | post, edit, withdraw, react, poll, scroll; move private rooms away | edits and withdrawals from one read; numbers that show late | a withdrawal stands; history and page have no gap; the moved copy is the last |
| **Change feed of the face API** `internal/face`, migrations 048 and 053 | `patch_resource_change` | triggers append; a cursor page; read one | transactions that commit out of order; a page that a trigger does not see | no change is skipped; a follower ends with what is public |
| **Store links** `internal/infrastructure/storelink` | table, memory, marks and queue per process | resolve, mint, refuse, halt, restart | a mark beside a channel | no mark outlives its product; what was refused stays refused |
| **Login and account** `internal/auth`, `internal/admin` | user row, sessions, tokens; what the account left | callback, logout, purge | an account at work while it is purged; steps that fail after OAuth has issued a token | every token is held or being revoked; a purge ends what it began with and nothing of others |
| Archive sweeper | listings by file | sweep | - | - |
| IM relay, users and follows, notifications, documents, other face reads, catalog client, rate limits, command-line tools, web front end | rows or none | CRUD, proxying, rendering | - | - |

Who talks to whom. Handlers write local rows; database triggers turn those writes into outbox rows in the same
transaction; loops started by `cmd/server` drain the outboxes; crons read other services' feeds, move local
rows, and so fire the same triggers; a reconcile compares both ends. letmoe's forge (external) claims files,
uploads zips and repacks and reports; the purge cron deletes what was queued. Every request passes the session
middleware first.

## 2. Plan

Written, in order of importance to the system:

1. `ActivityPush`, over the abstract `FeedMirror`; proofs in `ActivityPushProofs` (the outbox, the ledger,
   withdrawal, and the refinement).
2. `SessionRefresh`, composed with `Account` in `MCMembers`; proofs of both in `MembersProofs`.
3. `ArtifactLifecycle`; proofs in `ArtifactLifecycleProofs`.
4. What follows another service, composed in `MCFollowers`: `ClaimSync` (proofs in `ClaimSyncProofs`),
   `DisplayMirror`, `RatingMirror`, `AnchorPresentation`.
5. What races over the site's own rows, composed in `MCRequests`: `CatalogMerge`, `TrustEnforce`,
   `InboxMirror`, `UploadQuota`, `FavoriteShelf`, `RoleOverrides`, `StoreLink`; proofs of `CatalogMerge` in
   `MergeProofs` (and the types of all seven), of the other six in `RequestsProofs`.
6. What serves readers, composed in `MCServices`: `PatchPage` (proofs in `PatchPageProofs`), `CommentWall`,
   `ChatRoom` and `ChangeFeed` (proofs of these three in `ServicesProofs`).

No module declares a recursive operator, so all of them can be proved about. Left to TLC is what section 10 names:
liveness foremost, and what merges and undos promise once the site has followed catalog.

## 3. ActivityPush: the outbox

### State and actions

| In the code | In the module |
| --- | --- |
| `patch_resource`, its revision rows, `patch.published` | `row`, `published` |
| what catalog answers for the work | `catalog` (external), `unread`: events the crons have not read |
| `activity_push_queue` with `enqueued_at`, `backfill` | `queue`; `at = 0` is no row |
| `activity_push_sent` | `sent` |
| community's activities, and its notifications | `comm`, `notified` (external) |
| a call that failed here and may be applied there | `wire` |
| `RunOnce` (`drain.go`) | `Claim`, `ReadRows`, `ReadWorks`, `BuildItems`, `Write`, `Record`, `Ack`, `Fail`, `WriteLost` |
| `Reconcile` (`reconcile.go`) | `RecList`, `RecRecord`, `RecCompare`, `RecEnqueue`, `RecFail` |
| triggers of 043 and 053 | `TriggerEnqueue`, inside every writer's action |
| crons that hide and show a page | `SyncClaim`, `MarkIndexed` |

The three reads of a resolve are three steps: rows, then catalog, then revisions with the ledger. A tick is
local to a drainer; between any two of its steps anything else may happen. `mark` and `skipped` are history.

The versions of an item are numbers that only rise, so "older" and "never was" can be said of it.
`enqueued_at` is compared for order and equality with stamps that a row or a claim still holds, and nothing
else; `Enqueue` takes the least number above those. That keeps the numbers small, and every order of real
stamps is an order of these.

### Runs

| Run | Instance | Shows |
| --- | --- | --- |
| `push_core` | one drainer, the edit key, 2 changes, 1 fault | type; `HiddenIsWithdrawn`; `LedgerSound`; refinement of `FeedMirror` (`MirrorsTheSite`) |
| `push_overlap` | two drainers, the publish key, 1 change, 1 fault | `NoLostChange` and its inductive invariant `FreshnessInv`; `NoBackfillNotice`; `NoOrphanTombstone` |
| `push_live` | fair, one drainer | `EventuallyMirrored` |

`FeedMirror` is the promise without queue, ledger or reconcile: a feed that may lag and may mix fields read at
different moments, but shows nothing the source never had, takes no field back and withdraws nothing that was
public throughout.

Bounds. One resource and one of its keys: keys share nothing but their resource, the queue's batch limit and the
tick. What several of them could do to each other is left to the theorems of §9, which hold for every number
of keys and every limit. `MaxChange` and `MaxFault` count writes and failures; a lost
update needs one change between two steps of a tick, and a late write one fault. `MaxRevision` 4 allows three
ticks after the migration's, which is one more than the longest such story (push, lose, push again); `Stamps`
1..6 is never exhausted with at most two drainers. Drainers are symmetric. The runs stop when the bounds are
used up, so they do not check deadlock.

Fairness. `drainLoop` polls until the process ends, so an enabled step of a tick is eventually taken; cron
fires the reconcile daily. Writers, failures and the claim crons have none. In `push_live` the revision bound
is 30, far above what the changes and faults left can use.

Limits, which the properties state:

- `HiddenIsWithdrawn` holds with one drainer. With two, A may have pushed a key and not yet recorded it while B
  claims the same key, now hidden, finds no ledger row, sends no tombstone and acks. The content stays in the
  feed until the daily reconcile (which `EventuallyMirrored` covers for one drainer).
- `MirrorsTheSite` also has one drainer: with two, the one with the later revision may have read first.
- `NoLostChange` says nothing of a work that catalog hid at some time (`dipped`): catalog's own changes fire no
  trigger, and the reconcile is what repairs those.

## 4. Members: a session and an account

`MCMembers` composes `SessionRefresh` with `Account`: they share no state, the variable `part` chosen in the
initial state names the one that runs, and state spaces add up instead of multiplying. `SessionRefresh` is
extended; `Account` is an instance whose parameters are those of `MCMembers`, so that theorems about `SpecOfOne` hold
for all of their values.

### SessionRefresh: one session, many requests

| In the code | In the module |
| --- | --- |
| the Redis session, `lock:refresh:<id>` | `session`, `lockBy` |
| OAuth: current refresh token, grace, revoked | `oauth` (external; `src/docs/oauth/oauth-integration-guide.md` 4.5, lines 491-507) |
| `liveSession` | `Read`, `TryLock` |
| `refreshOAuthToken`, `requestRefresh` | `CallOAuth`, `Transient`, `LostReply`, `EndSession`, `WriteBack`, `WriteBackFails`, `Unlock` |
| `waitForRefreshedSession` | `PollLock`, `PollSession`, `WaitTimeout` |
| Redis failing | `StoreFails` |
| logout, a ban | `Logout` |

A token's lifetime is three epochs: fresh, about to expire (refreshed in the background), expired. An epoch and
the grace are longer than any request lives, which is what `NextEpoch` and `GraceLapses` wait for: the HTTP
client gives up after 10s, a waiter after 11s, and OAuth's grace is two minutes.

| Run | Instance | Shows |
| --- | --- | --- |
| `session_safe` | three requests, three epochs, one kind of fault | `NoSpuriousLogout`, `RefreshSettles`, `NoResurrection` |
| `session_live` | two requests, fair | `EveryRequestAnswers`, and no deadlock |
| `session_unsaved` | as `session_safe` | violated: see Findings |

Three requests are a holder, a waiter and a latecomer that read the session before the holder saved it; two
rotations are needed for a token to be older than the grace, and three epochs have room for them. A request
that is done may be followed by another, so the number bounds what is in flight, not what is ever sent.

Fairness. A request runs until it answers (weak, on its own steps). `WaitTimeout` is strong because the
deadline is real time: a poll is not always at the step that could time out, but it comes back to it. An
abandoned lock expires (Redis TTL, weak). Nothing is assumed of OAuth, of logouts, or of a lock whose holder
lives.

`faults` names what went wrong, kind by kind, and each property says which kinds it assumes away:
`NoSpuriousLogout` all of them, and so does the first half of `RefreshSettles`, that the saved token is the
current one when nobody holds the lock; the second half, that a waiter fails only if a refresh did, assumes away
only a lock that expired under its holder.
`NoResurrection` and `EveryRequestAnswers` assume nothing. Note that `src/docs/proj/session-lifetime.md` still
speaks of waiting 3 seconds and of `SET XX`; the code waits 11 and runs a script.

### Account: signing in, at work, purged

| In the code | In the module |
| --- | --- |
| `"user"` row, the page, `patch_resource`, sessions in Redis | `user`, `page`, `res`, `sess` |
| files, posts and refresh tokens elsewhere; revokes under way | `store`, `posts`, `tokens` (external); `revoke` |
| the callback | `SignIn`, `ExchangeCode`, `GetUserInfo`, `FindOrCreateUser`, `CreateSession`; `Refuse`, `Abandon`, `SignInDies` |
| logout | `Logout`, `DestroySession`, `RevokeOAuthToken` |
| what an account does meanwhile | `Publish`, `ProvisionUser`, `InsertStub`, `InsertResource`, `Comment`, `CreatePost`; `OtherPublishes` |
| `PurgeUser` of the admin | `PurgeUser`, `CollectUserArtifactUUIDs`, `PurgeAuthor`, `PurgeRows`, `SoftDeleteArtifacts`, `DeleteSession`, `ScanEnds`, `PurgeDies` |

`AccountKept` says: a token OAuth has issued is in a session or on its way to be revoked, or was given up by a
step that failed (`TokensHeld`); a purge that is done has ended the sessions it began with, and has left nothing
of an account that was not at work meanwhile (`PurgeEnds`); what others published keeps its page, owner and
file (`OthersKept`). The purge takes no lock and the account keeps its sessions until the last step, so `active`,
`left`, `stray` and `missed` name what may remain and no more. Bounds: two resources, one of which another user
may publish, two requests of the account at once, three sessions or posts, three requests of which one is the
purge, one failure. It is part of `session_safe`, which stops at its bounds and checks no deadlock.

## 5. ArtifactLifecycle: the files of a resource

| In the code | In the module |
| --- | --- |
| `patch_resource.artifact_uuid` | `res` |
| the artifact service | `store` (external) |
| `patch_resource_repack`, `patch_resource_normalize`, `patch_resource_repack_purge` | `repack`, `job`, `purge` |
| triggers of 047 with 050's guard | `Dropped`, `Queue`, `WithFile`, inside every writer |
| `UpdateResource`, `DeleteResource` | `ReadResource`, then `SaveResource` or `DeleteResource`, then `DeleteOrphan` |
| `Claim` with `describe`, `Fail` | `Claim`, `Describe`, `Fail` |
| `Complete` | `CheckComplete` (its reads), `Complete` (its transaction), `Discard` |
| `Attach`, `Withdraw` | `CheckAttach`, `Attach`, `Withdraw` |
| `Purge` | `PurgeClean`, `PurgeSelect`, `PurgeDelete`, `PurgeDrop`, `PurgeEnds` |
| the forge repeating a request; an operator's revert | `SendAgain`, `Revert` (external) |

Leases are not in the state: a lease may run out at any time, so any claimed file may be claimed again or given
up, which is every behaviour the counters allow and a few more. Visibility only keeps the forge from asking.

Three windows in the code are wide open, and the model names them in the history variable `stale`: an edit
saved over a file it did not read (`edit`), a revert while a purge has the original in its batch (`purge`), an
artifact deleted and its queue row dropped between the check and the transaction that installs it (`product`).
`Hit` says which of them a run may hit. The properties below say that there is no fourth.

| Run | Instance | Shows |
| --- | --- | --- |
| `artifact_safe` | three artifacts, one edit at a time, two workers, batches of one, no window | `OfferedIsStored`, `RepackFollowsFile`, `OriginalIsRetired`, `DoneIsFinal` |
| `artifact_stale_edit` | one worker, the `edit` window | violated: see Findings |

Three artifacts are an original, and two among a replacement, two rival products, and a repack with the one
that supersedes it or is promoted over it. Two workers let two completes of one source race, a late report meet
a done job, and a replay meet its own first attempt; `SendAgain` repeats any request. A batch of one loses no
story of the purge: the window between select and delete is as long as one likes. Artifacts and workers are
symmetric. 30 days (`FallsDue`) pass only while no request is between its check and its transaction.

## 6. Followers: claims, verdicts, ratings, walls

Four components each keep a copy of what another service owns and are driven by its feed. They share no state
with one another, so `MCFollowers` is their disjoint composition: the variable `part`, chosen in the initial
state, names the component that runs, and the others stay as they start. State spaces add up instead of
multiplying, and one run, `followers_live`, asks each its own question. The bounds are in its cfg and in the
`INSTANCE ... WITH` of `MCFollowers`. `AllFollowed` says of each that it ends where what it follows is: the four state predicates below
it hold from some time on. `ClaimSync` is extended because theorems are about it, the others are instances.

| In the code | In the module |
| --- | --- |
| **`ClaimSync`**: catalog's claims, their events, `cron_state`, `claim_event_processed`, `patch.published`, notices | `claim`, `log` (external), `cursor`, `processed`, `public`, `notices` |
| `RunClaimEventSync`, `applyClaimEvent` | `Seed`, `Fetch`, `SkipEvent`, `RecordEvent`, `ApplyEvent`, `Die` |
| `MarkIndexed` of the repository | `MarkIndexed` (its snapshot), `Indexed` (its write) |
| **`DisplayMirror`**: catalog's works and their feed, `patch.content_limit`, `catalog_deleted_at` | `work`, `listed` (external), `page` |
| `RunCatalogMirrorSync`, `applyDisplayVerdicts`, `clearRestoredPages`, `markDeletedPages`, `fillUnmirroredPages` | `Fetch`, `Hydrate`, `WriteLive`, `Ask`, `Stamp`, `EndPage`, `HydrateUnmirrored`, `Fill`, `Fail` |
| `ensureLocalPatch` | `LookUp`, `CreatePage` |
| **`RatingMirror`**: NextMoe's ratings, `galgame_rating` | `rating` (external), `row` |
| `PutRecord`, `Delete`, `writeThrough`, `Drop` | `PutRecord`, `PutNoRating`, `Record`, `Get`, `Delete`, `WriteThrough`, `GiveUp` |
| the drain of `/v2/ratings/changes` | `Fetch`, `Apply`, `EndPage`, `Fail` |
| **`AnchorPresentation`**: patch, resource and work behind a wall, `anchor_presentation_queue`, `anchor_presentation_sent`, community's store | `patch`, `res`, `work`, `queued`, `sent`, `comm` |
| `RunPresentationsOnce` | `Claim`, `ReadResources`, `Build`, `Write`, `Record`, `Ack`, `Fail`, `WriteLost`, `Land` |
| triggers of 045; a comment; `PresentWalls` at start; `ReconcilePresentations` | `EnqueueIf` in the writers; `Comment`; `Restart`; `RecList`, `RecCompare` |

| Property | Says | Leaves out, by name |
| --- | --- | --- |
| `NoticedOnce` | overlapping, dying syncs and a watermark moved back tell a submitter once | - |
| `BannedStaysDown` | a processed ban keeps the page down whatever resources land | an UPDATE already under way when the ban commits (`spoilt`) |
| `AllFollowed` | from some time on, the four below | - |
| `EventsFollowed` | the watermark reaches the end: no event holds back the next | - |
| `MirrorsCatalog` | every page ends at catalog's verdict, stamped exactly if deleted | a page inserted after its work's deletion has passed (`late`) |
| `MirrorsRatings` | the copy ends equal to the original | a copy a late write-through spoilt behind the watermark (`behind`) |
| `PresentationsFollow` | every wall this site or community knows ends presented as its page, or withdrawn | - |

What a property leaves out is a window that is really open in the code; the history variable marks exactly the
states it can reach, so the property says that there is no other. Section 11 lists them.

Bounds. `ClaimSync`: one work, four events, two syncs, one death: submit, approve, ban, unban is the longest
story of a claim, and works share nothing but the feed. `DisplayMirror`: two works, pages of one, so that the
watermark moves and the tail is replayed; two changes, so that a work can move between question and write and
again. `RatingMirror`: three ids, so that a rating can be deleted and made anew twice; two calls; pages of one.
`AnchorPresentation`: one wall (walls share only their batches) of either kind, two changes, one fault;
`MaxRevision` 8 is above what they can use up.

Fairness. The crons fire for ever and one at a time or not, some run of an enabled step is taken: weak fairness
of the components' steps (`OneWorks`), and its own for the daily reconcile of the walls (`Reconciles`), which is
always enabled and would satisfy a common condition alone. Nothing is assumed of readers, writers, failures
or of other services. The runs end at their bounds, so they do not check deadlock.

## 7. Requests: merges, decisions, inbox, uploads, favourites, permissions, links

Seven components whose steps race over rows, counters and caches of this site, composed in `MCRequests` in the
same way; `TrustEnforce` is extended, the others are instances, and what `RequestsProofs` is about takes its
parameters from those of `MCRequests`, so that the theorems hold for all of their values. One run,
`requests_safe`, checks the safety of all seven; calls, and page views, are symmetric.

| In the code | In the module |
| --- | --- |
| **`CatalogMerge`**: `patch` with children and `patch_redirect`; `patch_merge_record`; catalog's redirects feed | `db`; `records`; `into`, `at` (external) |
| `RunCatalogMergeSync`, `applyRedirects` | `Fetch`, `Pass`, `Follow`, `FollowFails`, `Revoke`, `EndPage`, `Crash` |
| `Begin`, `Fold`, renumber, `Finish`, flatten | `Begun`, `Folded`, `Renumbered`, `Finished`, `Flattened`, inside `Follow` |
| `revokeRedirect`, `Undo`; the administrator's retry | `Revoked` over `UndoOne` with `Undone`; `Retry` |
| **`TrustEnforce`**: `trust_disposition_applied`, `trust_subject_watermark`, `patch_resource.status`, rows that edits have read | `applied`, `mark`, `status`, `edits` |
| `Apply` and the handler's answer | `Deliver`, `Replayed`, `Superseded`, `Claim`, `Act`, `Commit`, `Fail`; the owner's switch and deletion `Toggle`, `Delete`, and `UpdateResource`: `ReadRow`, `SaveRow` |
| **`InboxMirror`**: `user_message`, the feed cursor | `row`, `cursor` |
| `Sync`, `upsertMessage`, `deleteMessage`; `MarkAsRead`, thread reads and their forwarding | `Start`, `FetchPage`, `ApplyPage`, `Stop`; `MarkAsRead`, `OpenWall`, `MarkThreadRead`, `ForwardRead` |
| **`UploadQuota`**: Redis owner and once-mark, `daily_upload_size`, `daily_image_count` | `owned`, `marked`, `used`, `images` |
| `InitUpload`, `Complete`, `deductQuotaOnce`, `Abort`, image reservation, midnight reset | `InitUpload`, `Complete`, `MarkCompleteOnce`, `Deduct`, `DeductNot`, `UnmarkComplete`, `DeleteOver`, `Abort`, `DeleteAborted`, `ReserveDailyImage`, `ImageStored`, `ReleaseDailyImage`, `Midnight`, `MarkExpires`, `OwnerExpires` |
| **`FavoriteShelf`**: catalog's folders; `favorite_count`; generations, slots and flights of `usercache` | `folders`, `holds`; `count`; `gen`, `slot`, `flight` |
| `ToggleFavoriteInCatalog`, `SetPatchFolders`, `defaultFolderID`, `moveFolderItems`, `settleFavoriteSideEffects`, `Forget` | `Toggle`, `SetPatchFolders`, `ReadHolding`, `FindDefault`, `CreateDefault`, `PutItem`, `DeleteItem`, `Refuse`, `Settle`, `Forget`, `Die` |
| `Slot`, `Fetch`, `Store`, `shelf` | `Open`, `Peek`, `Fetch`, `Filled`, `WalkAll`, `StoreWalk`, `Expire`, `GenExpires` |
| **`RoleOverrides`**: `role_permission_override`, `permission_change`, `perm.current` | `stored`, `trail`, `loaded` |
| `Matrix`, `ApplyRoles` under the advisory lock, `Load` | `ReadLayers`, `ReadVersion`, `Judge`, `Write`, `RollBack`, `Refresh`, `Load`, `LoadFails` |
| **`StoreLink`**: `dlsite_store_link`; `links`, `queued`, `bad`, `halted` and the channel of a process | `table`; `links`, `queued`, `bad`, `halted`, `queue` |
| `Resolve` with its non-blocking send; the minter; `Start` | `Resolve`, `Mark`, `SendOrForget` of `Send` and `Drop`; `Take`, `PurchaseLinks`, `MarkBad`, `Halt`, `Store`, `Remember`, `Release`; `Restart` |

| Property | Says |
| --- | --- |
| `RowsKept` | at any moment of any chain of merges and undos, whichever of them fail, die or are retried, a row on no page was deleted by its owner or is in the record of the fold that dropped it for its twin; and the rows keep the constraints of the database, so that no undo fails on them |
| `UndosRestore` | once the site has followed them and no undo is left failed, every row is on the page of its work, or of the one that is merged into (`RowsHome`), and what pages counted is counted once (`ViewsConserved`) |
| `RedirectsSound` | between any two transactions no redirect leads to a redirected number without a page; once followed, a merged-away number leads to the work it is merged into |
| `NewestRules` | a subject shows what a decision says that is at least as new as the newest applied to it (but for `torn`) |
| `InboxSettled` | with the watermark at the end, messages show the newest version, read if that was read, gone if retracted (but for `raced`, `missed`) |
| `QuotasHeld` | one charge per file and mark; the day holds what was charged in it, within the limit; images within theirs (but for `strays`) |
| `ShelfFollows` | a view begun after a request ended shows its writes; the counter ends on whether the game is held, where requests did not overlap or die |
| `SavesSerialised` | saves start from the layers the one before left, and replace those that their editor saw, unless another save came between the layers and the version it read; a moderator holds nothing an admin does not |
| `LinksKept` | a product is marked as queued exactly while it is in the channel, with a request or with the minter, and once; a refused product is not asked for again, a halted minter asks for nothing; what is shown is in the table |

Bounds. `CatalogMerge`: three works make every chain A into B into C, with a page that may be missing at the
end; two pages at the start allow a fold, a renumber and a bare ledger row; three actions of catalog are
merge, merge, undo or merge, undo, merge; two joins of one user are twins. `Turn` lets catalog touch a work
again only after the site has followed its last change, and with pages of four the watermark never passes the
tail: both keep out faults of the code that section 11 describes, and the properties hold only within them.
`TrustEnforce`: one subject, three decisions, two calls, any number of failures: locks and watermark are per
subject. Edits have read the row with one status, and save it any number of times and however late: with the
statuses a decision leaves, that is every stale save there is.
`InboxMirror`: two folds, three updates, two syncs with pages of one. `UploadQuota`: two files of which one
fills the day, two calls, one image a day. `FavoriteShelf`: two folders, two requests, two views.
`RoleOverrides`: one permission that separates the roles, an admin and ren on different processes, two saves.
`StoreLink`: two processes on one table, two products in a channel of one, so that a send meets a full channel
between mark and send of another; four pages read, one restart, three calls of the store.

## 8. Services: a page, a wall, a room, a feed

Four components that readers meet, composed in `MCServices` in the same way: `ChangeFeed` is extended, the others are
instances whose parameters are those of `MCServices`, so that theorems hold for all of their values. `page_safe` is about the page and `services_safe` about the
other three (the constant `Parts` says which components a run is about); calls and resources are symmetric.

| In the code | In the module |
| --- | --- |
| **`PatchPage`**: `patch` with its counters and facets, contributors, `patch_resource`, likes; files; the ledger | `page`, `contrib`, `res`, `liked`; `store`; `owed`, `paid` (external) |
| create, adopt, claim, delete a page | `CreatePatch`, `RegisterClaimedGalgame`, `InsertPage`, `Adopt`; `DeletePatch`, `ListArtifacts`, `ErasePage`, `SoftDeleteArtifacts` |
| publish, edit, delete a resource | `CreateResource`, `InsertStub`, `InsertResource`, `MarkIndexed`, `EnsureContributor`, `CountContributor`; `UpdateResource`, `SaveResource`; `DeleteResource`, `RemoveResource`, `DeleteArtifact`, `Uncount` |
| counters and `RecalculatePatchAggregates` | `Count`, `Gather`, `WriteFacets` |
| like, disable, moderation; awards in the background | `ToggleResourceLike`, `WriteLike`, `SettleResourceLike`; `ToggleResourceDisable`, `ToggleResourceStatus`; `Moderate`; `Award` |
| **`CommentWall`**: the posts and the ledger; `comment_count`, contributors, cached balances, notices | `post`, `liked`, `paid` (external); `count`, `row`, `contrib`, `mirror`, `notices` |
| create, with `Created` against a replayed key; delete; like; edit; flag; purge of an author | `CommentOnAnchor`, `Create`, `CountReplays`, `Bump`, `EnsureContributor`, `CountContributor`; `Delete`, `DeletePost`, `Drop`; `SetLike`, `React`; `Update`, `EditPost`, `Look`, `Tell`; `Flagged`; `PurgeAuthor`, `AuthorPurge` |
| `Adjust` and the balance it caches | `Adjust`, `Balance`, `Cache` |
| **`ChatRoom`**: rooms, messages with history, reactions; the page of `pages/message/chat` | `room`, `msgs`, `next`, `reactions`, `seen`; `view` |
| requests, each a read and a write | `StartPrivate`, `FindOrCreatePrivateRoom`, `CreateMessage`, `Insert`, `Commit`, `UpdateMessage`, `WriteEdit`, `DeleteMessage`, `SoftDelete`, `ToggleReaction`, `WriteReaction`, ... |
| first load, poll, scroll; the deploy with `CHAT_ENABLED`, the old process going, infra's import | `LoadLatest`, `PollNew`, `LoadOlder`; `MovePrivateChats`, `Killed`, `Import` (external) |
| **`ChangeFeed`**: resources, pages deleted, transactions with their ids, `patch_resource_change` | `row`, `gone`, `tx`, `log`, `nextXid`, `nextSeq` |
| triggers of 048 and 053 in any transaction | `Insert`, `Update`, `Delete`, `Stamp`, with `Told` and `ToldUnlessHidden`; `Commit`, `Rollback` |
| the feed's page and the read of one resource; a follower | `ListChanges`, `GetResource`; `cursor`, `todo`, `copy` |

| Property | Its parts |
| --- | --- |
| `PageKept` | `CountersSettle`, `LikesSettle`: when requests are over, counters, contributors, facets and likes come to the rows, and no award is taken back that was not given; `FilesFollow`: a file offered is stored, and outlives its row only for a named cause; `HiddenStays`: what moderation hid is hidden until it is restored; `OneOwner` |
| `WallKept` | `CountSettles`: a press counts once however often it is retried; `LikesPaid`; `MirrorSettles`: the cached balance is the ledger's; `ToldOnce` |
| `ChatKept` | `MovedAgrees`: nothing changes a private room after it has been copied with no request open (`late`); `WithdrawnStays`; `TrailWhole`: the history has every text in order; `PageWhole`: the page has no gap |
| `FeedGapless` | what the cursor has passed has been answered, in whatever order transactions commit |
| `FeedFollowed` | and a follower that reads each resource again ends with what is public; the last change written for a resource says whether it is |

The windows the code leaves open are named by history variables that these properties subtract: for a page
`askew`, `raced`, `torn`, `left`, `unpaid`; for a wall `askew`, `unpaid`, `overlap`, `doubled`; for a room
`late`, `overtaken`, `crossed`, `skipped`; for the feed `overlapped`, `muddled`. Section 11 says what they are.

Bounds. `PatchPage`: two users and two resources of two facets, so that a page has another contributor, another
resource and another facet left after each removal; two requests at once, three in all, one failure; it starts
without a page, with a stub, or with a page that has one resource. `CommentWall`: two presses, each with its
retries, two requests at once, four in all, one answer lost or request dead. `ChatRoom`: a private room or a
group of two, a moderator and the reader; two messages, pages of one, so that polling and scrolling both take
several calls; four requests, of which two overlap. `ChangeFeed`: two resources on two pages, two transactions
open at once, pages of one, three changes: the later number commits first, and the feed must wait for it.
All four only move forward within these bounds, so the runs stop and check no deadlock.

## 9. What is proved

`ActivityPushProofs`, by TLAPS, for every set of resources and drainers, every batch limit and every bound,
from `ConstantAssumption` alone (the kinds of key, and the bounds being numbers):

- `TypeCorrect`: `Spec => []TypeOK`, one step per action.
- `Freshness`: `Spec => []FreshnessInv`.
- `OutboxLosesNothing`: `Spec => []NoLostChange`.

The argument. `NoLostChange` says that an empty queue means a current feed. It is not inductive: whether a key
is up to date depends on items in flight, on the wire, and on a queue row that an ack is about to delete. The
history variable `mark[k]` is the clock when a trigger last enqueued `k`. A tick stamps its revision when it
claims, before it reads; so a revision above `mark[k]` was stamped after the last local change of `k`, and
whatever was read under it is current. `FreshnessInv` says this of each place in turn: reads (`ReadsFresh`),
items (`ItemsFresh`), the wire (`WireFresh`) and community (`FeedFresh`); that a claim whose row has not moved
has such a revision (`ClaimsFresh`); that once written, a higher one stays (`WrittenIsThere`), since community
only replaces a revision by a greater; and that this is still so when the row is gone (`SettledIsThere`). The
last with `FeedFresh` is `NoLostChange`. A resource enqueued again gets a new mark and a stamp later than any
claim's, which is why `enqueued_at` must be `clock_timestamp()` and must move on conflict: with either changed,
`ClaimsFresh` fails, and TLC shows a lost change in `push_overlap`.

The proof needs no bound on drainers, so it covers a deploy that overlaps with any number of processes.

The second part of `ActivityPushProofs`, about the ledger, from the same assumption:

- `LedgerIsSound`: `Spec => []LedgerSound`.
- `TombsAreNeverFirst`: `Spec => NoOrphanTombstone`, an action property.
- `BackfillIsSilent`: `Spec => []NoBackfillNotice`.
- `HiddenLeavesTheFeed`: `Spec => []HiddenIsWithdrawn`, for one drain loop.

The argument. Both writers of the ledger hold an answer of community for a while before they write it. `LedgerInv`
says of each that what it was told is still there or superseded (`AcceptedThere` for a tick, `ListingBehind` for
the reconcile); the ledger then cannot be ahead. `TombsFollow` carries "community has stored this key" with every
tombstone, from the ledger through the item to the wire, and `NoticeInv` does the same with "a trigger has
enqueued this key" and the flag that asks for a notice. `HiddenInv` is the largest: while no call has failed, what
is live there and hidden here is queued, claimed, or on its way as a tombstone. It needs `OneDrainLoop`
(`\A d, e \in Drainers : d = e`), the hypothesis of that theorem: a process has one drain loop, and there are two
only while a deploy overlaps. With two the property is false (section 3), so the hypothesis cannot be dropped.

*The mirror*: `FeedMirrorsTheSite`, `Spec => MirrorsTheSite` for one drain loop: `ActivityPush`
implements `FeedMirror` under the mapping of `ActivityPush` (the source is `row` and `catalog`, the feed `comm`).
Every step of the push is a step of the mirror or a stutter. What the mirror forbids is to show a field older than
the one shown; so `MirrorInv` says that a tick's reads, its items and what late calls carry are behind the source
and ahead of whatever an earlier tick left (`ReadsBehind`, `ItemsBehind`, `PastBehind`, `TickAhead`), and that a
tombstone on its way stands for content that really lapsed (`HeldWasLive`, `ReadsLapse`, `TombsLapse`). Here too
two drainers break it for a while: the one with the later revision may have read first.

`MembersProofs`, of the session, for every set of requests and every bound, from the module's assumption alone:

- `NobodyIsLoggedOut`: `Spec => []NoSpuriousLogout`.
- `RefreshesSettle`: `Spec => []RefreshSettles`.
- `GoneStaysGone`: `Spec => NoResurrection`, an action property, whatever fails.
- `TypeCorrect`: `Spec => []TypeOK`.

The argument. A request presents the token it read *before* it had the lock, and by then another may have rotated
it. `Calm`, the heart of `SessionInv`, says that this can have happened once and no more: a token just saved
expires two epochs on, so a request that read the one before it is either in the grace of the rotation or long
answered. `OneHolder` says who holds the lock and where, `Issued` that nothing saved is newer than what OAuth has
issued, and `Waits` that a waiter which has not seen a refresh end has one to wait for. The clause about the
waiter's last look (`polled`, lock not seen, nothing missed: its session is there) is why `waitForRefreshedSession`
must look at the lock before the session and not after: judged the other way round, a refresh that saved and released
in between would look like one that failed.

*The account*, from `AccountAssumption` (the bounds are numbers, and there is a sign-in), for every set of requests
of the account, of resources and of tokens, about `SpecOfOne` of `MCMembers`:

- `AccountIsKept`: `SpecOfOne => []AccountKept`.
- `MembersHaveShapes`: `SpecOfOne => []Shapes`, the types of both components.

The argument. A token that is in no session is with the one sign-in that bought it, on its way to be revoked, or
given up (`Owned`); a session whose token is no longer held is being signed out or was missed by the purge. `Quiet` is
about what the purge cannot see, requests of the account that began before it: once it has deleted the posts,
either somebody was at work since (`active`), or nobody is, and then each of its later steps leaves nothing. What
its scan of the sessions has before it is all that is left of those it began with. `Listed` says that the files it
sweeps are of rows that it deleted itself, so a file of another user or of a later resource is not among them, and
that every stored file has a resource, a purge that is about to sweep it, or a cause. `Homes` keeps the page of what others
published, unless the administrator asked for the account's pages to go as well (`owned`).

`ArtifactLifecycleProofs`, for every set of artifacts, editors and workers, from `ArtifactAssumption`, and
whatever windows are hit (the run hits none, the theorems allow all):

- `TypeCorrect`: `Spec => []TypeOK`: nothing ever names an artifact that was not stored. The argument goes
  through `Shape(K)`, the shape by the artifacts `K` that may be named: the steps that leave the store alone
  preserve it for the same `K`; the four that change the store only make `K` grow.
- `RepackFollows`: `Spec => []RepackFollowsFile`, which is inductive beside the shape: whoever writes the file
  goes through the trigger (`WithFileKeeps`), and `Attach` compares its source with the row it has locked. The
  same mutant that TLC refutes, an `Attach` that does not compare, is the step that would fail.
- `OfferedStaysStored`: `Spec => []OfferedIsStored`; `OriginalsAreRetired`: `Spec => []OriginalIsRetired`;
  `SwapsAreFinal`: `Spec => DoneIsFinal`. These are promised until a window is hit (`stale = {}`), with any
  number of edits, workers and artifacts.

The argument of the last three. A file is deleted by an edit that replaced it, by a complete that lost, or by the
purge; `LifeInv` says why none of them can meet a file that is offered. Whatever was built from a source was built
from that source only (`OneSource`) and never enters the forge itself (`BuiltIsProduct`); an edit's upload is its
own until it is saved (`UploadIsOwn`); what an edit is about to delete has no way back (`OrphanIsGone`); what is
offered is not in the purge's queue (`PurgeIsQueued`); what a request was told is stored is (`CheckedIsStored`).
Each of the three windows breaks one of these, `PurgeIsQueued`, `CheckedIsStored` and `DoneIsSwapped`, and by
the proof there is no other way to break them. The proof corrected a property: `OriginalIsRetired` used to promise beyond the
windows that no product is claimed by the forge, and two stale edits in a row break that; both halves of it are
now promised until a window is hit. Nothing changes for `artifact_safe`, which hits none.

`RequestsProofs`, for every value of the parameters of six of the seven components of `MCRequests`. A theorem says of
`SpecOfOne` what the run checks of it: one component moves, the others stay as they start, and a step of any
other leaves the invariant alone.

*Dispositions*, from `TrustAssumption` (the bounds are numbers), about `TrustEnforce`'s own `Spec`:

- `NewestDecisionRules`: `Spec => []NewestRules`.
- `EnforceTypeCorrect`: `Spec => []TypeOK`.

The argument. `NewestRules` is lost at once without the locks: two calls of one subject could both have passed
the watermark, and the older act last. The inductive invariant is `TypeOK` with `Exclusive` (calls that hold
rows do not conflict), `Ahead` (a call that holds the subject's row carries a decision newer than its
watermark, until it commits) and `InForce` (between the adapter's act and the commit the subject obeys that
decision, which is not yet the watermark's). A failure after the act rolls back the watermark but not the act:
the subject then obeys a decision newer than its watermark, which is why the property says "at least as new"
and why infra's retry, or any newer decision, finds nothing to repair. `OwnerObeys` says that the owner's
switch and deletion break no decision. An edit that saves a row it read before can: it brings back a hidden, a
shown or a removed resource as it was. `SaveInv` shows that such a save breaks a decision only where more than the owner's
switch was at the row in between (`Switched`), and there the subject is `torn`, which `InForce` and the property
leave out, until a decision is enforced on it again.

*Purchase links*, from `ProductAssumption` (the sign of no product is no product): `LinksStayKept`:
`SpecOfOne => []LinksKept`, for any products, readers, queue size and number of restarts. The argument is about
places. `OnePlace` says that in each process a product is with one request that has marked it, or once in the
channel, or with the minter, and `MarkedOnly` that exactly those products are marked: a request whose send finds
the channel full keeps the product until it takes the mark back. `RefusedIsKnown` says that what the store refused is remembered as
bad, or is about to be by the minter that still has it, and `LinkIsStored` that memory shows what the table holds.

*Permissions*, from `BaselineAssumption` (what a moderator may do by default, an admin may: `pkg/perm`):
`SavesAreSerial`: `SpecOfOne => []SavesSerialised`. Any number of editors may have judged their changes by the
layers of any process; what makes saves serial is `SavingIsCurrent`: under the advisory lock, the one save between
judgement and write judged by the layers and the version that are stored. So an editor whose version is still the
stored one, and who saw the layers of that version, replaces what it saw.

*The cached shelf and the counter*, from `ShelfAssumption` (folders are told by numbers, requests are finitely
many): `ShelfFollowsWrites`: `SpecOfOne => []ShelfFollows`. A shelf is never taken out of a slot it was not put
into, so the argument is about slots. `SlotShows(g, n)` says that whatever is in slot `g`, in flight for it, or
walked to be put there shows `n` writes; `SlotsServe` says so for each view of what that view has to see, and for
the generation in Redis of what the next view will. `Forget` moves on to a generation whose slot is empty
(`FlightsAreFills`), which is what `GensCounted` is for: a generation is given out for a request that has ended.
`genTTL` is safe because, by the time it lets the number fall back to 0, every slot has run out and nothing is in
flight. The counter needs an invariant of its own, `CounterFollows`: while requests do not overlap and none dies,
a request that moves knows where the game is (`held = holds`) and what the counter said before (`was`), and the
counter says what it said until it is settled.

*Uploads*, from `UploadAssumption` (sizes and limits are numbers, files and calls finitely many): `QuotasAreHeld`:
`SpecOfOne => []QuotasHeld`. `ChargeInv` says that the one call that may charge a file holds its mark and that the
file is not charged yet: SET NX lets in no second one, a mark is given up uncharged, and it does not expire under
a call. `ImageInv` counts an image stored or on its way against the day's counter and the strays. `DayInv` is
about a sum: the day's counter is the sum over all files of what was charged for each. `MapThenSumSet` of the
community modules is a recursion over sets, and the library's induction theorems have operators for parameters,
which the provers cannot take. `EveryNumber` and `EveryPart` say the same of sets, from a least counterexample
(`LeastNumber`); `TotalsAddUp` builds the recursive function part by part, and `TotalGrows` says what one charge
does to the sum.

*The inbox*, from `InboxAssumption` (there are notifications, finitely many; the page size and the bound are numbers):
`InboxSettles`: `SpecOfOne => []InboxSettled`, for any number of notifications and of overlapping syncs and any page
size. The argument starts from the seqs: a version has its own, a row shows one of its fold's versions, and a row at the
newest shows no retraction (`Versions`). `Carried` says that what a page holds was true of its fold, and each fold is on it
once; `Complete`, that between where a page was read from and its last seq it leaves no fold out. So whatever is
behind the watermark has been written (`Caught`), unless the recipient was unknown then (`missed`); and a
retraction behind it stays, because no other sync holds an older version of that fold, unless one did when the retraction
was applied (`raced`). `Complete` needs that a sync reads on from no further than the watermark, which is what writing the
page and the watermark in one transaction gives. That the feed has an order at all is `NumbersInOrder`, by ranks.

`MergeProofs`, of the seventh component, from `MergeAssumption` (works are finitely many positive numbers,
the rows at the start are on pages at the start, one per page and peer; bounds are numbers), for every number of
works and rows, chains of any length, and however many undos and ticks fail or are retried:

- `RowsAreKept`: `SpecOfOne => []RowsKept`.
- `UndoInverts`: a merge that is undone before anything else happens to its pages leaves no trace. The work gets back its
  page, its counters and its external id, every row with the twins that the fold dropped, and the redirects that were
  flattened; the survivor is as it was; and nobody is asked to look at it. It covers folds, renumbers and bare ledger rows.

The argument for the first. Every transaction, of a merge or of an undo, leaves a database that is `Sound`: a row is on a
page that is there, no two join rows of one peer are on one page, and no external id is on two. `Sound` survives an undo only
because a record is `Recorded`: of the rows that it may put back no two clash, because it took them all from one sound
page, and the external id that it gives back to the survivor is the one the merge left there. So `MergeShape` types
records as a sequence of such records, and an undo keeps what it is given whatever happened to the pages since. A
row leaves every page only as a twin in a fold, whose record names it from then on; no undo forgets that (`Since`, kept
through the recursion of `UndoneFrom` over the open records). `Forest` says that catalog's merges have no cycle,
so that a merged work always leads to another (`CurrentIs`): the drain is never told to fold a page into itself, which
would delete it.

The argument for the second. `AfterIs` says what the transaction of a merge leaves, `FoldInverts`,
`RenumberInverts` and `LedgerInverts` follow the undo through it step by step. For a fold: taking the retired page's
counters off the survivor gives the old sum, the external id of the survivor is what the merge left and so goes back,
which frees the one of the retired page; every row that was moved is on the survivor, which is an allowed page, or on none and
recorded as dropped; and the retired page is empty, so no row finds a twin there. What the
theorem does not say, and `UndosRestore` does within the bounds of the run, is what comes back after other merges moved
the same rows in between.

The module ends with the types of all seven, from the assumptions of all of them and `BoundAssumption` (bounds are
numbers): `RequestsHaveShapes`: `SpecOfOne => []Shapes`. What the types add to the invariants above is small but not
free: a queue of links never holds more than `QueueSize` and a trail of saves no more than the saves that were begun,
one at a time (`LinkBounds`, `RoleBounds`); no version of a notification is past its bound (`InboxBounds`); a folder that is told, asked
for or held was made (`FoldersMade`); and the generations of the cache are bounded because each was made for a request
of its own (`ReadersPinned`).

`ServicesProofs`, of the feed, for every set of resources, pages and transactions and every page size, from
`FeedAssumption` (pages have positive numbers; resources are finitely many, since a deleted page writes one change for
each):

- `NothingSkipped`: `Spec => []FeedGapless`.
- `FollowingIsEnough`: `Spec => []FeedFollowed`.
- `FeedTypeCorrect`: `Spec => []TypeOK`.

The argument. `FeedGapless` alone is not inductive: a commit could put a change before the cursor. The inductive
invariant adds `OwnChanges` (a transaction's changes carry its id) and `Behind` (the cursor's id is below that of
every open transaction and of every one to come). `ListChanges` keeps `Behind` because it stops before the oldest
open transaction, `Begin` because ids only rise; and what a commit adds is then after the cursor. With `ListAll`,
a page that does not stop there, `Behind` fails, and TLC shows the change that is skipped.

`FeedFollowed` adds what a follower may conclude. `FollowInv` says that a transaction tells what it writes or stamps
(`WritesTell`, `StampsTell`), so that where the follower's copy differs it has something to read or the feed has a
change ahead (`Behindhand`). That the *last* change tells whether the resource is public (`LastWord`) needs that
numbers are drawn in the order of the commits; for a resource that is not `muddled` they are, because one
transaction at a time has to do with it (`OneAtATime`), by its row lock or by the page's. For the others the code
makes no such promise, and the property claims none.

*The wall and the room*, about `SpecOfOne` of `MCServices`, from `ServicesAssumption` (requests are finitely many, the
two who may share a private room are users, there are users and facets, bounds are numbers), for every number of
users, requests, posts and messages and every page size of the room:

- `WallIsKept`: `SpecOfOne => []WallKept`.
- `ChatIsKept`: `SpecOfOne => []ChatKept`.
- `ServicesHaveShapes`: `SpecOfOne => []Shapes`, the types of feed, wall and room, with the counter of a wall within
  what was ever counted.

The argument for the wall. `comment_count` is wrong nearly always while requests are at work; what matters is that it
is wrong by what they still owe. A request that deleted posts and has yet to take them off knows only how many, so
the invariant must say which: `Owes(D)` gives each request a set of posts of that number, all deleted, none of them
given to two; the counter and the posts that some request is about to count are then the live posts and those sets.
`Balanced` says that there is such a `D` until a request dies between its post and the counter (`askew`). A post is
counted by one request and once (`CountedOnce`), because only the answer that created it has `Created`; retries have not.
`Paying` follows a like from `React` to the ledger, and with it why an unlike never takes back what was not given;
`Mirrored` says that of an account whose balance no two requests read at once, the one that has read it holds the
ledger's, so that it caches the right one.

The argument for the room. `Withdrawn` says that an edit which read a message before it was withdrawn is the one way
back, and `overtaken` names it. `Trails`: a text written later has a greater number, so the history of a message
is rising unless two edits crossed. `Moved` keeps a moved room as it was copied: the switch refuses every request that
would begin, so a copy taken with none open is taken with nobody at work; and a request of the old process that is cut off writes
nothing (`KilledSteps`). `NoGap` is about the reader: between the ends of the list no message is missing, and before it none if the
list says that there is no more. What a listing returns is `InOrder`, a choice among sequences; `ListedInOrder`
gives each message its rank, the number of those up to it, and so shows that there is one to choose. A greatest or a
least message of a page exists because finite sets are well founded (`FirstExists` and the lemma before it).

`PatchPageProofs`, from the same assumption, for every number of users, requests, resources and facets:
`PageIsKept`: `SpecOfOne => []PageKept`.

The argument. Publishing is a dozen writes without a lock, so each part of the inductive `PageInv` says what is still
to come of them. While the page stands and no request has died half way (`askew`), `Counted` says that
`resource_count` with the requests about to count is the number of rows with the requests about to uncount, and
likewise of contributors; `Hearted` says the same of the likes of each resource. `Faceted`: who changes a resource
gathers the facets afterwards and then writes them, so when nobody is changing or gathering, whoever is about to
write has the facets of the rows as they are, and once nobody is, so has the page; unless two of them crossed between gather and
write (`raced`). `Earned` follows an award from the request that asks for it through the queue to the ledger: an award
is taken back only after it was given. `Filed` names for every stored file the row, the request about to delete it, or
the cause for which it was left; and that `DeleteArtifact` and the sweep of an erased page delete files whose rows are gone, or
`torn`, is in `Placed`: a row that came back under the delete is the stale save of an edit, and has that name.
`Owned` keeps one owner: whoever finds a page does not create it, only a stub is adopted, and only its owner is given
the award. `PageBounds`
is for the type: each request raises a counter by one at most. The parts need one another: that a
deleted resource is uncounted once needs `Placed`, and that an unlike finds a like to take off needs `Hearted`.

`ClaimSyncProofs`, for every set of works and syncs and every number of events and deaths:

- `ToldOnce`: `Spec => []NoticedOnce`.
- `BansHold`: `Spec => []BannedStaysDown`.
- `RecordedInOrder`: `Spec => []Gapless`: between two recorded events no event with an effect on the same work
  is missing.

The argument. Nothing keeps two syncs apart, and the one that is behind moves the watermark back. What cannot
happen is that it moves past an event nobody dealt with: `Ordered` says that everything behind the watermark, or
behind the place of any sync, is recorded, without effect, or of a work with no page anchor, and that of one work
the events are recorded in their order. A work loses its anchor for good (`Batches`: a later sync takes no erased
work for anchored), which is what keeps an event that one sync passed over from being recorded by another behind a
newer one. So an event that is being applied is the last of its work, and `LatestState` is its state from then on.
`Told` ties a notice to the record written in the same transaction, and `Landed` says that a resource which judged
the page fit did so under no ban.

## 10. What is only model-checked, and what is not modelled

Only checked by TLC:

- liveness (`EventuallyMirrored`, `EveryRequestAnswers`, `AllFollowed`) and with it everything about fairness and
  `ENABLED`, which are outside the prover's reach;
- `HiddenIsWithdrawn` and `MirrorsTheSite` are theorems for one drain loop; with two they are false;
- `TypeOK` of `ClaimSync` bounds a count of notices by the number of syncs: the theorem `ToldOnce` is sharper;
- `RedirectsSound` and `UndosRestore` of `CatalogMerge`. That one undo inverts its merge is a theorem; that chains of
  merges and undos interleave well is true only within the bounds that section 7 gives (section 11 says what lies beyond
  them), and there it would be an induction over the sequence of records;
- the shapes of `MCFollowers`, the types of components whose promise is a liveness property (`DisplayMirror`,
  `RatingMirror`, `AnchorPresentation`); theirs are instances with the values of that run.

One action is worded for the prover: `Advance` of `ClaimSync` names the rest of the batch once instead of nesting
`EXCEPT`, which says the same.

Left out of the modelled parts: the clock going backwards (a revision is the host's clock; the code has no
guard, see the hazards); several resources in one page beyond what the keys share; texts, names and sizes; the
session's sliding TTL, its CSRF token and role checks; passwords, renames, comments and daily caps of the forge;
accounting for every upload of the forge (a second worker's product is leaked when its job is already done); the
counts and facets that `Recount` rebuilds from children; the mapping of a fold to a message and its link;
an edit that is sent again with an upload which another edit has replaced since; that a publish does notify: of
the backfill flag the property says when a notice is wrong, not when one is missed, for a row keeps no other record of who enqueued it;
ratings that move with merged works; the other subjects of trust; overrides of single users.

Not modelled at all: the components that `PROJECT.json` lists so, each with its reason: no state of their own,
single-row CRUD, reads, proxying or pure mapping. Share of the code: the models stand for about a seventh of the
implementation's 47,000 lines. About a third of those lines are generated clients, hand-written HTTP clients,
command-line tools whose migrations have run, and DTOs; most of what remains is handlers that read a row and render
it, or write one row in one statement, where there is no second actor and no state between steps for a model to
tell apart. A definition there would repeat the SQL. What has several steps, several actors or another service's
copy is modelled, and there the share is near whole: the lines of `catalog_merge_sync.go`, `undo_pages.go`,
`enforce.go`, the two outboxes or `claim_event_sync.go`.

## 11. Findings and observations

Findings have a run of their own, which TLC must find violated:

- `session_unsaved`. When the write-back of a rotated token fails, the log line says that a later request
  refreshes again. That is so within OAuth's grace. After it the stored refresh token is refused, the chain is
  revoked and the session deleted: the reader is logged out by one failed Redis write.
- `artifact_stale_edit`. An edit that changes only a name saves the whole row it read. A swap that commits in
  between is undone, the original is offered again, and because its job is done it is never offered to the
  forge a second time; the product belongs to nobody. The same stale save can bring back a file that another
  edit has replaced and deleted.
- Without a run of its own: `src/docs/specs/2026-09-15-bot-submit-lane.md:110` says that the purge deletes
  nothing that is some resource's file. Between its select and its delete it may: the window `purge`.

Observations are windows in the code met while modelling. Each is left out of a property by name, or kept out by
a guard of the environment, so that the rest could be shown. Those with a name in brackets the model
shows: without the exclusion, or the guard, TLC finds the property violated. The others are read off the code.

- Merges: X is merged into A and A into B before a drain runs. Catalog's row for X already names B, X is folded
  straight into B with a single record, and undoing A later leaves X's rows and redirect on B (`Turn`).
- Merges: once the watermark has passed a row of the feed, the undo of A can list X, re-pointed, before A's own
  revoke; it is skipped as already there and X's redirect stays on B (`PageSize`).
- Claims: `MarkIndexed` reads the latest event and writes the page in one UPDATE; when the transaction of a ban
  holds the row, the UPDATE waits and then publishes with the events of its older snapshot (`spoilt`).
- Ratings: a write-through that comes after the drain has passed the change it carries, and a later one, leaves
  the copy stale until the rating changes again (`behind`); the comment at `internal/rating/service.go:232` has
  the mirror job bring it within minutes.
- Inbox: a retraction removes the row and with it the seq; an older page another sync still holds inserts the
  message again (`raced`). Forwarding a read by id marks a newer, unseen version of the fold read.
- Mirrors: a page inserted after its work's deletion has passed on the feed is never stamped (`late`).
- Merges: undoing a renumber takes the page at the survivor's number, also one created there since, with the
  counters folded into it; a redirect re-created since is re-pointed; a resource inserted between a fold's move of
  the children and its delete of the page is deleted with it.
- Claims: a ban whose submitter is unknown is recorded and does not take the page down
  (`internal/infrastructure/cron/claim_event_sync.go:184`).
- Uploads: a second complete that meets the once-mark answers success for a file the first then deletes as over
  quota; a death between mark and charge leaves a file uncharged; a reservation given back after midnight is
  taken off the new day.
- Favourites: two hearts pressed at once may both count; two shelves seen differently give two default folders.
- Permissions: `Matrix` reads the layers and then the version in two statements (`permission/service.go:135, 139`), so
  a save in between hands its version out with the layers before it, and the editor's next save replaces layers it
  never saw (`seen` and `version` differ).
- Dispositions: `UpdateResource` reads the row at `patch/service/service.go:537` and at line 640 saves every column of it,
  the status among them. A decision enforced in between is undone: a hidden resource is live again, a restored one
  hidden, and a removed one, or one its owner deleted, is inserted again by an edit that changes no field, since only an
  edit with changes inserts a revision that refers to the row. It stays so until the next decision on it (`torn`).
- Merges: what catalog does to redirects into a work that is merged on, or whose merge is undone, is described twice. The
  test at `catalog_merge_undo_db_test.go:483-487` has it re-point and refresh them, so that they are listed
  again; the older comment at `catalog_merge_sync.go:353-356` has it leave `merged_at` alone. `Restamp` follows
  the test, which a handler for re-points was written for; the flattening that the comment explains is modelled as it is.
- Presentations: a send that community accepted and this site did not record leaves the wall unknown here; when
  its page is then hidden no tombstone is sent until the daily reconcile, which mends the ledger first.
- Pages: `UpdateResource` undoes here, too, what happened to the row since it read it: likes, a switch, a
  hide, a deletion (`torn`). The likes of a row are given up as well when one is taken off a counter that stands at
  zero, or when a request dies before it has counted its own.
- Pages: counters are moved after the row has committed. A delete may count down before the create has counted
  up, and is clamped at zero; a request that dies in between never counts; one that is slow settles on the next
  page or stub with the same number; and a row that a stale save brings back was counted down (`askew`).
- Pages: two requests gather the facets, each of the rows it sees, and the older one writes last (`raced`).
- Pages: a file stays in the store for good if its resource was posted between the list of files and the erasure of the
  page, or if the list or the delete of it fails or the process dies before it (`left`). An award that fails or is
  not reached is not given later (`unpaid`).
- Walls: community stores a comment and the answer is lost, or the process dies before the counter: the retry is
  answered as a replay and nobody counts it, nor a deletion so interrupted; a deletion may count down first and
  is clamped; a purge counts the visible posts before it purges what is there by then, the held ones with them (`askew`).
  The comment at `comment/repository/repository.go:31-35` says that the write path keeps this counter true.
- Walls: a like whose award is lost is paid for when it is taken back: the author is a point short (`unpaid`). Two
  answers with a balance may be written in the opposite order (`overlap`). Two edits that add the same mention both
  look for a notice before either has written one (`doubled`).
- Rooms: an edit that read the message before it was withdrawn writes EDITED over it, although
  `chat/service/service.go:132` refuses to edit a withdrawn one (`overtaken`). Two edits that overlap put one
  text twice into the history and lose the other (`crossed`).
- Rooms: ids are drawn before a message commits, and the page appends the reader's own post as it is answered: what its
  cursor has passed by then is missing until the page is loaded again (`skipped`).
- Rooms: a request of the old process may write after the import has read its room (`late`); that is what
  `docker-compose.prod.yml:89-95` has the import run again for, once the old process is gone.
- Feed: a resource written while another transaction stamps its page is seen by neither trigger (`overlapped`). One
  that is written on a page deleted before, or being stamped, may have a last change that says the wrong thing about whether it is
  public; a follower that reads the resource is told right (`muddled`).

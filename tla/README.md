# StrumSight: a formal model of its core protocols

StrumSight is a Flutter app (`lib/`) with a FastAPI server (`backend/`). Most of
its 5000 files are screens, signal processing, content and tests. What this
directory models are the parts whose correctness is a matter of *order*: a
microphone that several features share, posts that are retried over a network
that loses answers, sign-ins that outdate each other, files that do not commit with
their rows, and requests to clubs, challenges, the social graph, the inbox and the
moderation queue that read, decide and write while others do.

    tlc -workers 2 -config MCPostService.cfg MCPostService     # a run
    tlapm MicSession_proofs.tla                                # a proof

## 1. Inventory

| Component | State it keeps | Operations | Interacts with | What is hard | What makes it correct |
|---|---|---|---|---|---|
| **Post service** `backend/app/community/services/post_service.py`, `routers/posts.py`, `models/post.py` | table `community_posts` with the unique index (author, idempotency key), soft deletion, `updated_at` as version | create (idempotent), patch (optimistic concurrency), soft delete | clubs (membership gate), media (attachment), the publishing client (HTTP) | one thread and transaction per request, statements interleave, processes die after the commit | one live post per key; a 201 is backed by a row; no lost update; no dead end |
| **Microphone session** `lib/core/audio/lifecycle/*`, `mic_capture.dart`, `capture/audio_capture_factory.dart` | the active lease; per owner a lease, a capture, a start in flight, a stop flag; the platform stream | start, stop, revoke on background | engines and recorders (callers, `onRevoke`), app lifecycle, the platform plugin | everything awaits: a start can be overtaken by a stop, a second start, a revocation; platform calls throw | one owner at a time; no capture without a lease; no stream nobody closes; background frees the microphone |
| **Publishing client** `lib/features/community/application/controllers/post_composer_controller.dart`, `application/outbox/community_outbox.dart`, `data/local/community_draft_store.dart` | composer state, one draft per user on disk, a persisted queue of records | edit, submit, discard; enqueue, drain | post service, key-value store, auth | lost answers, kills between steps, a composer that is closed while it awaits, text edited between retries | no false success; text is not lost; no double post; every submit ends |
| **Media pipeline** `backend/app/community/media/*`, `routers/media.py` | upload rows, files named by content, attachments | upload, attach, release, delete | post service | files and rows do not commit together; references are counted, then acted on | a row that is left alone has its file and the other way round; a post keeps its media, all its author's; the quota holds up to the requests in flight |
| **Media upload** `services/media_upload_service.py` | intents with a state machine, bucket objects | intent, put, finalize, cancel, sweep | object store | finalize, cancel and sweep race; what is done to the bucket is not rolled back | a finalized row has its object; a cancelled one has none |
| **Auth session** `lib/features/auth/providers/auth_providers.dart`, `core/network/auth_interceptor.dart`, `core/storage/` | generation of the current operation, token in memory and in the secure store, a queue of store mutations | restore, login, register, logout, 401 | every authenticated request | operations overlap and outdate each other, the secure store is slow and may fail, 401s come late, kills | the last operation decides what is shown and stored; only a refused token ends its session; every operation returns |
| Resource arbiter `lib/core/resources/resource_arbiter.dart` | registered consumers and their suspension | request, release, memory pressure | nobody yet | awaits between check and grant | no two active consumers of one tier |
| **Clubs** `services/club_service.py`, `club_content_service.py`, `routers/clubs.py`, `policies/club_permissions.py` | clubs with owner and creation key, membership rows with roles, invitations and join requests, pins | create, update, join, ask, invite, answer, leave, remove, promote, demote, transfer, pin, unpin | post service (gate, pinned posts), block service | guards read, the write comes later, nothing is locked: stale roles, caps, statuses | one owner, who is a member; idempotent creation; entry by invitation; caps hold up to the requests in flight |
| **Social graph** `services/follow_service.py`, `block_service.py`, `routers/social_graph.py`, `routers/safety.py` | follows, requests with a status, blocks, privacy | follow, unfollow, accept, decline, remove, block, unblock | feeds, privacy, notifications | a block or an unfollow racing a follow or an answer | nobody is followed without consent; a block severs what it finds |
| **Comments, reactions, inbox** `services/comment_service.py`, `reaction_service.py`, `notifications/*`, `routers/notifications.py` | notification rows that aggregate bursts, reactions, the pages a device has | comment, react, ask to follow, page, mark read | social graph, blocks, posts | aggregation into a row read before; pages over rows that move | one entry per burst; nothing lost between pages; what is read stays read |
| **Challenges** `services/challenge_invite_service.py`, `challenge_verification_service.py`, `policies/integrity_policy.py`, `routers/challenges.py` | the challenge's window, invitations, participants with their best value, result rows | invite, accept, decline, cancel; submit (replay, policy chain, first-wins claim); end | block service, clubs (a club's challenge) | conditional UPDATEs, unique indexes, rollbacks that take more back than the failed INSERT | one answer per invitation; one row per practice event; a first-wins value has its row |
| **Moderation** `moderation/case_service.py`, `routers/moderation.py`, `models/moderation.py` | cases with state, queue flag and appeal; an append-only audit log | open, signal, decide, appeal, resolve | posts (visibility) | requests decide on an old row and write single columns | the log explains the state; one appeal; the automation never releases |
| Reports, leaderboards, gamification, settings synchronisation | rows under unique constraints, a ledger | | | retries and counters | later |
| Audio analysis, DSP, vision, curriculum, tutor, practice, design system, tooling | numbers, content, widgets | | | | not for a model checker |

`PROJECT.json` lists the same components with their status, the hazards of this
code with the line at which each bites, and for each model definition the lines
it stands for.

## 2. Plan

1. `PostService` against the abstract `PostStore`. **Done, proved.** The
   promise every other part of the community features builds on.
2. `MicSession`. **Done, proved.**
3. `Publishing`, which composes the client with `PostStore`. **Done, safety
   proved.**
4. `Clubs`, `Challenges`, `Moderation`: the three services in which guards and
   writes are apart. **Done, safety proved.**
5. `AuthSession`: the generation counter, the token queue and the 401s. **Done,
   safety proved.** What is left of it are account switches in `Publishing`,
   whose queue is one per device.
6. `MediaStore`, `MediaUpload`, `Inbox`. **Done, safety proved.**
7. `SocialGraph`. **Done, safety proved.**
8. Left: `Clubs` composed with `PostService`, which gives `ClubGate` its meaning;
   account switches in `Publishing`, whose queue is one per device; clients of
   `MicSession` with an `onRevoke` of their own (`ClipRecorder`); the processing and
   review states behind `MediaUpload`; `SettingsSync`, `ResourceArbiter`, the ledger
   of experience points, reports.

Proofs left: none of a safety property that a run checks. Modules still to come bring
their own; the next refinement worth stating is that of `Publishing`'s server by
`PostService` itself, where today both are related to `PostStore` one by one.

## 3. Modules

| Module | Models |
|---|---|
| `Requests` | the threads, and the request each of them works on; the part that the modules of `Content_proofs` and `Social_proofs` share |
| `PostStore` | the promise: an atomic store with at most one live post per author and key |
| `PostService` | the service, cut at each SQL statement |
| `MicSession` | coordinator, leases, `MicCapture`, lifecycle guard, platform streams |
| `Publishing` | composer, draft store, outbox, network, kills; `INSTANCE PostStore` is its server |
| `Clubs` | clubs, rosters, invitations, pins; requests that decide and write later |
| `Challenges` | one challenge: invitations, participants, results |
| `Moderation` | cases, audit log, appeals; writes column by column |
| `AuthSession` | operations on the session, token queue, secure store, 401s, kills |
| `MediaStore` | uploads, deletions and attachments over rows, files and posts |
| `MediaUpload` | uploads through a signed URL over rows and bucket |
| `SocialGraph` | follows, requests and blocks of pairs of profiles |
| `Inbox` | one author's notifications, the handlers that fill it and the device that pages it |
| `MC...` | what TLC runs: the module with its symmetry |
| `PostService_proofs`, `MicSession_proofs`, `Publishing_proofs`, `Clubs_proofs`, `Challenges_proofs`, `AuthSession_proofs` | theorems about the module of that name |
| `Content_proofs` | theorems about `Moderation`, `MediaUpload`, `MediaStore` |
| `Social_proofs` | theorems about `SocialGraph`, `Inbox` |

The modules that share a module of proofs have disjoint names, so that both can be
extended: `MediaSpec`, `UploadSpec` and `InboxSpec` are the `Spec` of theirs. They are
not composed. Each theorem is about one specification; `job` and `requests` are the
same variables in all of them, and constrained by that one.

Definitions whose comment begins with "Mutant" or "A mutant" are not part of any
specification. Each is the neighbouring action with a plausible bug, kept to
show that a property notices it; `PROJECT.json` says which property.

### PostService and PostStore

`posts` is the committed table. A handler is a thread with a session; `pc` is the
statement it executes next, `req` its request, `row` the row its local variable
refers to, `cleared` a tombstone whose key it has flushed as NULL. Uncommitted
work is not a second copy of the table: it follows from `pc`, `row` and
`cleared` (`Inserted`, `Written`, `cleared`), and `Commit` applies it.
`Holders` is the unique index as a transaction sees it. PostgreSQL makes a
statement wait for a row lock or an undecided unique key of another
transaction; that is the guards with `LockedAgainst` and `KeyContended`
(READ COMMITTED, one statement is atomic).

`PostRequest` ... `Respond` follow `create_post`: club gate, probe, insert, and
after an IntegrityError the rollback, the second look, the tombstone, the
hand-over of its key and the second insert. `ReadTarget`/`WriteTarget` serve
both `patch_post` and `soft_delete_post`. `HandlerDies` is a killed worker or a
lost connection at any statement, before or after the commit. The clock is the
number of requests received; it stands for `datetime_now()` and is the version
clients send back, so two requests never share a timestamp.

`origin` is a history field: the key a post was made with, which the hand-over
does not change. With it the promise of idempotency can be stated about posts
rather than about a column.

Refinement: `Store == INSTANCE PostStore WITH board <- Board`, where `Board`
forgets key and version. `ImplementsPostStore` says that each commit publishes
one row whose author has no live post with that key, or retracts, or shows
nothing.

### MicSession

Dart runs one isolate, so the code from one await to the next is one action.
`holder`, `active`, `revoking` are the coordinator's `_active`, and the leases'
`_active` and `_revoking`; `lease`, `capture`, `stopReq` are the fields of
each `MicCapture`; `starting` and `granted` are where a `start()` in flight is and
what its local variables hold; `stops` is the set of `stop()` calls that wait
for the platform, each with the snapshot it took; `stream` is the device. A
revocation is a `stop()` whose snapshot names the revoked lease, because
`onRevoke` defaults to `stop`.

### Publishing

`composer`, `draft` are the controller's state and the draft document; `pending`
and `stored` the queue in memory and on disk; `queued` is a `submit()` that waits
for the outbox's tail future, `job` the one being worked on, `work` what it waits
for, `batch` the records its drain has still to send, `acked` what the report will
say. `wire` holds requests: one may be served long after the client gave up, or
never; an answer is lost when the client gives up before it. `Kill` leaves what
is on disk. `confirmed` is history: what the user was told is published.

### Clubs, Challenges, Moderation

A route opens a session, the service reads what its guards ask and decides, and
the ORM writes at the flush before the commit. The three modules share that
shape: an action `May...` holds every guard and puts what the request is going to
do into `job[h]`, the action of the operation writes and ends the request, `Abort`
is a crash, a constraint that nobody handles, or an UPDATE that finds no row. What
differs is what the write still checks, and that is where the code differs:

* `Clubs`: a unique index (creation key, invitation key, roster, pins), or the
  existence of a row. The ORM updates by primary key, so an UPDATE of a membership
  row that was deleted fails even if the profile came back with a new row;
  `job[h].rows` names the profiles whose loaded row is still the one in the table,
  and `DeleteMember` takes a profile out of it for everybody. `Transfer` does not write
  a role that was loaded as "owner": the ORM sees no change (`seen`). Requests to
  join are invitations of oneself. `maker`, `moved`, `opened` are history.
* `Challenges`: the answer to an invitation is a conditional UPDATE
  (`AnswerInvite`). `Submit` is the claim of the first-wins slot, the INSERT, and
  after its failure the rollback, the second look and the verdict
  (`OverwriteVerdict`), which the code writes on a row it did not insert.
  `Acceptable` is the policy chain on what was read. The version is only a flag
  (`stated`): the route accepts the field and the chain then rejects it. Blocks,
  unblocks, time and the early end of a club's challenge go on in between.
* `Moderation`: nothing; the write is unconditional, but column by column
  (`Merge`). `raced` is history: the cases that a request wrote over although
  their row had changed since it was read.

### AuthSession

`generation`, `accessToken`, `mutations` are the three holders of
`auth_providers.dart`; `session` is the user shown, named by the token that
loaded it; `stored` the secure store. `operation[g]` is the operation that took
generation `g`, and the await it has reached: the store's read, the service's
token, the turn of its write or clear, `/auth/me`. `sent` are the generations with a
request of some feature under way, `rejected` those whose 401 waits for its event.
`Mutate` is the platform's answer, success or not (`unsure`). `Kill` forgets all
but the store, also mutations that still waited.

### MediaStore and MediaUpload

Both put a transaction beside a store that knows none, and both cut a request where
another one may come in between: at each query, at the write of a row, at each
operation on a file or an object, at the commit.

`MediaStore`: `rows`, `files` and `posts` are committed; `job[h].seen` is what a
request has read, `others` the answer to `_other_references`, `new` the row an upload
will insert with its transaction. A delete locks its row; the columns it and an
attachment write are those the ORM saw change. `Cut` is a crash or a rollback at any
point, which leaves the disk as it is. History: `disturbed` are digests on which a
delete overlapped another request or whose file was touched without a commit,
`contended` the rows that two posts wanted at the same time. The properties say what
the code guarantees to the rest.

`MediaUpload`: `state` and `bucket` are the two sides of an intent, `expired` and `due`
its two deadlines. A request loads and judges a row (`Start...`), asks or empties the
bucket (`HeadObject`, `DeleteObject`), and writes the state by primary key
(`WriteState`), whatever it is by then. `raced` and `swept` are history. No route calls
the service yet, so a caller may commit or roll back when it raises (`Abort`).

### SocialGraph

An action `May...` reads the rows of a pair, holds every guard and puts what is to be
written into `job[h]`: rows to insert, keys of rows to delete, statuses to set.
`Write` flushes and commits it in one piece; a row that somebody else has inserted in
between rolls all of it back (`RollBack`), and a row is deleted by its key, so a row
that was made again survives. The key of a row is the number of the request that made
it, with which "after the block" can be said. `consent`, `dropped`, `raced` are history.

### Inbox

`rows` are the notifications of one author by primary key. A handler takes the time
with its comment or reaction (`Comment`, `React`, `Follow`), reads the row it may add to
(`Look`) and commits all of it (`Commit`): count, time and preview, not the read flag,
which it never assigned. `view` is the device: pages it has fetched, the cursor
(`created_at`, `id`) it would send, and the row whose time "mark all as read" takes as
its cutoff. `view.due`, `view.known`, `events` and `overlapped` are history: what the
pages still owe the device, what there was at `load()`, how many events each row has been
written for, and whether two handlers overlapped. `Abort` is a handler that dies or
finds its row gone.

## 4. Runs

| Run | Bounds | Shows |
|---|---|---|
| `post_service` (`MCPostService.cfg`) | one author, one key, four rows, two overlapping handlers, four requests | `Consistent` (types and the inductive invariant), `OneLivePostPerKey`, `AnswersAreTrue` (a 201 has its post, a 500 its deletion), `ImplementsPostStore`, `RequestsEnd` |
| `post_lost_update` | the same | **violated** `NoLostUpdate` |
| `mic_session` (`MCMicSession.cfg`) | two owners, three leases, two pending stops | `Consistent`, `MicrophoneIsSafe` (`ExclusiveLease`, `CaptureHasLease`, `NoOrphanStream`, `LeaseReachable`), and under fairness `BackgroundFreesMicrophone`, `StopTakesEffect` |
| `publishing_queue` | one text, two drafts, two rows | `QueueIsSound`, `Truthful` (with `NoFalseSuccess`), `DraftSurvives`, `StaysQueuedUntilPublished`, and under fairness `SubmitEnds` |
| `clubs` | three profiles, two clubs, two invitations, one post, one key, two threads, five requests, caps 2, 1 and 1 | `Sound` (with `CreatedOnce`), `StableOwner`, `AdmittedByInvite`, `OverrunBounded`, `OwnerMovesToAMember` |
| `challenges` | two profiles, two invitations, two events, two values, two threads, four requests, a clock up to 3 | `Sound` (with `ClaimHasRow`, `OneRowPerEvent`), `JoinedByAccepting`, `RecordIsKept` (`AnsweredOnce`, `RowsAreKept`, `BestOnlyImproves`) |
| `moderation` | one target, two cases, a moderator, the author, two threads, six requests | `Sound` (with `AuditExplainsState`), `InOrder`, `RemovalSticks` |
| `auth_session` | two tokens, four operations per launch, any number of kills | `LastWordWins`, `StoreFollowsSession`, `ExpiredWasRefused`, and under fairness `OperationsEnd` |
| `media_store` | four rows, one digest, two profiles, two posts, two threads, six requests (191,000 states) | `RowsAreSound` (with `QuotaOverrun`, `AttachedMediaIsOwn`), `FilesMatchRows`, `KeepsItsMedia` |
| `media_upload` | three intents, two threads, a limit of one, six requests (921,000 states) | `WithinLimit` (with `LiveOverrun`), `BucketMatchesRows` (`FinalizedHasItsObject`, `BytesHaveAnOwner`) |
| `social_graph` | two profiles, two threads, five requests (889,000 states) | `Sound` (with `NoEdgeWithoutConsent`), `AcceptedHasEdge`, `BlockSevers` |
| `inbox` | two actors, one kind, two handlers, three requests, a window and a page of one, one actor blocked at a time, a clock up to 2 (1,142,000 states) | `EntriesAreSound` (`OneEntryPerBurst`, `CountsAreEvents`, `OneEntryPerAsker`), `PagesShowEverything`, `ReadStateIsKept` (`ReadStays`, and with its two conditions `NewerStayUnread`) |

A name in front of a parenthesis is the conjunction of the properties in it, most
often with the type invariant; each conjunct has its own comment in the module.

The violated run has one property, a claim of a docstring that the code does not keep;
`PROJECT.json` quotes it under "findings". More claims of comments and docstrings are
refuted in the same way. They are stated beside the properties and have a configuration
each, to be run by hand (`tlc -config InboxMarkAll.cfg MCInbox`); TLC finds each
counterexample within a minute:

| Configuration, module | Violated claim |
|---|---|
| `MicRevokedStream.cfg`, `MCMicSession` | `RevokedLeaseHasNoStream` |
| `PublishingEditLost.cfg`, `MCPublishing` | `ConfirmedTextIsPublished` |
| `PublishingDoubleSubmit.cfg`, `MCPublishing` | `NoDoubleSubmit` |
| `PublishingLaunch.cfg`, `MCPublishing` | `LaunchDrains` |
| `MediaRowWithoutFile.cfg`, `MCMediaStore` | `RowsPointAtFiles` |
| `MediaStolen.cfg`, `MCMediaStore` | `AttachedOnce` |
| `MediaExpired.cfg`, `MCMediaUpload` | `SweptIsFreed` |
| `MediaCancelled.cfg`, `MCMediaUpload` | `FinalizedIsImmutable` |
| `ClubsCancel.cfg`, `MCClubs` | `CancelsPendingOnly` |
| `ModerationAppeal.cfg`, `MCModeration` | `OneAppealPerCase` |
| `FollowAgain.cfg`, `MCSocialGraph` | `FollowersDoNotAsk` |
| `FollowBlocked.cfg`, `MCSocialGraph` | `NoFollowAcrossBlock` |
| `InboxBadge.cfg`, `MCInbox` | `BadgeIsReachable` |
| `InboxMarkAll.cfg`, `MCInbox` | `NewcomersStayUnread` |

Some properties that pass leave out what the code does not protect: requests that
overlapped on the same object (`raced`, `disturbed`, `contended`, `overlapped`), clubs
after a transfer, a discard that is pending. They say what holds for whoever is left
alone and show nothing about the overlap itself. The note of each hazard in
`PROJECT.json` says which part of it that leaves open.

Deadlock is not checked: each system may stop, when the request, lease or key
names of the bound are used up, and the user may simply leave.

Why the bounds are enough: a race in the post service is between two
transactions over one key, and its worst case needs a live post, a tombstone and
a third row; three leases let an owner start again while an old stop is pending
and another owner holds the microphone; two drafts are what it takes for one
record to fail beside another, for a report to contain a stranger's key, and
for a discarded draft to meet its successor. In `Clubs`, `Challenges` and `Moderation` a race is
between two requests, prepared by the ones before: five make a club, let two in
and have two more overlap; four invite, accept and submit twice; six open, limit,
remove and appeal with two in flight. Caps of one and two are reached and overrun.
Two tokens are two sessions, and four operations a restore, a login, its end and
the next login. Four rows of one digest are two posts' media, a duplicate and an
upload that races; the quota and the live limit of one are reached and overrun. A pair
of profiles is all that a follow, its answer and a block are about, and five requests
ask, accept, drop, block and race. In the inbox three requests are a burst, its
successor and one that comes between two pages; a page of one makes every row a
boundary, and one blocked actor cuts a page short. The proofs remove these bounds for
every safety property. A saturating `attempts` counter loses nothing: the code only writes it.

### Disagreements between code and text

* **Lost update** (`post_service.py:644`). Version check and UPDATE are two
  statements without a lock. Two edits of one version are both accepted.
* **Lease freed under an open stream** (`audio_session_coordinator.dart:59`). True
  only when the owner's stop has a stream to await. A start still in its
  handshake closes the stream afterwards (that it does is
  `BackgroundFreesMicrophone`), but by then another owner may have the lease.
* **Edit after a failed submit** (`community_outbox.dart:391`). The queued copy is
  not updated; the old text is published and the new one confirmed and cleared.
* **Double submit** (`community_outbox.dart:109`). The key does not protect once
  its post was deleted: a late retry publishes it again.
* **Drain at launch** (`community_outbox.dart:24`). Not wired.

The other services contain more of the kind, which follow from the same
overlap of requests and are the reason why their properties have exceptions:

* *Clubs.* A transfer and the new owner's leave, or two transfers that overlap,
  leave `owner_profile_id` naming somebody who is no member, or two owner rows
  (`club_service.py:1205`, 1266). `StableOwner` therefore speaks of clubs that
  were never handed over. After a hand-over the creation key protects the new
  owner's index entry, not the maker's retry (`CreatedOnce`). An acceptance and a
  cancellation may both succeed (`club_service.py:1476`, `CancelsPendingOnly`;
  `AdmittedByInvite` asks for an answered invitation, not for an accepted one).
* *Challenges.* `submit_result` ignores whether its row is fresh (`_was_fresh`,
  lines 803 and 842): of two submissions of one event the second overwrites the
  verdict of the first, which `_handle_replay` says is never touched.
  `RowsAreKept` allows that and nothing else.
* *Moderation.* Two open cases per target (`case_service.py:519-527` says so), two
  appeals of one case that overlap (`case_service.py:784`, `OneAppealPerCase`), and
  a signal decided before a removal that takes it back. `InOrder` and
  `RemovalSticks` leave out exactly the cases of `raced`.
* *Media.* A delete that counts its references before an upload of the same bytes
  commits takes the new row's file (`pipeline.py:356`), and a crash between unlink and
  commit leaves a ready row without one (`RowsPointAtFiles`). Two posts that list one
  upload may both pass the check; the later one takes it away (`AttachedOnce`).
  `FilesMatchRows` and `KeepsItsMedia` leave out `disturbed` and `contended`.
* *Media upload.* A cancel that has loaded a pending row overwrites a finalized one
  (`FinalizedIsImmutable`); a failed upload, which the sweep is said to free, is not
  among the states it selects (`SweptIsFreed`).
* *Social graph.* `follow()` does not look at blocks, so a follow after a block makes an
  edge (`NoFollowAcrossBlock`; `BlockSevers` speaks of what was there before). The
  branch for private profiles does not look at edges, so a follower who follows again
  gets an open request beside the edge (`FollowersDoNotAsk`).
* *Inbox.* Comments and reactions on a post share one row, and one more event leaves a
  read row read. `has_more` is computed after blocked actors were filtered out, so the
  list may end early while the badge counts what lies behind (`BadgeIsReachable`).
  `mark_all_read_up_to` says that it covers "only notifications that the user has
  actually seen" (`notification_service.py:631`) and that ids are in the order of
  `created_at` (594). Neither holds (`NewcomersStayUnread`). The time of a row is the one
  its handler took at its beginning: one that began before the top row's time and commits
  after `load()` inserts a row that was never shown and lies below the cutoff. And the
  cutoff is the present time of the row the device names: if that row was added to, the
  cutoff has moved with it, over newer rows too. It always covers older pages that were
  never fetched. `NewerStayUnread` is what remains: outside these two cases an unshown
  row that came after `load()` stays unread.

## 5. Fairness

* `PostService`: weak fairness of each handler's next statement. Threads are
  scheduled and PostgreSQL wakes waiters. Requests and deaths are not forced. Two
  unlucky waiters cannot overtake each other for ever, since each statement that is
  enabled stays so until it is taken or its blocker ends.
* `MicSession`: weak fairness of a start's continuation and of the stop that closes
  or releases a given lease: futures complete. Not assumed: that the permission
  dialog is answered, that anything throws, or that the user does anything.
* `Publishing`: weak fairness of the outbox (the event loop; requests time out after
  8 s, `dio_factory.dart:19`) and of the continuation of `discard()`. Not assumed:
  that a request arrives or is answered, or that the user opens the composer.
* `AuthSession`: weak fairness of the store's queue (`RunQueue`: the platform
  answers) and of each operation's continuation (`Step`: requests time out,
  `dio_factory.dart:19`). Not assumed: that a feature's request is answered, or that
  a 401's event ever has its turn. `OperationsEnd` excepts a user who kills the app for ever.
* `Clubs`, `Challenges`, `Moderation`, `SocialGraph`, `MediaStore`, `MediaUpload` and
  `Inbox` have no liveness property and no fairness: a request waits for nobody, or only
  for a row lock that its holder gives up by its next steps.

## 6. Proofs

All are for arbitrary constants under the named assumptions
(`PostServiceAssumptions`, `MicSessionAssumptions`, `PublishingAssumptions`,
`ClubsAssumptions`, `ChallengesAssumptions`, `ModerationAssumptions`,
`AuthAssumptions`, `SocialGraphAssumptions`, `MediaStoreAssumptions`,
`MediaUploadAssumptions`, `InboxAssumptions`): the null values are not values of the
data they stand in for, and bounds are numbers. Where a limit is overrun by the
requests in flight, in `Clubs`, `MediaStore` and `MediaUpload`, the threads are finitely
many (in `MediaStore` at least one); an upload limit is at least one, as is the size of
a page.

**PostService.** `OneLivePostPerKey` is not inductive: what keeps a second
post out is that a live row still holds the key it was made with, so that the
unique index sees it. `Consistent` adds `UniqueKeys` (the index over committed
rows), `LiveHoldsItsKey`, `Transactions` (a tombstone being recycled is and
stays deleted, rows referred to exist) and `InsertsOwnTheirKeys` (the index over
uncommitted inserts, i.e. that waiting works). Each action has a lemma; `Commit`
is where the parts meet. `ServiceImplementsStore` uses the same invariant: an
uncommitted insert is publishable in the abstract store when it commits because
no live row has its key.

`AnswersAreTrue` says of a 500 that a post was deleted some time earlier, and of a 201
that the row was made with the key of the request. `Knowing` follows both through the
statements: a request that met a holder of its key on INSERT knows of a row made with
it, one that found no live holder after the rollback knows that such a row is deleted,
and one past its commit names its own row (`Knowledge`). It needs `KeysAreKept`, that a
row's key is the one it was made with or none, and that posts stay, keep author and
origin, and stay deleted (`PostsPersist`), which is read off the commits
(`CommittedRow`).

**MicSession.** `Consistent` says that each thing that may release or close
names a lease of its own owner (`OwnLeasesOnly`), and ties starts, captures and
pending stops to their leases (`StartsKeepTheirLease`, `CaptureKeepsItsLease`,
`StopsFindTheirLease`). Without the first, a late release could be one of a
stranger's lease; without the others, a stop that comes back could free a
capture that was installed after its snapshot. The four parts of
`MicrophoneIsSafe` follow from it.

**Publishing.** `Sound` is `QueueIsSound /\ Truthful`. `NoFalseSuccess` is not
inductive: `Truthful` follows the belief "published" from the service over the
answer, `acked` and the report to the user, and says that a key on disk is in
memory or published. The last gives `StaysQueuedUntilPublished`, an action
property. Rows are never reused, so a deletion does not unpublish.

`DraftSurvives` rests on one more invariant, `DraftKept`: while the composer has a
text, is not discarding it and does not wait for the deletion of a draft whose
success it has heard, the draft on disk is that text.

**Clubs.** `Inv` is `TypeOK`, `Rosters`, `Planned` and `Owned`. `Rosters` says that
rows, pins and invitations are of clubs that exist and that an open club has been
opened. `Planned` is what a decision still relies on when it is written: its club
exists, the rows it loaded are still there, the invitation it answers is of that
club, and before a transfer nobody has planned to remove or demote the maker.
Without it a `Delete` decided long ago could take the maker's row. `Owned` is the
three properties `StableOwner`, `CreatedOnce` and `AdmittedByInvite`.
`OverrunBounded` is a layer of its own (`Caps`): rows and requests that have
decided to add one stay below the cap plus the number of threads, because whoever
decides still saw fewer rows than the cap. That needs the cardinality theorems, and
is the one place where finiteness is used.

**Challenges.** `Inv` is `Sound`, `JoinedByAccepting`, `OneRowPerEvent` and a
`Planned` that ties a submission under way to a participant, an answer to the
invitee of its invitation and an end to a time not after `EndsAt`. `ClaimHasRow` is kept
because the branch that finds a row of its event rolls the claim back. The three
action properties of `RecordIsKept` are read off the actions (`RecordStays`,
`BestsImprove`).

**Moderation.** `Inv` adds `Planned` (what a request has read is a case that exists,
and what it plans is allowed from there) and `Logged` (the log speaks of existing
cases only). `AuditExplainsState` holds because a request that changes the state
writes column and log entry in one transaction. Counting the appeals of `InOrder`
needs that a case outside `raced` still is what each of its writers had read.

**AuthSession.** `Invariance` relates the tail of the queue to the latest
operation. `Running` says what each step of an operation has found, `Queue` that
nothing waits while a session is there or being loaded, and that a login's write
or a logout's clear is the last of the queue; `Verdicts` follows the answers of the
server. `StoreFollowsSession` is the case of the empty queue;
`ExpiredWasRefused` follows the token from the 401 to the operation that was
started for it.

**SocialGraph.** `Inv` is `TypeOK`, the three properties, `Settled` and `Alone`. `Settled`
follows what each request means to write: an edge it will insert has been consented to,
an acceptance has its edge, brings it or knows that it was deleted (`Planned`), and
outside `raced` a block still means to remove every edge and request there is
(`Fresh`). `Alone` says that two requests that work on one pair put it into `raced`,
which is what keeps `Fresh` true while others write; `BlockSevers` follows from it.
`NoEdgeWithoutConsent` and `AcceptedHasEdge` hold whatever overlaps, because status and
edge are written in one piece.

**Limits overrun by requests in flight.** `Within` is the invariant of `MediaUpload`'s
live limit and of `MediaStore`'s quota alike: what is there and the requests that have
decided to add one are together at most the limit plus all threads but one. One begins
only when it saw less than the limit; it moves from the second set to the first when it
commits; everything else only shrinks either. The lemmas about `Within` state these
three steps once (`FewerWithin` and its neighbours), so that the proofs of `WithinLimit`
and of `QuotaOverrun` only have to say which step an action is.

**MediaUpload.** `UploadInv` is the types, `BucketMatchesRows`, `UploadsAlone` and, for
each request, `UploadShaped` and `UploadJudged`. `BucketMatchesRows` alone is not
inductive: a finalize relies on an object it has seen some steps ago. `UploadJudged`
says what a request knows of the uploads that nobody else works on, from the query on
until it writes; `UploadsAlone` says that two requests with one upload have put it into
`overlapped`, so the others leave that knowledge true.

**MediaStore.** Three layers, each with the one before it. `MediaBase` says that
requests are formed: a row that was read to be deleted or attached is still there, with
its owner and digest, because rows are never removed; an upload's row says what the
scanner found; no two requests create one post. `AttachedMediaIsOwn` follows.
`MediaQuota` is `Within` for each profile, over the uploads whose row will count.
`FilesKnown` is about each digest that is not `disturbed`: its file is there exactly as
long as a row refers to it or an upload that stored it is about to commit, except
between the unlink and the commit of a delete; and that delete is alone and still
right about the other references (`FileKnown`). `MediaKept` is about posts: `Wanted`
says that a row which only one post wants is as that post has read it until its owner
deletes it, and `Published` that a post's media does not go back into review.

**Inbox.** `InboxInv` is the conjuncts of `EntriesAreSound`, that no row is in the
future, and for each handler `EntryShaped` (the row it adds to is there, is of the post,
and its count is at most the row's events and one) and, unless handlers overlapped,
`EntryJudged` (every row of the post is in its past, outside the window if it found
none, and as long as it was when it was read). `EntryJudged` is what makes the entry
it opens more than a window younger than the others, and what makes a count exact.
`OneEntryPerAsker` holds whatever overlaps, because the `dedup_key` is unique and its
conflict undoes the notification alone. `CountsAreEvents` is stated row by row: as a statement about
the sum over all rows it would be weaker.

`PagesShowEverything` needs `PagesGoOn`: a row that is still owed is older
than the cursor, so there is a next page. It rests on lemmas about the order of the
pages (`KeyOrder`: (`created_at`, `id`) is a strict total order; `NewestFacts`: the
newest n of a finite set are n or all, and newer than the rest; `PageFacts`: what a
page leaves out is older than its cursor, unless the page was cut). `Newest` counts, and
the proof needs no induction over data: that a finite set has an oldest element comes
from the well-foundedness of strict inclusion (`LeastSubset`). `ReadStateIsKept` is read off
the actions with both invariants. `NewerStayUnread` in it needs both of its conditions:
the row at the top has the time it had at `load()`, so the cutoff is (`topAt`, `top`),
and a row that came later, with a greater id, and is not stamped before `topAt` lies
above it. A row of a handler that committed late with an older time, and any
row once the top one has been added to, may be marked, and the theorem says nothing of
them.

Checked by TLC only: the liveness properties (`RequestsEnd`,
`BackgroundFreesMicrophone`, `StopTakesEffect`, `SubmitEnds`, `OperationsEnd`) -
TLAPS has no ENABLED - and the violated claims of section 4, which are
counterexamples. Every safety property of a run is stated by a theorem.

## 7. What the models leave out

* PostService: reading and visibility, body and artifact contents, audiences,
  `on_invalidate` (no cache is wired). The club gate and the media attachment may
  refuse or pass. The locking is PostgreSQL's; SQLite, which the tests use,
  serialises writers.
* MicSession: engines with their own `onRevoke` (they end in `stop`), sample
  delivery. A start that finds the app already in the background is possible and not
  excluded by the code. Identical pending stops of one owner count as one.
  A `stop()` of the platform ends the stream whether it returns or throws.
* Publishing: one author and account; no media, clubs or share previews; no
  permanent rejection by the server; writes to disk succeed and are atomic
  (`JsonDocumentStore` swallows refusals). The order of a drain is not modelled,
  nothing depends on it. One `submit()` waits at a time, and a second one enters the queue
  before or after the first one's enqueue and drain, not between them.
* Clubs: what a handler reads it reads at one instant, and what it writes it writes
  at one instant; listings and feeds, names and descriptions, club challenges
  (their end is in `Challenges`), the block service's own rules. Nothing deletes
  or archives a club.
* Challenges: one challenge; the kinds of challenge but "personalBest" and "club"
  stand for all; the range and plausibility checks of the metric (the values are
  acceptable ones), nonces (a committed row is always decided), the rate limiter,
  leaderboard pages.
* Moderation: the priority score, texts and evidence; one author of all targets.
  Nobody in the repository calls `get_or_create_case` outside tests, so cases
  are opened at any time.
* AuthSession: a login while a user is signed in, register (login by another
  name), the events for the settings synchronisation. A logout that is killed
  before its clear reaches the store comes back at the next launch; the code
  accepts it and no property speaks of it.
* MediaStore: sniffing, sizes and transcoding (they decide between a digest and a
  rejection), the rate limit, who may read.
* MediaUpload: the processing and review states after finalize; no route calls any of it.
* SocialGraph: mutes, lists, notifications of the follow.
* Inbox: the two queries of "mark all as read" and of marking one row are taken at one
  instant. Left out are editing, deleting and listing comments, deleted posts,
  invitations and accepted requests (deduplicated like requests to follow), preferences,
  push messages.
  `create_comment` has an idempotency key in its signature but stores none, so a retry is
  a second comment, as the model has it.
* Not modelled at all: reports (single-row writes under a unique constraint), the ledger
  of experience points, the settings synchronisation, the resource arbiter, the engines
  and recorders on top of `MicCapture`. Signal processing and inference are numbers, out
  of TLC's reach.
* All liveness arguments are about single isolates and threads, not about time.

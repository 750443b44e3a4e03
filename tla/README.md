# Readory: formal models of the server

Readory is a reading platform: a NestJS server (`src/server`), a Next.js
frontend (`src/frontend`) and shared contracts (`src/shared`). The server keeps
its state in PostgreSQL (through Prisma), Redis, BullMQ queues and a
Meilisearch index. This directory models the part of the server where several
actors change the same state: requests, queue workers, outbox processors,
payment callbacks and administrators.

Contents

1. [The system](#1-the-system)
2. [The modules](#2-the-modules)
3. [The runs](#3-the-runs)
4. [Where the code and its texts disagree](#4-where-the-code-and-its-texts-disagree)
5. [The proofs](#5-the-proofs)
6. [What is abstracted, assumed and left out](#6-what-is-abstracted-assumed-and-left-out)
7. [The plan](#7-the-plan)

Paths below are relative to `src/server/src` unless they start with `src/`.

## 1. The system

### Components and their state

| Component | State | Operations |
|---|---|---|
| Wallets (`wallets/`) | `Wallet.balance`, `WalletTransaction` rows, a cached total in Redis | `ensureWallet`, `credit`, `debit` (alone or inside the caller's transaction), `getWallet` |
| Chapters (`chapters/chapters.service.ts`) | `Chapter` (status, price, `isFree`), `AccessRecord`, `Book.chapterCount` | create, update, delete, `purchaseChapter` |
| Payments (`payments/`) | `PaymentInvoice`, Redis counters | `initializePayment`, `verifyPayment` (called by the gateway's redirect) |
| Scheduled publishing (`scheduled-publishing/`) | `ScheduledPublication`, a BullMQ queue of delayed jobs | create, update, cancel, `publishNow`, the worker, `onModuleInit` |
| Outbox (`outbox/`) | `DomainOutboxEvent`, `SearchOutboxEvent` | `create`, inside the producer's transaction |
| Notification processor (`notifications/`) | lease columns of `DomainOutboxEvent`, `Notification`, `NotificationBroadcast` | `tick`: claim, process, heartbeat, fail; three handlers |
| Search synchronization (`search/`) | lease columns of `SearchOutboxEvent`, the Meilisearch index, `fullSyncRunning` | `tick` as above; `startFullSync` |
| Sessions and authentication (`auth/`) | `UserSession` rows, their copies in Redis, failure counters | login, refresh with rotation, revoke, device limit, JWT check |
| Users (`users/`) | `User`, roles, permissions, one-time codes in Redis | sign-up, ban, permissions, manual credit and debit |
| Content pipeline (`chapters/chapter-content.service.ts`, `chapters/*-processing*`, `chapters/epub/`) | `Chapter.contentStatus`, `contentPath`, `contentKey`, `contentVersion`, three BullMQ queues, object storage | upload, append, delete images; upload a file, convert it |
| Reader (`reader/`) | content tokens and manifests in Redis, `ReadingProgress` | open, page, save progress |
| Cache manager (`cache/`) | Redis values, version keys, in-process single-flight table | `getOrSet`, early refresh, `del`, `bumpVersion` |
| Rate limits (`rate-limit/`) | Redis counters | `INCR`, `EXPIRE` |
| Books (`books/`) | `Book` with its rating and counters, `BookRating`, `BookContributor` | create, update, delete, rate, favourite |
| Collections (`collections/`) | `Collection.bookCount`, `CollectionItem` with positions, `Book.favoriteCount` | add, remove, reorder, toggle favourite, create, delete |
| Chapter count maintenance (`book-maintenance/`) | `Book.chapterCount`, a daily BullMQ job with a cursor, one at a time by its id | recount |
| Audit log, media, storage, mail, dashboard, public pages, genres, contributors | single rows, files | administration and I/O |

`PROJECT.json` lists every component with its status and reason.

### How they interact

* **Calls in one transaction.** `purchaseChapter` calls `debit` and inserts the
  `AccessRecord` in one transaction; `verifyPayment` claims the invoice and
  calls `credit` in one. The transactions run at PostgreSQL's default
  isolation, READ COMMITTED.
* **Reads before the transaction.** The price and the existing access are read
  before the purchase's transaction, the invoice before the gateway call, the
  schedule before its update. This is where values become stale.
* **The outbox.** A producer writes the domain event and the search event in the
  transaction that makes the change. Independent processors in every server
  process claim batches under a lease (`FOR UPDATE SKIP LOCKED`), with a
  heartbeat while an event is being processed.
* **Queues.** BullMQ gives a job to one worker; a job whose id it already holds
  is ignored. Jobs survive a restart of the server, the handlers do not.
* **External services.** The payment gateway answers each verification for
  itself; Meilisearch performs the tasks it accepted in order.

### What makes it hard

Every line the models are aimed at is listed in `PROJECT.json` under
`hazards`. In short: two requests between a check and its transaction; a
callback that comes twice; a worker and an administrator on one row; a lease
that runs out under a live worker; a crash between a commit and the call that
follows it; a retry whose job is still active; a read that is written back
after a newer one.

### What makes each modelled component correct

* *Money.* The balance is the sum of the ledger rows and never negative; one
  charge per user and chapter, together with its access; one credit per invoice.
* *Scheduling.* One attempt at a time, no more than `maxRetries` of them, a
  first attempt for every schedule, nothing published without
  being announced and counted.
* *Notifications.* An event is processed only after everybody entitled was
  notified; a broadcast resumes where nobody is skipped; every event is settled.
* *Search.* A processed event reached the index; when no event is left, the
  index is what the database says, as far as the changes were announced.
* *Sessions.* A refresh token is exchanged once; a revoked session admits
  nobody; the copy a request is checked against shows the account as it is; the
  device limit of the role a user has holds when the last login is done.
* *Content.* What a chapter shows can be read, while files are converted and
  after they failed; PROCESSING ends; the cached manifest is the stored one.
* *Caches.* Whoever asks after a change was announced is answered with it.
* *Counters.* `bookCount`, `favoriteCount`, `chapterCount`, the rating and the
  contributors' counts are what one would count; the limits of collections hold;
  a recount misses no book.

Several of these hold only up to races the code really has. The property then
names the race, as narrowly as it could be made true, and a history variable
records that it happened; section 4 lists them.

## 2. The modules

| Module | Models |
|---|---|
| `LedgerAbs` | what the money side promises: one atomic step per business event |
| `WalletLedger` | wallets, chapter purchases and payment callbacks, statement by statement |
| `ScheduledPublishing` | schedule rows, BullMQ jobs, workers, administrators |
| `NotificationOutbox` | claim, lease and handlers of the notification processor |
| `SearchSync` | book transactions, the search processor and the full synchronization |
| `Sessions` | session rows, their cached copies, and the account changes that revoke them |
| `ChapterContent` | content requests, conversion jobs, storage, and the reader's manifest cache |
| `Collections` | transactions on collections and favourites, with row locks and deadlocks |
| `BookCounters` | chapter counts with their daily recount, ratings, contributors' counts |
| `CacheManager` | single flight, early refresh and the two ways to invalidate a cached value |
| `WalletLedgerProofs`, `ScheduledPublishingProofs`, `NotificationOutboxProofs`, `SearchSyncProofs`, `SessionsProofs`, `ChapterContentProofs`, `CollectionsProofs` | the theorems about the module of that name |
| `DerivedDataProofs` | the theorems about `CacheManager` and `BookCounters`: what is derived from rows and kept beside them |
| `MC...` | the instance of the module of that name for TLC |

Every definition that stands for code is listed under `map` in `PROJECT.json`
with its lines. Definitions under a comment "Mutant:" are deliberately wrong
variants of the definition below them; no specification uses one. They serve to
confirm that each property notices a plausible mistake.

Each module has one type invariant `TypeOK`, which documents its state; each of
them is proved. In `BookCounters`, which `DerivedDataProofs` extends beside
`CacheManager`, it is `CountersTypeOK`, and the specification is `CountersSpec`.

### WalletLedger

A `Request` is one HTTP request in flight. `pc[r]` names its next statement and
`job[r]` holds what it has read or computed: the price read by
`purchaseChapter`, the invoice read by `verifyPayment`, the balance returned by
the transaction's own `UPDATE`.

| State | Code |
|---|---|
| `wallets`, `balance` | `Wallet` rows, committed |
| `deposits`, `withdrawals` | the two sums `getWallet` computes over `WalletTransaction` |
| `walletLock`, `invoiceLock` | the row lock an `UPDATE` takes until the end of its transaction |
| `chapter`, `access`, `paid` | `Chapter`, `AccessRecord`, and the purchase rows counted |
| `invoice`, `credits` | `PaymentInvoice.status`, and the credit rows counted |

Statements outside a transaction are steps of their own. Inside a transaction
an `UPDATE` waits for the row's lock and computes on the committed row
(`LockWallet`, `SettleInvoice`). The last `INSERT` and the `COMMIT` are one
step (`CreditCommit`, `DebitCommit`): what a transaction has written is
invisible until it commits. Failure of a statement rolls everything back
(`Rollback`), and any request may die at any step (`Abort`).

`purchaseChapter` is `PurchaseChapter` (read the chapter), `FindAccess` (the
existing-access check), then `GrantFree`, or `DebitUpdate` and `DebitCommit`
with the refusals `DebitRefused`, `DebitInsufficient`, `PurchaseConflict`.
`verifyPayment` is `VerifyPayment`, `GatewayAnswers`, then `MarkFailed`, or
`SettleInvoice`, `CreditUpdate`, `CreditCommit`. `initializePayment` is
`InitializePayment` and `CreateInvoice`. Administrators change price and status
(`SaveChapter`), delete chapters, credit and debit wallets meanwhile.

`LedgerAbs` has none of this: `Buy` moves money and access together, `Settle`
credits an invoice once. The refinement mapping sends `balance` to `money`,
`access` to `owned`, `paid` to `charges` and `credits` to `credited`: because
charges and credits are counted in both, a second charge cannot pass for a
withdrawal, nor a second credit for a deposit.

### ScheduledPublishing

| State | Code |
|---|---|
| `schedule` | `ScheduledPublication`: status, target, `publishAt`, `retryCount` |
| `target`, `counted`, `events` | `publishStatus` of the book or chapter; the chapter's share of `chapterCount`; outbox rows written for it |
| `job`, `due` | the BullMQ job with the schedule's fixed `jobId` and its delay |
| `pc`, `doing` | where a worker or an administrator's request is, and what it has read |
| `now`, `claims`, `restarts` | the clock, and history |

`create`, `update` and `cancel` are each a check (`BeginCreate`, `BeginUpdate`,
`BeginCancel`), the write by id (`CreateSchedule`, `UpdateSchedule`,
`CancelSchedule`) and, for the first two, `EnqueueSchedule`. A worker takes a
due job (`TakeJob`); `publishNow` enters at the same `Claim`. The attempt is
`Claim` (the guarded `updateMany`), `ReadClaimed`, and inside the `try`
`ReadTarget`, `CommitPublish`, `Invalidate`; an exception in these
(`AttemptFails`) leads to `RecordFailure`, which writes `Pending` or `FAILED` by
id and, for a retry, enqueues. A statement outside the `try`, or that of the
catch block, may fail too (`StatementFails`), and ends the handler: the job of a
failed claim is gone while its row stays `Pending`. `lost` is history: the
schedules whose claim or call to the queue failed so, until an update or a
restart enqueues them. `Restart` stops every handler and runs `onModuleInit`.

### NotificationOutbox

`event` is a `DomainOutboxEvent` row; `stale` says that `lockedAt` is older than
the lease, which is all the claim asks of it. `task[w][e]` is what process `w`
does with event `e` of its batch: `Claim` is allowed when the batch is finished
(the `running` flag), `Start` when fewer than `Concurrency` events are being
processed. A content event is a loop of `ReadPage` and `InsertPage`; a
broadcast begins at its saved cursor (`BeginBroadcast`), saves it after each
page (`SaveProgress`) and computes its status (`FinishBroadcast`). The outcome
is written by `MarkProcessed` or `RecordFailure`, by id alone.
`ExpireLease`, `Heartbeat` and `Crash` are the environment of a process;
`CreateEvent` and `ChangeEligibility` (subscribe, unsubscribe, ban, unban) that
of the processor. `excused` is history: the users who were not eligible at some
time since the event was written, and whom the processor therefore need not
have notified.

### SearchSync

`book` has a version that grows with each change; `index[b]` is the version of
the document Meilisearch holds, 0 for none. The book transactions
(`CreateBook`, `UpdateBook`, `PublishTarget`, `DeleteBook`) write the event rows
the code writes: none for a new draft, two for an update that makes a draft
public. Two kinds of change write none although the document contains what they
change: a schedule that is made or cancelled sets `publishStatus`
(`MarkContentStatus`), and whatever touches a chapter sets `lastContentUpdate` of
its book (`TouchBook`). The processor claims under the same lease as above, but `ReadBook` and `WriteIndex`
are separate steps, and the final updates match only a row the process still
holds (`Holder`). `scan` is a full synchronization: `ReadPage`, `WritePage`,
`EndScan`. `applied` and `overlap` are history: the newest version the index was
given, and whether a book was read while an earlier read of it was not yet
written; `silent` names the books changed without an event since they were last
made right by one.

### Sessions

A `Process` is an HTTP request, or the collector of expired rows; `proc[p]` says
which operation it runs, at which statement, and what it has read.

| State | Code |
|---|---|
| `row` | `UserSession`: its user, device, refresh token, and whether it has expired |
| `cached` | `auth:session:<id>`: the copy `JwtStrategy` checks an access token against |
| `account` | `User`: banned, the role, and a version that counts what a copy holds of it |
| `issued` | history: which token each refresh token was exchanged for |
| `outlived`, `outdated`, `overfull` | history: the races named in section 4 |

`createLoginSession` is `Login` (which reads the account and the session of the
cookie), `TakeOver` or `UpdateByDevice`, `CreateRow`, and after a conflict on
the unique device `UpdateAfterConflict`; then `CacheSession` and
`EnforceDeviceLimit`, whose list and deletion are steps like those of a
revocation. `rotateRefreshToken` is `Refresh`, `Rotate` (the guarded update)
and `CacheSession`. `Revoke`, `RevokeOne` and `ChangeAccount` lead through
`ListSessions`, `DeleteSessions` and `InvalidateSession`, one key at a time;
a ban and a change of role update the account before they revoke,
`updatePermissions` after. A login evicts down to the limit of the role it has
read (`MaxDevices`), which may not be the role any more. Which rows the collector
finds expired or long inactive is left open (`Listed`), time not being kept.
`Stop` ends a request at any statement,
`CacheSessionFails` is a Redis command that throws.

### ChapterContent

One chapter. Each request that needs one makes a fresh version prefix, so
prefixes, source files and pages are named after requests.

| State | Code |
|---|---|
| `chapter` | `contentStatus`, `contentPath`, `contentKey`, `contentVersion`, `pageCount` |
| `object` | the object store: source file, pages and manifest of each prefix |
| `op`, `job` | each request's next statement and local values; its BullMQ job |
| `reader`, `cached` | `getManifestByPayload` and `reader:manifest:<chapter>:<version>` |
| `met` | history: requests that ran, or whose job ran, together with another |
| `typed` | history: `contentPath` is one an administrator wrote with `createChapter` or `updateChapter` |

Image requests change content in place: `UploadImages` (new prefix, `PutImages`,
`PutImagesManifest`, `UpdateChapter`, `ClearCache`, `CleanUp`), `AppendImages`,
`DeleteImages`, `DeleteContent`. A file is uploaded (`PutSource`,
`MarkProcessing`, `Enqueue`) and converted by the job: `LoadSource`, `CheckKey`,
`ConvertPages`, `WriteManifest`, `MakeReady`, `DeleteSource`, `FinishJob`. Any
of these steps may throw (`FailJob`, which runs the handler's catch block and
lets BullMQ count the attempt), and nothing records it when the statement before
the `try` or that of the catch block throws (`FailJobUnrecorded`); a worker may stop (`StallJob`), and so may the
server of a request (`StopRequest`). The text, PDF and EPUB services have the
same steps in the same order, so one set of actions models the three; only the
PDF service has a statement before the `try`. `EditPath` is the path that
`chapters.service.ts` writes as it is given: any path of a request that is over,
or one with nothing under it.

### Collections

Each `Request` runs one transaction. A statement is a step; it runs when no
other request holds a row it `wants` (`Runs`), and the rows it wrote are in
`locks` until the transaction ends. What a transaction wrote is put into the
tables by its last statement, with the commit.

| State | Code |
|---|---|
| `book`, `collection`, `items`, `lastItem` | `Book.favoriteCount`, `Collection.bookCount`, `CollectionItem` and its id sequence |
| `req` | operation, next statement, locks, and the values read before |
| `raced` | history: an item came or went while its book's deletion ran |

`addBook` is `AddBook` (which reads the next position in its snapshot),
`LockForAdd`, `InsertItem`, `FavoriteAdded`; `removeBook`, `toggleFavorite`,
`reorder`, `createUserCollection`, `delete` and the book's `deleteById` follow
the same pattern. An insert waits for rows its unique keys conflict with, and
shares a lock on the key of the book it refers to. `Abort` is a failed
statement or the victim PostgreSQL chooses to break a deadlock: a set of
requests each of which waits for a row that one of them holds (`Deadlocked`).

### BookCounters

`book` holds `chapterCount` and the rating; `status`, `rated` and `written` are
the rows they count. The handlers of `chapters.service.ts` and
`books.service.ts` read a row (`ReadChapter`, `ReadContributors`) and change it
in a later transaction, which is one step (`UpdateChapter`, `DeleteBook`, ...).
`rateBook` is three (`LockBook`, `Aggregate`, `CommitRating`), because it holds
the row; a total is the number of ratings and their sum. The recount is `StartSync`, then `NextBatch`, `CountChapters` (the
statement's snapshot), `WriteCounts` (its late writes) and `SaveCursor` for each
batch; `FailSync` and `StallSync` begin it again at the saved cursor. `drift`
and `miscredited` are history: the books and counts one of the causes named in
section 4 has put wrong.

### CacheManager

A behaviour is about one value, invalidated either by deletion of its key
(`scheme = "delete"`) or by the version its key contains (`"bump"`). A value is
the number of changes its loader saw.

| State | Code |
|---|---|
| `source`, `change` | changes committed, and what their handlers still have to do |
| `entry`, `version` | Redis: values by key, the version |
| `flight` | the single-flight table of each process, with refreshes under a key of their own |
| `reader` | a request: the key it looked under, whom it waits for, its answer |
| `announced` | history: the newest change whose invalidation is complete |

`getOrSet` is `ReadFixed` or `ReadVersioned` and `GetVersion`, then `Hit` (which
may start a refresh) or `Miss` (which starts a load or joins one); `Load`,
`Store` and `LoadFails` are the load. `Commit`, then `Delete` or `Bump`, is a
change. `Expire` removes a value, and Redis may fail at any call.

## 3. The runs

| Run | Instance | Shows |
|---|---|---|
| `MCLedger` | 1 buyer, 1 chapter of price 0, 2 or free, 1 invoice, 1 manual credit, 2 requests | `TypeOK`, `LedgerBalances`, `ChargedOnce`, `PaidIsOwned`, `CreditedOnce`, `FailedNeverCredits`, the refinement `ImplementsLedger`; under fairness `RequestsFinish` |
| `MCSchedule` | 2 schedules of 1 chapter, 1 worker, 2 administrators, 2 attempts (2.9 million states) | `SingleClaimer`, `PublishedIsAnnounced` |
| `MCScheduleRestart` | 1 schedule of 1 book, 1 worker, 2 administrators, 2 times, 1 restart | `AttemptsBounded`; under fairness `FirstAttemptHappens` |
| `MCNotifyBroadcast` | 1 broadcast, 2 processes, 2 users, pages of 1, 2 attempts, 1 stall | `CursorBehindDelivery` |
| `MCNotifyContent` | 1 content event, 2 processes, 2 users, pages of 1, 2 attempts, 2 leases that run out, 1 crash | `ProcessedMeansNotified`; under fairness `EverySettles` |
| `MCSearch` | 1 book of 2 versions, announced or not, 2 events, 2 processes, 1 stall, 1 crash, 1 full synchronization | `ProcessedIsApplied`, `ConvergesWithoutOverlap`, `SettledIsFinal` |
| `MCSessions` | 1 user, 2 devices, limit 2 and for administrators 1, 2 requests at a time, 2 rows, 3 tokens, 1 account change (2.3 million states) | `TypeOK`, `TokenExchangedOnce`, `RevokedIsOut`, `CopyIsCurrent`, `DeviceLimitKept` |
| `MCContent` | a chapter with images, 2 more requests of every kind, 1 typed path, 2 attempts, 1 stop, 1 reader (1.4 million states) | `ContentIsReadable`, `ProcessingHasJob`, `CachedManifestIsCurrent`, `OnlyOvertakenIsSkipped`; under fairness `ProcessingEnds` |
| `MCCollections` | 2 books; favourites, a system collection, 2 of a user with limit 1; 2 items; 2 requests | `BookCountExact`, `FavoritesExact`, `BookLimitKept`, `UserLimitKept`, `ItemsDistinct`, `DeadlockNeedsItemFirst` |
| `MCCounters` | 2 books, 1 chapter, 2 raters, 2 requests, batches of 1, 2 attempts, 1 stall, counts off by 1 | `ChapterCountExact`, `RatingsExact`, `CreditsExact`, `RecountCovers` |
| `MCCache` | 1 process, 2 requests, 2 changes, 1 failure of Redis | `VersionedReadsAreFresh`, `DeletedKeysAreFresh` |
| `MCPaymentFinal` | 2 callbacks of 1 invoice | the counterexample to `ProcessedIsFinal` (section 4) |

### Why the bounds are enough

*Ledger.* The races are between two requests of one buyer over one chapter or
one invoice; rows of different users or chapters are independent. A price above
the balance, one equal to it and the price 0 occur. The proofs need no bound.

*Schedules.* Two schedules of one chapter are what two creations that both
passed the check leave behind. Two administrators give every pair of concurrent
requests; one worker and `publishNow` give two publishers. `Restart` at any step
covers a crash between a commit and the call to the queue.

*Outbox processors.* Two processes and one expired lease give a takeover from a
live worker; two users and pages of one give a page boundary; two attempts give
a retry and a dead letter. A crash abandons a batch. In `MCNotifyContent` a
process whose lease ran out reopens by id an event another has settled, and both
may fail and retry. It has one event: batches of several, and events without a
handler, which fail for good at once, are left to the proofs of the safety
properties, so settling is checked for one event at a time. In `MCSearch` two versions
and two events suffice for an old read to be written over a new one, since each
event is one reader and the full synchronization is a third.

*Sessions.* Two devices of one user, whose limit falls from two to one when he
becomes an administrator, give a login that evicts, one that read the larger
limit before, and sessions left over from the old role; every pair of operations
overlaps. Sessions of different users
share nothing but the device (a login takes over the row of its device).

*Content.* Two further requests over content that is already there give every
pair of requests of the seven kinds, each of which may find content or none
(after a deletion), and the typed path may come at any moment between them. No
stall is forgiven in this run (`MaxStalls = 0`: a worker that stops loses its
job): a forgiven stall puts the job back to waiting as a failed attempt does. The
proofs of the safety properties hold for every number of stalls; liveness with
stalls that are forgiven is not checked.

*Collections, counters.* Two transactions give every conflict between two; two
books and two items give a position, an order and a limit. Three items (3.9
million states) and three books were also explored. With two books and batches
of one the recount has a boundary to resume at.

*Cache.* Two changes are needed for a value that is newer than one change and
older than another, two requests for one that joins the other's load. Two
processes with three requests were also explored (with the invariant of the
proof, 685,000 states).

Where a run stops at a bound of the model (schedules, versions, rows and
requests are used up) it is checked without the deadlock check: `MCSchedule*`,
`MCSearch`, `MCSessions`, `MCContent`, `MCCollections`, `MCCounters`. The others
check deadlock. Liveness is checked without symmetry.

### Fairness

* `WalletLedger!FairSpec`: strong fairness of each request's `Step`. A request
  that has arrived keeps running, and PostgreSQL queues waiters on a row lock,
  so a request that is unblocked again and again is served. Arrivals and
  aborts are not fair.
* `ScheduledPublishing!FairSpec`: weak fairness of the clock and of a handler
  that has begun (it goes on, or a statement of it fails, in the `try` or out of
  it); strong fairness of `TakeJob` per
  schedule, because a worker may be busy at times but BullMQ hands out due jobs.
  Requests, restarts and deletions are not fair.
* `NotificationOutbox!FairSpec`: weak fairness of the expiry of an abandoned
  lease (time passes); strong fairness of claiming an event (every process has
  an interval timer, claims are ordered by `availableAt` and `createdAt`), which
  other processes may disable for a while; weak fairness of a process's own steps.
  Failures, stalls, crashes and changes of users are not fair, and leases that run
  out under a live process are bounded (`MaxStalls`). `MCNotifyContent` lets a handler fail at every statement; attempts are
  bounded by the code.
* `ChapterContent!FairSpec`: weak fairness of the call that queues the job of an
  uploaded file (the request goes on unless it stops) and of each job (it goes on
  or fails). Nothing another request does disables these for good, so weak
  fairness is enough. All other steps, stops, stalls and readers are not fair.

## 4. Where the code and its texts disagree

* **`MCPaymentFinal`: `ProcessedIsFinal`** (a run that TLC ends with a
  counterexample). `verifyPayment` writes `FAILED` by id
  (`payments/payments.service.ts:96`), so a callback the gateway refuses
  overwrites the `SUCCESS` of one that credited the wallet. The code calls such
  an invoice "already processed". The money is safe: `CreditedOnce` and
  `FailedNeverCredits` hold.

The following was met while modelling. The models contain these behaviours; the
properties are stated so that they hold in spite of them, and say where they
do not.

* *Retry of a schedule* (`scheduled-publishing.service.ts:247`). The retry is
  added under the id of the job that is still active; BullMQ ignores it, and
  the schedule stays `Pending` until the next start of the server.
* *A schedule whose claim fails* (`:197`). The claim and the read that follows it
  are outside the `try`, and the job has one attempt: after a database error at
  the claim the row is `Pending` without a job until a restart, an update or
  `publishNow`; after one at the read (`:210`), or in the catch block, it is
  `Processing` for ever. `FirstAttemptHappens` excepts the first by name (`lost`).
* *An edited schedule* (`:197`). `update` adds a job with the id of the old one,
  which fires at the old time; the claim does not compare `publishAt`.
* *Cancellation* (`:155`). `cancel` checks a status it has read and updates by
  id: a published schedule becomes `Canceled` and its content a draft.
* *Full synchronization* (`search.service.ts:257`). It writes back a book that
  was deleted after it was read; no event is left to remove the document.
* *Changes of a book that no search event tells of.* Making or cancelling a
  schedule (`scheduled-publishing.service.ts:268`, called at `:115` and `:159`)
  changes `publishStatus`; chapter changes (`chapters.service.ts:145`, `:234`,
  `:287`, `chapter-content.service.ts:128`, `scheduled-publishing.service.ts:332`)
  change `lastContentUpdate`; so do the recomputed scores and changes of types and
  genres with what they write. All of it is in the document, which stays as it was until
  the next event or full synchronization. `ConvergesWithoutOverlap` then asks only
  that the document is not older than the newest announced change.
* *A typed path* (`chapters.service.ts:138`, `:215`). `contentPath` is written as
  it comes, with no look at storage and without a page count, a new
  `contentVersion` or clearing the manifest cache: the chapter may name a path with
  nothing under it, and readers may get the manifest of the path it had before.
  `ContentIsReadable` and `CachedManifestIsCurrent` except it (`typed`) until the
  next upload, append or deletion.
* *Failures nothing records.* `mkdtemp` (`pdf-processing.service.ts:186`) is before
  the `try`, and the catch block's own update (`:275`, text `:256`, epub `:255`)
  may throw: after the last attempt the chapter stays `PROCESSING`, which refuses
  every other file. `ProcessingHasJob` and `ProcessingEnds` except it
  (`unrecorded`).
* *An append that cannot read the manifest* (`chapter-content.service.ts:92`).
  `readManifest` returns null whatever is wrong, so `appendImages` starts from no
  pages and the earlier ones are lost from the manifest.
* *The device limit of a new role* (`session.service.ts:142`). A login evicts down
  to the limit of the role it has read; a user who becomes an administrator
  meanwhile keeps more sessions than an administrator may have. `overfull` names
  these users, and those whose login or change of role stopped halfway.
* *Retries of a conversion* (`pdf-processing.service.ts:281` and the two others).
  A failed attempt clears `contentKey`, so every further attempt finds its file
  "outdated" and gives up: `OnlyOvertakenIsSkipped` lists this case.
* *Deletion of a book with chapters.* `Chapter.book` has no cascade, so
  `deleteById` fails with a foreign-key error.
* *Sessions.* A copy written after the revocation deleted its key survives
  (`session.service.ts:254`); a session created between the list and the
  deletion of a revocation loses its row and keeps its copy (`:328`);
  `updatePermissions` revokes before it writes (`users.service.ts:425`).
  `outlived` and `outdated` name the copies concerned.
* *Counters.* `updateChapter` and `deleteChapter` adjust `chapterCount` from a
  status read earlier; a schedule that is made for, cancelled or carried out
  over a chapter already `PUBLISHED` does not count it down or counts it again.
  A recount mends the count, and never damages a right one. Contributors'
  counts have the same race (`books.service.ts:976`) and no recount.
* *Deletion of a book beside a change of a collection* (`books.service.ts:1188`).
  The collections are listed before the lock: `bookCount` of the one that
  changed in between stays wrong, and can become negative.
* *Positions.* `addBook` computes the next position in the snapshot of a
  statement that then waits, so that one of two additions of different books is
  refused as a duplicate. `toggleFavorite` checks no limit.
* *Recount results.* After a retry the list of corrected ids holds those of the
  last attempt only, so caches of books corrected before it are not cleared.
* *Content requests.* Appending, deleting pages and deleting content beside
  another request, or stopping halfway, can leave a manifest without its pages
  (`Mixed` excludes exactly these).

## 5. The proofs

The theorems hold for every value of the constants that satisfies the named
assumption of the module (`LedgerAssumption`, `SessionsAssumption`, ...): any
number of users, requests, processes, events, books, versions and failures, any
page and batch size, any limit. The assumptions say that limits are (positive)
numbers, that `None` is none of the values it stands beside, and that what a
model counts is finite: the requests of `ChapterContent`, whose version is a
number below theirs, and of `Collections`, each of which may add an item, and
the chapters and raters of `BookCounters`.

Each proof has the same plan: an inductive invariant `IInv` (`CacheInv` and
`CountersInv` in `DerivedDataProofs`), one lemma per action with one step per
conjunct it can disturb, `NextIInv` or its like to join them, `Spec => []IInv` by
`PTL`, and each theorem from `IInv`. `IInv` was found with TLC's help, on the
instance of the run, before the proof was written.

| Module | Theorems |
|---|---|
| `WalletLedgerProofs` | `Invariance`, `TypeCorrect`, `BalancesAreLedgers` (`LedgerBalances`), `NoDoubleCharge` (`ChargedOnce`), `PaidChaptersAreOwned` (`PaidIsOwned`), `NoDoubleCredit` (`CreditedOnce`), `FailedStaysUncredited` (`FailedNeverCredits`), `LedgerRefinement` (`ImplementsLedger`); also `ChargesGrantAccess` and `AccessOnlyLostWithChapter`, which no run checks |
| `ScheduledPublishingProofs` | `SchedulesTyped`, `OnePublisher` (`SingleClaimer`), `BoundedAttempts` (`AttemptsBounded`), `PublishedWasAnnounced` (`PublishedIsAnnounced`) |
| `NotificationOutboxProofs` | `OutboxTyped`, `NotifiedWhenProcessed` (`ProcessedMeansNotified`), `CursorStaysBehind` (`CursorBehindDelivery`) |
| `SearchSyncProofs` | `SearchTyped`, `AppliedWhenProcessed` (`ProcessedIsApplied`), `IndexConverges` (`ConvergesWithoutOverlap`), `SettledStaysSettled` (`SettledIsFinal`) |
| `SessionsProofs` | `SessionsTyped` (`TypeOK`), `ExchangedOnce` (`TokenExchangedOnce`), `RevokedStaysOut` (`RevokedIsOut`), `CopyStaysCurrent` (`CopyIsCurrent`), `DeviceLimitHolds` (`DeviceLimitKept`) |
| `ChapterContentProofs` | `ContentTyped`, `ProcessingHasAJob` (`ProcessingHasJob`), `OnlyOvertaken` (`OnlyOvertakenIsSkipped`), `ContentStaysReadable` (`ContentIsReadable`), `CacheStaysCurrent` (`CachedManifestIsCurrent`) |
| `CollectionsProofs` | `CollectionsTyped`, `BookCountsExact` (`BookCountExact`), `FavoriteCountsExact` (`FavoritesExact`), `BookLimitHolds` (`BookLimitKept`), `UserLimitHolds` (`UserLimitKept`), `ItemsStayDistinct` (`ItemsDistinct`), `DeadlocksNeedItemFirst` (`DeadlockNeedsItemFirst`) |
| `DerivedDataProofs`, caches | `CacheTyped`, `VersionedStayFresh` (`VersionedReadsAreFresh`), `DeletedStayFresh` (`DeletedKeysAreFresh`); also `WaitersAreServed`, which no run checks |
| `DerivedDataProofs`, counters | `CountersInvariance`, `CountersTypedHolds`, `ChapterCountsExact` (`ChapterCountExact`), `RatingTotalsExact` (`RatingsExact`), `ContributorCreditsExact` (`CreditsExact`), `RecountIsComplete` (`RecountCovers`) |

**Ledger.** `LedgerBalances` is not inductive: a transaction computes the new
balance in one step (`LockWallet`) and commits it in another (`CreditCommit`,
`DebitCommit`). `IInv` adds `JobOK` (which arguments a request has at each
step), `WalletLocksOK` (a transaction that has updated a wallet holds its lock,
and the balance it will commit is the committed one plus or minus its amount),
`InvoiceLocksOK` (a request that credits an invoice holds its row, which is
still `PENDING`) and `FreshAuthority` (no two requests create the same invoice).
For the refinement, most steps change none of the mapped variables
(`InvisibleStutters`); `DebitCommitRefines` shows that a commit is a `Buy` or a
`Withdraw`, `CreditCommitRefines` that it is a `Deposit` or a `Settle`, and
`NextRefines` covers the rest.

**Scheduling.** The row alone does not say who publishes it, since an update or
a cancellation by id may overwrite the claim. What keeps a second claim out is
that no handler but the publishing one makes the row `Pending` again
(`PublisherOK`), and that the attempts it has counted are then those it had read
(`CountOK`).

**Notifications.** The unit of progress is a cursor: whoever is entitled and
comes at or before it was notified. It holds of the saved cursor and of the cursor of every handler,
however many handlers a lost lease leaves with one event (`TaskOK`); a page
contains everybody entitled between the cursor and its last user (`Pages`).

**Search.** An event tells of a change its book has had (`EventOK`), and the
newest change that needs one has one (`LatestOK`). Without an overlap a book has
one reader (`AloneOK`); once its newest change was written, every reader holds
the document that is now right (`FreshOK`).

**Sessions.** A handler holds what it has read, so each conjunct names the
request that will repair what is not yet as promised: a copy without a row is
about to be removed (`DeadCopiesOK`), a copy unlike its row is about to be
rewritten or its sessions to be revoked (`LiveCopiesOK`), and too many sessions
for the present role are about to be counted or revoked, or a login has chosen
enough of them (`LimitOK`). `TokensOK` says
that the token of a row was exchanged for none yet.

**Content.** `IInv` is `WorkOK` and, unless requests mixed, `ContentOK`. Whoever
has met no other request is alone (`AloneOK`), so while a request changes what
readers see nobody else steps; every other step writes only prefixes no reader
looks at (`StoredOK`, `PathOK`). The version grows with every change of the
path, so what an old reader stores is not current (`ReaderOK`); and the version
is bounded because each increase settles one more request (`CountOK`).

**Cache.** The invariant speaks of the values held under a key, in Redis or by a
load that has read the database. Nothing is held under a version not yet
reached (`KeysOK`), what is held under the present one is as new as the newest
change announced (`CurrentOK`), and whoever waits has a load (`WaitOK`).

**Collections.** The counts are right because they change with their rows in
one commit, but what a commit writes was read by earlier statements. So `TxOK`
says of every transaction, at each of its statements, which rows it wants and
holds (`WantsOK`, `LocksOK`) and what it has read that is still true: there is
room in the collection and the position is free (`InsertOK`), the item it will
delete is there (`DeleteOK`), the positions it will write belong to its own
items (`ReorderOK`, `MovesOK`), the collections it has listed are those that
hold the book (`BookOK`), nobody else is creating one (`CreateOK`). Another
transaction's commit keeps this because the row it would have to change is
locked (`LocksExclusive`). `SlotsOK` is about the model's bound on items. For
deadlocks, `ItemLocksOK` says that two requests which lock their collection
first never touch the same item: they would hold the lock of one collection. In
a circle of such requests everybody holds something while he waits, so he has
his collection and waits for the row of a book, for an item or to insert one;
what somebody waiting like that holds is his collection, keys of his own and
items, so that two of them would have to meet at an item.

**Counters.** A handler writes by what it has read, and the recount writes late.
`RequestOK` says what a request has read is right unless it is marked stale, and
`ChapterCountExact` and `CreditsExact` then excuse exactly what a stale one
wrote; a rating is added up and written under its book's row (`LocksOK`,
`TotalsOK`). `RecountOK` is why the late write is harmless: its statement writes
only over counts that are still known to be wrong, with a number that is right
unless the book was touched meanwhile. `CoverOK` is why a retry or a stall skips
no book: whatever lies at or before a cursor, saved or not, was recounted. Ids
are given out once, so nothing is said of a book before it is made (`MadeOK`).

**Only model-checked:** liveness (`RequestsFinish`, `FirstAttemptHappens`,
`EverySettles`, `ProcessingEnds`), which the prover does not support. Every
invariant and every action property a passing run checks is proved.

## 6. What is abstracted, assumed and left out

*Ledger.* Redis limits before the pending check can only refuse a payment and
are left out, as is the stats cache. `initializePayment` may return an existing
pending invoice; it then changes nothing. `updateChapter` computes the next
price from a row it has read, so `SaveChapter` may write any price. Amounts are
decimals of bounded precision in the database; the model has natural numbers.

*Scheduling.* Content becomes public through its schedules only; publishing a
chapter by hand beside a schedule is in `BookCounters`, deleting it is modelled
here. `maxRetries` is a constant although `update` may change it.
`enqueueSchedule` waits for Redis rather than failing
(`maxRetriesPerRequest: null`), and may fail all the same; a crash before it is
`Restart`. That BullMQ ignores a known id and
gives the jobs of a dead worker to another is taken from its documented
behaviour.

*Notifications.* The backoff of `availableAt` only delays the next claim, which
the interleavings include. `BeginBroadcast` joins the status update with the two
counts after it; no other statement depends on their order. A final update that
throws, and the second batch that `Promise.all` may then allow, are not
modelled. Reading, dismissing and cleaning up notifications change rows of one
user and are left out.

*Search.* Documents are versions of a book. `TouchBook` stands for every change
of an indexed value that keeps `publishStatus` and writes no event: besides
`lastContentUpdate` the scores the recommendation job recomputes and the slugs and
state of a book's type and genres. `UpdateBook` sees from the row whether the book
becomes public, where the code uses a value read before its transaction
(`books.service.ts:976`); this decides how many events are written, and one
announces the change either way. Meilisearch performs accepted tasks in order. A Prisma cursor whose row is gone yields an empty page (`PageOf`). Index
settings are left out. The search processor claims and retries with the same
statements as the notification processor, for which settling is checked.

*Sessions.* Passwords, Google credentials, failure counters and
`assertTrustedSession`, which can only refuse, are left out; expiry of a copy in
Redis is its absence.

*Content.* How a file becomes pages is abstracted to the pages it writes; one
page stands for those of a request. Each request is made once. Page requests,
signatures and reading progress are left out.

*Collections and counters.* `update` and `updateItem` change texts of one row,
`createSystem` adds a collection without a limit. `rateBook` also writes back
the `updatedAt` it has read, which nothing here depends on. The caches the
recount deletes at its end are not modelled.

*Cache.* Keys are taken as injective (`buildKey`), values as they were stored
(the serializer).

*Not modelled.* Sign-up codes, profiles and avatars, rate limits, reading
progress, parsing of EPUB archives, mail, object storage and media, the audit
log (inserts nobody reads back), recommendations, dashboard and public pages
(pure queries), and the frontend: user interface, which keeps no state the
server relies on, with an API client that shares one refresh between its
requests. The frontend is most of the repository's lines, which is why the map
covers a small share of them.

## 7. The plan

Done: the money side, scheduling, both outbox processors, sessions, content,
caches, collections and counters, with proofs of their safety properties.

Left, in this order:

1. `PublishPipeline`: `ScheduledPublishing` composed with the outboxes, to show
   that each publication is announced as often as it happens and reaches the index.
2. `RateLimit` with the payment limits and one-time codes.
3. Reading progress, and the single refresh of the frontend's API client
   composed with `Sessions`.

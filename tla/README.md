# Penny Pilot: a verification project

Penny Pilot is a personal finance application: an Express/Prisma API
(`src/backend`), a Next.js client with a service worker (`src/frontend`), and
the user's own Google Drive as the store of his financial records. PostgreSQL
holds accounts, sessions and settings. This directory holds TLA+ models of the
parts of it whose correctness depends on the order of things, TLC runs over
small instances, and TLAPS proofs for all instances.

- [Inventory](#inventory) - the parts, their state, how they interact, what is hard
- [Modules](#modules) - which module models what, and how it corresponds to the code
- [Runs](#runs) - what TLC checks, the bounds, the fairness
- [Proofs](#proofs) - what is proved and why the invariants are what they are
- [Known limits](#known-limits) - where the code does not keep a promise
- [Not modelled](#not-modelled)

## Inventory

| Component | State it keeps | Operations | Interacts with | Model |
|---|---|---|---|---|
| Drive record service (`services/drive/dataService.ts`) | per user: promise-chain locks, 20 s record cache, idempotency table; in Drive: one JSON file per collection and a manifest | list, get, create (keyed), update, upsert, delete, restore a revision | every data route; Google Drive | `DriveCollection` |
| Drive workspace setup (`services/drive/init.ts`, `routes/drive.routes.ts`) | `BackupConnection` row, pending account changes, folders, files, manifest with the migration marker | connect, resolve an account change, initialise, safety gate, migrate or seed, verify, mark, disconnect | record service, PostgreSQL, Drive | `DriveSetup` |
| Outbox (`lib/offlineQueue.ts`, `offlineSync.ts`, `OfflineSyncManager.tsx`, `worker/index.ts`) | IndexedDB queue, owner per page, owner in Cache Storage, Web Lock | enqueue, flush (page and service worker), reject, try again, discard | API, sessions | `Outbox` |
| Save path (`saveTransaction.ts`, `pendingTransactions.ts`, `invalidate.ts`, the forms) | form and its idempotency key, save under way, pending strip, fetched list | open, save, fall back to the outbox, show | outbox, record service | `SavePath` |
| Sessions (`sessionVersion.ts`, `sessionRevocation.ts`, `tokens.ts`, `middleware/auth.ts`, `auth.routes.ts`) | tokens in cookies, version and revocations in memory and in PostgreSQL, `Session` rows | sign-in, request, refresh, sign-out, revoke, force-logout, reset, restart | every route | `Session` |
| Account lifecycle (`account.routes.ts`, `accountLock.ts`, `accountPurge.ts`) | date of deletion and supervision on the user row, 5 s lock cache, purge timer | schedule, reactivate, supervise, delete, purge | sessions | `AccountLifecycle` |
| Authentication (`auth.routes.ts`) | count of wrong answers, lock, second factor, backup codes, forced change | password, PIN, 2FA setup, verify, disable, reverify, change | sessions, lifecycle, recovery | `SignIn` |
| Recovery (`auth.routes.ts`, `forgot-password`) | `RecoverySession` rows, cookie, page | start, choose, resend, verify, reset | authentication, mail | `Recovery` |
| Bill reminders (`services/push`, `push.routes.ts`) | `PushSubscription`, `PushDelivery` | hourly run, claim, send, retry, prune, subscribe | push service, Drive | `Reminders` |
| Categories, entries, Home, feed (`reference.routes.ts`, `controllers/`, `ledger.ts`, `ActivityFeed.tsx`) | records | create, edit, delete, guarded removal, add a subcategory, totals, pages | record service | `Finance` |
| Drive connection, session expiry, impersonation, platform configuration, notifications, mail, reports, consent, device-only storage, PWA shell, UI, voice | rows, settings or browser storage | reads, single writes, formatting | - | [not modelled](#not-modelled) |

What is hard in this code:

- **Interleavings of one Node process.** Every handler is a chain of awaits; what it read before
  an await (a cache, a row, a list of codes) is used after it. Only the writes of one collection take a lock.
- **Ambiguous failures.** A PUT to Drive may be applied and reported failed; a save is two PUTs,
  and the first failure reports the save failed while the other PUT goes on; a browser's request may be
  served though its answer is lost.
- **Several workers on one queue.** Pages and the service worker flush one outbox; pages share a
  session cookie, but each has its own idea of who is signed in.
- **State written behind memory.** Session versions are bumped in memory and written to the
  database by an update nobody awaits; restarts read the database.
- **Work that is interrupted.** The first copy into Drive, the purge and the reminders are loops of
  remote calls, any of which fails or outlives the loop.

The hazards, each at its line with the properties about it, are `hazards` in `PROJECT.json`.

## Modules

| Module | Code | Role |
|---|---|---|
| `Records` | `dataService.ts`, `types.ts` | A collection file as a function from ids to records, and what each operation does to it. Pure. |
| `RecordStore` | contract of `createRecord` etc. | Abstract specification: every operation takes effect at one moment between call and answer; answers are true. |
| `DriveCollection` | `dataService.ts`, `googleDriveClient.ts` | One collection of one user in one process: lock, caches, idempotency, GETs, PUTs, failures, restarts. Implements `RecordStore`. |
| `DriveSetup` | `drive.routes.ts`, `init.ts`, `dataService.ts:499-604` | Connecting and reconnecting Google accounts by several users, with failures at every call. |
| `Outbox` | `offlineQueue.ts`, `offlineSync.ts`, `worker/index.ts`, owner logic | The outbox of one browser with several pages, a service worker and accounts. |
| `SavePath` | `saveTransaction.ts`, `pendingTransactions.ts`, `offlineAwarePost.ts`, `invalidate.ts`, forms | One page from the click on Save to the row in the refreshed list, over what `Outbox` and `RecordStore` promise. |
| `Session` | `sessionVersion.ts`, `sessionRevocation.ts`, `middleware/auth.ts`, `auth.routes.ts`, `admin.routes.ts` | The sessions of one account in several browsers. |
| `AccountLifecycle` | `account.routes.ts`, `accountLock.ts`, `accountPurge.ts`, `admin.routes.ts` | Accounts that are closed, reactivated, supervised and purged. |
| `SignIn` | `auth.routes.ts` | The factors of one account and the handlers that read and write them. |
| `Recovery` | `auth.routes.ts`, `forgot-password` | A forgotten password: pages, requests, recovery sessions. |
| `Reminders` | `billReminders.ts`, `push/index.ts`, `push.routes.ts` | Reminder runs against devices and the ledger of what was pushed. |
| `Finance` | `reference.routes.ts`, `controllers/`, `ledger.ts`, `ActivityFeed.tsx` | Handlers that read several collections, over what `RecordStore` promises. |
| `MC*` | - | Instances for TLC. |
| `*_proofs` | - | Theorems. |

In all of them a step is the code between two awaits (or a failure, a message, the environment), and
history variables, declared last, record what the properties speak of. `PROJECT.json` maps every
definition to its lines.

**DriveCollection.** A request is a process with a `pc`: `idle` → `queued` on the lock (writes
only) → `ready` → `loading` → `loaded` → `saving` → `settled`. `queue` is the promise chain
behind `withLock()`; `cache` is `recordCache`, `idem` is `idempotencyCache`. Drive answers a GET
(`ServeGet`) before the process handles the answer (`ReturnGet`), and a PUT is sent, applied
(`ApplyPut`) or dropped, and answered separately, next to the PUT of the manifest. Record contents
are payload values; an idempotency marker inside the record is the field `key`, its hash the
payload. `RecordStore` is implemented under the mapping "the store's content is what Drive holds,
answers are answers" (`ImplementsStore`).

**DriveSetup.** `pc` walks the callback and `setupWorkspace()`: tokens saved, account change
asked, folders found, files initialised one by one, marker read, safety gate, all replaces at
once (`task`), verification, marker, `backupFolderId`. A failed flow leaves its running replaces
in `late`. Records are tagged with whose they are and whether the setup copied them or the user
saved them since.

**Outbox.** Entries are numbered in queueing order; a worker's run is `idle` → `run` →
(`adopting`) → `sent` → `answered`, one step per await of `flushOfflineQueue()`. `store` is
IndexedDB, `items` the snapshot the run works from, `tabOwner`/`cacheOwner`/`cookie` the three
copies of who is signed in.

**SavePath.** `form` and `keyRef` are the open form and its key, `save` a `persistTransaction()` under
way, `queue` and `flush` the outbox and a run as the page sees them, `rows` and `confirming` the
pending strip, `list` and `fetch` the query cache. An edit form shows the listed record at once; `Fill` is the
answer of `pendingEditBody()`, before or after the `Click` on Save. The value of the one record there was is the *set of
edits it contains*, so a lost edit is a missing element. The server is an idempotent store.

**Session.** `version`/`saved`/`writes` are the cached version, the row and the updates under way;
a sign-in is `list` → `revoke` → `create` → `answer`; a request is `sent` → `passed` or
`refused` → answered. Passkeys enter at `create` (that route revokes no rows), the forced first
password change at `answer` (it makes none).

**AccountLifecycle.** The clock counts days. `call` is an authenticated request (`miss`, `read`,
`passed`), of which `schedule` and `close` are the closing route; the lock it looked up lands in
`lockCache` a step later; a cached lock expires at any time. `purge[k]` is the list a run took and
the account it audited last.

**SignIn.** A handler reads the account once (`ReadAccount`: its copy is `seen`), compares, and writes
absolute values made from the copy. `behind` and `stale` mark copies another handler has overtaken.
`tickets` are the challenge and password-change tokens, which outlive the request that made them.

**Recovery.** A request is `sent` → `loaded` (it has read its row) → answered; the row moves through the
states of `RecoverySession`; codes are numbered. Pages are what the user sees, and answers may get lost.

**Reminders.** A run takes its users, looks at a bill, reads devices, claims (`PushDelivery`), and sends to
one device after the other; push service, database, Drive and process fail at any step.

**Finance.** Each handler reads one collection per step; `removal`, `addition`, `homeCall` and `feed` are
the handlers under way. The feed is the list after the pages read so far, with its cursor.

## Runs

| Run | Instance | Question | States |
|---|---|---|---|
| `drive_all` | 3 requests, 1 key, 2 payloads, every operation, 1 restart, failing loads and PUTs | Is the service an atomic record store that keeps its promises? | 1.3 M |
| `drive_live` | 3 requests that create, list, update, delete or restore, all failures including manifest PUTs, expiring caches, late cache fills, fairness; no restart | Is every request answered? | 0.31 M |
| `drive_late_fill` | reads whose answer is handled after a save | violation of `NoLostUpdate` | - |
| `outbox_tab` | 1 page, 2 accounts, 2 entries, all failures, 1 rename, 1 retry, 2 lapses | Misattributed, set aside without cause, sent though discarded? | 3.5 M |
| `outbox_tabs` | 2 pages with Web Locks, or a page and the service worker without; 2 entries; fairness | Lost, reordered, stuck? | 0.13 M |
| `setup` | 2 users (one with PostgreSQL rows to migrate, one as good as new), 2 Google accounts, 2 collections, 4 connects or 2 failures, or 3 and both, 1 misread | Ready means complete, marked means migrated, nothing wiped? | 1.5 M |
| `session` | 2 browsers, 3 versions, 1 session row, 1 restart | One live session; ended stays ended; an undisturbed sign-in holds? | 2.0 M |
| `accounts` | 2 accounts (one cannot be deleted), 1 call, 1 purge, 2 days, 1 restart, fairness | Closed means locked out; purged when due, audited, and at last? | 0.22 M |
| `save` | 2 forms, 1 fault, 1 loss of the connection, a service worker, Save before or after the outbox was read, fairness | One record per entry; what the user is told and sees is so? | 0.71 M |
| `credentials` | recovery: 2 pages, 2 calls, 2 sessions, 2 codes, 5 requests; sign-in: 2 handlers, 2 backup codes, lock after 2, 2 batches, 5 arrivals | Only the newest session, few guesses, earned resets; a lock that locks, used codes gone? | 1.1 M |
| `reminders` | 2 users, 2 devices, 2 runs, 1 fault, 1 change, 1 retry, fairness | Reminded once, claims earned, reminded at last? | 0.39 M |
| `finance` | four mixes: create+remove, create+remove+add, create+remove+Home, feed; 3 entries, 2 categories, 1 wallet | History keeps its categories, subcategories stay, Home adds up, each row shown once? | 0.62 M |

**Why the bounds are enough.** Three requests let a writer, a waiter and a reader meet; one key with two
payloads lets a retry, a conflict and a marker meet. `drive_live` has no verify and no upsert: a verify is a list that
finds no cache, an upsert locks and saves as an update does. Two entries are what order is about; two attempts
(10 in the code) distinguish "failed once" from "given up". Two browsers and three versions let an old
answer, a new sign-in and a sign-out meet; with one `Session` row a sign-in finds it open, revokes it,
or creates it. Two forms let an entry meet an edit, an edit an edit, and a reused form a save under way.
Two overlapping handlers are what a read-then-write races in. Five requests are a whole recovery and one
that overtakes it. One page size and three entries give pages with a row before, at and behind the
cursor. One account that cannot be deleted, or whose Drive cannot be read, stands for those that must not
hold up the others. The proofs below remove the bounds for the properties that matter most.

`credentials` joins two models in one run: a behaviour is either a recovery or a sign-in, and what a
recovery does to the account is `SignIn`'s action `Recovered`. `finance` starts in one of four mixes:
activities that share nothing are not interleaved. `session` does not explore further once a version is
lost (`CONSTRAINT NothingLost`): its properties promise nothing from there. `CHECK_DEADLOCK FALSE` is set in every run
because the systems may stop: every request answered, every bound used up. Symmetry is only used in runs
without liveness.

**Fairness.** *DriveCollection:* the event loop runs every ready callback, and Google answers every
call in the end, one way or another; nothing is assumed of clients, of cache expiry or of restarts.
*Outbox:* a run that has started goes on, requests are answered, a page keeps starting runs (timer,
`online` and focus events in `OfflineSyncManager.tsx`), the user signs in again after he was
signed out, and a request that is sent again and again is served once: failures pass. *SavePath:* handlers
run to their end, the retry timer starts a run when none is under way, fetches are answered, the account
becomes known and the connection comes back. *AccountLifecycle:* days pass, requests end, the purge's
timer fires and its run goes on through its list in any order; a deletion that is tried again and again
succeeds at last for an account that is not stuck. *Reminders:* the timer fires and runs go on; faults are
counted and bounded. No liveness is claimed where the code relies on the user alone.

**The violation.** `drive_late_fill`: a list's GET is answered before a save and handled after it, the
old file goes back into the cache, and the next create writes it, without the saved record, to Drive -
although `dataService.ts:182` calls the cached copy safe because writes are serialised; readers fill it without the lock.

## Proofs

Every module of theorems holds for all values of the constants its module declares. Apart from the theorems
listed here it has the lemmas they rest on. All runs' bounds (restarts, faults, versions, days) are
constants, so the theorems hold for any of them. Of the properties that the passing runs check, every one is a
theorem but for those under *Only model-checked*; the type invariants of all modules are theorems and in no run.

**`DriveCollection_proofs`.**
- `TypeCorrect`, `LockExcludes`: `OneWriter` alone is not inductive; `LockInv` adds that the chain holds only
  waiting or working writes, each once, and that only its head works.
- `NoDuplicates` (`OneRecordPerKey`): an operation adds a keyed record only to a file without one.
- `AnswersHold` (`AnswersAreTrue`), in every environment: `AnswerInv` says that every keyed record - in Drive, its history,
  the cache, the key table or a file on its way - is of an applied create with that key and payload (`KnownInv`), but for a
  request's own, and that an answer names one (`AnswerBased`).
- `CopiesStayFresh`, `UpdatesSurvive`, `ReadsStayCurrent`: `FreshInv` relates every copy in memory to Drive: a sent
  PUT is based on Drive's content, an applied one equals it, a loaded copy and the cache equal it but for the
  time the lock's holder waits for its answer. These hold in a *calm* environment (`Calm`: no late fill, no
  failing manifest PUT); `drive_late_fill` shows that the first condition is needed.
- `RetriesMeetOriginal` (`RetryReturnsOriginal`), calm: what a keyed create stored is still in Drive unless its removal was
  asked (`KeptInv`), so that of two creates applied under one key the first one's was (`OneOriginal`).
- `NobodyIsWedged`, `NobodyGoesBack`, in every environment: the part of `EveryRequestAnswered` that is safety. Every
  unanswered write is in the lock's chain and every save has sent both PUTs (`WedgeInv`), so whoever has no step to take
  waits for the head of the chain, which has one, or for a read that Drive has served; a request only passes on to later
  stages and keeps its place in the chain. What the proofs leave to TLC is that such a step is taken, which is fairness.
- `ServiceIsAStore` (`ImplementsStore`), calm: the refinement of `RecordStore`, one step of the proof per action. An
  applied PUT is the operation, an answer is the answer; the lock, the caches, what is read and what fails map to
  stutters. That an answer without a PUT is one the store may give then is `FreshInv`.

**`DriveSetup_proofs`.**
- `TypeCorrect` and `ShownComplete` (`ReadyMeansComplete`), for any number of reads that err where the code goes on without them:
  every manifest lists files that exist, a ready root and one a late replace waits for have a manifest (`Sound`).
- `MarkersAreTrue` (`MarkedMeansMigrated`) until a second read errs (`OneMisread`), and `NothingIsWiped` (`NothingWiped`) if at most
  one ever does; with two both are false, see [Known limits](#known-limits).
- Behind these: a root has *lived* once it is marked, ready for somebody, or holds records a user saved. It
  comes to live only by the stamping of its marker, when everything copied is there and no replace is left (`MarkFlow`); from
  then on the safety gate finds its records, also when the marker is misread (`CheckFlow`), and no flow replaces files in
  it. A replace that outlived its flow waits for a root nobody lives in, and without a misread would write no less than the
  file holds (`LateHarmless`).

**`Outbox_proofs`.**
- `TypeCorrect` (with `HandInv`: a worker past the head of its loop holds an entry).
- `DeletedOnlyIfTaken`: whatever pages, service workers and crashes do, an entry leaves the store only when the
  API took it or the user discarded it.
- For a browser with one page (`OnePage`): `OnePageKeepsAccounts` (`OnlyOwnAccount`), by `OwnInv` - the
  page's owner is the cookie's account, the store's tags are their makers', and the entry in a run's hand is the
  run's account's; `NothingIsLost` (also for one account on any pages beside a service worker);
  `NoneRejectedWithoutCause` and `DiscardsAreFinal`, by `CauseInv` - the run's snapshot agrees with the store but for
  what was queued or discarded since, and attempts count real failures.
- `OrderIsPreserved` (`AppliedInOrder`), where runs exclude each other and their account cannot change under them (`Orderly`):
  one account that keeps its uid, on any pages with Web Locks or one page without; or one page, any accounts, every
  entry queued with an owner. Its invariant `OrderInv`: one run at a time; what waits for an account comes after what
  the API took last for it (`NoneBehind`); what a run still has to send does too, and what waits but is not in the
  run's snapshot was queued later (`RunsOrder`). Outside `Orderly` TLC finds it violated, see
  [Known limits](#known-limits).

**`Transactions_proofs`**, save path (`SavePath`).
- `SaveTypeCorrect`: keys are a bounded set in the model, and `KeysSuffice` shows the bound, two keys per form, is never met.
- `OneRecordEach` (`OneRecordPerEntry`): an entry keeps one key wherever it is (form, request, outbox, server), and no two bear
  the same (`Kinds`, `OneKey`).
- `TruthIsTold` (`TellsTheTruth`): what leaves the outbox the server has (`Honest`, `LeavesForServer`).
- `EachShownOnce` (`ShownOnce`): the strip shows what was last read of the outbox (`StripIsRead`), lists only grow, and
  what leaves the strip is in the list or in a fetch that began after the server had it (`LeavesForTheList`).
- `EditsAreKept` (`EditsBuildOnEdits`): what is sent is the oldest edit in the outbox, and every later one that was not
  begun blindly contains it (`RunInTurn`, `Builds`), also when it was saved before the outbox was read for its form and none
  waited there (`ClickEdits`); if one waited, the edit is *blind*, and exempt. The proof failed at first for a good reason: with three forms, an edit built on a
  blind edit may be refused and sent after another. What a form may be expected to know (`Known`) now says that, and a
  run with three forms had been too large to show it.

**`Transactions_proofs`**, records (`Finance`).
- `TypeCorrect`, `RemovesUnused`, `KeepsSubcategories`: a removal that found nothing has, for every
  collection it has read, only records written since that name what it removes; an addition carries the
  subcategories it did not race with.
- `ShownPageByPage` (`FeedShowsEachOnce`), by `FeedInv`: all rows on pages are the cursor's or newer (`CursorIsLast`); what was
  read for the next page has every row that stayed (`HasWhatStayed`); what stayed and is not beyond the cursor is on a page
  (`NothingSkipped`). `PageIsNewest` is the lemma about the cut: the page holds the newest `PageSize` rows, so that what is
  cut off is beyond its last.

- `HomeFiguresAgree` (`HomeAddsUp`), for any finite set of records and any amounts: the sum over a finite set unfolds
  (`SumUnfolds`), so one element can be taken out of it (`SumTakesOut`), so the sums of groups add up to the sum of
  the whole (`SumOfParts`). The library's rule for induction over finite sets takes a predicate as parameter, which the
  provers cannot instantiate; the lemmas argue by a smallest counterexample instead (`SmallestOf`).

**`Session_proofs`.**
- `TypeCorrect`. `SingleSession` (`OneLiveSession`): `Distinct` says that no two browsers have a *claim* to one
  version, where a claim is a token in a cookie, in a request under way (its answer may bring it back), or the
  version of a sign-in under way; no claim is above the current version; `Behind` (the database lags by the
  updates under way) makes a restart harmless.
- `NoRevival` (`EndedStaysEnded`): whatever token a browser has or may get back is its
  sign-in's or *dead*, and the dead stay dead, also over a restart.
- `SignInsHold` (`SignInHolds`): while nothing disturbs a sign-in it is the only one under way and has the newest version
  (`Undisturbed`), only rows that exist are ever revoked (`Known`), so not the one it is about to create, and no request of
  that browser is about to be refused (`Arrived`).

**`AccountLifecycle_proofs`.** `TypeCorrect`, `ClosedIsLockedOut`, `PurgesAreAudited`, `PurgesWhatIsDue`. Behind the first: a lock
that lets a request pass, cached or in its hands, was open while the request ran or belongs to a change
under way. Behind the last: nobody gets past the lock of an account whose date has come, so nobody postpones it,
and a reactivation was checked before the date or is remembered as crossing it (`CheckedInTime`).

**`Credentials_proofs`.**
- Of `SignIn`: `SiTypeCorrect`, `GuessesLockIt`, `CodesHold`: a handler that nothing has overtaken still holds what the
  account holds, the count is at least the wrong answers given, and no code is of a batch still to be made.
- Of `Recovery`: `RecTypeCorrect`, `NewestOnly`, `ResetsAreEarned`: a start that is under way has ended every other
  session and no handler brings one back; a session is authorized only once a method was answered right.
  `FewGuessesPerChoice` (`FewGuesses`): since the last choice or code, the wrong answers judged and those under way to be judged
  are bounded together, by the limit and the calls that can overlap; the bound is a cardinality, and the lemmas count the
  calls. It bounds no session as a whole, see [Known limits](#known-limits).

**`Reminders_proofs`.** `TypeCorrect`, `NeverTwice`, `NoEmptyClaim`: a claim is held by one run at a time, and while
it is unanswered for a device, that device got no more than what was lost.

**Only model-checked.** Liveness: `EveryRequestAnswered`, `PendingIsSettled`, `DueIsPurged`, `SyncingIsListed` and
`DueIsReminded` need fairness and so `ENABLED`, which is out of the prover's reach.

## Known limits

Behaviour outside the checked instances, or exempted by a property's own text, in which the code does
not keep a promise; and what the models assume of the environment. Each follows from the models with other constants or from the lines named.

*Record service.* Drive settles a PUT before a broken connection is reported to the process. A manifest
PUT that fails before its file PUT lands releases the lock early (`NoLostUpdate`). A record that was
created, deleted, forgotten by the key table and created again by a retry comes back
(`RetryReturnsOriginal` exempts deleted records). `replaceCollection` assigns to the cached file before its PUT
(`dataService.ts:402`), so readers may see records that are never saved; an account switch clears caches an
operation begun before it may refill (`:76`); two requests that find no folder both create one
(`googleDriveClient.ts:81`). These three are in no model.

*Setup.* A first copy that was interrupted is refused by the retry with 409 (`init.ts:339` against the
comment at `:305`, `drive.routes.ts:181`). Two reads that fail in passing replace a collection by an empty
file (`dataService.ts:524`; `MaxMisreads = 2` shows it). One connect flow runs at a time, the two PUTs of a
save settle together, verification reads as one step, collections are visited in any order, OAuth state and
its expiry are left out, users delete nothing. A user with rows of accounts or payment methods only is seeded, and they are never copied
(`init.ts:137`, `Migrates`). Locks are a user's own, so a replace that outlived one user's flow can land on what another user,
who connected the same Google account meanwhile, has set up and saved since: `NothingWiped` fails in 22 steps when `Begin` does not wait
for `late`, which is an assumption of the model and nothing the code does. A choice answered after another reconnect leaves the
connection on a folder of the other Google account; a second user who connects the same Google account
adopts its workspace; two "start fresh" on one day share a folder; reconnecting after it returns to the
main folder; the verification does not see files it cannot read.

*Outbox.* With two pages, a sign-out in one is not told to the other (`AuthContext.tsx:449`), which goes on
sending its account's entries under the cookie of whoever signed in since (`offlineSync.ts:49-51`): `OnlyOwnAccount`
needs one page, and so do `RejectedForCause` and `DiscardIsFinal`. `AppliedInOrder` fails in three ways that `Orderly` excludes: that
page's late entries follow newer ones of the cookie's account; two pages and a uid change, where the page with
the old uid sends its entries after the other's; and one page whose run has adopted an entry without an owner, when
the account changes before it is sent (`offlineQueue.ts` orders the entries of one account, and the server sees the cookie's). The service worker takes no Web Lock
(`AppliedInOrder`), reads the owner once per run (`worker/index.ts:104`), counts 401 as a failed attempt (`:136`)
and loses the API origin when the browser stops it (`:114`, after which the frontend's 404 sets entries aside).
A sign-out forgets the owner, waits for `POST /logout`, and then forgets the user (`AuthContext.tsx:457-459`): one step in the
model. A changed uid strands the entries queued under the old one (`AuthContext.tsx:624`; `PendingIsSettled` has
`MaxRenames = 0`). The server settles a request before the same queue's next run; `createdAt` orders entries
of several pages.

*Save path.* `enqueueMutation` waits for `navigator.serviceWorker.ready` (`offlineQueue.ts:103`), which never resolves
without a registered worker; the model has one. After the service worker confirmed an entry the strip is
not told to read again (`ShownOnce` and `EditsBuildOnEdits` exempt it). Save is on before `pendingEditBody()` has answered (`TransactionFormModal.tsx:111`, `AddTransactionSheet.tsx:113`): edit
1 is saved and waits in the outbox, edit 2 is opened on the same record and saved before the outbox was read, so its values are the
listed ones, and once both are sent edit 1 is gone - which the comments at `TransactionFormModal.tsx:110` and
`pendingTransactions.ts:131-134` mean to prevent. `EditsBuildOnEdits` exempts that edit (`Click` makes it `blind`), and fails without the
exemption. When the outbox answers later, it resets the form, with what was typed until then (not modelled: an edit keeps
what it is about). An entry that IndexedDB does not take (`enqueueMutation` throws) is not modelled: the save fails and the form
keeps key and input. An edit opened while an earlier one is confirmed but not listed
overwrites it (`pendingTransactions.ts:131-141`, `blind`). So does an edit built on such a one that waits: when the
earlier is refused, the later goes out with what it took from it and without what both never saw. `onSuccess` closes whatever form is open
(`TransactionFormModal.tsx:143`). An edit that was refused and is tried again meets edits made in between that
know nothing of it; one overwrites the other. Device-only mode is left out.

*Sessions.* One account, one authenticated request per browser at a time; the deadline may pass at any
time. A row update and the cache entries that follow it are one step. Suspension and impersonation are
left out. A version that is lost or overtaken before a restart (`sessionVersion.ts:19`) brings ended tokens back; so does a
start whose loads fail (`index.ts:15-24`) and the serverless entry `backend/api/index.ts`, which never calls
`main()`. A browser's two cookies are one. Overlapping sign-ins may revoke each other's rows
(`auth.routes.ts:366`), and a force-logout that lists rows after answering (`admin.routes.ts:327`) may revoke
a newer sign-in's. The logout of a browser whose token is long ended still ends the newer sign-in elsewhere.
A second-factor check or UID change that began before a sign-in elsewhere brings its browser back with the
new version, and the tokens those routes issue carry no session (`auth.routes.ts:834`), so revoking the row
does not reach them.

*Account lifecycle.* An owner whose reactivation is under way when his date comes, so that the purge
puts the account on its list first, is purged all the same (`account.routes.ts:212` against `accountPurge.ts:15-23`; `crossed`). A lock looked up before a change
may be cached after it, for five seconds (`late`).

*Sign-in.* Overlapping wrong answers are counted once, and a late failing handler can lift a lock (`raced`); a code
taken from an outdated list brings used codes back or loses new ones (`torn`). The forced change issues its
session before the second factor is asked, and a challenge outlives a password reset for its five minutes.
`POST /pin/verify` judges a PIN of somebody who is signed in and counts nothing (`auth.routes.ts:645-650`; only its rate limiter
bounds it): it is no part of `GuessesLock`. Which answers are right is a choice of the client; rate limiters, portal, suspension and restriction checks
are left out, because their refusals change nothing.

*Recovery.* Overlapping starts leave two active sessions (`overlap`); a choice overtakes a verification under way, so
that the "set once" method of `schema.prisma:301` is not the one that was answered, and two resets in flight both
set the password (`crossed`); overlapping answers exceed the limit, each by one (`FewGuesses`).
Choices of a method have no limit of their own; each starts the method's count anew, and that of mail also the count of resent codes
(`auth.routes.ts:997-1034`), so the wrong answers a session takes in all are bounded by nothing but its expiry and the rate limiters.

*Reminders.* A restart or a failed statement between a claim and its release silences the reminder
(`schema.prisma:652`, `cut`). A push whose answer was lost is sent twice, under one tag. A device that failed is not
tried again when another one accepted. In the model a user has one bill, hours do not matter, and the due
day lasts.

*Finance.* Nothing checks that the category of a saved record exists, and a record saved between a removal's check
and its delete keeps a dangling category (`fresh`). Overlapping additions of subcategories lose one (`raced`).
Bills, investments and goals are rows of the feed as budgets are; the feed's amount, date and text filters
are its type filter.

## Not modelled

The code that decides *when* things happen is modelled; most of the repository is code that decides how
they look or what they add up to. By size: pages, components and styling of the client (more than half of
all lines); templates, builders and transport of mail; reports, exports and PDF; texts; list-and-edit routes of
single rows (admin console, notifications, platform configuration, bills, goals, investments), which are one
statement of PostgreSQL or one operation of `RecordStore` each. A definition per line of these would restate
them, and no property would relate two of them. The map therefore covers a small share of the lines.

- *Drive connection and tokens*: the token refresh is Google's library; that calls fail is in the models of the record
  service and the setup.
- *Session expiry*: `Session` lets the deadline pass at any time, which is weaker than any rule about it.
- *Passkeys, sign-up, sign-in by mailed code*: ceremonies of a library and single-use rows; how their sign-ins end is in `Session`.
- *Impersonation*: one token with the administrator's name.
- *Capital, analytics, health engine*: arithmetic on records. Reading it, one inconsistency: the API's `savingsRatePct`,
  `budgetUtilizationPct` and `emergencyFundProgressPct` are fractions (`dashboard.controller.ts:145-148`), and
  `HomeInsights.tsx:35-65` and `financialHealthEngine.ts:28-31` compare them with percentages.
- *Consent, voice, PWA shell, device-only storage*: append-only rows, media, caching of static files, and
  IndexedDB transactions of a single page.

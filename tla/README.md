# A TLA+ development of the NestJS base application

The repository is a NestJS backend: user accounts in Postgres (TypeORM), JWT access tokens
and refresh tokens in Redis, a response cache, Bull job queues, cron schedulers, file
storage and administration routes.  One Node process serves it all on one event loop, so
that code between two `await`s runs undisturbed and everything else interleaves.  The hard
behaviour is there: what a request read before an `await` and uses after it, what two
requests do to one row, one token or one cache key, what a failing Redis hides, and what the
queues do when a worker dies or a scheduler pass acts on jobs it read some time ago.

Paths below are relative to `src/src/`.

## Inventory

| Component | State | Operations | Interacts with | What makes it correct |
|---|---|---|---|---|
| User accounts (`modules/users`) | table `users` | create, findAll, findOne, updateProfile, update, removeById, findOrCreateGoogleUser | sessions, administration, cache | emails unique, passwords not restored by stale saves, nobody gets fields nobody gave him |
| User administration (`modules/admin/users`) | none | create, update, activate, deactivate, delete, list, search | delegates to UsersService | same; pages neither skip nor repeat accounts without a cause |
| Guards and strategies (`modules/auth/strategies`, `common/guards`) | none | JWT, local and Google validation, roles | users table | only active accounts and the right role get through |
| Sessions (`modules/auth/services`) | refresh tokens in the cache | register, login, googleLogin, refresh, logout | cache service, users | a token belongs to one account, is spent once, never revives |
| Cache service (`infrastructure/cache`) | keys in Redis | get, set, del, delMultiple, ... | Redis | errors are swallowed: callers must survive that |
| Response cache (`common/interceptors`) | cached responses | intercept GETs, evict on writes | users routes, cache service | shows true contents of the right account; stale entries have a cause and go |
| Queues (`infrastructure/queue`) | Bull jobs in Redis | add, process, retry, stats, clean | mail, schedulers | nothing lost, duplicates explained, attempts bounded, jobs come to rest |
| Retry and cleanup schedulers (`infrastructure/scheduler`) | none | retry passes, cleaning of jobs and inactive users | queues, users table | retries within limits, cleaning spares what is retried |
| File storage (`infrastructure/storage`) | a directory tree | upload one or many, download, info, list, stats, delete | file system | answered files stay and are whole, listings are honest, leftovers have a cause |
| Synchronization scheduler, dashboard | `stats:users`, a cached response | counts | users table, cache | figures are off by no more than the changes made meanwhile |
| Rate limiting, CORS (`infrastructure/security`) | counters per client and route | throttle | every route | no more than the limit in any window, no refusal without excess |
| HTTP pipeline (`main.ts`, `common/filters`, `common/guards`) | none | guards, pipe, handler, filters, in that order | all routes | a handler runs only for whom the guards let through |
| Configuration (`config`) | settings fixed at the start | validate, merge, derive | every module | what was asked for takes effect; production tables are not altered |
| Queue board (`infrastructure/queue/bull-board`) | none | mount, token check | queues | opens only to the key |
| Settings of the administration | none | show | configuration | shows the settings in use |
| Database seeder | none | seed, clear, refresh | users table | seeds once |
| Health checks, mail, responses and errors | none of their own | | | |

`PROJECT.json` lists every component with its status, and under `hazards` what is hard to test
in it, at its line, with the properties that watch it.

## Modules

| Module | What it is |
|---|---|
| `Accounts` | the users table and every request that changes it |
| `AuthSessions` | logins, refresh and logout over the tokens in the cache |
| `SessionRegistry` | abstract specification: what refresh tokens promise; `AuthSessions` implements it |
| `ResponseCache` | the caching and evicting interceptors over the users routes |
| `JobQueue` | a Bull queue, its processor, retry passes and cleaning |
| `JobService` | abstract specification: what a queue promises of its jobs; `JobQueue` implements it |
| `Storage` | uploads, downloads, listings and removals over one directory tree |
| `UserQueries` | pages, dashboard and statistics read out of the users table while it changes |
| `Configuration` | operators: from the environment to the settings in effect |
| `RequestPipeline` | the server from its start to its answers; it extends `Configuration` |
| `...Proofs` | the theorems about the module of that name and their proofs; `UserWalksProofs` those about walks in `UserQueries` |
| `MC...` | small instances for TLC |

### Accounts

A request goes through the steps its handler makes between two awaits, one per database
call: `Authenticate` (JwtStrategy, RolesGuard, validation of the body, the
self-deactivation test), `RefuseBody`, `LookUpEmail`, `ReadSubject`, `CheckNewEmail`,
`Insert`, `RereadRegistered`, `Save`, `Remove`.  The row it read stays in its entity (`snap`);
`Save` writes all defined columns of it back, as TypeORM does: it selects the row by id again,
updates the columns that differ and, when the row has gone, inserts the entity -- which the
NOT NULL password column refuses unless the request set a password.  That select and write are
one step here.  Hashing takes time but reads and writes nothing: it is the gap between two
steps.  `Age` lets half a year pass for a row, `CleanupInactiveUsers` is the cron job.  The
administrative routes call the same service methods and are the same jobs; a body is what the
DTO of the route lets through (`Declared`) and the handler or the mapper takes (`Allowed`).

History variables record what was given to an account and by whom: `given` (creation by an
administrator or the seeder, an administrator's update; the defaults for who registers
himself), `lastPwd`, and `made`/`bearer` for registrations.  The mapper's names
(`firstName`, `lastName`) are abstracted to "changed".

### AuthSessions and SessionRegistry

Requests arrive with an account (`ArriveLogin`) or with a refresh token some client holds
(`ArriveToken`) and go through `CreateAccount`, `ValidateUser` (twice for a password login: in
the guard and in the service), `ValidateGoogle`, `ValidateRefresh`, `LoadUser` (the `findOne` of login
and refresh), `LoadRegistered` (the `findByEmail` of registration), `GenerateTokens`, `RevokeRefreshToken`.
Emails are left open, since they move between accounts: a look-up by email may find any account that the
caller can use.  `LoadRegistered` therefore may find the account just made, whichever other account has taken
its email since, an inactive one included, or none; the code does not look at `isActive` there.
Every cache call may fail, up to `MaxFaults` times;
`CacheService` logs and swallows the error, so that a failing `get` is a miss and a failing
`set` or `del` does nothing.  Meanwhile administrators change accounts (`ChangeStatus`) and
entries vanish (`Expire`): when they do is open, which covers every time to live.
`SessionRegistry` says that a token is issued once to one account, and then can only die; the
refinement maps an entry in the cache to "live".

### ResponseCache

`LookUp`, `Query`, `AnswerGet` are the steps of a cached GET, `Commit` and `AnswerWrite` those
of a writing route; a row's content is the number of the write that made it.  `AnswerGet`
starts the `set` and `AnswerWrite` the `del`s without waiting (`tap` of an async function);
both leave the process in order on one connection and take effect in that order.  A response
to `GET /users` shows in the code only active accounts, here all, which can only make a list
stale more often.  `Evicted` says what the stacked `@CacheEvict` decorators amount to:
`SetMetadata` keeps one value per route, and the upper one wins.

### JobQueue and JobService

`Add`, `Take`, `Handle`, `Complete`, `Fail`, `Promote`, `Stall` are the queue and its
processor (Bull 4, external, modelled from its documented use with `attempts`, `backoff`,
`removeOnComplete`).  Bull writes the new `attemptsMade` in the transaction of the move to failed or
delayed, before the lock decides on the move: a run that has lost its lock, and ends in an error or has
its completion refused, counts an attempt (`CountAttempt`) though the job stays where it is.  `StartPass` and `Visit` a pass of the retry scheduler, which reads the
failed jobs with their `attemptsMade` once and then awaits between visits; cron does not wait
for a pass to end, so `Passes` may overlap.  `CleanupFailedJobs` is the nightly cleaning and
`CleanQueue` the administrator's.  `Crash` kills the process, `LoseLock` makes Bull believe it
died.  The three queues differ in constants:

| | retry limit | retry age | cleaned after |
|---|---|---|---|
| email | 3 | 24 h | 24 h |
| notification | 3 | 12 h | 24 h |
| default | 5 | 48 h | 24 h |

`sends` counts messages that left; for the notification and the default queue, whose handlers
only simulate work, it stands for the work done.  Completed jobs are removed at once, so that
cleaning completed jobs finds none.

`JobService` knows none of this: a job is accepted, stays open, and is delivered or dropped for
good; its message leaves once, and once more for every excuse, a run whose end the queue did not
learn.  The refinement maps every state of Bull a job can be retried from to "open" (`seen`), so
a retry of a job that is already gone would be a step the service does not have.

### Storage

A request is a job (`upload`, `get`, `info`, `list`, `delete`) over up to `Width` files; the
promises that `uploadFiles`, `deleteFiles` and `getStorageStats` start together are its *parts*,
and each awaited call of the file system is a step: `EnsureFolder`, `CreateFile`, `WriteEnds`
(`writeFile` makes the file, then fills it), `Unlink`, `AccessFile`, `ReadFile`, `StatFile`,
`ReadDir`, `StatEntry`.  `UploadRefused` answers with the first failure while the other parts
keep running, as `Promise.all` does.  `CreateFile` picks any name that was never generated:
`generateFilename` puts the time and a random suffix into it, and the model takes it at its
word (a mutant drops the word, and two uploads then share a file).  A write may fail half way
and the process may end at any moment, both counted by `faults`; the tree survives, requests do
not.  `readdir` shows subfolders as entries, `stat` of which succeeds.  A job's folder is one of a
few; a name is one that exists or may come to exist, since clients get them from answers.

History: `told` (answered paths), `batch` (how many files came with a name), `ever` and `always`
(what was in the directory at some time, or all the time, since a listing began), `known`
(what was answered before a download began), `gone` (what was removed).

### UserQueries

One query is one step, and a reader is a sequence of them: `RowsQuery` and `CountQuery` for each
page (`findAndCount`; TypeORM may leave the count out when the rows end within the page),
`DashboardCount` four times in order and `DashboardShown`, `SyncCount` three times in any order
(`Promise.all`) and `SyncStored`.  `BeginCached` answers a dashboard from the cache.  A walk asks
for the pages from the first until the answer says there are no more.  The query parameters
may be absent or senseless: the controllers declare them with an intersection type, which
`ValidationPipe` does not validate, so that page 0, limit 0 and unknown sort keys reach the
repository.  `Rankings` is every order of rows that ORDER BY allows: rows with equal keys come in
any order, anew in every query.  The writers of `Accounts` are reduced to what readers can
see of them: `Create`, `Update`, `Remove` of a row.

### Configuration and RequestPipeline

`Configuration` follows a variable through `.env` and the process environment, the Joi schema (what
is required, may be empty, is a number, has choices or a format; its defaults; unknown variables stripped),
the merge of the validated values into the process environment (only where absent), and the
factories, which read `process.env` with fallbacks of their own.  `Bootable` is the schema's verdict,
`Settings` the result, `Front` what the server starts with.  Numbers are texts of digits or texts like
`1e4`: the schema converts what it takes from the file (`Converted`, by the constant `Number`), but what the
process gives stays text, of which `parseInt` reads the digits at the start (`ParseInt`, by the constant
`Prefix`).  `ZeroFallback` is what the mail and storage modules put in place of a 0.  `Startable` is the
constructor of the Google strategy, which throws when the client id is empty, as it is by default.

`RequestPipeline` loads the settings and listens, or refuses to start (`Load`, `Refuse`, `Listen`); then requests pass
`Arrive` (CORS, then the board's middleware, which runs before any guard), `Throttle`,
`ValidateJwt`, `CheckRoles`, `Validate`, `Handle`, each the code between two awaits, with `Throw` as the
filters answer.  The counters of the throttlers are kept as the set of `hits` they counted; the
three throttlers are asked by growing ttl (the order the library sorts them in), each counts
and may refuse, and a refusal ends it.  A hit is forgotten by a timer after its ttl; timers that are
due run before new input is read, so that `Tick` may take all expiries at once.  Accounts change
under the requests (`Change`).

## Runs

| Run | Instance | What it shows |
|---|---|---|
| `AccountsFields` | two accounts (two admins, or an admin and an inactive user), three requests out of seven kinds of update, profile change and removal | `PasswordKept`; `InactiveEventuallyGone` under fairness |
| `AccountsEmails` | four ids, three emails, three requests out of twelve that take an email or carry a field that is not theirs | `UniqueEmails`, `NoForgedFields` |
| `Sessions` | two accounts, three tokens, three requests of any kind, one fault | `SessionKeepsAccount`, `SpentTokensRefused`, `TokensNeedActiveAccount`, refinement of `SessionRegistry` |
| `Cache` | two accounts, two GETs out of three, two writes out of four, one fault | `ShownWasTrue`, `StaleListHasCause`, `CacheConverges` |
| `JobsEmail` | two jobs, one pass, two crashes or lost locks; unit of time half a day | `NothingLost`, `CleanupSparesRetries`, `RetriesOnlyStalled`, refinement of `JobService` |
| `JobsDefault` | one job, two overlapping passes, two crashes or lost locks; unit of time a day | `DuplicatesExcused`, `AttemptsBounded`, `JobsSettle` |
| `Files` | two requests out of ten kinds, two names, the root and a subfolder, one failed write or restart | `StoredUntilRemoved`, `DownloadsWhole`, `ListingHonest`, `OrphansHaveCause` |
| `Queries` | one reader out of twelve questions, three accounts and room for a fourth, two changes, pages of one, two or all | `WalkSkipsOnlyAfterLeaving`, `WalkRepeatsOnlyAfterEntering`, `QuietWalksExact`, `FiguresWithinChanges` |
| `Requests` | some 500 environments, then two requests at a time out of six, two clients, three hits, three ticks, one change | `SettingsTakeEffect`, `AdmittedWithinLimits`, `RefusalsJustified`, `HandlersReachedRightly` |
| `AccountsProfile`, `CacheEntryEvict`, `JobsRetry` | small versions of the above | the disagreements below |

Every module's type invariant is among the properties of a run, and so are the inductive invariants of
`Accounts`, `AuthSessions` and `RequestPipeline`.  Those of the other modules (`IInv`, `WalkInv`, `RefusalInv`,
`StallInv`) hold on the instances of `Cache`, `JobsEmail`, `Files`, `Queries` and `Requests` as well; they are left out of
the configurations, where they would only add time to what is proved.

What the less obvious properties say:

* `WalkSkipsOnlyAfterLeaving`, `WalkRepeatsOnlyAfterEntering`: a walk in the order of creation may repeat an
  account only if one came into the view meanwhile, and miss one only if one left.  Under the other sort
  keys neither holds, for rows with equal keys have no fixed order: the properties say so by
  their premise.  `QuietWalksExact` adds that an undisturbed walk shows nothing else.
* `RetriesOnlyStalled`: what the disagreement `JobsRetry` comes to.  Where the retry limit is no more than
  the queue's attempts (email, notification), a pass never retries a job that failed by its errors, only
  one that crashes and lost locks made stall more often than Bull allows.
* `FiguresWithinChanges`: a figure read by several queries is off by at most the number of changes since
  the first of them -- the dashboard's difference of two torn counts included, and the cached dashboard
  counted from when it was read.
* `TokensNeedActiveAccount`: of logins and exchanges only.  A registration mints for whoever holds its email
  when it looks again, and no comment or test promises otherwise.
* `AttemptsBounded`: one attempt beyond the limit for every further pass that overlaps, and one for every crash
  or lost lock.  The run `JobsDefault` reaches that bound.
* `SettingsTakeEffect`: with two exceptions the property names, numbers that `parseInt` misreads (`Misread`) and
  a 0 that a module replaces (`Replaced`), what the operator asks for is what the modules get.
* `OrphansHaveCause`: files nobody was told of come from a failed write, a restart, or an upload of several
  files that was refused for one; the upload of one file leaves none.
* `RefusalsJustified`: with limits in the proportion of 10 per 10 s, 100 per minute and 1000 per ten minutes only
  the shortest throttler ever refuses.  It needs that proportion; that a refusal follows an excess
  at all (`RefusedBeyondLimit`) is proved for any limits.

**Bounds.** The slots (`Reqs`, `Readers`, `Writers`, `Slots`) bound the requests that overlap: every
race in the code is between two requests over one row, token, key or file, and a third one shows
whether a further actor can slip between them.  In `Files` one upload of two files is two
concurrent writers by itself.  `Queries` has one reader, since readers meet only in the cached
dashboard, which a reader leaves behind for the next question.  `Ids`, `Tokens` and `Names` bound how many rows, tokens and
files are ever made.  `MaxFaults` and `MaxLost` bound the failures; two lost runs let a job stall once
too often (`MaxStalled` is 1).  `MaxNow` lets a job pass both the age limit and the grace.  In
`Requests` the limits are scaled to 1, 2, 3 hits per 1, 2, 3 ticks, which keeps the order and the slack of the
real ones, and `MaxTime` lets the shortest window pass twice.  In `Queries` two changes move a row across a page border and back in from
outside; a walk has up to five pages.  Symmetry is used where no liveness property is
checked, over request slots, names, jobs and passes, which no other constant mentions.  Sessions,
cache and pipeline runs end when all bounds have been used up, so they do not check for deadlock; the
others do.

**Fairness.** Accounts: the event loop serves every request that has come in, a row nobody
writes grows old, cron fires.  Cache: requests under way are served, Redis expires entries.
Queue: Bull hands out waiting jobs, ends backoffs and finds stalled jobs, handlers end.
Nothing is assumed of crashes, faults, administrators, retry passes or the cleaning of
failed jobs.  Storage, queries and pipeline state no liveness: every request there is a
fixed sequence of library calls, and that the next one is made is all there would be to say.

## Disagreements between code and its comments

Each is a run that TLC must find violated.

* `AccountsProfile`: a profile update "may not change email, role, isActive"
  (`modules/users/services/users.service.ts:77`), but saves the entity it read before hashing
  the password, and so restores these columns over an administrator's change.
* `CacheEntryEvict`: the comment at `modules/users/controllers/users.controller.ts:161` says the
  cached `GET /users/:id` is evicted; the decorator above it replaces the metadata.
* `JobsRetry`: "Retry failed email jobs" (`infrastructure/scheduler/tasks/retry.scheduler.ts:19`),
  but a job fails after three attempts and only jobs with fewer than three are retried.

Met while reading and modelled as the code does them, without a run of their own:

* Accounts and sessions: two racing creations answer the second with 500 and not the documented
  409 (`admin-users.controller.ts:183`); an update that carries a password and overlaps a removal
  inserts the removed account again; a stale save can deactivate the administrator who was
  barred from deactivating himself (`message.constants.ts:67`); logout is answered the same for a spent
  or invalid token, where 401 is documented (`modules/auth/controllers/auth.controller.ts:189`), and when its
  cache call failed (`auth.controller.ts:185`); a registration whose email passes to another account before
  `auth.service.ts:51` is given tokens of that account, although it be inactive, next to its own data.
* Cache and queues: the list a GET read before a write may be stored after its eviction
  (`users.controller.ts:160`); `cache.service.ts:34` documents seconds where the library takes
  milliseconds; jobs of the default queue may be cleaned (24 h) while still to be retried
  (48 h); the handler of email jobs ignores the field `template`.
* Lists: the maximum of `limit` and the minima of `shared/pagination/pagination.dto.ts:66-68` never apply, since the
  routes declare `@Query()` with an intersection type (`admin-users.controller.ts:85`); page 0 ends in an error of
  the database and 500, limit 0 returns every row.
* Throttling: `SkipThrottle` sets a metadata key that `ThrottlerGuard` 5.2 does not read, so health checks are
  throttled (`health.controller.ts:19-20`); the limits per minute and per ten minutes never bite.
* Errors: validation answers 422 where routes document 400; a valid token of a deleted account is answered
  404; an unknown origin 500.
* Settings: `BULL_BOARD_*` are not in the schema and take effect from the process environment only, although
  `.env.example:76-78` sets them in the file; `FRONTEND_URL` has two defaults (3001 in the schema, 3000 at
  `configuration.ts:57`); the administration shows `JWT_EXPIRES_IN`, which signs nothing; port `"0"` becomes
  3000; `MAIL_PORT=0` becomes 587 (`mail.service.ts:35`); `STORAGE_MAX_FILE_SIZE=1e7` of the process passes the
  schema as ten million and becomes 1 (`configuration.ts:85`), while in the file it means what it says; the
  default of `GOOGLE_CLIENT_ID`, which the schema allows, stops the start; `DB_SSL=true` does nothing outside
  production (`database.module.ts:37`).

## Proofs

TLAPS checks the following for all values of the constants, from the named assumptions in the
modules (`ConstantsAssumption`, `SessionsAssumption`, `CacheAssumption`, `QueueAssumption`,
`StorageAssumption`, `QueriesAssumption`, `PipelineAssumption`), which say that model values are
distinct, bounds are natural numbers, ids, passes and throttlers finitely many, and that inputs
have their types; no two throttlers have the same ttl.  `NumbersAssumption` says that the numbers that
texts stand for are digits only, and that the defaults of the schema are.  `BirthsAssumption` says that no two accounts of the
initial table were created at the same moment and that all are older than what is created later:
`createdAt` is stamped to the microsecond, one insert after the other, and without it a page has no fixed
order (`Create` stamps later accounts by the clock).  Each module has an inductive invariant `IInv`: `Init => IInv` (`InitInv`), and every
action keeps it, with one lemma per action or per conjunct.

* **Accounts** (`EmailsUnique`, `PasswordsKept`, `FieldsNotForged`).  The properties speak of
  rows, but a row is written from an entity read earlier.  The strengthening is
  `EntitiesGiven`, which says of entities in flight what `NoForgedFields` says of rows and that they
  hold no password, and `StepsFit`, which ties steps to kinds of request and says that a body that
  reaches its insert was accepted.
* **Sessions** (`SessionsKeepAccount`, `TokensOnlyForActive`, `SpentTokensAreRefused`,
  `TokensImplementRegistry`).  `RetiredAreGone` says where a spent token's late requests can be,
  `HopeIsKept` that a request past the checks was once right to pass them; of a registration it says so only
  while its account is active, for `LoadRegistered` checks nothing.
* **Cache** (`ShownIsReal`, `StaleListsHaveCause`).  `HeldIsReal` and `StaleReadHasCause` say of
  results on their way what the properties say of entries and responses.
* **Queue** (`DuplicatesAreExcused`, `NoJobIsLost`, `AttemptsAreBounded`, `CleanupAndRetriesApart`,
  `OnlyStalledAreRetried`, `QueueImplementsService`).
  `RunsAccounted` balances messages, excuses and runs under way; `RetriesAccounted` balances
  tries made, under way and still to come from passes that hold the job, for any number of
  overlapping passes.  The attempt that a run without its lock will still count (`Stray`) is charged to `lost`,
  where the crash or the lost lock was.  The refinement needs from `RunsAccounted` that a run holding its lock has
  an active job and has not sent before without an excuse, and from `SweptAreGone` that a delivered
  job is not one a cleaning took.  `CleanupAndRetriesApart` assumes that the retry age is at most the grace, which
  holds for email and notification and not for the default queue; `OnlyStalledAreRetried` assumes that the
  retry limit is at most the attempts, which holds for the same two.  Its invariant `StallInv` says why each
  failed job failed, of the jobs a pass has read as well (`FailuresExplained`), and charges every stall, those
  still to be found included, to a crash or a lost lock (`StallsCaused`).
* **Storage** (`AnsweredFilesKept`, `DownloadsRight`, `ListingsRight`, `OrphansExplained`).  `UploadFine` ties
  what is on disk to how far its upload has come, across failures and restarts; `DownloadFine` carries over
  what a download has read so far; `ListingFine` says that what stayed all the time is found or still to be
  looked at; `TreeTidy` that a removed name never comes back.
* **Queries** (`FiguresTornByChanges`).  One change moves every count by one at most (`OneRow`), so a figure drifts
  from the table by one per change.  `CountsFit` holds the argument for the dashboard's subtraction: the total
  was off by the changes before the active accounts were counted, total is active plus inactive
  (`TotalSplits`), and so the difference is off by no more.  `RowsFit` with the lemma `ShortPageIsLast`, which
  counts along a numbering of the rows, justifies the total that TypeORM derives without a count.
* **Walks** (`WalksSkipNone`, `WalksRepeatNone`, `QuietWalksAreExact`, in `UserWalksProofs`).  Distinct creation stamps
  (`BirthsApart`, kept by every change) make the number the database gives a row the number of rows before it
  (`RankIsAhead`, by counting along the numbering), so that pages can be spoken of without numberings.  The
  invariant `WalkInv` compares that number with the rows the pages so far have covered: while nobody came in, it
  only falls, and what was shown stays covered (`ShownCovered`); while nobody left, it only grows, and what is
  missing stays ahead and keeps the total above what is covered (`MissingAhead`).  `PagesEnough` then says that
  the last page covers the total, and nothing is missing.  Page size, page count, direction, search conditions
  and the number of changes are arbitrary.
* **Pipeline** (`LimitsHold`, `RefusalsEarned`, `SpansLimited`, `OnlyTheShortestRefuses`, `HandlersGuarded`,
  `SettingsRight`).  A hit is let pass only if every throttler
  has counted fewer than its limit within its ttl, and hits are numbered in order of time (`HitsInOrder`):
  the window that begins with any hit therefore ends with one at which it was still within the
  limit.  `SpansLimited` says the same of any span of time, with the limit for each ttl begun (`WindowsWithin`): over all
  spans at once, the induction over consecutive windows is one over steps.  `OnlyTheShortestRefuses` applies
  it to the shortest throttler and the ttl of another, under the hypothesis `Proportionate`, which the limits of
  `security.module.ts` satisfy (`SecurityModuleProportionate`) and those of the run as well; that a throttler
  does not count what a shorter one refused (`ChargedUpToRefuser`) completes the argument.  `StagesFit` says of a request at each stage what it has passed.  `SettingsRight` is about the functions
  of `Configuration`, for every `.env` file and environment: a variable that is given survives the
  validation, the merge, the factories and the modules' own fallbacks, as the number it means, but for the
  two exceptions (`PlainAsIntended`, `PortAsIntended`).

Only model-checked: the liveness properties `InactiveEventuallyGone`, `CacheConverges`, `JobsSettle` (fairness is out of the
prover's reach), and the three refuted statements.  Every safety property and both refinements are proved.

## Not modelled

Formatting, logging, documentation decorators, mail templates, the headers of helmet, the actions of the
queue board, which are the library's.  `getQueueStats` and the placeholders of the synchronization
scheduler, which nothing depends on.  The indicators of the health check.  The seeder's `clear`, a
command for developers.  Times to live as numbers: entries expire at any moment.  The Google
handshake, of which the outcome is taken.  The pipes and response helpers that no route uses.
Bulk mail, which nothing calls.

## Plan

1. (done) `Accounts`, `AuthSessions` with `SessionRegistry`, `ResponseCache`, `JobQueue`.
2. (done) `Storage`, `UserQueries`, `Configuration` with `RequestPipeline`.
3. (done) The inductive invariants and the safety theorems of all of them.
4. (done) `JobService`, which `JobQueue` implements.
5. (done) Proofs of the properties of walks and of the refusals, `RetriesOnlyStalled`.
6. Left: a composition of `Accounts` and `AuthSessions` over one table; times to live as numbers (`parseExpiresIn`, seconds and
   milliseconds).

# Verification of the Slim 4 starter pack

TLA+ modules, TLC configurations and TLAPS proofs for the application code of the
starter pack: a Slim 4 API (PHP, one process per request) over MySQL/MariaDB/SQLite, an
optional Redis cache, a background worker and a file store.

## 1. Inventory

Every HTTP request runs in a PHP process of its own. Nothing is shared between two requests but
the database, Redis and the file system, and the services issue their SQL statements one by one,
outside any transaction (`BaseModel::transaction` is used by the import job only). The atomic steps
of the system are therefore single SQL statements, single Redis commands and single file
operations, and two requests interleave between any two of them.

| Component | Source | State | Operations | Hard behaviour | What makes it correct |
|---|---|---|---|---|---|
| Sessions | `Service/AuthService.php`, `Model/RefreshTokenModel.php`, `Model/UserModel.php`, `Controller/Auth.php` | `user` and `refresh_token` tables, the cookie in the browser | register, login, refresh, logout, changePassword, user, updateProfile | overlapping refreshes of one token, logout or password change overtaking a refresh or a login, a request that dies between two statements, a lost response and its retry | a rotated token is dead before its successor exists; a family has one owner; a dead family stays dead; logout and password change end what they promise to end |
| Access tokens, roles | `Helper/JwtHelper.php`, `Helper/RefreshCookie.php`, `Middleware/*`, `App/routes/*` | signed claims (id, type, expiry), health token | buildToken, claims, requestUser, the middleware chain | claims are a snapshot of the account and outlive it; order of the two middlewares | no write route without an unexpired admin token |
| Customer registry | `Service/CustomerService.php`, `Model/CustomerModel.php`, `Controller/Customer.php` | `customer` table | list, get, create, update, delete, stats | uniqueness is a SELECT before the INSERT and no unique index backs it; update after delete | no two live customers share a name or an email |
| Avatars | `CustomerService::uploadAvatar/removeAvatar/delete`, `Helper/UploadHelper.php` | `avatar_path` column, files under `public/uploads/avatars` | upload, replace, remove, delete with the customer | store, UPDATE and unlink are three steps; two uploads of one customer | the path of a live customer names a file that exists; files nobody names |
| Cache | `Helper/CacheRedis.php`, `CustomerService::list/stats` | Redis keys by generation, the generation counter, a per-request memo and `disabled` flag | namespaced, rememberJson, get, set, bump, delete | repopulation race between a read and a bump, Redis failing in the middle of a request, entry expiry | a read that starts after a write was acknowledged sees that write |
| Import job | `Jobs/CustomerImportJob.php`, `CustomerTransferService::requestImport` | the CSV, the batch, seen names and emails, counters | store, dispatch, handle, flush | crash between two chunks, retry, requests creating the same customers meanwhile | a retried import inserts nothing twice; every row lands in exactly one bucket |
| Export job, download | `Jobs/CustomerExportJob.php`, `Controller/CustomerTransfer.php` | one file per job id | dispatch, handle, download | rewriting the file on a retry while it is served | a download never serves a partial file of a completed job |
| Job queue, worker | `bin/background-worker`, `App/Services.php`, `Controller/Job.php`, migration `20260916120000` | `background_job` rows: status, attempts, lease | dispatch, claim, progress, complete, fail, recover, promote | stale leases, retries up to `max_attempts`, one active job per request id | the library `oeltimacreation/php-simplequeue` does this; it is not in the repository and is modelled from its use |
| Pagination | `Helper/Pagination.php`, `DTO/Request/CustomerListRequest.php` | none | sanitize, clamp, offset, totalPages | boundaries, integer overflow of `limit * page` | pages partition the rows |
| Environment cache | `App/DotEnv.php` | `.env`, `storage/cache/env.cache.json` and its temporary files | lookup, parse, populate, stamp, rename | `.env` edited, closed or replaced between the steps of a bootstrap; two bootstraps that rename; an edit that keeps time and size | a copy taken for the present `.env` holds its values; a bootstrap loads what `.env` said while it ran |
| Documentation page | `Controller/Hello.php` (`openSwaggerUI`), `Helper/TwigResponse.php`, `View/swaggerui`, `public/swagger/swagger-initializer.js` | none on the server; the page and its scripts in the browser | render, load the scripts, `window.onload`, fetch the specification | the base address comes from the configuration, which may be stale, from the request, which a proxy may disguise, or from `window.location` | a page that stays empty has a cause outside the code, or one the README names |
| Development runner | `bin/dev-server` | two child processes, their pipes, the list `$processes` | start, drain, restart, stopAll, signal handlers, shutdown function | a signal between any two steps; a child that writes while the runner waits for it; a full pipe | no child outlives the runner; a signal ends it; the worker comes back; nobody waits for room for good |
| Request validation | `DTO/Request/*`, `Constants/*` | none | fromRequest, validate | boundaries | pure checks |
| Bootstrap and output | the rest of `App/*`, `Helper/JsonResponse.php`, `Controller/Health`, `OpenApi`, the rest of `src/View` and `public`, `db/seeds` | the compiled routes of FastRoute | wiring, rendering | none | not modelled |

## 2. Plan

| Order | Module | Composes or uses | State |
|---|---|---|---|
| 1 | `SessionLedger` (abstract), `AuthSessions` | the ledger is instantiated in `AuthSessions` with a refinement mapping | written, checked, proved |
| 2 | `AuthSessionsProofs` | `SessionHistory` and with it `AuthSessions`, `TLAPS` | all safety properties of both proved |
| 3 | `CustomerCache` | the writes of 4 and 5, reduced to versions of the table | written, checked |
| 4 | `CustomerRegistry` | customers and their avatar files together | written, checked |
| 5 | `ImportJob` | queue, worker, `customer` table, other requests | written, checked, proved in 17 |
| 6 | `AccessControl` | the tokens that the requests of 1 return, the middlewares, the routes | written, checked |
| 7 | `CustomerTable`, `ExportJob` | queue, worker, files, downloads | written, checked, proved in 16 |
| 8 | `ListWalk` | `CustomerTable`, `Helper/Pagination`, count and select as two statements | written, checked, proved in 16 |
| 9 | `CustomerRegistryProofs` | `CustomerRegistry`, `TLAPS` | all four invariants of the registry proved |
| 10 | `SessionHistory` | `AuthSessions` under history variables: which sessions were contended for, which passwords replaced | written, checked, proved in 2 |
| 11 | `EnvCache` | `App/DotEnv.php`, with edits, closed files, failed renames and deaths | written; checked and proved within 12 |
| 12 | `DocsPage`, `DocsPageProofs` | extends `EnvCache` by the page, the browser and the deployment | written, checked, proved |
| 13 | `DevServer`, `DevServerProofs` | `bin/dev-server` with its children, pipes and signals | written, checked, its safety proved |
| 14 | `AccessControlProofs` | `AccessControl`, `TLAPS` | all three properties proved |
| 15 | `CustomerCacheProofs` | `CustomerCache`, `FiniteSetTheorems`, `TLAPS` | all three safety properties proved |
| 16 | `CustomerTableProofs` | `ExportJob`, `ListWalk`, `WellFoundedInduction`, `FiniteSetTheorems`, `SequenceTheorems`, `TLAPS` | the four invariants of `ExportJob` and the three of `ListWalk` proved |
| 17 | `ImportJobProofs` | `ImportJob`, `WellFoundedInduction`, `FiniteSetTheorems`, `TLAPS` | all four invariants proved |

What the plan has left: every safety property the runs check is also proved; what is left to TLC is
liveness. That a job is eventually done is not claimed: nothing obliges an operator to run
`bin/background-worker`.

Abstract specifications: the ledger of sessions, which `AuthSessions` implements, and `EnvCache`,
of which `DocsPage` is a refinement with more state. What a cache and a customer table with its
files promise in the abstract is stated as invariants with history variables
(`ReadsAfterBumpAreFresh`, `FilesAreAccountedFor`), because both promise less than an atomic table
would: reads may be as old as the last acknowledged bump, files of overlapping uploads may stay.

## 3. The modules and the code

All modules take an SQL statement, a Redis command or a file operation as one action. A request is
a record in `req` (or `walk`, `download`, `run`) that holds what the PHP process keeps in local
variables between two of them, with a `pc` that names what it runs next. Operators called
"Variant, not the code" are single-point changes of the definition that follows them; nothing in a
specification uses them. They are there to see a property fail when the code is changed.

**AuthSessions.** `account` and `password` are the `user` table, `row` is `refresh_token` by token
hash, `cookies` are the tokens clients received. `Register`, `CreateAccount`, `ReloadAccount` are
`AuthService::register`; `Login`, `PruneExpired` are `login`; `Refresh`, `KillReusedFamily`,
`RevokeStale`, `FindOwner`, `Rotate` are the branches of `refresh`; `Logout`, `EndFamily` are
`logout`; `ChangePassword`, `StorePassword`, `FindKeptFamily`, `CutOtherSessions` are
`changePassword`; `Insert` and `Respond` are the shared tail, `createSession` and
`sessionResponse`. `Crash` ends a request before any of its statements, and at `respond` stands for
an answer that is lost, after which the client comes back with the old cookie. `ended` remembers
what ended a family and `row[t].parent` the token a refresh read; the code has neither.
A request that the code turns away before its first write is left out, because it changes nothing.

**SessionHistory.** `AuthSessions` step by step, with three variables that watch and never decide.
`contended` are the sessions on which two requests worked at the same time, `outdated` the sessions
(and logins under way) opened with a password that has been replaced since, `spared` those of them
that have a reason to live on. They let the promises of the docs be stated where the code keeps
them: for every session no two requests contend for, among any that do. Time stands still and
nobody deactivates an account here; both only take sessions away, and `AuthSessions` has them.

**SessionLedger.** The promise behind it: sessions open, are extended behind a dead token, and
close; an entry never changes owner and never revives.

**CustomerCache.** The table is the number of writes committed to it (`data`), and a cached answer
is the pair of numbers its two queries saw, so that a torn answer shows. `ReadVersion`, `Lookup`,
`FirstQuery`, `SecondQuery`, `Store`, `Serve` are a cached read (`CustomerService::list` and
`stats`); `Write`, `Bump`, `Answer` a write of the API; `ImportChunk`, `CompleteImport` the import
job, which bumps nothing. Every Redis command may fail, and then disables the cache for the rest of
its request; a failed `INCR` may or may not have been applied. `Expire` is the time to live.

**CustomerRegistry.** `customer` is the table, `disk` the files, `owner` remembers whose upload a
file was. `create` and `update` are `StartCreate`/`StartUpdate`, `CheckName`, `CheckEmail`,
`Insert`/`Update`; the avatar operations are `ReadAvatar`, then `StoreFile` and `PointToFile`,
`ClearAvatar` or `SoftDelete`, then `Unlink`. `Update` also writes to a row that was deleted
meanwhile, as the SQL does. `contended` remembers customers whose avatar requests overlapped or
died.

**ImportJob.** `requestImport` is `StoreUpload`, `CheckHeader`, `Dispatch`; the loop of `process`
is `ReadRow`, `Flush`, `EndOfFile`; the `finally` of `handle` is `Unlink` on the way out and is part
of `Throw`. A row of the file is empty, invalid, or a name and an email; a name is its letters, their
accents and their case, because three comparisons tell names apart differently: `mb_strtolower`
(`seenNames`) drops the case, `utf8mb4_unicode_ci` (`phinx.php:45`) compares the letters alone, and
SQLite compares everything. What else a collation equates (ligatures, characters it does not know)
counts as the same letters. `customers` also records which row and which attempt inserted it.
What a single run accepts (`Acceptable`) is not computed by a loop like the code's but characterised:
the one set of rows in which a row is when no earlier customer is in its way and no row above it, also
in the set, keeps it out. A row does that (`KeepsOut`) when `seenNames` or `seenEmails` has it, or when
its chunk has been inserted by then and the database takes the two names for one. So José is kept
out by Jose on MySQL when a chunk ends between them, and is imported beside it when none does.

**ExportJob.** `Count`, `Dispatch` are `requestExport`; `CountRows`, `Open`, `Query`, `PutRow`,
`CloseFile`, `Report` are `handle`, line by line, with an `fputcsv` that writes a part of the line (`Torn`)
or nothing when the disk is full, which the code does not notice; `Ask`, `Stat`, `Read` are the download, which announces a
length and then streams. `InOrder`, in `CustomerTable`, is the `ORDER BY id` of `iterateForExport` and
of `get`.

**AccessControl.** A token is its claims. `ReadAccount` and `BuildToken` are the two ends of a
login, registration or refresh; `Receive`, `Authenticate`, `Authorize`, `Handle` are the middleware
chain in the order in which Slim runs it (last added, first run) and the controller.

**ListWalk.** One client asks for page after page; `CountGet` and `Get` are two statements, so the
total and the rows of one answer may disagree. The operators of `Helper/Pagination` are translated
as they are, over integers. `steady`, `left` and `returned` are history. The names of its state and
steps (`WalkInit`, `AskPage`, `WalkSpec`) differ from those of `ExportJob`, because both extend
`CustomerTable` and are proved about in one module.

**EnvCache.** `env` is `.env` with its mode, content and modification time, `cache` is
`env.cache.json`, `load` what each bootstrap remembers. `Begin`, `CheckAbsent`, `ReadCopy`,
`Compare`, `Parse`, `SkipCopy`, `MakeCopy`, `InstallCopy` are the accesses to files in the order of
`DotEnv.php`; a copy this process may not read (mode 0600, another user) is as good as none, and a copy
made when `.env` was gone matches when it is gone again, for `filemtime` is `false` both times; `Edit` is an editor, a deployment or a `chmod`, `Second` the clock of the file system,
`Die` the end of a process anywhere. A content has a size and a meaning; two contents may share
either. `raced`, `had` and `during` are history: they name the causes of a stale copy.

**DocsPage.** `EnvCache` with one process that answers `GET /swaggerui`. `Open`, `Render`, `Refuse`
are the request, its bootstrap and `TwigResponse`; `LoadScripts`, `OnLoad`, `FetchSpec` are the
browser and `swagger-initializer.js`; `LoseScript`, `LoseSpec`, `Kill` are faults. A deployment
(`Sites`) is the address users type, the origin PHP sees, and the addresses that lead to the site.

**DevServer.** `child` is what the system knows of the two children, with the lines in their pipes;
`processes`, `closed`, `running` are the variables of the script, `pc`, `starting`, `todo` where it
is, `mode` whether the script, the signal handler or the shutdown function runs. `Spawn`, `SpawnFails`, `Keep`,
`Turn`, `Drain`, `Reap`, `Drop`, `Wake` are the start and the main loop; `Terminate`, `Await`,
`Trip`, `Leave` are `stopAll`; `Signal`, `Handle`, `KillRunner` come from outside; `WriteLine`,
`Quit`, `Obey` are the children. `proc_open` gets a command string, so the child is `/bin/sh`; the model
assumes that the shell replaces itself by the one command it was given, as dash and bash do. With
a shell that forks instead, `proc_terminate` would end the shell and leave PHP behind. `Trip` is the `TypeError` of `proc_get_status` on a process that
the interrupted loop had closed and not yet unset.

`oeltimacreation/php-simplequeue` is not in the repository. `Claim`, `Fail`, `Complete`, `Recover` and
`Crash` of the two job modules follow from how `bin/background-worker`, the migration of
`background_job` and `docs/background-jobs.md` use it: one worker at a time behind a lock file, up to
`max_attempts` claims of a job, a stale lease recovered by the next worker.

## 4. The runs

| Run | Shows | Bounds |
|---|---|---|
| `sessions_concurrent` | with two overlapping requests that may die: no token usable beside its successor, no session lost without a reason, no dead session revived, nothing new for a deactivated account, every statement a step of the ledger | one account, two passwords, three tokens, two families, one tick |
| `sessions_history` | the docs' promises of rotation, reuse detection, logout and password change hold for sessions nobody contends for; a session opened with a replaced password is usable only for a named reason | the same without ticks and deactivation |
| `cache` | acknowledged and bumped writes are seen; stale entries have a write without a bump behind them; the cache converges | two processes, one key, two writes |
| `cache_import` | a read after a completed import misses its rows | the same |
| `registry` | avatars of live customers exist, left-over files have an explanation, duplicates need overlap | two requests, three customers, one name, one email, two files, one abort |
| `import` | retries insert nothing twice, add up to a single run on MySQL and, but for one name in two cases, on SQLite, and results add up | every file of three rows over four names (one in two cases, one with an accent, one other) and one email; chunks of two; two attempts; one edit; two names for other people's customers (`OtherNames`); both databases |
| `import_retry` | an attempt that throws takes the file away from its retry | the same without edits |
| `access` | a writer was an active admin when its session read the account; a locked-out account stays out | one account, two requests, one token at a time, lifetimes of 1 and 2 ticks |
| `export` | a download is one whole answer, but for what a full disk refused; the limit is passed only with the table; 100 percent is a whole file, but for the disk | two jobs, one client, two customers, limit one, two edits, two attempts |
| `list_walk` | missed and repeated rows are paid for by rows that left or returned | five customers, three edits, limits from missing to above the maximum |
| `docs_page` | a stale copy of `.env`, a bootstrap that loads what `.env` never said and a page without specification each have a named cause; once `.env` leads to the site and stays put, the page shows | two processes, three contents (two of one size, one that does not parse), three deployments, one edit, one tick, one fault |
| `dev_server` | no child outlives the runner but for three named reasons; a signal and the end of the webserver end it; the worker comes back; a full pipe is emptied | two children, pipes of three lines, drained two at a time, two signals |

Why the bounds are enough. Two requests are the smallest number that interleave, and every hazard
listed is a conflict of two. Three tokens let one family rotate twice, or one rotate while another
opens; the theorems below hold for any number. Two things one tick and one account cannot show rest on
the theorems alone: that pruning loses no session that has not expired (`SessionsAreKept`), and that
no step moves a session to another account (`RefinesLedger`). One edit of `.env` gives every race of the copy with
it, and a tick lets the edit keep or change the time. A pipe of three lines drained two at a time
gives an empty, a partly drained and a full one, and the second signal falls into the handling of
the first. Two writes let one bump overtake the other. Three
rows with chunks of two give a full and a partial chunk, a crash between them, and variants of one name
in one chunk and in two. No symmetry is declared there, because names are compared part by part. Two attempts give
one retry and one final failure. Five customers with limits of 1 to 3 give first, middle, last and
partial pages. Fresh identifiers are finite sets, and requests that would need one more are held
back (`Free`, `Unused`, `Room`), so a run never stops for want of an identifier. `CHECK_DEADLOCK FALSE` is
said only of `ExportJob` and `ListWalk`, where every export is done and every edit spent, and of
`DevServer`, where the runner ends.

The number of overlapping holders in `DuplicatesNeedOverlap` is the number of requests; the run
has two requests and three customers, so a third holder would be possible if the check were broken.

### What fails in the code

Two runs expect a violation; each counterexample is an execution of the code.

- *Import and cache* (`cache_import`): the job does not bump the namespace.
- *Import and retry* (`import_retry`): the `finally` removes the file although the queue will retry.

Other limits are part of a property that holds, which says exactly when the promise fails:

- *Rotation* (`UncontendedPromisesHold`). `RefreshTokenModel` promises "Rotation keeps one token per
  session family.", but `revoke` does not report whether it changed a row (`AuthService.php:126`), so
  both of two overlapping refreshes insert a successor. For the same reason a logout, a reuse or a
  password change between the `revoke` and the `create` of a refresh leaves the successor alive.
  The promise is claimed of uncontended sessions only.
- *Names* (`DuplicatesNeedOverlap`). The uniqueness check and the insert are two statements without
  a unique index (`CustomerService.php:90`), so overlapping requests may share a value. As many
  as overlap, and no more.
- *Configuration* (`StaleCopyHasACause`). `docs/architecture.md:303` names one way in which the copy of
  `.env` is mistaken for the present file, the edit that keeps time and size. There are two more: an
  edit between the parse and the stamp of one bootstrap, and a file closed between `is_readable` and
  the parse, which is cached as empty.
- *Documentation page* (`BrokenPageHasACause`). `swagger-initializer.js` asks the origin of the page
  for `/openapi.yaml` and so never shows the specification of an application below a base path
  (`SLIM_BASH_PATH`) unless the root serves one too; without `APP_BASE_URL` the links of the page go to
  the origin PHP saw (`TwigResponse.php:30-32`), which behind a proxy that ends TLS is not the user's.
- *Development runner* (`NoOrphans`). A child stays behind when the signal comes between `proc_open`
  and the assignment to `$processes`, when it comes between `proc_close` and `unset` (then `stopAll`
  ends in a `TypeError`), and when the runner itself is killed.

- *Left-over avatars* (`FilesAreAccountedFor`). `docs/api-conventions.md:237` says "Replacing or deleting
  a customer removes the old file." Two overlapping avatar requests of one customer, or one that
  dies between its statements, leave a file nobody names (`contended`).
- *Export limit* (`OverLimitOnlyByGrowth`). `CustomerTransferService.php:26-27` calls `EXPORT_MAX_ROWS` the
  "Upper bound for a single export, keeping the queue payload and the generated file bounded." It is
  compared with a count taken at the request; the job selects later and without a limit, so the
  file is longer by as many rows as began to match in between.
- *Export on a full disk* (`ProgressIsHonest`, `DownloadIsWhole`). The job reports 100 percent, "Export
  complete", and a `row_count` the file does not have (`short`).
- *Retried imports on SQLite* (`RetriesAddUp`). "Rows whose name or email already exists are skipped"
  (`CustomerImportJob.php:17`) by the comparison of the database: on SQLite a retry may insert a name in
  another case, which the first attempt had refused as a duplicate within the file.

Beside these, the models show behaviour that no document promises otherwise: uploads refused at
their header stay in `storage/imports`, on MySQL a chunk boundary decides whether a name that differs
by its accents is imported or skipped, and what an exited worker left in its pipe beyond one chunk, or without a line end, is not printed.

### Fairness

Liveness is claimed where the code or the system below it goes on by itself, and nowhere else.

- `CacheConverges`: `WF(Proceed(r) \/ Crash(r))`, PHP goes on with a request or kills it at
  `max_execution_time`; `WF(Expire(g, k))`, every key is written with `SETEX`, and Redis removes it when
  its time is up. New requests get no fairness.
- `ConfiguredPageShows`: `WF(Boot(Server) \/ Render \/ Refuse)`, the process that serves the page runs;
  `WF(Browse)`, so does the browser. Nobody has to open a page, edit `.env` or meet a fault; that
  users keep opening the page is a premise of the property.
- `StopsWhenAsked`, `WorkerComesBack`, `NobodyStaysStalled`: `WF(RunnerStep)`, the main loop never
  blocks; `WF(Handle)`, `pcntl_async_signals` runs a handler before the next step; `WF(Obey(n))`, a
  child ends at SIGTERM. Children need not write or end by themselves.

All other properties are safety.

## 5. Proofs

Eight modules hold theorems. Each theorem is about the `Spec` of its component, for every value of
the constants that satisfies the named assumptions of that component; TLC evaluates those assumptions
on every run and checks the properties themselves on the run's instance.

**Sessions** (`AuthSessionsProofs`; `NoneIsNoValue`, `TTLAssumption`, `RequestsAreNoFamilies`).

- `TypeCorrect`: `Spec => []TypeOK`. It needs `DeliversToken`, that a request about to answer holds a
  token.
- `RotationIsSafe`, `FamiliesAreOwned`, `RefinesLedger`: `[]RotatedTokenIsRevoked`,
  `[]FamilyHasOneOwner` and `ImplementsLedger`. None is inductive: a refresh inserts a successor for a
  token it read earlier, and the property does not say what it read. The invariant adds
  `RowsConsistent` (a token that was never issued has no family and no parent) and
  `RequestsConsistent` (what a request remembers of a token is what the row still says, and a request
  past `Rotate` has a revoked predecessor). They hold because rows are never deleted, never change
  owner or family, and are never un-revoked. `FamilyHasOneOwner` is in no run: an
  instance with one account cannot violate it.
- `DeadFamiliesStayDead`, `DeactivatedAccountsGetNoToken`: the two action properties. `MovesOf` says
  once what a request that reaches the insert has read; a family revives only through one.
- `SessionsAreKept`: `[]SessionsAreNotLost`. It adds `StaleIsExpired`: the token a
  request is about to revoke as stale is past its expiry, because time does not go back.
- `UncontendedPromises`, `OldPasswords`: `HSpec => []UncontendedPromisesHold` and
  `[]OldPasswordOpensNothing`, about `SessionHistory`. `Promises` adds to the first that a request
  between reading a usable token and inserting its successor is the only claim on the family, and
  `Replaced` to the second that a dead session of a replaced password has no refresh under way either.
  `RequestsAreNoFamilies` is there because `outdated` holds both kinds.

**Registry** (`CustomerRegistryProofs`; `NoneIsNoData`,
`MaxAbortsAssumption`, `RequestsAreFinite`).

- `TypeCorrect`: it needs `ActsOnCustomer`, that an avatar request has a customer.
- `AvatarsExist`: `[]NoDanglingAvatar`. The property does not say which files are about to
  disappear. The invariant adds `FilesHaveOwners` (a path in use was produced for the customer that
  uses it), `StoredFileIsNew` (the file a request just stored exists, and nobody else names it) and
  `UnlinkedFileIsFree` (a file about to be unlinked is no live customer's avatar, which is what the
  order of the code, row first and file last, buys).
- `NoFileIsLeftBehind`: `[]FilesAreAccountedFor`. It adds `OneAtATime` (avatar requests of a
  customer overlap only where `contended` says so) and `ReadIsCurrent` (a request that is alone and
  has changed nothing yet knows the avatar of its row), so that the file it replaces is the file it
  unlinks.
- `UniqueUpToOverlap`: `[]DuplicatesNeedOverlap`. The invariant counts, beside the holders of a value,
  the requests that looked it up and have not written it yet. A look-up passes only when nobody but
  the request's own customer holds the value, so at that moment everything counted is a request;
  after that a request that writes turns from a pending one into a holder.

**Cache** (`CustomerCacheProofs`; `MaxWritesAssumption`). `TypeCorrect`, `ReadsAreFresh`
(`[]ReadsAfterBumpAreFresh`) and `StaleEntriesHaveAReason` (`[]StaleEntryHasPendingWrite`) follow from
one idea, stated as `BumpsAreCommitted`, `EntriesHold` and `RequestsKnow`: what was read for generation
g was read after every bump up to g, whose writes were committed before it. `Exclusive` says that a
write has one request; type correctness also needs that there are no more generations than bumped
writes, a count over finite sets.

**Access control** (`AccessControlProofs`; `LifetimesAssumption`, `NoneIsNoUser`, `NoneIsNoToken`).
`TypeCorrect`, `WritersWereAdmins` (`[]WriterWasAdmin`), `LockedOutAccountsStayOut`
(`LockedOutStaysOut`). `WriterWasAdmin` speaks of the call just made; the invariant adds `Vouched`, that
every session token names a role its account had when it was read and lives for `ACCESS_TTL`, for the
tokens out and for those in a request, and `Checked`, how far along the chain of a write route a
request has come.

**Environment cache and page** (`DocsPageProofs`; `SizeAssumption`,
`BoundsAssumption`, `NoneIsNoContent`, `UnsetIsNoFailure`, `ServerAssumption`, `FaultsAssumption`,
`SitesAssumption`, `MeaningAssumption`). `EnvTypeCorrect` needs `CopyInHand`, who holds a copy.
`StalenessHasACause` (`[]StaleCopyHasACause`) rests on `CopyInv`: every copy, in place or in hand, is
excused or carries a stamp that `.env` had with this very content. `LoadsAreCurrent`
(`[]LoadIsCurrent`) rests on `LoadInv`, what a bootstrap knows at each step of what `.env` meant since it
began. `PageRunsEnvCache` shows that a page with its browser and faults is a behaviour of `EnvCache`,
so both hold for `DocsPage`, and `BrokenPagesHaveACause` (`[]BrokenPageHasACause`) and `TypeCorrect` build
on them.

**Import job** (`ImportJobProofs`; `ChunkAssumption`, `BoundsAssumption`, `NoneIsNoEmail`,
`NamesAssumption`).

- `TypeCorrect`, `ImportedOnce` (`[]NoLineImportedTwice`), `ResultIsRight` (`[]ResultAddsUp`): any file,
  any chunk size, any number of attempts dying anywhere, any edits by others. The property says
  nothing of the batch, which a flush is about to insert; the invariant adds that a customer nobody
  renamed still has the name of its row (`Copied`), so that `Exists` finds it, and that the rows of the
  batch have no such customer (`Batched`). Only one attempt runs at a time (`Attempts`), so nobody
  inserts behind the back of the batch. `Counting` says that the counts, the batch and the empty rows
  add up to the rows read.
- `RetriesConverge` (`[]RetriesAddUp`): on either database retries insert what a single run accepts, in
  its order and in whole chunks, and all of it once the job completes; unless, on SQLite and after a
  retry, one name is there in two cases (`NameTwice`). It needs that nothing but the import changed the
  table (`Untouched`), which is where the condition `edits = 0` comes from, that every acceptable row an
  attempt has read is inserted or in its batch (`Converging`), and that chunks end where those of a
  single run end (`Chunked`), since on MySQL the end of a chunk decides over names that differ by their
  accents. A row that is passed over because of a customer an earlier attempt inserted is that very
  row, or not acceptable, because the rows already inserted are whole chunks of the first
  acceptable ones (`InsertedChunk`, `OpenChunk`). `FittingExists` shows that `Acceptable` is well defined.

**Export job** (`CustomerTableProofs`; `LimitsAssumption`, `BoundsAssumption`, `NoneIsNoJob`).

- `TypeCorrect`, `HonestProgress` (`[]ProgressIsHonest`): the percentages of the loop are capped at 99
  whatever the count was, and after the loop the file is `Written` to the last row of the answer.
- `LimitedButForGrowth` (`[]OverLimitOnlyByGrowth`): what was dispatched was within the limit when it was
  counted (`Admitted`), and the answer has each customer once (`InOrderIsTheSet`).
- `WholeDownload` (`[]DownloadIsWhole`): `Written` says how much of the answer the file holds at each
  statement of `handle`; `Stored`, that a completed job keeps the file it completed with; `Reading`, that
  a download is about a completed job and has received the beginning of its file. Files have one name
  per job, and a completed job is never claimed again, so nothing rewrites a file under a download.
- `Sorted` and `InOrderIsTheSet`: a set of ids can be put in order, and the result has each id once,
  ascending.
- `WrittenOut`: a file that is `Written` to the end of its answer is the whole export, but for what the
  disk refused. `HonestProgress` and `WholeDownload` both follow from it.

**Paginated list** (`CustomerTableProofs`; `PagingAssumption`, `BoundsAssumption`). `WalkTypeCorrect`,
`MissedOnlyWhatMoved` (`[]MissesOnlyWhatMoved`) and `RepeatedOnlyWhatMovedDown`
(`[]RepeatsOnlyWhatMovedDown`), for every default and maximum of the limit and every table. The
properties speak of the end of a walk or of what was sent, and are not inductive: a row that leaves
between two pages does harm only when the next page is selected. So the invariant counts at every
statement, by the place of a customer among those that match (`Rank`): the steady customers
within the places passed that were not sent (`Missed`, at most `left`), those behind the places
counted (`Over`, at most `returned`), and the rows sent more than once together with the customers sent
that are behind the places passed and will be sent again (`Repeated`, at most `returned`).

- `WhenOneLeaves`, `WhenOneReturns`, `WhenOneIsAppended`: a row that leaves or returns moves at most one
  other past a given place, because only one row has it (`OneAtAPlace`), and a new row moves none.
- `RankOfRow`, `RowsOfPage`: a page has exactly the customers at its places, each once; `Recount` moves
  them from those that wait to those that were sent.
- `OffsetType`, `AllPages`: the next page begins where the last one ends, and the last page announced
  reaches the last row counted.

**Development runner** (`DevServerProofs`; `PipeAssumption`, `SignalAssumption`). `TypeCorrect`, and
`NoOrphansTheorem` (`[]NoOrphans`), which speaks of the runner's end. Before the end somebody is to stop
every child that is up (`Tracked`): the child is kept, or about to be kept, and `stopAll` still has it
before it. `Arrays` says that the arrays of the script have every key once and that the `foreach` at
hand is over keys that are kept.

Induction over data has one form here. The induction theorems of the library take an operator and
cannot be cited, but well-foundedness of the strict subset order on the finite subsets of a set can: a
smallest set without a sorted sequence (`Sorted`) or without a set of accepted rows (`FittingExists`)
would have a smaller one. This is why `InOrder` and `Acceptable` are defined by what they are and not by
a fold.

What TLC alone shows is liveness. `CacheConverges`, `ConfiguredPageShows`, `StopsWhenAsked`,
`WorkerComesBack` and `NobodyStaysStalled` hold under fairness, which is beyond the proof system.

## 6. Not modelled

- Texts, hashes, formats, phone numbers, addresses, display names, `last_login_at`. A validation
  failure is a request that does not start.
- The signature of the tokens and the randomness of identifiers are taken as sound.
- The SQL of the keyword search: a customer matches the client's filter or not.
- A page number so large that `limit * page` is no longer an integer: pages are those a walk
  reaches.
- A Redis that evicts the generation counter while entries of old generations survive.
- Two workers at once: the lock file of the queue library is trusted.
- The S3 upload target, whose deletes the code does not wire.
- `updateProfile` and `touchLastLogin`, which write columns no decision reads.
- Swagger UI itself, the bundles beside `swagger-initializer.js`: third-party, minified, and in
  `DocsPage` a script that loads or does not.
- The compiled routes (`RouteCache`), which FastRoute, a library outside the repository, reads and
  writes.
- What the development runner prints: `DevServer` counts lines in a pipe and not those on the screen.
- Error pages, health probes, the other views and wiring, which keep no state.

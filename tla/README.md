# PT-Reseeder in TLA+

PT-Reseeder finds out on which private-tracker sites the torrents of a downloader
or a folder exist as well, fetches them there and adds them to a downloader, so
that data already on disk is seeded a second time. It runs as one process: a web
server with an API, a scheduler, and tasks that call downloaders and sites over
the network and keep everything in one SQLite file.

This directory holds a formal model of that program: modules (`*.tla`), TLC
configurations (`MC*.cfg`), and proofs checked by TLAPS (`*Proofs.tla`).
`PROJECT.json` lists the components, the runs, the hazards each property is for,
and the lines of source each definition stands for.

    tlc -config MCRepostQueue.cfg MCRepostQueue     # model-check one run
    tlapm SiteProofs.tla                            # check one module of proofs

Paths below are relative to `src/`; `core` is `crates/core/src`, `server` is
`crates/server/src`.

## 1. The system

| Component | State it keeps | Operations | What is hard about it |
|---|---|---|---|
| Database writer, `core/db/writer.rs` | bounded channel, batch being collected, oneshot responders of flushes | `send`, `flush`; collect, commit a batch, retry it one by one, die | a failed batch in the middle of a flush, a dying writer, callers blocked on a full channel |
| Task runtime, `core/scheduler/executor.rs`, `task.rs`, `server/state.rs` | `tasks`, `task_logs`; a snapshot of the row per execution | trigger, execute, create, edit, delete, recover at start-up | any number of executions of one task, each database call apart from the next, crashes, log through the writer and status through the pool |
| Triggers, `core/scheduler/cron.rs`, `watcher.rs`, `server/state.rs` | jobs of the cron library, map task -> job, map task -> folders, the operating system's watches | add, remove, replace; react to created, edited, deleted tasks | three registries that are changed one access at a time by concurrent requests |
| Reseed pipeline, `core/engine/pipeline.rs`, `adder.rs`, `dry_run.rs` | a run's report and counters, the set of hashes at the destination, `reseed_history` | match, add (eight at a time), record, persist progress | claims in a shared set, shared counters, whole-row report updates, lost answers |
| Match phase, `core/engine/matcher.rs`, `filter.rs` | batch size per site, cursor, a task per site | filter by tracker and history, query the sites in batches, halve on errors | reads in chunks while other runs record successes; site tasks outlive a match that fails; size and cursor change together |
| Site rate limiter, `core/site/rate_limiter.rs` | atomics: consecutive errors, interval, circuit; extra wait behind a mutex | acquire, record success, error, wait | every method is several atomic accesses used from any thread |
| Repost queue, `core/repost/review.rs`, `submitter.rs`, `server/api/repost.rs` | `repost_queue` | review, approve, submit, submit a batch, delete | a status read at the start is acted upon after network calls and written back |
| Scanner, `core/engine/scanner.rs` | pieces cache, in memory and in the database | scan folders and downloaders, export and hash torrents | partial failures with a cut-off, a cache another run fills meanwhile |
| Downloader clients, `core/downloader`, `server/api/downloaders.rs` | the row with two encrypted fields; a client's session id or cookie | create, edit, toggle, delete, test; log in, list, export, add, resume | a session that expires between two calls of callers who share the client; rows written back as they were read |
| Site adapters, `core/site/adapters`, `probe.rs`, `http.rs` | none beyond the credentials | query, search, detail, passkey, user statistics, upload, for five families; the probe | a login that ends between two requests of one operation; a page taken for another page |
| Site registry, `core/site/registry.rs`, `server/state.rs`, `server/api/sites.rs` | adapters and limiters by site | refresh after every change; create, edit, delete, probe a site | refreshes that overtake each other; runs that keep the adapters of their start |
| Site definitions, `core/site/definitions` | none | lookup | configuration data |
| Vault and sessions, `core/crypto`, `core/session.rs`, `server/api/auth.rs` | key in memory, user rows, sessions | register, log in, log out, unlock, encrypt, decrypt | registration race, a reader that keeps the lock during a network call, restart with a locked vault |
| Repository, `core/db/repo.rs` | the SQLite tables | single statements | which statements are conditional and which are not |
| Torrent parser, `core/torrent` | none | bencode, info hash, pieces hash | pure |
| Repost adapter, `core/repost/adapter.rs`, `extractor.rs` | none | map fields of one site to another | pure |
| Packs and Jackett, `core/engine/pack.rs`, `jackett.rs` | none | group and complete matches | unreachable today: `jackett_config` is always `None` |
| Statistics, `core/stats`, `server/api/dashboard.rs` | none | aggregate | pure |
| HTTP API, log stream, desktop shell, web client | tokens, broadcast channel, browser state | thin layers over the above | polling for the state of a task |

How they interact. A trigger (cron job, folder event, button) spawns
`TaskExecutor::execute`. It claims the task row with one conditional update
through the connection pool, and sends its log to the **database writer**. A
reseed task runs the **pipeline**: the scanner lists local torrents, the match
phase asks each site in batches under that site's **rate limiter**, and eight
adders at a time download and add the matches, write the history through the
writer and rewrite the task's report after every match. A repost task or the
repost page works on the **repost queue**. The API changes task rows and, after
each change, the **triggers**. A change of a site, a registration or a log-in rebuilds
the **registry** from the rows and the key in the **vault**; runs take a copy of both
at their start and build one downloader **client** that all their adders share.
Pool and writer are two ways into one database:
what was sent to the writer is visible only after a flush, and the places where
the code needs that order are the ones worth checking.

## 2. Modules

Each component has one module with its state, one action per database call,
channel operation, atomic access or network call (the places where something else
can happen), its properties, and the operators named `Fault: ...`: plausible
mistakes in one definition, each of which some run can tell from the code. An
`MC` module only declares the model values of a run.

| Module | Models | Runs | Proofs |
|---|---|---|---|
| `DbWriter`, `DurableLog` | the writer; what its callers may rely on | `writer` | `DbWriterProofs` |
| `TaskRuntime` | executions against requests, recovery and the writer's promise | `tasks` | `TaskRuntimeProofs` |
| `Triggers` | cron jobs and folder watches | `triggers` | `TriggersProofs` |
| `RepostQueue` | review, submission, batches | `repost`, `repost_upload` | `SiteProofs` |
| `ReseedRun` | match filter, adders, history, report | `reseed` | `ReseedRunProofs` |
| `MatchPhase`, `MatchContract` | the match of a run and its site tasks; what the pipeline may rely on | `match` | `MatchingProofs` |
| `SiteLimiter` | limiter, breaker, query batches, download retries | `limiter` | `MatchingProofs` |
| `Scanner` | folder and downloader scans, pieces cache | `scan` | `ClientProofs` |
| `SiteAdapters` | the operations of five adapter families, the probe | `adapters` | `SiteProofs` |
| `Credentials` | users, vault, sites table, registry, runs' copies | `credentials` | `CredentialsProofs` |
| `Downloaders` | downloader rows, clients, both protocols, the downloader itself | `downloaders` | `ClientProofs` |

Three modules of proofs serve two components each: what goes on with a client
(`Downloaders`, `Scanner`), with a site's answers (`RepostQueue`, `SiteAdapters`), and
in the match (`MatchPhase`, `SiteLimiter`). So that both can be extended together,
`Scanner`, `SiteAdapters` and `MatchPhase` name their initial states, steps and
specification after themselves: `ScanInit`, `ScanNext`, `ScanSpec` and so on.

Composition is by promise. `DurableLog` says what the writer guarantees, the run
`writer` and a theorem show that `DbWriter` implements it, and `TaskRuntime` and
`ReseedRun` use a queue with exactly that promise: operations apply in the order
they were sent, a refused one kills the writer, a flush answers after everything
before it or fails when the writer dies. `SiteLimiter` is what stands between
`ReseedRun` and a site; `MatchContract` is what the one step `Match` of `ReseedRun`
takes for granted; `SiteAdapters` says which answers of a site `RepostQueue`
and `Credentials` may take at their word; `Downloaders` does the same for the adds of
`ReseedRun`.

### DbWriter and DurableLog

A message is its position in `sent`, the history of everything the channel took;
the channel is the part of `sent` after `taken`. `buffer`, `wpc` and `resume` are
the locals of `run_loop`, `call` is where each caller of `send` or `flush` stands.
`TakeOp`, `TakeFlush`, `EndCollect` are the loop; `ServeFlush`, `CommitBatch`,
`BatchFails`, `FallbackCommit`, `FallbackRefuse`, `EndFallback` are
`flush_buffer`; `Acknowledge` answers the oneshot; `Crash` is the process. What an
operation writes is abstracted to "commits or is refused". `DurableLog` has a
sequence of submitted operations, a set of rows, a frontier that was vouched for,
and `Persist`, `Vouch`, `Restart`.

### TaskRuntime

`row` and `logs` are the tables, `run` the locals of each `execute`, `queue` and
`writer` the writer by its promise, `client` one create or edit request in the
middle of its statements, `phase` the start-up (`recover_interrupted_tasks` in
two statements, then configuration). The whole run of a task, between opening and
closing its log, is the one step `Body`: what happens in it is `ReseedRun`.
`BusyDatabase` lets the database refuse any operation of the writer, not only
those whose foreign key is gone. Triggers arrive only once start-up is over, and a
scheduler that refuses a job at start-up ends the process, as the code does.

### RepostQueue

`row` is the table reduced to status, "has adapted info" and "has a submission
time"; `actor` the handler's locals, with the row as it was read. `WriteBack` is
the approve handler's unconditional write of the adapted info together with the
status it read; `Check`, `Decide` the transition check and the write of
`review_entry`; `Load`, `Upload`, `Record` a submission. `uploads` counts what the
target site really took, which no row knows; `approved` remembers reviews.
`retry_entry` and `create_repost_entry` have no caller outside the tests and are
not actions; entries are created by `Fresh` at the start. Autofill only reads.

### ReseedRun

`infoHash` decides which matches turn out to be the same torrent; `dest` is what
the destination holds, `history` the table, `log` the report rows, `queue` the
writer. `run` has the run's snapshot of the destination plus the claims of its
adders, counters and report; `adder` where each match stands. The adders of a run
are futures polled by one task, so what lies between two awaits is one step.
A `Claim` looks up and inserts under one lock; `Add` may succeed, fail, or succeed
with its answer lost. `Persist` builds the report row under the report's lock and
waits for the flush under it. `WriterDies` leaves what the writer holds in the
queue, and `FlushFails` takes it apart one operation at a time: writes vanish,
flushes fail, in the meantime the adders go on.
Left out: neither downloader client ever answers `Ok(false)`; dry runs stop before
the add phase; runs are cancelled only by the death of the process; the cap of
items in a report is not reached; nobody removes torrents from the destination;
the tracker filter is part of the choice of what was found (`MatchPhase` has it).

### MatchPhase and MatchContract

`run` has the locals of `match_all_sites` and its shared counters, `task` the site
tasks. A task belongs to the match that spawned it and not to the run: when a read
fails (`Fail`) the function is left by `?` and its tasks go on, so a later match of the
same run may find them at work. `ReadUrls` and `ReadHistory` read one chunk of a query,
and `Succeed` commits a success of any run in between. `FilterByTracker` and `EndSite`
are the two filters of a site; `Join` waits for all tasks. In a task, `Answered`,
`BatchFailed`, `Tripped`, `Refused` are the ways a batch ends; how its size shrinks and
when the circuit opens is `SiteLimiter`'s. Which site a cached announce URL belongs to
is a choice, and a site is taken to answer only about what it was asked. Chunks are
taken in any order: the code's order is that of a hash map. `MatchContract`
has a history that only grows and matches that open, and end well or badly.

### SiteLimiter

`errors`, `doublings`, `circuit`, `extra` are the limiter's fields, one access a
step: `ClearErrors`, `ClearInterval`, `ClearExtra` are `record_success`;
`CountError`, `LoadInterval`, `StoreInterval`, `Trip` are `record_error`. The
callers are download loops of the adders and one batched query; `match` is its
cursor, size and the hashes it has asked about. Time is left out: an interval is
the number of times it was doubled, the breaker's thirty minutes are `Cooldown`.
The site answers anything. A registry refresh, which starts with fresh limiters,
is not modelled.

### Triggers

`live` are the jobs the cron library runs, `job` the map from tasks to job ids,
`watches` the map from tasks to folders, `osWatch` the watches of the operating
system, `row` what the database says. A creation or an edit is first the statements of
`TaskManager`: `Create` or `Edit` writes the row, `SetFolders` the folders, `SetRest` the
other associations and the next run. Each may fail (`Fail`) after the row was written:
an edit then returns and leaves row and runtime apart, a creation deletes its row again
(`CleanUp`), which may fail too. Only after the last one come the triggers, access by
access: `Unmap`, `Drop`, `Unwatch`, `UnwatchOs`, `Read`, `AddJob`, `MapJob`,
`ReadFolders`, `WatchOs`, `Watch`. The library, the system and the database may refuse
a call in `Drop`, `Read`, `AddJob`, `ReadFolders`, `WatchOs` and `DeleteRow`. Five variables are history, for properties to speak about: `excused` are
tasks of such a refusal, `raced` those two requests worked on at once, `behind` those
whose last request failed after it had rewritten the row, `applied` is the row the
runtime was last configured by, `shared` the folders two tasks have had at once.

### Scanner

`scan` holds the locals of one scan per run: the hashes to visit, what has been
parsed, which ways (`local` file, `export`, `pieces` hash) are in use and which have
had a hit, the misses in a row. `Visit`, `ReadLocal`, `Export`, `PiecesHash` are the
loop over the client's torrents, each call with any outcome and the torrents in any
order, as the code takes them from a hash set; `FindExisting`, `SendBatch` put what
is new into the cache through the writer. Whether the client named a torrent's file
is decided when the torrent is visited. Cancellation, which happens only when the
process ends, and the merging of several sources are left out.

### SiteAdapters

One adapter, its stored credentials and the tracker. `call` is the operation under
way with the request it waits for; one action takes the answer, for each operation and
family, because families differ in what they take for an error. An answer is a status
(2xx, redirect, denied, missing, limited, any other, none) and a body (what was asked for, an
envelope without content, an envelope with an error code, another page); `Expire`
ends the login between any two requests. `probe` runs the three operations of
`probe.rs` and forms its verdict. Left out: the scraping of values, which is reduced
to which fields a page has; the redirects that the client follows, which end in one of
these answers. A redirect that is itself the last answer is a status of its own, because
Gazelle's upload takes it for a success (`gazelle.rs:508`) and nobody else does.

### Credentials

`users` and `live` are the user and session tables, `rows` the sites table with two
encrypted fields, `vault` the key in memory, `guards` and `writers` its lock,
`registry` what the adapters were built with, `refresher` the mutex of the refresh,
`req` the requests and runs, one await at a time. A ciphertext is its key and the
request that gave the plaintext, so a value that was overwritten, or read under
another key, is told from the right one. A failing statement ends the request where
the code's `?` does. `missed` remembers that such an end, or a cleanup, came after a
change and before the refresh: it is there for a property to speak about. There is no
change of password in the API, and none here.
A session that expires is a logout. A run takes the registry and then a copy of the
vault (`TakeRegistry`, `TakeVault`), in the code's order. `seen` remembers which key was
in the vault when the registry was taken, or none if a refresh was then under way, owed
by a log-in, or had failed (`Settled`): history again, for `RunHasTheKey`.

### Downloaders

`row` has what the two encrypted fields hold: nothing, the first credentials, edited
ones. `client` is the run's client and one for each test; `daemon` the downloader with
the id of its session, the torrents it has and those that run. Requests of the API
(`BeginRequest`) and calls on the run's client (`BeginCall`) are `req`; `Send`,
`Serve`, `Receive` and `Lose` are a request on the wire. Transmission's handshake is
in `Receive` and `StoreSession`: a 409 brings the id, the client stores it and sends
again, once. `dl_type` never changes: the edit handler does not offer it. `close`,
`pause` and `test_connection` have no caller outside the tests.

## 3. What the runs check

Deadlock is reported in `adapters`, where there is always a next call. Everywhere else
a component is idle when nobody calls it and the bounds on calls make the model stop
there (`CHECK_DEADLOCK FALSE`); that nobody is stuck where something is due is what
the liveness properties say. Symmetry is used only in `triggers` and `scan`, which have
no liveness. Type invariants are theorems where a module has proofs, and
are not checked elsewhere.

**writer.** Two callers, a channel of two, batches of two, four messages, a crash.
A full channel, a full and a partial batch, a flush behind a failing batch and a
blocked caller all occur with these numbers; a third message in the channel or
batch changes no guard. `PromisedIsDurable`: what a flush that returned Ok
vouched for is in the database, also after a crash. `RowsInOrder`: rows commit in
the order sent and once, though a batch is retried. `OnlyRefusedAreDropped`:
nothing leaves the writer's memory except by commit, its own refusal or death.
`ImplementsDurableLog`: the refinement. `OperationSettles`: every accepted operation is
committed, refused or lost with the writer, without another message to push it out.

**tasks.** One task, two executions, one failing database call, one crash.
`OneRunPerTask`; `RunningTaskHasARun`: unless a database call failed, no task is
left running without an execution, also not by a crash once start-up is over;
`LogClosedBeforeSettled`: with a working writer the status leaves running only
after the run's log is closed in the database; `ExecutionEnds`. A second task
would share only the writer; the theorems hold for any number of tasks and for a busy
database.

**triggers.** Two tasks, a folder, two expressions, two concurrent handlers, three
requests, a refusal, a deleted folder, and statements that fail any number of times.
`CronJobsAreKept`: whatever interleaves, the map never names a job that the library has
dropped, and a cron task is without a job only after an error: one that ended a request
on its triggers, or an edit that failed after it had made the task a cron task.
`RuntimeFollowsRows`: tasks that were not worked on by two requests at once have exactly
the jobs and folders their rows ask for, and the system's watch of every folder that two
tasks never had at once; where the last request failed after rewriting the row, exactly
those of the row that was applied last, whole and not half taken down. Three requests are
an edit that fails, one that succeeds and another task's, or a race of two after a first.

**repost.** Two actors, two entries, four requests (two reviews and two
submissions, or batches over both), a crash. `SubmittedWasUploaded`: a submitted
row means that the site took the entry, given an adapter whose Ok means that (see
`adapters`). `UploadedWasApproved`: nothing reaches the site that no review approved.
`ApprovedIsAdapted`: an approved row carries adapted info, which another statement
wrote. `BatchTakesEveryEntry`: a failing entry does not end the batch. `ActorsFinish`.

**reseed.** Two matches that may or may not be one torrent, two adders at a time,
a second run of the task after the first or after a crash, a death of the writer.
`AddersKeepApart`: no two adders of a run add one info hash, a hash in the shared set
is at the destination or an adder is busy with it, and no more are at work than
allowed. `ReportAddsUp`: the counters are the outcomes of the adders, and no adder's
write of the report loses another's outcome. `SuccessIsInDestination`: a success in
the history, which keeps later runs from trying again, is a torrent the destination
took. `RunEnds`.

**match.** One run on two sites with two hashes and one hash to a chunk: two reads for
each site, between which the history grows. What other runs do shows in the history
only, so one run and arbitrary commits stand for any number. `MatchAddsUp`: every pair
of a served site and a scanned hash is skipped and counted by one filter or asked for,
once, and the report's counters are the lengths of its lists.
`ImplementsMatchContract`: nothing is matched that had succeeded before the match
began, nothing is skipped that has not succeeded. `MatchEnds`: the match and every site task
end, also tasks that a failed match has left behind: two sites are what that takes, one
with a task and one whose read fails. A second match would have tasks of its own, which
share only the site's limiter with these.

**limiter.** Five hashes, batches of four, two or three (first seven, at least
two), a download with one retry, a threshold of two. `EveryHashIsAskedFor`: halving
in mid-way neither skips a hash nor asks twice. `BreakerIsNotMissed`: when the
threshold has been passed, the circuit is open or somebody is on the way to open
it. `CallersEnd`: nobody halves, retries or waits for ever.

**scan.** Two runs, three torrents, batches of two, giving up after one miss: the
count of misses only matters while nothing has had a hit, so one is as good as
three and leaves torrents to be lost. `ResultIsCached`: a torrent of a result is in
the cache or on its way, whichever run left whose row to whom. `ScanIsThorough`: a
way that has worked is not given up in this scan, and a scan with metadata from its
client has visited every torrent of the client. (That one unreadable file, met
first, ends the use of files and export for all others is what the code does on
purpose; the model has it.)

**adapters.** All five families, any stored credentials, any answers, any moment for
the login to end; nothing is bounded. `SubmittedIsStored`: an upload reported as
submitted is on the tracker, for the families whose answer names the torrent or whose
errors are errors (`Acknowledging`). `DeadSessionIsReported`: an operation that began
with a dead login does not succeed, not even with an empty result, except those listed
as `Credulous`, and the two passkey reads listed as `Overlooking`, which may end in "no
passkey" and never in one. `ProbeIsJust`:
"failed" only when something was refused or a credential is missing, "ok" only with a
login that lived at its start. `CallsEnd`. The exceptions are what the
code does; they are named so that nobody relies on more.

**credentials.** Two names, one site, two requests or runs at once, three in all, one
failing statement or restart. One refresh that reads the rows before a change and
stores its adapters after the refresh of that change is the case the mutex is for:
two requests at once show it, and the third changes what they start from. It begins with
no user, with one, or (`MCInit`) with two and a site served under the key of one of
them, so that three requests are enough for an edit, a log-in of the other and a run.
`RegistryFollowsRows`: when no change is under way, the adapters are those of the rows
and the key. `StoredIsRecoverable`: what is stored can be read with a registered user's
key. `RunHasTheKey`: a run with adapters has a key, and it is the one that reads what
they were built from, unless another user's log-in came between the run's two reads or a
refresh was under way, owed by a log-in, or had failed at the first. Those windows are in
the code (see below); outside of them only the refresh's mutex keeps old adapters from
returning, and without it a run does meet them. `RequestsEnd`: also with readers that
keep the vault's lock during network calls.

**downloaders.** One torrent, two requests or calls at once and in all, two faults
(losses, restarts, failing statements). Two callers of one client are what it takes for
one to store an id that the other has outdated. `OkIsTrue`: a reported add or start has
happened. `HandshakeSuffices`: a call ends in a conflict only if a session expired, or
an expired id was stored, during it. `LoginAsStored`: no client logs in with a mixture
of credentials that the row has never had. `RequestsEnd`.

### Where the code does not do what it says

One run expects a violation; `PROJECT.json` quotes the line it refutes.

- `repost_upload`: an entry is uploaded a second time, or after it was rejected or
  deleted, by a submission that read "approved" before it waited for the limiter.

Others of the same kind, met while modelling, are in the modelled steps but have no
run of their own.

Tasks and triggers. A task turns idle with its log still open when the writer is dead
(`core/scheduler/executor.rs:201`, against 176). An edit that passed the status check
rewrites the row of a task that has started meanwhile (`core/scheduler/task.rs:105`,
against the message at `server/api/tasks.rs:147`). A crash between `create_task` and
its associations leaves a task without sources (`task.rs:43`, against the comment at
41). Two edits of a task can leave two cron jobs one of which nothing removes
(`core/scheduler/cron.rs:49`, against 46). An edit that races a deletion leaves the
trigger of a task that is gone (`server/api/tasks.rs:324`, against 323). An edit that
fails on an association or an expression has rewritten the row and returns without
reconfiguring (`server/api/tasks.rs:305`, `core/scheduler/task.rs:124`): a task that now
says cron has no job, or the old job still runs, until the next edit that succeeds or a
restart. A task that
stops watching a folder takes the system's watch away from every other task of the
folder (`core/scheduler/watcher.rs:128`, against 14).

Runs and scans. A match is recorded as "already in destination downloader" because of a
claim whose adder then fails (`core/engine/adder.rs:105`): the second match of that
torrent is lost for this run. A skip is reported as failed when another adder failed meanwhile
(`core/engine/pipeline.rs:471`). The pieces cache never loses a row, so the tracker
filter ("already seeding there", `core/engine/filter.rs:4`) goes on filtering for
torrents that have left the downloader, and a row that was cached from a pieces hash
alone keeps its empty announce URL for ever. When a read of the
history fails, the queries already begun go on without their run
(`core/engine/matcher.rs:178`).

Limiter. Answers "wait a little" count as errors, so the retries promised for them meet
an open circuit (`core/engine/adder.rs:249`, against 203). A success erases the wait the
site demanded of another download (`core/site/rate_limiter.rs:105`, against 75), and a
doubled interval is stored over a reset one (`88`).

Repost. The approve handler writes an old status back over a rejection or submission,
and clears the submission time before its transition is refused
(`server/api/repost.rs:154`, `162`).

Sites. The NexusPHP adapter reports 401 and 429 of its pages as plain HTTP errors,
takes a hash answer without data for "no match", and reads a login page as the page of
a torrent or an empty search. Unit3D takes any 2xx for a stored upload, Gazelle also a redirect;
Zhuque takes any status and a missing code for one. Gazelle and Unit3D answer a query
without asking, so a probe finds them reachable. No handler ever sets the encrypted
token, so the families that need one fail every operation. On a dead
login the passkey reads of M-Team and Gazelle end in "no passkey" (`mteam.rs:457`,
`gazelle.rs:388`), which the probe does not count as a failure (`site/probe.rs:220`). The
ratio of Unit3D may be infinite.

Users and sites table. Two first registrations both find no user and both succeed, with
different keys (`server/api/auth.rs:228`, against "A user already exists" at 234). An
edit that leaves a credential blank to keep it writes back the value it read
(`server/api/sites.rs:406` to 445). An edit that fails, and the cleanup of a failed
creation, return without a refresh (270). A log-in that fails after it has unlocked the
vault leaves it unlocked (`auth.rs:136`). The test of a downloader keeps the vault's
lock during its network calls (`server/api/downloaders.rs:330`) and delays log-ins and,
behind them, every reader. With a locked vault after a restart, a synchronisation of
statistics succeeds with none of its sites. With two users a run that takes the registry
before the other's log-in and the key after it, or takes both before the refresh of that
log-in has ended or when it failed, has adapters of one key and the other key for its
downloader (`server/state.rs:186`).

Downloaders. Creation with a locked vault stores no credentials and says nothing
(`server/api/downloaders.rs:172`); an edit with a locked vault ignores the new ones and
answers 200 (269); the switch for automatic start writes the whole row back as it was
read (388) and may undo an edit. The qBittorrent client ignores the status of its answer
to resume and pause, and takes a 403 on export for a version without export. A late 409
may store an id that has expired, and another caller's call then ends in a conflict
(`core/downloader/transmission.rs:121`).

## 4. Fairness

Weak fairness of single steps and nothing stronger. Tokio keeps polling a woken
task, so: the writer's loop and a caller woken by the channel or its oneshot
(`DbWriter`); each execution, the writer and start-up (`TaskRuntime`); each handler
(`RepostQueue`); each adder, the pipeline and the writer (`ReseedRun`); each
match and each site task, awaited or not (`MatchPhase`); each caller
of the limiter (`SiteLimiter`); the call under way (`SiteAdapters`). In `Credentials` and
`Downloaders` one condition for all requests together is enough, as there are finitely
many and each has finitely many steps. Network calls end because every client is built
with a time-out. Nobody is obliged to call, trigger, crash, fail or send another
message, and in `RunEnds` and `ExecutionEnds` the writer may die instead of
answering. `Triggers` and `Scanner` have no fairness: their properties
are safety.

## 5. What is proved

TLAPS proves for every value of the constants what TLC checks on the small ones.
The only assumptions are the named `ASSUME`s: bounds are natural numbers, the
channel holds at least one message and a run at least one adder, the matches of a run
are finitely many and so are the torrents of a scan, `NoTask` is not a task, `NoEntry`
not an entry, and the like.

**DbWriterProofs**: `TypeCorrect`, `AcknowledgedFlushIsDurable`,
`RowsCommitInOrder`, `NothingElseIsDropped`, `WriterImplementsDurableLog`. The
inductive invariant is `IInv`: the types, `ControlOK` (what the program counter
says of the buffer), `QueueInOrder` (the buffer is increasing and between the
committed rows and `taken`), the three safety properties and `RefusalIsFatal` (a
refused operation means a writer that is about to stop). The last is the heart of
it: a flush may vouch for everything before it only because the writer stops
between a refusal and the next answer. The refinement maps every action to
`Submit`, `Persist`, `Vouch`, `Restart` or a stutter.

**TaskRuntimeProofs**: `TypeCorrect`, `AtMostOneRun`, `NoStuckTask`, `LogsCloseFirst`.
`IInv` has the types, `QueueInv` (which log an operation in the queue belongs to),
`RunInv` (an execution inside a run works on a task whose row says running or is gone,
and two of them never on one task) and `RunningTaskHasARun`. That deleted ids do not
return (AUTOINCREMENT) is needed: otherwise a new task could inherit a run. For
`LogsCloseFirst` every open log has an owner (`OpenLogsOwned`): an execution that has
still to send the update that closes it, or whose update is queued, in front of every
flush that this execution awaits. An execution settles its task only once its flush was
answered, and then the queue has passed the update. Start-up is the other case: its two
statements leave no log open before the first trigger (`QuietLogs`).

**SiteProofs**: for `RepostQueue` `TypeCorrect`, `SubmittedMeansUploaded`,
`OnlyApprovedIsUploaded`, `ApprovedHasInfo`, `BatchesAreServed`. `IInv` has `RowOK` for
each row and `ActorOK` for each actor: what an actor has read and will write back
satisfies, at each point of its way, what the row must satisfy when it is written,
whatever has happened to the row since. So the stale write-backs of this code are
harmless for these three properties, and only for these. `BatchesAreServed` is about
steps: an actor outside of a batch has an empty list, so that no new request throws one
away, and every step inside keeps the list but for the entry it takes up (`TakesUp`).
For `SiteAdapters` `SubmissionsAreStored`, `DeadSessionsAreReported`, `ProbesAreJust`. One
lemma for each family reduces its scripts to what an answer may do to the call that
waits for it (`Effect`). `AdapterInv` then says that a call begun on a dead login waits
for its first answer, on a login still dead (`LateCall`), so that its result is what the
family makes of a refusal or of a page that was not asked for, and that a probe which has not
reached the site has met a refusal or lacks a credential (`ProbeSoFar`).

**ReseedRunProofs**: `TypeCorrect`, `AddersStayApart`, `ReportsAddUp`,
`SuccessesArePresent`. Two arguments meet in `IInv`. Adders that are to add, or have
just been refused, hold their claims and hold them apart (`Claiming`): a refused adder
gives back a claim of its own and no other's. And who sends a report holds the run's
lock, or is the run itself while no adder works, until its flush is answered (`Lock`,
`FlushFits`). So a run has at most one flush in the queue (`OneFlush`), a report in the
queue is the run's own and has its flush right behind it (`Fits`, `Paired`), and when
there is none the row is the report (`Committed`). A lemma for each way the queue
changes (`JoinOne`, `JoinTwo`, `Leave`) and frame lemmas for the runs that stand still
(`FitStays`, `OneRun`) carry this through every step.

**TriggersProofs**: `TypeCorrect`, `RegistriesStayInStep`, `RuntimeIsTheRows`. A job's id
is in the map or in the hands of one handler; a cron task without a job is one that a
handler will still get to, or one that a request left `behind` (`Attended`); and while a
task's requests come one after the other its registries are what the point of its one
handler says (`Stage`, `Settled`): up to the last statement on the row they are those of
`applied`, and only a request that gets past it touches them. The system's watches need a
claim over all tasks: a folder that was never shared is in the hands of one task only, so
nobody else's `UnwatchOs` takes it.

**MatchingProofs**: for `SiteLimiter` `TypeCorrect`, `ThresholdIsNoticed`,
`NoHashIsSkipped`. The two properties with the types are inductive, step by step over
the atomic accesses. For `MatchPhase` `EveryPairIsAccountedFor` and
`MatchKeepsItsContract`, the refinement of `MatchContract`. `MatchInv` says of every run
in a match where its loop is (`LoopOK`), that what it skipped has succeeded and what had
succeeded before it began was neither asked for nor is in the part it has read
(`SkipsAreJust`), and that the pairs of the sites it has been to, the one it is reading
included, add up (`Counted`). The tasks that a failed match leaves behind are harmless
because every match has tasks of its own (`StartsApart`) and a task finds what it has
asked for (`FoundWasAsked`). Every action is then a step of the contract or a stutter.

**CredentialsProofs**: `TypeCorrect`, `RefreshesAreEnough`, `CredentialsAreRecoverable`,
`RunsHaveTheirKey`. `RegistryFollowsRows` speaks of the moment when no change is under
way. At every other moment a registry behind its rows is *caught*: by a request with
its refresh still to come, by the one refresh that has read what is there now, or by
the fault that `missed` records. Keys in the hands of requests are registered users',
and adapters exist only under a key. For `RunsHaveTheirKey` the key is *caught* as well
(`KeyCaught`): a registry that the vault's key does not read is owed a refresh by a
log-in, or one is under way, or has failed, and a refresh that has read the rows carries
the key it has read them with. So in a settled state the registry a run takes is legible
under the key that `seen` remembers, and stays so in the run's hands.

**ClientProofs**: for `Downloaders` `TypeCorrect`, `ReportsAreTrue`,
`OneHandshakeSuffices`, `LoginsAreStored`. As long as nothing has expired during a call,
the id in the client and then the id in the request are the downloader's; for that the
client must stay the same, which the ownership of clients gives. For `Scanner`
`ResultsAreCached` and `ScansAreThorough`. A scan compares with the cache once and sends
what it lacked; until it ends it answers for everything it need not send any more
(`Sent`): the cache and the queue together never lose a row while the writer lives, and
the loop over the batches ends with nothing left (`NothingLeft`, by the sizes of finite
sets). A way is given up only while it has had no hit, the pieces hash never (`WayOK`,
`Thorough`).

Every invariant and every action property of the passing runs is a theorem. Only model-checked:
liveness and everything under fairness (`OperationSettles`, `ExecutionEnds`,
`ActorsFinish`, `RunEnds`, `MatchEnds`, `CallersEnd`, `CallsEnd`, `RequestsEnd`). Induction
over data and recursive operators are out of the prover's reach; no module here uses them.

## 6. Not modelled

- Bencode and the torrent parser, the repost adapter and
  extractor, the aggregation of statistics, the site definitions: conversions of
  strings and numbers without state of their own. The models take their verdicts (which
  torrent, readable or not, accepted or not) as choices, so everything that is shown
  holds whatever they answer.
- Packs and Jackett: unreachable, because `jackett_config` is always `None`; the
  dry run, which stops before the add phase.
- Handlers that are one statement (settings, folders, logs, dashboard) and the
  statements of the repository that only they use.
- A refresh of the registry gives the next run fresh limiters while a running one keeps
  its own (`server/state.rs:148`): `Credentials` has the copy a run takes, `SiteLimiter`
  one generation of limiters.
- HTML layout, logging and the log stream, the desktop shell, the web client's polling,
  the browser driver: they hold no state the rest depends on.

What could come next: a composition of `Credentials` and `Downloaders`, which share the
vault and have been checked against each other's promises only; abstract specifications of
the claims that the adders of a run share and of what a run takes from the registry, with
the refinements proved; a property for each hazard that has none.

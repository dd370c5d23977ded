# GoForge in TLA+

GoForge is a Go web framework and command line. It has a PostgreSQL job queue
with workers, recurring schedules on top of the queue, sessions, rate limits, a
cache, migrations, an ORM, mail, code generators and a development server that
rebuilds and swaps the application. This directory holds TLA+ modules that model
the parts of it in which several actors, failures or intricate data meet, TLC
configurations that check them on small instances, and TLAPS proofs that most of
the safety properties hold for every instance.

    tlc -workers 2 -config JobStore.cfg MCJobs    # one run
    tlapm JobStoreProofs.tla                      # one module of proofs

`PROJECT.json` lists the components, the runs and their properties, the source
lines behind every definition, the hazards, the findings and the theorems.

## The system

| part | state | operations | what is hard about it |
|---|---|---|---|
| job store (`job/postgres`) | tables `goforge_jobs`, `goforge_failed_jobs` | Enqueue, Claim, Heartbeat, Ack, Retry, Release, Fail, FailExhausted, RetryFailed, ForgetFailed | expired leases whose holders still call, statements delayed after reading the clock, deduplication against uncommitted inserts, restored jobs |
| worker (`job/worker.go`) | slots, error channel, contexts, goroutines | Run, process, complete, fail, awaitCancellation | timers and results that race, handlers that never return, forced shutdown |
| observer queue (`job/types.go`) | pending events, running flag, idle channel | emit, drain, flush | a drain that ends while an event arrives |
| scheduler and its store (`schedule/`) | table `goforge_schedules`, the definition at hand | Run, RunOnce, Materialize, cron search | several schedulers, a transaction of up to eight statements, Sunday as 0 and 7 |
| sessions (`session/`, `web/session.go`) | store rows, the request's copy, the browser's cookie | Load, Save, Regenerate, Destroy, Invalidate | a stale request saves what another rotated or destroyed |
| rate limiter (`security/ratelimit`) | buckets in memory or PostgreSQL | Take, Reset, prune | windows that end now, a full table, late statements |
| cache (`cache/`) | entries under a lock | Get, Put, Forget, Flush, Prune, RememberJSON | the lock is given up between check and delete |
| HTTP kernel (`httpx/`) | one request, its response and context | middleware, body readers, CORS | panics, deadlines and errors after the response has begun |
| migrations (`database/migrate`) | the ledger and the schema | Up, Down, Status, Verify, checksum upgrade | crashes between DDL statements, concurrent runs, drift |
| ORM (`orm/`) and generated repositories | tables, builders over shared slices | predicates, inserts, relations, guarded updates | rows that change between statements, appends into shared memory |
| mail (`mail/`) | one message, one SMTP conversation | NewMessage, Render, Send | an answer lost after acceptance, line breaks |
| development server (`internal/cli/serve*.go`, `watch.go`) | generation, candidates, proxy target, subscribers | build, promote, roll back, notify | the source changes during a build, a promotion that fails half way |
| supervision (`internal/cli/dev.go`, `managed_process.go`, `process*.go`) | process trees, services | start, stop, wait | stop against exit, descendants that stay |
| generators (`internal/cli/resource.go`) | files, generator lock | lock, stage, publish, restore | an error or an editor between two files |
| application (`app.go`) | server, listener | Run | graceful, then forced shutdown |

The worker, dispatch and the scheduler act on the job store and on nothing else
of each other; the other parts share no state. The modules compose accordingly.

    JobLifecycle <--refines-- JobStore <--extends-- JobWorker
                                  ^---extends-- Schedule ..> OccurrenceSearch, Cron
    FixedWindow  <--refines-- RateLimit, RateLimitPostgres

## Modules

**Queue.** `JobLifecycle` is the promise of the queue: a submitted job is waiting,
leased or failed; it leaves by an acknowledgement while it is leased or when an
operator forgets its failure; it is handed out at most `max_attempts` times per
life. `JobStore` has one action per SQL statement. `jobs` and `failed` are the
tables, `tx` the open transactions that enqueue (the row inserted, or the active
row that `ON CONFLICT DO UPDATE` locked). A statement runs with a clock at most
`MaxStall` behind `now`. `leases` keeps every lease ever returned and each can be
used at any later time, so late, repeated and reordered calls are all there.
`JobWorker` adds `job.Worker`: `run` is where `Run` is, `procs` and `handlers` are
the goroutines, `errs` the length of `processErrors`, which the loop looks at first,
and `free` the slots it reads after that. A store call may fail before or after its effect
(`MaybeDone`); `Exit` is a crash or the end of the process. `EventEmitter` is the
observer queue.

**Schedules.** `Schedule` adds schedulers to JobStore: `sched[s]` is the state of
one `Materialize` call, `rows` the committed rows, `made` the occurrences whose job
was committed. Each statement is an action; `Abort` is any error, cancellation or
crash and `CommitUncertain` a commit whose reply is lost. `OccurrenceSearch` is
`latestOccurrence`, one step per iteration; `Cron` is the normalisation of a field
and the search that continues after the library's five years.

**Web.** `Session` runs concurrent requests of one browser against the store, with
responses that arrive late, out of order or never. `FixedWindow` is what a limiter
promises; `RateLimit` is the store in memory, with callers whose clock is older
than the lock they get, `RateLimitPostgres` the table, whose prune and upsert are
two statements. `Cache` is the cache
with the lock released where the code releases it, `CORS` the policy and a shared
cache that honours `Vary`, `RequestBody` the readers of one body under different
limits, `RequestPipeline` one request through the generated middleware stack to the
default error handler.

**Data.** `RelationLoad`, `SQLPredicate`, `BulkInsert` and `QueryBuilder` are the ORM:
batched loading while others write, compilation of a predicate to text and its reading
by SQL's precedence (patterns of `ContainsFold` included), the shape and parameters of a
bulk insert, and builders over Go slices (`arrays` with capacities). `Repository` is the
generated repository with two clients. `Migrate` runs two migrators statement by
statement; `site` is one installation (dialect, script contents, operations, state of
the ledger). `MailMessage` renders a message. `LiveReloadInject` rewrites a page; two of
its pieces are bytes whose lower case takes fewer, or more, bytes than they do.

**Processes.** `ManagedProcess` is a child and its descendants, the stop with its
grace period (`stopChildProcessTree`), the collector that waits for the child, and
any number of callers of `Stop`. `DevServices` is the supervisor of `forge dev`,
`AppRun` is `App.Run` with `net/http` modelled from its use, `SMTPSender` one
conversation, `ResourceGenerator` the staged publication of seven files and its
rollback.

**forge serve.** `DevServer` is the supervisor with build, promotion, rollback and
shutdown. A cleanup that fails forgets the candidate all the same, and `left` keeps
what stays behind (a process, a binary, published views); `missed` records that the
source changed and changed back without the tracker or the supervisor noticing.
`CandidateStart` is the attempts to start a server on a reserved port,
`SourceTracker` the tracker and its debouncing waiters, `SourceSnapshot` the cached
digests and bounds, `LiveReload` the subscribers, streams and browsers.

The modules whose names end in `Proofs` hold the theorems: `JobStoreProofs`,
`JobWorkerProofs` and `ScheduleProofs` for the queue, `SessionProofs`, `WebProofs`
(cache, durable limiter, CORS, request body, request pipeline), `DataProofs` (occurrence
search, repository, migrations, query builders), `ProcessProofs` (observer queue, SMTP,
managed processes, `App.Run`, generators) and `ServeProofs` (supervisor, candidate,
source tracker, snapshots, live reload, in-memory limiter). A definition named
"Mutant..." (in the modules of the queue one whose comment begins so) is a wrong version
of the definition after it; with the mutant in its place TLC finds the property it is
listed with violated.

## Runs

Each run asks what one group of components guarantees. The components of a group
share no state, so a run explores them side by side: the variable `part`, chosen
in the initial state from the constant `Parts`, says which component moves, and the
others stay in one initial state. The state spaces add up and do not multiply, a
property about one component is checked in the states of that component, and
`Parts` can be cut down to one name to look at it alone. `MCJobs` is different in
one respect: all its parts drive the same job store, and `Within` gives each part
bounds of its own.

| run | parts and instances | what it shows |
|---|---|---|
| `job_store` | `leases`: 1 job of one route, 2 workers, clocks up to 2 behind, a restore. `dedup`: 2 jobs, 1 key, 2 routes, 2 transactions, a restore | nobody takes a job whose lease is live (`NoTakeoverOfLiveLease`); every step moves each job along JobLifecycle |
| `job_worker` | `overlap`: 2 workers on 1 job of 2 attempts. `faults`: 1 worker with 2 slots, 2 jobs, 2 faults | no row that neither Claim nor FailExhausted sees (`NoStrandedJob`) |
| `schedule` | 2 schedulers, 1 schedule, 1 failure or lost commit reply, a period of 3 minutes of 2 instants | no occurrence is enqueued twice; a cursor that moves passes nothing within the grace without handing it over; a due schedule advances, by a job or by a recorded misfire |
| `job_liveness` | `worker`: 1 job of 2 attempts, 1 fault, clock to 10. `deploy`: 2 versions of 2 definitions | a signalled worker stops and every committed job settles, even if no handler returns; in a deploy the cursor stays an occurrence of the version that owns it |
| `web` | 2 requests with logins and notices, or 3 with credential changes; 2 callers of each limiter; 2 cache callers; CORS; bodies; the pipeline | a stale save restores nothing and the cookie of a credential change stays; both stores implement `FixedWindow`; only a late loader makes the cache stale; CORS answers are cache safe; limits hold through the form cache; the completion record of a response is true |
| `data` | relations over every small table; predicate trees of depth 2; 2 clients of a repository; pairs of rows; 4 builders; every field part; every expression of 6 minutes; bodies of up to 3 characters; documents of up to 4 pieces; 5 installations | a load is a join, never an arbitrary pick; SQL text means its predicate; no update is lost; an insert stores what each row says; a builder is its own calls; a field keeps its meaning and continued searches leave no gap; the search finds the latest occurrence; bodies survive rendering; pages survive injection, but for those that lower-casing makes longer; a half-done MySQL upgrade completes |
| `processes` | 2 callers of Stop, 2 descendants, Unix and Windows; 2 services; 3 recipients; 2 generators with 2 troubles; 4 events and 2 flushes | a stop ends the tree; Run closes by force and returns; services are not blamed for being stopped; Send returns though the server never answers; a resource is there entirely or not at all; every accepted event is observed |
| `serve` | 2 edits over 3 sources of which one is broken, also back to an earlier content, 1 fault or foreign write of the views, a cancellation; 1 waiter, 3 edits; 3 paths; 3 attempts with strangers; 1 browser, 2 streams | the last good server stands and, if nothing failed, the public server converges to the last source; a returned snapshot was stable and is the content; a ready candidate owns its port; a page that was overtaken is reloaded |

Four runs end in a violation; they are the findings below.

Bounds. Two workers, schedulers, callers, runners or transactions are the smallest
number that races; a third does the same to one of them. The clock of `leases` lets a
lease expire, be taken over and expire again while the first holder still calls.
`MaxNow` of `job_liveness` lets both attempts and the sweep happen before time stops, so
the property does not hold for want of time. In `schedule` two of three minutes match,
so that neighbouring and missing occurrences both arise, and the clock covers a period.
`RelationLoad` has a page of more distinct keys than one statement takes, a page without
keys, and scopes that leave no room or are refused. `Migrate` has one installation per
question: PostgreSQL with all operations and an interruption, SQLite with racing runs
and with rewritten scripts, MySQL with two crashes during the upgrade of an old ledger,
MySQL from nothing. `MaxFaults`, `MaxBeats`, `MaxRestores`, `MaxEvents`, `MaxTrouble`,
`MaxEdits` and the like bound what the code does not. In `serve` the supervisor starts
from a good or a broken source and meets one fault or one write of the views by another
generator, not both; edits may go back to any earlier content.

Fairness. All of it is weak, of steps the Go runtime, the kernel or a timer
performs once they are possible.
- `RuntimeFairness` (workers): goroutines run, timers fire, an application ends its
  transactions, time passes, a stopped process is restarted. No handler is assumed
  to return, and no signal, fault or new job to come. It is a condition on workers,
  so it says something of the part `worker` of its run only; the properties of
  `deploy` are safety properties.
- `SchedulerFairness`: each scheduler takes its next step, restart included.
- `EmitterFairness`: started goroutines run, an observer returns.
- `AppFairness`, `ManagedFairness`, `DevFairness`: the goroutines of
  the code under study run, and the kernel ends a process that was killed. A
  request, a child or a service need not end by itself.
- `SMTPFairness`: an operation ends, if only by its deadline.
- `GeneratorFairness`: a called generator proceeds; the lock is polled.
- `ServerFairness`, `CandidateFairness`, `TrackerFairness`, `ReloadFairness`: the
  supervisor, the poll ticker, the startup timeout, the streams and the browser's
  own reconnection proceed; no edit, fault or cancellation is assumed.
- `MigrateFairness` (MySQL): each operator's command runs to its end and is repeated.

`web`, `data`, `processes` and `serve` contain components that come to an end (a
request answered, a load done, a command returned), so they do not check for
deadlock; what must not get stuck there is stated as a liveness property. The runs
of `MCJobs` check for deadlock.

Two branches never fire. `EnforceChecksumNotNull` of Migrate refuses a column with
NULLs, which the steps before it exclude; the branch is the database's check, kept
because a wrong order of those steps would meet it. In RequestPipeline the wrapper's
type assertion of the writer underneath never fails, since `newStatusWriter` offers
only what is there.

## Findings

1. `generations`. `docs/jobs.md:159-161` says that every mutation matches the
   "monotonically increasing lease generation". `RetryFailed`
   (`job/postgres/admin.go:131`) restores a job with generation 0. The fence
   properties are therefore stated, and hold, per life of a job.
2. `timeout`. `docs/jobs.md:106-108` says that at the timeout a handler "retains
   its worker slot and lease heartbeat until the handler returns". After
   `CancellationTimeout`, `process` returns (`job/worker.go:347`), which frees the
   slot and ends the heartbeat. What does hold is `AbandonedHandlerStopsWorker`.
3. `candidate_start_fails`. A process that cannot be started reaches
   `internal/cli/serve.go:1105` as a nil pointer in an interface that is not nil,
   and `Stop` dereferences it. `docs/DECISIONS.md:593-594` has the last-good server
   remain active.
4. `resource_generator_capture`. A file that was written but could not be captured
   (`internal/cli/resource.go:211`) is unknown to the rollback and stays.
   `docs/DECISIONS.md:884` speaks of "the generator's all-or-nothing contract".
   `AllOrNothing` states the contract for the other failures, where it holds.

More observations, met while modelling, have no run of their own; the properties name
them as exceptions.
- `internal/cli/serve.go:548` stores a generation read after the comparison that
  accepted the build, and lines 328, 339, 397 and 436 read one after a failure. If the
  tracker sees the source change before that and change back after it, the result of
  the content in between stands until the next edit. `Converges` excepts it (`missed`);
  it holds of every other round trip, the ones the generations are there to notice.
- `internal/cli/serve_livereload.go:462` looks for the closing tag in the lower-cased
  page and uses its place in the page itself. Lower-casing replaces a byte that is no
  UTF-8 by three: the script goes to another place, or, if the place is beyond the end
  of the page, the handler panics. `BodyPreserved` excepts the pages that lower-casing
  makes longer.
- `httpx/middleware.go:105-125` logs a returned context error as a 504 or 500 even if
  the `*HTTPError` around it is answered with another status (`Overruled`).
- `httpx/middleware.go:126` logs the status of an `*HTTPError` returned over a
  response that is already committed, while the client keeps the committed one.
  `CompletionIsTrue` states what the record does guarantee.

## Proofs

The theorems hold for all values of the constants that satisfy the named assumptions of
the modules: sets of numbers are numbers, durations and limits are positive,
`max_attempts` is in 1..1000, NULL is none of the values it stands beside, and Logger is
installed outside Timeout, as generated applications do. Each rests on an inductive
invariant, which holds initially and is kept by every step; most of them were run
through TLC before they were proved. The step lemma has a case per action. A theorem
named `...Invariant` is the invariant itself; the others follow from it. Properties that
only a theorem states stand in their component's module next to those that a run checks.

*JobStoreProofs.* `StoreInv`, besides types, says that a leased row becomes available
exactly when its lease expires (`HolderNeverRaced` fails without it: Claim and the fence
look at different columns), that attempts and generation advance together, that pending
inserts collide with nothing, and that a generation of one life was handed out once.
From it follow deduplication, the fence, the holder's protection and
`NoTakeoverOfLiveLease` (a claim with an old clock sees even fewer rows as available).
The last part proves the refinement: every statement maps to a step of JobLifecycle for
each job, with `status` read off the two tables and `issued`.

*JobWorkerProofs.* With `Counted` as the invariant, slots taken and slots promised to
the next claim never exceed `Concurrency` (`SlotsFit`), although the two are read apart.
Every step of the worker is a step of the store or leaves it alone, so the theorems
about the store hold of it. Three more invariants stand on that. `SuccessInv`: what
complete may acknowledge is a result the history records as nil in time, hence
`DoneOnlyBySuccess`. `BudgetInv`: a process judges by the counters it was handed, and
those stay the counters of the row its lease matches (`BudgetFixed`: through failure and
restore), hence `NoStrandedJob`. `WatchInv`: a lease names one process and its handler
is watched until it returns, unless the worker is ending, hence
`AbandonedHandlerStopsWorker`. A last part counts the leases of a life, which gives
`DeliveriesWithinBudget` of the store.

*ScheduleProofs.* `LocalOK` states what a scheduler knows at each statement: the row
it holds is the committed row, or its own insert while none is committed.
`Exclusive` says that two schedulers never hold one row, and `MadeBeforeCursor` that
committed occurrences lie before the cursor. A commit that enqueues `due` needs all
three: `due` is not before the cursor that was read, which is the committed one, so no
earlier commit was for `due`, and the new cursor is after it. `SkipInv` adds what was
judged when the clock was read and that the transaction holds or inserts an active job
of the schedule; `NothingFreshSkipped` is what a commit then means.

*SessionProofs.* A step of a request is first reduced to one of eleven shapes (it
quits, restarts, reads, works, renews, stages, inserts, replaces, misses...), each of
which says what it writes to the store; the invariants are then proved per shape.
`IdInv`: an id that no request has stored yet belongs to one request, so a stale save
can only hit a row that is there (`RemovedStaysRemoved`, `CookieNamesStoredRow`).
`ChainInv`: the roots that unsaved requests may bring into the store are distinct from
each other and from the stored ones (`OneRowPerChain`). `DeadlineInv` keeps the time
of issue through copies (`AbsoluteDeadline`), and `NoticeInv` tracks where the copies
of a notice can be (`NoticeShownOnce`).

*WebProofs.* Cache: a caller that carries a value older than the last Forget is marked
(`StaleOnlyByLateLoader`), and what Get deletes is what it saw expired
(`OnlyExpiredAreEvicted`). Both limiters implement `FixedWindow` step by step: a grant
consumes, a denial, a prune or a sweep of a table stutters, because only windows that
are over are removed; the counter of the durable store is cut at the limit by the
refinement mapping. CORS: the policy never changes once it serves, and an answer depends
only on the method and the headers that `Vary` names (`CacheSafe`). RequestBody: a
cached form knows the size of the body it came from (`LimitHolds`). RequestPipeline: the
tracker around the connection agrees with what the connection carries, an expired
context does not come back out of Timeout as the handler's error, and a record once
written stays true of everything that can still be answered (`CompletionIsTrue`, for
every stack of middleware).

*DataProofs.* Occurrence search: the candidate before the range has an occurrence not
after the window, and no occurrence beyond the range lies in the window
(`FindsLatest`). Repository: versions only rise and ids are not reused, so a row with
the version that a client read is the row it read (`NoLostUpdate`). Migrate: on
PostgreSQL a run that may write holds the lock, and what it still has to do is closed
downwards (`up`) or upwards (`down`) in the ledger; from that come the order of the
versions and that drift stops a run. On PostgreSQL and SQLite script and ledger change
in one step, and no step rewrites a recorded checksum in any dialect. QueryBuilder:
the memory that a builder or a compiled statement refers to was allocated for it and
is reached by no other and not by the application, so each keeps what its own calls gave
it (`BuilderIsItsCalls`, and `StatementIsItsCalls` for statements).

*ProcessProofs.* Observer queue: the invariant says which phase the queue is in (at
rest, a drain about to start, a drain with or without an event in hand) and that
observed, in hand and pending events together are the accepted ones. SMTP: the
envelope holds exactly the recipients announced so far. ManagedProcess: closing the
tree kills what is left of it, and whoever ends first closes it. AppRun: where `Run`
and the goroutine that serves stand together. ResourceGenerator: the project was
captured whole, the first files of the plan are in place, and the rollback list covers
every file that is not as captured (`AllOrNothing`).

*ServeProofs.* DevServer: at each step of the supervisor, which slot holds a process and
a binary, where the proxy points, and who holds the generator lock (`LastGoodStands`);
what failed cleanups left is nobody's any more, and there is none before a failure.
CandidateStart: who listens as the process is the process. SourceTracker: while the
generation that a waiter adopted is current, the source has been quiet for as long as
its timer has run (`StableWhenReturned`). SourceSnapshot: what is cached for an asset
and is not its digest was cached before its last write or beyond the bounds, and is not
used beyond the revalidation interval (`SnapshotIsContent`). LiveReload: a registered
stream saw a generation that was current then. RateLimit: its invariant bounds the table
and types the counters; `WaitSuffices` and the bound are about the operators of Take.
(Both need cardinalities, whose library slows every proof of a module, so this limiter
stands here and the durable one in WebProofs.)

Only model-checked:
- every liveness property (`DueSchedulesAdvance`, `SignalStopsWorker`,
  `EveryJobSettles`, `UpgradeCompletes`, `StopEndsTheTree`, `RunReturns`,
  `SendReturns`, `EveryEventObserved`, `Converges`, `PagesCatchUp`): the prover has no
  fairness and no ENABLED;
- properties of recursive data, for which it has no induction:
  `CompiledMeansPredicate`, `RootEndedByItself`, `BodiesSurvive`;
- functions of one input, which the runs evaluate on every small input: `LoadedIsJoin`,
  `InsertedAsMeant`, `FieldKeepsItsMeaning`, `NextIsTheFirst`, `BodyPreserved`;
- `WinnerKeepsCookie`, which no policy of the framework guarantees by itself: it is about
  the order in which responses reach the browser, and holds of applications whose other
  requests leave the session alone.

## Not modelled

- View compiler, printing of generated code, assets, validation, configuration, job
  failure text: functions from text to text, or I/O, without state.
- Schedule observer queue: `emit` and `drain` are those of the job observer queue;
  EventEmitter models and proves that protocol.
- An application's own error handler: the record of a request is compared with what
  the default handler answers.
- HMAC signing, password hashing, TLS: cryptographic primitives without protocol
  state. A signed cookie is the id it carries.
- Registration of jobs, schedules and routes, URL building, validation of
  definitions: done once before anything runs concurrently.
- `SaveSessionWith` beyond the save it shares; CIDR parsing and the character level
  of headers, addresses, cron text and quoted-printable.
- ORM table definitions, projections, the observer and the classification of driver
  errors; values of columns beyond what a property tells apart.
- The model, job and mail generators, which use the file helpers that
  ResourceGenerator models; the account recovery and token templates.
- `ResolveClientAddress`, a function of one request and the configured networks;
  commands run through `runExecProcess`, which stop with the `stopChildProcessTree`
  that ManagedProcess models; the writer that prefixes the output of services.
- Finding the process that listens on a port (it reads `/proc`), the reuse of process
  numbers, and platform files that only wrap system calls.
- `DevServer`, `SourceTracker`, `CandidateStart` and `LiveReload` are checked with
  abstract versions of each other (`Observe`, `WriteViews`, the processes), not in
  one product, whose state space is out of TLC's reach.

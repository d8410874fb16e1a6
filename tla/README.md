# Pulse in TLA+

Pulse (`src/`) is a job scheduler on PostgreSQL. An API creates jobs, a scheduler lets them out of waiting
when they are due, worker processes claim and run them, a reaper takes back the jobs of workers that died,
and a WebSocket publisher tells open dashboards what has changed. All of them are Python processes
(`src/backend/app`) that share nothing but the database; several replicas of each may run. There is no
queue server and no RPC: every interaction is a transaction at READ COMMITTED, and almost everything that
can go wrong is one transaction falling between two others.

This directory holds TLA+ modules of these protocols, TLC runs on small instances, and TLAPS proofs for
instances of any size.

## The system

| component | code | state | operations | modules |
|---|---|---|---|---|
| job engine | `engine/claim.py`, `worker/main.py`, `worker/runtime.py`, `engine/retry.py`, `engine/dispatcher.py`, `api/jobs.py`, `api/dlq.py` | a job's status, worker, lock token, attempts; executions; dead letter entries; the tasks a worker has in flight | submit, promote, claim, re-read, start, end or fail a handler, cancel, retry, replay | `JobEngine`, `JobLifecycle` |
| reaper | `engine/reaper.py` | none of its own | mark stale workers dead, sweep the jobs of dead workers | `JobEngine` (sweep), `WorkerRegistry` (staleness) |
| scheduler tick | `engine/scheduler.py` | an advisory lock; the open transaction | elect a leader, promote due jobs, resolve dependencies | `SchedulerTick` |
| worker registry | `worker/main.py`, `models/worker.py`, `api/chaos.py`, `engine/scheduler.py` | rows of `workers` with a last heartbeat and a kill flag; the process behind each | register, heartbeat, drain, die, revive, kill, prune | `WorkerRegistry`, `WorkerPresence` |
| members and roles | `api/orgs.py`, `core/rbac.py` | roles in `organization_members` | create an organization, invite, change a role, remove | `Membership` |
| event feed | `ws/publisher.py`, `ws/manager.py`, `ws/router.py` | a watermark for each watched project, the open sockets | connect, disconnect, tick | `EventFeed` |
| cron schedules | `engine/scheduler.py` 97-152, `api/jobs.py` 241-327 | templates with `next_run_at`, `is_active` | create, spawn, pause, resume, delete | `CronSchedules` |
| rate limiter | `core/ratelimit.py` | a token bucket for each queue and process | take, refill, replace | `RateLimit` |
| job creation | `api/jobs.py` 63-213, `models/job.py`, `schemas/job.py` | jobs and their idempotency keys; the open transactions | create, create a batch, look up, re-read, delete the queue | `JobCreation`, `JobDirectory` |
| backoff and dead letters | `engine/retry.py`, `engine/dispatcher.py`, `api/dlq.py`, `api/jobs.py` 340-373 | `run_at`, `attempts`, the policy; entries and row locks | fail, back off, die, retry, replay, edit the policy | `FailureHandling`, `DeadLetters` |
| polling and wake-up | `worker/main.py` 124-249, `engine/claim.py`, `core/notify.py`, `api/queues.py` 89-153, the trigger on `jobs` | a wake event and a listening connection; the advisory lock and the settings of a queue | poll, lock, read, claim, notify, wait; pause, resume, resize | `Polling` |
| login limiter | `core/ratelimit.py` 51-87, `api/auth.py` | failures for each key in a sliding window | block, record, reset | planned |
| browser clients | `frontend/src/lib/ws.ts`, `api.ts` | a socket with reconnection, a token that is refreshed | connect, back off, refresh | planned |
| the rest | CRUD requests, metrics, lists, schemas, logging, handlers, summaries, migrations, pages, Kubernetes files | - | - | not modelled, see below |

What they do to each other. The API and the scheduler make a job `queued`; a worker's claim makes it
`claimed` under a fresh `lock_token` and `running` when the handler starts; the worker, or the reaper if
the worker's row is `dead`, moves it on. The reaper's only evidence is `last_heartbeat_at`, which it may
misjudge: so the worker checks its token again before each write (fencing), and a heartbeat undoes a
premature death. The scheduler's tick writes rows that requests and workers write too, and holds what it
read for several statements. The publisher finds changes by `updated_at` alone.

What is hard, in one line each (PROJECT.json lists the places under `hazards`): two workers that believe
to own one job; a job nobody will ever move again; a failure charged twice or not at all; dead letters that
do not match dead jobs; a cancelled job that runs; a dependent that runs too early or never; a live worker
declared dead; an organization without an owner; a change an open page is never told of; a cron slot that is
run twice; a queue that is let out faster than its rate, or not at all; one key that names two jobs, or a repeated
request that is refused; a job that waits although a worker is idle; a limit of a queue that several claims
exceed together; requests that wait for one another.

## Modules

**`JobLifecycle`** is the abstract specification of a job: the status diagram of `docs/architecture.md` with a
lease. While a job is claimed or running it has exactly one lease, a lease is never used twice, and only the
steps of the diagram move it, with one step more, which the code takes: a promotion decided while the job was waiting (`picked`)
undoes a cancellation that came in between.

**`JobEngine`** is the detailed one. `status`, `workerId`, `lockToken`, `attempts` are the columns of `jobs`;
`pending[j]` counts the dead letter entries of `j` not yet replayed; `exec[t]` is the execution row inserted
under claim `t`; `task[t]` is what the claiming process remembers of that claim (the token and the attempt it
read back, and where in `_execute` it is); `asking[w]` is the limit a claim statement was sent with;
`proc` and `row` are a worker's process and its row. A transaction that locks the job row first is one action;
between transactions everything interleaves. `PollOnce`, `ClaimJobs` and `ReadBack` are the three awaits of a
poll, `Start`, `Succeed`, `Fail` and `Discard` the two transactions of `_execute`, `ReapSweep` is
`reap_dead_workers`, `Submit`, `Cancel`, `Retry`, `Replay` are the API. A promotion is two steps, `FindDue` and `Promote`: neither the
UPDATE of a rate limited queue nor the commit of `resolve_dependencies` looks again at the rows it read (`found`).
Two switches name what the code leaves open: `PromptRead` (no sweep between a claim's commit and the re-read
of the claimed rows) and `DbErrors` (a worker's transaction may fail).

**`SchedulerTick`** takes a tick apart into its statements: `Lead` (the advisory lock), `FindLimited` and
`PromoteLimited` (the subquery with LIMIT, and the UPDATE that takes its rows), `PromoteDue`, `ReadGated` and
`ReadStatuses` (`resolve_dependencies`), `Commit`, where the ORM writes what was decided, and `Abort`.
`lifted` are the rows the tick has updated, which stay locked. Requests and workers (`Create`, `Cancel`,
`Take`, `Finish`, `Replay`, `Delete`) run between any two statements and wait for locked rows. A prerequisite can be
`gone`; its dependents then stay gated, as the code has it.

**`WorkerRegistry`** is in discrete time. `Register` ends at the commit; the loops start when the listener is set up
(`Listen`). A heartbeat is a read (`BeatRead`) and a write (`BeatWrite`) in one
transaction without a lock in between, then `Listen`; `shutdown` is `BeginShutdown`, `MarkDraining`,
`MarkSelfDead`, `Exit`; the reaper's test is `Scan` and `MarkDead`. `age` is the time since
`last_heartbeat_at`, `timer` and `since` are how long the loop and the shutdown have been where they are,
`mark` is the status column the ORM will write, if any. Anything may take any time; `stalled` is a history
variable that remembers whose loops were once slower than `Latency` or whose heartbeat was lost, and the
properties about margins speak of the others (`Punctual`).
**`WorkerPresence`** is what the engine may count on, and is what `JobEngine` assumes in `Register`, `Revive`,
`BeginShutdown`, `MarkSelfDead`, `Crash` and the marks of `ReapSweep`: a row can be wrong about a live worker at
any time, but not for ever about a process that is down.

**`Membership`** keeps the reads of a request and its write apart: `Authorize`, `LoadTarget`, `CountOwners`,
`LoadInvited`, `Write`. Rows, not users, have roles, because a removed user who is invited again gets a new row.
Requests overlap in any way. `overtaken` and `raced` are history: whether a request that took an owner away wrote while another
one that did so too was between its authorization and its write.

**`EventFeed`** has the database clock, `updated_at` (`stamp`), the publisher's watermark (`last`), its running tick
(`now`, `todo`), and as history the changes an open page is `owed` and those that are lost for it (`missed`). `Update` is any
transaction of anybody; `Bulk` bounds how many jobs it writes at once and `Lag` how long before its commit it may have started.
A change is put into `missed` at one of three moments: `Late`, when it is committed behind the watermark; `Torn`, when a page
ends among changes of its time; `TooOld`, when the first poll of its project does not look back that far.

**`CronSchedules`** has the templates (`row`, `next`) and what an open tick of a replica knows: the slots it read
(`ReadDue`), the time its own clock told it (`AskClock`), and the write of jobs and templates at its end (`Commit`).
`Abort` is a tick that fails. A cron expression is the set of slots it names. The requests are `CreateSchedule`,
`Pause`, `Delete`, and a resume in three steps, `ResumeLoad`, `ResumeDecide` (the next slot, by the clock of the API's host) and
`ResumeWrite` (the UPDATE of the columns that differ from what was loaded). They overlap freely, with each other and with ticks.
`HostTimes` is what any host may take the time to be. `spawned`, `served`, `again` and `errant` are history.

**`RateLimit`** has one queue, and a token bucket for each scheduler process. Time is counted in steps of 1/Unit seconds
and tokens in units of 1/Unit, so that the arithmetic is exact. A tick is `ReadRate` and then `Promote`, which takes all
whole tokens and lets out as many due jobs, or `TickFails`, which takes the tokens and lets out none. `watch`,
`count`, `credit`, `grant` are an observer who counts from any moment with a limit to any later one before the
rate is changed.

**`Polling`** takes apart what `JobEngine` does in one step, over several queues. `at[w]` is the poll loop of a worker: the
queues it has yet to visit (`todo`), and in a claim the queue, the free slots it counted (`free`) and what its snapshot
showed (`view`). `PollQueue`, `TakeLock`, `ReadQueue` and `Claim` are the statements of a claim, each with a snapshot of its own;
`now()` is the start of the transaction, so `PollQueue` fixes which jobs are due. `Park`, `Woken` and `TimedOut` are the wait
of `poll_loop`, whose event is cleared after it and before the next poll; `OnNotify`, `Listen`, `Listened`, `Disconnect` are
the listening connection, `Notify` is part of each action that makes jobs claimable, `RefreshQueueIds` is in the heartbeat.
`Touch` and `Release` are a request that holds the row of a queued job. A claim takes the jobs of the highest priority
(`Preferred`), and a poll visits the queues in any order, since the query for them has no ORDER BY. Two history variables tell what w has done about
the jobs queued ever since: `looked[w]`, those for which it has begun a claim from their queue, and `passed[w]`, those it has left without
one: no slot was free, the claim failed, or their queue was learned of after the poll had begun.

**`JobCreation`** is `create_job` and `create_batch` between their statements: `Lookup`, `ValidateDependsOn`, `InsertRow` for each row (it
waits while an open transaction holds the same key), `CheckQueue` (the foreign key), `Commit`, `Reply` (the refresh), and after a
violation `Rollback` and `Reread`. `Lose` is a lost connection, before or after the commit; another request under
the same key is the client's repetition. `DeadlockDetected` is PostgreSQL's answer to batches in a circle.
`known[r]` is history: the job that had the key when the request came in.
**`JobDirectory`** is what it implements: each request is carried out at once and as a whole.

**`FailureHandling`** follows one job. `RetryLater` and `MoveToDlq` are the ends of `apply_failure`; `Delays` is `compute_delay_sec` in
whole seconds; `wait` is the distance of `run_at` from the database's clock, written by a worker's clock that differs by
up to `Skew`. `EditPolicy` is any change of the policy, its deletion included. The requests take their row locks in the
code's order: `LockJob` and then the entries in `RetryJob`, `LockEntry` and then the job in `Replay`, so that two of them
may wait for each other (`DeadlockDetected`). `drawn`, `elapsed`, `before` and `steady` are history.
**`DeadLetters`** is what it implements: every death leaves one entry, and a job is brought back once for it.

The `MC` modules name the instances, and each `.cfg` is one run.

## Runs

The runs check deadlock too, except `polling`, `creation` and `failures`, whose instances really stop because their jobs and requests are used up, and
`members`, where a race that takes the last owner may leave nobody who could make a request.

| run | instance | what it shows |
|---|---|---|
| `engine_safety` | 2 jobs, 2 workers with 2 slots, 3 claims, 2 attempts, failing transactions | one owner (`SoleOwner`), every held job names who will release it (`Recoverable`), executions and dead letters agree with the job (`ExecutionLedger`, `DlqExact`), a failure is charged once (`FailureChargedOnce`), a worker claims no more than it has slots for (`NeverOverclaims`), every step is one of the documented diagram or a promotion that undoes a cancellation it was decided before (`ImplementsLifecycle`) |
| `engine_liveness` | 1 job, 2 workers, 3 claims, failing transactions, fair | self-healing: a held job is released in the end, unless a failed transaction has made its living worker forget it (`LeaseEnds`) |
| `engine_late_read` | 1 job, `PromptRead = FALSE` | **violates** `SoleOwner` |
| `tick_safety` | 3 jobs, up to 2 prerequisites, 2 replicas, 1 failing tick, 1 deleted job, fair | `GateHolds`: nothing is let out before its prerequisites have completed; `TickSparesWork`: no commit moves a job that is queued, taken or over; `GateMoves`: no gated job stays in limbo whose prerequisites are there |
| `registry` | 1 worker, H = 1, L = 1, V = G = 4, that may stall, fair | `PunctualIsAlive`, `DrainsInPeace`, `Revived`, `KillWorks`, `ImplementsPresence` |
| `members` | 2 users, 3 rows, 2 requests that overlap | `HasOwner`: the last owner is lost only to two overlapping requests that each take an owner away |
| `feed` | 3 jobs, 2 projects, cap 2, transactions of 2 jobs that commit up to 1 late, one failing tick, fair | `NothingSkipped`: the watermark passes no update an open page was not sent, but for those that are late, torn or too old; `CatchesUp`: in the end every page has every other change |
| `cron` | a schedule and a broken template, 2 replicas, 2 resumes, clocks up to 1 behind, fair | `SlotOnce`: a slot is run once, and again only for a resume that erred; `Collapsed`, `Served` |
| `rate` | 2 replicas, rates 1 and 2, 1 restart, fair | `RateBound`, `BacklogMoves` |
| `polling` | 2 workers that poll, or 1 that is also woken; 2 jobs, 2 queues, one of them created later; a fault, a request; fair | `PollInv`: one transaction at a time counts and claims from a queue, and slots are kept; `ClaimsAreSound`: a claim keeps the limit it read, and takes nothing paused, cancelled or locked; `NoLostWake`: nobody waits with a job for which it has neither begun a claim nor deliberately left it; `Claimed`: the poll interval alone keeps jobs being claimed, and brings the job of the highest priority to a worker |
| `creation` | rounds of 4 requests: a repeated creation with prerequisites and 2 batches whose keys cross; 2 creations and a batch under the empty key and one without a key; a lost connection, a deleted queue; fair | `SameJob` and `RepeatIsSafe`: who asks under one key is told of one job, and the first one, `CreationInv`: a batch is all or nothing; `SinglesAreSpared` and `Answered`: who can be hurt by a deadlock, and that nobody waits for ever; `ImplementsDirectory`: all of it is requests carried out one at a time |
| `failures` | 1 job, 3 attempts, a retry and 3 replays, policies of all strategies, clocks 1 s apart, one edit, fair | `Backoff`: the cap with its jitter, no shorter than the delay before, waited out; `EntriesExact`: just the last death is pending; `FailureInv`: what is read under a lock stays so; `ComesToAnEnd`; `ImplementsDeadLetters` |

What the violated run says of the code, with the doc it contradicts, is under `findings` in PROJECT.json:
`claim_jobs` commits its claim and re-reads the rows in a new transaction. If the reaper declares the worker
dead and requeues in between, and another worker claims, the first one reads the second one's token and both
run the job. (With a prompt re-read, ownership is exclusive: theorem `OwnerIsUnique`.)

Met while modelling. The properties that passing runs check are true of the code as it is, so each of them names the exception the
code makes; these are the exceptions, with what the docs say where they say something:

* A cancelled job may come back as queued. The UPDATE of a rate limited queue takes the rows its subquery found without looking at their
  status again (`scheduler.py` 62-68), and `resolve_dependencies` writes by primary key at the commit (193-194), so a cancellation between is
  overwritten. `docs/architecture.md` draws `cancelled --> [*]`: `picked` of `JobLifecycle`; `CancelIsFinal` of `SchedulerTick`, which states the
  diagram's claim, is false and in no run.
* A database error in the re-read, or in a task's own transaction (`worker/main.py` 222), leaves a job claimed or running under a worker
  that lives, and only jobs of dead workers are ever swept: `Forgotten` in `LeaseEnds`.
* A dependent whose prerequisite has been deleted stays gated for ever (`scheduler.py` 184-187): `gone` in `GateMoves`.
* Heartbeats stop when a shutdown begins. The deployed grace period (30 s, `config.py` 74) is as long as the visibility timeout,
  so the reaper may take the jobs of a worker that drains longer than the timeout less three latencies, and they are run twice:
  `DrainsInPeace` promises the time up to there, whatever the grace period, and no more.
* Two owners who leave, demote or remove each other at the same time leave an organization without one, as nothing is locked between the count and the
  write. `docs/design-decisions.md` 212-214: "an org can never be left without at least one owner". `raced` in `HasOwner`.
* The publisher loses changes: of a transaction that commits after a tick which started after it (`Late`), of a bulk transaction that a full page
  tears apart (`Torn`; all of it has one `updated_at`), and changes made before the first poll's window when ticks are slow or fail
  (`TooOld`). `ws/publisher.py` 72-73 claims that a burst beyond the cap skips nothing. `missed` in `NothingSkipped` and `CatchesUp`. And the
  watermark of a project is kept when the last socket of the process closes, so the client that comes back is sent everything since.
* A resume goes by the clock of the API's host (`api/jobs.py` 255, 310-312). If that is behind the database's, a slot already run may be
  set again; and of two overlapping resumes, with a pause and a tick between, the later one may set `next_run_at` back to a slot that has been run.
  `again` in `SlotOnce`, `errant` in `Collapsed`.
* A job may wait for ever while others keep coming: claims prefer the higher priority (`claim.py` 30), and a poll ends at the queue that
  fills the slots (`worker/main.py` 234-239), in whatever order the queues came from the database. `Claimed` promises that
  jobs keep being claimed, and more only to the job of the highest priority in the one queue that has jobs (`First`).
* `RetryPolicyUpdate` does not keep what `RetryPolicyCreate` demands (`schemas/retry_policy.py` 17-21, "max_delay_sec must be >=
  base_delay_sec"): a cap below the base is a policy of `failures`, and the cap wins.
* A job is created, and its creation answered with an internal error, when the queue is deleted between the commit and the
  refresh. Two batches whose keys cross may end in an internal error for one of them: only `IntegrityError` is
  turned into a 409.
* The empty string is no key for the lookup but one for the unique index: a repeated creation finds its job only after the
  violation, and a batch with two empty keys passes its schema and can only be refused.
* `replay_from_dlq` refuses a job that is no longer dead (`dispatcher.py` 35): with the entry under its lock and pending, the job
  is dead, whatever else goes on (`EntriesExact`), so the check never bites.
* A claim that waits for the advisory lock still goes by the time its transaction began, so it passes over a job that came due, or
  was created, while it waited; the notification, and after that the poll interval, bring the worker back (`NoLostWake`,
  `Claimed`).
* Every scheduler process has its own buckets, so N replicas that take turns let out N times the rate of a queue;
  the comment in `core/ratelimit.py` supposes a single one. `RateBound` is what the code keeps, a bound for each. (The bucket is ready
  for rates below 1, `max(rate, 1.0)`, which cannot be set: the column and `schemas/queue.py` 12 and 24 take whole numbers from 1.)

### Bounds, and why they are enough

`JobEngine`: three claims are what it takes for a job to be claimed, taken back, claimed by the other worker and
claimed again while a second job is held, and the races above need two. `MaxAttempts = 2` has a retry and a last
attempt. `Tokens` bounds the claims of a behaviour; nothing else is bounded, for `attempts` cannot pass `MaxAttempts` (theorem
`RetriesAreBounded`) nor `pending` what `DlqExact` allows. A worker that restarts is another element of `Workers`, as in the code,
where each start registers a row. `engine_liveness` has one job, since what releases a lease is its own task or its
worker's death, and a second job only adds waiting.

`SchedulerTick`: a chain, a fork and a join of prerequisites need three jobs; the leader lock needs two replicas;
one failing tick (`MaxAborts`) leaves every partial tick behind once, and one deleted job (`MaxDeletes`) can be any prerequisite, at any
statement of a tick. A longer chain is decided one level a tick.

`WorkerRegistry`: the settings sit exactly on the margins, where an off-by-one shows: H + 3L = V for a running worker
(the heartbeat's sleep, its read, its write, and the listener it may have to reconnect). The code's 5 s and 30 s leave room
for latencies of 8 s. The grace period is as long as the timeout, as deployed, so that a worker may drain beyond
V - 3L, where `DrainsInPeace` ends.
`age` stops one above V and the timers at their longest stage, since nothing compares them with more. Workers do not
touch each other's rows, and the proofs hold for any number of them: one worker is enough for TLC.

`Membership`: two users suffice for the last owner and the last but one, the third row for a return after removal.
Two requests, because each reads and writes one target, and a race takes two.

`EventFeed`: three jobs with a cap of two have a full page and a rest, and a transaction of two jobs (`Bulk`) can be torn by it. A
transaction may commit one step after a tick has passed its time (`Lag`), and a window of two is passed by a failed tick with changes between, so that
each kind of lost change occurs. The second project has no jobs, and its socket keeps the publisher busy when nobody watches the first. The
clock ends at `MaxTime`, which is long enough for two ticks, a failure between, and a disconnection. Theorem `NothingIsSkipped` bounds none of these.

`CronSchedules`: irregular slots, some of them in a row and one left out, so that missed slots, a slot that is now and a slot
after now differ; clocks one behind, because with `Behind = 0` the maximum in `Base` would never matter, nor a resume set a slot
again. Two resumes for the overlap, two replicas for the lock. The last slot is after `MaxTime`, so that a behaviour ends with all schedules served.

`RateLimit`: rates 1 and 2 at half seconds, so that a bucket holds fractions and tokens are left over; four steps,
two seconds, are longer than a bucket takes to fill, and one restart brings one full bucket more. `Window` and `Restarts`
bound only what the observer counts. `MaxDue` is more than a bucket of either rate holds.

`Polling`: two claims of one queue need two workers; a poll that visits two queues, one of which is new, needs two queues; two jobs at a
limit of one, or two, make the room of a queue and the slots of a worker differ. `Setups` pairs these: with two workers both
poll only, with one it may also be woken, and the proofs hold for all of it together. The jobs are of two priorities and are queued
again without bound, so that one can keep the other from a worker for ever. One fault and one request fall anywhere.

`JobCreation`: `Rounds` are the two groups of requests that can meet: under one nonempty key with crossing batches, or under the
empty one. More requests under one key repeat the second; longer batches make longer circles of the same kind. One request is
lost, at any statement, and the queue may be deleted at any.

`FailureHandling`: three attempts have a first delay, one that grows, and a death; the cap of 3 s is under the second delay of the
linear policy and the fixed one has its cap below its base and full jitter. One retry and three replays, two of them of the same entry, are
what a circle and a stale replay take. One edit, and clocks a second apart, are enough to separate the delay
that was drawn from the one that is waited.

### Fairness

`JobEngine`: handlers return (a handler that never returns is a job that never ends; the code has no timeout for
it), a live process runs its tasks and its poll's re-read, a process that is stopping ends, and a process that is down
is declared dead in the end (`WorkerPresence`, which `WorkerRegistry` implements). The sweep is strongly fair for each
job: `SKIP LOCKED` passes over a row somebody has locked, and we assume that it is not locked at every reaper tick. Nothing
is assumed of users: no fairness of submissions, cancels, retries, of polls or of claims.

`SchedulerTick`: `run_forever` ticks again after every tick, also a failed one; a tick's statements end.

`WorkerRegistry`: time passes, the loops run, the reaper ticks, a shutdown goes on; heartbeats may fail infinitely
often, but not all of them (strong fairness of `BeatWrite`), as after the stall or the partition has ended.

`CronSchedules`: some replica ticks again and again, and an open tick ends; not every tick fails that could succeed (strong
fairness of `AskClock` and `Commit`), as `run_forever` catches whatever a tick raises. A tick that can not succeed, because a
template it read has been deleted, is not helped by it, only by the next one.

`RateLimit`: time passes, some replica ticks, and not every tick fails that would let out a job (strong fairness of `LetsOut`).
Nothing is assumed of restarts or of the rate.

`Polling`: the loop of a worker goes on, its wait ends by the poll interval, heartbeats come round, handlers and requests end, clocks
advance. Notifications and the connection they come by are not fair at all, and the advisory lock is only weakly so: whoever
holds it commits or fails.

`JobCreation`, `FailureHandling`: a request that has come in goes on, and PostgreSQL resolves a deadlock; in the latter the job's
task, the scheduler and the clock go on too. Clients, losses, edits and deletions are free.

`EventFeed`: the publisher keeps ticking and at most `Failures` ticks fail in a row. Sockets and updates are free.

## Proofs

Every theorem holds for any values of the constants that satisfy the assumption named in the module; the cited
runs are what TLC saw of it.

* **`JobEngineProofs`.** `TypeCorrect`, `SlotsSuffice` and `WorkersArePresent` need nothing. The others assume `PromptRead`, because without it they are false
  (`engine_late_read`). `EngineInv` is the inductive invariant: `LeaseInv` (a job is held exactly while claimed or
  running, by the claim its token names, and a task remembers no token but its own), `ExecInv` (a running
  execution belongs to the current claim of a running job), `AttemptInv` (the attempt a lease holder is making
  is the next one), with `AttemptBudget` and `DlqExact`. `SoleOwner` alone is not inductive: it says nothing about
  a task that has yet to re-read, nor that a token in a row is that of the claim that wrote it. `EngineCorrect` proves
  it one action at a time; `OwnerIsUnique`, `JobsAreRecoverable`, `LedgerIsExact`, `DeadLettersAreExact` and
  `RetriesAreBounded` follow. `LifecycleImplemented` is the refinement of `JobLifecycle`, step by step: a claim acquires tokens no
  task has had, every other step gives leases up or keeps them, and a promotion moves what the tick has found (`FoundInv`: a job that
  was found and has not been promoted is still waiting, or cancelled). It needs one fact more, `HandlerInv`: a task in its handler that
  still owns its row made the job running, and nothing but the loss of the lease undoes that. With it `FailuresAreChargedOnce`: the one
  running execution of a job is closed by whoever charges the attempt. `LimitIsKept`: a queue never has more active jobs than its limit; a step that
  claims may add what `MayClaim` allows, and `OnlyClaims` is the lemma that no other step makes a job active. `NobodyForgets` is the safety
  half of `LeaseEnds`: a held job is in the hands of a task that a live worker is at, or its worker is down; besides `PromptRead`
  it supposes that no transaction of a worker fails (`~DbErrors`), and is false otherwise, since such a worker lives on with a job it
  has forgotten (`Forgotten`, which `LeaseEnds` names, so that it is checked with failing transactions).
  `WorkersArePresent`: a worker and its row take only steps of `WorkerPresence` here, as they do in `WorkerRegistry`
  (`PresenceIsSound`), so that the two modules speak of the same workers. `SlotsSuffice` counts a worker's claims (`WithinSlots`): a
  poll is not sent before those of the one before are in flight, so what it asks for fits.
* **`SchedulerTickProofs`.** `TickInv`: one leader, and what an open tick has read is still so, cancellations and deletions excepted.
  `GateHolds` is not inductive since the commit acts on what was read statements ago; it needs that a completed job
  stays completed and that a row the tick has lifted is locked. `TickCorrect`, `GateIsSafe`, `TicksSpareWork`.
* **`WorkerRegistryProofs`.** From `Margin` (H + 3L <= V): `RegistryInv`, in which `Fresh` bounds the age of a
  heartbeat by where the loop and the shutdown are. `PunctualWorkersLive` is that no live worker is declared dead that never stalled,
  `DrainingWorkersKeepPeace` adds draining workers, up to V - 3L of their draining, whatever the grace period (`Trusted` are the workers the
  timeout protects). The deployed settings satisfy `Margin` with latencies up to 8 s. `PresenceIsSound`, which
  needs no margin, is the safety part of `ImplementsPresence`: whatever is late, a worker and its row do nothing but what `JobEngine`
  assumes of them. Its invariant `Enrolled` says that only a worker that has not started has no row; that a dead process is found is left to TLC.
* **`ApiProofs`** has three parts.
  *Members*, for any number of overlapping requests. `OwnersInv`: until a race has happened, there is an owner besides the actor or
  the target of every request that nobody has overtaken and that will write without looking again (`Backed`). `OwnersCorrect`, and from it
  `AlwaysAnOwner`. The guard counts, so the proof uses that a set of two owners has another one besides any given row.
  *Job creation*, with no hypothesis but the module's assumption. `AllSane` says of one request what is true between its statements (which rows it has
  inserted, whether it is among the open ones, what it was answered); `UniqueKeys`, that no two open or committed rows have
  one key, needs it because `InsertRow` compares with live rows only. From them `CreationCorrect`. `SameJobCorrect` and
  `RepeatIsSafeCorrect` speak of answers given long ago, so they need that a committed key is there for good (`UniqueForGood`),
  that a refusal has its reason: the queue is gone, a committed row has a key of the request, or a batch names the empty key twice (`Refused`), that each
  answer names a row that was kept (`Informed`), and that a key known on arrival is found (`Finds`). `SinglesAreSparedCorrect`: a victim of a
  deadlock is a batch with rows. `HoldsQueue`, that a queue is there as long as an open transaction has checked it, serves the
  refinement: `DirectoryImplemented`, by which each statement is a request of `JobDirectory` carried out as a whole (at its commit, or
  where it is answered) or a stutter.
  *Event feed.* `FeedTypeCorrect` and `NothingIsSkipped`, without any hypothesis: however many jobs a transaction writes, however long it
  takes, however late or failed the ticks are, what an open page is owed behind the watermark is late, torn or too old. `NothingSkipped`
  is inductive with the types: each step that moves a watermark past a change, or a change behind a watermark, is one of the three kinds or sends it. The proof is
  the argument that there is no fourth.
* **`CronSchedulesProofs`.** `CronInv`: one open tick; a slot from `next_run_at` on, or from the slot an open tick is running, may be run
  once more (`OpenFrom`), and none of what a resume is about to write has been run, unless the resume errs, by a clock that is behind or because another
  one has overtaken it; nor is that earlier than what an open tick has read, as far as the clocks agree. `SlotOnce` is not inductive: a commit
  runs a slot it read statements ago, and a resume writes what it decided. `CronCorrect`, `SlotsRunOnce`, `MissedRunsCollapse`, for any
  expressions that always have a next slot, any number of overlapping requests and any skew of the hosts' clocks.
* **`RateLimitProofs`.** `RateInv`: what a process has let out, with what its bucket would hold after a refill, is at
  most what the bucket was given since the count began. `RateBound` forgets the bucket and is not inductive.
  `RateCorrect`, `RateIsBounded`, for any rates, replicas, resolution of time and restarts.
* **`PollingProofs`.** `PollInv`: the advisory lock of a queue is held by the one worker that is between `TakeLock` and the end of its
  claim; since its snapshot the active jobs of that queue can only have become fewer; a worker's jobs and the slots its claim
  counted on are together no more than it has. `PollCorrect`; from it `ClaimsSound`, that every step that makes jobs active is a
  claim within the limit it read. `NoLostWake` is not inductive, since it speaks of waiting workers only: `WakeInv` adds
  that in a poll each queued job has been looked for, been left, or is in a queue yet to be visited, unless something is on its way
  that wakes the worker. `NoWakeIsLost`. TLC has checked `WakeInv` as an invariant of the instance too.
* **`FailureHandlingProofs`.** `FailureInv` and `EntriesExact` are inductive together: a request in its second statement holds a
  lock, and under it the job stays dead, or the entry pending. `FailureCorrect`, `LastEntryOnly`, and `LettersImplemented`: the
  requests lock by lock refine `DeadLetters`, each step a step of it or a stutter. `BackoffCorrect` is the action property `Backoff`, for any
  policies, edits and skew. Its invariant `DelayInv` ties what was drawn to the policy and the attempts while the policy
  has not been edited, and what has been waited and is left to what was drawn. That delays grow needs 2^n to grow: the lemma `Powers` has it from the
  number of subsets of a set, without an induction of its own. TLC has checked `DelayInv` as an invariant of `failures`.

The inductive invariants `EngineInv`, `TickInv`, `RegistryInv`, `OwnersInv`, `CronInv` and `RateInv` are in the modules; the proofs are about
them, and the runs check the properties that follow from them.

Every invariant and action property of the runs is a theorem or follows from one, and so is every refinement but for its liveness.
Only model-checked: what is temporal under fairness (`LeaseEnds`, `GateMoves`, `Revived`, `KillWorks`, `CatchesUp`, `Served`,
`BacklogMoves`, `Claimed`, `Answered`, `ComesToAnEnd`) and the liveness part of `ImplementsPresence`. Liveness and ENABLED are beyond the
installed provers. No module contains RECURSIVE operators.

## Not modelled, and why

* Wording, payloads, logs, metrics, pagination, schemas, error responses: no property is about them. A request that
  is refused is a step that changes nothing, or no step.
* Handlers and AI summaries: I/O. A handler succeeds or fails; the summary is written after a job is dead.
* Password hashing, JWT, croniter, asyncpg and SQLAlchemy are libraries; what the code relies on (row locks, READ
  COMMITTED statements, a unit of work written at commit, columns written only when changed) is in the actions.
* Pages, styles, Kubernetes and compose files: configuration and presentation. Replica counts and timeouts are constants.
* In `JobEngine`: backoff delays and `run_at` (a waiting job is due at any time), pausing and more than one queue, which are in
  `FailureHandling` and `Polling`; the pruning of worker rows, which is in `WorkerRegistry`; and priorities (any claimable job may be taken), which are in
`Polling`, where `run_at` orders nothing among jobs of one priority. That the
  statements of `Polling` implement the one-step claim of `JobEngine` is argued, not checked: `ClaimsAreSound` is what the latter supposes. In `EventFeed`: `worker.updated`, `queue.stats` and `metrics.tick`,
  a socket whose send fails.

* Single-row requests: projects, names of queues, creation of policies. A refusal apart they are one UPDATE.

## Plan

Written: the job engine and its status diagram, the scheduler's tick, the worker registry, memberships, the event feed,
cron schedules, the rate limiter, polling and claims, job creation, failure handling. What is left, the most important first:

1. The sliding window of failed logins (`core/ratelimit.py` 51-87); the reconnecting socket and the token refresh of
   the frontend, the socket composed with `EventFeed`.
2. Proofs: the statements of `Polling` as a refinement of the one-step claim of `JobEngine`; what is left of `SoleOwner` without
   `PromptRead`.

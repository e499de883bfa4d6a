# Models and proofs for notes-interview-topics

The repository is a collection of notes; about 9,000 of its lines are programs.
This directory holds TLA+ models of those programs' stateful parts, the TLC
configurations that check them, and TLAPS proofs. Every definition is
translated from the source; `PROJECT.json` maps each to its lines.

Run from this directory, e.g. `tlc -config MCRedisQueue.cfg MCRedisQueue`, and the
proofs one module at a time, e.g. `tlapm RedisQueueProofs.tla`; the proof modules are
`CollectionLemmas` and the seven whose names end in `Proofs`.

## The system

Paths: `R2/` is `interview-prep/headstart-python/code/round2/`, `HP/` its parent,
`AM/` is `flutter/api-monitor/src/`. The Python programs share no state with each
other; within each, clients meet in Redis, in sqlite or on one event loop.

| component | state | operations | what is hard | what makes it correct |
|---|---|---|---|---|
| job queue `R2/redis_queue.py` | lists `jobs`, `jobs:processing`, `jobs:dead`; each worker's entry | `enqueue`, `worker_loop`, `requeue_stuck` | workers, reaper and crashes between any two Redis commands; lost replies | no job vanishes; in one place at a time; tried `MAX_RETRIES` times; first tries in order; every job settles |
| payments `R2/razorpay_webhook.py` | tables `orders`, `webhook_events`, `wallet`; the connection's transaction | `POST /orders`, `POST /webhooks/razorpay` | order requests run in a pool on the webhook's connection; duplicated, late, failing events | credits = paid orders; one order per key; paid is final; every event recorded |
| CSV import `R2/csv_import.py` | tables `leads`, `import_jobs`; Redis hash and list | `create_import`, `worker`, `process_import` | a death between COMMIT, hset and the next chunk; resuming | checkpoint and data agree; progress never ahead, never back; imports whose worker lives finish |
| ApiMonitor store and interceptor `AM/storage/api_log_store.dart`, `AM/interceptor/` | two Hive boxes; suspended methods; change events; the debounced stream | `onRequest`, `onResponse`/`onError`, `upsert`, `delete`, `clear`, `updateRetention`, `init` | methods nobody awaits overlap at every await; two boxes without a transaction; the app is killed | the newest `maxRecords` are kept; nothing is stored out of reach; an open timeline catches up |
| ApiMonitor facade, config `AM/core/` | the init future, `_interceptor`, current config | `init`, `save`, `updateConfig` | use before init is through; overlapping saves | "safe to call after `init()`"; memory, box and store agree |
| ApiMonitor algorithms `AM/matching`, `redaction`, `aggregator`, `exporter` | none | patterns, templates, redaction, percentiles | edges | agree with a plain definition |
| rate limiters `R2/rate_limiter.py` | times per user; sorted set; counter | `allow`, `retry_after` | test and popleft, check and append in threads; window edges; expiry; a rounded TTL | a bound on what any window lets through; no denial unearned; when `Retry-After` holds |
| caches `R2/redis_cache*.py`, `R2/fastapi_cache_ratelimit.py` | table, Redis keys with TTL | get, put, update, delete, limit | a stale read stored after the write; INCR without EXPIRE | a stale copy has an overlap or a death to blame, and goes |
| simple queue `R2/redis_queue_simple.py` | two lists | two workers, `recover_stuck` | a crash while handling | level 2 keeps the job |
| patterns `HP/design_patterns.py` | breaker, command queue, bus, unit of work, leads, subscription | their calls | awaits between check and act; cancelled calls; raising half-way | the breaker opens and closes again; one handling per key; whole transfers; told in order |
| FastAPI demo `HP/fastapi_demo.py` | leads, jobs | REST endpoints, `fake_worker` | pages while inserting | tenants apart, e-mails unique, pages complete |
| scaling lab `labs/scaling-lab/app/main.py` | pool, gauges, leak | endpoints | pool and event loop saturate | gauges balanced, pool bounded, health answered |

Interactions: producers, workers and the reaper share the three lists; order
requests and webhooks share one sqlite connection; the import API and its
workers share the table, the hash and the list; the interceptor and the screens
call the store, which calls Hive and emits change events back to the screens.

## Modules

| module | models |
|---|---|
| `JobQueue` | abstract: what a job queue promises (submit, complete at least once, bury, lose) |
| `RedisQueue` | `redis_queue.py`; one action per Redis command |
| `MCRedisQueue` | adds symmetry |
| `CollectionLemmas` | facts the proofs share: LPUSH, RPOP and LREM on sequences, how often an element is in one, sums over finite sets and over intervals, induction over finite sets |
| `RedisQueueProofs` | the inductive invariants and the theorems about `RedisQueue` |
| `RazorpayWebhook`, `MCRazorpayWebhook`, `RazorpayWebhookProofs` | `razorpay_webhook.py`; one action per SQL statement |
| `CsvImport`, `MCCsvImport`, `CsvImportProofs` | `csv_import.py`; one action per transaction or Redis command |
| `ApiLogStore`, `ApiLogStoreProofs` | `api_log_store.dart` and what the interceptor and the screens ask of it; one action per stretch between two awaits |
| `RateLimiter`, `MCRateLimiter`, `RateLimiterProofs` | the four limiters of `rate_limiter.py` and the one of `fastapi_cache_ratelimit.py`; an inductive invariant for each |
| `UserCache` | the three caches |
| `CircuitBreaker`, `CommandQueue`, `LeadService`, `Subscription`, `UnitOfWork`, `EventBus` | one pattern of `design_patterns.py` each |
| `SimpleQueue` | `redis_queue_simple.py` |
| `DesignPatterns`, `MCDesignPatterns`, `DesignPatternsProofs` | the seven modules above side by side, by INSTANCE |
| `FastApiDemo`, `ScalingLab` | `fastapi_demo.py`, `main.py` |
| `WebApps`, `MCWebApps`, `WebAppsProofs` | these two and the caches side by side, by INSTANCE |

### RedisQueue
`queue`, `processing`, `dead` are the lists, left end first; an entry is its id and
attempts, since with those two the rest of its JSON text is fixed. `pc` and `raw` are a
worker's line and the entry it holds. `Take` is the BLMOVE, `Ack` the LREM of line 46,
`AckError` the same LREM with its reply lost (applied or not: it is inside the `try`),
`Nack` line 48-50, `Requeue` 51-54. `Crash` ends a worker anywhere; a BLMOVE whose reply
is lost is a `Take` followed by a `Crash`. `ReaperMove` is one RPOPLPUSH. `submitted`,
`done`, `failures`, `reaped`, `stolen` are history for the properties only.

### RazorpayWebhook
The tables are variables as the one connection sees them; `saved` is what ROLLBACK would
restore. The webhook has no await between BEGIN and COMMIT, so at most one is inside;
`create_order` is a plain `def` on the same connection, so `SelectKey` and `InsertOrder`
of any caller fall between its statements. `Raise` is the `except` after any statement.
`Deliver` and `Send` are the provider: any known event, any number of times. Signatures
are taken as verified (line 104 answers anything else without touching state), and
`Body` gives a key one body, as a retrying client does.

### CsvImport
`job` is the row (status and checkpoint), `progress` the Redis hash, `local` the worker's
two counters. A row of a file is its cleaned e-mail, or `Bad` where `validate` returns
None. `Crash` covers a kill, a Redis error and a locked database; the job is then `failed`
and `Retry` is somebody who runs `process_import` again, as the test does on line 213. No code
of the repository does, so nothing makes `Retry` happen; it is there because a resumed import is
what the checkpoint is for. Whoever does it is taken not to run a job that still runs: nothing in
`process_import` would stop them, and two runs would overwrite each other's counts. That a worker
does not start one twice is the code's doing, for `Pop` takes the message out of the list.

### ApiLogStore
`box` and `index` are the ids in the two boxes; `tasks` are the methods suspended at an
await, each with where it goes on. Hive is external: an operation changes memory when
called and then suspends for the disk. What was put by a request whose write has not
reached the disk when the app dies is taken to have reached it. The content of a record is
left out, and ids are in the order of the requests (they begin with the time). `fresh`
says that the timeline was built from the box as it is; `orphaned` and `overdue` are
history. `timeline` is the screen: `OpenTimeline` builds it and, the first time, makes the one
debounced stream; `CloseTimeline` is its last listener leaving, whereupon `onCancel` takes
`_debounce` off the store, and a timeline that is opened again is `deaf`. A request is one the monitor captures: a disabled monitor or rule does nothing.

### RateLimiter
`limiter` says which of the five is in use. All stored times are ages in ticks, so the model has
no clock that grows; `call[t].age` is the age of the `now` a thread read before it went on, so
that calls overlap a tick. The deque is modelled an operation at a time, as threads can change
place between any two: `Look` (`while q`), `Test` (`q[0]`, an IndexError if the deque is empty by
now), `Drop` (`popleft`, of whatever is first by now), `Count`, `Record`, and for the header
`RetryAfter` and `First`; an IndexError ends the call with a 500. Only the clock of
`retry_after` is read in the step of its `q[0]`: read later it could only put off the end of
the wait, which is that time plus what is left. The tuples, the Lua script and the pipeline are one step
(`Kept` is the list they go on with), the FastAPI counter one step per command. `Ttl` is the
`TTL` that Redis rounds to whole seconds, so the last tick may be missing from it.

`granted`, `forgotten`, `promise` and `short` are history: what was let through at each age; what
of it a `popleft` took that was meant for an expired entry which another thread had dropped first;
the ticks until the earliest `Retry-After` since the user's last admission is over; and whether
that one was rounded down or was of a deque longer than `LIMIT`. What the limiters really
promise differs, and `Quota` says how: the deque one more for each further thread and for each
forgotten entry of the window, the buckets 2 `LIMIT`, the counter 2 `LIMIT` - 1.

### UserCache
A row is the number of the write that made it, `cache` the one key, `call` what each caller
has read and is about to store. In the first two programs the row is updated in place, so
what a miss stores is what the row holds when it is serialised; in the third nothing awaits
between reading and serialising. `late` marks a call that a write overtook, `tainted` a copy
such a call stored or a dead writer left behind.

### The patterns and the simple queue
Each module has its own variables; `DesignPatterns` chooses one in `Init` and takes its steps
only, so one run explores their sum and not their product. *CircuitBreaker*: `running` are the
callers inside `fn`, by when their call was sent: `fine` while the service was up, `wasted` into
this outage, `spent` into it before the breaker last opened, `late` before its last recovery. A
`fine` call may return during an outage (`early` counts these), a `late` one may still raise, and
`Cancel` is a caller that gives up, which `except Exception` does not see; `wasted` counts calls
into an outage, the cancelled ones included. *CommandQueue*: a command is its key;
`work` suspends only in `handle`. *LeadService*: `Retry`, `TimesOut` and `Breaks` are what can
come of one attempt, and a message may have got out although the attempt failed.
*UnitOfWork*: a transfer at a time, since nothing in it suspends; any line may raise; the amount is
any integer, and `taken` is what amounts below zero took from a wallet.
*EventBus*: `Walk` is the iteration over the live list. *SimpleQueue*: `Die` between any two
commands; `Recover` is one LMOVE and may take what a live worker handles.

### FastApiDemo and ScalingLab
No handler of the demo suspends between its reads and writes, so a request is one step; ids
are numbers taken in any order, as uuid4 gives them. A walk is a client that follows
`next_cursor`. In the lab a step of the event loop needs `LoopFree`; threads and the database
go on without it. `Raise` is a failing query or a client that goes away while its handler is
suspended. `Kill` is the end `/leak` leads to.

## Runs

| run | instance | shows |
|---|---|---|
| `redis_queue` | 2 workers, 2 jobs, 3 tries, 1 crash, 1 lost reply, 1 theft; symmetry | where jobs can be, attempts, order, refinement of `JobQueue` |
| `redis_queue_live` | 2 workers, 1 job, 2 tries, same faults, fairness | every job settles |
| `redis_queue_lost` | 1 worker, 1 job, 1 crash | finding: a crash between LREM and LPUSH loses the job |
| `webhook` | 2 callers, 2 keys of one user, 3 orders, 2 events (capture of any order; wrong amount, failure or ignored type for the first), 1 failure, fairness | credits, order states, answers, events recorded |
| `webhook_retry` | 1 caller, 1 event | finding: one key, two orders |
| `csv_import` | 2 uploads of one tenant with a common e-mail and bad rows, chunks of 2, 2 workers, 2 crashes, fairness | data = checkpoint, progress, completion unless a dead worker's import is left |
| `csv_import_stale` | 1 worker, 1 upload, 1 crash | finding: done, with stale counts for good |
| `api_log_store` | 2 calls, caps 1 and 2, 2 deletes/clears/new caps/kills, a timeline opened and closed at will, fairness | eviction, orphans, timeline |
| `rate_limiter` | 2 in 2 ticks, 2 threads, 1 death, a second user for the tuples, fairness | quota, earned denials, `Retry-After`, no user starves |
| `design_patterns` | 3 callers and 3 faults at the breaker; 2 loops, 5 commands; 2 clients, 3 calls, 3 attempts; 2 workers, 3 jobs; 2 wallets, amounts of both signs; 3 subscriptions, 2 publications | one property or two of each |
| `web_apps` | 3 users of 2 tenants, 4 leads, pages of 1 and 2, 2 imports; 3 requests, pool of 1, 1 thread; fairness | pages, tenants, import reports; gauges, health |
| `user_cache` | the part of `WebApps` with the caches: 3 callers, 3 writes, 1 death; fairness | which overlaps leave a stale copy, and that none stays |

The bounds. *Queue*: two workers are the least that can meet at an entry, two jobs the least that
have an order; one theft already makes two copies, and every further fault only repeats one the
run has at every point. Three tries, as in the source (two for liveness, where the states double
without symmetry). *Webhook*: two callers race for one key, two events are a duplicate payment, a
late failure or a second attempt; a third order is the second answer after a rollback. *Import*: a
file of three chunks, the last one short, and one of a single chunk, so that a crash falls before,
between and after chunks. *Store*: two calls compete for one slot; with three calls and one
disturbance the same properties hold (2.8 million states, about five minutes, not part of the
runs). *Limiters*: with `LIMIT` and `WINDOW` of 2 an age can be inside, at and beyond the edge and
a window can be partly full; two threads meet at the deque (297,341 states). *Cache*: a reader, a writer and a
second one of either; three writes overtake twice. *Breaker*: its real limit of 3 with three
callers inside, so that failures of one round end in the next. *Transfers*: `MaxTaken` bounds
what amounts below zero take from a wallet, or its balance would fall without end. *Lab*: one request holds the only
connection or thread, one waits for it, the third is `/health`. *Pages*: four leads are two full
pages, or one and a rest, with room before and behind the cursor.

`CHECK_DEADLOCK FALSE` stands where the system really stops: all uploads are imported; all calls,
writes, commands or transfers of the bound are made. The queue stops after shutdown with the
reaper still able to run, and the provider never stops, so those runs check deadlock.

## Fairness
- Queue: weak fairness of each worker's next step, of a dead worker's replacement and of
  the reaper, which "run on a schedule" (line 59) means. No fairness is assumed between
  a handler's success and failure, nor of faults or shutdown.
- Webhook: weak fairness of the handler (a coroutine without awaits runs on); strong
  fairness of the delivery of an unacknowledged event, as the provider's retries, which
  lines 141-143 count on. None of order requests.
- Import: weak fairness of each worker's steps and of BRPOP (it blocks until there is a
  message), which supposes that a supervisor outside the repository starts a worker in a dead
  one's place. None of the retry of a job that died: nothing in the code retries it.
- Store: a completed Future resumes its method, a timer fires, an app that starts
  initialises the monitor. Nobody has to make a request, to open the timeline or to close it.
- Limiters: time passes, threads run, a user keeps asking (strong fairness, as the ask is
  disabled while all threads are busy). Cache: a call that does not die goes on, and Redis
  removes an expired key.
- Breaker: time passes, callers keep calling and calls end once the service is up. The other patterns need none.
- Lab: strong fairness of the loop's own steps (its queue of ready callbacks is first in,
  first out; a blocking handler disables them for a while) and an end of each blocking
  handler. None of threads, queries, sleeps or the pool: `/health` must not need them.

## What is proved
Every safety property of the passing runs is a theorem, for all values of the constants. Each
follows from an inductive invariant, named below with the reason the property alone is not
inductive. The only assumptions are the named ones on the constants, next to their declarations;
TLC evaluates them on every run.

**`RedisQueueProofs`**, for any set of workers and jobs (`MAX_RETRIES` > 0, bounds in `Nat`).
`IInv == TypeOK /\ AckedIsDone /\ OnlyEnqueued` knows where a job can be:

- `TypeCorrect`: not only types: entries in QUEUE and PROCESSING have a try left and dead
  ones have none, which is what line 51 has to get right. A worker with an entry in hand
  holds a live one.
- `NoSilentLossHolds`: a job leaves `done`, the lists and the workers' memory only in the
  step in which a worker dies between LREM and LPUSH. A `Take`, `Requeue` or `ReaperMove`
  moves an entry, so its job stays findable; an `Ack` removes it, and there the proof needs
  that the job is in `done`: the invariant `AckedIsDone`. A stolen entry may have been
  removed before: LREM then removes nothing, or an equal entry of the same done job
  (`RemoveOne`).
- `Refinement`: every behaviour is one of `JobQueue`. A step is a submission, a completion, a
  burial, a loss or a stutter; that only submitted jobs are completed, buried or lost needs
  `OnlyEnqueued`, that every job a list, a worker or `done` knows was enqueued. `StepEffect`
  and `CrashEffect` say once how a step changes the set of findable jobs.

`JobsInv` adds `OwnersInv`, `CountsInv` and `OrderInv`, which say how often and with whom:

- `UniqueHolds` (`UniqueUnlessStolen`): besides being in one place (`OnePlace`), a job must
  have one owner, whose entry is the very one in PROCESSING (`OneOwner`). Then
  LREM takes out its entry and no other, LPUSH makes no second copy, and the reaper can take
  a job that is in someone's hands only by stealing it.
- `AttemptsHold`: a failure is counted in the `except` block, while the entry may still be in
  PROCESSING; that no other text of it keeps the old number needs `OnePlace`. Of a stolen job
  an entry never counts more than happened.
- `OrderHolds` (`FirstInFirstOut`): first tries stand in QUEUE in the order of their enqueues
  (`InOrder`). Producers and workers push on the same side; what a worker pushes has an
  attempt counted, and what the reaper pushes is marked as reaped.

**`RazorpayWebhookProofs`**, for any callers, keys, users, amounts and events. The invariant
comes in layers, each proved with those before it:

- `TypeOK`, `RowsInv`: orders are numbered as issued, a key has one row, an answer names the
  row of its key unless that was undone. `AnswersAgree` follows: two answers to a key differ
  only if a ROLLBACK undid one.
- `TransactionInv`: what can differ between the open transaction and `saved` at each statement
  of the handler: its event, and the status of at most its own order, along `ALLOWED`.
  `TransitionsHold` follows, also for ROLLBACK, which undoes uncommitted moves only.
- `AgreementInv`: the orders agree with the events, where between the record of an event and
  its update the events before it count; `PaidIffCapturedHolds`.
- `WalletInv`: wallets hold the paid orders' credits but for those the transaction still owes;
  `CreditsHold`. A credit adds to a sum over a user's paid orders exactly the order that just
  became paid (`SumGains`), which is paid once since `ALLOWED` does not leave `paid`.

**`CsvImportProofs`**, for any files of good and bad rows (`FileAssumption`), any
`CHUNK_SIZE` > 0 and any workers:

- `FlowInv`: an import is in one place at most (`OnePlace`): in its API call, as one message, with
  one worker, or failed until somebody runs it again. Two workers on one import would both count a
  chunk; that they are never two is BRPOP's doing, and of whoever runs a failed import again.
- `DataInv`: `leads` is the union of the good rows before the checkpoints and `rows_failed`
  counts the bad ones (`CheckpointHolds`), because a worker's counters are the row's wherever
  it is in its loop, and reading a chunk adds its rows to the prefix (`RowsAdd`, `ChunkIs`).
- `ShownInv`: the hash trails the row and says `done` only of a row nobody works on.
  `TrailsHolds` and `NeverGoesBackHolds` follow.

**`ApiLogStoreProofs`**, for any calls, caps and upsets. At rest the boxes are consistent; in
between, the invariants say who still has to act:

- `CapInv`: the index is within the cap unless some insertion is in its eviction loop, or the cap
  was lowered or an eviction killed (`IndexBoundedHolds`). Whoever is last in the loop goes round
  it until the index fits.
- `OrphanInv`: a record without an index entry has a task that will index or delete it, or is
  one the history blames on a kill or on the gap in `clear` or `delete` (`OrphansHold`).
- `NewestInv`: a call that is missing has as many newer ones as the cap lets in, and that stays
  so when ids come and the oldest go (`InsertKeeps`, `EvictKeeps`); `KeepsNewestHolds`.

**`DesignPatternsProofs`**, one invariant per pattern. The patterns share no variable, so a step
of the whole is a step of one of them:

- `WastedHolds`: each wasted call is in flight, was cancelled, or was counted as a failure, of which
  a call from before the outage makes the breaker forget fewer than `MAX_FAILURES`
  (`BreakerInv`); needs finitely many callers. `CommandsHold`: a key that is not done was never handled
  through, so only loops that hold it already can handle it again. `JobsKept`: who has handled
  its job has entered it among the finished before it acknowledges.
- `ToldHolds`: the walk over the live list is a prefix of the subscriptions as they came.
  `ContactedHolds`: a lead not yet told is in the hands of a call that is still trying.
- `TransfersHold`, for any integer amounts: before COMMIT both writes are in the copy only, and at
  COMMIT the copy is both, so the sum of the wallets is kept (`TransferKeepsSum`). The test of
  line 305 keeps the paying wallet from going below what amounts below zero have taken from it.
- `CancellationHolds`: inductive as it is.

**`WebAppsProofs`**, for any users, tenants, leads, page sizes >= 1 (`Query(ge=1)`), imports and
requests:

- `PagesHold`: what a walk has got is ascending and no greater than its cursor, and what it
  has not got is greater (`WalksInv`). That a page has all ids up to its last, in order, needs
  that a finite set can be sorted, shown by induction over finite sets (`CanBeSorted`).
- `TenantsHold`: an id belongs to one row of one tenant, an address once to each (`RowsInv`).
- `ReportsHold`: what was reported is the state of an earlier step of the task (`ImportsInv`).
- `GaugesHold`: the requests inside the middleware are those the gauge counts (`LabInv`).
- `StaleCopiesHold`, for any callers, programs and bounds. A stale copy is stored by a call whose
  version is no longer the table's, so `CacheInv` adds `OvertakenKnowIt`: whoever is about to SET
  either has the table's version or is marked as overtaken. A write marks everybody else, a SET
  passes the mark on, a DEL and an expiry leave no copy, and a death between the table and the
  DEL or SET marks the copy. `CacheTypesHold`: only the class caches that there is no row.

**`RateLimiterProofs`**, for any users, any pool of threads, any `LIMIT` and `WINDOW` > 0 and any
number of deaths: `QuotaHolds`, `DenialsHold`, `RetryAfterHolds` and `TypeCorrect`, all from
`Inv`. It has one part for each limiter, which says what a user's stored data have to do with the
requests that were let through. `DenialsEarned` and `RetryAfterHonoured` speak of the step in which
a call is denied (`DeniedAt`). Each part is a formula about one user's data (`LogOf`, `MemoryOf`,
`FixedOk`, `CounterOf`), with a lemma for what a tick, a grant, a denial and an expiry do to it,
and then one lemma that every step of the model is one of these.

- *Tuples and script* (`Log`): an age within the window is in the list exactly as often as it was
  let through, the age `WINDOW` at most as often; so the length is the sum over the
  window. The sorted set's key lives as long as its entries need: with `ttl` ticks left no
  entry is younger than `WINDOW - ttl`, and what an expiry removes is outside the window.
- *Deque* (`MemoryOf`): the list is a log not of what was let through but of what is `Left` of it
  when the forgotten entries are taken off. Besides, it is ordered up to one tick, because a thread
  appends a `now` that may be a tick old; an entry that should have gone but stands behind a younger
  one is two ticks out of the window at most, which is why `Lately` looks that far. A thread between
  the test of the length and its append holds a place: length and such threads together stay below
  `LIMIT` + |`Thread`|. A promise that is not `short` stands only for a list of `LIMIT` entries at
  most, and if there are `LIMIT`, the head is out of the window before the promise is over. What a
  thread has tested stays true of the deque until it measures the length, whatever others append,
  drop or forget meanwhile (`Sees`, `Seen`): that is what a denial rests on.
- *Buckets* (`FixedOk`): what was let through since the bucket began is the lesser of its count and
  `LIMIT`, and in the one before at most `LIMIT`; a window touches two.
- *Counter* (`CounterOf`): there is an age `b` at which the key's life may have begun. From `b` on
  at most the lesser of the count and `LIMIT` was let through, after `b` one fewer (the first INCR
  was one), and before `b` fewer than `LIMIT` in the window: together 2 `LIMIT` - 1. Only one
  thread is on its way to EXPIRE; a key with `ttl` left began `WINDOW - ttl` ticks ago or longer;
  a promise that is not `short` runs as long as the key, and when it is over the count is 0.

The constants' assumptions are that limit and window are positive, that the pool has threads,
finitely many, and that there is a user. `Kept` is written as a recursive function, not with
`SelectSeq`, whose operator parameter no installed prover instantiates.

`CollectionLemmas` holds what these need of the library operators: LREM removes the first equal
element (`LremAt`) or nothing (`LremNone`), and a fold over a set is a sum whatever the order
(`SumUnfolds`, `SumTakesOut`, `SumGains`); how often an element is in a list, with its ends added
and taken away; and sums over intervals of ages, split and moved on. Where induction is needed it
is over the set of the numbers or subsets for which a claim holds, since the library's induction
theorems take an operator as a parameter, which no installed prover instantiates. The prover takes
the operators an INSTANCE brings along (`Queue!ToSet`) for others than the module's own; a step by
definition identifies them.

The strengthened invariants that are not themselves in a run (`JobsInv`'s parts, `DemoInv`,
`LabInv`, the parts of `RateLimiter`'s `Inv` and the layers above) were checked by TLC on the
runs' instances before they were proved.

Only model-checked:

- All liveness (`EventuallySettled`, `EventuallyRecorded` and the like), since fairness and
  ENABLED are out of the prover's reach.
- The three findings, which are counterexamples.

## Findings
1. `redis_queue.py:48` - the "Reliable version" loses a job whose worker dies between the
   LREM and the LPUSH of the `except` block.
2. `razorpay_webhook.py:89` - an order inserted while a webhook's transaction is open is
   undone by that webhook's ROLLBACK; the client's retry under the same key gets another.
3. `csv_import.py:142` - a death after the last COMMIT and before its hset leaves the
   reported `rows_done` stale under status `done`, whatever is retried.

Disagreements that are plain from the models but have no run of their own:

- The "one trial call" of `design_patterns.py:355` is as many calls as arrive while it is awaited.
  Cancelled calls are never counted (line 358), so callers that give up on a service that hangs
  never open the breaker; a call from before an outage that returns during it resets the failures
  (line 363). `WastedCallsBounded` says how many calls that makes.
- `transfer()` (`design_patterns.py:302`) does not refuse an amount below zero, which overdraws the
  wallet it names as `dst`; `TransfersWhole` says by how much.
- "All public mutations notify [changes] so the UI can rebuild" (`api_log_store.dart:50`), and the
  debounced stream is what "UI consumers (Timeline, Endpoints) should prefer" (lines 66-68): once
  its last listener has left it is silent, so a timeline that is closed and opened again shows no
  change until something else rebuilds it. `ViewCatchesUp` speaks of one that stays open.
- The deque of `rate_limiter.py`, called from the threads of the FastAPI example, lets one more
  through for each further thread, and another one for each entry that a `popleft` (line 41)
  takes in another one's place; on an empty deque it raises IndexError, as `q[0]` does on lines 40
  and 52. The header of line 145 does not hold for a deque that is over `LIMIT`.
- The `Retry-After` of `fastapi_cache_ratelimit.py:91` can be half a second short, as Redis rounds.
- No code re-enqueues an import whose worker died: it goes on only if somebody calls
  `process_import` again, as `csv_import.py:213` does in the test.
- "next read gets fresh data" (`redis_cache_simple.py:5`) holds only for reads that do not overlap
  the update; a counter whose EXPIRE is lost (`fastapi_cache_ratelimit.py:88`) blocks its client for
  good, which `EventuallyAllowed` names as its one exception.

`REVIEW.md:100-114` of api-monitor expects overlapping upserts to leave a record that is in
no index. In the model they never do (`OrphansExplained`): the check of the cap and the
removal from the index are one stretch without an await. The gap in `clear` and `delete`, and a
kill, do, and nothing ever evicts or purges such a record.

## Plan
The ApiMonitor facade: use before `init` is through, overlapping saves of the configuration.

## Not modelled
- ApiMonitor facade and configuration (next in the plan): apart from `init` they pass calls on to
  the store.
- ApiMonitor record contents, matching, redaction, aggregation, export: functions of one
  record without state; the Flutter screens only ask what `ApiLogStore` answers.
- `design_patterns.py`: middleware chain and claims gateway (straight-line code without shared
  state), settings singleton (immutable).
- `fastapi_demo.py`: encoding of tokens, request ids and error shapes, the welcome e-mail (a
  sleep). Requests without a valid token or role are answered without touching state, so they
  are no actions. The latency histograms of the lab.
- `redis_basics.py` (a tour of commands), `solutions.cpp` (exercises); signatures of the
  webhook, which are pure; the RabbitMQ and Postgres variants in comments; the notes.

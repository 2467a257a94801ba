# TLA+ models of appweaver

appweaver is a TypeScript framework for web APIs: resources with a database, files, a cache, queues, events and
scheduled jobs, put together by a dependency injection container and served by Fastify. It runs in one Node.js process
(or several that share a database and Redis). Most of it is declarative; what is hard to test is the code in which
asynchronous operations overlap. The modules here model that code, one component at a time.

- [Inventory](#inventory): the parts of the system, their state and operations, how they interact, what is hard in each
  and what makes each correct.
- [Plan](#plan): the modules, in the order they are written, and [the proofs](#the-proofs): how they are made.
- [MemoryQueue](#memoryqueue), [CircuitBreaker](#circuitbreaker), [Transactions](#transactions), [Cache](#cache),
  [InMemory](#inmemory), [Files](#files): what is modelled, what the runs check and what is proved.
- [Not modelled](#not-modelled), and [how to run](#running).

All paths are relative to `src/packages/` unless they start with `src/`.

## Concurrency in this code

Node runs one callback at a time: the code between two `await`s is atomic, and anything may happen at an `await`. So in
every module one action is a maximal piece of code without an await that gives way, and all the other actions may happen
in between: other calls of the same method, timers, replies, and what the user's code does. An `await` of something that
is already settled (an `async` function without a real wait inside) still gives way to the microtasks queue, but never to
a timer or to I/O; where that makes a difference the module's comments say so.

## Inventory

| Component | State | Operations | Hard behaviour | What makes it correct |
|---|---|---|---|---|
| In-memory queue processor, `core/queue/memory-queue.ts` | jobs by id, workers, `_processing`, timers of delays, loops and clean ups, `_closed` | `sendJob`, `sendBulkJobs`, `addWorker`, `removeWorker`, `close`, the processing loop | a processing loop is a chain of awaits (events, worker functions) guarded by one flag; jobs are snapshots; ids are reused; `close` polls | one loop at a time; no accepted job lost; a job is processed from waiting only, to its end, with the configured attempts; `close` returns and leaves the queue quiet |
| Registry of queues, `core/queue/memory-queue.ts`, `bullmq/bull-queue.ts` | processors by name | `get`, `close`, `closeAll` | close overlaps get of the same name | every processor made is closed by `closeAll` |
| Transactions, `core/context/transaction-scope.ts`, `data/database/prisma-database.ts`, `run-transaction.ts` | the context of a call: callbacks for commit and rollback | `transaction` (nested, retried), `afterCommit`, `afterRollback`, `settleTransaction` | an attempt fails after registering callbacks; callbacks of several transactions interleave; calls left running register late | the effects of a committed transaction happen once, after the commit, in order, and none of a rolled back one |
| Resource events, `core/events/node-events.ts` | listeners | emit, deferred to the commit | as above | a listener never acts on a change that was rolled back |
| Cache, `core/cache/cache.ts`, `eviction/*.ts` | entry metadata, eviction index, `_stale` | get, set, delete, deleteMatching, recovery after an outage | metadata and memory are updated with awaits in between; recovery runs beside writes | size limits hold; the index evicts the right key; nothing stale survives an outage |
| Cache service and response cache, `core/cache/cache-service.ts`, `web/cache/caching.ts` | the cached responses | lookup, handler, fill, invalidation after the commit | a fill of data read before a commit comes after its invalidation | a response older than a finished write is not served |
| In-memory memory, `core/memory/in-memory.ts` | entries with expiry, the approximate size, locks | get, set, has, delete, lock, release, clean up | expiry against use; locks expire under their holder | one holder per unexpired lock; the size estimate follows the contents |
| Redis memory and circuit breaker, `redis/*.ts` | failures, `_openedAt`; the commands in flight | `acquire`, `success`, `failure`, the guarded `sendCommand` | commands settle long after they were sent | opens at the threshold, one probe per cooldown, closes when Redis answers |
| Application and lifecycle, `core/app/application.ts`, `lifecycle-manager.ts`, `core/health/*` | started, ready, initialised services | start, stop, signals, health | stop during start; one hook of several failing | every initialised service is destroyed once; not ready after stop |
| Dependency injection, `core/context/dependency-injection.ts`, `core/app/discover-modules.ts` | the container | register, resolve, order by requires | ordering with cycles | an order that respects the requirements |
| Files, `data/storage/file-service.ts`, `core/storage/filesystem-storage.ts` | rows of the database, objects of the storage | save, delete, of one or several files, in a transaction or not | two stores without a common transaction; names are checked and then used | at rest, a stored object has its row and a row its object |
| Resource service, `data/resource/resource-service.ts` | none of its own | create, update, delete, bulk operations | the order of write, hooks, events, files and invalidation in one transaction | as Transactions and Files |
| Seeder, `data/seeder/seeder.ts` | rows of executed seeders | run, record | a crash between them; two processes | a seeder is run once, or again after a crash |
| Time series, `core/timeseries/*.ts`, `data/timeseries/*.ts` | points | ingest at once, through a queue, or after the commit | writes of rolled back transactions | points of committed work only |
| One-time tokens, `core/security/store/*.ts`, `data/security/store/*.ts` | tokens with uses left | issue, use, revoke | two uses at once | a token is used once |
| Scheduler `cron/`, BullMQ driver `bullmq/`, mailers and SMS, web server and routes `web/`, accounts and authentication `web/security/`, command line `cli/`, adapters, generated client, samples | configuration, or the state of a third party library | | | see [Not modelled](#not-modelled) |

How they interact: a resource service runs a write in a **transaction**; while it runs, **events**, **cache
invalidations** and the removal of **files** register callbacks, which run after the commit. The **response cache** reads
through the **cache**, which keeps values in a **memory** (in process, or Redis behind the **circuit breaker**) and is
told by `isAvailable()` when to skip it. **Queues** are used by the mailers, the SMS service and time series. The
**lifecycle manager** initialises and destroys all of them, closing the queues.

## Plan

1. `MemoryQueue` with the abstract `JobLifecycle` and `MemoryQueueProofs`: done.
2. `CircuitBreaker` and `CircuitBreakerProofs`: done.
3. `Transactions`: calls with retries, commit and rollback callbacks; events, invalidations and stored files as their
   users; and `TransactionsProofs`: done. An abstract specification (the effects of a transaction happen once and after
   its commit) is to come.
4. `Cache` with `EvictionIndex` and the abstract `EvictionOrder`: outages, recovery, limits, the linked list and the
   bounded heap; with `EvictionIndexProofs` and `CacheProofs`: done.
5. `InMemory` with the abstract `Lease`: the size of the memory, its lock, and the one-time tokens kept in it; with
   `InMemoryProofs`: done.
6. `Files`: uploads and deletions outside transactions, with failures, several files and name collisions; with
   `FilesProofs`: done.
7. `ResponseCache`, composed with `Transactions`: lookup, read, fill, invalidation. Question: how long a stale response
   may live. A request in the instance of `Transactions` makes it several times larger than TLC can check in minutes, so
   it is to be a module of its own over an abstract transaction that commits and invalidates.
8. `Lifecycle`: start, stop and signals. 9. `QueueRegistry`. 10. `Seeder`, ingest of time series, the database store of
   tokens, `orderByRequires`.

Every invariant, action property and refinement the passing runs check is proved. Planned: that `Transactions` implements
an abstract specification, and the proofs of the modules to come.

## The proofs

Each module has a proof module of its own. None of the properties is inductive as it stands; the section of the module
says what its invariant adds. The proofs of the steps go by the actions or, where several properties need the same facts,
by a few kinds of steps: a lemma says that every action is one of them, others what each kind keeps (`LockStep` and `Calm`
of the memory, `KnownStep` and `CallStep` of the cache).

The provers have no induction over data: the library's induction theorems have an operator parameter, which they cannot
instantiate. `LeastElement.tla` has what takes its place, a nonempty set of natural numbers has a least element, which
follows from the library's `WFMin` (a theorem without such a parameter). A proof by induction over `n` is then about
the least `n` for which the claim fails. So are proved what the recursive functions of `InMemory` and `EvictionIndex`
compute, that a list of distinct keys is no longer than there are keys, and, from the definition of `SumFunctionOnSet`,
what the sums of the sizes of entries are (`SumElement`, `SumSame`, `SumParts`, `SumZero`). A `while` loop is a function
on its states; if a measure of them decreases there is such a function (`LoopExists`), and it ends with what its invariant
and the end of its condition say (`LoopEnds`).

The constants are arbitrary but for the assumptions named in the modules, which say what the code guarantees or what the
model needs to be one: limits and counts are natural numbers, keys are finite in number, special values are not among
the ordinary ones. A theorem that needs more has it as a hypothesis of its own: those about a queue whose drained event
has no listener, and `NoOrphans` of the transactions; the sections say why.

Out of reach are liveness under fairness (`WaitingServed`, `FinishedRemoved`, `CloseReturns`, `ProbedOrClosed`, `Recovers`,
`LockReturns`) and everything the counterexamples are about, which TLC shows.

## MemoryQueue

`MemoryQueue.tla` models the class `MemoryQueueProcessor` (`core/queue/memory-queue.ts:95-506`), one queue.

| Model | Code |
|---|---|
| `sent`, `jobId`, `status`, `attempts` | the job objects: a job is numbered in the order of the sends |
| `stamp` | what a batch is sorted by: `createdAt`, which a send may share with the one before (`Ties`), and among jobs of one millisecond the place in `_jobs`, which an id that is sent again keeps. Also, whether the job had a delay |
| `map` | `_jobs`, by id |
| `delayTimers`, `removalTimers` | the pending timers of `_delayTimeouts` and of the clean up of a finished job |
| `workers` | how many entries of `_workers` are active |
| `processing`, `latest` | `_processing`, and the loop whose timer `_processingTimeout` holds |
| `pc[l]`, `cur[l]`, `batch[l]` | a processing loop: waiting for its timer, awaiting the drained event, a worker, the completed or failed event, the error event; its job; the rest of `jobsToProcess` |
| `phase` | `close()`: not called, awaiting the closing event, polling, closed |

Nothing in the code says that there is one loop: `Loops` is a set of slots, and that one is used at a time is a property
(`SingleLoop`), which holds without a listener of the drained event and fails with one. `emitEvent` awaits its listeners.
The await of the active event is part of the time of the worker, that of the drained event gives way only when there is
a listener (the constant `DrainedListener`): without one `emitEvent` gives way to microtasks, and those are over before
the next timer, send or reply.

`JobLifecycle.tla` is what the queue promises of each job: delayed, waiting, active, then completed, failed or waiting
again, one step of one job at a time, active from waiting only, failed only when the attempts are used up and
never tried more often. `LifecycleSpec` says that the queue implements it; the variables have the same names, so that
the refinement mapping is the identity.

| Run | Instance | What it shows |
|---|---|---|
| `queue_safety` | 2 ids, 3 jobs, 2 workers, 2 attempts, delays, sends of one millisecond, no listener, 2 loop slots | `SingleLoop`, `AcceptedJobHeld`, `ActiveJobIsRunning`, `ClosedStartsNoLoop`, `LifecycleSpec`, `OldestFirst` |
| `queue_liveness` | 2 ids, 2 jobs, 1 worker, listener of the drained event, so that both loops run | `LifecycleSpec`, and under fairness `WaitingServed`, `FinishedRemoved`, `CloseReturns` |
| `queue_processed_twice` | 2 workers and a listener | a counterexample: two loops process one job |
| `queue_active_after_close` | 2 workers, no listener | a counterexample: a job is started after `close()` returned |

Bounds. Three jobs over two ids give a reused id while its first job is live, just finished, or has a clean up timer, and
a batch of two with a third job sent meanwhile, also in the millisecond of the one before and under the id of a completed
job; two attempts give a retry and a final failure; two loop slots are one more
than the code should need. `MaxSends` and `MaxWorkers` are guards of `SendJob` and `AddWorker`. `MCMemoryQueue.tla` adds
the symmetry of the ids and of the loop slots to `queue_safety`.

`OldestFirst` says that a job sent without a delay and never tried starts before those sent after it, and names the
exceptions. A job whose delay is over, or that is tried again, may find later ones already in a batch. And `createdAt` is in
milliseconds: jobs of one millisecond are in the order of the map `_jobs`, where `Map.set` leaves the id of a completed job
that has not been cleaned up at its old place (`memory-queue.ts:163`), so that the new job goes before older ones of its
millisecond. A job that has a place of its own (`stamp[j].place = j`) does not.

Fairness. Weak fairness of the loops and timers: Node fires what is due and resumes what is settled. That worker functions
and listeners settle is the user's side, and assumed: a worker that never returns makes its loop, and `close()`, wait for
ever. Nothing is assumed of the user's operations.

Proved (`MemoryQueueProofs.tla`), for every number of ids, jobs, workers, attempts and loop slots, for a queue whose
drained event has no listener: `OneLoop`, `JobsHeld`, `ActiveRuns`, `ClosedStarts` and
`ImplementsLifecycle`. None of these properties is inductive. The invariant `Inv` adds, in `LoopInv`, that `_processing`
is set while a loop is alive, so that `processJobs` makes a loop only when there is none, and that `_processingTimeout`
holds the timer of the loop that waits, so that `close()` clears it; in `BatchInv`, that the jobs a loop has still to
process wait, which only holds because there is one loop, and is what the code relies on when it activates them without
looking at their status; in `JobInv`, that a delay timer finds its job delayed and a clean up timer its job finished; in
`AttemptInv`, that a waiting job has an attempt left; in `MapInv`, that the map holds a job under its id. With the
listener the invariant fails at its first part: `_processing` is cleared before the drained event is awaited.

Proved with such a listener too: `TypeCorrect` and `StartsOldestFirst`, with delays and ties. The invariant `OrderInv` says
that a loop that has still to process a job has those sent and sorted before it, of the jobs sent without a delay and never
tried, in the same batch. For this, `slice` must take the first of the waiting jobs (`SliceClosed`), and a job never tried
must be found in the map, which holds because all that a loop puts back or a clean up removes was tried. `StampInv` says
that `createdAt` does not fall from a send to the next, and that a place is that of the job itself or of an earlier one.

Only model-checked: the three liveness properties.

Differences from the documentation that no run shows, because they are about data the model leaves out: the priority,
backoff and concurrency options of `src/skill/references/queue.md:85,107` are ignored by this driver; the drained event
is emitted while delayed jobs are pending; the ready event is emitted in the constructor, before a listener can be added;
the previous status given to listeners of the active event is always `active`.

## CircuitBreaker

`CircuitBreaker.tla` models the breaker (`redis/circuit-breaker.ts`), the commands of a guarded client
(`redis/client-guard.ts`) and the ready event (`redis/redis-memory.ts:206`). The methods of the breaker are atomic; the
commands are sent and settle around them in any order.

| Model | Code |
|---|---|
| `failures`, `open` | `_failures`, `_openedAt !== undefined` |
| `remaining` | `remaining()`, that is `_openedAt` as far as the code uses it; `Tick` is the clock, assumed not to go back |
| `inFlight[c]` | whether a command is in flight, and how it was sent: past the breaker (the client was not ready), through the closed breaker, or as a probe. `guarded` is captured when the command is sent, so is the mode |
| `ready` | `client.status === 'ready'` |
| `answering`, `mayFail` | the environment: whether Redis answers, and which commands may still fail without a reply |
| `sinceProbe` | a history variable, the time since the last probe, which no action reads |

`failures` stops counting at the bound `MaxFailures`, which is not below the threshold, so that no comparison changes.

| Run | Instance | What it shows |
|---|---|---|
| `breaker` | 3 commands, threshold 2, cooldown 2 | `OpenAtThreshold`, `OneProbePerCooldown`, and under fairness `ProbedOrClosed`, `Recovers` |
| `breaker_cooldown` | the same | a counterexample: a command that is no probe extends the cooldown |

Three commands in flight are two that open the breaker and one that fails, or succeeds, later. Fairness: time passes,
commands settle (they have a timeout unless `MEMORY_REDIS_COMMAND_TIMEOUT` is 0), and callers send again: without
callers nothing probes. `Recovers` has its assumption on Redis and the connection in the formula.

Proved (`CircuitBreakerProofs.tla`), for every number of commands, threshold and cooldown: `TypeCorrect`,
`OpensAtThreshold`, `ProbesApart`. The invariant for the last, `ProbeDistance`, says that while the breaker is open the time
since the last probe and the time to the next add up to a cooldown: it carries over a success and a new opening, which
starts a full cooldown.

Not modelled: that ioredis may send a command again on a new connection, when it would pass the guard a second time.

## Transactions

`Transactions.tla` models `PrismaDatabase.transaction` (`data/database/prisma-database.ts:119-176`), the contexts of
`core/context/transaction-scope.ts`, and what the framework defers to them: the resource events, the invalidation of
cached responses and the stored files. `MCTransactions.tla` adds the symmetry for TLC.

| Model | Code |
|---|---|
| `pc`, `attempt`, `conflict` of a call | where `transaction()` is: running its function, settling a context, resolved or rejected; `attempt`; whether the error of the attempt is a write conflict |
| a context `<<c, n>>`, with `writes`, `commitCallbacks`, `rollbackCallbacks` | the object made for attempt `n` of call `c`. A joined `transaction()` uses the context it joins, so it is not a call of its own here |
| `left` | what the loop of `settleTransaction` has still to run: a copy of the commit callbacks, or the list of rollback callbacks itself, which may grow while it runs |
| `emitted`, `stale` | the events a context has emitted; the models with cached responses older than the last commit |
| `upload`, `owner`, `objects`, `rows`, `created`, `deleted` | the uploads of `saveContent` and the context each belongs to (that of the async local storage), the files in the storage, the committed rows, the rows a context creates and deletes |
| `undeleted` | history: the files whose row a context has failed to delete |

A callback is a record that says what it does. The database is its outcome: an attempt commits or rolls back as a whole,
and one transaction at a time deletes a row. The query that deletes a row may fail without ending the transaction: by
then `deleteStored` has registered the removal of the stored file (`file-service.ts:836-839`), and `deleteSafe` (861) or
the `allSettled` of `deleteFiles` (412) swallow the failure. Where the database does not abort the transaction (SQLite,
the default), it commits, the row stays and its file goes. `RowHasObject` names this exception, and says that there is
no other. A file is an upload under a name of its own: colliding names are in `Files`. The storage does not fail, but
may store at any time. A rollback callback added in the moment between the last callback and the return of
`settleTransaction` may run in the model where the code has left its loop; no property depends on it.

| Run | Instance | What it shows |
|---|---|---|
| `transactions` | 2 calls, a retry each, 2 models, 2 writes in a first attempt, 1 file, no function ends while an upload runs | `EventsOfCommits`, `StaleIsBeingInvalidated`, `ResolvedIsEffective`, `RowHasObject`, `NoOrphan` |
| `transactions_left_running` | 1 call and 1 file, uploads may be left running | a counterexample: a file of a rolled back transaction is never removed |

Bounds. Two writes, in a retry one fewer, give an order of events and a key that is or is not shared; two calls give a
deletion by one of a file uploaded by the other, and settling callbacks that interleave; one retry gives an attempt that
must leave nothing behind. Both runs stop when all calls have returned, so deadlock is not checked.

Proved (`TransactionsProofs.tla`), for any calls, retries, writes, models and files: `TypeCorrect`,
`EventsAreOfCommits`, `CallsAreEffective`, `StaleAreInvalidated`, `RowsHaveObjects`, and `NoOrphans` if no function ends
while an upload runs (`transactions_left_running` shows what happens otherwise). The properties are about what has been
done; what makes them hold is what the callbacks are still to do, in the context while it is open and then in `left`,
which takes them over. `Attempts` says how calls and their contexts go together. `EventInv`: the commit callbacks of an
open context have the events of its writes, each once and in order, those left of a committed one the events it has
still to emit, and no rollback callback emits. `StaleInv`: an open context is to invalidate each model it has written.
`RowInv`: a file is removed on a rollback by the context that owns it only, on a commit only if no row was created for
it, or that context has deleted its row or its deletion failed; a row that is, or should have been, deleted is one of a
committed context or of the same. `OrphanInv`: each file that gets no row is among the removals of one list or the
other, which fails for an upload that outlives its context.

## Cache

`Cache.tla` models the class `Cache` (`core/cache/cache.ts`) over a Redis memory (`redis/redis-memory.ts:95-151`),
`EvictionIndex.tla` the three indexes of `core/cache/eviction`, and `EvictionOrder.tla` what an index promises.
`MCCache.tla` gives the constants their values and checks the heap of the LFU index as a pure algorithm.

| Model | Code |
|---|---|
| `stored` | the keys in Redis |
| `timed`, `adopted` | the keys of `_entryMeta`: those a write put there (with `expiresAt`), those a read put there for an entry of another process |
| `index` | `_evictionIndex`: the links of the LRU list; a Map, for FIFO and LFU, is the list of its keys in the order of insertion |
| `stale` | `_stale`. `_recovery` is the task of the process `Recovery` |
| `task[p]` | where a call is: the command it waits for, its key, and for `deleteEntries` what its two scans have still to visit and have found |
| `wire`, `waiting` | the commands sent and not answered, in order; the calls in `run()` that await the recovery |
| `owed`, `missed`, `late`, `added` | history: what a `deleteMatching` has to delete and has left; what was written behind the scan of a recovery; what others have put into the index since a write under way started. So is `task[p].spared`, what a write found too young to evict |

A connection to Redis executes commands and answers in order, so the head of `wire` is answered next and its
continuation runs in the same step. A scan is answered in pieces that visit the keys in any order; entries written
meanwhile are found if their key has still to be visited. A failed command may have been executed. `deleteEntries` scans
twice: once for the keys whose metadata it removes (`cache.ts:215`), once in `RedisMemory.deleteMatching`.

The recovery is the interesting part. `markUnavailable` sets `_stale`, and the end of a recovery clears it, although
another call may have failed meanwhile. That this loses nothing follows from two facts the model has: the recovery has
deleted every entry its second scan has found, and calls that come while the cache is stale wait for it, so that no
write of this process lies behind the scan. `MissedIsStale` names the one exception, an entry another process wrote behind
the scan, missed by a `deleteMatching` that was skipped before the recovery ended; without `OtherWrites` the property
holds without the exception.

| Run | Instance | What it shows |
|---|---|---|
| `cache` | 2 keys, 2 calls and the recovery, `MAX_ITEMS` 1, LRU and LFU, a cache with any entries at the start | `MissedIsStale`, `ReadsAreNotMissed`, `IndexInStep`, `WriteMakesRoom`, `OrderSpec`; `LfuSelectsLowest` over every metadata of 5 keys with at most 1 use and ages up to 3, up to 3 candidates, with and without a grace period |

Bounds. Two calls are a write that overlaps a deletion, another write or an eviction, and two that wait for one
recovery; two keys over a limit of one give evictions, ties and an order; five keys fill a heap of three, whose root has
two children, and replace its root. `OtherWrites` is bounded to the places where it can matter: before the process starts
(`Init`) and behind the scan of a recovery.

The cache may exceed `MAX_ITEMS`: `evictExcessEntries` counts before the writes under way are added, so that two that
overlap may leave one entry too many each; an entry that a read adopts enters the LFU index without an eviction; and no
entry is evicted in its `EVICTION_GRACE_PERIOD`, of a second by default, whose check is strict, so that with a period of
0 an entry of the same millisecond is kept too. The ages of entries are left out: at each write, any entries of the
index may be in the period (`Young`; FIFO does not look). `WriteMakesRoom` says what is left of the limit for each
write, whatever overlaps it: of the entries that the others have not added since it started it leaves `MAX_ITEMS` with
its own at the most, or only its own and those it found too young. So an excess goes with the next write that finds it
old enough and whose evictions succeed. Under LRU an adopted entry does not enter the index (`touch` ignores keys it
does not have), so it is never evicted, only expired. `deleteEntries` drops the metadata of an entry that was written
again between its first scan and its end: that entry is in Redis and not in the index, which is why no property says
that stored entries are known.

Proved (`CacheProofs.tla`), for any calls, patterns, limit, strategies and finite set of keys, whichever commands fail:
`TypeCorrect`, `MissedAreStale`, `IndexKept`, `ReadsSeeNoMissed`, `WritesMakeRoom` and `ImplementsOrder`. The invariant
`Inv` has four parts. `CallInv`: a call is in the wire, once, or waits for the recovery, or is idle, so that an answer
continues the call that waits for it. `EntryInv` is what `MissedIsStale` rests on: at each step of its two scans a
deletion has still to visit, or has found, the entries it has to delete, and the recovery all entries but those written
behind it. `KnownTypes`: the keys with metadata. `IndexInv`: the links of the list spell a sequence of distinct keys
(`Spells`), without which nothing can be said of what `remove` leaves; `EvictionIndexProofs.tla` shows what insertion,
`touch` and removal do to that sequence, and `ImplementsOrder` that this is what `EvictionOrder` allows: keys leave,
which does not change the order of the others (`Thins`), and at most one goes to the end (`PutsLast`). `WritesMakeRoom`
needs `RoomFor` too: of the entries that were there when a write started (`Rest`), those it is not about to evict leave
room for its own, or are all too young (`WriteFits`: what `Candidates` leaves); no other step adds to them
(`RestShrinks`), and the evictions, unless they fail and make the cache stale, take away what they were to (`FitsKept`).

`LfuLowest` is about `evictionCandidates` of the LFU index alone, for any keys, metadata, order of insertion, count and
grace period: it returns as many keys as asked for, if that many are old enough, and none with a lower score is left
out. The invariant of `siftUp` is `Rising`: the scores fall from the root except perhaps between the place it is at and
its parent, and the children of that place are not above that parent; that of `siftDown` is `Sinking`, which is the same
of the children. After each key looked at, the heap holds the lowest scores so far (`Selected`); that a key need only be
compared with the root rests on `RootIs`, that the root of a heap has the highest score. Scores are compared by cross
multiplication, which is a total order as ages are positive (`ScoreOrder`). `LfuSelects` says of the run's five keys
what `LfuLowest` says of any.

Not modelled: `MAX_SIZE` (`ensureMemoryLimit`), `EVICTION_DEFERRED`, `SKIP_ON_ERROR` off,
`has` and `keys` (they change `_stale` at most), values that are falsy, and FIFO in the run, for its time: its list differs
from that of LFU by `touch` only.

## InMemory

`InMemory.tla` models `core/memory/in-memory.ts` and the tokens of `core/security/store/memory-security-store.ts`, which are
entries of it. `Lease.tla` is what `Memory.lock` promises: a resource is taken only when nobody holds it, with a handle that
releases it once, and is held until the holder uses the handle or its time is over. The handles of others, also of those
who held it before, do nothing, and no step takes it away. The refinement mapping (`Holder`, `Left`, `Handles`) takes a lock
whose time is over as free, whether or not its entry has been cleaned up.

| Model | Code |
|---|---|
| `order`, `size`, `left` | `_storage`: the keys in the order of insertion, the byte lengths of the values, the times left until `expiresAt` |
| `approx` | `_approximatedSize` |
| `lock` | the entry of `_locks` for one resource: its value, that is its owner, and the time left |
| `lease[c]` | what a caller of `lock()` counts on: the time its lock has left. It may release it after that |
| `task[c]` | a call between two awaits: `set` after its clean up and between its deletions, `deleteMatching` after `keys`, the use of a token after it was read, `lock()` in its delay |
| `given` | history: how often a token has given its data since it was last written |

The clean up awaits between its deletions, but what it deletes has expired and is not read, so it is one action. `Tick`
is the clock, assumed not to go back.

| Run | Instance | What it shows |
|---|---|---|
| `memory` | 2 keys, 2 callers, values of size 1 and 2, `MAX_SIZE` 2, 2 attempts, an expiry of 1 | `WithinMaxSize`, `HolderIsLocked`, `LeaseSpec`, `OneUsePerWrite`, and under fairness `LockReturns` |
| `memory_drift` | 1 caller, values of size 1 | a counterexample: setting one key again makes `set` delete what it stores |

Bounds. Values of two sizes are replaced by smaller and larger ones; one of size 2 fills the memory, so that the next
evicts; an expiry of 1 gives a lock at its last valid moment and after it, released late while another holds it, and two
attempts give a delay followed by an attempt and by the failure. The size estimate errs upwards only: `set` never
subtracts what it replaces, `keys()` does not subtract what it removes; hence `WithinMaxSize` holds, and `SetIsKept` does
not. Fairness: the timer of the delay in `lock()` fires; nothing is assumed of those who hold the lock, as the attempts are
counted.

A token whose use is rejected with other data is written back by `set` (`memory-security-store.ts:63`), also when another
use has removed it meanwhile; then it can be used again. `OneUsePerWrite` counts from the last write for that reason.

Proved (`InMemoryProofs.tla`), for every number of callers and keys, expiry, size and number of attempts: `HolderKept`
and `ImplementsLease`. Every action does one of five things to the lock (`NextStep`): nothing, a clean up, an attempt
that takes it, a release, a tick. The invariant `LockInv` adds to `HolderIsLocked` the types and that a lock with time
left has an owner, which the abstract release and the passing of time need: a release finds the resource held by its
caller exactly if the entry is still the caller's and has time left.

Proved of the storage, for every finite set of keys: `TypeCorrect`, `FitsMaxSize` and `OneUse`. `StorageOK` is an
invariant of the storage as a value, which each operation on it keeps: its order has no key twice, what is not in it has
size 0, and the approximate size is no less than the sum of the sizes. The last is what `set` decides by. `StorageInv` adds
that the sizes are over the maximum only in the loop of a `set` that evicts, and that a stored token has given its data
to nobody since it was written. All steps but a `set` and the use of a token are `Calm`: they add nothing. What the
removal of a key leaves of the order is a recursive function (`Rest`), and the sizes are sums; both are proved through
`LeastElement`.

Only model-checked: `LockReturns` (liveness).

## Files

`Files.tla` models `saveFiles`, `saveContent`, `deleteFile` and `deleteSafe` of `data/storage/file-service.ts` outside a
transaction, over the file system storage; `MCFiles.tla` gives the calls of `saveFiles` for TLC. `Transactions` has the
files of a transaction.

| Model | Code |
|---|---|
| `object`, `row` | of a name, whose content the storage has, partly written ones included, and whose row the database has |
| `field` | the row the field of a single file refers to |
| `stage[j]` | how far an upload or a deletion is: after the loop over `exists`, while the storage writes, before the row is created, or in the two steps of a deletion (object, then row) |
| `name`, `existing` | of an upload, `generatedName` and `existingFile` |
| `target`, `then` | the name `deleteSafe` or `deleteFile` deletes and how the job goes on |
| `doomed`, `stranded`, `shared`, `botched` | history: deletions asked for; files replaced by an upload that had read the field before them; names taken while another job used them; names of which a failed operation has left an object or a row |

An upload and a call of `deleteFile` are each one job. Every operation on the storage and the database may fail; `store`
leaves what it had written when it fails. A deletion may report failure when it has deleted the object, as the removal of
empty directories that follows throws (`filesystem-storage.ts:86-91`): `deleteFile` then ends with the row in place, and
`deleteSafe` goes on.

| Run | Instance | What it shows |
|---|---|---|
| `files` | a call with a single file and an array file, another call for the same single field, 2 deletions, 3 names | `SavedIsKept`, `NoOrphan`, `RejectedLeavesNothing`, `SavedIsReferenced` |

The properties say what holds, and their exceptions are what the code does not prevent; each exception was seen to be
needed. `shared`: the name is free when it is checked and taken when it is stored to (660 and 737), so that two uploads
share an object, and the clean up or the deletion of one takes away the other's; it is also one when an old row still has
the name. `botched`: nothing tries a failed deletion again. `stranded`: two uploads to one field read the same existing
file, and the first of them stays in storage and database with nothing that refers to it (775-794).

Bounds. Three uploads are two of a call, of which one is undone, with a third that replaces, or takes the name of, one of
them; two deletions meet an upload and each other; with three names uploads need not collide. The run stops when all
jobs are done, so deadlock is not checked. No liveness is stated: a failed step is not repeated.

Not modelled: the maximum number of files of an array, which is read before the upload and so may be exceeded by uploads
at once (616); an iterator of parts that awaits between the parts or fails: an upload rejected meanwhile is an unhandled
rejection, which stops the process (`core/app/application.ts:104`), and those under way when it fails are not undone;
policies; the empty directories of the storage.

Proved (`FilesProofs.tla`), for any uploads, calls, deletions and names, whatever fails: `TypeCorrect`,
`SavedFilesKept`, `NoOrphans`, `RejectedBatchGone` and `SavedFilesReferenced`. The properties are about uploads that are
over; the invariant `IInv` follows an upload from the choice of its name. `Progress` and `UnderItsName` say which names
and steps go together; `Exclusive`, that no two uploads hold a name that is not shared; `YoungAlone`, that until an
upload has its row nobody else knows its name, so that no deletion can have chosen it; `RowIsKept` and `FieldIsKept`,
that row, object and field are then those of the upload and no deletion is after them unless the upload is doomed;
`ObjectFirst`, that a row is deleted after its object; `OrphanIsYoung`, that an object without a row belongs to an
upload that will create one or is about to delete it; `LeavesNothing`, that an upload that failed or was undone has left
neither. The exceptions `shared`, `botched`, `stranded` and `doomed` are in these parts as they are in the properties:
the proof needs no others. Every upload is of one call of `saveFiles` (`FilesAssumption`).

## Not modelled

`PROJECT.json` lists every component with the reason. Planned components are in the plan above. Left out for good: the
scheduler, the BullMQ driver, mailers and SMS (wrappers around libraries that keep the state); the web server, routes
and schemas (declarative wiring); accounts and authentication (validation and cryptography, but for the user cache); the
command line tools (files and child processes); the adapters and the generated client; the samples.

## Running

In this directory, with TLC and TLAPS: `tlc -config MCQueueSafety.cfg MCMemoryQueue` checks a run (`PROJECT.json`, `runs`,
names the module and the configuration of each), `tlapm MemoryQueueProofs.tla` the proofs. The definitions whose comment
says `mutant` are plausible bugs; `PROJECT.json`, `mutants`, names for each property one that breaks it.

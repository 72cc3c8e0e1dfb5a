# Verification of the Redfish exporter's refresh core

The program is a Prometheus exporter (`src/src/redfish_collector`). A scrape names a BMC
and a configuration; the exporter answers from a lane snapshot it keeps per
`(serverAddress, config)` target, and refreshes that snapshot by logging in to the BMC,
fetching Redfish resources in two lanes (Fast and Slow) and logging out again.
Everything runs on one asyncio event loop: there are no threads, but there are many
tasks, and every `await` that suspends is a place where any other handler may run, where
a cancellation may arrive and where a deadline may pass. That is what the modules here
are about.

## Inventory

| Part | Code | State it keeps | Operations | Hard behaviour |
|---|---|---|---|---|
| Request dispatcher, one per BMC | `core/targets/dispatcher.py` | `in_flight`, two waiter queues, admitted and abandoned pairs | `lease`/`acquire`/`release`, `_admit_next`, `cancel_cycle`, `abandon_cycle` | a waiter granted and cancelled before it resumes; reclaiming slots whose tasks still run; starvation |
| Cycle permits | `core/targets/admission.py`, `BmcCoordinator` | `active_cycles`, `lease_count` | try to acquire, release | given back exactly once on four different ways out of a cycle |
| Refresh cycle | `core/targets/refresh_context.py` | `TargetRefreshContext` | `ensure_cycle`, `_run_cycle`, `_run_lane_scheduler`, `close_cycle`/`_do_cleanup`, `emergency_abandon`, `run_as_cycle_owned_request` | attach while closing, late logins and lane results, deadline and cancellation at any await, a task cancelled before its first step |
| Shutdown | `registry.py: shutdown_drain`, `main.py` | the snapshot of open cycles | cancel, wait out the grace period, abandon | cleanup that is itself cancelled, code that ignores cancellation |
| Target registry | `core/targets/registry.py`, `target_state.py` | `targets`, coordinators, byte totals, lane states | `get_or_create`, eviction, byte reservations | byte totals moved by differences to states read earlier; eviction of targets that scrapes still use |
| Lane publication | `core/targets/cycle_callbacks.py` | (writes the target's lane states) | `login`, `run_lane`, `ensure_bootstrap` | a job that outlives its cycle |
| Scrape handler, response cache | `routers/prometheus.py`, `response_cache.py` | admitted scrapes, cached bodies | `read_all`, `get`, `put`, `invalidate` | a body built from one state and cached under another |
| Request execution | `core/targets/request_execution.py`, `core/rawCollector.py: fetch`, `login.py` | bytes in use, waiters | `reserve`, `release`, `bounded_fetch` | three resources taken in order, each wait cancellable, retries against a deadline |
| Transport | `core/security/same_target.py`, `containment.py` | none | one HTTP exchange | redirect and size limits |
| Lane jobs | `core/targets/cycle_callbacks.py`, `core/schema/pipeline.py`, `bootstrap.py`, `selection.py` | the cycle's bootstrap result, its lock, the System body | discover the BMC, select a schema, collect a lane | two lanes that share one discovery; a body that may be used once; a failure or cancellation anywhere |
| Schema executor | `core/schema/executor.py` | the records of a lane, the captures in scope | follow the strategies of a resource, crawl collections, members, children | what a record is a child of when neighbours fail; limits on BMC-chosen pages and members |
| Legacy crawl | `core/rawCollector.py`, `core/batching.py` | indices into the collected lists | crawl in batches, gather in gather | a cancelled gather leaves its other fetches to unwind; data numbered by what succeeded |
| Debug artifacts | `core/debug/artifacts.py` | counted files and a total, files on disk | write, with a purge and evictions | operations that fail half way, a restart, files that will not go |
| Profiles, telemetry, redaction | `core/config/`, `core/telemetry/`, `core/security/redaction.py`, `core/dataReconstruction.py` | none | load, format, reduce | none that interleaves |

How they interact: a scrape calls `get_or_create` and `ensure_cycle`; the cycle task
calls `login` and creates lane tasks that call `run_lane`, whose fetches register with
the cycle, take the cycle's semaphore, a byte reservation and a dispatcher lease, in
this order; lane tasks publish into the target and invalidate the response cache; a lane
job looks for its cycle's bootstrap under `bootstrap_lock`, discovers it if nobody has,
and hands the lane to the schema executor or to the legacy crawl, whose fetches are
those requests; the scheduler and `ensure_cycle` meet in `wake_event` and in the lane
futures; `_do_cleanup` and `emergency_abandon` call `cancel_cycle` and `abandon_cycle`
of the dispatcher and give the permits back.

What makes each part correct, in a sentence: the dispatcher neither loses nor invents a
slot and never leaves one idle beside a waiter; a permit is given back once; a target
has one open cycle, and everybody who waits for a lane of it gets an answer; a cycle
that ended holds nothing and never regains it; a lane state never goes back to an older
one; the byte totals are the sums they stand for; a record is filed under the parent it
was read from, and what is published of a collection is all of it; a store knows what it
holds. Where the code falls short of one of these, the findings below say so.

## Modules

| Module | What it is |
|---|---|
| `LeaseSlots` | abstract: what the dispatcher promises |
| `Dispatcher` | the `PriorityRequestDispatcher`, implements `LeaseSlots` |
| `DispatcherProofs` | its theorems |
| `CyclePermits` | abstract: what opening and closing cycles promises |
| `TargetCycle` | abstract: what the cycle of a target promises its scrapes and its lane jobs |
| `RefreshCycle` | contexts, permits, target references, shutdown; implements `CyclePermits` and, for every target, `TargetCycle` |
| `RefreshCycleProofs` | its theorems |
| `RequestExecution` | a request between its cycle's semaphore, the byte budget and the dispatcher |
| `RequestExecutionProofs` | its theorems |
| `ResponseCache` | the cache of response bodies: its operations as operators on a record |
| `TargetRegistry` | scrapes, registry, lane states, byte totals; applies the operators of `ResponseCache`, implements `TargetCycle` for every target object |
| `DebugArtifacts` | the artifact store beside the cache, both as a scrape leaves them |
| `SchemaExecutor` | `execute_resource` and `execute_children` over a lane's resources |
| `LegacyCrawl` | the v1 bridge: a gather of crawls, each with gathers of its own |
| `LaneJobs` | the jobs of a cycle: bootstrap, selection, then `SchemaExecutor` or `LegacyCrawl` |
| `LaneJobsProofs` | its theorems |
| `TargetRegistryProofs`, `DebugArtifactsProofs` | the theorems of these two |
| `CrawlProofs` | lemmas about the crawls, which `LaneJobsProofs` cites |
| `Counting` | lemmas about finite sets of numbers: least elements, ranks, cardinalities |
| `MC...` | the instances TLC checks |

### Dispatcher

The state variables carry the names of the attributes. What the code keeps in futures
and on the stacks of tasks is `phase`: whether the task of a request is suspended in
`acquire()`, with its future pending (`queued`), cancelled (`dead`), settled (`granted`)
or settled and then cancelled (`doomed`), or inside the lease (`holding`). A handler
that does not suspend is one step, with one exception: `_admit_next()` calls itself, and
`abandon_cycle()` calls it once per slot, so each call is a step, `admissions_due`
counts the calls still to be made, and no other handler moves while it is positive
(`Quiet`). `consecutive_fast` stops at the batch limit, with which alone it is ever
compared: an abstraction of a number that grows, and no property is about it.

`MayAcquire` refuses a request whose pair is still in `_abandoned_pairs`: request ids
are uuids, minted per logical request and reused only by its own retries, and a retry
needs its own lease to end first.

### RefreshCycle

A `TargetRefreshContext` is a record. What a step does to a context is an operator from
records to records (`Attached`, `Pass`, `CommittedToClosing`, `Finalized`, `Abandoned`,
...), and an action says to which context it is applied and what becomes of the target's
reference and of the permits. The tasks are in the record: `cycle_task` is where
`_run_cycle` is suspended, `cleanup_task` where `_do_cleanup` is, `lane_tasks` what
became of the lane tasks, `cancelled` a `CancelledError` not delivered yet. `cycle_lock`
is never held across a suspension, so a critical section is part of the step that enters
it.

Three points deserve a word.

* `reaping`: after a lane task woke it, the scheduler cancels its `wake_wait` task and
  waits for it to end, swallowing `CancelledError`. A cancellation meant for the cycle
  task that arrives there is swallowed too (`Reap` drops `cancelled`, `DeadlineFires`
  sets `deadline_lost`).
* `clock`: only three values of `remaining_seconds()` are told apart, above the start
  tolerance, above zero, and not.
* `superseded`: a lane job publishes a state made from the one it read when it began. A
  job is marked when another one has published since. That a marked job is never live is
  `LiveJobsAreCurrent`.

Two pairs of moments are one step each, since no other task can tell them apart.
`CommitToClosing` flips `accepting`, takes its snapshot and cancels the lane tasks,
which the code does one turn of the event loop later; `LoginReturns` sets the token and
makes the second check of `is_live()` at once.

Sessions, connectors and finalizer tasks leave no trace in the model: nothing reads
them. `on_close` is `None` in production. `Cycles` is finite, each cycle is opened at
most once, and the system stops when they are used up, which is why these runs do not
check deadlock.

### TargetCycle

Where `RefreshCycle` and `TargetRegistry` meet. One looks at a cycle from inside, with
its tasks, futures, cancellations and the shutdown, the other from outside, where
scrapes attach lanes and wait, and a job that outlives its cycle may still publish
(`late`). Each maps its state to the same few facts: the phase (from `accepting` and the
clock in `RefreshCycle`, kept as such in `TargetRegistry`), the lanes requested, the
lanes with a job that runs for the cycle, and what is left for Slow's first job to
happen. Each has `ImplementsTargetCycle` as a property of a run and as a theorem. So
what a scrape in `TargetRegistry` counts on (a lane is started once or refused, none is
started too late, Slow for the first time only after Fast; a target has another cycle
only when the last is gone) is what the cycles of `RefreshCycle` provide. The shutdown
is part of it (`shut`): it alone may close a cycle with a job running and time left, or
end one that never closed. `TargetRegistry` has `shut` FALSE throughout, so its cycles
are those before a shutdown.

This joins the two through an abstraction, it does not compose them: no run has the
tasks of a cycle and the scrapes of a registry side by side, and `TargetCycle` states
safety only, so that a cycle comes to an end at all is `EveryCycleIsWoundUp` of
`RefreshCycle`.

### RequestExecution

`stage` is where a request is suspended: in `fetch()` for the semaphore of its cycle, in
`reserve()` for bytes, in `acquire()` for a lease, in `wait_for()` or in the sleep
between two attempts. What it does from one suspension to the next is one step, so a
request that finds semaphore, bytes and slot free begins its attempt in the step that
begins it. Of the dispatcher the module assumes what `LeaseSlots` promises: a waiting
request may get a lease when there is a slot for its lane. A waiter that was handed a
slot but has yet to run still waits here (`leasing`), which is why a newcomer begins at
once only when nobody of its lane does (`ServedAtOnce`); in the code it would find the
slot taken. So the two modules meet in `LeaseSlots`: `Dispatcher` implements it, and
what the requests of a BMC do among themselves is, step by step, what it allows
(`ImplementsLeaseSlots` in both). `interrupted` holds the requests whose wait will end
with an exception when they next run, by a cancellation or because a timer fired; until
then other handlers run, and that is when a release may pass them over. Timeouts of
`wait_for()` and answers are both `EndAttempt`; whether an error may go away is left
open, which allows any number of attempts up to the request's `max_attempts`: login
(`cycle_callbacks.py:46`) and logout (`refresh_context.py:1007`) have bounds of their
own.

`login` takes the same way with the same order of semaphore, bytes and lease; the logout
after a cycle is a request without a semaphore and is left out.

The module assumes that one response fits into the budget, which the profile validates
for the resources of a schema. The v1 bridge reserves 10485760 bytes per fetch
(`rawCollector.py:142`) whatever `MaxInFlightResponseBytes` is, and 1048576 is allowed
there; such a fetch only ends at its deadline. That is a hazard no property covers, and
`PROJECT.json` says so: in the model every request reserves `max_response_bytes`.

### TargetRegistry and ResponseCache

A scrape (`read_all`) suspends only in `join_lane()`: it is one step, or one up to that
wait and one after it. A publication does not suspend at all, so its candidate bytes are
reserved and released in one step, and no two candidates are ever in flight together. A
refresh cycle is reduced to what the others see of it: a `phase`, the lanes still
requested, whether Slow has had its first job. Nothing less would do for what the
scrapes wait for, and nothing more is taken from the code than `TargetCycle` says, which
this module and `RefreshCycle` both implement (`ImplementsTargetCycle`, see below). A
lane job carries the lane state it read when it began, the coordinator it fetches
through and whether its cycle is gone (`late`). `Target` objects and coordinators are
numbers, since an evicted target may be registered anew while a job of the old one still
runs; a number is used again when nothing refers to it.

`ResponseCache` keeps a cache as a record and its operations as operators, which
`DebugArtifacts` applies to a variable and `TargetRegistry` to a field of the registry.
The number of entries the loop of `put()` evicts is the least that makes the new one
fit. Nothing here is a recursive sum: what a loop leaves of a dictionary is a
subsequence, whose members are named by their ranks, and the bytes of a set of snapshots
are the cardinality of the set of their bytes (`SnapshotBytes`), so that both can be
reasoned about.

Assumptions of these modules that are not in the code they map: a merged snapshot has a
`Common` part exactly if Fast is usable (Fast always publishes one). A scrape that was
woken by a lane future runs before the cycle that woke it is gone: it needs two turns of
the event loop, the end of a cycle goes through at least one more task (`CycleGone`). A
cycle may close with lanes requested and none running, which covers a failed login;
`RefreshCycle` says exactly when it does. `TargetRegistry` gives the permits back when
the cycle is gone (`CycleGone`), the code a little earlier, in `_finalize_cleanup()`,
before the reference of the target is cleared. Every fetch goes through the acceptance
fence of `run_as_cycle_owned_request()`, as those of the v2 executor do; those of the v1
bridge do not, and none of the properties here depends on what a fetch of a closing
cycle does. Shutdown is in `RefreshCycle` only. `sweep_idle()` has no caller in
production and `Target.state` is written and never read; neither is modelled. `Lag` is
what may pass between two readings of the clock within one step.

### DebugArtifacts

A scrape that made a body writes it as an artifact if it was asked to, and then puts it
in the cache, before it answers (`ScrapeStores`); a look-up, an invalidation, the clock
and a restart are the other steps. `files` is what the store counts and `disk` what
there is. The store is a dictionary in insertion order with a total, like the cache, so
its evictions are written with the same operators. Where the two differ is where the
code does: a file that is replaced keeps its place and is still counted while room is
made for it, so it may be evicted by its own replacement; a file that cannot be unlinked
is no longer counted; a write that fails has evicted for nothing.

`ArtifactsAreCounted` is about the files the store counts: each is counted once and is
on the disk with the size it was counted for, and the total is the sum of these sizes
and within `MaxTotalBytes`, or that of a single file within `MaxFileBytes`. The disk may
hold more: a file whose unlink failed and the files of the previous run are counted by
nobody, until a scrape happens to overwrite them. That none of them is ever purged is
the theorem `UncountedFilesStay`, and what the repository's README promises instead a
finding (6 below). The temporary file of a failed write whose removal fails too
(`artifacts.py:136-139`) is left over in the same way; it has a name of its own that
nothing uses again, and is not modelled. `max_files_per_target` never bites with one
file name per target.

### SchemaExecutor

The code recurses into children; the model keeps an `agenda` of executions still to be
made, in the order of the recursion (the first is the one under way, its children are
put in front of the rest). `turn` is where the first one is: which strategy, whether it
chooses, fetches a root, a page or a member, what it has collected. A record is named by
its path, a sequence of resource names and record numbers, and the `tree` is a function
from a parent's path and a resource to what was collected there. What the BMC answers is
chosen when a fetch ends: which captures a body has, whether there is a next page, which
members a page links to or contains. A body is the set of its captures, since nothing
else decides where the crawl goes. Whether the System body of the discovery may serve is
asked by the name of the capture, where the code compares the URL.

`listed` is the list a strategy has read so far, page after page, and is kept in the
tree with what was made of it; `refs` are the members still to come, each with its
strategy and its place in the list, and a record remembers the same. So
`CollectionsAreWhole` can compare what is kept with what was listed: the records of a
collection are those of the first `max_members` members that give one, each once, in the
order of the list, read by the strategy that succeeded and none by one that failed
before it, and no page was left unread. Had a page been lost, a member been skipped or a
reference been left over from another strategy, the two would differ.

`Resources` is a schema as the loader accepts it (`WellFormed`), and `Definitions` all
its resource definitions, those of children included: the loader itself, components,
fields and transforms have no part in the control. Nothing stops a lane from listing a
resource twice, and `executed[name]` then has the records of the second time only, with
what is below them, while `resource_raw_by_name` keeps the body of the first until there
is another: `Conclude` drops what the tree had under that name, and `raws` is a map of
its own.

### LegacyCrawl

`crawl` has a record per component: its state, and the states of the tasks of its two
inner gathers. A task is `later` (its batch has not begun), `flying`, `got`, `raised`,
`dropped`, or `unwinding`, which is a fetch whose gather is gone and which has not yet
had its `CancelledError`. `asyncio.gather()` raises at the first exception and leaves
the others running, while cancelling it cancels all of them: `bounded_gather` turns the
one into the other, and `NothingLeftInFlight` says that no fetch of a job runs on after
it.

`nested` has, for every nested crawl that returned, the index its data was stored at,
its key, and the record it was started for. The index is `count`, which is incremented
(`rawCollector.py:386`) inside the `try`, after a nested crawl that succeeded, while
`dataRawList`, which it indexes, keeps every record. So `NestedDataStaysWithItsRecord`
does not hold: it is finding 5. A nested crawl has gathers of its own; here it is one
step that succeeds or fails.

### LaneJobs

`LaneJobs` extends both. `stage` is where the job is suspended: waiting for the lock, in
one of the fetches of the discovery, or in the collection. One lane at a time is
modelled job by job; what the job of the other lane does to it goes through the lock,
the bootstrap and the System body only, and that is what the actions `Other...` are.
`SystemBodyIsUsedOnce` is what `bootstrap_system_reused` is for: the body read in the
discovery serves the first Fast job, and nobody reads a stale one later.

Two details of `bootstrap.py` show in the actions: the fetch of a manager is not gated
by whether there is one, and a fetch error there or at the chassis ends the job although
the comment at `bootstrap.py:73` calls the capability optional. A schema error does not.
A schema without a `manager_collection_uri` makes no such fetch; it is left out, since
it goes on as one does whose fetch finds no manager.

## Runs

| Run | Instance | What it shows |
|---|---|---|
| `dispatcher` | 3 Fast, 2 Slow requests of 2 cycles, 2 slots, queues of 2, batch limit 1; fair | accounting, bounds, no idle slot, refinement of `LeaseSlots`, with cancellation and abandonment at any point; neither queue is passed over for ever |
| `dispatcher_abandoned` | 2 Fast, 2 Slow requests, 2 slots | finding: pairs left in `_abandoned_pairs` |
| `cycle_lanes` | 1 cycle, both lanes | everything about one cycle, safety and liveness; refinement of `TargetCycle` |
| `cycle_succession` | 2 cycles of one target, Fast only | a new cycle beside the remains of an old one |
| `cycle_hang` | as `cycle_lanes` | finding: a cycle outlives its deadline for ever |
| `requests` | 3 Slow and 1 Fast requests of 2 cycles of one BMC, bytes for 2, 2 slots, one request with 2 attempts; fair | byte budget, wake-ups, deadlines, leases as `LeaseSlots` allows; every request ends |
| `registry` | 2 keys of one BMC taking turns in a registry with room for 1 target, or one key alone with 2 scrapes while the clock moves within steps | eviction beside a scrape, jobs and late jobs; byte totals, what the cache serves, what scrapes wait for; refinement of `TargetCycle` |
| `registry_slow_expires` | 1 key, 2 scrapes, a clock up to 4 | finding: the cache is told there is no Slow data when there is |
| `scrape_stores` | 3 keys, sizes 1, 3 and 4, a clock up to 3, restarts | of what they count both stores keep count and within bounds, the oldest goes first |
| `lane_jobs` | jobs of both lanes; a v2 schema two levels deep, a v1 schema of 3 components in batches of 2; fair | lineage, whole collections, a bounded crawl, one discovery, nothing left in flight, every job ends |
| `optional_resources` | as `lane_jobs` | finding: an optional resource's failed fetch ends the job |
| `nested_data` | as `lane_jobs` | finding: nested data is stored with another record |

The bounds are small but the interesting cases are in: with two slots of which one is
reserved, three Fast and two Slow requests fill both queues, meet the batch limit and
leave a queue refused; two cycles suffice for "another cycle's". A context has two lanes
whatever the instance, and two contexts are the most that can meet on one target (the
old one closing, the new one open). `cycle_succession` leaves the Slow lane out
(`slow_disabled`) because lanes of different contexts interact only through
`superseded`, lane by lane, and uses symmetry between the two cycles, which the instance
cannot tell apart. That permits add up among several targets of a BMC and that the
limits hold is proved for any number of them (`PermitsAddUp`), as are the bounds of the
dispatcher for every capacity, 1 included, where nothing is reserved.

In `requests` three requests share a cycle, so that one waits for the semaphore; of
three past it two get bytes, with a byte over, and when those two are Slow one gets the
lease, the other slot being kept for Fast: each of the three waits happens with a
request ahead in the next one.

A single target in the registry makes every other key an eviction. `registry` explores
two corners of one instance (`Explored`, a constraint on the states TLC goes on from, in
`MCTargetRegistry`). In `TakingTurns` two keys evict each other, one scrape at a time,
and each lane is published at most once and never expires: an evicted target starts
again at generation 0, so a first publication is enough for a late job to meet. In
`OneKeyAlone` one target has two scrapes, two publications of each lane, which is the
least at which a body can be outdated, and a clock that reaches 3, past the TTLs of both
lanes published at 0 (1 for Fast, 2 for Slow), and moves by at most one (`Lag`) within a
scrape. Properties of both corners are checked in every state of either; what the
constraint leaves out, evictions under a moving clock, is covered by the theorems, which
have no bounds.

In `scrape_stores` three entries of size 1 exceed `max_entries`, one of size 3 leaves no
room for another, 4 fits nowhere; of the artifacts three of size 1 exceed
`MaxTotalBytes`, which 3 exceeds by itself. In `lane_jobs` a collection has up to two
pages, each with a list of up to three members that are links, records or neither, and
at most two members are taken; a collection may fail at its second page with another
strategy to fall back on; children reach `max_depth` with a resource below it that must
never run; the schema has an optional and a required resource, every kind of strategy
and source, a child that two strategies declare differently, and a resource with
children that Fast lists twice. Of three components two are in the first batch, one has
two nested keys, and a component has up to three records, so both gathers have a second
batch. The five sets of observed rules give no winner, a v2 winner, a legacy one, a tie,
and a schema that is not there.

### Fairness

`Dispatcher!Fairness`: a handler runs to its end, and a task that was granted a slot,
holds one or was cancelled gets to run and ends: `bounded_fetch()` puts each attempt
under `wait_for()`. It is strong fairness because a ready task keeps its place in the
event loop while other handlers run. Nobody is made to ask for a slot.

`RefreshCycle!Fairness`: time passes, timers and callbacks fire, tasks that can run do.
Login, logout and `close()` are under `wait_for()`. It does *not* assume that a lane job
ends or heeds its cancellation; `FairLanesSpec`, used for the finding `NoFollowerHangs`,
assumes that as well, which makes the finding stronger.

`RequestExecution!FairSpec`: a request that can run does, `wait_for()` and `sleep()`
come back, and whoever waits for a semaphore or a lease is served when there is one,
which is what asyncio's FIFO semaphore and `EveryWaiterIsServed` say. No deadline has to
pass and nobody has to be cancelled.

`LaneJobs!FairSpec`: every fetch ends (its request does, see above), a job that can go
on does, and the job of the other lane ends, too, so the lock comes free. New jobs and
cycles need not come.

`EveryCycleIsWoundUp` excepts a cycle whose deadline was swallowed; the exception is the
finding `cycle_hang`.

## Proofs

The `*Proofs` modules prove, for every value of the constants that satisfies the named
assumptions of the modelled module, that an inductive invariant `IInv` holds and what
follows from it, one lemma per action.

*Dispatcher.* `LeaseAccounting` and `SlotBounds` are not inductive: a grant in
`_admit_next()` needs to know that the waiter it takes is not already holding, and a
slot freed by a release is only accounted for while an admission is due. `QueueInv` says
that queues hold suspended waiters of their lane, each once; `OwedSlots` is `NoIdleSlot`
in the middle of a handler: a slot that is free beside a waiter is owed to one of the
admissions still to be made. Proved: `TypeOK`, `LeaseAccounting`, `SlotBounds`,
`NoIdleSlot`, and that `Dispatcher` implements `LeaseSlots` (each step is a step of it
or a stutter; `NoIdleSlot` is what makes a grant at once legal).

*RefreshCycle.* `IInv` adds `Consistent`, about one context at a time, to the
accounting: how the stages of the three kinds of tasks go together (`StagesAgree`), what
a lane has been accepted, requested and started for (`LanesAgree`), what giving the
permits back stands for (`ReleaseAgrees`), and why the scheduler waits (`WaitAgrees`).
Every step is of one of three kinds (`StepKinds`): it changes contexts and no permit
(`Steady`), opens a cycle (`Opening`) or gives back the permits of a set of cycles
(`Releasing`); each kind keeps the accounting, and lemmas about the record operators
show that each step keeps `Consistent`. Proved: `TypeOK`, `PermitAccounting`,
`OpenCycleIsReferenced`, `ReleasedHoldsNothing`, `NoOrphanedFuture`, `NoLostWakeUp`,
`NothingEscapesCleanup`, `LiveJobsAreCurrent` and the refinement of `CyclePermits`; and
`SlowNeverStartsCold`, from one more fact about a context: before the scheduler starts
Slow's first job it has seen how Fast ended, so that a Fast job that failed, or still
runs, is never mistaken for one that published.

That every target of `RefreshCycle` has the cycle of `TargetCycle` needs more than
`IInv`, about how a cycle ends (`SeenInv`): a cycle is cancelled or abandoned only once
the shutdown has begun, a cycle whose scheduler ended while it still accepted lanes has
a reason to close (its deadline, no job left, or the shutdown), Slow has no job where
Fast failed cold, and no target refers to an abandoned context. From these every step
shows the others nothing new or takes one step of the abstract cycle, target by target
(`RefreshCycleImplementsTargetCycle`).

*RequestExecution.* `IInv` joins the invariants, which support each other: that nobody
is parked beside free bytes needs `waiters` to hold every parked request, and `TypeOK`
(at most `max_attempts`) needs `AttemptsAgree`, that a request on its way to an attempt
has one left. The actions are made of four pieces (`ReleaseAndMove`, `Park`,
`ReserveAndLease`, `Move`); a lemma about each carries the proof, and two lemmas about
counting, `BytesTaken` and `BytesGivenBack`, the arithmetic: that `max(0, ...)` in
`release()` never cuts anything off. Proved: `TypeOK`, `BudgetAccounting`,
`NobodyParkedForNothing`, `NoAttemptTooLate`. For the leases every piece is shown to do
one of three things to a single request, whatever it does to those it wakes up
(`OnlyMoves`, which needs that `waiters` are all parked): it leaves, asks, or is
granted. Proved of every BMC: `ImplementsLeaseSlots`.

*LaneJobs.* The first theorems are about the bootstrap, whatever the executor and the
crawl do between its steps. `LockInv`: who discovers has the lock, and while it is held
nothing is stored; what is stored is all of one discovery. `BodyInv`: the System body is
there until `reused` says that it was handed out, and the job that has it is a Fast job
that collects. Proved: `SystemBodyIsUsedOnce`, `OneDiscoveryPerCycle`.

*LegacyCrawl*, as part of `LaneJobs`. `LegacyInv`: what is under way is of the batch its
gather has come to, and batches are taken in order, so a crawl that has not begun has no
task that flies and one that ended has none left (`NothingIsLeft`);. The set of tasks of
a batch is a set of numbers, so each completion is one step of `Counting`. Proved:
`NothingLeftInFlight`.

*TargetRegistry.* `IInv` says what a target, a job and a scrape know of each other: a
registered target and its coordinator agree (`TargetsAgree`); a job that is not late
read what its lane still is, so publishing cannot undo another publication
(`JobsAgree`); who waits waits for a lane that is requested of a cycle under way
(`ScrapesAgree`, with `NoScrapeWaitsInVain`); the totals are the cardinalities of the
bytes they stand for (`AccountsAreTrue`, `BytesAreFinite`). `get_or_create()` is taken
apart into the targets kept, the totals reduced and the newcomer prepared, each with a
lemma of its own. For `CacheIsCurrent` an entry is followed from the scrape that built
it: a lane that is published invalidates the entries of its target (`LanePublished`),
and everything else keeps the lanes (`LanesKept`) or loses entries (`EntriesStay`). For
the refinement of `TargetCycle` each action is shown to leave what an object shows as it
was or to take a step of its abstract cycle (`KeepsToCycle`). Two facts make that true:
an object without a cycle has nothing left of the last one (`AtRest`), so that a target
registered anew begins where the abstract cycle does; and two jobs of a lane are never
both of the same cycle (from `JobsAgree`), so that the end of a job is the end of its
lane. Proved: `TypeOK`, `AccountsAreTrue`, `NothingOutlivesItsTarget`,
`NoScrapeWaitsInVain`, `CacheIsCurrent`, `LanesOnlyGetNewer`, and for every object
`ImplementsTargetCycle`.

*DebugArtifacts.* A dictionary in insertion order is a sequence of entries with
different keys, and as good as the set of its entries; its total is `SizeOf` that set,
again a cardinality. The lemmas about `Without`, `MadeRoom`, `Put`, `Evicted` and
`Written` follow the total through an operation; that the evictions stop as soon as they
may comes from a least number (`LeastNat`). The strengthening is that every counted file
is on the disk with its size. Proved: `TypeOK`, `StoresKeepCount`, `EvictsOnlyOldest`,
and `UncountedFilesStay`: a file on the disk that is not counted is removed by no step.

*SchemaExecutor*, as part of `LaneJobs`. `Crawling` has four parts. `TreeSound`: the
tree is closed upwards (who is below a record is below one that is there) and has each
entry where the schema puts it. `AgendaSound`: what waits is what the tree lacks, once,
and carries in its context, for every capture, the nearest record above that declares it
(`Bound`): this is the invariant that makes `LineageIsKept` inductive, since the context
is computed when an execution is put on the agenda and used when its turn comes.
`PositionSound`: the agenda is all below one resource of the lane, and what is before it
is done. `TurnSound`: the records and the source of the strategy under way would be
right if it ended here. The work is in `Conclude`, which takes a step in the recursion
of the code: it adds records (`Concluded`, `TreeAfter`) and puts their children before
the rest of the agenda (`ChildrenAreAwaited`, `AgendaAfter`, with `Flattened` and
`InSomeOrder` for what `FlattenSeq` and `SetToSeq` return). `CrawlOfJob` says which jobs
crawl, and `LockInv` keeps the bootstrap under a crawl as it was when it began. The
assumptions are those the loader establishes (`SchemaAssumption`); the depth of the
tree, the members and the answers are arbitrary. Proved: `LineageIsKept`, `TypeOK`.

`CollectionsAreWhole` rests on `Gathered`, which adds to the tree where the strategy
under way stands with its list (`ListSound`): nothing is listed before the first body;
while pages are read, the references are the list; and once it is cut at `max_members`
(`Cap`), there is a place in it such that the records are those of the members before
(`Taken`) and the references the members after (`Left`). Each member moves the place by
one, and when it has come to the end the records are all the list gives. Proved:
`CollectionsAreWhole`.

`CrawlWithinBudget` bounds the fetches of a job by what the schema and the limits give:
`FetchBudget[k]` is what an execution with `k` levels left below it may cost, those of
its children included, and `LaneBudget` the sum over a lane. It is not inductive: in the
middle of a crawl the fetches made say nothing of those to come. The strengthening
`WithinBudget` is a potential: the fetches made, the cost of everything that waits on
the agenda and what the strategy under way may still need never exceed the budget of the
lane up to the resource it has come to. A fetch moves one from what may come to what was
made; an execution that succeeds puts the costs of its children on the agenda, which its
own budget contains (`ChildrenCost`); one that fails gives the rest back.
`AgendaIsShallow` keeps every path within `max_depth`, so that an execution has levels
left for its children. `FetchBudget` is a recursive function and the budget of a lane a
prefix sum; induction theorems that take an operator cannot be instantiated here, so
`Counting` proves the recursion of a function of numbers and induction along a sequence
from the least counterexample (`Recursion`, `SequenceInduction`), and `CrawlProofs` what
it needs of sums of sequences from those.

Every safety invariant and action property that a passing run checks is stated by a
theorem. Only model-checked are the liveness properties `EveryWaiterIsServed`,
`EveryCycleIsWoundUp`, `EveryRequestEnds` and `EveryJobEnds`: fairness and `ENABLED` are
beyond the prover. The type invariants of `Dispatcher`, `RefreshCycle`, `TargetRegistry`
and `DebugArtifacts`, and `UncountedFilesStay`, are the other way round: proved, and
part of no run.

## Findings

Six statements of the repository about its code do not hold. The first five have a run
each that TLC must find violated, the sixth has a theorem; `PROJECT.json` quotes the
lines.

1. `_abandoned_pairs` keeps pairs that no release will ever come for
   (`dispatcher_abandoned`).
2. A cancellation swallowed while the scheduler waits for its `wake_wait` task lets a
   cycle outlive its deadline, and a follower without its own time limit would wait for
   ever (`cycle_hang`; `join_lane()` has one).
3. The cache may be told that a body has no Slow data when it has: `is_usable()` is
   asked twice (`registry_slow_expires`). Such an entry lives until Fast's deadline
   instead of the earlier one of Slow; `CacheIsCurrent` says what is served
   nevertheless.
4. A comment in `collect_v2_resources()` promises that an optional resource's failure
   does not abort the rest of the lane (`optional_resources`). It does not when the
   schema is at fault, but a fetch that fails raises something else than the
   `ExecutorError` that is caught, and ends the job.
5. The v1 bridge stores what is nested under a record at an index that stands still when
   a nested crawl fails, among records that are all kept (`nested_data`): the data of
   every later record of that component goes to an earlier one.
6. The repository's README bounds the debug artifacts "in total" and by age
   (`README.md:161-162`). Files that are not counted (see DebugArtifacts above) escape
   both, which is what `UncountedFilesStay` proves; and a single file may exceed the
   total, since nothing validates that `MaxFileBytes` is at most `MaxTotalBytes`.

Met on the way, and described above where the model has them: the v1 bridge reserves
more bytes than there may be, and the manager is fetched without being there.

## Not modelled, and the plan

1. Dispatcher (done). 2. Refresh cycles and shutdown (done).
3. The path of a request (done). 4. Registry, scrapes and response cache (done).
5. Bootstrap, executor, legacy crawl, lane jobs (done). 6. Debug artifacts (done).
7. Theorems about every invariant and action property that a run checks (done).
8. What joins `RequestExecution` to `Dispatcher`, `LeaseSlots`, and `TargetRegistry` to
   `RefreshCycle`, `TargetCycle`, each implemented from both sides (done).
9. The same-target transport: a pure module for redirects and size limits. An exchange
   keeps no state beyond its own loops and shares none, so that it is one step of
   `RequestExecution` (`attempting`), whatever happens in it.

Left out for good: file formats and parsing of profiles and schemas (the loader is
modelled as what it accepts), the extraction of components and fields from one document
and their transforms, redaction, logging and metric formatting, which have no state and
no interleaving; `dataReconstruction.py` and the reduction of telemetry reports, which
production does not call.

--------------------------- MODULE TargetRegistry ---------------------------
(***************************************************************************)
(* The scrapes (read_all in routers/prometheus.py) and what they share     *)
(* with the lane jobs of the refresh cycles: the registry of targets and   *)
(* BMC coordinators, the lane states of the targets, the budget of         *)
(* snapshot bytes and the cache of responses (core/targets/registry.py,    *)
(* target_state.py, admission.py and cycle_callbacks.py).                  *)
(*                                                                         *)
(* A scrape suspends only to wait for the Fast lane of a cycle, and the    *)
(* publication of a lane does not suspend, so a scrape is one step, or one *)
(* up to its wait and one after it, and a publication is one step.         *)
(*                                                                         *)
(* A refresh cycle is reduced to what the others see of it: whether it     *)
(* accepts lanes, whether it is live, which lanes it has yet to start, and *)
(* that it is gone.  RefreshCycle.tla is about what happens inside, and    *)
(* shows that the permits given out are those of the open cycles.  Both    *)
(* modules implement TargetCycle.tla.                                      *)
(***************************************************************************)
EXTENDS Integers, FiniteSets

CONSTANTS
    Keys,             \* (serverAddress, config) identities
    Bmcs,             \* canonical addresses
    BmcOf,            \* the address of each key
    without_slow,     \* keys whose schema has no Slow resources
    Scrapes,          \* scrapes that may be under way at once
    None,
    max_targets,                 \* Tuning.Cache.MaxTargets
    max_parallel_targets,        \* Tuning.MaxParallelTargets
    max_concurrent_refreshes,    \* Tuning.Refresh.MaxConcurrentRefreshes
    max_concurrent_cycles,       \* Tuning.Refresh.MaxConcurrentCyclesPerBmc
    max_total_snapshot_bytes,    \* Tuning.Cache.MaxTotalSnapshotBytes
    max_in_flight_candidate_bytes, \* Tuning.Cache.MaxInFlightCandidateBytes
    max_snapshot_bytes_per_lane, \* Tuning.Cache.MaxSnapshotBytesPerLane
    SnapshotSizes,               \* compact_json_size of a snapshot
    ttl_seconds,                 \* of each lane
    response_ttl,                \* Tuning.Cache.ResponseTtlSeconds
    max_entries,                 \* Tuning.Cache.MaxEntries
    MaxObjects,       \* bound: Target objects that are in use at once
    MaxCoordinators,  \* bound: BmcCoordinator objects that are in use at once
    MaxLateJobs,      \* bound: jobs that outlive their cycle
    MaxGeneration,    \* bound: publications of a lane of a target
    MaxNow,           \* bound on the clock
    Lag               \* what may pass between two readings of the clock in a step

ASSUME TargetRegistryAssumption ==
    /\ BmcOf \in [Keys -> Bmcs]
    /\ IsFiniteSet(Keys) /\ IsFiniteSet(Scrapes)
    /\ MaxObjects \in Nat /\ MaxCoordinators \in Nat /\ MaxNow \in Nat /\ Lag \in Nat
    /\ ttl_seconds \in [{"fast", "slow"} -> Nat] /\ response_ttl \in Nat
    /\ without_slow \subseteq Keys
    /\ SnapshotSizes \subseteq Nat
    /\ None \notin Keys /\ None \notin Nat
    /\ max_parallel_targets \in Nat \ {0} /\ max_targets \in Nat \ {0}
    /\ max_total_snapshot_bytes \in Nat
    /\ max_snapshot_bytes_per_lane \in Nat /\ max_in_flight_candidate_bytes \in Nat
    /\ max_snapshot_bytes_per_lane <= max_total_snapshot_bytes
    /\ max_snapshot_bytes_per_lane <= max_in_flight_candidate_bytes

VARIABLES
    registry,           \* the TargetRegistry
    target,             \* the Target objects
    jobs,               \* the lane jobs that run
    scrapes,            \* the scrapes that wait
    active_and_pending, \* AdmissionLimiter.active_and_pending
    now                 \* time.time()

vars == <<registry, target, jobs, scrapes, active_and_pending, now>>

Cache == INSTANCE ResponseCache WITH
    cache <- registry.response_cache,
    CacheKeys <- Keys,
    Bodies <- [fast : 1 .. MaxGeneration, slow : 0 .. MaxGeneration, slow_generation : 0 .. MaxGeneration],
    BodySizes <- {1},
    Ttls <- {},
    max_total_bytes <- max_entries

Lanes == {"fast", "slow"}
Objects == 1 .. MaxObjects
Coordinators == 1 .. MaxCoordinators

-----------------------------------------------------------------------------
(* Lane states and targets *)

\* A lane state without last_success_at has no snapshot either.
LaneState == [generation : Nat, serialized_size : Nat, last_success_at : Nat \cup {None}]

NoSuccess == [generation |-> 0, serialized_size |-> 0, last_success_at |-> None]

is_usable(x, l, t) ==
    /\ x.lane[l].last_success_at # None
    /\ t - x.lane[l].last_success_at <= ttl_seconds[l]

published(state, size) ==
    [generation |-> state.generation + 1, serialized_size |-> size, last_success_at |-> now]

\* Nothing but the error changes, and nothing here is about the error.
failed(state) == state

\* A cycle accepts lanes and is live ("open"), but has too little time left to
\* start them ("late"), accepts lanes after its deadline ("expired"), or does
\* neither ("closing").
Phases == {"none", "open", "late", "expired", "closing"}

IsAccepting(x) == x.phase \in {"open", "late", "expired"}

Target ==
    [key : Keys \cup {None},
     lane : [Lanes -> LaneState],
     last_activity : Nat,
     slow_disabled : BOOLEAN,
     phase : Phases,                            \* of active_cycle
     requested : SUBSET Lanes,                  \* lanes the cycle has not started
     slow_may : {"follow", "start", "not"},     \* see StartLane
     coordinator : Coordinators \cup {None}]    \* of the cycle

NewTarget(k) ==
    [key |-> k,
     lane |-> [l \in Lanes |-> NoSuccess],
     last_activity |-> 0,
     slow_disabled |-> FALSE,
     phase |-> "none",
     requested |-> {},
     slow_may |-> "follow",
     coordinator |-> None]

touched(x) == [x EXCEPT !.last_activity = now]

LanesDue(x) ==
    {l \in Lanes : ~is_usable(x, l, now) /\ ~(l = "slow" /\ x.slow_disabled)}

-----------------------------------------------------------------------------
(* Lane jobs *)

\* A job writes what it makes of the lane state it read when it began.  It is
\* late once its cycle is gone; fetching tells whether it waits for or holds a
\* lease of the coordinator's dispatcher.
Job ==
    [target : Objects,
     lane : Lanes,
     read : LaneState,
     coordinator : Coordinators,
     fetching : BOOLEAN,
     late : BOOLEAN]

OfCycle(j, o) == j.target = o /\ ~j.late

Running(o, l) == \E j \in jobs : OfCycle(j, o) /\ j.lane = l

\* Mutant of is_live: nobody asks whether the cycle is still live.
AlwaysLive(j) == TRUE

is_live(j) == ~j.late /\ target[j.target].phase \in {"open", "late"}

-----------------------------------------------------------------------------
(* The registry *)

Registered(r) == {r.targets[k] : k \in Keys} \ {None}

InUse ==
    Registered(registry) \cup {j.target : j \in jobs}
        \cup {scrapes[s].target : s \in {s \in Scrapes : scrapes[s].stage # "idle"}}

Unused(all, used) == CHOOSE i \in all \ used : \A i2 \in all \ used : i <= i2

CoordinatorsInUse ==
    {registry.bmc_coordinators[b] : b \in Bmcs} \cup {j.coordinator : j \in jobs}
        \cup {target[o].coordinator : o \in Registered(registry)}

\* lease_count of coordinator q.
lease_count(q) == Cardinality({o \in Registered(registry) : target[o].coordinator = q})

active_cycles == Cardinality({o \in Registered(registry) : target[o].phase # "none"})

is_idle(q) == lease_count(q) = 0 /\ \A j \in jobs : j.coordinator = q => ~j.fetching

SizeOf(o) == target[o].lane["fast"].serialized_size + target[o].lane["slow"].serialized_size

NotBelowZero(n) == IF n < 0 THEN 0 ELSE n

\* Mutant of Removed: the bytes of the target stay in the total.
RemovedForFree(r, k) ==
    [r EXCEPT !.targets[k] = None, !.response_cache = Cache!Invalidate(@, k)]

\* _remove_locked()
Removed(r, k) ==
    LET b == BmcOf[k]
        left == [r.targets EXCEPT ![k] = None]
        still_used == \E k2 \in Keys : BmcOf[k2] = b /\ left[k2] # None
        q == r.bmc_coordinators[b]
    IN  [targets |-> left,
         total_snapshot_bytes_used |-> NotBelowZero(r.total_snapshot_bytes_used - SizeOf(r.targets[k])),
         response_cache |-> Cache!Invalidate(r.response_cache, k),
         bmc_coordinators |->
            IF q # None /\ is_idle(q) /\ ~still_used
            THEN [r.bmc_coordinators EXCEPT ![b] = None]
            ELSE r.bmc_coordinators]

\* Mutant of Evictable: a target with an open cycle may have to go.
EvictableByAge(r) == {k \in Keys : r.targets[k] # None}

Evictable(r) == {k \in Keys : r.targets[k] # None /\ target[r.targets[k]].phase = "none"}

\* The least recently active of them; of several, whichever is first.
Oldest(r) ==
    {k \in Evictable(r) : \A k2 \in Evictable(r) :
        target[r.targets[k]].last_activity <= target[r.targets[k2]].last_activity}

WithTarget(r, k) == [r EXCEPT !.targets[k] = Unused(Objects, InUse)]

\* What the registry may be after get_or_create(k); nothing if it is full.
Obtained(r, k) ==
    IF r.targets[k] # None THEN {r}
    ELSE IF Cardinality(Registered(r)) < max_targets THEN {WithTarget(r, k)}
    ELSE {WithTarget(Removed(r, victim), k) : victim \in Oldest(r)}

\* RegistryFull
IsFull(r, k) ==
    /\ r.targets[k] = None
    /\ Cardinality(Registered(r)) >= max_targets
    /\ Evictable(r) = {}

\* get_or_create_coordinator()
WithCoordinator(r, b) ==
    IF r.bmc_coordinators[b] # None THEN r
    ELSE [r EXCEPT !.bmc_coordinators[b] = Unused(Coordinators, CoordinatorsInUse)]

Init ==
    /\ registry = [targets |-> [k \in Keys |-> None],
                   total_snapshot_bytes_used |-> 0,
                   response_cache |-> Cache!EmptyCache,
                   bmc_coordinators |-> [b \in Bmcs |-> None]]
    /\ target = [o \in Objects |-> NewTarget(None)]
    /\ jobs = {}
    /\ scrapes = [s \in Scrapes |-> [stage |-> "idle", key |-> None, target |-> None]]
    /\ active_and_pending = 0
    /\ now = 0

-----------------------------------------------------------------------------
(* The response of a scrape *)

\* The objects once r is the registry and object o is x.  Of an object that is
\* evicted nothing is remembered.
Targets(r, o, x) ==
    [o2 \in Objects |->
        IF o2 = o THEN x
        ELSE IF o2 \in Registered(r) \/ target[o2].phase # "none" THEN target[o2]
        ELSE NewTarget(None)]

\* slow_generation is what the cache is told of Slow, at time later; 0 is None.
Body(x, later) ==
    [fast |-> x.lane["fast"].generation,
     slow |-> IF is_usable(x, "slow", now) THEN x.lane["slow"].generation ELSE 0,
     slow_generation |-> IF is_usable(x, "slow", later) THEN x.lane["slow"].generation ELSE 0]

LaneDeadline(x, later) ==
    LET fast_deadline == x.lane["fast"].last_success_at + ttl_seconds["fast"]
    IN  IF is_usable(x, "slow", later)
        THEN Cache!Earlier(fast_deadline, x.lane["slow"].last_success_at + ttl_seconds["slow"])
        ELSE fast_deadline

\* The response to a scrape of key k from target object o, which is x: nothing
\* usable (a Fast snapshot has Common, a Slow one has not), an exception on the
\* way, or a body, which is cached.
Respond(r, k, o, x) ==
    /\ target' = Targets(r, o, x)
    /\ \/ registry' = r /\ UNCHANGED now
       \/ /\ is_usable(x, "fast", now)
          /\ \E later \in now .. Cache!Earlier(now + Lag, MaxNow) :
                /\ now' = later
                /\ registry' = [r EXCEPT !.response_cache =
                      Cache!Put(@, Cache!Entry(k, Body(x, later), 1, later, LaneDeadline(x, later)), later)]

-----------------------------------------------------------------------------
(* A scrape, up to its wait *)

CachedBody(k) == Cache!Hit(registry.response_cache, k, now)

ServedFromCache(k) ==
    /\ CachedBody(k) # {}
    /\ registry.targets[k] # None
    /\ target' = [target EXCEPT ![registry.targets[k]] = touched(@)]
    /\ UNCHANGED <<registry, jobs, scrapes, active_and_pending, now>>

Misses(k) == CachedBody(k) = {} \/ registry.targets[k] = None

\* What a miss leaves behind.
Missed(k) ==
    [registry EXCEPT !.response_cache =
        IF registry.targets[k] = None THEN Cache!Invalidate(@, k) ELSE Cache!Looked(@, k, now)]

try_admit == active_and_pending < max_parallel_targets

\* _overload_response() for want of room among the scrapes or the targets.
Overloaded(k) ==
    /\ Misses(k)
    /\ ~try_admit \/ IsFull(Missed(k), k)
    /\ registry' = Missed(k)
    /\ UNCHANGED <<target, jobs, scrapes, active_and_pending, now>>

\* Scrape s of key k waits for the Fast lane of the cycle of object o.
WaitForFast(s, k, o) ==
    /\ scrapes' = [scrapes EXCEPT ![s] = [stage |-> "waiting", key |-> k, target |-> o]]
    /\ active_and_pending' = active_and_pending + 1
    /\ UNCHANGED now

\* A scrape that answers at once has its admission back.
RespondAtOnce(r, k, o, x) ==
    /\ Respond(r, k, o, x)
    /\ UNCHANGED <<scrapes, active_and_pending>>

\* Mutant of Attached: nobody asks whether the lane runs.
AttachedAgain(o, x) == IF IsAccepting(x) THEN [x EXCEPT !.requested = @ \cup LanesDue(x)] ELSE x

\* ensure_cycle() when the target has a cycle: a lane that neither is requested
\* nor runs is requested.
Attached(o, x) ==
    IF ~IsAccepting(x) THEN x
    ELSE [x EXCEPT !.requested = @ \cup {l \in LanesDue(x) : ~Running(o, l)}]

Opened(x, q) ==
    [x EXCEPT !.phase = "open", !.requested = LanesDue(x), !.slow_may = "follow", !.coordinator = q]

Denied(q) ==
    active_cycles >= max_concurrent_refreshes \/ lease_count(q) >= max_concurrent_cycles

\* From the registry the scrape found its target in to the wait or the answer.
Collect(s, k, found) ==
    LET o == found.targets[k]
        x == touched(IF registry.targets[k] = o THEN target[o] ELSE NewTarget(k))
        r == WithCoordinator(found, BmcOf[k])
        q == r.bmc_coordinators[BmcOf[k]]
        JoinOrRespond(y) ==
            IF "fast" \in LanesDue(x) /\ IsAccepting(y)
            THEN /\ registry' = r
                 /\ target' = Targets(r, o, y)
                 /\ WaitForFast(s, k, o)
            ELSE RespondAtOnce(r, k, o, y)
    IN  /\ UNCHANGED jobs
        /\ \/ LanesDue(x) = {} /\ RespondAtOnce(found, k, o, x)
           \/ LanesDue(x) # {} /\ x.phase # "none" /\ JoinOrRespond(Attached(o, x))
           \/ LanesDue(x) # {} /\ x.phase = "none" /\ ~Denied(q) /\ JoinOrRespond(Opened(x, q))
           \/ /\ LanesDue(x) # {} /\ x.phase = "none" /\ Denied(q)
              /\ \/ is_usable(x, "fast", now) /\ RespondAtOnce(r, k, o, x)
                 \/ /\ ~is_usable(x, "fast", now)
                    /\ registry' = r
                    /\ target' = Targets(r, o, x)
                    /\ UNCHANGED <<scrapes, active_and_pending, now>>

Admitted(s, k) ==
    /\ scrapes[s].stage = "idle"
    /\ Misses(k)
    /\ try_admit
    /\ Objects \ InUse # {} /\ Coordinators \ CoordinatorsInUse # {}
    /\ \E found \in Obtained(Missed(k), k) : Collect(s, k, found)

\* The finally clause of read_all.
Done(s) ==
    /\ scrapes' = [scrapes EXCEPT ![s] = [stage |-> "idle", key |-> None, target |-> None]]
    /\ active_and_pending' = active_and_pending - 1

\* The wait is over, with the lane or by the scrape's own deadline.
Answer(s) ==
    LET o == scrapes[s].target
    IN  /\ scrapes[s].stage \in {"waiting", "woken"}
        /\ Respond(registry, scrapes[s].key, o, target[o])
        /\ Done(s)
        /\ UNCHANGED jobs

\* The lane failed: PhysicalServer_Query is 0.
AnswerFailure(s) ==
    /\ scrapes[s].stage = "raised"
    /\ Done(s)
    /\ UNCHANGED <<registry, target, jobs, now>>

-----------------------------------------------------------------------------
(* A cycle, as far as the others can see *)

\* The lane future of object o is settled.
Settle(o, stage) ==
    scrapes' = [s \in Scrapes |->
        IF scrapes[s].stage = "waiting" /\ scrapes[s].target = o
        THEN [scrapes[s] EXCEPT !.stage = stage] ELSE scrapes[s]]

SettleLane(o, l, stage) == IF l = "fast" THEN Settle(o, stage) ELSE UNCHANGED scrapes

Aside == UNCHANGED <<active_and_pending, now>>

\* Slow's first job of a cycle follows the Fast job it became due with, and
\* there is none if that fails: see GateSlowForFirstRun and SlowBarred in
\* RefreshCycle.
StartLane(o, l) ==
    /\ target[o].phase = "open"
    /\ l \in target[o].requested
    /\ ~Running(o, l)
    /\ l = "slow" => \/ target[o].slow_may = "start"
                     \/ /\ target[o].slow_may = "follow"
                        /\ "fast" \notin target[o].requested
                        /\ ~Running(o, "fast")
    /\ target' = [target EXCEPT ![o].requested = @ \ {l},
                                ![o].slow_may = IF l = "slow" THEN "start" ELSE @]
    /\ jobs' = jobs \cup {[target |-> o, lane |-> l, read |-> target[o].lane[l],
                           coordinator |-> target[o].coordinator, fetching |-> FALSE, late |-> FALSE]}
    /\ UNCHANGED <<registry, scrapes>> /\ Aside

\* Mutant of RefuseLane: the lane is dropped without an answer.
DropLane(o, l) ==
    /\ \/ target[o].phase \in {"late", "expired"}
       \/ l = "slow" /\ target[o].phase = "open" /\ target[o].slow_may = "not"
    /\ l \in target[o].requested
    /\ target' = [target EXCEPT ![o].requested = @ \ {l}]
    /\ UNCHANGED <<registry, jobs, scrapes>> /\ Aside

\* Too little time is left, or Slow is barred: see Refused in RefreshCycle.
RefuseLane(o, l) ==
    /\ \/ target[o].phase \in {"late", "expired"}
       \/ l = "slow" /\ target[o].phase = "open" /\ target[o].slow_may = "not"
    /\ l \in target[o].requested
    /\ target' = [target EXCEPT ![o].requested = @ \ {l}]
    /\ SettleLane(o, l, "raised")
    /\ UNCHANGED <<registry, jobs>> /\ Aside

\* A fetch begins while the cycle registers requests, and ends at any time.
Fetch(j) ==
    /\ j.fetching \/ (~j.late /\ IsAccepting(target[j.target]))
    /\ jobs' = (jobs \ {j}) \cup {[j EXCEPT !.fetching = ~@]}
    /\ UNCHANGED <<registry, target, scrapes>> /\ Aside

TimePasses(o) ==
    /\ target[o].phase \in {"open", "late"}
    /\ target' = [target EXCEPT ![o].phase = IF @ = "open" THEN "late" ELSE "expired"]
    /\ UNCHANGED <<registry, jobs, scrapes>> /\ Aside

\* The deadline, nothing left to do, or a login that failed.
CycleCloses(o) ==
    /\ \/ target[o].phase = "expired"
       \/ target[o].phase \in {"open", "late"} /\ \A l \in Lanes : ~Running(o, l)
    /\ target' = [target EXCEPT ![o].phase = "closing"]
    /\ UNCHANGED <<registry, jobs, scrapes>> /\ Aside

\* The end of _do_cleanup: outstanding lanes fail, the permits are given back
\* and the target's reference is cleared.  A scrape that was woken by a lane of
\* the cycle needs two turns of the event loop to run, the end of a cycle more.
CycleGone(o) ==
    /\ target[o].phase = "closing"
    /\ \A s \in Scrapes : scrapes[s].target = o => scrapes[s].stage # "woken"
    /\ target' = [target EXCEPT ![o].phase = "none", ![o].requested = {},
                                ![o].slow_may = "follow", ![o].coordinator = None]
    /\ jobs' = {IF OfCycle(j, o) THEN [j EXCEPT !.late = TRUE] ELSE j : j \in jobs}
    /\ Cardinality({j \in jobs' : j.late}) <= MaxLateJobs
    /\ Settle(o, "raised")
    /\ UNCHANGED registry /\ Aside

-----------------------------------------------------------------------------
(* The end of a lane job *)

\* try_reserve_snapshot_bytes_delta()
BytesFit(delta) ==
    delta <= 0 \/ registry.total_snapshot_bytes_used + delta <= max_total_snapshot_bytes

\* try_reserve_candidate_bytes(): see Publish for why no other candidate counts.
CandidateFits(size) == size <= max_in_flight_candidate_bytes

Rejected(j, size) ==
    \/ ~CandidateFits(size)
    \/ size > max_snapshot_bytes_per_lane
    \/ ~BytesFit(size - j.read.serialized_size)

SlowDisabled(j, size) ==
    /\ j.lane = "slow" /\ target[j.target].key \in without_slow
    /\ CandidateFits(size)

\* Mutant of AfterPublication: the cached response stays.
AfterSilentPublication(j, size) ==
    [registry EXCEPT
        !.total_snapshot_bytes_used = NotBelowZero(@ + size - j.read.serialized_size)]

\* The registry after the publication of a snapshot by job j.
AfterPublication(j, size) ==
    [registry EXCEPT
        !.total_snapshot_bytes_used = NotBelowZero(@ + size - j.read.serialized_size),
        !.response_cache = Cache!Invalidate(@, target[j.target].key)]

\* The job comes back with a snapshot.  Its candidate bytes are reserved and
\* released in this step, so that no other candidate is ever in flight with it;
\* a snapshot that is rejected leaves the lane state as the job read it.
Publish(j, size) ==
    /\ is_live(j)
    /\ j.read.generation < MaxGeneration
    /\ target' = [target EXCEPT
          ![j.target].lane[j.lane] = IF Rejected(j, size) THEN failed(j.read) ELSE published(j.read, size),
          ![j.target].slow_disabled = @ \/ SlowDisabled(j, size)]
    /\ registry' = IF Rejected(j, size) THEN registry ELSE AfterPublication(j, size)
    /\ jobs' = jobs \ {j}
    /\ SettleLane(j.target, j.lane, "woken")
    /\ Aside

\* The job fails: the lane state is written back as the job read it.
Fail(j) ==
    /\ is_live(j)
    /\ target' = [target EXCEPT
          ![j.target].lane[j.lane] = failed(j.read),
          ![j.target].slow_may = IF j.lane = "fast" /\ @ = "follow" THEN "not" ELSE @]
    /\ jobs' = jobs \ {j}
    /\ SettleLane(j.target, j.lane, "raised")
    /\ UNCHANGED registry /\ Aside

\* The job ends after its cycle was live: its outcome is discarded.
Discard(j) ==
    /\ ~is_live(j)
    /\ jobs' = jobs \ {j}
    /\ \/ j.late /\ UNCHANGED scrapes
       \/ /\ ~j.late
          /\ \E stage \in {"woken", "raised"} : SettleLane(j.target, j.lane, stage)
    /\ UNCHANGED <<registry, target>> /\ Aside

Tick ==
    /\ now < MaxNow
    /\ now' = now + 1
    /\ UNCHANGED <<registry, target, jobs, scrapes, active_and_pending>>

-----------------------------------------------------------------------------
read_all ==
    \/ \E k \in Keys : ServedFromCache(k) \/ Overloaded(k)
    \/ \E s \in Scrapes : \/ \E k \in Keys : Admitted(s, k)
                          \/ Answer(s)
                          \/ AnswerFailure(s)

CycleStep(o) ==
    \/ \E l \in Lanes : StartLane(o, l) \/ RefuseLane(o, l)
    \/ TimePasses(o)
    \/ CycleCloses(o)
    \/ CycleGone(o)

JobStep(j) ==
    \/ Fetch(j)
    \/ \E size \in SnapshotSizes : Publish(j, size)
    \/ Fail(j)
    \/ Discard(j)

Next ==
    \/ read_all
    \/ \E o \in Objects : CycleStep(o)
    \/ \E j \in jobs : JobStep(j)
    \/ Tick

Spec == Init /\ [][Next]_vars

-----------------------------------------------------------------------------
(* Properties *)

TypeOK ==
    /\ registry.targets \in [Keys -> Objects \cup {None}]
    /\ registry.total_snapshot_bytes_used \in Nat
    /\ registry.bmc_coordinators \in [Bmcs -> Coordinators \cup {None}]
    /\ target \in [Objects -> Target]
    /\ jobs \subseteq Job
    /\ scrapes \in [Scrapes -> [stage : {"idle", "waiting", "woken", "raised"},
                                key : Keys \cup {None}, target : Objects \cup {None}]]
    /\ active_and_pending \in Nat
    /\ now \in 0 .. MaxNow

\* Every byte of the snapshots that some objects hold.
SnapshotBytes(objects) ==
    UNION {{<<o, l>>} \X (1 .. target[o].lane[l].serialized_size) : o \in objects, l \in Lanes}

\* The total of snapshot bytes is the size of what the registered targets hold,
\* within its bound, although it moves by differences to lane states read
\* earlier and by the sizes of targets that are evicted in between
\* (try_reserve_snapshot_bytes_delta, release_snapshot_bytes).  The count of
\* admitted scrapes is that of the scrapes under way, within its bound, on every
\* way out of read_all.
AccountsAreTrue ==
    /\ registry.total_snapshot_bytes_used = Cardinality(SnapshotBytes(Registered(registry)))
    /\ registry.total_snapshot_bytes_used <= max_total_snapshot_bytes
    /\ active_and_pending = Cardinality({s \in Scrapes : scrapes[s].stage # "idle"})
    /\ active_and_pending <= max_parallel_targets

\* What a scrape would be served from the cache is of a registered target and
\* of the lane states it has now; Fast is still fresh, and no Slow data has been
\* left out that is (response_cache.put, invalidate).
CacheIsCurrent ==
    \A k \in Keys : \A e \in CachedBody(k) :
        /\ registry.targets[k] # None
        /\ LET x == target[registry.targets[k]]
           IN  /\ e.body.fast = x.lane["fast"].generation
               /\ is_usable(x, "fast", now)
               /\ e.body.slow_generation # 0 => is_usable(x, "slow", now)
               /\ IF is_usable(x, "slow", now)
                  THEN e.body.slow = x.lane["slow"].generation
                  ELSE e.body.slow \in {0, x.lane["slow"].generation}

\* No target is evicted from under a cycle, a job that may still publish or a
\* scrape that may still cache a body: they all belong to the target that is
\* registered for their key, each under one key (_evict_one_idle_locked).  Nor is
\* a coordinator: every open cycle and every request in flight of a BMC goes
\* through the registered one, so that what the coordinator bounds is bounded for
\* the BMC (get_or_create_coordinator, _remove_locked).
NothingOutlivesItsTarget ==
    /\ \A k, l \in Keys : registry.targets[k] # None /\ registry.targets[k] = registry.targets[l] => k = l
    /\ \A o \in Objects : target[o].phase # "none" => o \in Registered(registry)
    /\ \A j \in jobs : is_live(j) => j.target \in Registered(registry)
    /\ \A s \in Scrapes : scrapes[s].stage \in {"waiting", "woken"} =>
          registry.targets[scrapes[s].key] = scrapes[s].target
    /\ \A o \in Registered(registry) : target[o].phase # "none" =>
          target[o].coordinator = registry.bmc_coordinators[BmcOf[target[o].key]]
    /\ \A j \in jobs : j.fetching => \E b \in Bmcs : registry.bmc_coordinators[b] = j.coordinator

\* A scrape that waits has something to wait for: a cycle that will run its lane
\* or that is about to fail it (ensure_cycle, join_lane).
NoScrapeWaitsInVain ==
    \A s \in Scrapes : scrapes[s].stage = "waiting" =>
        LET o == scrapes[s].target
        IN  \/ target[o].phase = "closing"
            \/ target[o].phase # "none" /\ ("fast" \in target[o].requested \/ Running(o, "fast"))

\* While a target is registered its lane states only ever get newer: a job that
\* ends late does not put back what it read before another cycle published.
LanesOnlyGetNewer ==
    [][\A k \in Keys : \A l \in Lanes :
        LET o == registry.targets[k]
        IN  o # None /\ registry'.targets[k] = o =>
                target'[o].lane[l].generation >= target[o].lane[l].generation]_vars

\* What the others see of the cycle of object o.
RunningLanes(o) == {l \in Lanes : Running(o, l)}

View(o) ==
    [phase |-> target[o].phase,
     requested |-> target[o].requested,
     running |-> RunningLanes(o),
     slow_may |-> target[o].slow_may]

\* The cycle of each target is the one that TargetCycle describes, as every cycle of
\* RefreshCycle is, whatever scrapes, evictions and jobs that outlive their cycle do
\* to the target in the meantime.  The registry knows of no shutdown.
TargetCycle(o) == INSTANCE TargetCycle WITH cycle <- View(o), shut <- FALSE
ImplementsTargetCycle ==
    /\ \A o \in Objects : TargetCycle(o)!CycleInit
    /\ [][\A o \in Objects : View(o)' = View(o) \/ TargetCycle(o)!CycleNext]_vars

\* What the comment on slow_contributed says: what the cache is told of Slow
\* agrees with what of Slow the body was made from.
CacheAgreesWithBody ==
    \A k \in Keys : \A e \in CachedBody(k) : e.body.slow_generation = e.body.slow

=============================================================================

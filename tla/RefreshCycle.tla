---------------------------- MODULE RefreshCycle ----------------------------
(***************************************************************************)
(* The refresh cycles of the targets (core/targets/refresh_context.py),    *)
(* the permits they hold (BmcCoordinator, GlobalRefreshAdmission) and the  *)
(* shutdown that ends them (registry.py, shutdown_drain).                  *)
(*                                                                         *)
(* A cycle is several asyncio tasks: the cycle task (_run_cycle, with the  *)
(* lane scheduler inside), one task per lane, and the cleanup task that    *)
(* every way out of the cycle joins.  What a task does between two         *)
(* suspensions is one step.  cycle_lock is never held across a suspension, *)
(* so a critical section is part of the step that enters it.               *)
(*                                                                         *)
(* A TargetRefreshContext is a record; what a step does to a context is an *)
(* operator from records to records, and an action says which context it   *)
(* is applied to and what becomes of the target and of the permits.        *)
(***************************************************************************)
EXTENDS Integers, FiniteSets

CONSTANTS
    Targets,               \* (serverAddress, config) identities
    Bmcs,                  \* canonical BMC addresses, one BmcCoordinator each
    BmcOf,                 \* the address of each target
    Cycles,                \* contexts; each is opened at most once
    TargetOf,              \* the target a context is opened for
    NoCycle,               \* None
    slow_disabled,         \* targets whose schema has no Slow resources
    max_concurrent_cycles, \* Tuning.Refresh.MaxConcurrentCyclesPerBmc
    max_concurrent_refreshes \* Tuning.Refresh.MaxConcurrentRefreshes

ASSUME RefreshCycleAssumption ==
    /\ IsFiniteSet(Cycles)
    /\ BmcOf \in [Targets -> Bmcs]
    /\ TargetOf \in [Cycles -> Targets]
    /\ NoCycle \notin Cycles
    /\ slow_disabled \subseteq Targets
    /\ max_concurrent_cycles \in Nat
    /\ max_concurrent_refreshes \in Nat

VARIABLES
    context,       \* the TargetRefreshContext of each cycle
    active_cycle,  \* Target.active_cycle; active_cycle_task is set with it
    lease_count,   \* BmcCoordinator.lease_count
    active_cycles, \* GlobalRefreshAdmission.active_cycles
    drain,         \* how far shutdown_drain is
    snapshot       \* the cycles shutdown_drain has to see ended

vars == <<context, active_cycle, lease_count, active_cycles, drain, snapshot>>
permits == <<lease_count, active_cycles>>
shutdown == <<drain, snapshot>>

-----------------------------------------------------------------------------
(* A context *)

Lanes == {"fast", "slow"}

CycleStates == {"unborn", "OPENING", "RUNNING", "CLOSING", "CLOSED", "ABANDONED"}

\* A lane future is pending until it has a result or an exception.
FutureStates == {"none", "pending", "ok", "failed"}

\* A lane task that is asked to stop may still end in its own way.
TaskStates == {"none", "running", "cancelling", "ok", "failed", "cancelled"}

\* Where the cycle task is suspended: before its first step, in login(), in
\* the scheduler's asyncio.wait(), in the scheduler's wait for the end of its
\* cancelled wake_wait task, or in close_cycle().
CycleTaskStates == {"none", "created", "login", "waiting", "reaping", "closing", "done"}

\* How far _do_cleanup is: before its first step, in _commit_to_closing, in the
\* wait for the owned tasks, in the logout, in the closing of session and
\* connector, before its finally clause because it was cancelled, in
\* _clear_target_reference, after it.
CleanupStates == {"none", "created", "committing", "draining", "logout", "disconnecting",
                  "finalizing", "clearing", "cleared", "done"}

\* remaining_seconds() is above _CLEANUP_TOLERANCE_SECONDS, above 0, or not.
Clock == {"early", "late", "expired"}

Context ==
    [cycle_state : CycleStates,
     accepting : BOOLEAN,
     accepting_requests : BOOLEAN,
     requested_lanes : SUBSET Lanes,
     accepted_lanes : SUBSET Lanes,
     lane_futures : [Lanes -> FutureStates],
     lane_tasks : [Lanes -> TaskStates],     \* fast_task and slow_task
     active_requests : SUBSET Lanes,         \* lanes with a registered fetch
     superseded : SUBSET Lanes,              \* see LaneEnds
     cold_fast_failed : BOOLEAN,
     wake_event : BOOLEAN,
     watched : SUBSET Lanes,                 \* the lane tasks in wait_set
     token : BOOLEAN,
     dispatcher_cleared : BOOLEAN,           \* cancel_cycle or abandon_cycle ran
     permits_released : BOOLEAN,
     clock : Clock,
     deadline_lost : BOOLEAN,                \* see DeadlineFires
     cycle_task : CycleTaskStates,
     cancelled : BOOLEAN,                    \* a CancelledError awaits the cycle task
     cleanup_task : CleanupStates]

Unborn ==
    [cycle_state |-> "unborn",
     accepting |-> FALSE,
     accepting_requests |-> FALSE,
     requested_lanes |-> {},
     accepted_lanes |-> {},
     lane_futures |-> [l \in Lanes |-> "none"],
     lane_tasks |-> [l \in Lanes |-> "none"],
     active_requests |-> {},
     superseded |-> {},
     cold_fast_failed |-> FALSE,
     wake_event |-> FALSE,
     watched |-> {},
     token |-> FALSE,
     dispatcher_cleared |-> FALSE,
     permits_released |-> FALSE,
     clock |-> "early",
     deadline_lost |-> FALSE,
     cycle_task |-> "none",
     cancelled |-> FALSE,
     cleanup_task |-> "none"]

is_live(x) == x.cycle_state \in {"OPENING", "RUNNING"} /\ x.clock # "expired"

\* The task of lane l exists and is not done().
Running(x, l) == x.lane_tasks[l] \in {"running", "cancelling"}

Settled(x, l) == x.lane_futures[l] \in {"ok", "failed"}

\* _lane_idle: not queued and not running, so that a new request for l is a
\* new generation.
LaneIdle(x, l) == l \notin x.requested_lanes /\ ~Running(x, l)

FailOutstanding(x) ==
    [x EXCEPT !.lane_futures =
        [l \in Lanes |-> IF l \in x.accepted_lanes /\ @[l] = "pending" THEN "failed" ELSE @[l]]]

FailLaneFutures(x, lanes) ==
    [x EXCEPT !.lane_futures =
        [l \in Lanes |-> IF l \in lanes /\ @[l] = "pending" THEN "failed" ELSE @[l]]]

CancelLanes(x) ==
    [x EXCEPT !.lane_tasks = [l \in Lanes |-> IF @[l] = "running" THEN "cancelling" ELSE @[l]]]

\* Mutant of Attached: wake_event is not set.
AttachedSilently(x, lanes) ==
    [x EXCEPT !.accepted_lanes = @ \cup lanes,
              !.requested_lanes = @ \cup lanes,
              !.lane_futures = [l \in Lanes |-> IF l \in lanes THEN "pending" ELSE @[l]]]

Attached(x, lanes) ==
    [x EXCEPT !.accepted_lanes = @ \cup lanes,
              !.requested_lanes = @ \cup lanes,
              !.lane_futures = [l \in Lanes |-> IF l \in lanes THEN "pending" ELSE @[l]],
              !.wake_event = TRUE]

Opened(lanes) ==
    [Unborn EXCEPT !.cycle_state = "OPENING",
                   !.accepting = TRUE,
                   !.accepting_requests = TRUE,
                   !.requested_lanes = lanes,
                   !.accepted_lanes = lanes,
                   !.lane_futures = [l \in Lanes |-> IF l \in lanes THEN "pending" ELSE "none"],
                   !.cycle_task = "created"]

\* The finally clause of _run_cycle: close_cycle() creates the cleanup task and
\* joins it.
Closing(x) ==
    [x EXCEPT !.cycle_task = "closing",
              !.cancelled = FALSE,
              !.watched = {},
              !.cleanup_task = "created"]

-----------------------------------------------------------------------------
(* One pass of the lane scheduler *)

FastPending(x) == "fast" \in x.requested_lanes /\ ~Running(x, "fast")

\* A cold Fast failure bars Slow from this cycle.
SlowBarred(x) == x.cold_fast_failed /\ "slow" \in x.requested_lanes

SlowRequestedNow(x) == "slow" \in x.requested_lanes /\ ~SlowBarred(x) /\ ~Running(x, "slow")

\* Mutant of GateSlowForFirstRun: Slow waits for a Fast attempt that is
\* requested, not for one that runs.
GateOnPendingFast(x) ==
    /\ SlowRequestedNow(x)
    /\ x.lane_tasks["slow"] = "none"
    /\ FastPending(x)

\* Slow's first attempt waits for the Fast attempt it became due with.
GateSlowForFirstRun(x) ==
    /\ SlowRequestedNow(x)
    /\ x.lane_tasks["slow"] = "none"
    /\ FastPending(x) \/ Running(x, "fast")

PendingLanes(x) ==
    {l \in Lanes : \/ l = "fast" /\ FastPending(x)
                   \/ l = "slow" /\ SlowRequestedNow(x) /\ ~GateSlowForFirstRun(x)}

LanesLeft(x) ==
    x.requested_lanes \ (PendingLanes(x) \cup IF SlowBarred(x) THEN {"slow"} ELSE {})

NothingToDo(x) ==
    /\ PendingLanes(x) = {}
    /\ \A l \in Lanes : ~Running(x, l)
    /\ LanesLeft(x) = {}

\* Mutant of Refused: a lane that comes too late is dropped without an answer.
RefusedBarred(x) == IF SlowBarred(x) THEN {"slow"} ELSE {}

\* Mutant of Started: lanes are started up to the deadline.
StartedUpToTheEnd(x) == IF x.clock = "expired" THEN {} ELSE PendingLanes(x)

\* A pending lane is started, unless too little time remains for any work.
Started(x) == IF x.clock = "early" THEN PendingLanes(x) ELSE {}
Refused(x) == (PendingLanes(x) \ Started(x)) \cup IF SlowBarred(x) THEN {"slow"} ELSE {}

\* The scheduler starts what it can and waits for a lane task or wake_event.
StartLanes(x) ==
    [FailLaneFutures(x, Refused(x)) EXCEPT
        !.requested_lanes = LanesLeft(x),
        !.lane_tasks = [l \in Lanes |-> IF l \in Started(x) THEN "running" ELSE @[l]],
        !.watched = {l \in Lanes : l \in Started(x) \/ Running(x, l)},
        !.cycle_task = "waiting"]

StopAccepting(x) ==
    Closing([FailLaneFutures(x, Refused(x)) EXCEPT !.requested_lanes = LanesLeft(x),
                                                   !.accepting = FALSE])

Pass(x) == IF NothingToDo(x) THEN StopAccepting(x) ELSE StartLanes(x)

\* What the scheduler does with a Fast task that is done, before its next pass.
Collect(x) ==
    [x EXCEPT !.cold_fast_failed =
        @ \/ (x.lane_tasks["fast"] = "failed" /\ x.lane_tasks["slow"] = "none")]

-----------------------------------------------------------------------------
(* The pieces of the cleanup *)

ReleasePermits(x) == [x EXCEPT !.permits_released = TRUE]

\* Mutant of CommittedToClosing: requests are still taken on.
CommittedWithOpenDoor(x) ==
    CancelLanes([x EXCEPT !.accepting = FALSE,
                          !.cycle_state = IF @ = "ABANDONED" THEN @ ELSE "CLOSING",
                          !.cleanup_task = "draining"])

\* Mutant of Finalized: what is outstanding is not failed.
FinalizedWithoutAnswers(x) ==
    ReleasePermits([x EXCEPT !.active_requests = {},
                             !.token = FALSE,
                             !.cleanup_task = "clearing"])

CommittedToClosing(x) ==
    CancelLanes([x EXCEPT !.accepting = FALSE,
                          !.accepting_requests = FALSE,
                          !.cycle_state = IF @ = "ABANDONED" THEN @ ELSE "CLOSING",
                          !.cleanup_task = "draining"])

\* The finally clause of _do_cleanup, up to _clear_target_reference.
Finalized(x) ==
    ReleasePermits(FailOutstanding([x EXCEPT !.active_requests = {},
                                             !.token = FALSE,
                                             !.cleanup_task = "clearing"]))

\* emergency_abandon, with the cancellations shutdown_drain issues with it: a
\* cleanup that has not begun never runs, one that is under way goes on to its
\* finally clause, and one that waits for cycle_lock absorbs the cancellation.
Abandoned(x) ==
    ReleasePermits(FailOutstanding(CancelLanes(
        [x EXCEPT !.accepting = FALSE,
                  !.accepting_requests = FALSE,
                  !.dispatcher_cleared = TRUE,
                  !.active_requests = {},
                  !.token = FALSE,
                  !.cycle_state = "ABANDONED",
                  !.cancelled = x.cycle_task # "done",
                  !.cleanup_task = CASE @ = "created" -> "done"
                                     [] @ \in {"draining", "logout", "disconnecting"} -> "finalizing"
                                     [] OTHER -> @])))

-----------------------------------------------------------------------------
(* What a step does to the shared state *)

Update(c, x) == context' = [context EXCEPT ![c] = x]

\* Mutant of GiveBackPermits: permits_released is not looked at.
GiveBackAgain(gone) ==
    /\ lease_count' = [b \in Bmcs |->
          lease_count[b] - Cardinality({c \in gone : BmcOf[TargetOf[c]] = b})]
    /\ active_cycles' = active_cycles - Cardinality(gone)

\* release_cycle_lease() and GlobalRefreshAdmission.release() for those of the
\* cycles in gone that have not had it done.
GiveBackPermits(gone) ==
    LET holders == {c \in gone : ~context[c].permits_released}
    IN  /\ lease_count' = [b \in Bmcs |->
              lease_count[b] - Cardinality({c \in holders : BmcOf[TargetOf[c]] = b})]
        /\ active_cycles' = active_cycles - Cardinality(holders)

\* Mutant of ClearReferences: whatever cycle the target refers to.
ClearAnyReference(gone) ==
    active_cycle' = [t \in Targets |->
        IF \E c \in gone : TargetOf[c] = t THEN NoCycle ELSE active_cycle[t]]

\* Never a newer cycle's reference.
ClearReferences(gone) ==
    active_cycle' = [t \in Targets |-> IF active_cycle[t] \in gone THEN NoCycle ELSE active_cycle[t]]

Init ==
    /\ context = [c \in Cycles |-> Unborn]
    /\ active_cycle = [t \in Targets |-> NoCycle]
    /\ lease_count = [b \in Bmcs |-> 0]
    /\ active_cycles = 0
    /\ drain = "not begun"
    /\ snapshot = {}

-----------------------------------------------------------------------------
(* ensure_cycle(), called by a scrape for the lanes that are due *)

\* A cycle that no longer accepts is returned as it is, and nothing changes.
Attach(t, due) ==
    LET c == active_cycle[t]
        newly_due == {l \in due : l \notin context[c].accepted_lanes \/ LaneIdle(context[c], l)}
    IN  /\ c # NoCycle
        /\ context[c].accepting
        /\ newly_due # {}
        /\ Update(c, Attached(context[c], newly_due))
        /\ UNCHANGED <<active_cycle, permits, shutdown>>

\* Mutant of Open: an open cycle of the target is not looked for.
OpenRegardless(c, due) ==
    LET t == TargetOf[c]
        b == BmcOf[t]
    IN  /\ context[c].cycle_state = "unborn"
        /\ active_cycles < max_concurrent_refreshes
        /\ lease_count[b] < max_concurrent_cycles
        /\ Update(c, Opened(due))
        /\ active_cycle' = [active_cycle EXCEPT ![t] = c]
        /\ lease_count' = [lease_count EXCEPT ![b] = @ + 1]
        /\ active_cycles' = active_cycles + 1
        /\ UNCHANGED shutdown

\* With either count at its limit ensure_cycle() raises and nothing changes.
Open(c, due) ==
    LET t == TargetOf[c]
        b == BmcOf[t]
    IN  /\ active_cycle[t] = NoCycle
        /\ context[c].cycle_state = "unborn"
        /\ active_cycles < max_concurrent_refreshes
        /\ lease_count[b] < max_concurrent_cycles
        /\ Update(c, Opened(due))
        /\ active_cycle' = [active_cycle EXCEPT ![t] = c]
        /\ lease_count' = [lease_count EXCEPT ![b] = @ + 1]
        /\ active_cycles' = active_cycles + 1
        /\ UNCHANGED shutdown

-----------------------------------------------------------------------------
(* The cycle task *)

Local(c, x) ==
    /\ Update(c, x)
    /\ UNCHANGED <<active_cycle, permits, shutdown>>

\* A task that is cancelled before its first step runs none of its body.
CycleTaskStarts(c) ==
    LET x == context[c]
    IN  /\ x.cycle_task = "created"
        /\ Local(c, IF x.cancelled
                    THEN [x EXCEPT !.cycle_task = "done", !.cancelled = FALSE]
                    ELSE [x EXCEPT !.cycle_task = "login", !.cycle_state = "RUNNING"])

\* The done-callback of such a task.
FinalizeIfNeverStarted(c) ==
    LET x == context[c]
    IN  /\ x.cycle_task = "done"
        /\ x.cycle_state = "OPENING"
        /\ Update(c, ReleasePermits(FailOutstanding([x EXCEPT !.cycle_state = "ABANDONED"])))
        /\ GiveBackPermits({c})
        /\ ClearReferences({c})
        /\ UNCHANGED shutdown

\* Mutant of LoginReturns: the token is kept whenever it comes.
LateTokenKept(c) ==
    LET x == context[c]
        y == [x EXCEPT !.token = TRUE, !.cancelled = FALSE]
    IN  /\ x.cycle_task = "login"
        /\ Local(c, IF is_live(x) THEN Pass(y) ELSE Closing(FailOutstanding(y)))

\* login() returns, in time or late, whether or not it was asked to stop: its
\* token is kept, and the scheduler makes its first pass, only while the cycle
\* is live.
LoginReturns(c) ==
    LET x == context[c]
        y == [x EXCEPT !.token = is_live(x), !.cancelled = FALSE]
    IN  /\ x.cycle_task = "login"
        /\ Local(c, IF is_live(x) THEN Pass(y) ELSE Closing(FailOutstanding(y)))

\* login() raises, or its deadline passes.
LoginFails(c) ==
    LET x == context[c]
    IN  /\ x.cycle_task = "login"
        /\ Local(c, Closing(FailOutstanding(x)))

LoginCancelled(c) ==
    LET x == context[c]
    IN  /\ x.cycle_task = "login"
        /\ x.cancelled
        /\ Local(c, Closing(x))

\* The scheduler wakes up because wake_event is set: no suspension before the
\* next pass.
WakeByEvent(c) ==
    LET x == context[c]
    IN  /\ x.cycle_task = "waiting"
        /\ ~x.cancelled
        /\ x.wake_event
        /\ Local(c, Pass(Collect([x EXCEPT !.wake_event = FALSE])))

\* It wakes up because a lane task is done: it cancels wake_wait and suspends
\* once more, until that task has ended.
WakeByLane(c) ==
    LET x == context[c]
    IN  /\ x.cycle_task = "waiting"
        /\ ~x.cancelled
        /\ \E l \in x.watched : ~Running(x, l)
        /\ Local(c, [x EXCEPT !.cycle_task = "reaping"])

\* The end of wake_wait is a CancelledError that the scheduler drops, and with
\* it any other that was meant for the cycle task.
Reap(c) ==
    LET x == context[c]
    IN  /\ x.cycle_task = "reaping"
        /\ Local(c, Pass(Collect([x EXCEPT !.cancelled = FALSE])))

SchedulerCancelled(c) ==
    LET x == context[c]
    IN  /\ x.cycle_task = "waiting"
        /\ x.cancelled
        /\ Local(c, Closing(x))

\* wait_for() cancels the scheduler at the deadline, once.  The scheduler that
\* waits for work ends; one that waits for wake_wait to end does not notice.
DeadlineFires(c) ==
    LET x == context[c]
    IN  /\ x.clock = "expired"
        /\ ~x.deadline_lost
        /\ \/ /\ x.cycle_task = "waiting"
              /\ Local(c, Closing(FailOutstanding(x)))
           \/ /\ x.cycle_task = "reaping"
              /\ Local(c, [x EXCEPT !.deadline_lost = TRUE])

\* close_cycle() returns, or its caller is cancelled; the cleanup is shielded.
CycleTaskEnds(c) ==
    LET x == context[c]
    IN  /\ x.cycle_task = "closing"
        /\ x.cancelled \/ x.cleanup_task = "done"
        /\ Local(c, [x EXCEPT !.cycle_task = "done", !.cancelled = FALSE])

\* Time passes for a cycle, for as long as one of its tasks looks at the clock.
ClockTicks(c) ==
    LET x == context[c]
    IN  /\ \/ x.cycle_task \in {"created", "login", "waiting", "reaping"}
           \/ x.cleanup_task \in {"created", "committing", "draining"}
        /\ \/ x.clock = "early" /\ Local(c, [x EXCEPT !.clock = "late"])
           \/ x.clock = "late" /\ Local(c, [x EXCEPT !.clock = "expired"])

-----------------------------------------------------------------------------
(* The lane tasks *)

\* run_as_cycle_owned_request(): a fetch registers itself, or is refused.
BeginFetch(c, l) ==
    LET x == context[c]
    IN  /\ Running(x, l)
        /\ l \notin x.active_requests
        /\ x.accepting_requests
        /\ Local(c, [x EXCEPT !.active_requests = @ \cup {l}])

EndFetch(c, l) ==
    LET x == context[c]
    IN  /\ Running(x, l)
        /\ l \in x.active_requests
        /\ Local(c, [x EXCEPT !.active_requests = @ \ {l}])

\* The end of run_lane and _run_one_lane.  A job writes the lane state of the
\* target from the one it read when it began; every other job of the lane
\* still under way for the target has then read one that is superseded.
LaneEnds(c, l, result, publishes) ==
    LET x == context[c]
        overtaken == {d \in Cycles \ {c} :
                        publishes /\ TargetOf[d] = TargetOf[c] /\ Running(context[d], l)}
    IN  /\ Running(x, l)
        /\ l \notin x.active_requests
        /\ context' = [d \in Cycles |->
              IF d = c
              THEN [x EXCEPT !.lane_tasks[l] = result,
                             !.lane_futures[l] = IF @ = "pending" THEN result ELSE @,
                             !.superseded = @ \ {l}]
              ELSE IF d \in overtaken
                   THEN [context[d] EXCEPT !.superseded = @ \cup {l}]
                   ELSE context[d]]
        /\ UNCHANGED <<active_cycle, permits, shutdown>>

\* Mutant of LaneSucceeds: a result is published whenever it comes.
LaneSucceedsLate(c, l) == LaneEnds(c, l, "ok", TRUE)

\* A result that comes when the cycle is no longer live is dropped.
LaneSucceeds(c, l) == LaneEnds(c, l, "ok", is_live(context[c]))

\* Only a FastLaneError or a SlowLaneError is recorded in the lane state.
LaneFails(c, l) ==
    \E recorded \in BOOLEAN : LaneEnds(c, l, "failed", recorded /\ is_live(context[c]))

\* The future of the lane is left as it is.
LaneCancelled(c, l) ==
    LET x == context[c]
    IN  /\ x.lane_tasks[l] = "cancelling"
        /\ Local(c, [x EXCEPT !.lane_tasks[l] = "cancelled",
                              !.active_requests = @ \ {l},
                              !.superseded = @ \ {l}])

-----------------------------------------------------------------------------
(* The cleanup task: _do_cleanup *)

CleanupStarts(c) ==
    LET x == context[c]
    IN  /\ x.cleanup_task = "created"
        /\ Local(c, [x EXCEPT !.cleanup_task = "committing"])

\* From here on no lane and no request is taken on, and those the cycle owns
\* are cancelled.
CommitToClosing(c) ==
    /\ context[c].cleanup_task = "committing"
    /\ Local(c, CommittedToClosing(context[c]))

\* The wait for the owned tasks is bounded by the cycle's deadline, or by the
\* one of the shutdown.  A token may have come without a logout URI.
DrainEnds(c) ==
    LET x == context[c]
    IN  /\ x.cleanup_task = "draining"
        /\ \/ \A l \in Lanes : ~Running(x, l)
           \/ x.clock = "expired"
           \/ drain # "not begun"
        /\ \/ x.token /\ Local(c, [x EXCEPT !.cleanup_task = "logout"])
           \/ Local(c, [x EXCEPT !.cleanup_task = "disconnecting", !.dispatcher_cleared = TRUE])

\* Logged out, or not, within the time left; then cancel_cycle().
LogoutEnds(c) ==
    LET x == context[c]
    IN  /\ x.cleanup_task = "logout"
        /\ Local(c, [x EXCEPT !.cleanup_task = "disconnecting", !.dispatcher_cleared = TRUE])

Finalize(c) ==
    /\ context[c].cleanup_task \in {"disconnecting", "finalizing"}
    /\ Update(c, Finalized(context[c]))
    /\ GiveBackPermits({c})
    /\ UNCHANGED <<active_cycle, shutdown>>

ClearTargetReference(c) ==
    LET x == context[c]
    IN  /\ x.cleanup_task = "clearing"
        /\ Update(c, [x EXCEPT !.cleanup_task = "cleared"])
        /\ ClearReferences({c})
        /\ UNCHANGED <<permits, shutdown>>

CleanupEnds(c) ==
    LET x == context[c]
    IN  /\ x.cleanup_task = "cleared"
        /\ Local(c, [x EXCEPT !.cleanup_task = "done",
                              !.cycle_state = IF @ = "ABANDONED" THEN @ ELSE "CLOSED"])

-----------------------------------------------------------------------------
(* shutdown_drain() *)

ShutdownBegins ==
    /\ drain = "not begun"
    /\ snapshot' = {c \in Cycles : active_cycle[TargetOf[c]] = c}
    /\ drain' = IF snapshot' = {} THEN "over" ELSE "draining"
    /\ context' = [c \in Cycles |->
          IF c \in snapshot' /\ context[c].cycle_task # "done"
          THEN [context[c] EXCEPT !.cancelled = TRUE]
          ELSE context[c]]
    /\ UNCHANGED <<active_cycle, permits>>

\* _owned_pending asks about owned tasks and requests too; a cleanup that is done
\* has let go of all of them.
Drained(x) == x.cycle_task = "done" /\ x.cleanup_task \in {"none", "done"}

\* Every cycle of the snapshot is drained, or the grace period is over and the
\* others are abandoned.
ShutdownEnds ==
    LET left == {c \in snapshot : ~Drained(context[c])}
    IN  /\ drain = "draining"
        /\ drain' = "over"
        /\ context' = [c \in Cycles |-> IF c \in left THEN Abandoned(context[c]) ELSE context[c]]
        /\ GiveBackPermits(left)
        /\ ClearReferences(left)
        /\ snapshot' = {}

-----------------------------------------------------------------------------
\* The lanes a scrape of t may find due.
LanesOf(t) == IF t \in slow_disabled THEN {"fast"} ELSE Lanes

ensure_cycle ==
    \/ \E t \in Targets : \E due \in (SUBSET LanesOf(t)) \ {{}} : Attach(t, due)
    \/ \E c \in Cycles : \E due \in (SUBSET LanesOf(TargetOf[c])) \ {{}} : Open(c, due)

CycleTaskStep(c) ==
    \/ CycleTaskStarts(c)
    \/ LoginReturns(c)
    \/ LoginFails(c)
    \/ LoginCancelled(c)
    \/ WakeByEvent(c)
    \/ WakeByLane(c)
    \/ Reap(c)
    \/ SchedulerCancelled(c)
    \/ CycleTaskEnds(c)

LaneStep(c, l) ==
    \/ BeginFetch(c, l)
    \/ EndFetch(c, l)
    \/ LaneSucceeds(c, l)
    \/ LaneFails(c, l)
    \/ LaneCancelled(c, l)

CleanupStep(c) ==
    \/ CleanupStarts(c)
    \/ CommitToClosing(c)
    \/ DrainEnds(c)
    \/ LogoutEnds(c)
    \/ Finalize(c)
    \/ ClearTargetReference(c)
    \/ CleanupEnds(c)

Next ==
    \/ ensure_cycle
    \/ \E c \in Cycles :
          \/ CycleTaskStep(c)
          \/ FinalizeIfNeverStarted(c)
          \/ DeadlineFires(c)
          \/ ClockTicks(c)
          \/ \E l \in Lanes : LaneStep(c, l)
          \/ CleanupStep(c)
    \/ ShutdownBegins
    \/ ShutdownEnds

\* Time passes, timers and callbacks fire, and a task that can run does; login,
\* logout and close() are awaited under wait_for() and so come back.  No lane
\* job is assumed to end, or to heed its cancellation, and nobody has to
\* scrape or to shut down.
Fairness ==
    \A c \in Cycles :
        /\ WF_vars(CycleTaskStep(c))
        /\ WF_vars(FinalizeIfNeverStarted(c))
        /\ WF_vars(DeadlineFires(c))
        /\ WF_vars(ClockTicks(c))
        /\ WF_vars(CleanupStep(c))

Spec == Init /\ [][Next]_vars
FairSpec == Spec /\ Fairness

\* Every lane job ends, too: each of its fetches is bounded by the deadline.
FairLanesSpec ==
    /\ FairSpec
    /\ \A c \in Cycles : \A l \in Lanes :
        WF_vars(EndFetch(c, l) \/ LaneSucceeds(c, l) \/ LaneFails(c, l) \/ LaneCancelled(c, l))

-----------------------------------------------------------------------------
(* Properties *)

Born(c) == context[c].cycle_state # "unborn"
Holding(c) == Born(c) /\ ~context[c].permits_released

TypeOK ==
    /\ context \in [Cycles -> Context]
    /\ active_cycle \in [Targets -> Cycles \cup {NoCycle}]
    /\ lease_count \in [Bmcs -> Int]
    /\ active_cycles \in Int
    /\ drain \in {"not begun", "draining", "over"}
    /\ snapshot \subseteq Cycles

\* Every permit is given back once, on whichever of the four ways a cycle ends
\* (cleanup, cancelled cleanup, abandonment, never started) and in whichever
\* order they overlap: the two counts are the cycles that still hold theirs,
\* and stay in bounds (_release_permits_once, release_cycle_lease).
PermitAccounting ==
    /\ active_cycles = Cardinality({c \in Cycles : Holding(c)})
    /\ active_cycles <= max_concurrent_refreshes
    /\ \A b \in Bmcs :
          /\ lease_count[b] = Cardinality({c \in Cycles : Holding(c) /\ BmcOf[TargetOf[c]] = b})
          /\ lease_count[b] <= max_concurrent_cycles

\* A cycle has nothing left when it gives its permits back, and never regains
\* any of it, although its login or a lane job may still be running: no
\* credential, no open door for lanes or requests, nobody waiting in the
\* dispatcher, no follower without an answer (_do_cleanup, emergency_abandon,
\* _finalize_if_never_started, try_set_login_result).
ReleasedHoldsNothing ==
    \A c \in Cycles :
        LET x == context[c]
        IN  x.permits_released =>
                /\ ~x.token
                /\ x.accepting_requests => x.cycle_task = "done"
                /\ x.accepting => x.cycle_task = "done"
                /\ x.dispatcher_cleared \/ x.lane_tasks = [l \in Lanes |-> "none"]
                /\ \A l \in x.accepted_lanes : Settled(x, l)

\* A target refers to its one open cycle: a cycle that holds permits is the one
\* its target refers to, so there are never two, and a cleanup or an
\* abandonment that comes late clears no newer cycle's reference (ensure_cycle,
\* _clear_target_reference, emergency_abandon).
OpenCycleIsReferenced ==
    /\ \A c \in Cycles : Holding(c) => active_cycle[TargetOf[c]] = c
    /\ \A t \in Targets : active_cycle[t] # NoCycle =>
          TargetOf[active_cycle[t]] = t /\ Born(active_cycle[t])

\* No follower is left with a future that nobody will settle: the future a new
\* generation replaces has its answer already, and so does every future of a
\* cycle that is closed (_lane_idle, _run_one_lane).
NoOrphanedFuture ==
    \A c \in Cycles :
        LET x == context[c]
        IN  /\ x.accepting => \A l \in x.accepted_lanes : LaneIdle(x, l) => Settled(x, l)
            /\ x.cycle_state \in {"CLOSED", "ABANDONED"} => \A l \in x.accepted_lanes : Settled(x, l)

WaitsForAReason(x) ==
    x.cycle_task = "waiting" =>
        \/ x.wake_event
        \/ \E l \in x.watched : ~Running(x, l)
        \/ x.requested_lanes = {}
        \/ x.requested_lanes = {"slow"} /\ Running(x, "fast")
        \/ x.clock # "early"

\* A lane that is attached while the scheduler is about to wait, or about to
\* wake up, is not forgotten: in time, the scheduler never waits with a lane
\* requested that it could start, unless it is about to be woken
\* (_run_lane_scheduler, wake_event).
NoLostWakeUp == \A c \in Cycles : WaitsForAReason(context[c])

\* Once the cleanup has taken stock of what the cycle owns, no lane job goes on
\* without having been asked to stop, and no fetch of another one is
\* registered (_commit_to_closing_sync, run_as_cycle_owned_request).
NothingEscapesCleanup ==
    \A c \in Cycles :
        LET x == context[c]
        IN  x.cleanup_task \notin {"none", "created", "committing"} =>
                /\ \A l \in Lanes : x.lane_tasks[l] # "running"
                /\ \A l \in x.active_requests : x.lane_tasks[l] = "cancelling"
                /\ x.cleanup_task \in {"clearing", "cleared", "done"} => x.active_requests = {}

\* A job that may still publish read the lane state the target has: nothing a
\* job of an older cycle does, however late, is lost or undone by it or undoes
\* what it builds on (run_lane's is_live() fence).
LiveJobsAreCurrent ==
    \A c \in Cycles : \A l \in Lanes :
        is_live(context[c]) /\ Running(context[c], l) => l \notin context[c].superseded

\* Slow never starts cold beside a Fast attempt, nor after one that failed:
\* Fast's first attempt settles the bootstrap that Slow depends on
\* (gate_slow_for_first_run, cold_fast_failed).
SlowNeverStartsCold ==
    [][\A c \in Cycles :
        context[c].lane_tasks["slow"] = "none" /\ context'[c].lane_tasks["slow"] # "none" =>
            context'[c].lane_tasks["fast"] \in {"none", "ok"}]_vars

\* How the cycle task, the cleanup task and the state of a cycle go together.
PastCommit(x) == x.cleanup_task \notin {"none", "created", "committing"}
NoLaneEver(x) == \A l \in Lanes : x.lane_tasks[l] = "none"

StagesAgree(x) ==
    /\ x.cycle_state = "unborn" => x = Unborn
    /\ x.cycle_task = "none" => x.cycle_state = "unborn"
    /\ x.cycle_task \in {"created", "login", "waiting", "reaping"} => x.cleanup_task = "none"
    /\ x.cycle_task = "created" => x.cycle_state = "OPENING" \/ (x.cycle_state = "ABANDONED" /\ x.cancelled)
    /\ x.cycle_task \in {"created", "login"} => NoLaneEver(x)
    /\ x.cycle_state = "OPENING" => x.cycle_task \in {"created", "done"} /\ x.cleanup_task = "none" /\ NoLaneEver(x) /\ ~x.token
    /\ PastCommit(x) => ~x.accepting /\ ~x.accepting_requests /\ x.cycle_state \in {"CLOSING", "CLOSED", "ABANDONED"}
    /\ x.cleanup_task \in {"disconnecting", "finalizing"} => x.dispatcher_cleared

\* A lane is accepted before it is requested, requested before it runs; what
\* belongs to its task ends with it; and a lane is cancelled only when the
\* cycle takes on no more.
LanesAgree(x) ==
    /\ x.requested_lanes \subseteq x.accepted_lanes
    /\ x.active_requests \cup x.superseded \subseteq {l \in Lanes : Running(x, l)}
    /\ \A l \in Lanes :
          /\ Running(x, l) => l \in x.accepted_lanes \ x.requested_lanes
          /\ l \in x.accepted_lanes <=> x.lane_futures[l] # "none"
          /\ x.accepting => x.lane_tasks[l] \notin {"cancelling", "cancelled"}
          /\ x.accepting /\ x.lane_futures[l] = "pending" => l \in x.requested_lanes \/ Running(x, l)

\* What giving the permits back stands for.
ReleaseAgrees(x) ==
    /\ x.permits_released =>
          /\ ~x.token
          /\ x.cycle_state \in {"CLOSING", "CLOSED", "ABANDONED"}
          /\ \A l \in Lanes : x.lane_futures[l] # "pending"
          /\ \/ x.dispatcher_cleared /\ ~x.accepting /\ ~x.accepting_requests
             \/ x.cycle_task = "done" /\ x.cleanup_task = "none" /\ NoLaneEver(x)
    /\ x.cleanup_task \in {"clearing", "cleared", "done"} => x.permits_released
    /\ x.cycle_state \in {"CLOSED", "ABANDONED"} => x.permits_released

\* The requests of a lane task are stopped with it.
RequestsAgree(x) ==
    PastCommit(x) =>
        /\ \A l \in Lanes : x.lane_tasks[l] # "running"
        /\ x.cleanup_task \in {"clearing", "cleared", "done"} => x.active_requests = {}

\* What the scheduler waits for.
WaitAgrees(x) ==
    /\ \A l \in x.watched : x.lane_tasks[l] # "none"
    /\ x.cycle_task = "waiting" => \A l \in Lanes : Running(x, l) => l \in x.watched
    /\ x.lane_tasks["slow"] = "none" =>
          /\ x.cycle_task = "reaping" => x.lane_tasks["fast"] \in {"ok", "failed"}
          /\ x.lane_tasks["fast"] \in {"cancelling", "cancelled"} =>
                \/ x.cycle_task \in {"closing", "done"}
                \/ x.cycle_task = "waiting" /\ x.cancelled

\* A job that may still publish is up to date.
JobsAgree(x) == is_live(x) => x.superseded = {}

Consistent(x) ==
    /\ StagesAgree(x)
    /\ LanesAgree(x)
    /\ ReleaseAgrees(x)
    /\ RequestsAgree(x)
    /\ WaitAgrees(x)
    /\ WaitsForAReason(x)
    /\ JobsAgree(x)

\* The cycle a target refers to is one it may still attach lanes to only while
\* the cycle holds its permits.
ReferencesAgree ==
    /\ \A t \in Targets :
          active_cycle[t] # NoCycle /\ context[active_cycle[t]].accepting =>
              ~context[active_cycle[t]].permits_released
    /\ \A c \in snapshot : Born(c)

\* The inductive invariant behind the invariants above.
IInv ==
    /\ TypeOK
    /\ \A c \in Cycles : Consistent(context[c])
    /\ PermitAccounting
    /\ OpenCycleIsReferenced
    /\ ReferencesAgree

\* Opening and closing cycles takes and gives back permits as CyclePermits
\* promises.
CyclePermits == INSTANCE CyclePermits WITH
    PerBmc <- max_concurrent_cycles,
    InAll <- max_concurrent_refreshes,
    holding <- {c \in Cycles : Holding(c)},
    spent <- {c \in Cycles : context[c].permits_released}
ImplementsCyclePermits == CyclePermits!PermitsSpec

\* What the scrapes of a target and the lane jobs see of a cycle.
PhaseOf(x) ==
    IF ~x.accepting THEN "closing" ELSE IF x.clock = "early" THEN "open" ELSE x.clock

SlowMay(x) ==
    IF x.lane_tasks["slow"] # "none" THEN "start"
    ELSE IF x.cold_fast_failed \/ x.lane_tasks["fast"] = "failed" THEN "not" ELSE "follow"

RunningLanes(x) == {l \in Lanes : Running(x, l)}

View(x) ==
    [phase |-> PhaseOf(x),
     requested |-> x.requested_lanes,
     running |-> RunningLanes(x),
     slow_may |-> SlowMay(x)]

Unseen == [phase |-> "none", requested |-> {}, running |-> {}, slow_may |-> "follow"]
Seen(t) == IF active_cycle[t] = NoCycle THEN Unseen ELSE View(context[active_cycle[t]])
Begun == drain # "not begun"

\* Each target has the cycle that TargetCycle describes: no lane is lost between the
\* request and its job or its refusal, none is started late, twice or, for Slow, before
\* its turn, nothing closes without a reason, and a target sees of an older cycle nothing
\* once it has a newer one, over all the tasks a cycle is made of, their cancellations
\* and the shutdown (ensure_cycle, _run_lane_scheduler, _do_cleanup, emergency_abandon).
TargetCycle(t) == INSTANCE TargetCycle WITH cycle <- Seen(t), shut <- Begun
ImplementsTargetCycle ==
    /\ \A t \in Targets : TargetCycle(t)!CycleInit
    /\ [][\A t \in Targets : [TargetCycle(t)!CycleNext]_(TargetCycle(t)!seen)]_vars

\* A cycle is cancelled by the shutdown only, its scheduler runs while it accepts
\* lanes, and a cycle that still does when the scheduler has ended has a reason to close.
EndsForAReason(x, begun) ==
    /\ x.cancelled => begun
    /\ x.cycle_state = "ABANDONED" => begun
    /\ x.cycle_task \in {"created", "login", "waiting", "reaping"} =>
          x.accepting \/ x.cycle_state = "ABANDONED"
    /\ x.cycle_task \in {"closing", "done"} /\ x.accepting =>
          begun \/ x.clock = "expired" \/ \A l \in Lanes : ~Running(x, l)
    /\ x.cycle_task = "done" => begun \/ x.cleanup_task # "none"
    /\ x.cold_fast_failed => x.lane_tasks["slow"] = "none"

\* What is needed beside IInv for ImplementsTargetCycle.
SeenInv ==
    /\ \A c \in Cycles : EndsForAReason(context[c], Begun)
    /\ \A t \in Targets : active_cycle[t] # NoCycle => context[active_cycle[t]].cycle_state # "ABANDONED"

\* Every follower gets an answer and every cycle lets its permits go, even when
\* a lane job hangs for ever; see NoFollowerHangs for the one way out.
EveryCycleIsWoundUp ==
    /\ \A c \in Cycles : \A l \in Lanes :
          context[c].lane_futures[l] = "pending" ~>
              context[c].lane_futures[l] # "pending" \/ context[c].deadline_lost
    /\ \A c \in Cycles : Holding(c) ~> ~Holding(c) \/ context[c].deadline_lost

\* What the docstring of _fail_all_outstanding_lanes says: no follower can hang
\* waiting on a lane this cycle will never run.
NoFollowerHangs ==
    \A c \in Cycles : \A l \in Lanes :
        context[c].lane_futures[l] = "pending" ~> context[c].lane_futures[l] # "pending"

=============================================================================

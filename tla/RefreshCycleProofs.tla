------------------------- MODULE RefreshCycleProofs -------------------------
(***************************************************************************)
(* The invariants of RefreshCycle.tla, for every number of cycles, targets *)
(* and permits.                                                            *)
(*                                                                         *)
(* IInv says of each context that its fields go together (Consistent), and *)
(* of the shared state that the permits add up and that a target refers to *)
(* its open cycle.  Nearly every step changes one context only: the lemmas *)
(* whose names end in Local show, on records alone, that such a step keeps *)
(* a context consistent and lets go of nothing.  For TargetCycle the same  *)
(* is done with SeenInv and with what a step shows of a context: nothing,  *)
(* or a step of the abstract cycle (Orderly).                              *)
(***************************************************************************)
EXTENDS RefreshCycle, FiniteSetTheorems, TLAPS

\* A consistent context, but for what the scheduler waits for: what a context
\* is in the middle of a step.
Sound(x) ==
    /\ x \in Context
    /\ StagesAgree(x)
    /\ LanesAgree(x)
    /\ ReleaseAgrees(x)
    /\ RequestsAgree(x)
    /\ WaitAgrees(x)
    /\ JobsAgree(x)

InScheduler(x) == x.cycle_task \in {"login", "waiting", "reaping"}

\* A step from x to y that takes and gives back nothing.
Kept(x, y) ==
    /\ y \in Context
    /\ Consistent(y)
    /\ x.cycle_state # "unborn"
    /\ y.cycle_state # "unborn"
    /\ y.permits_released = x.permits_released
    /\ y.accepting => x.accepting

\* Between two steps a context is sound.
LEMMA ConsistentIsSound ==
    ASSUME NEW x \in Context, Consistent(x)
    PROVE  Sound(x)
  BY DEF Consistent, Sound

\* A context whose scheduler is not waiting needs no reason to wait.
LEMMA SoundIsConsistent ==
    ASSUME NEW x, Sound(x), x.cycle_task # "waiting"
    PROVE  x \in Context /\ Consistent(x)
  BY DEF Consistent, Sound, WaitsForAReason

\* The first step of the cycle task (CycleTaskStarts).
LEMMA StartsLocal ==
    ASSUME NEW x \in Context, Consistent(x), x.cycle_task = "created",
           NEW y, y = IF x.cancelled
                      THEN [x EXCEPT !.cycle_task = "done", !.cancelled = FALSE]
                      ELSE [x EXCEPT !.cycle_task = "login", !.cycle_state = "RUNNING"]
    PROVE  Kept(x, y)
  <1>1. y \in Context
    BY DEF Context, CycleTaskStates, CycleStates
  <1>2. StagesAgree(y)
    BY DEF Context, Consistent, StagesAgree, ReleaseAgrees, PastCommit, NoLaneEver, Unborn
  <1>3. LanesAgree(y)
    BY DEF Context, Consistent, LanesAgree, Running
  <1>4. ReleaseAgrees(y)
    BY DEF Context, Consistent, StagesAgree, ReleaseAgrees, NoLaneEver
  <1>5. RequestsAgree(y)
    BY DEF Context, Consistent, RequestsAgree, PastCommit
  <1>6. WaitAgrees(y)
    BY DEF Context, Consistent, StagesAgree, WaitAgrees, Running, NoLaneEver, Lanes
  <1>7. WaitsForAReason(y)
    BY DEF Context, WaitsForAReason
  <1>8. JobsAgree(y)
    BY DEF Context, Consistent, StagesAgree, LanesAgree, JobsAgree, NoLaneEver, Running
  <1>9. /\ x.cycle_state # "unborn" /\ y.cycle_state # "unborn"
        /\ y.permits_released = x.permits_released
        /\ y.accepting = x.accepting
    BY DEF Context, Consistent, StagesAgree, Unborn
  <1> QED
    BY <1>1, <1>2, <1>3, <1>4, <1>5, <1>6, <1>7, <1>8, <1>9 DEF Consistent, Kept

\* What a pass may find changed in the fields that are about nothing but the
\* cycle task: those a step clears or sets on its way to a pass.
LEMMA BookkeepingSound ==
    ASSUME NEW x, Sound(x), InScheduler(x),
           NEW tk \in BOOLEAN, tk => x.token \/ is_live(x),
           NEW cold \in BOOLEAN, NEW wake \in BOOLEAN, NEW cn \in BOOLEAN,
           x.cycle_task = "waiting" => (cn <=> x.cancelled),
           NEW y, y = [x EXCEPT !.token = tk, !.cold_fast_failed = cold,
                                !.wake_event = wake, !.cancelled = cn]
    PROVE  Sound(y) /\ InScheduler(y)
  <1>0. x \in Context
    BY DEF Sound
  <1>a. [x EXCEPT !.token = tk] \in Context
    BY <1>0 DEF Context
  <1>b. [x EXCEPT !.token = tk, !.cold_fast_failed = cold] \in Context
    BY <1>a DEF Context
  <1>c. [x EXCEPT !.token = tk, !.cold_fast_failed = cold, !.wake_event = wake] \in Context
    BY <1>b DEF Context
  <1>1. y \in Context
    BY ZenonT(60), <1>c DEF Context
  <1>2. StagesAgree(y)
    BY DEF Sound, Context, StagesAgree, PastCommit, NoLaneEver, InScheduler, Unborn
  <1>3. LanesAgree(y)
    BY DEF Sound, Context, LanesAgree, Running
  <1>4. ReleaseAgrees(y)
    BY DEF Sound, Context, ReleaseAgrees, NoLaneEver, is_live
  <1>5. RequestsAgree(y)
    BY DEF Sound, Context, RequestsAgree, PastCommit
  <1>6. WaitAgrees(y)
    BY DEF Sound, Context, WaitAgrees, Running, InScheduler
  <1>7. JobsAgree(y)
    BY DEF Sound, Context, JobsAgree, is_live
  <1>8. InScheduler(y)
    BY DEF Sound, Context, InScheduler
  <1> QED
    BY <1>1, <1>2, <1>3, <1>4, <1>5, <1>6, <1>7, <1>8 DEF Sound

\* Failing the futures of some lanes (_fail_lane_future) changes only these.
LEMMA FailLaneFuturesFields ==
    ASSUME NEW x \in Context, NEW lanes, NEW y, y = FailLaneFutures(x, lanes)
    PROVE  /\ y \in Context
           /\ y = [x EXCEPT !.lane_futures = y.lane_futures]
           /\ \A l \in Lanes : y.lane_futures[l] =
                 IF l \in lanes /\ x.lane_futures[l] = "pending" THEN "failed" ELSE x.lane_futures[l]
  BY DEF FailLaneFutures, Context, FutureStates

\* So does failing all that are outstanding (_fail_all_outstanding_lanes).
LEMMA FailOutstandingFields ==
    ASSUME NEW x \in Context, NEW y, y = FailOutstanding(x)
    PROVE  /\ y \in Context
           /\ y = [x EXCEPT !.lane_futures = y.lane_futures]
           /\ \A l \in Lanes : y.lane_futures[l] =
                 IF l \in x.accepted_lanes /\ x.lane_futures[l] = "pending"
                 THEN "failed" ELSE x.lane_futures[l]
  BY DEF FailOutstanding, Context, FutureStates

\* Failing what is outstanding leaves a context sound.
LEMMA FailOutstandingSound ==
    ASSUME NEW x, Sound(x)
    PROVE  Sound(FailOutstanding(x))
  <1> DEFINE y == FailOutstanding(x)
  <1>0. /\ y \in Context
        /\ y = [x EXCEPT !.lane_futures = y.lane_futures]
        /\ \A l \in Lanes : y.lane_futures[l] =
              IF l \in x.accepted_lanes /\ x.lane_futures[l] = "pending"
              THEN "failed" ELSE x.lane_futures[l]
    BY FailOutstandingFields DEF Sound
  <1> HIDE DEF y
  <1>2. StagesAgree(y)
    BY <1>0 DEF Sound, Context, StagesAgree, PastCommit, NoLaneEver, Unborn
  <1>3. LanesAgree(y)
    BY <1>0 DEF Sound, Context, LanesAgree, Running
  <1>4. ReleaseAgrees(y)
    BY <1>0 DEF Sound, Context, ReleaseAgrees, NoLaneEver
  <1>5. RequestsAgree(y)
    BY <1>0 DEF Sound, Context, RequestsAgree, PastCommit
  <1>6. WaitAgrees(y)
    BY <1>0 DEF Sound, Context, WaitAgrees, Running
  <1>7. JobsAgree(y)
    BY <1>0 DEF Sound, Context, JobsAgree, is_live
  <1>8. Sound(y)
    BY <1>0, <1>2, <1>3, <1>4, <1>5, <1>6, <1>7 DEF Sound
  <1> QED
    BY <1>8 DEF y

\* The finally clause of _run_cycle.
LEMMA ClosingLocal ==
    ASSUME NEW x, Sound(x), InScheduler(x),
           NEW y, y = Closing(x)
    PROVE  Kept(x, y)
  <1>0. /\ y \in Context
        /\ y = [x EXCEPT !.cycle_task = "closing", !.cancelled = FALSE,
                         !.watched = {}, !.cleanup_task = "created"]
        /\ x \in Context
    BY DEF Sound, Context, Closing, CycleTaskStates, CleanupStates
  <1>2. StagesAgree(y)
    BY <1>0 DEF Sound, Context, StagesAgree, PastCommit, NoLaneEver, InScheduler, Unborn
  <1>3. LanesAgree(y)
    BY <1>0 DEF Sound, Context, LanesAgree, Running
  <1>4. ReleaseAgrees(y)
    BY <1>0 DEF Sound, Context, ReleaseAgrees, NoLaneEver, StagesAgree, InScheduler
  <1>5. RequestsAgree(y)
    BY <1>0 DEF Sound, Context, RequestsAgree, PastCommit
  <1>6. WaitAgrees(y)
    BY <1>0 DEF Sound, Context, WaitAgrees, Running
  <1>7. JobsAgree(y)
    BY <1>0 DEF Sound, Context, JobsAgree, is_live
  <1>8. WaitsForAReason(y)
    BY <1>0 DEF Context, WaitsForAReason
  <1>9. /\ x.cycle_state # "unborn" /\ y.cycle_state # "unborn"
        /\ y.permits_released = x.permits_released
        /\ y.accepting = x.accepting
    BY <1>0 DEF Sound, Context, StagesAgree, Unborn, InScheduler
  <1> QED
    BY <1>0, <1>2, <1>3, <1>4, <1>5, <1>6, <1>7, <1>8, <1>9 DEF Kept, Consistent

\* What a pass of the scheduler starts with: unless Slow was tried, nobody has
\* cancelled Fast.
Ready(x) ==
    /\ Sound(x)
    /\ InScheduler(x)
    /\ x.lane_tasks["slow"] = "none" => x.lane_tasks["fast"] \notin {"cancelling", "cancelled"}

\* A pass that finds nothing to do ends the scheduler.
LEMMA StopAcceptingLocal ==
    ASSUME NEW x, Ready(x), NothingToDo(x),
           NEW y, y = StopAccepting(x)
    PROVE  Kept(x, y)
  <1> DEFINE z == FailLaneFutures(x, Refused(x))
             w == [z EXCEPT !.requested_lanes = LanesLeft(x), !.accepting = FALSE]
  <1>1. x \in Context /\ Sound(x) /\ InScheduler(x)
    BY DEF Ready, Sound
  <1>2. /\ z \in Context
        /\ z = [x EXCEPT !.lane_futures = z.lane_futures]
        /\ \A l \in Lanes : z.lane_futures[l] =
              IF l \in Refused(x) /\ x.lane_futures[l] = "pending" THEN "failed" ELSE x.lane_futures[l]
    BY <1>1, FailLaneFuturesFields
  <1>3. LanesLeft(x) = {}
    BY DEF NothingToDo
  <1>4. y = Closing(w)
    BY DEF StopAccepting
  <1> HIDE DEF z
  <1>5. /\ w \in Context
        /\ w = [x EXCEPT !.lane_futures = z.lane_futures, !.requested_lanes = {}, !.accepting = FALSE]
    BY <1>1, <1>2, <1>3 DEF Context
  <1> HIDE DEF w
  <1>6. StagesAgree(w)
    BY <1>1, <1>5 DEF Sound, Context, StagesAgree, PastCommit, NoLaneEver, Unborn, InScheduler
  <1>7. LanesAgree(w)
    BY <1>1, <1>2, <1>5 DEF Sound, Context, LanesAgree, Running
  <1>8. ReleaseAgrees(w)
    BY <1>1, <1>2, <1>5 DEF Sound, Context, ReleaseAgrees, NoLaneEver
  <1>9. RequestsAgree(w)
    BY <1>1, <1>5 DEF Sound, Context, RequestsAgree, PastCommit
  <1>10. WaitAgrees(w)
    BY <1>1, <1>5 DEF Sound, Context, WaitAgrees, Running
  <1>11. JobsAgree(w)
    BY <1>1, <1>5 DEF Sound, Context, JobsAgree, is_live
  <1>12. Sound(w) /\ InScheduler(w)
    BY <1>1, <1>5, <1>6, <1>7, <1>8, <1>9, <1>10, <1>11 DEF Sound, InScheduler, Context
  <1>13. Kept(w, y)
    BY <1>4, <1>12, ClosingLocal
  <1>14. /\ x.cycle_state = w.cycle_state
         /\ x.permits_released = w.permits_released
         /\ ~w.accepting
    BY <1>1, <1>5 DEF Context
  <1> QED
    BY <1>13, <1>14 DEF Kept

\* A pass that finds a lane to start or to wait for.
LEMMA StartLanesLocal ==
    ASSUME NEW x, Ready(x), ~NothingToDo(x),
           NEW y, y = StartLanes(x)
    PROVE  Kept(x, y)
  <1> DEFINE z == FailLaneFutures(x, Refused(x))
  <1>1. x \in Context /\ Sound(x) /\ InScheduler(x)
    BY DEF Ready, Sound
  <1>2. /\ z \in Context
        /\ z = [x EXCEPT !.lane_futures = z.lane_futures]
        /\ \A l \in Lanes : z.lane_futures[l] =
              IF l \in Refused(x) /\ x.lane_futures[l] = "pending" THEN "failed" ELSE x.lane_futures[l]
    BY <1>1, FailLaneFuturesFields
  <1>3. y = [z EXCEPT
              !.requested_lanes = LanesLeft(x),
              !.lane_tasks = [l \in Lanes |-> IF l \in Started(x) THEN "running" ELSE @[l]],
              !.watched = {l \in Lanes : l \in Started(x) \/ Running(x, l)},
              !.cycle_task = "waiting"]
    BY DEF StartLanes
  <1> HIDE DEF z
  <1>4. /\ PendingLanes(x) \subseteq x.requested_lanes
        /\ Started(x) \subseteq PendingLanes(x)
        /\ LanesLeft(x) \subseteq x.requested_lanes
        /\ \A l \in PendingLanes(x) : ~Running(x, l) /\ l \notin LanesLeft(x)
        /\ \A l \in x.requested_lanes :
              l \in LanesLeft(x) \/ l \in Started(x) \/ l \in Refused(x)
        /\ Refused(x) \subseteq x.requested_lanes
        /\ Started(x) \cap Refused(x) = {}
        /\ \A l \in Refused(x) : ~Running(x, l)
    BY <1>1 DEF Sound, Context, LanesAgree, PendingLanes, Started, Refused, LanesLeft,
       FastPending, SlowBarred, SlowRequestedNow, Lanes
  <1>5. /\ y \in Context
        /\ y.cycle_state = x.cycle_state /\ y.accepting = x.accepting
        /\ y.accepting_requests = x.accepting_requests
        /\ y.requested_lanes = LanesLeft(x) /\ y.accepted_lanes = x.accepted_lanes
        /\ y.lane_futures = z.lane_futures
        /\ y.lane_tasks = [l \in Lanes |-> IF l \in Started(x) THEN "running" ELSE x.lane_tasks[l]]
        /\ y.active_requests = x.active_requests /\ y.superseded = x.superseded
        /\ y.wake_event = x.wake_event
        /\ y.watched = {l \in Lanes : l \in Started(x) \/ Running(x, l)}
        /\ y.token = x.token /\ y.dispatcher_cleared = x.dispatcher_cleared
        /\ y.permits_released = x.permits_released /\ y.clock = x.clock
        /\ y.cycle_task = "waiting" /\ y.cancelled = x.cancelled
        /\ y.cleanup_task = x.cleanup_task
    <2> DEFINE tasks == [l \in Lanes |-> IF l \in Started(x) THEN "running" ELSE x.lane_tasks[l]]
               watch == {l \in Lanes : l \in Started(x) \/ Running(x, l)}
               left  == LanesLeft(x)
    <2>1. tasks \in [Lanes -> TaskStates] /\ watch \subseteq Lanes
      BY <1>1 DEF Context, TaskStates
    <2>2. left \subseteq Lanes
      BY <1>1, <1>4 DEF Context
    <2>3. "waiting" \in CycleTaskStates
      BY DEF CycleTaskStates
    <2>4. z.lane_tasks = x.lane_tasks
      BY <1>1, <1>2 DEF Context
    <2>5. y = [z EXCEPT !.requested_lanes = left, !.lane_tasks = tasks,
                        !.watched = watch, !.cycle_task = "waiting"]
      BY <1>3, <2>4
    <2> HIDE DEF tasks, watch, left
    <2>6. y \in Context
      BY ZenonT(60), <1>2, <2>1, <2>2, <2>3, <2>5 DEF Context
    <2>8. z \in Context /\ z = [x EXCEPT !.lane_futures = z.lane_futures]
      BY <1>2
    <2>7. /\ y.cycle_state = x.cycle_state /\ y.accepting = x.accepting
          /\ y.accepting_requests = x.accepting_requests
          /\ y.requested_lanes = left /\ y.accepted_lanes = x.accepted_lanes
          /\ y.lane_futures = z.lane_futures
          /\ y.lane_tasks = tasks
          /\ y.active_requests = x.active_requests /\ y.superseded = x.superseded
          /\ y.wake_event = x.wake_event
          /\ y.watched = watch
          /\ y.token = x.token /\ y.dispatcher_cleared = x.dispatcher_cleared
          /\ y.permits_released = x.permits_released /\ y.clock = x.clock
          /\ y.cycle_task = "waiting" /\ y.cancelled = x.cancelled
          /\ y.cleanup_task = x.cleanup_task
      BY <1>1, <2>5, <2>8 DEF Context
    <2> QED
      BY <2>6, <2>7 DEF tasks, watch, left
  <1>6. StagesAgree(y)
    BY <1>1, <1>5 DEF Sound, StagesAgree, PastCommit, NoLaneEver, Unborn, InScheduler
  <1>7. LanesAgree(y)
    <2>1. \A l \in Lanes : Running(y, l) <=> l \in Started(x) \/ Running(x, l)
      BY <1>5 DEF Running
    <2>2. /\ x.requested_lanes \subseteq x.accepted_lanes
          /\ x.active_requests \cup x.superseded \subseteq {l \in Lanes : Running(x, l)}
          /\ \A l \in Lanes :
              /\ Running(x, l) => l \in x.accepted_lanes \ x.requested_lanes
              /\ l \in x.accepted_lanes <=> x.lane_futures[l] # "none"
              /\ x.accepting => x.lane_tasks[l] \notin {"cancelling", "cancelled"}
              /\ x.accepting /\ x.lane_futures[l] = "pending" => l \in x.requested_lanes \/ Running(x, l)
      BY <1>1 DEF Sound, LanesAgree
    <2>3. \A l \in Lanes : y.lane_tasks[l] = IF l \in Started(x) THEN "running" ELSE x.lane_tasks[l]
      BY <1>5
    <2> QED
      BY <1>2, <1>4, <1>5, <2>1, <2>2, <2>3 DEF LanesAgree
  <1>8. ReleaseAgrees(y)
    BY <1>1, <1>2, <1>5 DEF Sound, ReleaseAgrees, NoLaneEver, InScheduler
  <1>9. RequestsAgree(y)
    BY <1>1, <1>5 DEF Sound, StagesAgree, InScheduler, RequestsAgree, PastCommit
  <1>10. WaitAgrees(y)
    <2>1. \A l \in Lanes : y.lane_tasks[l] = IF l \in Started(x) THEN "running" ELSE x.lane_tasks[l]
      BY <1>5
    <2>2. "fast" \in Lanes /\ "slow" \in Lanes
      BY DEF Lanes
    <2>3. \A l \in y.watched : y.lane_tasks[l] # "none"
      BY <1>5, <2>1 DEF Running
    <2>4. \A l \in Lanes : Running(y, l) => l \in y.watched
      BY <1>5, <2>1 DEF Running
    <2>5. y.lane_tasks["slow"] = "none" => y.lane_tasks["fast"] \notin {"cancelling", "cancelled"}
      BY <2>1, <2>2 DEF Ready
    <2> QED
      BY <1>5, <2>3, <2>4, <2>5 DEF WaitAgrees
  <1>11. JobsAgree(y)
    BY <1>1, <1>5 DEF Sound, JobsAgree, is_live
  <1>12. WaitsForAReason(y)
    <2> SUFFICES ASSUME y.clock = "early"
                 PROVE  \/ y.requested_lanes = {}
                        \/ y.requested_lanes = {"slow"} /\ Running(y, "fast")
      BY DEF WaitsForAReason
    <2>1. Started(x) = PendingLanes(x)
      BY <1>5 DEF Started
    <2>2. \A l \in Lanes : l \in x.requested_lanes => ~Running(x, l)
      BY <1>1 DEF Sound, LanesAgree
    <2>3. "fast" \notin LanesLeft(x)
      BY <2>2 DEF LanesLeft, PendingLanes, FastPending, Lanes
    <2>4. "slow" \in LanesLeft(x) => "fast" \in Started(x) \/ Running(x, "fast")
      BY <2>1, <2>2 DEF LanesLeft, PendingLanes, SlowRequestedNow, GateSlowForFirstRun, Lanes
    <2>5. LanesLeft(x) \subseteq {"fast", "slow"}
      BY <1>1, <1>4 DEF Context, Lanes
    <2>6. "fast" \in Started(x) \/ Running(x, "fast") => Running(y, "fast")
      BY <1>5 DEF Running, Lanes
    <2> QED
      BY <1>5, <2>3, <2>4, <2>5, <2>6
  <1>13. x.cycle_state # "unborn"
    BY <1>1 DEF Sound, StagesAgree, Unborn, InScheduler
  <1> QED
    BY <1>5, <1>6, <1>7, <1>8, <1>9, <1>10, <1>11, <1>12, <1>13 DEF Kept, Consistent

\* One pass of the scheduler, to the next suspension.
LEMMA PassLocal ==
    ASSUME NEW x, Ready(x), NEW y, y = Pass(x)
    PROVE  Kept(x, y)
  BY StopAcceptingLocal, StartLanesLocal DEF Pass

\* The scheduler saw a lane task end and reaps wake_wait (WakeByLane).
LEMMA WakesLocal ==
    ASSUME NEW x \in Context, Consistent(x),
           x.cycle_task = "waiting", ~x.cancelled,
           NEW l \in x.watched, ~Running(x, l),
           NEW y, y = [x EXCEPT !.cycle_task = "reaping"]
    PROVE  Kept(x, y)
  <1>0. y \in Context
    BY DEF Context, CycleTaskStates
  <1>1. StagesAgree(y)
    BY DEF Context, Consistent, StagesAgree, PastCommit, NoLaneEver, Unborn
  <1>2. LanesAgree(y)
    BY DEF Context, Consistent, LanesAgree, Running
  <1>3. ReleaseAgrees(y)
    BY DEF Context, Consistent, ReleaseAgrees, NoLaneEver
  <1>4. RequestsAgree(y)
    BY DEF Context, Consistent, RequestsAgree, PastCommit
  <1>5. WaitAgrees(y)
    BY DEF Context, Consistent, WaitAgrees, Running, TaskStates, Lanes
  <1>6. WaitsForAReason(y)
    BY DEF Context, Consistent, WaitsForAReason, Running
  <1>7. JobsAgree(y)
    BY DEF Context, Consistent, JobsAgree, is_live
  <1>8. /\ x.cycle_state # "unborn" /\ y.cycle_state # "unborn"
        /\ y.permits_released = x.permits_released
        /\ y.accepting => x.accepting
    BY DEF Context, Consistent, StagesAgree, Unborn
  <1> QED
    BY <1>0, <1>1, <1>2, <1>3, <1>4, <1>5, <1>6, <1>7, <1>8 DEF Kept, Consistent

\* The one cancellation of wait_for() is dropped (DeadlineFires).
LEMMA DeadlineLostLocal ==
    ASSUME NEW x \in Context, Consistent(x),
           x.cycle_task = "reaping",
           NEW y, y = [x EXCEPT !.deadline_lost = TRUE]
    PROVE  Kept(x, y)
  <1>0. y \in Context
    BY DEF Context
  <1>1. StagesAgree(y)
    BY DEF Context, Consistent, StagesAgree, PastCommit, NoLaneEver, Unborn
  <1>2. LanesAgree(y)
    BY DEF Context, Consistent, LanesAgree, Running
  <1>3. ReleaseAgrees(y)
    BY DEF Context, Consistent, ReleaseAgrees, NoLaneEver
  <1>4. RequestsAgree(y)
    BY DEF Context, Consistent, RequestsAgree, PastCommit
  <1>5. WaitAgrees(y)
    BY DEF Context, Consistent, WaitAgrees, Running
  <1>6. WaitsForAReason(y)
    BY DEF Context, Consistent, WaitsForAReason, Running
  <1>7. JobsAgree(y)
    BY DEF Context, Consistent, JobsAgree, is_live
  <1>8. /\ x.cycle_state # "unborn" /\ y.cycle_state # "unborn"
        /\ y.permits_released = x.permits_released
        /\ y.accepting => x.accepting
    BY DEF Context, Consistent, StagesAgree, Unborn
  <1> QED
    BY <1>0, <1>1, <1>2, <1>3, <1>4, <1>5, <1>6, <1>7, <1>8 DEF Kept, Consistent

\* The cycle task ends (CycleTaskEnds).
LEMMA CycleTaskEndsLocal ==
    ASSUME NEW x \in Context, Consistent(x),
           x.cycle_task = "closing",
           x.cancelled \/ x.cleanup_task = "done",
           NEW y, y = [x EXCEPT !.cycle_task = "done", !.cancelled = FALSE]
    PROVE  Kept(x, y)
  <1>0. y \in Context
    BY DEF Context, CycleTaskStates
  <1>1. StagesAgree(y)
    BY DEF Context, Consistent, StagesAgree, PastCommit, NoLaneEver, Unborn
  <1>2. LanesAgree(y)
    BY DEF Context, Consistent, LanesAgree, Running
  <1>3. ReleaseAgrees(y)
    BY DEF Context, Consistent, ReleaseAgrees, NoLaneEver
  <1>4. RequestsAgree(y)
    BY DEF Context, Consistent, RequestsAgree, PastCommit
  <1>5. WaitAgrees(y)
    BY DEF Context, Consistent, WaitAgrees, Running
  <1>6. WaitsForAReason(y)
    BY DEF Context, Consistent, WaitsForAReason, Running
  <1>7. JobsAgree(y)
    BY DEF Context, Consistent, JobsAgree, is_live
  <1>8. /\ x.cycle_state # "unborn" /\ y.cycle_state # "unborn"
        /\ y.permits_released = x.permits_released
        /\ y.accepting => x.accepting
    BY DEF Context, Consistent, StagesAgree, Unborn
  <1> QED
    BY <1>0, <1>1, <1>2, <1>3, <1>4, <1>5, <1>6, <1>7, <1>8 DEF Kept, Consistent

\* Time passes (ClockTicks).
LEMMA ClockTicksLocal ==
    ASSUME NEW x \in Context, Consistent(x),
           x.cycle_task # "none",
           NEW y, NEW now \in {"late", "expired"}, y = [x EXCEPT !.clock = now],
           x.clock # "expired"
    PROVE  Kept(x, y)
  <1>0. y \in Context
    BY DEF Context, Clock
  <1>1. StagesAgree(y)
    BY DEF Context, Consistent, StagesAgree, PastCommit, NoLaneEver, Unborn
  <1>2. LanesAgree(y)
    BY DEF Context, Consistent, LanesAgree, Running
  <1>3. ReleaseAgrees(y)
    BY DEF Context, Consistent, ReleaseAgrees, NoLaneEver
  <1>4. RequestsAgree(y)
    BY DEF Context, Consistent, RequestsAgree, PastCommit
  <1>5. WaitAgrees(y)
    BY DEF Context, Consistent, WaitAgrees, Running
  <1>6. WaitsForAReason(y)
    BY DEF Context, Consistent, WaitsForAReason, Running
  <1>7. JobsAgree(y)
    BY DEF Context, Consistent, JobsAgree, is_live
  <1>8. /\ x.cycle_state # "unborn" /\ y.cycle_state # "unborn"
        /\ y.permits_released = x.permits_released
        /\ y.accepting => x.accepting
    BY DEF Context, Consistent, StagesAgree, Unborn
  <1> QED
    BY <1>0, <1>1, <1>2, <1>3, <1>4, <1>5, <1>6, <1>7, <1>8 DEF Kept, Consistent

\* A fetch is registered (BeginFetch).
LEMMA BeginFetchLocal ==
    ASSUME NEW x \in Context, Consistent(x),
           NEW l \in Lanes, Running(x, l), x.accepting_requests,
           NEW y, y = [x EXCEPT !.active_requests = @ \cup {l}]
    PROVE  Kept(x, y)
  <1>0. y \in Context
    BY DEF Context
  <1>1. StagesAgree(y)
    BY DEF Context, Consistent, StagesAgree, PastCommit, NoLaneEver, Unborn
  <1>2. LanesAgree(y)
    BY DEF Context, Consistent, LanesAgree, Running
  <1>3. ReleaseAgrees(y)
    BY DEF Context, Consistent, ReleaseAgrees, NoLaneEver
  <1>4. RequestsAgree(y)
    BY DEF Context, Consistent, RequestsAgree, PastCommit, StagesAgree
  <1>5. WaitAgrees(y)
    BY DEF Context, Consistent, WaitAgrees, Running
  <1>6. WaitsForAReason(y)
    BY DEF Context, Consistent, WaitsForAReason, Running
  <1>7. JobsAgree(y)
    BY DEF Context, Consistent, JobsAgree, is_live
  <1>8. /\ x.cycle_state # "unborn" /\ y.cycle_state # "unborn"
        /\ y.permits_released = x.permits_released
        /\ y.accepting => x.accepting
    BY DEF Context, Consistent, StagesAgree, Unborn
  <1> QED
    BY <1>0, <1>1, <1>2, <1>3, <1>4, <1>5, <1>6, <1>7, <1>8 DEF Kept, Consistent

\* A fetch ends (EndFetch).
LEMMA EndFetchLocal ==
    ASSUME NEW x \in Context, Consistent(x),
           NEW l \in Lanes, Running(x, l),
           NEW y, y = [x EXCEPT !.active_requests = @ \ {l}]
    PROVE  Kept(x, y)
  <1>0. y \in Context
    BY DEF Context
  <1>1. StagesAgree(y)
    BY DEF Context, Consistent, StagesAgree, PastCommit, NoLaneEver, Unborn, Running
  <1>2. LanesAgree(y)
    BY DEF Context, Consistent, LanesAgree, Running
  <1>3. ReleaseAgrees(y)
    BY DEF Context, Consistent, ReleaseAgrees, NoLaneEver
  <1>4. RequestsAgree(y)
    BY DEF Context, Consistent, RequestsAgree, PastCommit
  <1>5. WaitAgrees(y)
    BY DEF Context, Consistent, WaitAgrees, Running
  <1>6. WaitsForAReason(y)
    BY DEF Context, Consistent, WaitsForAReason, Running
  <1>7. JobsAgree(y)
    BY DEF Context, Consistent, JobsAgree, is_live
  <1>8. /\ x.cycle_state # "unborn" /\ y.cycle_state # "unborn"
        /\ y.permits_released = x.permits_released
        /\ y.accepting => x.accepting
    BY DEF Context, Consistent, StagesAgree, Unborn, Running
  <1> QED
    BY <1>0, <1>1, <1>2, <1>3, <1>4, <1>5, <1>6, <1>7, <1>8 DEF Kept, Consistent

\* A lane task is cancelled (LaneCancelled).
LEMMA LaneCancelledLocal ==
    ASSUME NEW x \in Context, Consistent(x),
           NEW l \in Lanes, x.lane_tasks[l] = "cancelling",
           NEW y, y = [x EXCEPT !.lane_tasks[l] = "cancelled",
                                !.active_requests = @ \ {l},
                                !.superseded = @ \ {l}]
    PROVE  Kept(x, y)
  <1>0. y \in Context
    BY DEF Context, TaskStates
  <1>1. StagesAgree(y)
    BY DEF Context, Consistent, StagesAgree, PastCommit, NoLaneEver, Unborn
  <1>2. LanesAgree(y)
    BY DEF Context, Consistent, LanesAgree, Running
  <1>3. ReleaseAgrees(y)
    BY DEF Context, Consistent, ReleaseAgrees, NoLaneEver
  <1>4. RequestsAgree(y)
    BY DEF Context, Consistent, RequestsAgree, PastCommit
  <1>5. WaitAgrees(y)
    BY DEF Context, Consistent, WaitAgrees, Running
  <1>6. WaitsForAReason(y)
    BY DEF Context, Consistent, WaitsForAReason, Running, WaitAgrees, Lanes
  <1>7. JobsAgree(y)
    BY DEF Context, Consistent, JobsAgree, is_live
  <1>8. /\ x.cycle_state # "unborn" /\ y.cycle_state # "unborn"
        /\ y.permits_released = x.permits_released
        /\ y.accepting => x.accepting
    BY DEF Context, Consistent, StagesAgree, Unborn
  <1> QED
    BY <1>0, <1>1, <1>2, <1>3, <1>4, <1>5, <1>6, <1>7, <1>8 DEF Kept, Consistent

\* The cleanup begins (CleanupStarts).
LEMMA CleanupStartsLocal ==
    ASSUME NEW x \in Context, Consistent(x),
           x.cleanup_task = "created",
           NEW y, y = [x EXCEPT !.cleanup_task = "committing"]
    PROVE  Kept(x, y)
  <1>0. y \in Context
    BY DEF Context, CleanupStates
  <1>1. StagesAgree(y)
    BY DEF Context, Consistent, StagesAgree, PastCommit, NoLaneEver, Unborn
  <1>2. LanesAgree(y)
    BY DEF Context, Consistent, LanesAgree, Running
  <1>3. ReleaseAgrees(y)
    BY DEF Context, Consistent, ReleaseAgrees, NoLaneEver
  <1>4. RequestsAgree(y)
    BY DEF Context, Consistent, RequestsAgree, PastCommit
  <1>5. WaitAgrees(y)
    BY DEF Context, Consistent, WaitAgrees, Running
  <1>6. WaitsForAReason(y)
    BY DEF Context, Consistent, WaitsForAReason, Running
  <1>7. JobsAgree(y)
    BY DEF Context, Consistent, JobsAgree, is_live
  <1>8. /\ x.cycle_state # "unborn" /\ y.cycle_state # "unborn"
        /\ y.permits_released = x.permits_released
        /\ y.accepting => x.accepting
    BY DEF Context, Consistent, StagesAgree, Unborn
  <1> QED
    BY <1>0, <1>1, <1>2, <1>3, <1>4, <1>5, <1>6, <1>7, <1>8 DEF Kept, Consistent

\* The owned tasks are waited for (DrainEnds).
LEMMA DrainEndsLocal ==
    ASSUME NEW x \in Context, Consistent(x),
           x.cleanup_task = "draining",
           NEW y, y = [x EXCEPT !.cleanup_task = "logout"]
    PROVE  Kept(x, y)
  <1>0. y \in Context
    BY DEF Context, CleanupStates
  <1>1. StagesAgree(y)
    BY DEF Context, Consistent, StagesAgree, PastCommit, NoLaneEver, Unborn
  <1>2. LanesAgree(y)
    BY DEF Context, Consistent, LanesAgree, Running
  <1>3. ReleaseAgrees(y)
    BY DEF Context, Consistent, ReleaseAgrees, NoLaneEver
  <1>4. RequestsAgree(y)
    BY DEF Context, Consistent, RequestsAgree, PastCommit
  <1>5. WaitAgrees(y)
    BY DEF Context, Consistent, WaitAgrees, Running
  <1>6. WaitsForAReason(y)
    BY DEF Context, Consistent, WaitsForAReason, Running
  <1>7. JobsAgree(y)
    BY DEF Context, Consistent, JobsAgree, is_live
  <1>8. /\ x.cycle_state # "unborn" /\ y.cycle_state # "unborn"
        /\ y.permits_released = x.permits_released
        /\ y.accepting => x.accepting
    BY DEF Context, Consistent, StagesAgree, Unborn
  <1> QED
    BY <1>0, <1>1, <1>2, <1>3, <1>4, <1>5, <1>6, <1>7, <1>8 DEF Kept, Consistent

\* The dispatcher lets go of the cycle (DrainEnds, LogoutEnds).
LEMMA DisconnectsLocal ==
    ASSUME NEW x \in Context, Consistent(x),
           x.cleanup_task \in {"draining", "logout"},
           NEW y, y = [x EXCEPT !.cleanup_task = "disconnecting", !.dispatcher_cleared = TRUE]
    PROVE  Kept(x, y)
  <1>0. y \in Context
    BY DEF Context, CleanupStates
  <1>1. StagesAgree(y)
    BY DEF Context, Consistent, StagesAgree, PastCommit, NoLaneEver, Unborn
  <1>2. LanesAgree(y)
    BY DEF Context, Consistent, LanesAgree, Running
  <1>3. ReleaseAgrees(y)
    BY DEF Context, Consistent, ReleaseAgrees, NoLaneEver
  <1>4. RequestsAgree(y)
    BY DEF Context, Consistent, RequestsAgree, PastCommit
  <1>5. WaitAgrees(y)
    BY DEF Context, Consistent, WaitAgrees, Running
  <1>6. WaitsForAReason(y)
    BY DEF Context, Consistent, WaitsForAReason, Running
  <1>7. JobsAgree(y)
    BY DEF Context, Consistent, JobsAgree, is_live
  <1>8. /\ x.cycle_state # "unborn" /\ y.cycle_state # "unborn"
        /\ y.permits_released = x.permits_released
        /\ y.accepting => x.accepting
    BY DEF Context, Consistent, StagesAgree, Unborn
  <1> QED
    BY <1>0, <1>1, <1>2, <1>3, <1>4, <1>5, <1>6, <1>7, <1>8 DEF Kept, Consistent

\* The cleanup has cleared the reference (ClearTargetReference).
LEMMA ReferenceClearedLocal ==
    ASSUME NEW x \in Context, Consistent(x),
           x.cleanup_task = "clearing",
           NEW y, y = [x EXCEPT !.cleanup_task = "cleared"]
    PROVE  Kept(x, y)
  <1>0. y \in Context
    BY DEF Context, CleanupStates
  <1>1. StagesAgree(y)
    BY DEF Context, Consistent, StagesAgree, PastCommit, NoLaneEver, Unborn
  <1>2. LanesAgree(y)
    BY DEF Context, Consistent, LanesAgree, Running
  <1>3. ReleaseAgrees(y)
    BY DEF Context, Consistent, ReleaseAgrees, NoLaneEver
  <1>4. RequestsAgree(y)
    BY DEF Context, Consistent, RequestsAgree, PastCommit
  <1>5. WaitAgrees(y)
    BY DEF Context, Consistent, WaitAgrees, Running
  <1>6. WaitsForAReason(y)
    BY DEF Context, Consistent, WaitsForAReason, Running
  <1>7. JobsAgree(y)
    BY DEF Context, Consistent, JobsAgree, is_live
  <1>8. /\ x.cycle_state # "unborn" /\ y.cycle_state # "unborn"
        /\ y.permits_released = x.permits_released
        /\ y.accepting => x.accepting
    BY DEF Context, Consistent, StagesAgree, Unborn
  <1> QED
    BY <1>0, <1>1, <1>2, <1>3, <1>4, <1>5, <1>6, <1>7, <1>8 DEF Kept, Consistent

\* The cleanup ends (CleanupEnds).
LEMMA CleanupEndsLocal ==
    ASSUME NEW x \in Context, Consistent(x),
           x.cleanup_task = "cleared",
           NEW y, y = [x EXCEPT !.cleanup_task = "done",
                                !.cycle_state = IF @ = "ABANDONED" THEN @ ELSE "CLOSED"]
    PROVE  Kept(x, y)
  <1>0. y \in Context
    BY DEF Context, CleanupStates, CycleStates
  <1>1. StagesAgree(y)
    BY DEF Context, Consistent, StagesAgree, PastCommit, NoLaneEver, Unborn
  <1>2. LanesAgree(y)
    BY DEF Context, Consistent, LanesAgree, Running
  <1>3. ReleaseAgrees(y)
    BY DEF Context, Consistent, ReleaseAgrees, NoLaneEver, StagesAgree
  <1>4. RequestsAgree(y)
    BY DEF Context, Consistent, RequestsAgree, PastCommit
  <1>5. WaitAgrees(y)
    BY DEF Context, Consistent, WaitAgrees, Running
  <1>6. WaitsForAReason(y)
    BY DEF Context, Consistent, WaitsForAReason, Running
  <1>7. JobsAgree(y)
    BY DEF Context, Consistent, JobsAgree, is_live
  <1>8. /\ x.cycle_state # "unborn" /\ y.cycle_state # "unborn"
        /\ y.permits_released = x.permits_released
        /\ y.accepting => x.accepting
    BY DEF Context, Consistent, StagesAgree, Unborn
  <1> QED
    BY <1>0, <1>1, <1>2, <1>3, <1>4, <1>5, <1>6, <1>7, <1>8 DEF Kept, Consistent

\* From here on the cycle takes nothing on (CommitToClosing).
LEMMA CommittedLocal ==
    ASSUME NEW x \in Context, Consistent(x), x.cleanup_task = "committing",
           NEW y, y = CommittedToClosing(x)
    PROVE  Kept(x, y)
  <1> DEFINE tasks == [l \in Lanes |-> IF x.lane_tasks[l] = "running" THEN "cancelling" ELSE x.lane_tasks[l]]
  <1>1. tasks \in [Lanes -> TaskStates]
    BY DEF Context, TaskStates
  <1>2. /\ y \in Context
        /\ y = [x EXCEPT !.accepting = FALSE, !.accepting_requests = FALSE,
                         !.cycle_state = IF @ = "ABANDONED" THEN @ ELSE "CLOSING",
                         !.cleanup_task = "draining",
                         !.lane_tasks = tasks]
    BY ZenonT(60), <1>1 DEF Context, CommittedToClosing, CancelLanes, CycleStates, CleanupStates
  <1> HIDE DEF tasks
  <1>14. y.lane_tasks = tasks
    BY <1>2 DEF Context
  <1>3. \A l \in Lanes : /\ y.lane_tasks[l] = IF x.lane_tasks[l] = "running" THEN "cancelling" ELSE x.lane_tasks[l]
                         /\ Running(y, l) <=> Running(x, l)
    BY <1>14 DEF tasks, Running
  <1>4. /\ ~y.accepting /\ ~y.accepting_requests /\ y.cleanup_task = "draining"
        /\ y.cycle_state = IF x.cycle_state = "ABANDONED" THEN "ABANDONED" ELSE "CLOSING"
        /\ y.requested_lanes = x.requested_lanes /\ y.accepted_lanes = x.accepted_lanes
        /\ y.lane_futures = x.lane_futures /\ y.active_requests = x.active_requests
        /\ y.superseded = x.superseded /\ y.wake_event = x.wake_event
        /\ y.watched = x.watched /\ y.token = x.token
        /\ y.dispatcher_cleared = x.dispatcher_cleared
        /\ y.permits_released = x.permits_released /\ y.clock = x.clock
        /\ y.cycle_task = x.cycle_task /\ y.cancelled = x.cancelled
    BY <1>2 DEF Context
  <1>5. x.cycle_task \in {"closing", "done"}
    BY DEF Context, Consistent, StagesAgree, CycleTaskStates, Unborn
  <1>6. StagesAgree(y)
    BY <1>4, <1>5 DEF StagesAgree, PastCommit
  <1>7. LanesAgree(y)
    BY <1>2, <1>3, <1>4 DEF Context, Consistent, LanesAgree
  <1>8. ReleaseAgrees(y)
    BY <1>2, <1>4 DEF Context, Consistent, ReleaseAgrees, StagesAgree
  <1>9. RequestsAgree(y)
    BY <1>3, <1>4 DEF RequestsAgree
  <1>10. WaitAgrees(y)
    BY <1>2, <1>3, <1>4, <1>5 DEF Context, Consistent, WaitAgrees, Lanes
  <1>11. WaitsForAReason(y)
    BY <1>4, <1>5 DEF WaitsForAReason
  <1>12. JobsAgree(y)
    BY <1>4 DEF JobsAgree, is_live
  <1>13. x.cycle_state # "unborn"
    BY DEF Consistent, StagesAgree, Unborn
  <1> QED
    BY <1>2, <1>4, <1>6, <1>7, <1>8, <1>9, <1>10, <1>11, <1>12, <1>13 DEF Kept, Consistent

\* New lanes join a cycle that accepts them (Attach).
LEMMA AttachedLocal ==
    ASSUME NEW x \in Context, Consistent(x), x.accepting, ~x.permits_released,
           NEW lanes \in SUBSET Lanes, \A l \in lanes : l \notin x.accepted_lanes \/ LaneIdle(x, l),
           NEW y, y = Attached(x, lanes)
    PROVE  Kept(x, y)
  <1> DEFINE futures == [l \in Lanes |-> IF l \in lanes THEN "pending" ELSE x.lane_futures[l]]
  <1>1. futures \in [Lanes -> FutureStates]
    BY DEF Context, FutureStates
  <1>2. /\ y \in Context
        /\ y = [x EXCEPT !.accepted_lanes = @ \cup lanes, !.requested_lanes = @ \cup lanes,
                         !.lane_futures = futures, !.wake_event = TRUE]
    BY <1>1 DEF Context, Attached
  <1> HIDE DEF futures
  <1>12. y.lane_futures = futures
    BY <1>2 DEF Context
  <1>3. \A l \in Lanes : y.lane_futures[l] = IF l \in lanes THEN "pending" ELSE x.lane_futures[l]
    BY <1>12 DEF futures
  <1>4. StagesAgree(y)
    BY <1>2 DEF Context, Consistent, StagesAgree, PastCommit, NoLaneEver, Unborn
  <1>5. LanesAgree(y)
    BY <1>2, <1>3 DEF Context, Consistent, LanesAgree, Running, LaneIdle
  <1>6. ReleaseAgrees(y)
    BY <1>2 DEF Context, Consistent, ReleaseAgrees
  <1>7. RequestsAgree(y)
    BY <1>2 DEF Context, Consistent, RequestsAgree, PastCommit
  <1>8. WaitAgrees(y)
    BY <1>2 DEF Context, Consistent, WaitAgrees, Running
  <1>9. WaitsForAReason(y)
    BY <1>2 DEF Context, WaitsForAReason
  <1>10. JobsAgree(y)
    BY <1>2 DEF Context, Consistent, JobsAgree, is_live
  <1>13. x.cycle_state # "unborn"
    BY DEF Consistent, StagesAgree, Unborn
  <1>11. /\ x.cycle_state # "unborn" /\ y.cycle_state # "unborn"
         /\ y.permits_released = x.permits_released
         /\ y.accepting = x.accepting
    BY <1>2, <1>13 DEF Context
  <1> QED
    BY <1>2, <1>4, <1>5, <1>6, <1>7, <1>8, <1>9, <1>10, <1>11 DEF Kept, Consistent

\* A new context (Open).
LEMMA OpenedLocal ==
    ASSUME NEW lanes \in SUBSET Lanes, NEW y, y = Opened(lanes)
    PROVE  /\ y \in Context
           /\ Consistent(y)
           /\ y.cycle_state # "unborn"
           /\ ~y.permits_released
  <1>1. y \in Context
    BY DEF Opened, Context, Unborn, CycleStates, FutureStates, TaskStates, CycleTaskStates, CleanupStates, Clock
  <1>2. /\ y.cycle_state = "OPENING" /\ y.accepting /\ y.accepting_requests
        /\ y.requested_lanes = lanes /\ y.accepted_lanes = lanes
        /\ y.lane_futures = [l \in Lanes |-> IF l \in lanes THEN "pending" ELSE "none"]
        /\ y.lane_tasks = [l \in Lanes |-> "none"]
        /\ y.active_requests = {} /\ y.superseded = {} /\ y.watched = {}
        /\ ~y.token /\ ~y.permits_released
        /\ y.cycle_task = "created" /\ y.cleanup_task = "none"
    BY DEF Opened, Unborn
  <1> QED
    BY <1>1, <1>2 DEF Consistent, StagesAgree, LanesAgree, ReleaseAgrees, RequestsAgree, WaitAgrees,
       WaitsForAReason, JobsAgree, PastCommit, NoLaneEver, Running, Lanes

\* A context as yet unopened (Init).
LEMMA UnbornLocal ==
    Unborn \in Context /\ Consistent(Unborn)
  <1>1. Unborn \in Context
    BY DEF Context, Unborn, CycleStates, FutureStates, TaskStates, CycleTaskStates, CleanupStates, Clock
  <1>2. /\ StagesAgree(Unborn) /\ LanesAgree(Unborn) /\ ReleaseAgrees(Unborn)
        /\ RequestsAgree(Unborn) /\ WaitAgrees(Unborn) /\ WaitsForAReason(Unborn) /\ JobsAgree(Unborn)
    BY DEF Unborn, StagesAgree, LanesAgree, ReleaseAgrees, RequestsAgree, WaitAgrees,
       WaitsForAReason, JobsAgree, PastCommit, NoLaneEver, Running, Lanes
  <1> QED
    BY <1>1, <1>2 DEF Consistent

\* shutdown_drain() cancels the cycle task (ShutdownBegins).
LEMMA CancelRequestedLocal ==
    ASSUME NEW x \in Context, Consistent(x), x.cycle_state # "unborn", x.cycle_task # "done",
           NEW y, y = [x EXCEPT !.cancelled = TRUE]
    PROVE  Kept(x, y)
  <1>0. y \in Context
    BY DEF Context
  <1>1. StagesAgree(y)
    BY DEF Context, Consistent, StagesAgree, PastCommit, NoLaneEver, Unborn
  <1>2. LanesAgree(y)
    BY DEF Context, Consistent, LanesAgree, Running
  <1>3. ReleaseAgrees(y)
    BY DEF Context, Consistent, ReleaseAgrees, NoLaneEver
  <1>4. RequestsAgree(y)
    BY DEF Context, Consistent, RequestsAgree, PastCommit
  <1>5. WaitAgrees(y)
    BY DEF Context, Consistent, WaitAgrees, Running
  <1>6. WaitsForAReason(y)
    BY DEF Context, Consistent, WaitsForAReason, Running
  <1>7. JobsAgree(y)
    BY DEF Context, Consistent, JobsAgree, is_live
  <1>8. /\ y.cycle_state = x.cycle_state
        /\ y.permits_released = x.permits_released
        /\ y.accepting = x.accepting
    BY DEF Context
  <1> QED
    BY <1>0, <1>1, <1>2, <1>3, <1>4, <1>5, <1>6, <1>7, <1>8 DEF Kept, Consistent

\* A job of a cycle that is no longer live is overtaken (LaneEnds).
LEMMA SupersededLocal ==
    ASSUME NEW x \in Context, Consistent(x), ~is_live(x), NEW l \in Lanes, Running(x, l),
           NEW y, y = [x EXCEPT !.superseded = @ \cup {l}]
    PROVE  Kept(x, y)
  <1>0. y \in Context
    BY DEF Context
  <1>1. StagesAgree(y)
    BY DEF Context, Consistent, StagesAgree, PastCommit, NoLaneEver, Unborn, Running
  <1>2. LanesAgree(y)
    BY DEF Context, Consistent, LanesAgree, Running
  <1>3. ReleaseAgrees(y)
    BY DEF Context, Consistent, ReleaseAgrees, NoLaneEver
  <1>4. RequestsAgree(y)
    BY DEF Context, Consistent, RequestsAgree, PastCommit
  <1>5. WaitAgrees(y)
    BY DEF Context, Consistent, WaitAgrees, Running
  <1>6. WaitsForAReason(y)
    BY DEF Context, Consistent, WaitsForAReason, Running
  <1>7. JobsAgree(y)
    BY DEF Context, JobsAgree, is_live
  <1>8. x.cycle_state # "unborn"
    BY DEF Consistent, StagesAgree, Unborn, Running
  <1>9. /\ y.cycle_state = x.cycle_state
        /\ y.permits_released = x.permits_released
        /\ y.accepting = x.accepting
    BY DEF Context
  <1> QED
    BY <1>0, <1>1, <1>2, <1>3, <1>4, <1>5, <1>6, <1>7, <1>8, <1>9 DEF Kept, Consistent

\* A lane job ends (LaneEnds).
LEMMA LaneEndsLocal ==
    ASSUME NEW x \in Context, Consistent(x), NEW l \in Lanes, Running(x, l),
           l \notin x.active_requests, NEW result \in {"ok", "failed"},
           NEW tasks, tasks = [x.lane_tasks EXCEPT ![l] = result],
           NEW futures, futures = [x.lane_futures EXCEPT ![l] = IF @ = "pending" THEN result ELSE @],
           NEW y, y = [x EXCEPT !.lane_tasks = tasks, !.lane_futures = futures, !.superseded = @ \ {l}]
    PROVE  Kept(x, y)
  <1>1. tasks \in [Lanes -> TaskStates] /\ futures \in [Lanes -> FutureStates]
    BY DEF Context, TaskStates, FutureStates
  <1>3. \A k \in Lanes : /\ tasks[k] = IF k = l THEN result ELSE x.lane_tasks[k]
                         /\ futures[k] = IF k = l /\ x.lane_futures[k] = "pending" THEN result ELSE x.lane_futures[k]
    BY DEF Context
  <1>15. y \in Context
    BY <1>1 DEF Context
  <1>4. /\ y \in Context
        /\ y.lane_tasks = tasks /\ y.lane_futures = futures
        /\ y.superseded = x.superseded \ {l}
        /\ y.cycle_state = x.cycle_state /\ y.accepting = x.accepting
        /\ y.accepting_requests = x.accepting_requests
        /\ y.requested_lanes = x.requested_lanes /\ y.accepted_lanes = x.accepted_lanes
        /\ y.active_requests = x.active_requests
        /\ y.wake_event = x.wake_event
        /\ y.watched = x.watched /\ y.token = x.token
        /\ y.dispatcher_cleared = x.dispatcher_cleared
        /\ y.permits_released = x.permits_released /\ y.clock = x.clock
        /\ y.cycle_task = x.cycle_task /\ y.cancelled = x.cancelled
        /\ y.cleanup_task = x.cleanup_task
    BY <1>15 DEF Context
  <1>5. \A k \in Lanes : Running(y, k) <=> k # l /\ Running(x, k)
    BY <1>3, <1>4 DEF Running
  <1>6. x.lane_tasks[l] \in {"running", "cancelling"}
    BY DEF Running
  <1>7. StagesAgree(y)
    BY <1>3, <1>4, <1>6 DEF Consistent, StagesAgree, PastCommit, NoLaneEver, Unborn
  <1>8. LanesAgree(y)
    <2>1. LanesAgree(x)
      BY DEF Consistent
    <2>2. y.active_requests \cup y.superseded \subseteq {k \in Lanes : Running(y, k)}
      BY <1>4, <1>5, <2>1 DEF LanesAgree
    <2>3. ASSUME NEW k \in Lanes
          PROVE  /\ Running(y, k) => k \in y.accepted_lanes \ y.requested_lanes
                 /\ k \in y.accepted_lanes <=> y.lane_futures[k] # "none"
                 /\ y.accepting => y.lane_tasks[k] \notin {"cancelling", "cancelled"}
      BY <1>3, <1>4, <1>5, <2>1 DEF LanesAgree
    <2>4. ASSUME NEW k \in Lanes, y.accepting, y.lane_futures[k] = "pending"
          PROVE  k \in y.requested_lanes \/ Running(y, k)
      BY <1>3, <1>4, <1>5, <2>1, <2>4 DEF LanesAgree
    <2> QED
      BY <1>4, <2>1, <2>2, <2>3, <2>4 DEF LanesAgree
  <1>9. ReleaseAgrees(y)
    BY <1>3, <1>4, <1>6 DEF Consistent, ReleaseAgrees, NoLaneEver
  <1>10. RequestsAgree(y)
    BY <1>3, <1>4 DEF Consistent, RequestsAgree, PastCommit
  <1>11. WaitAgrees(y)
    <2>1. WaitAgrees(x) /\ x.watched \subseteq Lanes /\ "fast" \in Lanes /\ "slow" \in Lanes
      BY DEF Consistent, Context, Lanes
    <2> QED
      BY <1>3, <1>4, <1>5, <1>6, <2>1 DEF WaitAgrees
  <1>12. WaitsForAReason(y)
    <2>1. WaitsForAReason(x) /\ WaitAgrees(x) /\ x.watched \subseteq Lanes /\ "fast" \in Lanes
      BY DEF Consistent, Context, Lanes
    <2> QED
      BY <1>4, <1>5, <2>1 DEF WaitsForAReason, WaitAgrees
  <1>13. JobsAgree(y)
    BY <1>4 DEF Consistent, JobsAgree, is_live
  <1>14. x.cycle_state # "unborn"
    BY <1>6 DEF Consistent, StagesAgree, Unborn
  <1> QED
    BY <1>4, <1>7, <1>8, <1>9, <1>10, <1>11, <1>12, <1>13, <1>14 DEF Kept, Consistent

\* A context that has given its permits back.
Spent(y) ==
    /\ y \in Context
    /\ Consistent(y)
    /\ y.cycle_state # "unborn"
    /\ y.permits_released

\* A cycle whose task never began (FinalizeIfNeverStarted).
LEMMA NeverStartedLocal ==
    ASSUME NEW x \in Context, Consistent(x), x.cycle_task = "done", x.cycle_state = "OPENING",
           NEW y, y = ReleasePermits(FailOutstanding([x EXCEPT !.cycle_state = "ABANDONED"]))
    PROVE  Spent(y)
  <1> DEFINE cut == [x EXCEPT !.cycle_state = "ABANDONED"]
             z == FailOutstanding(cut)
  <1>1. cut \in Context
    BY DEF Context, CycleStates
  <1> HIDE DEF cut
  <1>2. /\ z \in Context
        /\ z = [cut EXCEPT !.lane_futures = z.lane_futures]
        /\ \A l \in Lanes : z.lane_futures[l] =
              IF l \in cut.accepted_lanes /\ cut.lane_futures[l] = "pending"
              THEN "failed" ELSE cut.lane_futures[l]
    BY <1>1, FailOutstandingFields
  <1>3. y = [z EXCEPT !.permits_released = TRUE]
    BY DEF ReleasePermits, cut
  <1> HIDE DEF z
  <1>4. y \in Context
    BY <1>2, <1>3 DEF Context
  <1>5. /\ y.lane_futures = z.lane_futures
        /\ y.cycle_state = cut.cycle_state /\ y.accepting = cut.accepting
        /\ y.accepting_requests = cut.accepting_requests
        /\ y.requested_lanes = cut.requested_lanes /\ y.accepted_lanes = cut.accepted_lanes
        /\ y.lane_tasks = cut.lane_tasks /\ y.active_requests = cut.active_requests
        /\ y.superseded = cut.superseded
        /\ y.watched = cut.watched /\ y.token = cut.token
        /\ y.permits_released
        /\ y.cycle_task = cut.cycle_task /\ y.cleanup_task = cut.cleanup_task
    BY <1>1, <1>2, <1>3 DEF Context
  <1>6. /\ cut.cycle_state = "ABANDONED" /\ cut.accepting = x.accepting
        /\ cut.accepting_requests = x.accepting_requests
        /\ cut.requested_lanes = x.requested_lanes /\ cut.accepted_lanes = x.accepted_lanes
        /\ cut.lane_tasks = x.lane_tasks /\ cut.active_requests = x.active_requests
        /\ cut.superseded = x.superseded /\ cut.lane_futures = x.lane_futures
        /\ cut.watched = x.watched /\ cut.token = x.token
        /\ cut.cycle_task = "done" /\ cut.cleanup_task = x.cleanup_task
    BY DEF Context, cut
  <1>7. StagesAgree(y)
    BY <1>5, <1>6 DEF Consistent, StagesAgree, PastCommit
  <1>8. LanesAgree(y)
    BY <1>2, <1>5, <1>6 DEF Consistent, LanesAgree, Running
  <1>9. ReleaseAgrees(y)
    <2>1. StagesAgree(x) /\ LanesAgree(x)
      BY DEF Consistent
    <2>2. \A l \in Lanes : y.lane_futures[l] # "pending"
      BY <1>2, <1>5, <1>6, <2>1 DEF LanesAgree
    <2> QED
      BY <1>5, <1>6, <2>1, <2>2 DEF StagesAgree, ReleaseAgrees, NoLaneEver
  <1>10. RequestsAgree(y)
    BY <1>5, <1>6 DEF Consistent, StagesAgree, RequestsAgree, PastCommit
  <1>11. WaitAgrees(y)
    BY <1>5, <1>6 DEF Consistent, WaitAgrees, Running
  <1>12. WaitsForAReason(y)
    BY <1>5, <1>6 DEF WaitsForAReason
  <1>13. JobsAgree(y)
    BY <1>5, <1>6 DEF JobsAgree, is_live
  <1> QED
    BY <1>4, <1>5, <1>6, <1>7, <1>8, <1>9, <1>10, <1>11, <1>12, <1>13 DEF Spent, Consistent

\* The finally clause of _do_cleanup (Finalize).
LEMMA FinalizedLocal ==
    ASSUME NEW x \in Context, Consistent(x), x.cleanup_task \in {"disconnecting", "finalizing"},
           NEW y, y = Finalized(x)
    PROVE  Spent(y) /\ ~y.accepting
  <1> DEFINE cut == [x EXCEPT !.active_requests = {}, !.token = FALSE, !.cleanup_task = "clearing"]
             z == FailOutstanding(cut)
  <1>1. cut \in Context
    BY DEF Context, CleanupStates
  <1>3. y = [z EXCEPT !.permits_released = TRUE]
    BY DEF Finalized, ReleasePermits
  <1> HIDE DEF cut
  <1>2. /\ z \in Context
        /\ z = [cut EXCEPT !.lane_futures = z.lane_futures]
        /\ \A l \in Lanes : z.lane_futures[l] =
              IF l \in cut.accepted_lanes /\ cut.lane_futures[l] = "pending"
              THEN "failed" ELSE cut.lane_futures[l]
    BY <1>1, FailOutstandingFields
  <1> HIDE DEF z
  <1>4. y \in Context
    BY <1>2, <1>3 DEF Context
  <1>5. /\ y.lane_futures = z.lane_futures
        /\ y.cycle_state = cut.cycle_state /\ y.accepting = cut.accepting
        /\ y.accepting_requests = cut.accepting_requests
        /\ y.requested_lanes = cut.requested_lanes /\ y.accepted_lanes = cut.accepted_lanes
        /\ y.lane_tasks = cut.lane_tasks /\ y.active_requests = cut.active_requests
        /\ y.superseded = cut.superseded /\ y.wake_event = cut.wake_event
        /\ y.watched = cut.watched /\ y.token = cut.token
        /\ y.dispatcher_cleared = cut.dispatcher_cleared
        /\ y.permits_released /\ y.clock = cut.clock
        /\ y.cycle_task = cut.cycle_task /\ y.cancelled = cut.cancelled
        /\ y.cleanup_task = cut.cleanup_task
    BY <1>1, <1>2, <1>3 DEF Context
  <1>6. /\ cut.cycle_state = x.cycle_state /\ cut.accepting = x.accepting
        /\ cut.accepting_requests = x.accepting_requests
        /\ cut.requested_lanes = x.requested_lanes /\ cut.accepted_lanes = x.accepted_lanes
        /\ cut.lane_tasks = x.lane_tasks /\ cut.active_requests = {}
        /\ cut.superseded = x.superseded /\ cut.lane_futures = x.lane_futures
        /\ cut.wake_event = x.wake_event
        /\ cut.watched = x.watched /\ cut.token = FALSE
        /\ cut.dispatcher_cleared = x.dispatcher_cleared /\ cut.clock = x.clock
        /\ cut.cycle_task = x.cycle_task /\ cut.cancelled = x.cancelled
        /\ cut.cleanup_task = "clearing"
    BY DEF Context, cut
  <1>7. StagesAgree(x) /\ LanesAgree(x) /\ RequestsAgree(x) /\ WaitAgrees(x) /\ WaitsForAReason(x)
    BY DEF Consistent
  <1>8. /\ ~x.accepting /\ ~x.accepting_requests /\ x.dispatcher_cleared
        /\ x.cycle_state \in {"CLOSING", "CLOSED", "ABANDONED"}
        /\ x.cycle_task \notin {"none", "created", "login", "waiting", "reaping"}
        /\ PastCommit(x)
    BY <1>7 DEF StagesAgree, PastCommit, Unborn
  <1>9. StagesAgree(y)
    BY <1>5, <1>6, <1>7, <1>8 DEF StagesAgree, PastCommit
  <1>10. LanesAgree(y)
    BY <1>2, <1>5, <1>6, <1>7, <1>8 DEF LanesAgree, Running
  <1>11. ReleaseAgrees(y)
    <2>1. \A l \in Lanes : y.lane_futures[l] # "pending"
      BY <1>2, <1>5, <1>6, <1>7 DEF LanesAgree
    <2> QED
      BY <1>5, <1>6, <1>8, <2>1 DEF ReleaseAgrees
  <1>12. RequestsAgree(y)
    BY <1>5, <1>6, <1>7, <1>8 DEF RequestsAgree
  <1>13. WaitAgrees(y)
    BY <1>5, <1>6, <1>7, <1>8 DEF WaitAgrees, Running
  <1>14. WaitsForAReason(y)
    BY <1>5, <1>6, <1>8 DEF WaitsForAReason
  <1>15. JobsAgree(y)
    BY <1>5, <1>6, <1>8 DEF JobsAgree, is_live
  <1> QED
    BY <1>4, <1>5, <1>6, <1>8, <1>9, <1>10, <1>11, <1>12, <1>13, <1>14, <1>15 DEF Spent, Consistent

\* emergency_abandon, whatever the tasks of the cycle are at (ShutdownEnds).
LEMMA AbandonedLocal ==
    ASSUME NEW x \in Context, Consistent(x), x.cycle_state # "unborn",
           NEW y, y = Abandoned(x)
    PROVE  Spent(y) /\ ~y.accepting
  <1> DEFINE cut == [x EXCEPT !.accepting = FALSE,
                  !.accepting_requests = FALSE,
                  !.dispatcher_cleared = TRUE,
                  !.active_requests = {},
                  !.token = FALSE,
                  !.cycle_state = "ABANDONED",
                  !.cancelled = x.cycle_task # "done",
                  !.cleanup_task = CASE @ = "created" -> "done"
                                     [] @ \in {"draining", "logout", "disconnecting"} -> "finalizing"
                                     [] OTHER -> @]
             tasks == [l \in Lanes |-> IF x.lane_tasks[l] = "running" THEN "cancelling" ELSE x.lane_tasks[l]]
             stopped == [cut EXCEPT !.lane_tasks = tasks]
             z == FailOutstanding(stopped)
  <1>1. cut \in Context
    BY ZenonT(60) DEF Context, CycleStates, CleanupStates
  <1>2. tasks \in [Lanes -> TaskStates]
    BY DEF Context, TaskStates
  <1>3. CancelLanes(cut) = stopped
    BY DEF CancelLanes, Context
  <1>4. y = [z EXCEPT !.permits_released = TRUE]
    BY <1>3 DEF Abandoned, ReleasePermits
  <1>5. /\ cut.cycle_state = "ABANDONED" /\ ~cut.accepting /\ ~cut.accepting_requests
        /\ cut.requested_lanes = x.requested_lanes /\ cut.accepted_lanes = x.accepted_lanes
        /\ cut.active_requests = {} /\ cut.dispatcher_cleared /\ ~cut.token
        /\ cut.superseded = x.superseded /\ cut.lane_futures = x.lane_futures
        /\ cut.wake_event = x.wake_event /\ cut.watched = x.watched /\ cut.clock = x.clock
        /\ cut.cycle_task = x.cycle_task /\ cut.cancelled = (x.cycle_task # "done")
        /\ cut.cleanup_task = CASE x.cleanup_task = "created" -> "done"
                                 [] x.cleanup_task \in {"draining", "logout", "disconnecting"} -> "finalizing"
                                 [] OTHER -> x.cleanup_task
    BY DEF Context
  <1> HIDE DEF cut, tasks
  <1>6. stopped \in Context
    BY <1>1, <1>2 DEF Context
  <1>7. /\ z \in Context
        /\ z = [stopped EXCEPT !.lane_futures = z.lane_futures]
        /\ \A l \in Lanes : z.lane_futures[l] =
              IF l \in stopped.accepted_lanes /\ stopped.lane_futures[l] = "pending"
              THEN "failed" ELSE stopped.lane_futures[l]
    BY ZenonT(60), <1>6, FailOutstandingFields
  <1> HIDE DEF z
  <1>8. y \in Context
    BY <1>4, <1>7 DEF Context
  <1>9. /\ y.lane_futures = z.lane_futures /\ y.lane_tasks = tasks
        /\ stopped.accepted_lanes = cut.accepted_lanes /\ stopped.lane_futures = cut.lane_futures
        /\ y.cycle_state = cut.cycle_state /\ y.accepting = cut.accepting
        /\ y.accepting_requests = cut.accepting_requests
        /\ y.requested_lanes = cut.requested_lanes /\ y.accepted_lanes = cut.accepted_lanes
        /\ y.active_requests = cut.active_requests
        /\ y.superseded = cut.superseded /\ y.wake_event = cut.wake_event
        /\ y.watched = cut.watched /\ y.token = cut.token
        /\ y.dispatcher_cleared = cut.dispatcher_cleared
        /\ y.permits_released /\ y.clock = cut.clock
        /\ y.cycle_task = cut.cycle_task /\ y.cancelled = cut.cancelled
        /\ y.cleanup_task = cut.cleanup_task
    <2> DEFINE w == [stopped EXCEPT !.lane_futures = z.lane_futures]
    <2>1. /\ stopped.accepted_lanes = cut.accepted_lanes /\ stopped.lane_futures = cut.lane_futures
          /\ stopped.lane_tasks = tasks
          /\ stopped.cycle_state = cut.cycle_state /\ stopped.accepting = cut.accepting
          /\ stopped.accepting_requests = cut.accepting_requests
          /\ stopped.requested_lanes = cut.requested_lanes
          /\ stopped.active_requests = cut.active_requests
          /\ stopped.superseded = cut.superseded /\ stopped.wake_event = cut.wake_event
          /\ stopped.watched = cut.watched /\ stopped.token = cut.token
          /\ stopped.dispatcher_cleared = cut.dispatcher_cleared
          /\ stopped.clock = cut.clock
          /\ stopped.cycle_task = cut.cycle_task /\ stopped.cancelled = cut.cancelled
          /\ stopped.cleanup_task = cut.cleanup_task
      BY <1>1 DEF Context
    <2> HIDE DEF stopped
    <2>2. /\ y.lane_futures = z.lane_futures /\ y.lane_tasks = stopped.lane_tasks
          /\ y.cycle_state = stopped.cycle_state /\ y.accepting = stopped.accepting
          /\ y.accepting_requests = stopped.accepting_requests
          /\ y.requested_lanes = stopped.requested_lanes /\ y.accepted_lanes = stopped.accepted_lanes
          /\ y.active_requests = stopped.active_requests
          /\ y.superseded = stopped.superseded /\ y.wake_event = stopped.wake_event
          /\ y.watched = stopped.watched /\ y.token = stopped.token
          /\ y.dispatcher_cleared = stopped.dispatcher_cleared
          /\ y.permits_released /\ y.clock = stopped.clock
          /\ y.cycle_task = stopped.cycle_task /\ y.cancelled = stopped.cancelled
          /\ y.cleanup_task = stopped.cleanup_task
      BY <1>4, <1>6, <1>7 DEF Context
    <2> QED
      BY <2>1, <2>2
  <1>10. \A l \in Lanes : /\ y.lane_tasks[l] = IF x.lane_tasks[l] = "running" THEN "cancelling" ELSE x.lane_tasks[l]
                          /\ Running(y, l) <=> Running(x, l)
    BY <1>9 DEF tasks, Running
  <1>11. /\ StagesAgree(x) /\ LanesAgree(x) /\ ReleaseAgrees(x)
         /\ RequestsAgree(x) /\ WaitAgrees(x) /\ WaitsForAReason(x)
    BY DEF Consistent
  <1>12. StagesAgree(y)
    <2>1. x.cleanup_task = "none" => y.cleanup_task = "none"
      BY <1>5, <1>9
    <2>2. y.cycle_task = x.cycle_task /\ y.cycle_state = "ABANDONED" /\ (x.cycle_task = "created" => y.cancelled)
      BY <1>5, <1>9
    <2>3. NoLaneEver(x) => NoLaneEver(y)
      BY <1>10 DEF NoLaneEver
    <2>4. ~y.accepting /\ ~y.accepting_requests /\ y.dispatcher_cleared
      BY <1>5, <1>9
    <2> QED
      BY <1>11, <2>1, <2>2, <2>3, <2>4 DEF StagesAgree
  <1>13. LanesAgree(y)
    BY <1>5, <1>7, <1>9, <1>10, <1>11 DEF LanesAgree
  <1>14. ReleaseAgrees(y)
    <2>1. \A l \in Lanes : y.lane_futures[l] # "pending"
      BY <1>5, <1>7, <1>9, <1>11 DEF LanesAgree
    <2> QED
      BY <1>5, <1>9, <2>1 DEF ReleaseAgrees
  <1>15. RequestsAgree(y)
    BY <1>5, <1>9, <1>10 DEF RequestsAgree
  <1>16. WaitAgrees(y)
    <2>1. x.watched \subseteq Lanes /\ x.cycle_task \in CycleTaskStates /\ "fast" \in Lanes /\ "slow" \in Lanes
      BY DEF Context, Lanes
    <2>2. y.watched = x.watched /\ y.cycle_task = x.cycle_task /\ (y.cycle_task = "waiting" => y.cancelled)
      BY <1>5, <1>9
    <2>3. \A l \in y.watched : y.lane_tasks[l] # "none"
      BY <1>10, <1>11, <2>1, <2>2 DEF WaitAgrees
    <2>4. y.cycle_task = "waiting" => \A l \in Lanes : Running(y, l) => l \in y.watched
      BY <1>10, <1>11, <2>2 DEF WaitAgrees
    <2>5. y.lane_tasks["slow"] = "none" => x.lane_tasks["slow"] = "none"
      BY <1>10, <2>1
    <2>6. ASSUME y.lane_tasks["slow"] = "none", y.cycle_task = "reaping"
          PROVE  y.lane_tasks["fast"] \in {"ok", "failed"}
      BY <1>10, <1>11, <2>1, <2>2, <2>5, <2>6 DEF WaitAgrees
    <2>7. ASSUME y.lane_tasks["slow"] = "none", y.lane_tasks["fast"] \in {"cancelling", "cancelled"}
          PROVE  y.cycle_task \in {"waiting", "closing", "done"}
      <3>1. x.lane_tasks["fast"] # "none"
        BY <1>10, <2>1, <2>7
      <3>2. x.cycle_task \notin {"none", "created", "login"}
        BY <1>11, <2>1, <3>1 DEF StagesAgree, NoLaneEver
      <3>3. x.cycle_task # "reaping"
        BY <2>2, <2>6, <2>7
      <3> QED
        BY <2>1, <2>2, <3>2, <3>3 DEF CycleTaskStates
    <2> QED
      BY <2>2, <2>3, <2>4, <2>6, <2>7 DEF WaitAgrees
  <1>17. WaitsForAReason(y)
    <2>1. x.watched \subseteq Lanes /\ "fast" \in Lanes
      BY DEF Context, Lanes
    <2> QED
      BY <1>5, <1>9, <1>10, <1>11, <2>1 DEF WaitsForAReason
  <1>18. JobsAgree(y)
    BY <1>5, <1>9 DEF JobsAgree, is_live
  <1> QED
    BY <1>5, <1>8, <1>9, <1>12, <1>13, <1>14, <1>15, <1>16, <1>17, <1>18 DEF Spent, Consistent

-----------------------------------------------------------------------------
(* Every step is one of three: it takes and gives back nothing, it opens a  *)
(* cycle, or it gives back what some cycles still hold.                     *)

Steady ==
    /\ context' \in [Cycles -> Context]
    /\ \A d \in Cycles : context'[d] = context[d] \/ Kept(context[d], context'[d])
    /\ UNCHANGED permits
    /\ \/ UNCHANGED active_cycle
       \/ \E c \in Cycles : context[c].permits_released /\ ClearReferences({c})
    /\ drain' \in {"not begun", "draining", "over"}
    /\ snapshot' \subseteq {c \in Cycles : Born(c)}

Opening == \E c \in Cycles : \E due \in SUBSET Lanes : Open(c, due)

Releasing(gone) ==
    /\ gone \subseteq {c \in Cycles : Born(c)}
    /\ context' \in [Cycles -> Context]
    /\ \A d \in Cycles \ gone : context'[d] = context[d]
    /\ \A d \in gone : Spent(context'[d])
    /\ GiveBackPermits(gone)
    /\ \/ ClearReferences(gone)
       \/ UNCHANGED active_cycle /\ \A d \in gone : ~context'[d].accepting
    /\ drain' \in {"not begun", "draining", "over"}
    /\ snapshot' \subseteq snapshot

\* A step of one context that keeps what the cycle holds.
LEMMA LocalIsSteady ==
    ASSUME IInv, NEW c \in Cycles, NEW y, Kept(context[c], y), Local(c, y)
    PROVE  Steady
  <1>1. /\ context \in [Cycles -> Context]
        /\ drain \in {"not begun", "draining", "over"}
        /\ snapshot \subseteq {d \in Cycles : Born(d)}
    BY DEF IInv, TypeOK, ReferencesAgree
  <1>2. y \in Context
    BY DEF Kept
  <1>3. /\ context' = [context EXCEPT ![c] = y]
        /\ UNCHANGED <<active_cycle, permits, drain, snapshot>>
    BY DEF Local, Update, shutdown
  <1>4. context' \in [Cycles -> Context]
    BY <1>1, <1>2, <1>3
  <1>5. \A d \in Cycles : context'[d] = context[d] \/ Kept(context[d], context'[d])
    BY <1>1, <1>3
  <1> QED
    BY <1>1, <1>3, <1>4, <1>5 DEF Steady

\* Only an open cycle is live, and it is the one its target refers to.
LEMMA LiveIsReferenced ==
    ASSUME IInv, NEW c \in Cycles, is_live(context[c])
    PROVE  active_cycle[TargetOf[c]] = c
  <1>1. ReleaseAgrees(context[c])
    BY DEF IInv, Consistent
  <1>2. Holding(c)
    BY <1>1 DEF is_live, Holding, Born, ReleaseAgrees
  <1> QED
    BY <1>2 DEF IInv, OpenCycleIsReferenced

\* The end of a lane job.
LEMMA LaneEndsIsSteady ==
    ASSUME IInv, NEW c \in Cycles, NEW l \in Lanes, NEW result \in {"ok", "failed"},
           NEW publishes \in BOOLEAN, publishes => is_live(context[c]),
           LaneEnds(c, l, result, publishes)
    PROVE  Steady
  <1> DEFINE x == context[c]
             overtaken == {d \in Cycles \ {c} :
                             publishes /\ TargetOf[d] = TargetOf[c] /\ Running(context[d], l)}
             tasks == [x.lane_tasks EXCEPT ![l] = result]
             futures == [x.lane_futures EXCEPT ![l] = IF @ = "pending" THEN result ELSE @]
             y == [x EXCEPT !.lane_tasks = tasks, !.lane_futures = futures, !.superseded = @ \ {l}]
             z(d) == [context[d] EXCEPT !.superseded = @ \cup {l}]
  <1>1. /\ context \in [Cycles -> Context]
        /\ drain \in {"not begun", "draining", "over"}
        /\ snapshot \subseteq {d \in Cycles : Born(d)}
        /\ \A d \in Cycles : Consistent(context[d])
    BY DEF IInv, TypeOK, ReferencesAgree
  <1>2. /\ Running(x, l)
        /\ l \notin x.active_requests
        /\ context' = [d \in Cycles |->
              IF d = c
              THEN [x EXCEPT !.lane_tasks[l] = result,
                             !.lane_futures[l] = IF @ = "pending" THEN result ELSE @,
                             !.superseded = @ \ {l}]
              ELSE IF d \in overtaken THEN z(d) ELSE context[d]]
        /\ UNCHANGED <<active_cycle, permits, drain, snapshot>>
    BY DEF LaneEnds, shutdown
  <1>3. [x EXCEPT !.lane_tasks[l] = result,
                  !.lane_futures[l] = IF @ = "pending" THEN result ELSE @,
                  !.superseded = @ \ {l}] = y
    BY <1>1 DEF Context
  <1>4. Kept(x, y)
    BY <1>1, <1>2, LaneEndsLocal
  <1>5. ASSUME NEW d \in overtaken
        PROVE  Kept(context[d], z(d))
    <2>1. is_live(context[c]) /\ TargetOf[d] = TargetOf[c] /\ d # c /\ Running(context[d], l)
      OBVIOUS
    <2>2. ~is_live(context[d])
      BY <2>1, LiveIsReferenced
    <2> QED
      BY <1>1, <2>1, <2>2, SupersededLocal
  <1> HIDE DEF x, y, z, overtaken
  <1>6. \A d \in Cycles : context'[d] = IF d = c THEN y ELSE IF d \in overtaken THEN z(d) ELSE context[d]
    BY <1>2, <1>3
  <1>7. \A d \in Cycles : context'[d] = context[d] \/ Kept(context[d], context'[d])
    BY <1>4, <1>5, <1>6 DEF x
  <1>8. \A d \in Cycles : context'[d] \in Context
    BY <1>1, <1>7 DEF Kept
  <1>9. context' \in [Cycles -> Context]
    BY <1>2, <1>8
  <1> QED
    BY <1>1, <1>2, <1>7, <1>9 DEF Steady

\* Attaching lanes to an open cycle (ensure_cycle).
LEMMA AttachIsSteady ==
    ASSUME IInv, NEW t \in Targets, NEW due \in SUBSET Lanes, Attach(t, due)
    PROVE  Steady
  <1> DEFINE c == active_cycle[t]
             x == context[c]
             newly_due == {l \in due : l \notin x.accepted_lanes \/ LaneIdle(x, l)}
  <1>1. /\ c # NoCycle
        /\ x.accepting
        /\ Update(c, Attached(x, newly_due))
        /\ UNCHANGED <<active_cycle, permits, shutdown>>
    BY DEF Attach
  <1>2. c \in Cycles
    BY <1>1 DEF IInv, TypeOK
  <1>3. x \in Context /\ Consistent(x)
    BY <1>2 DEF IInv, TypeOK
  <1>4. ~x.permits_released
    BY <1>1 DEF IInv, ReferencesAgree
  <1>5. Kept(x, Attached(x, newly_due))
    BY <1>1, <1>3, <1>4, AttachedLocal
  <1>6. Local(c, Attached(x, newly_due))
    BY <1>1 DEF Local
  <1> QED
    BY <1>2, <1>5, <1>6, LocalIsSteady

\* The steps of the cycle task.
LEMMA CycleTaskIsSteady ==
    ASSUME IInv, NEW c \in Cycles, CycleTaskStep(c)
    PROVE  Steady
  <1> DEFINE x == context[c]
  <1>1. x \in Context /\ Consistent(x)
    BY DEF IInv, TypeOK
  <1>2. Sound(x)
    BY <1>1, ConsistentIsSound
  <1> SUFFICES \E y : Kept(x, y) /\ Local(c, y)
    BY LocalIsSteady
  <1>3. CASE CycleTaskStarts(c)
    BY <1>1, <1>3, StartsLocal DEF CycleTaskStarts
  <1>4. CASE LoginReturns(c)
    <2> DEFINE y == [x EXCEPT !.token = is_live(x), !.cancelled = FALSE]
               w == [x EXCEPT !.token = is_live(x), !.cold_fast_failed = x.cold_fast_failed,
                              !.wake_event = x.wake_event, !.cancelled = FALSE]
    <2>1. x.cycle_task = "login" /\ InScheduler(x)
      BY <1>4 DEF LoginReturns, InScheduler
    <2>2. /\ is_live(x) \in BOOLEAN
          /\ x.cold_fast_failed \in BOOLEAN /\ x.wake_event \in BOOLEAN
      BY <1>1 DEF Context, is_live
    <2>3. w = y
      BY <1>1 DEF Context
    <2>4. Sound(w) /\ InScheduler(w)
      BY <1>2, <2>1, <2>2, BookkeepingSound
    <2>5. y.cycle_task = "login" /\ y.permits_released = x.permits_released
          /\ y.cycle_state = x.cycle_state /\ y.accepting = x.accepting
      BY <1>1, <2>1 DEF Context
    <2>6. Local(c, IF is_live(x) THEN Pass(y) ELSE Closing(FailOutstanding(y)))
      BY <1>4 DEF LoginReturns
    <2> HIDE DEF y, w
    <2>7. Kept(y, Pass(y))
      <3>1. NoLaneEver(y)
        BY <2>3, <2>4, <2>5 DEF Sound, StagesAgree
      <3>2. Ready(y)
        BY <2>3, <2>4, <3>1 DEF Ready, NoLaneEver, Lanes
      <3> QED
        BY <3>2, PassLocal
    <2>8. Kept(FailOutstanding(y), Closing(FailOutstanding(y)))
      <3>1. Sound(FailOutstanding(y))
        BY <2>3, <2>4, FailOutstandingSound
      <3>2. InScheduler(FailOutstanding(y))
        BY <2>3, <2>4 DEF Sound, Context, FailOutstanding, InScheduler
      <3> QED
        BY <3>1, <3>2, ClosingLocal
    <2>9. LET z == FailOutstanding(y)
          IN  /\ z.permits_released = y.permits_released
              /\ z.cycle_state = y.cycle_state /\ z.accepting = y.accepting
      BY <2>3, <2>4 DEF Sound, Context, FailOutstanding
    <2> QED
      BY <2>5, <2>6, <2>7, <2>8, <2>9 DEF Kept
  <1>5. CASE LoginFails(c)
    <2>1. /\ InScheduler(x)
          /\ Local(c, Closing(FailOutstanding(x)))
      BY <1>5 DEF LoginFails, InScheduler
    <2>2. Sound(FailOutstanding(x))
      BY <1>2, FailOutstandingSound
    <2>3. LET z == FailOutstanding(x)
          IN  /\ z.permits_released = x.permits_released /\ z.cycle_task = x.cycle_task
              /\ z.cycle_state = x.cycle_state /\ z.accepting = x.accepting
      BY <1>1 DEF Context, FailOutstanding
    <2>4. Kept(FailOutstanding(x), Closing(FailOutstanding(x)))
      BY <2>1, <2>2, <2>3, ClosingLocal DEF InScheduler
    <2> QED
      BY <2>1, <2>3, <2>4 DEF Kept
  <1>6. CASE LoginCancelled(c) \/ SchedulerCancelled(c)
    <2>1. InScheduler(x) /\ Local(c, Closing(x))
      BY <1>6 DEF LoginCancelled, SchedulerCancelled, InScheduler
    <2> QED
      BY <1>2, <2>1, ClosingLocal
  <1>7. CASE WakeByEvent(c)
    <2> DEFINE y == Collect([x EXCEPT !.wake_event = FALSE])
               cold == x.cold_fast_failed \/ (x.lane_tasks["fast"] = "failed" /\ x.lane_tasks["slow"] = "none")
               w == [x EXCEPT !.token = x.token, !.cold_fast_failed = cold,
                              !.wake_event = FALSE, !.cancelled = x.cancelled]
    <2>1. x.cycle_task = "waiting" /\ ~x.cancelled /\ InScheduler(x) /\ Local(c, Pass(y))
      BY <1>7 DEF WakeByEvent, InScheduler
    <2>2. cold \in BOOLEAN /\ x.token \in BOOLEAN /\ x.cancelled \in BOOLEAN
      BY <1>1 DEF Context
    <2>4. w = y
      BY <1>1 DEF Context, Collect
    <2>5. Sound(w) /\ InScheduler(w)
      BY <1>2, <2>1, <2>2, BookkeepingSound
    <2>6. /\ w.lane_tasks = x.lane_tasks
          /\ w.permits_released = x.permits_released
          /\ w.cycle_state = x.cycle_state /\ w.accepting = x.accepting
      BY <1>1 DEF Context
    <2>7. x.lane_tasks["slow"] = "none" => x.lane_tasks["fast"] \notin {"cancelling", "cancelled"}
      BY <1>2, <2>1 DEF Sound, WaitAgrees
    <2> HIDE DEF y, w
    <2>8. Ready(w)
      BY <2>5, <2>6, <2>7 DEF Ready
    <2>9. Kept(w, Pass(w))
      BY <2>8, PassLocal
    <2> QED
      BY <2>1, <2>4, <2>6, <2>9 DEF Kept
  <1>8. CASE WakeByLane(c)
    <2>1. x.watched \subseteq Lanes
      BY <1>1 DEF Context
    <2> QED
      BY <1>1, <1>8, <2>1, WakesLocal DEF WakeByLane
  <1>9. CASE Reap(c)
    <2> DEFINE y == Collect([x EXCEPT !.cancelled = FALSE])
               cold == x.cold_fast_failed \/ (x.lane_tasks["fast"] = "failed" /\ x.lane_tasks["slow"] = "none")
               w == [x EXCEPT !.token = x.token, !.cold_fast_failed = cold,
                              !.wake_event = x.wake_event, !.cancelled = FALSE]
    <2>1. x.cycle_task = "reaping" /\ InScheduler(x) /\ Local(c, Pass(y))
      BY <1>9 DEF Reap, InScheduler
    <2>2. cold \in BOOLEAN /\ x.token \in BOOLEAN /\ x.wake_event \in BOOLEAN
      BY <1>1 DEF Context
    <2>4. w = y
      BY <1>1 DEF Context, Collect
    <2>5. Sound(w) /\ InScheduler(w)
      BY <1>2, <2>1, <2>2, BookkeepingSound
    <2>6. /\ w.lane_tasks = x.lane_tasks
          /\ w.permits_released = x.permits_released
          /\ w.cycle_state = x.cycle_state /\ w.accepting = x.accepting
      BY <1>1 DEF Context
    <2>7. x.lane_tasks["slow"] = "none" => x.lane_tasks["fast"] \notin {"cancelling", "cancelled"}
      BY <1>2, <2>1 DEF Sound, WaitAgrees
    <2> HIDE DEF y, w
    <2>8. Ready(w)
      BY <2>5, <2>6, <2>7 DEF Ready
    <2>9. Kept(w, Pass(w))
      BY <2>8, PassLocal
    <2> QED
      BY <2>1, <2>4, <2>6, <2>9 DEF Kept
  <1>10. CASE CycleTaskEnds(c)
    BY <1>1, <1>10, CycleTaskEndsLocal DEF CycleTaskEnds
  <1> QED
    BY <1>3, <1>4, <1>5, <1>6, <1>7, <1>8, <1>9, <1>10 DEF CycleTaskStep

\* The deadline of the scheduler.
LEMMA DeadlineFiresIsSteady ==
    ASSUME IInv, NEW c \in Cycles, DeadlineFires(c)
    PROVE  Steady
  <1> DEFINE x == context[c]
  <1>1. x \in Context /\ Consistent(x)
    BY DEF IInv, TypeOK
  <1> SUFFICES \E y : Kept(x, y) /\ Local(c, y)
    BY LocalIsSteady
  <1>2. CASE x.cycle_task = "waiting" /\ Local(c, Closing(FailOutstanding(x)))
    <2>1. Sound(x)
      BY <1>1, ConsistentIsSound
    <2>2. Sound(FailOutstanding(x))
      BY <2>1, FailOutstandingSound
    <2>3. LET z == FailOutstanding(x)
          IN  /\ z.permits_released = x.permits_released /\ z.cycle_task = x.cycle_task
              /\ z.cycle_state = x.cycle_state /\ z.accepting = x.accepting
      BY <1>1 DEF Context, FailOutstanding
    <2>4. Kept(FailOutstanding(x), Closing(FailOutstanding(x)))
      BY <1>2, <2>2, <2>3, ClosingLocal DEF InScheduler
    <2> QED
      BY <1>2, <2>3, <2>4 DEF Kept
  <1>3. CASE x.cycle_task = "reaping" /\ Local(c, [x EXCEPT !.deadline_lost = TRUE])
    BY <1>1, <1>3, DeadlineLostLocal
  <1> QED
    BY <1>2, <1>3 DEF DeadlineFires

\* The clock.
LEMMA ClockTicksIsSteady ==
    ASSUME IInv, NEW c \in Cycles, ClockTicks(c)
    PROVE  Steady
  <1> DEFINE x == context[c]
  <1>1. x \in Context /\ Consistent(x)
    BY DEF IInv, TypeOK
  <1> SUFFICES \E y : Kept(x, y) /\ Local(c, y)
    BY LocalIsSteady
  <1>2. x.cycle_task # "none"
    BY <1>1 DEF ClockTicks, Consistent, StagesAgree, Unborn
  <1>3. CASE x.clock = "early" /\ Local(c, [x EXCEPT !.clock = "late"])
    BY <1>1, <1>2, <1>3, ClockTicksLocal
  <1>4. CASE x.clock = "late" /\ Local(c, [x EXCEPT !.clock = "expired"])
    BY <1>1, <1>2, <1>4, ClockTicksLocal
  <1> QED
    BY <1>3, <1>4 DEF ClockTicks

\* The steps of a lane task.
LEMMA LaneIsSteady ==
    ASSUME IInv, NEW c \in Cycles, NEW l \in Lanes, LaneStep(c, l)
    PROVE  Steady
  <1> DEFINE x == context[c]
  <1>1. x \in Context /\ Consistent(x)
    BY DEF IInv, TypeOK
  <1>2. CASE BeginFetch(c, l)
    BY <1>1, <1>2, BeginFetchLocal, LocalIsSteady DEF BeginFetch
  <1>3. CASE EndFetch(c, l)
    BY <1>1, <1>3, EndFetchLocal, LocalIsSteady DEF EndFetch
  <1>4. CASE LaneSucceeds(c, l)
    <2>1. is_live(context[c]) \in BOOLEAN
      BY DEF is_live
    <2> QED
      BY <1>4, <2>1, LaneEndsIsSteady DEF LaneSucceeds
  <1>5. CASE LaneFails(c, l)
    <2>1. PICK recorded \in BOOLEAN : LaneEnds(c, l, "failed", recorded /\ is_live(context[c]))
      BY <1>5 DEF LaneFails
    <2>2. (recorded /\ is_live(context[c])) \in BOOLEAN
      BY DEF is_live
    <2> QED
      BY <2>1, <2>2, LaneEndsIsSteady
  <1>6. CASE LaneCancelled(c, l)
    BY <1>1, <1>6, LaneCancelledLocal, LocalIsSteady DEF LaneCancelled
  <1> QED
    BY <1>2, <1>3, <1>4, <1>5, <1>6 DEF LaneStep

\* Shutdown begins.
LEMMA ShutdownBeginsIsSteady ==
    ASSUME IInv, ShutdownBegins
    PROVE  Steady
  <1>1. /\ context \in [Cycles -> Context]
        /\ \A d \in Cycles : Consistent(context[d])
        /\ \A t \in Targets : active_cycle[t] # NoCycle => Born(active_cycle[t])
        /\ TargetOf \in [Cycles -> Targets] /\ NoCycle \notin Cycles
    BY RefreshCycleAssumption DEF IInv, TypeOK, OpenCycleIsReferenced
  <1>2. snapshot' = {d \in Cycles : active_cycle[TargetOf[d]] = d}
    BY DEF ShutdownBegins
  <1>3. \A d \in snapshot' : d \in Cycles /\ Born(d)
    BY <1>1, <1>2
  <1>4. context' = [d \in Cycles |->
          IF d \in snapshot' /\ context[d].cycle_task # "done"
          THEN [context[d] EXCEPT !.cancelled = TRUE]
          ELSE context[d]]
    BY DEF ShutdownBegins
  <1>5. ASSUME NEW d \in Cycles
        PROVE  context'[d] = context[d] \/ Kept(context[d], context'[d])
    <2>1. CASE d \in snapshot' /\ context[d].cycle_task # "done"
      BY <1>1, <1>3, <1>4, <2>1, CancelRequestedLocal DEF Born
    <2>2. CASE ~(d \in snapshot' /\ context[d].cycle_task # "done")
      BY <1>4, <2>2
    <2> QED
      BY <2>1, <2>2
  <1>6. \A d \in Cycles : context'[d] \in Context
    BY <1>1, <1>5 DEF Kept
  <1>7. context' \in [Cycles -> Context]
    BY <1>4, <1>6
  <1>8. UNCHANGED <<active_cycle, permits>> /\ drain' \in {"not begun", "draining", "over"}
    BY DEF ShutdownBegins
  <1> QED
    BY <1>3, <1>5, <1>7, <1>8 DEF Steady

\* One cycle gives back what it still holds.
LEMMA OneReleases ==
    ASSUME IInv, NEW c \in Cycles, Born(c), NEW y, Spent(y), Update(c, y), GiveBackPermits({c}),
           UNCHANGED shutdown,
           \/ ClearReferences({c})
           \/ UNCHANGED active_cycle /\ ~y.accepting
    PROVE  Releasing({c})
  <1>1. /\ context \in [Cycles -> Context]
        /\ drain \in {"not begun", "draining", "over"}
        /\ context' = [context EXCEPT ![c] = y]
        /\ drain' = drain /\ snapshot' = snapshot
        /\ y \in Context
    BY DEF IInv, TypeOK, Update, shutdown, Spent
  <1>2. context' \in [Cycles -> Context]
    BY <1>1
  <1>3. /\ \A d \in Cycles \ {c} : context'[d] = context[d]
        /\ context'[c] = y
    BY <1>1
  <1> QED
    BY <1>1, <1>2, <1>3 DEF Releasing

\* The steps of the cleanup task.
LEMMA CleanupIsSteadyOrReleases ==
    ASSUME IInv, NEW c \in Cycles, CleanupStep(c)
    PROVE  Steady \/ Releasing({c})
  <1> DEFINE x == context[c]
  <1>1. x \in Context /\ Consistent(x)
    BY DEF IInv, TypeOK
  <1>2. CASE CleanupStarts(c)
    BY <1>1, <1>2, CleanupStartsLocal, LocalIsSteady DEF CleanupStarts
  <1>3. CASE CommitToClosing(c)
    BY <1>1, <1>3, CommittedLocal, LocalIsSteady DEF CommitToClosing
  <1>4. CASE DrainEnds(c)
    <2>1. CASE Local(c, [x EXCEPT !.cleanup_task = "logout"])
      BY <1>1, <1>4, <2>1, DrainEndsLocal, LocalIsSteady DEF DrainEnds
    <2>2. CASE Local(c, [x EXCEPT !.cleanup_task = "disconnecting", !.dispatcher_cleared = TRUE])
      BY <1>1, <1>4, <2>2, DisconnectsLocal, LocalIsSteady DEF DrainEnds
    <2> QED
      BY <1>4, <2>1, <2>2 DEF DrainEnds
  <1>5. CASE LogoutEnds(c)
    BY <1>1, <1>5, DisconnectsLocal, LocalIsSteady DEF LogoutEnds
  <1>6. CASE CleanupEnds(c)
    BY <1>1, <1>6, CleanupEndsLocal, LocalIsSteady DEF CleanupEnds
  <1>7. CASE Finalize(c)
    <2>1. /\ x.cleanup_task \in {"disconnecting", "finalizing"}
          /\ Update(c, Finalized(x))
          /\ GiveBackPermits({c})
          /\ UNCHANGED <<active_cycle, shutdown>>
      BY <1>7 DEF Finalize
    <2>2. Spent(Finalized(x)) /\ ~Finalized(x).accepting
      BY <1>1, <2>1, FinalizedLocal
    <2>3. Born(c)
      BY <1>1, <2>1 DEF Born, Consistent, StagesAgree, Unborn
    <2> QED
      BY <2>1, <2>2, <2>3, OneReleases
  <1>8. CASE ClearTargetReference(c)
    <2> DEFINE y == [x EXCEPT !.cleanup_task = "cleared"]
    <2>1. /\ x.cleanup_task = "clearing"
          /\ context' = [context EXCEPT ![c] = y]
          /\ ClearReferences({c})
          /\ UNCHANGED <<permits, drain, snapshot>>
      BY <1>8 DEF ClearTargetReference, Update, shutdown
    <2>2. Kept(x, y)
      BY <1>1, <2>1, ReferenceClearedLocal
    <2>3. x.permits_released
      BY <1>1, <2>1 DEF Consistent, ReleaseAgrees
    <2>4. /\ context \in [Cycles -> Context]
          /\ drain \in {"not begun", "draining", "over"}
          /\ snapshot \subseteq {d \in Cycles : Born(d)}
          /\ y \in Context
      BY <2>2 DEF IInv, TypeOK, ReferencesAgree, Kept
    <2> HIDE DEF y
    <2>5. /\ context' \in [Cycles -> Context]
          /\ \A d \in Cycles : context'[d] = context[d] \/ Kept(context[d], context'[d])
      BY <2>1, <2>2, <2>4
    <2> QED
      BY <2>1, <2>3, <2>4, <2>5 DEF Steady
  <1> QED
    BY <1>2, <1>3, <1>4, <1>5, <1>6, <1>7, <1>8 DEF CleanupStep

\* The cycle task that never began.
LEMMA NeverStartedReleases ==
    ASSUME IInv, NEW c \in Cycles, FinalizeIfNeverStarted(c)
    PROVE  Releasing({c})
  <1> DEFINE x == context[c]
             y == ReleasePermits(FailOutstanding([x EXCEPT !.cycle_state = "ABANDONED"]))
  <1>1. x \in Context /\ Consistent(x)
    BY DEF IInv, TypeOK
  <1>2. /\ x.cycle_task = "done"
        /\ x.cycle_state = "OPENING"
        /\ Update(c, y)
        /\ GiveBackPermits({c})
        /\ ClearReferences({c})
        /\ UNCHANGED shutdown
    BY DEF FinalizeIfNeverStarted
  <1>3. Spent(y)
    BY <1>1, <1>2, NeverStartedLocal
  <1>4. Born(c)
    BY <1>2 DEF Born
  <1> HIDE DEF y
  <1> QED
    BY <1>2, <1>3, <1>4, OneReleases

\* The cycles that outlast the grace period of the shutdown.
LEMMA ShutdownEndsReleases ==
    ASSUME IInv, ShutdownEnds
    PROVE  \E gone \in SUBSET Cycles : Releasing(gone)
  <1> DEFINE left == {d \in snapshot : ~Drained(context[d])}
  <1>1. /\ context \in [Cycles -> Context]
        /\ \A d \in Cycles : Consistent(context[d])
        /\ left \subseteq {d \in Cycles : Born(d)}
    BY DEF IInv, TypeOK, ReferencesAgree
  <1>2. /\ drain' = "over"
        /\ context' = [d \in Cycles |-> IF d \in left THEN Abandoned(context[d]) ELSE context[d]]
        /\ GiveBackPermits(left)
        /\ ClearReferences(left)
        /\ snapshot' = {}
    BY DEF ShutdownEnds
  <1> HIDE DEF left
  <1>3. \A d \in left : context'[d] = Abandoned(context[d])
    BY <1>1, <1>2
  <1>4. \A d \in left : Spent(context'[d])
    BY <1>1, <1>3, AbandonedLocal DEF Born
  <1>5. \A d \in Cycles \ left : context'[d] = context[d]
    BY <1>2
  <1>6. \A d \in Cycles : context'[d] \in Context
    BY <1>1, <1>4, <1>5 DEF Spent
  <1>7. context' \in [Cycles -> Context]
    BY <1>2, <1>6
  <1>8. Releasing(left)
    BY <1>1, <1>2, <1>4, <1>5, <1>7 DEF Releasing
  <1> QED
    BY <1>1, <1>8

\* The three kinds of steps.
LEMMA StepKinds ==
    ASSUME IInv, Next
    PROVE  Steady \/ Opening \/ \E gone \in SUBSET Cycles : Releasing(gone)
  <1>1. ASSUME NEW t \in Targets, NEW due \in (SUBSET LanesOf(t)) \ {{}}, Attach(t, due)
        PROVE  Steady
    BY <1>1, AttachIsSteady DEF LanesOf, Lanes
  <1>2. ASSUME NEW c \in Cycles, NEW due \in (SUBSET LanesOf(TargetOf[c])) \ {{}}, Open(c, due)
        PROVE  Opening
    BY <1>2 DEF Opening, LanesOf, Lanes
  <1>3. ASSUME NEW c \in Cycles, CycleTaskStep(c)
        PROVE  Steady
    BY <1>3, CycleTaskIsSteady
  <1>4. ASSUME NEW c \in Cycles, FinalizeIfNeverStarted(c) \/ CleanupStep(c)
        PROVE  Steady \/ \E gone \in SUBSET Cycles : Releasing(gone)
    <2>1. {c} \in SUBSET Cycles
      OBVIOUS
    <2> QED
      BY <1>4, <2>1, NeverStartedReleases, CleanupIsSteadyOrReleases
  <1>5. ASSUME NEW c \in Cycles, DeadlineFires(c) \/ ClockTicks(c)
        PROVE  Steady
    BY <1>5, DeadlineFiresIsSteady, ClockTicksIsSteady
  <1>6. ASSUME NEW c \in Cycles, NEW l \in Lanes, LaneStep(c, l)
        PROVE  Steady
    BY <1>6, LaneIsSteady
  <1> QED
    BY <1>1, <1>2, <1>3, <1>4, <1>5, <1>6, ShutdownBeginsIsSteady, ShutdownEndsReleases DEF Next, ensure_cycle

-----------------------------------------------------------------------------
(* The invariant *)

Holders == {c \in Cycles : Holding(c)}
HoldersOn(b) == {c \in Cycles : Holding(c) /\ BmcOf[TargetOf[c]] = b}

\* The cycles that hold permits are finitely many.
LEMMA HoldersFinite ==
    /\ IsFiniteSet(Holders)
    /\ \A b \in Bmcs : IsFiniteSet(HoldersOn(b))
  BY FS_Subset, RefreshCycleAssumption DEF Holders, HoldersOn

\* A steady step changes nobody's permits.
LEMMA SteadyHolders ==
    ASSUME IInv, Steady
    PROVE  /\ \A c \in Cycles : /\ Holding(c)' <=> Holding(c)
                                /\ Born(c) => Born(c)'
                                /\ context'[c].permits_released = context[c].permits_released
           /\ Holders' = Holders
           /\ \A b \in Bmcs : HoldersOn(b)' = HoldersOn(b)
  <1>1. \A c \in Cycles : /\ Holding(c)' <=> Holding(c)
                          /\ Born(c) => Born(c)'
                          /\ context'[c].permits_released = context[c].permits_released
    BY DEF Steady, Kept, Holding, Born
  <1> QED
    BY <1>1 DEF Holders, HoldersOn

\* A steady step keeps the invariant.
LEMMA SteadyKeepsIInv ==
    ASSUME IInv, Steady
    PROVE  IInv'
  <1>1. /\ \A c \in Cycles : /\ Holding(c)' <=> Holding(c)
                             /\ Born(c) => Born(c)'
                             /\ context'[c].permits_released = context[c].permits_released
        /\ Holders' = Holders
        /\ \A b \in Bmcs : HoldersOn(b)' = HoldersOn(b)
    BY SteadyHolders
  <1>2. \A t \in Targets :
          \/ active_cycle'[t] = active_cycle[t]
          \/ active_cycle'[t] = NoCycle /\ active_cycle[t] \in Cycles /\ context[active_cycle[t]].permits_released
    BY DEF Steady, ClearReferences
  <1>3. active_cycle' \in [Targets -> Cycles \cup {NoCycle}]
    BY DEF IInv, TypeOK, Steady, ClearReferences
  <1>4. TypeOK'
    BY <1>3 DEF IInv, TypeOK, Steady, permits
  <1>5. \A c \in Cycles : Consistent(context'[c])
    BY DEF IInv, Steady, Kept
  <1>6. PermitAccounting'
    BY <1>1 DEF IInv, Steady, permits, PermitAccounting, Holders, HoldersOn
  <1>7. OpenCycleIsReferenced'
    <2>1. ASSUME NEW c \in Cycles, Holding(c)'
          PROVE  active_cycle'[TargetOf[c]] = c
      <3>1. Holding(c) /\ active_cycle[TargetOf[c]] = c /\ TargetOf[c] \in Targets
        BY <1>1, <2>1, RefreshCycleAssumption DEF IInv, OpenCycleIsReferenced
      <3>2. ~context[c].permits_released
        BY <3>1 DEF Holding
      <3> QED
        BY <1>2, <3>1, <3>2
    <2>2. ASSUME NEW t \in Targets, active_cycle'[t] # NoCycle
          PROVE  TargetOf[active_cycle'[t]] = t /\ Born(active_cycle[t])' 
      <3>1. active_cycle'[t] = active_cycle[t]
        BY <1>2, <2>2
      <3>2. TargetOf[active_cycle[t]] = t /\ Born(active_cycle[t]) /\ active_cycle[t] \in Cycles
        BY <2>2, <3>1 DEF IInv, OpenCycleIsReferenced, TypeOK
      <3> QED
        BY <1>1, <3>1, <3>2 DEF Born
    <2> QED
      BY <2>1, <2>2 DEF OpenCycleIsReferenced, Born
  <1>8. ReferencesAgree'
    <2>1. ASSUME NEW t \in Targets, active_cycle'[t] # NoCycle, context'[active_cycle'[t]].accepting
          PROVE  ~context'[active_cycle'[t]].permits_released
      <3>1. active_cycle'[t] = active_cycle[t] /\ active_cycle[t] \in Cycles
        BY <1>2, <1>3, <2>1
      <3>2. context[active_cycle[t]].accepting
        BY <2>1, <3>1 DEF Steady, Kept
      <3> QED
        BY <1>1, <2>1, <3>1, <3>2 DEF IInv, ReferencesAgree
    <2>2. \A c \in snapshot' : Born(c)'
      BY <1>1 DEF Steady
    <2> QED
      BY <2>1, <2>2 DEF ReferencesAgree, Born
  <1> QED
    BY <1>4, <1>5, <1>6, <1>7, <1>8 DEF IInv

\* Opening a cycle adds it to the holders.
LEMMA OpenHolders ==
    ASSUME IInv, NEW c \in Cycles, NEW due \in SUBSET Lanes, Open(c, due)
    PROVE  /\ ~Born(c)
           /\ \A d \in Cycles : Holding(d)' <=> Holding(d) \/ d = c
           /\ Holders' = Holders \cup {c} /\ c \notin Holders
           /\ \A b \in Bmcs :
                 HoldersOn(b)' = IF b = BmcOf[TargetOf[c]] THEN HoldersOn(b) \cup {c} ELSE HoldersOn(b)
           /\ context' \in [Cycles -> Context]
           /\ \A d \in Cycles : Consistent(context'[d])
           /\ \A d \in Cycles : Born(d)' <=> Born(d) \/ d = c
           /\ \A d \in Cycles \ {c} : context'[d] = context[d]
           /\ ~context'[c].permits_released
  <1>1. /\ context \in [Cycles -> Context]
        /\ \A d \in Cycles : Consistent(context[d])
        /\ context' = [context EXCEPT ![c] = Opened(due)]
        /\ context[c].cycle_state = "unborn"
    BY DEF IInv, TypeOK, Open, Update
  <1>2. /\ Opened(due) \in Context /\ Consistent(Opened(due))
        /\ Opened(due).cycle_state # "unborn" /\ ~Opened(due).permits_released
    BY OpenedLocal
  <1>3. /\ context'[c] = Opened(due)
        /\ \A d \in Cycles \ {c} : context'[d] = context[d]
        /\ context' \in [Cycles -> Context]
    BY <1>1, <1>2
  <1>4. ~Born(c)
    BY <1>1 DEF Born
  <1>5. \A d \in Cycles : /\ Holding(d)' <=> Holding(d) \/ d = c
                          /\ Born(d)' <=> Born(d) \/ d = c
                          /\ Consistent(context'[d])
    BY <1>1, <1>2, <1>3 DEF Holding, Born
  <1>6. Holders' = Holders \cup {c} /\ c \notin Holders
    BY <1>4, <1>5 DEF Holders, Holding
  <1>7. ASSUME NEW b \in Bmcs
        PROVE  HoldersOn(b)' = IF b = BmcOf[TargetOf[c]] THEN HoldersOn(b) \cup {c} ELSE HoldersOn(b)
    BY <1>5 DEF HoldersOn
  <1> QED
    BY <1>2, <1>3, <1>4, <1>5, <1>6, <1>7

\* Opening a cycle keeps the invariant.
LEMMA OpenKeepsIInv ==
    ASSUME IInv, NEW c \in Cycles, NEW due \in SUBSET Lanes, Open(c, due)
    PROVE  IInv'
  <1> DEFINE t == TargetOf[c]
             bmc == BmcOf[t]
  <1>1. /\ ~Born(c)
        /\ \A d \in Cycles : Holding(d)' <=> Holding(d) \/ d = c
        /\ Holders' = Holders \cup {c} /\ c \notin Holders
        /\ \A b \in Bmcs :
              HoldersOn(b)' = IF b = bmc THEN HoldersOn(b) \cup {c} ELSE HoldersOn(b)
        /\ context' \in [Cycles -> Context]
        /\ \A d \in Cycles : Consistent(context'[d])
        /\ \A d \in Cycles : Born(d)' <=> Born(d) \/ d = c
        /\ \A d \in Cycles \ {c} : context'[d] = context[d]
        /\ ~context'[c].permits_released
    BY OpenHolders
  <1>2. /\ active_cycle[t] = NoCycle
        /\ active_cycles < max_concurrent_refreshes
        /\ lease_count[bmc] < max_concurrent_cycles
        /\ active_cycle' = [active_cycle EXCEPT ![t] = c]
        /\ lease_count' = [lease_count EXCEPT ![bmc] = @ + 1]
        /\ active_cycles' = active_cycles + 1
        /\ drain' = drain /\ snapshot' = snapshot
    BY DEF Open, shutdown
  <1>3. t \in Targets /\ bmc \in Bmcs /\ NoCycle \notin Cycles
    BY RefreshCycleAssumption
  <1>4. /\ active_cycle \in [Targets -> Cycles \cup {NoCycle}]
        /\ lease_count \in [Bmcs -> Int] /\ active_cycles \in Int
        /\ drain \in {"not begun", "draining", "over"} /\ snapshot \subseteq Cycles
    BY DEF IInv, TypeOK
  <1> HIDE DEF t, bmc
  <1>5. TypeOK'
    <2>1. active_cycle' \in [Targets -> Cycles \cup {NoCycle}]
      BY <1>2, <1>4
    <2>4. lease_count[bmc] \in Int /\ active_cycles \in Int
      BY <1>3, <1>4
    <2>2. lease_count[bmc] + 1 \in Int /\ active_cycles + 1 \in Int
      BY <2>4
    <2>3. lease_count' \in [Bmcs -> Int]
      BY <1>2, <1>4, <2>2
    <2> QED
      BY <1>1, <1>2, <1>4, <2>1, <2>2, <2>3 DEF TypeOK
  <1>6. PermitAccounting'
    <2>1. /\ active_cycles = Cardinality(Holders)
          /\ \A b \in Bmcs : lease_count[b] = Cardinality(HoldersOn(b)) /\ lease_count[b] <= max_concurrent_cycles
      BY DEF IInv, PermitAccounting, Holders, HoldersOn
    <2>2. Cardinality(Holders') = Cardinality(Holders) + 1
      BY <1>1, HoldersFinite, FS_AddElement
    <2>3. c \notin HoldersOn(bmc)
      BY <1>1 DEF HoldersOn, Holding
    <2>4. Cardinality(HoldersOn(bmc) \cup {c}) = Cardinality(HoldersOn(bmc)) + 1
      BY <1>3, <2>3, HoldersFinite, FS_AddElement
    <2>7. /\ active_cycles \in Int /\ active_cycles' = active_cycles + 1
          /\ active_cycles < max_concurrent_refreshes /\ max_concurrent_refreshes \in Nat
          /\ active_cycles = Cardinality(Holders)
      BY <1>2, <1>4, <2>1, RefreshCycleAssumption
    <2>5. active_cycles' = Cardinality(Holders') /\ active_cycles' <= max_concurrent_refreshes
      BY <2>2, <2>7
    <2>6. ASSUME NEW b \in Bmcs
          PROVE  lease_count'[b] = Cardinality(HoldersOn(b)') /\ lease_count'[b] <= max_concurrent_cycles
      <3>1. CASE b = bmc
        <4>1. HoldersOn(b)' = HoldersOn(bmc) \cup {c}
          BY <1>1, <3>1
        <4>2. lease_count'[b] = lease_count[bmc] + 1
          BY <1>2, <1>3, <1>4, <3>1
        <4>3. lease_count[bmc] \in Int
          BY <1>3, <1>4
        <4> QED
          BY <1>2, <1>3, <2>1, <2>4, <3>1, <4>1, <4>2, <4>3, RefreshCycleAssumption
      <3>2. CASE b # bmc
        <4>1. HoldersOn(b)' = HoldersOn(b)
          BY <1>1, <3>2
        <4>2. lease_count'[b] = lease_count[b]
          BY <1>2, <1>4, <3>2
        <4> QED
          BY <2>1, <4>1, <4>2
      <3> QED
        BY <3>1, <3>2
    <2> QED
      BY <2>5, <2>6 DEF PermitAccounting, Holders, HoldersOn
  <1>7. OpenCycleIsReferenced'
    <2>1. ASSUME NEW d \in Cycles, Holding(d)'
          PROVE  active_cycle'[TargetOf[d]] = d
      <3>1. CASE d = c
        BY <1>2, <1>3, <1>4, <3>1 DEF t
      <3>2. CASE d # c
        <4>1. active_cycle[TargetOf[d]] = d /\ TargetOf[d] \in Targets
          BY <1>1, <2>1, <3>2, RefreshCycleAssumption DEF IInv, OpenCycleIsReferenced
        <4>2. TargetOf[d] # t
          BY <1>2, <1>3, <4>1
        <4> QED
          BY <1>2, <1>4, <4>1, <4>2
      <3> QED
        BY <3>1, <3>2
    <2>2. ASSUME NEW u \in Targets, active_cycle'[u] # NoCycle
          PROVE  TargetOf[active_cycle'[u]] = u /\ context'[active_cycle'[u]].cycle_state # "unborn"
      <3>1. CASE u = t
        <4>1. active_cycle'[u] = c
          BY <1>2, <1>4, <2>2, <3>1
        <4> QED
          BY <1>1, <3>1, <4>1 DEF t, Born
      <3>2. CASE u # t
        <4>1. active_cycle'[u] = active_cycle[u]
          BY <1>2, <1>4, <3>2
        <4>2. TargetOf[active_cycle[u]] = u /\ Born(active_cycle[u]) /\ active_cycle[u] \in Cycles
          BY <1>4, <2>2, <4>1 DEF IInv, OpenCycleIsReferenced
        <4> QED
          BY <1>1, <4>1, <4>2 DEF Born
      <3> QED
        BY <3>1, <3>2
    <2> QED
      BY <2>1, <2>2 DEF OpenCycleIsReferenced, Born
  <1>8. ReferencesAgree'
    <2>1. ASSUME NEW u \in Targets, active_cycle'[u] # NoCycle, context'[active_cycle'[u]].accepting
          PROVE  ~context'[active_cycle'[u]].permits_released
      <3>1. CASE active_cycle'[u] = c
        BY <1>1, <3>1
      <3>2. CASE active_cycle'[u] # c
        <4>1. active_cycle'[u] = active_cycle[u] /\ active_cycle[u] \in Cycles
          BY <1>2, <1>4, <2>1, <3>2
        <4> QED
          BY <1>1, <2>1, <3>2, <4>1 DEF IInv, ReferencesAgree
      <3> QED
        BY <3>1, <3>2
    <2>2. \A d \in snapshot' : Born(d)'
      <3>1. \A d \in snapshot : d \in Cycles /\ Born(d)
        BY <1>4 DEF IInv, ReferencesAgree
      <3> QED
        BY <1>1, <1>2, <3>1
    <2> QED
      BY <2>1, <2>2 DEF ReferencesAgree, Born
  <1> QED
    BY <1>1, <1>5, <1>6, <1>7, <1>8 DEF IInv

\* Those that give back what they still hold are no longer holders, and the
\* others are unaffected.
LEMMA ReleasingHolders ==
    ASSUME IInv, NEW gone \in SUBSET Cycles, Releasing(gone)
    PROVE  LET holders == {c \in gone : ~context[c].permits_released}
           IN  /\ holders \subseteq Holders
               /\ \A d \in Cycles : Holding(d)' <=> Holding(d) /\ d \notin gone
               /\ \A d \in Cycles : Born(d)' <=> Born(d)
               /\ \A d \in Cycles : context'[d].permits_released <=> context[d].permits_released \/ d \in holders
               /\ Holders' = Holders \ holders
               /\ \A b \in Bmcs :
                     /\ {c \in holders : BmcOf[TargetOf[c]] = b} \subseteq HoldersOn(b)
                     /\ HoldersOn(b)' = HoldersOn(b) \ {c \in holders : BmcOf[TargetOf[c]] = b}
  <1> DEFINE holders == {c \in gone : ~context[c].permits_released}
  <1>1. /\ gone \subseteq Cycles
        /\ \A d \in gone : Born(d)
        /\ \A d \in Cycles \ gone : context'[d] = context[d]
        /\ \A d \in gone : context'[d].permits_released /\ context'[d].cycle_state # "unborn"
    BY DEF Releasing, Spent
  <1>2. \A d \in Cycles : /\ Holding(d)' <=> Holding(d) /\ d \notin gone
                          /\ Born(d)' <=> Born(d)
    BY <1>1 DEF Holding, Born
  <1>3. \A d \in Cycles : context'[d].permits_released <=> context[d].permits_released \/ d \in holders
    BY <1>1
  <1>4. \A d \in gone : d \in holders <=> Holding(d)
    BY <1>1 DEF Holding
  <1> HIDE DEF holders
  <1>5. holders \subseteq gone
    BY DEF holders
  <1>6. holders \subseteq Holders /\ Holders' = Holders \ holders
    BY <1>1, <1>2, <1>4, <1>5 DEF Holders
  <1>7. ASSUME NEW b \in Bmcs
        PROVE  /\ {c \in holders : BmcOf[TargetOf[c]] = b} \subseteq HoldersOn(b)
               /\ HoldersOn(b)' = HoldersOn(b) \ {c \in holders : BmcOf[TargetOf[c]] = b}
    BY <1>1, <1>2, <1>4, <1>5 DEF HoldersOn
  <1>8. /\ holders \subseteq Holders
        /\ \A d \in Cycles : Holding(d)' <=> Holding(d) /\ d \notin gone
        /\ \A d \in Cycles : Born(d)' <=> Born(d)
        /\ \A d \in Cycles : context'[d].permits_released <=> context[d].permits_released \/ d \in holders
        /\ Holders' = Holders \ holders
        /\ \A b \in Bmcs :
              /\ {c \in holders : BmcOf[TargetOf[c]] = b} \subseteq HoldersOn(b)
              /\ HoldersOn(b)' = HoldersOn(b) \ {c \in holders : BmcOf[TargetOf[c]] = b}
    BY <1>2, <1>3, <1>6, <1>7
  <1> QED
    BY <1>8 DEF holders

\* A subset taken away, cardinalities subtract.
LEMMA TakenAway ==
    ASSUME NEW S, IsFiniteSet(S), NEW T \in SUBSET S
    PROVE  /\ Cardinality(S \ T) = Cardinality(S) - Cardinality(T)
           /\ Cardinality(T) \in Nat
  <1>1. IsFiniteSet(T) /\ S \cap T = T
    BY FS_Subset
  <1>2. Cardinality(S \ T) = Cardinality(S) - Cardinality(S \cap T)
    BY FS_Difference
  <1> QED
    BY <1>1, <1>2, FS_CardinalityType

\* Giving back what is still held keeps the invariant.
LEMMA ReleasingKeepsIInv ==
    ASSUME IInv, NEW gone \in SUBSET Cycles, Releasing(gone)
    PROVE  IInv'
  <1> DEFINE holders == {c \in gone : ~context[c].permits_released}
             on(b) == {c \in holders : BmcOf[TargetOf[c]] = b}
  <1>1. /\ holders \subseteq Holders
        /\ \A d \in Cycles : Holding(d)' <=> Holding(d) /\ d \notin gone
        /\ \A d \in Cycles : Born(d)' <=> Born(d)
        /\ Holders' = Holders \ holders
        /\ \A b \in Bmcs : on(b) \subseteq HoldersOn(b) /\ HoldersOn(b)' = HoldersOn(b) \ on(b)
    BY ReleasingHolders
  <1>2. /\ lease_count' = [b \in Bmcs |-> lease_count[b] - Cardinality(on(b))]
        /\ active_cycles' = active_cycles - Cardinality(holders)
    BY DEF Releasing, GiveBackPermits
  <1>3. /\ context' \in [Cycles -> Context]
        /\ \A d \in Cycles \ gone : context'[d] = context[d]
        /\ \A d \in gone : Spent(context'[d])
        /\ \/ ClearReferences(gone)
           \/ active_cycle' = active_cycle /\ \A d \in gone : ~context'[d].accepting
        /\ drain' \in {"not begun", "draining", "over"}
        /\ snapshot' \subseteq snapshot
    BY DEF Releasing
  <1>4. /\ active_cycle \in [Targets -> Cycles \cup {NoCycle}]
        /\ lease_count \in [Bmcs -> Int] /\ active_cycles \in Int
        /\ snapshot \subseteq Cycles
        /\ \A d \in Cycles : Consistent(context[d])
        /\ active_cycles = Cardinality(Holders)
        /\ active_cycles <= max_concurrent_refreshes
        /\ \A b \in Bmcs : lease_count[b] = Cardinality(HoldersOn(b)) /\ lease_count[b] <= max_concurrent_cycles
    BY DEF IInv, TypeOK, PermitAccounting, Holders, HoldersOn
  <1>5. /\ Cardinality(Holders') = Cardinality(Holders) - Cardinality(holders)
        /\ Cardinality(holders) \in Nat
    BY <1>1, HoldersFinite, TakenAway
  <1>6. \A b \in Bmcs : /\ Cardinality(HoldersOn(b)') = Cardinality(HoldersOn(b)) - Cardinality(on(b))
                        /\ Cardinality(on(b)) \in Nat
    BY <1>1, HoldersFinite, TakenAway
  <1> HIDE DEF holders, on
  <1>7. \A t \in Targets :
          \/ active_cycle'[t] = active_cycle[t]
          \/ active_cycle'[t] = NoCycle /\ active_cycle[t] \in gone
    BY <1>3 DEF ClearReferences
  <1>8. active_cycle' \in [Targets -> Cycles \cup {NoCycle}]
    BY <1>3, <1>4 DEF ClearReferences
  <1>9. /\ lease_count' \in [Bmcs -> Int] /\ active_cycles' \in Int
    BY <1>2, <1>4, <1>5, <1>6
  <1>10. TypeOK'
    BY <1>3, <1>4, <1>8, <1>9 DEF TypeOK
  <1>11. PermitAccounting'
    <2>1. active_cycles' = Cardinality(Holders') /\ active_cycles' <= max_concurrent_refreshes
      BY <1>2, <1>4, <1>5, RefreshCycleAssumption
    <2>2. ASSUME NEW b \in Bmcs
          PROVE  lease_count'[b] = Cardinality(HoldersOn(b)') /\ lease_count'[b] <= max_concurrent_cycles
      BY <1>2, <1>4, <1>6, RefreshCycleAssumption
    <2> QED
      BY <2>1, <2>2 DEF PermitAccounting, Holders, HoldersOn
  <1>12. \A d \in Cycles : Consistent(context'[d])
    BY <1>3, <1>4 DEF Spent
  <1>13. OpenCycleIsReferenced'
    <2>1. ASSUME NEW d \in Cycles, Holding(d)'
          PROVE  active_cycle'[TargetOf[d]] = d
      <3>1. d \notin gone /\ active_cycle[TargetOf[d]] = d /\ TargetOf[d] \in Targets
        BY <1>1, <2>1, RefreshCycleAssumption DEF IInv, OpenCycleIsReferenced
      <3> QED
        BY <1>7, <3>1
    <2>2. ASSUME NEW t \in Targets, active_cycle'[t] # NoCycle
          PROVE  TargetOf[active_cycle'[t]] = t /\ context'[active_cycle'[t]].cycle_state # "unborn"
      <3>1. active_cycle'[t] = active_cycle[t] /\ active_cycle[t] \in Cycles
        BY <1>4, <1>7, <2>2
      <3>2. TargetOf[active_cycle[t]] = t /\ Born(active_cycle[t])
        BY <2>2, <3>1 DEF IInv, OpenCycleIsReferenced
      <3> QED
        BY <1>1, <3>1, <3>2 DEF Born
    <2> QED
      BY <2>1, <2>2 DEF OpenCycleIsReferenced, Born
  <1>14. ReferencesAgree'
    <2>1. ASSUME NEW t \in Targets, active_cycle'[t] # NoCycle, context'[active_cycle'[t]].accepting
          PROVE  ~context'[active_cycle'[t]].permits_released
      <3>1. active_cycle'[t] = active_cycle[t] /\ active_cycle[t] \in Cycles
        BY <1>4, <1>7, <2>1
      <3>2. active_cycle[t] \notin gone
        BY <1>3, <2>1, <3>1, RefreshCycleAssumption DEF ClearReferences
      <3>3. context'[active_cycle[t]] = context[active_cycle[t]]
        BY <1>3, <3>1, <3>2
      <3> QED
        BY <2>1, <3>1, <3>3 DEF IInv, ReferencesAgree
    <2>2. \A d \in snapshot' : context'[d].cycle_state # "unborn"
      BY <1>1, <1>3, <1>4 DEF IInv, ReferencesAgree, Born
    <2> QED
      BY <2>1, <2>2 DEF ReferencesAgree, Born
  <1> QED
    BY <1>10, <1>11, <1>12, <1>13, <1>14 DEF IInv

\* The initial states.
LEMMA InitIInv == Init => IInv
  <1> SUFFICES ASSUME Init PROVE IInv
    OBVIOUS
  <1>1. \A c \in Cycles : context[c] = Unborn
    BY DEF Init
  <1>2. TypeOK
    <2>1. context \in [Cycles -> Context]
      BY UnbornLocal DEF Init
    <2>5. active_cycle = [t \in Targets |-> NoCycle]
      BY DEF Init
    <2>2. active_cycle \in [Targets -> Cycles \cup {NoCycle}]
      BY <2>5
    <2>6. lease_count = [b \in Bmcs |-> 0] /\ active_cycles = 0
      BY DEF Init
    <2>3. lease_count \in [Bmcs -> Int] /\ active_cycles \in Int
      BY <2>6
    <2>4. drain \in {"not begun", "draining", "over"} /\ snapshot \subseteq Cycles
      BY DEF Init
    <2> QED
      BY <2>1, <2>2, <2>3, <2>4 DEF TypeOK
  <1>3. \A c \in Cycles : Consistent(context[c])
    BY <1>1, UnbornLocal
  <1>4. \A c \in Cycles : ~Born(c) /\ ~Holding(c)
    BY <1>1 DEF Born, Holding, Unborn
  <1>5. PermitAccounting
    <2>1. Holders = {} /\ \A b \in Bmcs : HoldersOn(b) = {}
      BY <1>4 DEF Holders, HoldersOn
    <2>2. /\ active_cycles = Cardinality(Holders)
          /\ \A b \in Bmcs : lease_count[b] = Cardinality(HoldersOn(b)) /\ lease_count[b] = 0
          /\ active_cycles = 0
      BY <2>1, FS_EmptySet DEF Init
    <2> QED
      BY <2>2, RefreshCycleAssumption DEF PermitAccounting, Holders, HoldersOn
  <1>6. OpenCycleIsReferenced /\ ReferencesAgree
    BY <1>4 DEF Init, OpenCycleIsReferenced, ReferencesAgree
  <1> QED
    BY <1>2, <1>3, <1>5, <1>6 DEF IInv

\* Every step keeps the invariant.
LEMMA StepIInv == IInv /\ [Next]_vars => IInv'
  <1> SUFFICES ASSUME IInv, [Next]_vars PROVE IInv'
    OBVIOUS
  <1>1. CASE Next
    BY <1>1, StepKinds, SteadyKeepsIInv, OpenKeepsIInv, ReleasingKeepsIInv DEF Opening
  <1>2. CASE UNCHANGED vars
    <2>1. /\ context' = context /\ active_cycle' = active_cycle /\ lease_count' = lease_count
          /\ active_cycles' = active_cycles /\ drain' = drain /\ snapshot' = snapshot
      BY <1>2 DEF vars
    <2>2. TypeOK' /\ \A c \in Cycles : Consistent(context'[c])
      BY <2>1 DEF IInv, TypeOK
    <2>3. PermitAccounting'
      BY <2>1 DEF IInv, PermitAccounting, Holding, Born
    <2>4. OpenCycleIsReferenced' /\ ReferencesAgree'
      BY <2>1 DEF IInv, OpenCycleIsReferenced, ReferencesAgree, Holding, Born
    <2> QED
      BY <2>2, <2>3, <2>4 DEF IInv
  <1> QED
    BY <1>1, <1>2

\* In every state of every run, each context is consistent, the permits add up
\* and each target refers to its open cycle.
THEOREM RefreshCycleInvariant == Spec => []IInv
  BY InitIInv, StepIInv, PTL DEF Spec

\* Every variable has its type.
THEOREM TypeCorrect == Spec => []TypeOK
  <1>1. IInv => TypeOK
    BY DEF IInv
  <1> QED
    BY <1>1, RefreshCycleInvariant, PTL

\* However a cycle ends, its permits are given back once: the two counts are
\* the cycles that still hold theirs, and never exceed their limits.
THEOREM PermitsAddUp == Spec => []PermitAccounting
  <1>1. IInv => PermitAccounting
    BY DEF IInv
  <1> QED
    BY <1>1, RefreshCycleInvariant, PTL

\* A target has at most one open cycle, and refers to it until it closes.
THEOREM OneOpenCycle == Spec => []OpenCycleIsReferenced
  <1>1. IInv => OpenCycleIsReferenced
    BY DEF IInv
  <1> QED
    BY <1>1, RefreshCycleInvariant, PTL

\* A cycle that gave its permits back has no credential, accepts nothing, waits
\* for no lease and owes no follower an answer.
THEOREM NothingHeldAfterRelease == Spec => []ReleasedHoldsNothing
  <1>1. ASSUME IInv PROVE ReleasedHoldsNothing
    <2>1. ASSUME NEW c \in Cycles, context[c].permits_released
          PROVE  /\ ~context[c].token
                 /\ context[c].accepting_requests => context[c].cycle_task = "done"
                 /\ context[c].accepting => context[c].cycle_task = "done"
                 /\ context[c].dispatcher_cleared \/ context[c].lane_tasks = [l \in Lanes |-> "none"]
                 /\ \A l \in context[c].accepted_lanes : Settled(context[c], l)
      <3> DEFINE x == context[c]
      <3>1. x \in Context /\ LanesAgree(x) /\ ReleaseAgrees(x)
        BY <1>1 DEF IInv, TypeOK, Consistent
      <3>2. \A l \in x.accepted_lanes : Settled(x, l)
        BY <2>1, <3>1 DEF Context, LanesAgree, ReleaseAgrees, Settled, FutureStates
      <3>3. NoLaneEver(x) => x.lane_tasks = [l \in Lanes |-> "none"]
        BY <3>1 DEF Context, NoLaneEver
      <3> QED
        BY <2>1, <3>1, <3>2, <3>3 DEF ReleaseAgrees
    <2> QED
      BY <2>1 DEF ReleasedHoldsNothing
  <1> QED
    BY <1>1, RefreshCycleInvariant, PTL

\* The future that a new generation of a lane replaces has its answer, and so
\* does every future of a closed cycle.
THEOREM FuturesAreSettled == Spec => []NoOrphanedFuture
  <1>1. ASSUME IInv PROVE NoOrphanedFuture
    <2>1. ASSUME NEW c \in Cycles
          PROVE  LET x == context[c]
                 IN  /\ x.accepting => \A l \in x.accepted_lanes : LaneIdle(x, l) => Settled(x, l)
                     /\ x.cycle_state \in {"CLOSED", "ABANDONED"} => \A l \in x.accepted_lanes : Settled(x, l)
      <3> DEFINE x == context[c]
      <3>1. x \in Context /\ LanesAgree(x) /\ ReleaseAgrees(x)
        BY <1>1 DEF IInv, TypeOK, Consistent
      <3>2. \A l \in x.accepted_lanes : l \in Lanes /\ (Settled(x, l) <=> x.lane_futures[l] # "pending")
        BY <3>1 DEF Context, LanesAgree, Settled, FutureStates
      <3> HIDE DEF x
      <3>3. x.accepting => \A l \in x.accepted_lanes : LaneIdle(x, l) => Settled(x, l)
        BY <3>1, <3>2 DEF LanesAgree, LaneIdle
      <3>4. x.cycle_state \in {"CLOSED", "ABANDONED"} => \A l \in x.accepted_lanes : Settled(x, l)
        BY <3>1, <3>2 DEF ReleaseAgrees
      <3> QED
        BY <3>3, <3>4 DEF x
    <2> QED
      BY <2>1 DEF NoOrphanedFuture
  <1> QED
    BY <1>1, RefreshCycleInvariant, PTL

\* The scheduler never waits, in time, with a lane requested that it could
\* start, unless it is about to be woken.
THEOREM WakeUpsAreNotLost == Spec => []NoLostWakeUp
  <1>1. IInv => NoLostWakeUp
    BY DEF IInv, Consistent, NoLostWakeUp
  <1> QED
    BY <1>1, RefreshCycleInvariant, PTL

\* Once the cleanup has taken stock, every job has been asked to stop, and no
\* fetch of another one is registered.
THEOREM CleanupTakesStock == Spec => []NothingEscapesCleanup
  <1>1. ASSUME IInv PROVE NothingEscapesCleanup
    <2>1. ASSUME NEW c \in Cycles, context[c].cleanup_task \notin {"none", "created", "committing"}
          PROVE  LET x == context[c]
                 IN  /\ \A l \in Lanes : x.lane_tasks[l] # "running"
                     /\ \A l \in x.active_requests : x.lane_tasks[l] = "cancelling"
                     /\ x.cleanup_task \in {"clearing", "cleared", "done"} => x.active_requests = {}
      <3>1. LanesAgree(context[c]) /\ RequestsAgree(context[c])
        BY <1>1 DEF IInv, Consistent
      <3> QED
        BY <2>1, <3>1 DEF LanesAgree, RequestsAgree, PastCommit, Running
    <2> QED
      BY <2>1 DEF NothingEscapesCleanup
  <1> QED
    BY <1>1, RefreshCycleInvariant, PTL

\* A job that may still publish read the lane state that the target has.
THEOREM PublicationsAreCurrent == Spec => []LiveJobsAreCurrent
  <1>1. IInv => LiveJobsAreCurrent
    BY DEF IInv, Consistent, JobsAgree, LiveJobsAreCurrent
  <1> QED
    BY <1>1, RefreshCycleInvariant, PTL

-----------------------------------------------------------------------------
(* RefreshCycle implements CyclePermits *)

\* The cardinality of CyclePermits is that of this module.
LEMMA SameCardinality ==
    ASSUME NEW S
    PROVE  CyclePermits!Cardinality(S) = Cardinality(S)
  BY DEF CyclePermits!Cardinality, Cardinality

\* The abstract variables are the holders and the cycles that gave back.
LEMMA MappedVariables ==
    /\ CyclePermits!permits = <<Holders, {c \in Cycles : context[c].permits_released}>>
    /\ \A b : CyclePermits!HoldingOn(b) = {c \in Holders : BmcOf[TargetOf[c]] = b}
  BY DEF CyclePermits!permits, CyclePermits!HoldingOn, Holders

\* A steady step takes and gives nothing.
LEMMA SteadyStutters ==
    ASSUME IInv, Steady
    PROVE  UNCHANGED CyclePermits!permits
  <1>1. Holders' = Holders
    BY SteadyHolders
  <1>2. {c \in Cycles : context'[c].permits_released} = {c \in Cycles : context[c].permits_released}
    BY SteadyHolders
  <1> QED
    BY <1>1, <1>2 DEF CyclePermits!permits, Holders

\* Opening a cycle takes its permits.
LEMMA OpenTakes ==
    ASSUME IInv, NEW c \in Cycles, NEW due \in SUBSET Lanes, Open(c, due)
    PROVE  CyclePermits!Take(c)
  <1> DEFINE b == BmcOf[TargetOf[c]]
  <1>1. /\ ~Born(c)
        /\ Holders' = Holders \cup {c} /\ c \notin Holders
        /\ \A d \in Cycles \ {c} : context'[d] = context[d]
        /\ ~context'[c].permits_released
    BY OpenHolders
  <1>2. ~context[c].permits_released
    BY <1>1 DEF Born, IInv, Consistent, ReleaseAgrees
  <1>3. \A d \in Holders : TargetOf[d] # TargetOf[c]
    BY RefreshCycleAssumption DEF Open, Holders, IInv, OpenCycleIsReferenced
  <1>4. {d \in Holders : BmcOf[TargetOf[d]] = b} = HoldersOn(b)
    BY DEF Holders, HoldersOn
  <1>5. b \in Bmcs
    BY RefreshCycleAssumption
  <1>6. Cardinality(HoldersOn(b)) < max_concurrent_cycles /\ Cardinality(Holders) < max_concurrent_refreshes
    <2>1. Cardinality(HoldersOn(b)) = lease_count[b] /\ Cardinality(Holders) = active_cycles
      BY <1>5 DEF IInv, PermitAccounting, Holders, HoldersOn
    <2> QED
      BY <2>1 DEF Open
  <1>7. CyclePermits!Cardinality(CyclePermits!HoldingOn(b)) < max_concurrent_cycles
    BY <1>4, <1>6, SameCardinality, MappedVariables
  <1>8. CyclePermits!Cardinality(Holders) < max_concurrent_refreshes
    BY <1>6, SameCardinality
  <1>9. {d \in Cycles : context'[d].permits_released} = {d \in Cycles : context[d].permits_released}
    BY <1>1, <1>2
  <1> QED
    BY <1>1, <1>2, <1>3, <1>7, <1>8, <1>9 DEF CyclePermits!Take, Holders

\* A release gives back what is still held.
LEMMA ReleasingGivesBack ==
    ASSUME IInv, NEW gone \in SUBSET Cycles, Releasing(gone)
    PROVE  \E given \in SUBSET Holders : CyclePermits!GiveBack(given)
  <1> DEFINE holders == {c \in gone : ~context[c].permits_released}
  <1>1. /\ holders \subseteq Holders
        /\ \A d \in Cycles : context'[d].permits_released <=> context[d].permits_released \/ d \in holders
        /\ Holders' = Holders \ holders
    BY ReleasingHolders
  <1>2. {d \in Cycles : context'[d].permits_released} = {d \in Cycles : context[d].permits_released} \cup holders
    BY <1>1
  <1>3. CyclePermits!GiveBack(holders)
    BY <1>1, <1>2 DEF CyclePermits!GiveBack, Holders
  <1>4. holders \in SUBSET Holders
    BY <1>1
  <1> HIDE DEF holders
  <1> QED
    BY <1>3, <1>4 DEF CyclePermits!GiveBack

\* Opening and closing cycles takes and gives back permits as CyclePermits
\* promises, for every number of cycles, targets, BMCs and permits.
THEOREM RefreshCycleImplementsCyclePermits == Spec => ImplementsCyclePermits
  <1>1. Init => CyclePermits!PermitsInit
    <2> SUFFICES ASSUME Init PROVE CyclePermits!PermitsInit
      OBVIOUS
    <2>1. \A c \in Cycles : context[c].cycle_state = "unborn" /\ ~context[c].permits_released
      BY DEF Init, Unborn
    <2>2. /\ {c \in Cycles : Holding(c)} = {}
          /\ {c \in Cycles : context[c].permits_released} = {}
      BY <2>1 DEF Holding, Born
    <2> QED
      BY <2>2 DEF CyclePermits!PermitsInit
  <1>2. IInv /\ [Next]_vars => [CyclePermits!PermitsNext]_CyclePermits!permits
    <2> SUFFICES ASSUME IInv, [Next]_vars
                 PROVE  CyclePermits!PermitsNext \/ UNCHANGED CyclePermits!permits
      OBVIOUS
    <2>1. CASE UNCHANGED vars
      BY <2>1 DEF vars, CyclePermits!permits, Holding, Born
    <2>2. CASE Next
      <3>1. CASE Steady
        BY <3>1, SteadyStutters
      <3>2. CASE Opening
        BY <3>2, OpenTakes DEF Opening, CyclePermits!PermitsNext
      <3>3. ASSUME NEW gone \in SUBSET Cycles, Releasing(gone)
            PROVE  CyclePermits!PermitsNext
        BY <3>3, ReleasingGivesBack DEF CyclePermits!PermitsNext, Holders
      <3> QED
        BY <2>2, <3>1, <3>2, <3>3, StepKinds
    <2> QED
      BY <2>1, <2>2
  <1> QED
    BY <1>1, <1>2, RefreshCycleInvariant, PTL DEF Spec, ImplementsCyclePermits, CyclePermits!PermitsSpec

-----------------------------------------------------------------------------
(* SlowNeverStartsCold: Slow is first started by a pass of the scheduler,   *)
(* which has seen by then how Fast's attempt went.                          *)

\* A step from x to y that does not start Slow cold.
Warm(x, y) ==
    x.lane_tasks["slow"] = "none" /\ y.lane_tasks["slow"] # "none" =>
        y.lane_tasks["fast"] \in {"none", "ok"}

AllWarm == \A c \in Cycles : Warm(context[c], context'[c])

\* A context about which the scheduler knows how Fast ended.
Informed(x) ==
    x.lane_tasks["slow"] = "none" =>
        /\ x.lane_tasks["fast"] \in {"none", "running", "ok", "failed"}
        /\ x.lane_tasks["fast"] = "failed" => x.cold_fast_failed

\* The gate: a lane that is started with Fast pending or running is not Slow, and
\* a failure of Fast bars Slow.
LEMMA PassIsWarm ==
    ASSUME NEW x \in Context, Informed(x), NEW y, y = Pass(x)
    PROVE  Warm(x, y)
  <1>1. CASE NothingToDo(x)
    BY <1>1 DEF Pass, StopAccepting, Closing, FailLaneFutures, Warm, Context
  <1>2. CASE ~NothingToDo(x)
    <2>1. \A l \in Lanes : y.lane_tasks[l] = IF l \in Started(x) THEN "running" ELSE x.lane_tasks[l]
      BY <1>2 DEF Pass, StartLanes, FailLaneFutures, Context
    <2> SUFFICES ASSUME x.lane_tasks["slow"] = "none", y.lane_tasks["slow"] # "none"
                 PROVE  y.lane_tasks["fast"] \in {"none", "ok"}
      BY DEF Warm
    <2>2. "slow" \in PendingLanes(x) /\ (Started(x) = PendingLanes(x) \/ Started(x) = {})
      BY <2>1 DEF Lanes, Started
    <2>3. SlowRequestedNow(x) /\ ~GateSlowForFirstRun(x)
      BY <2>2 DEF PendingLanes
    <2>4. ~FastPending(x) /\ ~Running(x, "fast") /\ ~x.cold_fast_failed
      BY <2>3 DEF GateSlowForFirstRun, SlowRequestedNow, SlowBarred
    <2>5. "fast" \notin Started(x)
      BY <2>2, <2>4 DEF PendingLanes
    <2>6. y.lane_tasks["fast"] = x.lane_tasks["fast"]
      BY <2>1, <2>5 DEF Lanes
    <2> QED
      BY <2>4, <2>6 DEF Informed, Running
  <1> QED
    BY <1>1, <1>2

\* A step of one context.
LEMMA LocalIsWarm ==
    ASSUME IInv, NEW c \in Cycles, NEW y, Update(c, y), Warm(context[c], y)
    PROVE  AllWarm
  <1>1. \A d \in Cycles : context'[d] = IF d = c THEN y ELSE context[d]
    BY DEF Update, IInv, TypeOK
  <1> QED
    BY <1>1 DEF AllWarm, Warm

\* Failing the futures and closing leave the lane tasks alone.
LEMMA TasksUntouched ==
    ASSUME NEW x \in Context
    PROVE  /\ FailOutstanding(x).lane_tasks = x.lane_tasks
           /\ Closing(x).lane_tasks = x.lane_tasks
           /\ Closing(FailOutstanding(x)).lane_tasks = x.lane_tasks
  BY DEF Context, FailOutstanding, Closing

\* Cancelling them starts none.
LEMMA CancellingStartsNone ==
    ASSUME NEW x \in Context
    PROVE  /\ Warm(x, CommittedToClosing(x))
           /\ Warm(x, Abandoned(x))
  <1>1. \A l \in Lanes : x.lane_tasks[l] = "none" =>
            CommittedToClosing(x).lane_tasks[l] = "none" /\ Abandoned(x).lane_tasks[l] = "none"
    BY DEF Context, CommittedToClosing, Abandoned, CancelLanes, FailOutstanding, ReleasePermits
  <1> QED
    BY <1>1 DEF Warm, Lanes

LEMMA CycleTaskIsWarm ==
    ASSUME IInv, NEW c \in Cycles, CycleTaskStep(c)
    PROVE  AllWarm
  <1> DEFINE x == context[c]
  <1>1. x \in Context /\ Consistent(x)
    BY DEF IInv, TypeOK
  <1> SUFFICES \E y : Update(c, y) /\ Warm(x, y)
    BY LocalIsWarm
  <1>2. CASE CycleTaskStarts(c)
    <2> DEFINE y == IF x.cancelled
                    THEN [x EXCEPT !.cycle_task = "done", !.cancelled = FALSE]
                    ELSE [x EXCEPT !.cycle_task = "login", !.cycle_state = "RUNNING"]
    <2>1. Update(c, y)
      BY <1>2 DEF CycleTaskStarts, Local
    <2>2. y.lane_tasks = x.lane_tasks
      BY <1>1 DEF Context
    <2> QED
      BY <2>1, <2>2 DEF Warm
  <1>3. CASE LoginReturns(c)
    <2> DEFINE y == [x EXCEPT !.token = is_live(x), !.cancelled = FALSE]
    <2>1. y \in Context /\ y.lane_tasks = x.lane_tasks
      BY <1>1 DEF Context, is_live
    <2>2. x.lane_tasks["slow"] = "none" /\ x.lane_tasks["fast"] = "none"
      BY <1>1, <1>3 DEF LoginReturns, Consistent, StagesAgree, NoLaneEver, Lanes
    <2>3. Informed(y)
      BY <2>1, <2>2 DEF Informed
    <2>4. Update(c, IF is_live(x) THEN Pass(y) ELSE Closing(FailOutstanding(y)))
      BY <1>3 DEF LoginReturns, Local
    <2> HIDE DEF y
    <2>5. Warm(y, Pass(y)) /\ Warm(y, Closing(FailOutstanding(y)))
      BY <2>1, <2>3, PassIsWarm, TasksUntouched DEF Warm
    <2> QED
      BY <2>1, <2>4, <2>5 DEF Warm
  <1>4. CASE LoginFails(c) \/ LoginCancelled(c) \/ SchedulerCancelled(c)
    BY <1>1, <1>4, TasksUntouched DEF LoginFails, LoginCancelled, SchedulerCancelled, Local, Warm
  <1>5. CASE WakeByEvent(c)
    <2> DEFINE y == Collect([x EXCEPT !.wake_event = FALSE])
    <2>1. /\ y \in Context /\ y.lane_tasks = x.lane_tasks
          /\ x.lane_tasks["fast"] = "failed" /\ x.lane_tasks["slow"] = "none" => y.cold_fast_failed
      BY <1>1 DEF Context, Collect
    <2>2. x.cycle_task = "waiting" /\ ~x.cancelled /\ Update(c, Pass(y))
      BY <1>5 DEF WakeByEvent, Local
    <2> HIDE DEF y
    <2>3. Informed(y)
      <3>1. x.lane_tasks["fast"] \in TaskStates
        BY <1>1 DEF Context, Lanes
      <3> QED
        BY <1>1, <2>1, <2>2, <3>1 DEF Informed, Consistent, WaitAgrees, TaskStates
    <2> QED
      BY <2>1, <2>2, <2>3, PassIsWarm DEF Warm
  <1>6. CASE WakeByLane(c)
    BY <1>1, <1>6 DEF WakeByLane, Local, Warm, Context
  <1>7. CASE Reap(c)
    <2> DEFINE y == Collect([x EXCEPT !.cancelled = FALSE])
    <2>1. /\ y \in Context /\ y.lane_tasks = x.lane_tasks
          /\ x.lane_tasks["fast"] = "failed" /\ x.lane_tasks["slow"] = "none" => y.cold_fast_failed
      BY <1>1 DEF Context, Collect
    <2>2. x.cycle_task = "reaping" /\ Update(c, Pass(y))
      BY <1>7 DEF Reap, Local
    <2> HIDE DEF y
    <2>3. Informed(y)
      BY <1>1, <2>1, <2>2 DEF Informed, Consistent, WaitAgrees
    <2> QED
      BY <2>1, <2>2, <2>3, PassIsWarm DEF Warm
  <1>8. CASE CycleTaskEnds(c)
    <2> DEFINE y == [x EXCEPT !.cycle_task = "done", !.cancelled = FALSE]
    <2>1. Update(c, y)
      BY <1>8 DEF CycleTaskEnds, Local
    <2>2. y.lane_tasks = x.lane_tasks
      BY <1>1 DEF Context
    <2> QED
      BY <2>1, <2>2 DEF Warm
  <1> QED
    BY <1>2, <1>3, <1>4, <1>5, <1>6, <1>7, <1>8 DEF CycleTaskStep

\* A lane task that ends was running.
LEMMA LaneEndsIsWarm ==
    ASSUME IInv, NEW c \in Cycles, NEW l \in Lanes, NEW result, NEW publishes, LaneEnds(c, l, result, publishes)
    PROVE  AllWarm
  <1>1. \A d \in Cycles : context[d] \in Context
    BY DEF IInv, TypeOK
  <1>2. Running(context[c], l)
    BY DEF LaneEnds
  <1>3. \A d \in Cycles : context[d].lane_tasks["slow"] = "none" => context'[d].lane_tasks["slow"] = "none"
    BY <1>1, <1>2 DEF LaneEnds, Running, Context, Lanes
  <1> QED
    BY <1>3 DEF AllWarm, Warm

LEMMA LaneIsWarm ==
    ASSUME IInv, NEW c \in Cycles, NEW l \in Lanes, LaneStep(c, l)
    PROVE  AllWarm
  <1> DEFINE x == context[c]
  <1>1. x \in Context
    BY DEF IInv, TypeOK
  <1>2. CASE BeginFetch(c, l) \/ EndFetch(c, l)
    <2>1. \E y : Update(c, y) /\ Warm(x, y)
      BY <1>1, <1>2 DEF BeginFetch, EndFetch, Local, Warm, Context
    <2> QED
      BY <2>1, LocalIsWarm
  <1>3. CASE LaneSucceeds(c, l) \/ LaneFails(c, l)
    BY <1>3, LaneEndsIsWarm DEF LaneSucceeds, LaneFails
  <1>4. CASE LaneCancelled(c, l)
    <2> DEFINE y == [x EXCEPT !.lane_tasks[l] = "cancelled",
                              !.active_requests = @ \ {l},
                              !.superseded = @ \ {l}]
    <2>1. Update(c, y) /\ x.lane_tasks[l] = "cancelling"
      BY <1>4 DEF LaneCancelled, Local
    <2>2. x.lane_tasks["slow"] = "none" => y.lane_tasks["slow"] = "none"
      BY <1>1, <2>1 DEF Context, Lanes
    <2> HIDE DEF y
    <2>3. Warm(x, y)
      BY <2>2 DEF Warm
    <2> QED
      BY <2>1, <2>3, LocalIsWarm
  <1> QED
    BY <1>2, <1>3, <1>4 DEF LaneStep

LEMMA CleanupIsWarm ==
    ASSUME IInv, NEW c \in Cycles, CleanupStep(c)
    PROVE  AllWarm
  <1> DEFINE x == context[c]
  <1>1. x \in Context
    BY DEF IInv, TypeOK
  <1> SUFFICES \E y : Update(c, y) /\ Warm(x, y)
    BY LocalIsWarm
  <1>2. CASE CleanupStarts(c)
    <2> DEFINE y == [x EXCEPT !.cleanup_task = "committing"]
    <2>1. Update(c, y)
      BY <1>2 DEF CleanupStarts, Local
    <2>2. y.lane_tasks = x.lane_tasks
      BY <1>1 DEF Context
    <2> QED
      BY <2>1, <2>2 DEF Warm
  <1>3. CASE CommitToClosing(c)
    BY <1>1, <1>3, CancellingStartsNone DEF CommitToClosing, Local
  <1>4. CASE DrainEnds(c) \/ LogoutEnds(c)
    <2> DEFINE y == [x EXCEPT !.cleanup_task = "logout"]
               z == [x EXCEPT !.cleanup_task = "disconnecting", !.dispatcher_cleared = TRUE]
    <2>1. Update(c, y) \/ Update(c, z)
      BY <1>4 DEF DrainEnds, LogoutEnds, Local
    <2>2. y.lane_tasks = x.lane_tasks /\ z.lane_tasks = x.lane_tasks
      BY <1>1 DEF Context
    <2> QED
      BY <2>1, <2>2 DEF Warm
  <1>5. CASE Finalize(c)
    <2>1. Finalized(x).lane_tasks = x.lane_tasks
      BY <1>1 DEF Finalized, FailOutstanding, ReleasePermits, Context
    <2> QED
      BY <1>5, <2>1 DEF Finalize, Warm
  <1>6. CASE ClearTargetReference(c)
    <2> DEFINE y == [x EXCEPT !.cleanup_task = "cleared"]
    <2>1. Update(c, y)
      BY <1>6 DEF ClearTargetReference, Local
    <2>2. y.lane_tasks = x.lane_tasks
      BY <1>1 DEF Context
    <2> QED
      BY <2>1, <2>2 DEF Warm
  <1>7. CASE CleanupEnds(c)
    <2> DEFINE y == [x EXCEPT !.cleanup_task = "done",
                              !.cycle_state = IF @ = "ABANDONED" THEN @ ELSE "CLOSED"]
    <2>1. Update(c, y)
      BY <1>7 DEF CleanupEnds, Local
    <2>2. y.lane_tasks = x.lane_tasks
      BY <1>1 DEF Context
    <2> QED
      BY <2>1, <2>2 DEF Warm
  <1> QED
    BY <1>2, <1>3, <1>4, <1>5, <1>6, <1>7 DEF CleanupStep

LEMMA RestIsWarm ==
    ASSUME IInv, NEW c \in Cycles,
           FinalizeIfNeverStarted(c) \/ DeadlineFires(c) \/ ClockTicks(c)
    PROVE  AllWarm
  <1> DEFINE x == context[c]
  <1>1. x \in Context
    BY DEF IInv, TypeOK
  <1> SUFFICES \E y : Update(c, y) /\ Warm(x, y)
    BY LocalIsWarm
  <1>2. CASE FinalizeIfNeverStarted(c)
    <2> DEFINE y == ReleasePermits(FailOutstanding([x EXCEPT !.cycle_state = "ABANDONED"]))
    <2>1. Update(c, y)
      BY <1>2 DEF FinalizeIfNeverStarted
    <2>2. y.lane_tasks = x.lane_tasks
      BY <1>1 DEF Context, ReleasePermits, FailOutstanding
    <2> QED
      BY <2>1, <2>2 DEF Warm
  <1>3. CASE DeadlineFires(c)
    BY <1>1, <1>3, TasksUntouched DEF DeadlineFires, Local, Warm, Context
  <1>4. CASE ClockTicks(c)
    BY <1>1, <1>4 DEF ClockTicks, Local, Warm, Context
  <1> QED
    BY <1>2, <1>3, <1>4

LEMMA EnsureCycleIsWarm ==
    ASSUME IInv, ensure_cycle
    PROVE  AllWarm
  <1>1. ASSUME NEW t \in Targets, NEW due \in SUBSET Lanes, Attach(t, due)
        PROVE  AllWarm
    <2> DEFINE c == active_cycle[t]
               newly_due == {l \in due : l \notin context[c].accepted_lanes \/ LaneIdle(context[c], l)}
    <2>1. c \in Cycles /\ Update(c, Attached(context[c], newly_due))
      BY <1>1 DEF Attach, IInv, TypeOK
    <2>2. Attached(context[c], newly_due).lane_tasks = context[c].lane_tasks
      BY <2>1 DEF Attached, IInv, TypeOK, Context
    <2> QED
      BY <2>1, <2>2, LocalIsWarm DEF Warm
  <1>2. ASSUME NEW c \in Cycles, NEW due \in SUBSET Lanes, Open(c, due)
        PROVE  AllWarm
    <2>1. Update(c, Opened(due))
      BY <1>2 DEF Open
    <2>2. Opened(due).lane_tasks["slow"] = "none"
      BY DEF Opened, Unborn, Lanes
    <2> QED
      BY <2>1, <2>2, LocalIsWarm DEF Warm
  <1>3. \A t \in Targets : LanesOf(t) \subseteq Lanes
    BY DEF LanesOf, Lanes
  <1>4. \A c \in Cycles : TargetOf[c] \in Targets
    BY RefreshCycleAssumption DEF RefreshCycleAssumption
  <1> QED
    BY <1>1, <1>2, <1>3, <1>4 DEF ensure_cycle

LEMMA ShutdownIsWarm ==
    ASSUME IInv, ShutdownBegins \/ ShutdownEnds
    PROVE  AllWarm
  <1>1. \A c \in Cycles : context[c] \in Context
    BY DEF IInv, TypeOK
  <1>2. CASE ShutdownBegins
    BY <1>1, <1>2 DEF ShutdownBegins, AllWarm, Warm, Context
  <1>3. CASE ShutdownEnds
    <2>1. \A c \in Cycles : context'[c] = Abandoned(context[c]) \/ context'[c] = context[c]
      BY <1>3 DEF ShutdownEnds
    <2> QED
      BY <1>1, <2>1, CancellingStartsNone DEF AllWarm, Warm
  <1> QED
    BY <1>2, <1>3

\* Slow's first attempt of a cycle is not started beside one of Fast, nor after one
\* that failed, whatever the order of attachments, results and cancellations
\* (gate_slow_for_first_run, cold_fast_failed).
THEOREM SlowWaitsForFast == Spec => SlowNeverStartsCold
  <1>1. IInv /\ Next => AllWarm
    BY EnsureCycleIsWarm, CycleTaskIsWarm, RestIsWarm, LaneIsWarm, CleanupIsWarm, ShutdownIsWarm DEF Next
  <1>2. IInv /\ [Next]_vars =>
            [\A c \in Cycles :
                context[c].lane_tasks["slow"] = "none" /\ context'[c].lane_tasks["slow"] # "none" =>
                    context'[c].lane_tasks["fast"] \in {"none", "ok"}]_vars
    BY <1>1 DEF AllWarm, Warm
  <1> QED
    BY RefreshCycleInvariant, <1>2, PTL DEF Spec, SlowNeverStartsCold

-----------------------------------------------------------------------------
(* RefreshCycle implements TargetCycle: what a step of one context shows to *)
(* the others is nothing, or a step of the abstract cycle.                  *)

\* The steps that TargetCycle lets a cycle make while it has one, from v to w.
TurnedBy(v, started, refused) ==
    [v EXCEPT !.requested = @ \ (started \cup refused),
              !.running = @ \cup started,
              !.slow_may = IF "slow" \in started THEN "start" ELSE @]

ClosedWith(v, refused) == [v EXCEPT !.phase = "closing", !.requested = @ \ refused]

Turns(v, w) ==
    \E started, refused \in SUBSET Lanes :
        /\ v.phase \in {"open", "late", "expired"}
        /\ started \subseteq v.requested \ v.running
        /\ started # {} => v.phase = "open"
        /\ "slow" \in started =>
              \/ v.slow_may = "start"
              \/ v.slow_may = "follow" /\ "fast" \notin v.requested \cup v.running
        /\ refused \subseteq v.requested \ started
        /\ \A l \in refused : v.phase \in {"late", "expired"} \/ (l = "slow" /\ v.slow_may = "not")
        /\ w = TurnedBy(v, started, refused)

EndedBy(v, l, failed) ==
    [v EXCEPT !.running = @ \ {l},
              !.slow_may = IF failed /\ l = "fast" /\ @ = "follow" THEN "not" ELSE @]

Ends(v, w) ==
    \E l \in Lanes, failed \in BOOLEAN :
        /\ l \in v.running
        /\ w = EndedBy(v, l, failed)

Ages(v, w) ==
    \/ v.phase = "open" /\ w = [v EXCEPT !.phase = "late"]
    \/ v.phase = "late" /\ w = [v EXCEPT !.phase = "expired"]

Closes(v, w, begun) ==
    \E refused \in SUBSET Lanes :
        /\ v.phase \in {"open", "late", "expired"}
        /\ begun \/ v.phase = "expired" \/ v.running = {}
        /\ refused \subseteq v.requested
        /\ \A l \in refused : v.phase \in {"late", "expired"} \/ (l = "slow" /\ v.slow_may = "not")
        /\ w = ClosedWith(v, refused)

Attaches(v, w) ==
    \E due \in SUBSET Lanes :
        /\ v.phase \in {"open", "late", "expired"}
        /\ w = [v EXCEPT !.requested = @ \cup (due \ v.running)]

Moves(v, w, begun) ==
    w = v \/ Attaches(v, w) \/ Turns(v, w) \/ Ends(v, w) \/ Ages(v, w) \/ Closes(v, w, begun)

\* A step from x to y as the abstract cycle allows it.
Orderly(x, y, begun) ==
    /\ EndsForAReason(y, begun)
    /\ y.cycle_state = "ABANDONED" => x.cycle_state = "ABANDONED"
    /\ x.cycle_state # "ABANDONED" => Moves(View(x), View(y), begun)

\* What ImplementsTargetCycle and SeenInv ask of a step.
Faithful ==
    /\ \A c \in Cycles : EndsForAReason(context'[c], Begun')
    /\ \A t \in Targets : active_cycle'[t] # NoCycle => context'[active_cycle'[t]].cycle_state # "ABANDONED"
    /\ \A t \in Targets : [TargetCycle(t)!CycleNext]_(TargetCycle(t)!seen)

\* The relations above are steps of TargetCycle.
LEMMA MovesAreSteps ==
    ASSUME NEW t, NEW v, NEW w, Seen(t) = v, Seen(t)' = w, Begun' = Begun, Moves(v, w, Begun)
    PROVE  [TargetCycle(t)!CycleNext]_(TargetCycle(t)!seen)
  <1>0. TargetCycle(t)!Lanes = Lanes
    BY DEF TargetCycle!Lanes, Lanes
  <1>1. CASE w = v
    BY <1>1 DEF TargetCycle!seen
  <1>2. CASE Turns(v, w)
    <2>1. PICK started \in SUBSET Lanes, refused \in SUBSET Lanes :
              /\ v.phase \in {"open", "late", "expired"}
              /\ started \subseteq v.requested \ v.running
              /\ started # {} => v.phase = "open"
              /\ "slow" \in started =>
                    \/ v.slow_may = "start"
                    \/ v.slow_may = "follow" /\ "fast" \notin v.requested \cup v.running
              /\ refused \subseteq v.requested \ started
              /\ \A l \in refused : v.phase \in {"late", "expired"} \/ (l = "slow" /\ v.slow_may = "not")
              /\ w = TurnedBy(v, started, refused)
      BY <1>2 DEF Turns
    <2>2. TargetCycle(t)!Turn(started, refused)
      BY <2>1 DEF TurnedBy, TargetCycle!Turn, TargetCycle!IsAccepting, TargetCycle!SlowMayStart, TargetCycle!Refusable
    <2> QED
      BY <1>0, <2>2 DEF TargetCycle!CycleNext
  <1>3. CASE Ends(v, w)
    <2>1. PICK l \in Lanes, failed \in BOOLEAN :
              /\ l \in v.running
              /\ w = EndedBy(v, l, failed)
      BY <1>3 DEF Ends
    <2>2. TargetCycle(t)!JobEnds(l, failed)
      BY <2>1 DEF EndedBy, TargetCycle!JobEnds
    <2> QED
      BY <1>0, <2>2 DEF TargetCycle!CycleNext
  <1>4. CASE Ages(v, w)
    BY <1>4 DEF Ages, TargetCycle!CycleNext, TargetCycle!TimePasses
  <1>5. CASE Closes(v, w, Begun)
    <2>1. PICK refused \in SUBSET Lanes :
              /\ v.phase \in {"open", "late", "expired"}
              /\ Begun \/ v.phase = "expired" \/ v.running = {}
              /\ refused \subseteq v.requested
              /\ \A l \in refused : v.phase \in {"late", "expired"} \/ (l = "slow" /\ v.slow_may = "not")
              /\ w = ClosedWith(v, refused)
      BY <1>5 DEF Closes
    <2>2. TargetCycle(t)!Close(refused)
      BY <2>1 DEF ClosedWith, TargetCycle!Close, TargetCycle!IsAccepting, TargetCycle!Refusable
    <2> QED
      BY <1>0, <2>2 DEF TargetCycle!CycleNext
  <1>6. CASE Attaches(v, w)
    <2>1. PICK due \in SUBSET Lanes :
              /\ v.phase \in {"open", "late", "expired"}
              /\ w = [v EXCEPT !.requested = @ \cup (due \ v.running)]
      BY <1>6 DEF Attaches
    <2>2. TargetCycle(t)!Attach(due)
      BY <2>1 DEF TargetCycle!Attach, TargetCycle!IsAccepting
    <2> QED
      BY <1>0, <2>2 DEF TargetCycle!CycleNext
  <1> QED
    BY <1>1, <1>2, <1>3, <1>4, <1>5, <1>6 DEF Moves

\* A step of which each context makes an orderly part.
LEMMA OrderlyIsFaithful ==
    ASSUME IInv, SeenInv, \A d \in Cycles : Orderly(context[d], context'[d], Begun),
           active_cycle' = active_cycle, drain' = drain
    PROVE  Faithful
  <1>1. Begun' = Begun
    BY DEF Begun
  <1>2. \A d \in Cycles : EndsForAReason(context'[d], Begun')
    BY <1>1 DEF Orderly
  <1>3. \A t \in Targets : active_cycle[t] # NoCycle =>
            active_cycle[t] \in Cycles /\ context[active_cycle[t]].cycle_state # "ABANDONED"
    BY DEF SeenInv, IInv, TypeOK
  <1>4. \A t \in Targets : active_cycle'[t] # NoCycle => context'[active_cycle'[t]].cycle_state # "ABANDONED"
    BY <1>3 DEF Orderly
  <1>5. ASSUME NEW t \in Targets
        PROVE  [TargetCycle(t)!CycleNext]_(TargetCycle(t)!seen)
    <2> DEFINE c == active_cycle[t]
    <2>1. CASE c # NoCycle
      <3>1. Seen(t) = View(context[c]) /\ Seen(t)' = View(context'[c])
        BY <2>1 DEF Seen
      <3>2. Moves(View(context[c]), View(context'[c]), Begun)
        BY <1>3, <2>1 DEF Orderly
      <3> QED
        BY <1>1, <3>1, <3>2, MovesAreSteps
    <2>2. CASE c = NoCycle
      <3>1. Seen(t)' = Seen(t)
        BY <2>2 DEF Seen
      <3> QED
        BY <1>1, <3>1 DEF TargetCycle!seen
    <2> QED
      BY <2>1, <2>2
  <1> QED
    BY <1>2, <1>4, <1>5 DEF Faithful

\* A step of one context.
LEMMA LocalIsFaithful ==
    ASSUME IInv, SeenInv, NEW c \in Cycles, NEW y, Local(c, y), Orderly(context[c], y, Begun)
    PROVE  Faithful
  <1>1. /\ \A d \in Cycles : context'[d] = IF d = c THEN y ELSE context[d]
        /\ active_cycle' = active_cycle /\ drain' = drain
    BY DEF Local, Update, IInv, TypeOK, shutdown
  <1>2. \A d \in Cycles : EndsForAReason(context[d], Begun)
    BY DEF SeenInv
  <1>3. \A d \in Cycles : Orderly(context[d], context'[d], Begun)
    BY <1>1, <1>2 DEF Orderly, Moves
  <1> QED
    BY <1>1, <1>3, OrderlyIsFaithful

\* What a turn and a closing change of what is seen of a context.
LEMMA ViewTurns ==
    ASSUME NEW x, NEW y, NEW started, NEW refused,
           PhaseOf(y) = PhaseOf(x),
           y.requested_lanes = x.requested_lanes \ (started \cup refused),
           RunningLanes(y) = RunningLanes(x) \cup started,
           SlowMay(y) = IF "slow" \in started THEN "start" ELSE SlowMay(x)
    PROVE  View(y) = TurnedBy(View(x), started, refused)
  <1>1. View(x) = [phase |-> PhaseOf(x), requested |-> x.requested_lanes,
                   running |-> RunningLanes(x), slow_may |-> SlowMay(x)]
    BY DEF View
  <1>2. View(y) = [phase |-> PhaseOf(x), requested |-> x.requested_lanes \ (started \cup refused),
                   running |-> RunningLanes(x) \cup started,
                   slow_may |-> IF "slow" \in started THEN "start" ELSE SlowMay(x)]
    BY DEF View
  <1> DEFINE u == View(x)
             left == x.requested_lanes \ (started \cup refused)
             run == RunningLanes(x) \cup started
             may == IF "slow" \in started THEN "start" ELSE SlowMay(x)
             u1 == [phase |-> PhaseOf(x), requested |-> left, running |-> RunningLanes(x), slow_may |-> SlowMay(x)]
             u2 == [phase |-> PhaseOf(x), requested |-> left, running |-> run, slow_may |-> SlowMay(x)]
  <1> HIDE DEF left, run, may
  <1>3. u1 = [u EXCEPT !.requested = left] /\ u2 = [u1 EXCEPT !.running = run]
    BY <1>1
  <1>4. View(y) = [u2 EXCEPT !.slow_may = may]
    BY <1>2 DEF left, run, may
  <1>5. u.requested = x.requested_lanes /\ u1.running = RunningLanes(x) /\ u2.slow_may = SlowMay(x)
    BY <1>1
  <1> HIDE DEF u, u1, u2
  <1>6. View(y) = TurnedBy(u, started, refused)
    BY <1>3, <1>4, <1>5 DEF TurnedBy, left, run, may
  <1> QED
    BY <1>6 DEF u

LEMMA ViewCloses ==
    ASSUME NEW x, NEW y, NEW refused,
           PhaseOf(y) = "closing",
           y.requested_lanes = x.requested_lanes \ refused,
           RunningLanes(y) = RunningLanes(x),
           SlowMay(y) = SlowMay(x)
    PROVE  View(y) = ClosedWith(View(x), refused)
  <1>1. View(x) = [phase |-> PhaseOf(x), requested |-> x.requested_lanes,
                   running |-> RunningLanes(x), slow_may |-> SlowMay(x)]
    BY DEF View
  <1>2. View(y) = [phase |-> "closing", requested |-> x.requested_lanes \ refused,
                   running |-> RunningLanes(x), slow_may |-> SlowMay(x)]
    BY DEF View
  <1> QED
    <2> DEFINE u == View(x)
               left == x.requested_lanes \ refused
               u1 == [phase |-> "closing", requested |-> x.requested_lanes, running |-> RunningLanes(x),
                      slow_may |-> SlowMay(x)]
    <2> HIDE DEF left
    <2>1. u1 = [u EXCEPT !.phase = "closing"] /\ u1.requested = x.requested_lanes
      BY <1>1
    <2>2. View(y) = [u1 EXCEPT !.requested = left]
      BY <1>2 DEF left
    <2> HIDE DEF u, u1
    <2>3. View(y) = ClosedWith(u, refused)
      BY <2>1, <2>2 DEF ClosedWith, left
    <2> QED
      BY <2>3 DEF u

\* A step that the others do not see.
LEMMA QuietIsOrderly ==
    ASSUME NEW x, NEW y, NEW begun,
           y.accepting = x.accepting, y.clock = x.clock, y.requested_lanes = x.requested_lanes,
           y.lane_tasks = x.lane_tasks, y.cold_fast_failed = x.cold_fast_failed,
           y.cycle_state = "ABANDONED" => x.cycle_state = "ABANDONED",
           EndsForAReason(y, begun)
    PROVE  Orderly(x, y, begun)
  <1>1. View(y) = View(x)
    BY DEF View, PhaseOf, SlowMay, RunningLanes, Running
  <1> QED
    BY <1>1 DEF Orderly, Moves

\* Orderly is about what is seen of the first context.
LEMMA OrderlyFrom ==
    ASSUME NEW x, NEW z, NEW y, NEW begun, View(z) = View(x), z.cycle_state = x.cycle_state,
           Orderly(z, y, begun)
    PROVE  Orderly(x, y, begun)
  BY DEF Orderly

\* A lane that is refused comes too late, or is Slow and barred.
LEMMA RefusedForAReason ==
    ASSUME NEW x \in Context, x.accepting, x.cold_fast_failed => x.lane_tasks["slow"] = "none"
    PROVE  \A l \in Refused(x) :
              /\ l \in Lanes /\ l \in View(x).requested /\ l \notin Started(x)
              /\ View(x).phase \in {"late", "expired"} \/ (l = "slow" /\ View(x).slow_may = "not")
  <1>1. x.clock \in {"early", "late", "expired"}
    BY DEF Context, Clock
  <1>2. View(x).phase = PhaseOf(x) /\ View(x).requested = x.requested_lanes /\ View(x).slow_may = SlowMay(x)
    BY DEF View
  <1>3. \A l \in PendingLanes(x) : l \in Lanes /\ l \in x.requested_lanes
    BY DEF PendingLanes, FastPending, SlowRequestedNow
  <1>4. \A l \in Refused(x) :
            \/ l \in PendingLanes(x) \ Started(x)
            \/ l = "slow" /\ SlowBarred(x)
    BY DEF Refused
  <1>5. ASSUME NEW l \in PendingLanes(x) \ Started(x)
        PROVE  x.clock # "early"
    BY <1>5 DEF Started
  <1>6. ASSUME SlowBarred(x)
        PROVE  /\ "slow" \in x.requested_lanes /\ "slow" \in Lanes
               /\ "slow" \notin Started(x) /\ SlowMay(x) = "not"
    BY <1>6 DEF SlowBarred, Started, PendingLanes, SlowRequestedNow, SlowMay, Lanes
  <1> QED
    BY <1>1, <1>2, <1>3, <1>4, <1>5, <1>6 DEF PhaseOf

\* A lane that is started is requested, in time and, for Slow, not too early.
LEMMA StartedInTurn ==
    ASSUME NEW x \in Context, LanesAgree(x), Informed(x), x.accepting
    PROVE  /\ Started(x) \subseteq View(x).requested \ View(x).running
           /\ Started(x) # {} => View(x).phase = "open"
           /\ "slow" \in Started(x) =>
                 \/ View(x).slow_may = "start"
                 \/ /\ View(x).slow_may = "follow"
                    /\ "fast" \notin View(x).requested \cup View(x).running
  <1>1. /\ View(x).phase = PhaseOf(x) /\ View(x).requested = x.requested_lanes
        /\ View(x).slow_may = SlowMay(x) /\ View(x).running = RunningLanes(x)
    BY DEF View
  <1>2. \A l \in PendingLanes(x) : l \in Lanes /\ l \in x.requested_lanes /\ ~Running(x, l)
    BY DEF PendingLanes, FastPending, SlowRequestedNow
  <1>3. Started(x) \subseteq PendingLanes(x) /\ (Started(x) # {} => x.clock = "early")
    BY DEF Started
  <1>4. ASSUME "slow" \in PendingLanes(x), x.lane_tasks["slow"] = "none"
        PROVE  SlowMay(x) = "follow" /\ "fast" \notin x.requested_lanes /\ ~Running(x, "fast")
    <2>1. SlowRequestedNow(x) /\ ~GateSlowForFirstRun(x)
      BY <1>4 DEF PendingLanes
    <2>2. ~FastPending(x) /\ ~Running(x, "fast") /\ ~x.cold_fast_failed
      BY <1>4, <2>1 DEF GateSlowForFirstRun, SlowRequestedNow, SlowBarred
    <2> QED
      BY <1>4, <2>2 DEF FastPending, SlowMay, Informed
  <1>5. x.lane_tasks["slow"] # "none" => SlowMay(x) = "start"
    BY DEF SlowMay
  <1> QED
    BY <1>1, <1>2, <1>3, <1>4, <1>5 DEF PhaseOf, RunningLanes

\* One pass of the scheduler is a turn of the cycle, or closes it.
LEMMA PassIsOrderly ==
    ASSUME NEW x \in Context, LanesAgree(x), Informed(x), NEW begun, EndsForAReason(x, begun),
           x.accepting \/ x.cycle_state = "ABANDONED",
           NEW y, y = Pass(x)
    PROVE  Orderly(x, y, begun)
  <1>1. /\ Started(x) \subseteq PendingLanes(x)
        /\ LanesLeft(x) = x.requested_lanes \ (Started(x) \cup Refused(x))
        /\ PendingLanes(x) \subseteq Lanes
    BY DEF Started, LanesLeft, Refused, PendingLanes
  <1>2. CASE NothingToDo(x)
    <2>1. /\ y.cycle_state = x.cycle_state /\ ~y.accepting /\ y.requested_lanes = LanesLeft(x)
          /\ y.lane_tasks = x.lane_tasks /\ y.cold_fast_failed = x.cold_fast_failed
          /\ y.cycle_task = "closing" /\ y.cancelled = FALSE /\ y.clock = x.clock
      BY <1>2 DEF Pass, StopAccepting, Closing, FailLaneFutures, Context
    <2>2. EndsForAReason(y, begun)
      BY <2>1 DEF EndsForAReason
    <2>3. ASSUME x.cycle_state # "ABANDONED"
          PROVE  Closes(View(x), View(y), begun)
      <3>1. x.accepting /\ View(x).running = {} /\ View(x).phase \in {"open", "late", "expired"}
        BY <1>2, <2>3 DEF NothingToDo, View, PhaseOf, RunningLanes, Context, Clock
      <3>2. Started(x) = {}
        BY <1>1, <1>2 DEF NothingToDo
      <3>3. View(y) = ClosedWith(View(x), Refused(x))
        <4>1. PhaseOf(y) = "closing" /\ SlowMay(y) = SlowMay(x) /\ \A l \in Lanes : Running(y, l) <=> Running(x, l)
          BY <2>1 DEF PhaseOf, SlowMay, Running
        <4>2. y.requested_lanes = x.requested_lanes \ Refused(x)
          BY <1>1, <2>1, <3>2
        <4>3. RunningLanes(y) = RunningLanes(x)
          BY <4>1 DEF RunningLanes
        <4> QED
          BY <4>1, <4>2, <4>3, ViewCloses
      <3>4. /\ Refused(x) \in SUBSET Lanes /\ Refused(x) \subseteq View(x).requested
            /\ \A l \in Refused(x) :
                  View(x).phase \in {"late", "expired"} \/ (l = "slow" /\ View(x).slow_may = "not")
        BY <3>1, RefusedForAReason DEF EndsForAReason
      <3> QED
        BY <3>1, <3>3, <3>4 DEF Closes
    <2> QED
      BY <2>1, <2>2, <2>3 DEF Orderly, Moves
  <1>3. CASE ~NothingToDo(x)
    <2>1. /\ y.cycle_state = x.cycle_state /\ y.accepting = x.accepting /\ y.requested_lanes = LanesLeft(x)
          /\ y.cold_fast_failed = x.cold_fast_failed /\ y.clock = x.clock
          /\ y.cycle_task = "waiting" /\ y.cancelled = x.cancelled
      BY <1>3 DEF Pass, StartLanes, FailLaneFutures, Context
    <2>2. \A l \in Lanes : y.lane_tasks[l] = IF l \in Started(x) THEN "running" ELSE x.lane_tasks[l]
      BY <1>3 DEF Pass, StartLanes, FailLaneFutures, Context
    <2>3. "slow" \in Started(x) => ~x.cold_fast_failed
      BY <1>1 DEF PendingLanes, SlowRequestedNow, SlowBarred
    <2>4. EndsForAReason(y, begun)
      BY <2>1, <2>2, <2>3 DEF EndsForAReason, Lanes
    <2>5. ASSUME x.cycle_state # "ABANDONED"
          PROVE  Turns(View(x), View(y))
      <3>1. x.accepting /\ View(x).phase \in {"open", "late", "expired"}
        BY <2>5 DEF View, PhaseOf, Context, Clock
      <3>2. RunningLanes(y) = RunningLanes(x) \cup Started(x)
        BY <1>1, <2>2 DEF RunningLanes, Running
      <3>3. SlowMay(y) = IF "slow" \in Started(x) THEN "start" ELSE SlowMay(x)
        BY <2>1, <2>2 DEF SlowMay, Informed, Lanes
      <3>4. View(y) = TurnedBy(View(x), Started(x), Refused(x))
        <4>1. PhaseOf(y) = PhaseOf(x)
          BY <2>1 DEF PhaseOf
        <4>2. y.requested_lanes = x.requested_lanes \ (Started(x) \cup Refused(x))
          BY <1>1, <2>1
        <4> QED
          BY <3>2, <3>3, <4>1, <4>2, ViewTurns
      <3>5. /\ Refused(x) \in SUBSET Lanes /\ Refused(x) \subseteq View(x).requested \ Started(x)
            /\ \A l \in Refused(x) :
                  View(x).phase \in {"late", "expired"} \/ (l = "slow" /\ View(x).slow_may = "not")
        BY <3>1, RefusedForAReason DEF EndsForAReason
      <3>6. /\ Started(x) \subseteq View(x).requested \ View(x).running
            /\ Started(x) # {} => View(x).phase = "open"
            /\ "slow" \in Started(x) =>
                  \/ View(x).slow_may = "start"
                  \/ /\ View(x).slow_may = "follow"
                     /\ "fast" \notin View(x).requested \cup View(x).running
        BY <3>1, StartedInTurn
      <3>7. Started(x) \in SUBSET Lanes
        BY <1>1
      <3> QED
        BY <3>1, <3>4, <3>5, <3>6, <3>7 DEF Turns
    <2> QED
      BY <2>1, <2>4, <2>5 DEF Orderly, Moves
  <1> QED
    BY <1>2, <1>3

LEMMA ViewEnds ==
    ASSUME NEW x, NEW y, NEW l, NEW failed,
           PhaseOf(y) = PhaseOf(x), y.requested_lanes = x.requested_lanes,
           RunningLanes(y) = RunningLanes(x) \ {l},
           SlowMay(y) = IF failed /\ l = "fast" /\ SlowMay(x) = "follow" THEN "not" ELSE SlowMay(x)
    PROVE  View(y) = EndedBy(View(x), l, failed)
  <1>1. View(x) = [phase |-> PhaseOf(x), requested |-> x.requested_lanes,
                   running |-> RunningLanes(x), slow_may |-> SlowMay(x)]
    BY DEF View
  <1> DEFINE u == View(x)
             run == RunningLanes(x) \ {l}
             may == IF failed /\ l = "fast" /\ SlowMay(x) = "follow" THEN "not" ELSE SlowMay(x)
             u1 == [phase |-> PhaseOf(x), requested |-> x.requested_lanes, running |-> run, slow_may |-> SlowMay(x)]
  <1> HIDE DEF run, may
  <1>2. View(y) = [phase |-> PhaseOf(x), requested |-> x.requested_lanes, running |-> run, slow_may |-> may]
    BY DEF View, run, may
  <1>3. u1 = [u EXCEPT !.running = run] /\ u.running = RunningLanes(x)
    BY <1>1
  <1>4. View(y) = [u1 EXCEPT !.slow_may = may] /\ u1.slow_may = SlowMay(x)
    BY <1>2
  <1> HIDE DEF u, u1
  <1>5. View(y) = EndedBy(u, l, failed)
    BY <1>3, <1>4 DEF EndedBy, run, may
  <1> QED
    BY <1>5 DEF u

\* The end of the scheduler, when it has not closed the cycle itself.
LEMMA ClosingIsOrderly ==
    ASSUME NEW x \in Context, NEW begun, EndsForAReason(x, begun),
           begun \/ x.clock = "expired" \/ \A l \in Lanes : ~Running(x, l),
           NEW y, y = Closing(x) \/ y = Closing(FailOutstanding(x))
    PROVE  Orderly(x, y, begun)
  <1>1. /\ y.accepting = x.accepting /\ y.clock = x.clock /\ y.requested_lanes = x.requested_lanes
        /\ y.lane_tasks = x.lane_tasks /\ y.cold_fast_failed = x.cold_fast_failed
        /\ y.cycle_state = x.cycle_state /\ y.cycle_task = "closing" /\ y.cancelled = FALSE
    BY DEF Closing, FailOutstanding, Context
  <1>2. EndsForAReason(y, begun)
    BY <1>1 DEF EndsForAReason, Running
  <1> QED
    BY <1>1, <1>2, QuietIsOrderly

\* What a pass of the scheduler starts from: a context about which it knows how Fast ended.
LEMMA CollectedPass ==
    ASSUME NEW x \in Context, Consistent(x), NEW begun, EndsForAReason(x, begun),
           x.cycle_task \in {"waiting", "reaping"}, x.cycle_task = "waiting" => ~x.cancelled,
           NEW z, z = Collect([x EXCEPT !.wake_event = FALSE]) \/ z = Collect([x EXCEPT !.cancelled = FALSE])
    PROVE  Orderly(x, Pass(z), begun)
  <1>1. /\ z \in Context
        /\ z.lane_tasks = x.lane_tasks /\ z.accepting = x.accepting /\ z.clock = x.clock
        /\ z.requested_lanes = x.requested_lanes /\ z.cycle_state = x.cycle_state
        /\ z.accepted_lanes = x.accepted_lanes /\ z.lane_futures = x.lane_futures
        /\ z.active_requests = x.active_requests /\ z.superseded = x.superseded
        /\ z.cycle_task = x.cycle_task
        /\ z.cancelled = x.cancelled \/ z.cancelled = FALSE
        /\ z.cold_fast_failed <=>
              x.cold_fast_failed \/ (x.lane_tasks["fast"] = "failed" /\ x.lane_tasks["slow"] = "none")
    BY DEF Context, Collect
  <1>2. LanesAgree(z)
    BY <1>1 DEF Consistent, LanesAgree, Running
  <1>3. Informed(z)
    <2>1. x.lane_tasks["fast"] \in TaskStates
      BY DEF Context, Lanes
    <2> QED
      BY <1>1, <2>1 DEF Informed, Consistent, WaitAgrees, TaskStates
  <1>4. EndsForAReason(z, begun)
    BY <1>1 DEF EndsForAReason, Running
  <1>5. Orderly(z, Pass(z), begun)
    BY <1>1, <1>2, <1>3, <1>4, PassIsOrderly DEF EndsForAReason
  <1>6. View(z) = View(x)
    BY <1>1 DEF View, PhaseOf, SlowMay, RunningLanes, Running
  <1> QED
    BY <1>1, <1>5, <1>6, OrderlyFrom

\* The steps of the cycle task.
LEMMA CycleTaskIsFaithful ==
    ASSUME IInv, SeenInv, NEW c \in Cycles, CycleTaskStep(c)
    PROVE  Faithful
  <1> DEFINE x == context[c]
  <1>1. x \in Context /\ Consistent(x) /\ EndsForAReason(x, Begun)
    BY DEF IInv, TypeOK, SeenInv
  <1> SUFFICES \E y : Local(c, y) /\ Orderly(x, y, Begun)
    BY LocalIsFaithful
  <1>2. CASE CycleTaskStarts(c)
    <2> DEFINE y == IF x.cancelled
                    THEN [x EXCEPT !.cycle_task = "done", !.cancelled = FALSE]
                    ELSE [x EXCEPT !.cycle_task = "login", !.cycle_state = "RUNNING"]
    <2>1. Local(c, y) /\ x.cycle_task = "created"
      BY <1>2 DEF CycleTaskStarts
    <2>2. /\ y.accepting = x.accepting /\ y.clock = x.clock /\ y.requested_lanes = x.requested_lanes
          /\ y.lane_tasks = x.lane_tasks /\ y.cold_fast_failed = x.cold_fast_failed
          /\ IF x.cancelled
             THEN y.cycle_task = "done" /\ y.cycle_state = x.cycle_state /\ y.cancelled = FALSE
             ELSE y.cycle_task = "login" /\ y.cycle_state = "RUNNING" /\ y.cancelled = x.cancelled
      BY <1>1 DEF Context
    <2> HIDE DEF y
    <2>3. ~x.cancelled => x.accepting
      BY <1>1, <2>1 DEF Consistent, StagesAgree, EndsForAReason
    <2>4. EndsForAReason(y, Begun)
      BY <1>1, <2>2, <2>3 DEF EndsForAReason, Running
    <2>5. Orderly(x, y, Begun)
      BY <2>2, <2>4, QuietIsOrderly
    <2> QED
      BY <2>1, <2>5
  <1>3. CASE LoginReturns(c)
    <2> DEFINE z == [x EXCEPT !.token = is_live(x), !.cancelled = FALSE]
    <2>1. /\ z \in Context
          /\ z.lane_tasks = x.lane_tasks /\ z.accepting = x.accepting /\ z.clock = x.clock
          /\ z.requested_lanes = x.requested_lanes /\ z.cycle_state = x.cycle_state
          /\ z.accepted_lanes = x.accepted_lanes /\ z.lane_futures = x.lane_futures
          /\ z.active_requests = x.active_requests /\ z.superseded = x.superseded
          /\ z.cycle_task = x.cycle_task /\ z.cancelled = FALSE
          /\ z.cold_fast_failed = x.cold_fast_failed
      BY <1>1 DEF Context, is_live
    <2>2. /\ x.cycle_task = "login"
          /\ Local(c, IF is_live(x) THEN Pass(z) ELSE Closing(FailOutstanding(z)))
      BY <1>3 DEF LoginReturns
    <2>3. \A l \in Lanes : x.lane_tasks[l] = "none"
      BY <1>1, <2>2 DEF Consistent, StagesAgree, NoLaneEver
    <2> HIDE DEF z
    <2>4. LanesAgree(z)
      BY <1>1, <2>1 DEF Consistent, LanesAgree, Running
    <2>5. Informed(z)
      BY <2>1, <2>3 DEF Informed, Lanes
    <2>6. EndsForAReason(z, Begun)
      BY <1>1, <2>1, <2>2 DEF EndsForAReason, Running
    <2>7. Orderly(z, Pass(z), Begun)
      BY <2>1, <2>2, <2>4, <2>5, <2>6, PassIsOrderly DEF EndsForAReason
    <2>8. Orderly(z, Closing(FailOutstanding(z)), Begun)
      BY <2>1, <2>3, <2>6, ClosingIsOrderly DEF Running
    <2>9. View(z) = View(x)
      BY <2>1 DEF View, PhaseOf, SlowMay, RunningLanes, Running
    <2> QED
      BY <2>1, <2>2, <2>7, <2>8, <2>9, OrderlyFrom
  <1>4. CASE LoginFails(c) \/ LoginCancelled(c)
    <2>1. x.cycle_task = "login" /\ (Local(c, Closing(x)) \/ Local(c, Closing(FailOutstanding(x))))
      BY <1>4 DEF LoginFails, LoginCancelled
    <2>2. \A l \in Lanes : ~Running(x, l)
      BY <1>1, <2>1 DEF Consistent, StagesAgree, NoLaneEver, Running
    <2> QED
      BY <1>1, <2>1, <2>2, ClosingIsOrderly
  <1>5. CASE SchedulerCancelled(c)
    <2>1. Local(c, Closing(x)) /\ Begun
      BY <1>1, <1>5 DEF SchedulerCancelled, EndsForAReason
    <2> QED
      BY <1>1, <2>1, ClosingIsOrderly
  <1>6. CASE WakeByEvent(c)
    BY <1>1, <1>6, CollectedPass DEF WakeByEvent
  <1>7. CASE Reap(c)
    BY <1>1, <1>7, CollectedPass DEF Reap
  <1>8. CASE WakeByLane(c)
    <2> DEFINE y == [x EXCEPT !.cycle_task = "reaping"]
    <2>1. Local(c, y) /\ x.cycle_task = "waiting"
      BY <1>8 DEF WakeByLane
    <2>2. /\ y.accepting = x.accepting /\ y.clock = x.clock /\ y.requested_lanes = x.requested_lanes
          /\ y.lane_tasks = x.lane_tasks /\ y.cold_fast_failed = x.cold_fast_failed
          /\ y.cycle_state = x.cycle_state /\ y.cycle_task = "reaping" /\ y.cancelled = x.cancelled
      BY <1>1 DEF Context
    <2> HIDE DEF y
    <2>3. EndsForAReason(y, Begun)
      BY <1>1, <2>1, <2>2 DEF EndsForAReason
    <2> QED
      BY <2>1, <2>2, <2>3, QuietIsOrderly
  <1>9. CASE CycleTaskEnds(c)
    <2> DEFINE y == [x EXCEPT !.cycle_task = "done", !.cancelled = FALSE]
    <2>1. Local(c, y) /\ x.cycle_task = "closing" /\ (x.cancelled \/ x.cleanup_task = "done")
      BY <1>9 DEF CycleTaskEnds
    <2>2. /\ y.accepting = x.accepting /\ y.clock = x.clock /\ y.requested_lanes = x.requested_lanes
          /\ y.lane_tasks = x.lane_tasks /\ y.cold_fast_failed = x.cold_fast_failed
          /\ y.cycle_state = x.cycle_state /\ y.cycle_task = "done" /\ y.cancelled = FALSE
          /\ y.cleanup_task = x.cleanup_task
      BY <1>1 DEF Context
    <2> HIDE DEF y
    <2>3. EndsForAReason(y, Begun)
      BY <1>1, <2>1, <2>2 DEF EndsForAReason, Running
    <2> QED
      BY <2>1, <2>2, <2>3, QuietIsOrderly
  <1> QED
    BY <1>2, <1>3, <1>4, <1>5, <1>6, <1>7, <1>8, <1>9 DEF CycleTaskStep

\* The deadline, and the time up to it.
LEMMA TimeIsFaithful ==
    ASSUME IInv, SeenInv, NEW c \in Cycles, DeadlineFires(c) \/ ClockTicks(c)
    PROVE  Faithful
  <1> DEFINE x == context[c]
  <1>1. x \in Context /\ Consistent(x) /\ EndsForAReason(x, Begun)
    BY DEF IInv, TypeOK, SeenInv
  <1> SUFFICES \E y : Local(c, y) /\ Orderly(x, y, Begun)
    BY LocalIsFaithful
  <1>2. CASE DeadlineFires(c)
    <2>1. CASE Local(c, Closing(FailOutstanding(x)))
      BY <1>1, <1>2, <2>1, ClosingIsOrderly DEF DeadlineFires
    <2>2. CASE Local(c, [x EXCEPT !.deadline_lost = TRUE])
      <3> DEFINE y == [x EXCEPT !.deadline_lost = TRUE]
      <3>1. /\ y.accepting = x.accepting /\ y.clock = x.clock /\ y.requested_lanes = x.requested_lanes
            /\ y.lane_tasks = x.lane_tasks /\ y.cold_fast_failed = x.cold_fast_failed
            /\ y.cycle_state = x.cycle_state /\ y.cycle_task = x.cycle_task /\ y.cancelled = x.cancelled
            /\ y.cleanup_task = x.cleanup_task
        BY <1>1 DEF Context
      <3> HIDE DEF y
      <3>2. EndsForAReason(y, Begun)
        BY <1>1, <3>1 DEF EndsForAReason, Running
      <3> QED
        BY <2>2, <3>1, <3>2, QuietIsOrderly DEF y
    <2> QED
      BY <1>2, <2>1, <2>2 DEF DeadlineFires
  <1>3. CASE ClockTicks(c)
    <2>1. PICK later \in {"late", "expired"} :
              /\ Local(c, [x EXCEPT !.clock = later])
              /\ (x.clock = "early" /\ later = "late") \/ (x.clock = "late" /\ later = "expired")
      BY <1>3 DEF ClockTicks
    <2> DEFINE y == [x EXCEPT !.clock = later]
    <2>2. /\ y.accepting = x.accepting /\ y.clock = later /\ y.requested_lanes = x.requested_lanes
          /\ y.lane_tasks = x.lane_tasks /\ y.cold_fast_failed = x.cold_fast_failed
          /\ y.cycle_state = x.cycle_state /\ y.cycle_task = x.cycle_task /\ y.cancelled = x.cancelled
          /\ y.cleanup_task = x.cleanup_task
      BY <1>1 DEF Context
    <2> HIDE DEF y
    <2>3. EndsForAReason(y, Begun)
      BY <1>1, <2>1, <2>2 DEF EndsForAReason, Running
    <2>4. /\ SlowMay(y) = SlowMay(x) /\ RunningLanes(y) = RunningLanes(x)
          /\ PhaseOf(y) = IF x.accepting THEN later ELSE PhaseOf(x)
      BY <2>1, <2>2 DEF SlowMay, RunningLanes, Running, PhaseOf
    <2>5. CASE x.accepting
      <3>1. View(y) = [View(x) EXCEPT !.phase = later]
        BY <2>2, <2>4, <2>5 DEF View
      <3>2. View(x).phase = PhaseOf(x)
        BY DEF View
      <3>3. Ages(View(x), View(y))
        BY <2>1, <2>5, <3>1, <3>2 DEF Ages, PhaseOf
      <3> QED
        BY <2>1, <2>2, <2>3, <3>3 DEF y, Orderly, Moves
    <2>6. CASE ~x.accepting
      <3>1. View(y) = View(x)
        BY <2>2, <2>4, <2>6 DEF View
      <3> QED
        BY <2>1, <2>2, <2>3, <3>1 DEF y, Orderly, Moves
    <2> QED
      BY <2>5, <2>6
  <1> QED
    BY <1>2, <1>3

\* A lane task that ends, however it does.
LEMMA JobEndIsOrderly ==
    ASSUME NEW x \in Context, NEW begun, EndsForAReason(x, begun), NEW l \in Lanes, Running(x, l),
           NEW result \in {"ok", "failed", "cancelled"},
           NEW y, y.accepting = x.accepting, y.clock = x.clock, y.requested_lanes = x.requested_lanes,
           \A m \in Lanes : y.lane_tasks[m] = IF m = l THEN result ELSE x.lane_tasks[m],
           y.cold_fast_failed = x.cold_fast_failed, y.cycle_state = x.cycle_state,
           y.cycle_task = x.cycle_task, y.cancelled = x.cancelled, y.cleanup_task = x.cleanup_task
    PROVE  Orderly(x, y, begun)
  <1>1. EndsForAReason(y, begun)
    BY DEF EndsForAReason, Running, Lanes
  <1>2. PhaseOf(y) = PhaseOf(x)
    BY DEF PhaseOf
  <1>3. RunningLanes(y) = RunningLanes(x) \ {l} /\ l \in RunningLanes(x)
    BY DEF RunningLanes, Running
  <1>4. PICK failed \in BOOLEAN : failed <=> result = "failed"
    OBVIOUS
  <1>5. SlowMay(y) = IF failed /\ l = "fast" /\ SlowMay(x) = "follow" THEN "not" ELSE SlowMay(x)
    BY <1>4 DEF SlowMay, Running, Lanes
  <1>6. View(y) = EndedBy(View(x), l, failed)
    BY <1>2, <1>3, <1>5, ViewEnds
  <1>7. View(x).running = RunningLanes(x)
    BY DEF View
  <1>8. Ends(View(x), View(y))
    BY <1>3, <1>6, <1>7 DEF Ends
  <1> QED
    BY <1>1, <1>8 DEF Orderly, Moves

LEMMA LaneEndsIsFaithful ==
    ASSUME IInv, SeenInv, NEW c \in Cycles, NEW l \in Lanes, NEW result \in {"ok", "failed"},
           NEW publishes, LaneEnds(c, l, result, publishes)
    PROVE  Faithful
  <1>1. \A d \in Cycles : context[d] \in Context /\ EndsForAReason(context[d], Begun)
    BY DEF IInv, TypeOK, SeenInv
  <1>2. Running(context[c], l) /\ active_cycle' = active_cycle /\ drain' = drain
    BY DEF LaneEnds, shutdown
  <1>3. Orderly(context[c], context'[c], Begun)
    <2> DEFINE x == context[c]
               y == context'[c]
    <2>1. y = [x EXCEPT !.lane_tasks[l] = result,
                        !.lane_futures[l] = IF @ = "pending" THEN result ELSE @,
                        !.superseded = @ \ {l}]
      BY DEF LaneEnds
    <2>2. /\ y.accepting = x.accepting /\ y.clock = x.clock /\ y.requested_lanes = x.requested_lanes
          /\ y.cold_fast_failed = x.cold_fast_failed
          /\ y.cycle_state = x.cycle_state /\ y.cycle_task = x.cycle_task /\ y.cancelled = x.cancelled
          /\ y.cleanup_task = x.cleanup_task
          /\ \A m \in Lanes : y.lane_tasks[m] = IF m = l THEN result ELSE x.lane_tasks[m]
      BY <1>1, <2>1 DEF Context
    <2> HIDE DEF y
    <2>3. Orderly(x, y, Begun)
      BY <1>1, <1>2, <2>2, JobEndIsOrderly
    <2> QED
      BY <2>3 DEF y
  <1>4. ASSUME NEW d \in Cycles, d # c
        PROVE  Orderly(context[d], context'[d], Begun)
    <2> DEFINE x == context[d]
               y == context'[d]
    <2>1. y = x \/ y = [x EXCEPT !.superseded = @ \cup {l}]
      BY <1>4 DEF LaneEnds
    <2>2. /\ y.accepting = x.accepting /\ y.clock = x.clock /\ y.requested_lanes = x.requested_lanes
          /\ y.lane_tasks = x.lane_tasks /\ y.cold_fast_failed = x.cold_fast_failed
          /\ y.cycle_state = x.cycle_state /\ y.cycle_task = x.cycle_task /\ y.cancelled = x.cancelled
          /\ y.cleanup_task = x.cleanup_task
      BY <1>1, <2>1 DEF Context
    <2> HIDE DEF y
    <2>3. EndsForAReason(y, Begun)
      BY <1>1, <2>2 DEF EndsForAReason, Running
    <2>4. Orderly(x, y, Begun)
      BY <2>2, <2>3, QuietIsOrderly
    <2> QED
      BY <2>4 DEF y
  <1> QED
    BY <1>2, <1>3, <1>4, OrderlyIsFaithful

\* The steps of the lane tasks.
LEMMA LaneIsFaithful ==
    ASSUME IInv, SeenInv, NEW c \in Cycles, NEW l \in Lanes, LaneStep(c, l)
    PROVE  Faithful
  <1> DEFINE x == context[c]
  <1>1. x \in Context /\ Consistent(x) /\ EndsForAReason(x, Begun)
    BY DEF IInv, TypeOK, SeenInv
  <1>2. CASE BeginFetch(c, l) \/ EndFetch(c, l)
    <2>1. PICK requests \in SUBSET Lanes : Local(c, [x EXCEPT !.active_requests = requests])
      <3>1. x.active_requests \in SUBSET Lanes
        BY <1>1 DEF Context
      <3> QED
        BY <1>2, <3>1 DEF BeginFetch, EndFetch
    <2> DEFINE y == [x EXCEPT !.active_requests = requests]
    <2>2. /\ y.accepting = x.accepting /\ y.clock = x.clock /\ y.requested_lanes = x.requested_lanes
          /\ y.lane_tasks = x.lane_tasks /\ y.cold_fast_failed = x.cold_fast_failed
          /\ y.cycle_state = x.cycle_state /\ y.cycle_task = x.cycle_task /\ y.cancelled = x.cancelled
          /\ y.cleanup_task = x.cleanup_task
      BY <1>1 DEF Context
    <2>3. Local(c, y)
      BY <2>1
    <2> HIDE DEF y
    <2>4. EndsForAReason(y, Begun)
      BY <1>1, <2>2 DEF EndsForAReason, Running
    <2>5. Orderly(x, y, Begun)
      BY <2>2, <2>4, QuietIsOrderly
    <2> QED
      BY <2>3, <2>5, LocalIsFaithful
  <1>3. CASE LaneSucceeds(c, l) \/ LaneFails(c, l)
    BY <1>3, LaneEndsIsFaithful DEF LaneSucceeds, LaneFails
  <1>4. CASE LaneCancelled(c, l)
    <2> DEFINE y == [x EXCEPT !.lane_tasks[l] = "cancelled",
                              !.active_requests = @ \ {l},
                              !.superseded = @ \ {l}]
    <2>1. Local(c, y) /\ Running(x, l)
      BY <1>4 DEF LaneCancelled, Running
    <2>2. /\ y.accepting = x.accepting /\ y.clock = x.clock /\ y.requested_lanes = x.requested_lanes
          /\ y.cold_fast_failed = x.cold_fast_failed
          /\ y.cycle_state = x.cycle_state /\ y.cycle_task = x.cycle_task /\ y.cancelled = x.cancelled
          /\ y.cleanup_task = x.cleanup_task
          /\ \A m \in Lanes : y.lane_tasks[m] = IF m = l THEN "cancelled" ELSE x.lane_tasks[m]
      BY <1>1 DEF Context
    <2> HIDE DEF y
    <2>3. Orderly(x, y, Begun)
      BY <1>1, <2>1, <2>2, JobEndIsOrderly
    <2> QED
      BY <2>1, <2>3, LocalIsFaithful
  <1> QED
    BY <1>2, <1>3, <1>4 DEF LaneStep

\* What a cleanup that begins late leaves to be seen.
LEMMA CommitIsOrderly ==
    ASSUME NEW x \in Context, Consistent(x), NEW begun, EndsForAReason(x, begun),
           x.cleanup_task = "committing", NEW y, y = CommittedToClosing(x)
    PROVE  Orderly(x, y, begun)
  <1>1. /\ ~y.accepting /\ y.clock = x.clock /\ y.requested_lanes = x.requested_lanes
        /\ y.cold_fast_failed = x.cold_fast_failed
        /\ y.cycle_state = "ABANDONED" => x.cycle_state = "ABANDONED"
        /\ y.cycle_task = x.cycle_task /\ y.cancelled = x.cancelled /\ y.cleanup_task = "draining"
        /\ \A l \in Lanes : y.lane_tasks[l] = IF x.lane_tasks[l] = "running" THEN "cancelling" ELSE x.lane_tasks[l]
    BY DEF CommittedToClosing, CancelLanes, Context
  <1>2. x.cycle_task \notin {"created", "login", "waiting", "reaping"}
    BY DEF Consistent, StagesAgree
  <1>3. x.cycle_task \in {"none", "closing", "done"}
    BY <1>2 DEF Context, CycleTaskStates
  <1>4. x.cycle_task # "none"
    BY DEF Consistent, StagesAgree, Unborn
  <1>5. EndsForAReason(y, begun)
    BY <1>1, <1>2 DEF EndsForAReason, Lanes
  <1>6. RunningLanes(y) = RunningLanes(x) /\ SlowMay(y) = SlowMay(x) /\ PhaseOf(y) = "closing"
    BY <1>1 DEF RunningLanes, Running, SlowMay, PhaseOf, Lanes
  <1>7. CASE x.accepting
    <2>1. y.requested_lanes = x.requested_lanes \ {}
      BY <1>1
    <2>2. View(y) = ClosedWith(View(x), {})
      BY <1>6, <2>1, ViewCloses
    <2>3. /\ View(x).phase \in {"open", "late", "expired"}
          /\ begun \/ View(x).phase = "expired" \/ View(x).running = {}
      BY <1>3, <1>4, <1>7 DEF View, PhaseOf, RunningLanes, EndsForAReason, Context, Clock
    <2>4. Closes(View(x), View(y), begun)
      <3>1. {} \in SUBSET Lanes /\ {} \subseteq View(x).requested
        OBVIOUS
      <3> QED
        BY <2>2, <2>3, <3>1 DEF Closes
    <2> QED
      BY <1>1, <1>5, <2>4 DEF Orderly, Moves
  <1>8. CASE ~x.accepting
    <2>1. View(y) = View(x)
      BY <1>1, <1>6, <1>8 DEF View, PhaseOf
    <2> QED
      BY <1>1, <1>5, <2>1 DEF Orderly, Moves
  <1> QED
    BY <1>7, <1>8

\* A target whose cycle is closed, or ended by the shutdown, has none any more.
LEMMA GoneIsAStep ==
    ASSUME NEW t, Begun' = Begun, Seen(t).phase = "closing" \/ (Begun /\ Seen(t).phase # "none"),
           Seen(t)' = Unseen
    PROVE  TargetCycle(t)!CycleNext
  BY DEF TargetCycle!CycleNext, TargetCycle!Gone, TargetCycle!Absent, Unseen

\* A step that takes the cycles in gone, and these only, from their targets.
LEMMA LettingGoIsFaithful ==
    ASSUME IInv, SeenInv, NEW gone \in SUBSET Cycles,
           \A d \in Cycles \ gone : context'[d] = context[d],
           ClearReferences(gone), Begun' = Begun,
           \A d \in gone : Begun \/ ~context[d].accepting,
           \A d \in gone : EndsForAReason(context'[d], Begun)
    PROVE  Faithful
  <1>1. \A t \in Targets : /\ active_cycle[t] # NoCycle => active_cycle[t] \in Cycles
                           /\ active_cycle'[t] = IF active_cycle[t] \in gone THEN NoCycle ELSE active_cycle[t]
    BY DEF IInv, TypeOK, ClearReferences
  <1>2. \A d \in Cycles : EndsForAReason(context'[d], Begun')
    BY DEF SeenInv
  <1>3. \A t \in Targets : active_cycle'[t] # NoCycle => context'[active_cycle'[t]].cycle_state # "ABANDONED"
    BY <1>1 DEF SeenInv
  <1>4. ASSUME NEW t \in Targets
        PROVE  [TargetCycle(t)!CycleNext]_(TargetCycle(t)!seen)
    <2>1. CASE active_cycle[t] \in gone
      <3>1. active_cycle[t] # NoCycle /\ active_cycle'[t] = NoCycle
        BY <1>1, <2>1, RefreshCycleAssumption
      <3>2. Seen(t) = View(context[active_cycle[t]]) /\ Seen(t)' = Unseen
        BY <3>1 DEF Seen
      <3>3. context[active_cycle[t]] \in Context
        BY <2>1 DEF IInv, TypeOK
      <3>4. Seen(t).phase # "none" /\ (Begun \/ Seen(t).phase = "closing")
        BY <2>1, <3>2, <3>3 DEF View, PhaseOf, Context, Clock
      <3> QED
        BY <3>2, <3>4, GoneIsAStep
    <2>2. CASE active_cycle[t] \notin gone
      <3>1. Seen(t)' = Seen(t)
        BY <1>1, <2>2 DEF Seen
      <3> QED
        BY <3>1 DEF TargetCycle!seen
    <2> QED
      BY <2>1, <2>2
  <1> QED
    BY <1>2, <1>3, <1>4 DEF Faithful

\* The steps of the cleanup task.
LEMMA CleanupIsFaithful ==
    ASSUME IInv, SeenInv, NEW c \in Cycles, CleanupStep(c)
    PROVE  Faithful
  <1> DEFINE x == context[c]
  <1>1. x \in Context /\ Consistent(x) /\ EndsForAReason(x, Begun)
    BY DEF IInv, TypeOK, SeenInv
  <1>2. ASSUME x.cleanup_task # "none", NEW y,
               y.accepting = x.accepting, y.clock = x.clock, y.requested_lanes = x.requested_lanes,
               y.lane_tasks = x.lane_tasks, y.cold_fast_failed = x.cold_fast_failed,
               y.cycle_state = "ABANDONED" => x.cycle_state = "ABANDONED",
               y.cycle_task = x.cycle_task, y.cancelled = x.cancelled, y.cleanup_task # "none"
        PROVE  EndsForAReason(y, Begun) /\ Orderly(x, y, Begun)
    <2>1. x.cycle_task \notin {"created", "login", "waiting", "reaping"}
      BY <1>1, <1>2 DEF Consistent, StagesAgree
    <2>2. EndsForAReason(y, Begun)
      BY <1>1, <1>2, <2>1 DEF EndsForAReason, Running
    <2> QED
      BY <1>2, <2>2, QuietIsOrderly
  <1>3. CASE CleanupStarts(c) \/ DrainEnds(c) \/ LogoutEnds(c)
    <2>1. PICK stage \in {"committing", "logout", "disconnecting"}, cleared \in BOOLEAN :
              Local(c, [x EXCEPT !.cleanup_task = stage, !.dispatcher_cleared = cleared])
      <3>1. x = [x EXCEPT !.dispatcher_cleared = x.dispatcher_cleared] /\ x.dispatcher_cleared \in BOOLEAN
        BY <1>1 DEF Context
      <3>2. \A stage : [x EXCEPT !.cleanup_task = stage] =
                          [x EXCEPT !.cleanup_task = stage, !.dispatcher_cleared = x.dispatcher_cleared]
        BY <1>1 DEF Context
      <3> QED
        BY <1>3, <3>1, <3>2 DEF CleanupStarts, DrainEnds, LogoutEnds
    <2>2. x.cleanup_task # "none"
      BY <1>3 DEF CleanupStarts, DrainEnds, LogoutEnds
    <2> DEFINE y == [x EXCEPT !.cleanup_task = stage, !.dispatcher_cleared = cleared]
    <2>3. /\ y.accepting = x.accepting /\ y.clock = x.clock /\ y.requested_lanes = x.requested_lanes
          /\ y.lane_tasks = x.lane_tasks /\ y.cold_fast_failed = x.cold_fast_failed
          /\ y.cycle_state = x.cycle_state /\ y.cycle_task = x.cycle_task /\ y.cancelled = x.cancelled
          /\ y.cleanup_task # "none"
      BY <1>1 DEF Context
    <2>4. Local(c, y)
      BY <2>1
    <2> HIDE DEF y
    <2>5. Orderly(x, y, Begun)
      BY <1>2, <2>2, <2>3
    <2> QED
      BY <2>4, <2>5, LocalIsFaithful
  <1>4. CASE CommitToClosing(c)
    <2>1. Orderly(x, CommittedToClosing(x), Begun)
      BY <1>1, <1>4, CommitIsOrderly DEF CommitToClosing
    <2> QED
      BY <1>4, <2>1, LocalIsFaithful DEF CommitToClosing
  <1>5. CASE Finalize(c)
    <2> DEFINE y == Finalized(x)
    <2>1. /\ y.accepting = x.accepting /\ y.clock = x.clock /\ y.requested_lanes = x.requested_lanes
          /\ y.lane_tasks = x.lane_tasks /\ y.cold_fast_failed = x.cold_fast_failed
          /\ y.cycle_state = x.cycle_state /\ y.cycle_task = x.cycle_task /\ y.cancelled = x.cancelled
          /\ y.cleanup_task = "clearing"
      BY <1>1 DEF Finalized, FailOutstanding, ReleasePermits, Context
    <2>2. /\ \A d \in Cycles : context'[d] = IF d = c THEN y ELSE context[d]
          /\ active_cycle' = active_cycle /\ drain' = drain
          /\ x.cleanup_task # "none"
      BY <1>5 DEF Finalize, Update, shutdown, IInv, TypeOK
    <2> HIDE DEF y
    <2>3. Orderly(x, y, Begun)
      BY <1>2, <2>1, <2>2
    <2>4. \A d \in Cycles : Orderly(context[d], context'[d], Begun)
      BY <2>2, <2>3 DEF SeenInv, Orderly, Moves
    <2> QED
      BY <2>2, <2>4, OrderlyIsFaithful
  <1>6. CASE ClearTargetReference(c)
    <2> DEFINE y == [x EXCEPT !.cleanup_task = "cleared"]
    <2>1. /\ y.accepting = x.accepting /\ y.clock = x.clock /\ y.requested_lanes = x.requested_lanes
          /\ y.lane_tasks = x.lane_tasks /\ y.cold_fast_failed = x.cold_fast_failed
          /\ y.cycle_state = x.cycle_state /\ y.cycle_task = x.cycle_task /\ y.cancelled = x.cancelled
          /\ y.cleanup_task = "cleared"
      BY <1>1 DEF Context
    <2>2. /\ \A d \in Cycles : context'[d] = IF d = c THEN y ELSE context[d]
          /\ ClearReferences({c}) /\ drain' = drain
          /\ x.cleanup_task = "clearing"
      BY <1>6 DEF ClearTargetReference, Update, shutdown, IInv, TypeOK
    <2> HIDE DEF y
    <2>3. EndsForAReason(y, Begun)
      BY <1>2, <2>1, <2>2
    <2>4. ~x.accepting
      BY <1>1, <2>2 DEF Consistent, StagesAgree, PastCommit
    <2>5. {c} \in SUBSET Cycles /\ Begun' = Begun
      BY <2>2 DEF Begun
    <2> QED
      BY <2>2, <2>3, <2>4, <2>5, LettingGoIsFaithful
  <1>7. CASE CleanupEnds(c)
    <2> DEFINE y == [x EXCEPT !.cleanup_task = "done",
                              !.cycle_state = IF @ = "ABANDONED" THEN @ ELSE "CLOSED"]
    <2>1. /\ y.accepting = x.accepting /\ y.clock = x.clock /\ y.requested_lanes = x.requested_lanes
          /\ y.lane_tasks = x.lane_tasks /\ y.cold_fast_failed = x.cold_fast_failed
          /\ y.cycle_state = "ABANDONED" => x.cycle_state = "ABANDONED"
          /\ y.cycle_task = x.cycle_task /\ y.cancelled = x.cancelled
          /\ y.cleanup_task = "done"
      BY <1>1 DEF Context
    <2>2. Local(c, y) /\ x.cleanup_task = "cleared"
      BY <1>7 DEF CleanupEnds
    <2> HIDE DEF y
    <2>3. Orderly(x, y, Begun)
      BY <1>2, <2>1, <2>2
    <2> QED
      BY <2>2, <2>3, LocalIsFaithful
  <1> QED
    BY <1>3, <1>4, <1>5, <1>6, <1>7 DEF CleanupStep

\* A cycle whose task was cancelled before it began.
LEMMA NeverStartedIsFaithful ==
    ASSUME IInv, SeenInv, NEW c \in Cycles, FinalizeIfNeverStarted(c)
    PROVE  Faithful
  <1> DEFINE x == context[c]
             y == ReleasePermits(FailOutstanding([x EXCEPT !.cycle_state = "ABANDONED"]))
  <1>1. x \in Context /\ Consistent(x) /\ EndsForAReason(x, Begun)
    BY DEF IInv, TypeOK, SeenInv
  <1>2. /\ x.cycle_task = "done" /\ x.cycle_state = "OPENING"
        /\ \A d \in Cycles : context'[d] = IF d = c THEN y ELSE context[d]
        /\ ClearReferences({c}) /\ drain' = drain
    BY DEF FinalizeIfNeverStarted, Update, shutdown, IInv, TypeOK
  <1>3. /\ y.accepting = x.accepting /\ y.clock = x.clock
        /\ y.lane_tasks = x.lane_tasks /\ y.cold_fast_failed = x.cold_fast_failed
        /\ y.cycle_task = x.cycle_task /\ y.cancelled = x.cancelled
    BY <1>1 DEF ReleasePermits, FailOutstanding, Context
  <1> HIDE DEF y
  <1>4. Begun
    BY <1>1, <1>2 DEF Consistent, StagesAgree, EndsForAReason
  <1>5. EndsForAReason(y, Begun)
    BY <1>1, <1>2, <1>3, <1>4 DEF EndsForAReason
  <1>6. {c} \in SUBSET Cycles /\ Begun' = Begun
    BY <1>2 DEF Begun
  <1> QED
    BY <1>2, <1>4, <1>5, <1>6, LettingGoIsFaithful

\* A lane that is attached is requested, and runs in no job.
LEMMA AttachIsFaithful ==
    ASSUME IInv, SeenInv, NEW t \in Targets, NEW due \in SUBSET Lanes, Attach(t, due)
    PROVE  Faithful
  <1> DEFINE c == active_cycle[t]
             x == context[c]
             newly_due == {l \in due : l \notin x.accepted_lanes \/ LaneIdle(x, l)}
             y == Attached(x, newly_due)
  <1>1. c \in Cycles /\ x.accepting /\ Local(c, y)
    BY DEF Attach, Local, IInv, TypeOK
  <1>2. x \in Context /\ Consistent(x) /\ EndsForAReason(x, Begun)
    BY <1>1 DEF IInv, TypeOK, SeenInv
  <1>3. /\ y.accepting = x.accepting /\ y.clock = x.clock
        /\ y.requested_lanes = x.requested_lanes \cup newly_due
        /\ y.lane_tasks = x.lane_tasks /\ y.cold_fast_failed = x.cold_fast_failed
        /\ y.cycle_state = x.cycle_state /\ y.cycle_task = x.cycle_task /\ y.cancelled = x.cancelled
        /\ y.cleanup_task = x.cleanup_task
    BY <1>2 DEF Attached, Context
  <1>4. newly_due \cap RunningLanes(x) = {} /\ newly_due \in SUBSET Lanes
    BY <1>2 DEF RunningLanes, LaneIdle, Consistent, LanesAgree
  <1> HIDE DEF y, newly_due
  <1>5. EndsForAReason(y, Begun)
    BY <1>2, <1>3 DEF EndsForAReason, Running
  <1>6. /\ PhaseOf(y) = PhaseOf(x) /\ RunningLanes(y) = RunningLanes(x) /\ SlowMay(y) = SlowMay(x)
        /\ PhaseOf(x) \in {"open", "late", "expired"}
    BY <1>1, <1>2, <1>3 DEF PhaseOf, RunningLanes, Running, SlowMay, Context, Clock
  <1>7. View(y) = [View(x) EXCEPT !.requested = @ \cup (newly_due \ View(x).running)]
    <2>1. newly_due \ RunningLanes(x) = newly_due
      BY <1>4
    <2>2. View(x).running = RunningLanes(x)
      BY DEF View
    <2> QED
      BY <1>3, <1>6, <2>1, <2>2 DEF View
  <1>8. Attaches(View(x), View(y))
    <2>1. View(x).phase = PhaseOf(x)
      BY DEF View
    <2> QED
      BY <1>4, <1>6, <1>7, <2>1 DEF Attaches
  <1>9. Orderly(x, y, Begun)
    BY <1>3, <1>5, <1>8 DEF Orderly, Moves
  <1> QED
    BY <1>1, <1>9, LocalIsFaithful

\* A target without a cycle gets one, in which the due lanes are requested.
LEMMA OpenIsFaithful ==
    ASSUME IInv, SeenInv, NEW c \in Cycles, NEW due \in SUBSET Lanes, due # {}, Open(c, due)
    PROVE  Faithful
  <1> DEFINE y == Opened(due)
             s == TargetOf[c]
  <1>1. /\ active_cycle[s] = NoCycle /\ ~Born(c) /\ drain' = drain
        /\ \A d \in Cycles : context'[d] = IF d = c THEN y ELSE context[d]
        /\ \A t \in Targets : active_cycle'[t] = IF t = s THEN c ELSE active_cycle[t]
        /\ s \in Targets
    BY RefreshCycleAssumption DEF Open, Born, Update, shutdown, IInv, TypeOK
  <1>2. Begun' = Begun
    BY <1>1 DEF Begun
  <1>3. /\ y.accepting /\ y.clock = "early" /\ y.requested_lanes = due
        /\ y.lane_tasks = [l \in Lanes |-> "none"] /\ y.cold_fast_failed = FALSE
        /\ y.cycle_state = "OPENING" /\ y.cycle_task = "created" /\ y.cancelled = FALSE
    BY DEF Opened, Unborn
  <1> HIDE DEF y
  <1>4. EndsForAReason(y, Begun)
    BY <1>3 DEF EndsForAReason
  <1>5. \A t \in Targets : active_cycle[t] # NoCycle => active_cycle[t] \in Cycles \ {c}
    BY <1>1 DEF IInv, TypeOK, OpenCycleIsReferenced
  <1>6. \A d \in Cycles : EndsForAReason(context'[d], Begun')
    BY <1>1, <1>2, <1>4 DEF SeenInv
  <1>7. \A t \in Targets : active_cycle'[t] # NoCycle => context'[active_cycle'[t]].cycle_state # "ABANDONED"
    BY <1>1, <1>3, <1>5 DEF SeenInv
  <1>8. ASSUME NEW t \in Targets
        PROVE  [TargetCycle(t)!CycleNext]_(TargetCycle(t)!seen)
    <2>1. CASE t = s
      <3>1. Seen(t) = Unseen
        BY <1>1, <2>1 DEF Seen
      <3>2. Seen(t)' = View(y)
        BY <1>1, <2>1, RefreshCycleAssumption DEF Seen
      <3>3. View(y) = [phase |-> "open", requested |-> due, running |-> {}, slow_may |-> "follow"]
        <4>1. PhaseOf(y) = "open" /\ SlowMay(y) = "follow"
          BY <1>3 DEF PhaseOf, SlowMay, Lanes
        <4>2. RunningLanes(y) = {}
          BY <1>3 DEF RunningLanes, Running
        <4> QED
          BY <1>3, <4>1, <4>2 DEF View
      <3>4. TargetCycle(t)!Open(due)
        <4> DEFINE opened == [phase |-> "open", requested |-> {}, running |-> {}, slow_may |-> "follow"]
        <4>1. opened = [Unseen EXCEPT !.phase = "open"]
          BY DEF Unseen
        <4>2. View(y) = [opened EXCEPT !.requested = due]
          BY <3>3
        <4> HIDE DEF opened
        <4>3. TargetCycle(t)!Absent = Unseen
          BY DEF TargetCycle!Absent, Unseen
        <4> QED
          BY <1>2, <3>1, <3>2, <4>1, <4>2, <4>3 DEF TargetCycle!Open
      <3>5. due \in SUBSET TargetCycle(t)!Lanes
        BY DEF TargetCycle!Lanes, Lanes
      <3> QED
        BY <3>4, <3>5 DEF TargetCycle!CycleNext
    <2>2. CASE t # s
      <3>1. Seen(t)' = Seen(t)
        BY <1>1, <1>5, <2>2 DEF Seen
      <3> QED
        BY <1>2, <3>1 DEF TargetCycle!seen
    <2> QED
      BY <2>1, <2>2
  <1> QED
    BY <1>6, <1>7, <1>8 DEF Faithful

\* The shutdown begins.
LEMMA ShutdownBeginsIsFaithful ==
    ASSUME IInv, SeenInv, ShutdownBegins
    PROVE  Faithful
  <1>1. Begun' = TRUE /\ active_cycle' = active_cycle
    BY DEF ShutdownBegins, Begun
  <1>2. \A d \in Cycles :
            context[d] \in Context /\ EndsForAReason(context[d], Begun)
    BY DEF IInv, TypeOK, SeenInv
  <1>3. \A d \in Cycles :
            /\ context'[d].accepting = context[d].accepting /\ context'[d].clock = context[d].clock
            /\ context'[d].requested_lanes = context[d].requested_lanes
            /\ context'[d].lane_tasks = context[d].lane_tasks
            /\ context'[d].cold_fast_failed = context[d].cold_fast_failed
            /\ context'[d].cycle_state = context[d].cycle_state
            /\ context'[d].cycle_task = context[d].cycle_task
    BY <1>2 DEF ShutdownBegins, Context
  <1>4. \A d \in Cycles : View(context'[d]) = View(context[d])
    BY <1>3 DEF View, PhaseOf, SlowMay, RunningLanes, Running
  <1>5. \A d \in Cycles : EndsForAReason(context'[d], TRUE)
    BY <1>2, <1>3 DEF EndsForAReason
  <1>6. \A t \in Targets : active_cycle[t] # NoCycle => active_cycle[t] \in Cycles
    BY DEF IInv, TypeOK
  <1>7. \A t \in Targets : active_cycle'[t] # NoCycle => context'[active_cycle'[t]].cycle_state # "ABANDONED"
    BY <1>1, <1>3, <1>6 DEF SeenInv
  <1>8. ASSUME NEW t \in Targets
        PROVE  TargetCycle(t)!CycleNext
    <2>1. Seen(t)' = Seen(t)
      BY <1>1, <1>4, <1>6 DEF Seen
    <2> QED
      BY <1>1, <2>1 DEF TargetCycle!CycleNext, TargetCycle!ShutDown
  <1> QED
    BY <1>1, <1>5, <1>7, <1>8 DEF Faithful

\* It ends.
LEMMA ShutdownEndsIsFaithful ==
    ASSUME IInv, SeenInv, ShutdownEnds
    PROVE  Faithful
  <1> DEFINE left == {c \in snapshot : ~Drained(context[c])}
  <1>1. /\ left \in SUBSET Cycles /\ Begun /\ Begun' = Begun
        /\ \A d \in Cycles : context'[d] = IF d \in left THEN Abandoned(context[d]) ELSE context[d]
        /\ ClearReferences(left)
    BY DEF ShutdownEnds, Begun, IInv, TypeOK
  <1>2. ASSUME NEW d \in left
        PROVE  EndsForAReason(context'[d], Begun)
    <2> DEFINE x == context[d]
               y == Abandoned(x)
    <2>1. x \in Context /\ EndsForAReason(x, Begun)
      BY <1>1 DEF IInv, TypeOK, SeenInv
    <2>2. /\ y.cycle_state = "ABANDONED" /\ ~y.accepting
          /\ y.cold_fast_failed = x.cold_fast_failed
          /\ \A l \in Lanes : x.lane_tasks[l] = "none" => y.lane_tasks[l] = "none"
      BY <2>1 DEF Abandoned, CancelLanes, FailOutstanding, ReleasePermits, Context
    <2> HIDE DEF y
    <2>3. EndsForAReason(y, Begun)
      BY <1>1, <2>1, <2>2 DEF EndsForAReason, Lanes
    <2> QED
      BY <1>1, <2>3 DEF y
  <1> HIDE DEF left
  <1> QED
    BY <1>1, <1>2, LettingGoIsFaithful

LEMMA StepIsFaithful == IInv /\ SeenInv /\ Next => Faithful
  <1> SUFFICES ASSUME IInv, SeenInv, Next PROVE Faithful
    OBVIOUS
  <1>1. \A t \in Targets : LanesOf(t) \subseteq Lanes
    BY DEF LanesOf, Lanes
  <1>2. \A c \in Cycles : TargetOf[c] \in Targets
    BY RefreshCycleAssumption
  <1>3. ASSUME NEW t \in Targets, NEW due \in (SUBSET LanesOf(t)) \ {{}}, Attach(t, due)
        PROVE  Faithful
    <2>1. due \in SUBSET Lanes
      BY <1>1
    <2> QED
      BY <1>3, <2>1, AttachIsFaithful
  <1>4. ASSUME NEW c \in Cycles, NEW due \in (SUBSET LanesOf(TargetOf[c])) \ {{}}, Open(c, due)
        PROVE  Faithful
    <2>1. LanesOf(TargetOf[c]) \subseteq Lanes
      BY <1>1, <1>2
    <2>2. due \in SUBSET Lanes /\ due # {}
      BY <2>1
    <2> QED
      BY <1>4, <2>2, OpenIsFaithful
  <1> QED
    BY <1>3, <1>4, CycleTaskIsFaithful, NeverStartedIsFaithful, TimeIsFaithful, LaneIsFaithful,
       CleanupIsFaithful, ShutdownBeginsIsFaithful, ShutdownEndsIsFaithful DEF Next, ensure_cycle

\* Between two steps nothing is amiss with how a cycle ends.
LEMMA SeenInvariant == Spec => []SeenInv
  <1>1. Init => SeenInv
    <2> SUFFICES ASSUME Init PROVE SeenInv
      OBVIOUS
    <2>1. /\ \A c \in Cycles : context[c] = Unborn
          /\ \A t \in Targets : active_cycle[t] = NoCycle
      BY DEF Init
    <2>2. EndsForAReason(Unborn, Begun)
      BY DEF EndsForAReason, Unborn, Lanes
    <2> QED
      BY <2>1, <2>2 DEF SeenInv
  <1>2. IInv /\ SeenInv /\ [Next]_vars => SeenInv'
    <2>1. IInv /\ SeenInv /\ Next => SeenInv'
      BY StepIsFaithful DEF Faithful, SeenInv
    <2>2. SeenInv /\ UNCHANGED vars => SeenInv'
      BY DEF SeenInv, vars, Begun
    <2> QED
      BY <2>1, <2>2
  <1> QED
    BY <1>1, <1>2, RefreshCycleInvariant, PTL DEF Spec

\* Each target has the cycle that TargetCycle describes, for every number of cycles,
\* targets and permits: the tasks, futures, cancellations and abandonments that a cycle
\* is made of add up to one that opens, takes lanes on, starts or refuses each of them
\* in its turn, closes for a reason and is gone before the next one.
THEOREM RefreshCycleImplementsTargetCycle == Spec => ImplementsTargetCycle
  <1>1. Init => \A t \in Targets : TargetCycle(t)!CycleInit
    BY DEF Init, Seen, Unseen, Begun, TargetCycle!CycleInit, TargetCycle!Absent
  <1>2. IInv /\ SeenInv /\ [Next]_vars =>
            [\A t \in Targets : [TargetCycle(t)!CycleNext]_(TargetCycle(t)!seen)]_vars
    BY StepIsFaithful DEF Faithful
  <1> QED
    BY <1>1, <1>2, RefreshCycleInvariant, SeenInvariant, PTL DEF Spec, ImplementsTargetCycle

=============================================================================

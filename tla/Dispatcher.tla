----------------------------- MODULE Dispatcher -----------------------------
(***************************************************************************)
(* The PriorityRequestDispatcher of one BMC (core/targets/dispatcher.py):  *)
(* the bounded number of requests in flight to one address, shared by every *)
(* refresh cycle that is open for it.                                      *)
(*                                                                         *)
(* The code runs on one asyncio event loop, so a handler that does not     *)
(* suspend is one step.  Two things are not one step, and are where the    *)
(* interesting interleavings are:                                          *)
(*   - acquire() suspends on the future of its waiter.  Between the step   *)
(*     that settles the future (it is granted, or cancelled) and the step  *)
(*     in which the suspended task resumes, any other handler may run.     *)
(*   - _admit_next() calls itself again when the waiter it took turns out  *)
(*     to be cancelled, and abandon_cycle() calls it once per reclaimed    *)
(*     slot.  Each such call is a step here; admissions_due counts the     *)
(*     calls still to be made before the running handler returns, and no   *)
(*     other handler moves until it is zero.                               *)
(***************************************************************************)
EXTENDS Integers, Sequences, FiniteSets, Functions

CONSTANTS
    Requests,            \* (cycle_id, request_id) pairs; ids are never shared
    SlowRequests,        \* the requests with priority "slow"
    Cycles,              \* cycle ids
    CycleOf,             \* the first component of each pair
    capacity,            \* Tuning.TargetConcurrency
    max_queued_per_lane, \* Tuning.Crawl.MaxQueuedRequestsPerLane
    fast_batch_limit     \* Tuning.Crawl.FastBatchLimit

ASSUME DispatcherAssumption ==
    /\ IsFiniteSet(Requests)
    /\ SlowRequests \subseteq Requests
    /\ CycleOf \in [Requests -> Cycles]
    /\ capacity \in Nat \ {0}
    /\ max_queued_per_lane \in Nat
    /\ fast_batch_limit \in Nat \ {0}

VARIABLES
    in_flight,        \* the slots handed out, as the code counts them
    fast_queue,       \* waiters, oldest first
    slow_queue,
    consecutive_fast, \* consecutive_fast_without_slow, see AfterFastTurn
    admitted,         \* _admitted
    slow_admitted,    \* _slow_admitted
    abandoned_pairs,  \* _abandoned_pairs
    phase,            \* where the task of each request is, see Phases
    admissions_due    \* calls of _admit_next still to be made

queues == <<fast_queue, slow_queue>>
slots == <<in_flight, admitted, slow_admitted>>
vars == <<in_flight, fast_queue, slow_queue, consecutive_fast, admitted,
          slow_admitted, abandoned_pairs, phase, admissions_due>>

-----------------------------------------------------------------------------
(* Helpers *)

RESERVED_FAST_SLOTS == 1

Least(a, b) == IF a <= b THEN a ELSE b

\* One slot is out of reach of the Slow lane, unless there is only one.
SlowCapacity == capacity - Least(RESERVED_FAST_SLOTS, capacity - 1)

slow_in_flight == Cardinality(slow_admitted)

\* The task of a request is
\*   idle     outside acquire() and the lease
\*   queued   suspended in acquire(), its future pending
\*   dead     suspended in acquire(), its future cancelled
\*   granted  suspended in acquire(), its future has a result
\*   doomed   the same, and the task was cancelled since
\*   holding  inside the lease
Phases == {"idle", "queued", "dead", "granted", "doomed", "holding"}

\* What is left of q when only the members of S stay, in their order: the one
\* member of this set.
Remaining(q, S) ==
    LET kept == {i \in DOMAIN q : q[i] \in S}
        n == Cardinality(kept)
        orderly == {at \in [1..n -> kept] :
                      /\ \A j, k \in 1..n : j < k => at[j] < at[k]
                      /\ \A i \in kept : \E k \in 1..n : at[k] = i}
    IN  {[k \in 1..n |-> q[at[k]]] : at \in orderly}

\* The counter is only ever compared with the limit, so it stops there.
AfterFastTurn == Least(consecutive_fast + 1, fast_batch_limit)

RequestsOf(c) == {r \in Requests : CycleOf[r] = c}

\* The event loop is between two handlers.
Quiet == admissions_due = 0

TypeOK ==
    /\ in_flight \in Int
    /\ fast_queue \in Seq(Requests)
    /\ slow_queue \in Seq(Requests)
    /\ consecutive_fast \in 0..fast_batch_limit
    /\ admitted \subseteq Requests
    /\ slow_admitted \subseteq Requests
    /\ abandoned_pairs \subseteq Requests
    /\ phase \in [Requests -> Phases]
    /\ admissions_due \in Nat

Init ==
    /\ in_flight = 0
    /\ fast_queue = <<>>
    /\ slow_queue = <<>>
    /\ consecutive_fast = 0
    /\ admitted = {}
    /\ slow_admitted = {}
    /\ abandoned_pairs = {}
    /\ phase = [r \in Requests |-> "idle"]
    /\ admissions_due = 0

-----------------------------------------------------------------------------
(* The operations of a request *)

HasRoom(r) ==
    /\ in_flight < capacity
    /\ r \in SlowRequests => slow_in_flight < SlowCapacity

\* Take a slot for r; release() and cancellation give it back.
Admit(r) ==
    /\ in_flight' = in_flight + 1
    /\ admitted' = admitted \cup {r}
    /\ slow_admitted' = IF r \in SlowRequests THEN slow_admitted \cup {r} ELSE slow_admitted

\* A request id is minted once per logical request and reused only by its own
\* retries, so a pair still in abandoned_pairs never asks again.
MayAcquire(r) == Quiet /\ phase[r] = "idle" /\ r \notin abandoned_pairs

\* acquire(), the branch that does not suspend.
AcquireAtOnce(r) ==
    /\ MayAcquire(r)
    /\ HasRoom(r)
    /\ Admit(r)
    /\ phase' = [phase EXCEPT ![r] = "holding"]
    /\ UNCHANGED <<queues, consecutive_fast, abandoned_pairs, admissions_due>>

\* acquire(), the branch that queues a waiter and suspends on its future.
\* With the queue at its bound acquire() raises and nothing changes.
AcquireQueued(r) ==
    /\ MayAcquire(r)
    /\ ~HasRoom(r)
    /\ IF r \in SlowRequests
       THEN /\ Len(slow_queue) < max_queued_per_lane
            /\ slow_queue' = Append(slow_queue, r)
            /\ UNCHANGED fast_queue
       ELSE /\ Len(fast_queue) < max_queued_per_lane
            /\ fast_queue' = Append(fast_queue, r)
            /\ UNCHANGED slow_queue
    /\ phase' = [phase EXCEPT ![r] = "queued"]
    /\ UNCHANGED <<slots, consecutive_fast, abandoned_pairs, admissions_due>>

\* The task of a granted waiter resumes and enters the lease.
Resume(r) ==
    /\ Quiet
    /\ phase[r] = "granted"
    /\ phase' = [phase EXCEPT ![r] = "holding"]
    /\ UNCHANGED <<slots, queues, consecutive_fast, abandoned_pairs, admissions_due>>

\* task.cancel() while the task is suspended in acquire().  A pending future
\* is cancelled on the spot; a settled one only leaves the task with a
\* CancelledError to meet when it resumes.
CancelTask(r) ==
    /\ Quiet
    /\ \/ phase[r] = "queued" /\ phase' = [phase EXCEPT ![r] = "dead"]
       \/ phase[r] = "granted" /\ phase' = [phase EXCEPT ![r] = "doomed"]
    /\ UNCHANGED <<slots, queues, consecutive_fast, abandoned_pairs, admissions_due>>

\* release(): give back the slot r holds and serve the next waiter; a slot
\* that abandon_cycle() took away is only struck off the list.
release(r) ==
    IF r \in admitted
    THEN /\ admitted' = admitted \ {r}
         /\ slow_admitted' = slow_admitted \ {r}
         /\ in_flight' = in_flight - 1
         /\ admissions_due' = 1
         /\ UNCHANGED abandoned_pairs
    ELSE /\ abandoned_pairs' = abandoned_pairs \ {r}
         /\ UNCHANGED <<slots, admissions_due>>

\* The body of the lease ends, in whichever way, and __aexit__ runs.
LeaseExit(r) ==
    /\ Quiet
    /\ phase[r] = "holding"
    /\ release(r)
    /\ phase' = [phase EXCEPT ![r] = "idle"]
    /\ UNCHANGED <<queues, consecutive_fast>>

\* Mutant of AcquireCancelled: a waiter that was granted before its cancellation
\* reached it does not give its slot back.
ForgetsGrantedSlot(r) ==
    /\ Quiet
    /\ phase[r] \in {"dead", "doomed"}
    /\ phase' = [phase EXCEPT ![r] = "idle"]
    /\ fast_queue' \in Remaining(fast_queue, Requests \ {r})
    /\ slow_queue' \in Remaining(slow_queue, Requests \ {r})
    /\ UNCHANGED <<slots, consecutive_fast, abandoned_pairs, admissions_due>>

\* The CancelledError reaches acquire(): the waiter leaves the queue, or gives
\* back the slot it was just given, or has nothing left to give back.
AcquireCancelled(r) ==
    /\ Quiet
    /\ phase[r] \in {"dead", "doomed"}
    /\ phase' = [phase EXCEPT ![r] = "idle"]
    /\ IF r \in Range(fast_queue) \cup Range(slow_queue)
       THEN /\ fast_queue' \in Remaining(fast_queue, Requests \ {r})
            /\ slow_queue' \in Remaining(slow_queue, Requests \ {r})
            /\ UNCHANGED <<slots, abandoned_pairs, admissions_due>>
       ELSE /\ UNCHANGED queues
            /\ IF r \in admitted
               THEN release(r)
               ELSE UNCHANGED <<slots, abandoned_pairs, admissions_due>>
    /\ UNCHANGED consecutive_fast

-----------------------------------------------------------------------------
(* _admit_next() *)

\* Mutant of FastWithinBatch: no batch limit.
FastWaiting == fast_queue # <<>>

\* Mutant of SlowEligible: the reserved slot is forgotten.
SlowWaiting == slow_queue # <<>>

FastWithinBatch == fast_queue # <<>> /\ consecutive_fast < fast_batch_limit
SlowEligible == slow_queue # <<>> /\ slow_in_flight < SlowCapacity

\* The waiter taken from its queue gets the slot, and this call is the last
\* of its recursion; one that is already cancelled gets nothing and the
\* function calls itself again.
Serve(r) ==
    IF phase[r] = "queued"
    THEN /\ Admit(r)
         /\ phase' = [phase EXCEPT ![r] = "granted"]
         /\ admissions_due' = admissions_due - 1
    ELSE UNCHANGED <<slots, phase, admissions_due>>

AdmitFast ==
    /\ admissions_due > 0
    /\ fast_queue # <<>>
    /\ FastWithinBatch \/ ~SlowEligible
    /\ Serve(Head(fast_queue))
    /\ fast_queue' = Tail(fast_queue)
    /\ consecutive_fast' = AfterFastTurn
    /\ UNCHANGED <<slow_queue, abandoned_pairs>>

AdmitSlow ==
    /\ admissions_due > 0
    /\ SlowEligible
    /\ ~FastWithinBatch
    /\ Serve(Head(slow_queue))
    /\ slow_queue' = Tail(slow_queue)
    /\ consecutive_fast' = 0
    /\ UNCHANGED <<fast_queue, abandoned_pairs>>

AdmitNobody ==
    /\ admissions_due > 0
    /\ fast_queue = <<>>
    /\ ~SlowEligible
    /\ admissions_due' = admissions_due - 1
    /\ UNCHANGED <<slots, queues, consecutive_fast, abandoned_pairs, phase>>

-----------------------------------------------------------------------------
(* The operations of a cycle *)

\* Mutant of DropWaiters: the waiters of every cycle go.
DropAllWaiters(c) ==
    /\ fast_queue' = <<>>
    /\ slow_queue' = <<>>
    /\ phase' = [r \in Requests |-> IF phase[r] = "queued" THEN "dead" ELSE phase[r]]

\* The waiters of c leave both queues and their pending futures are cancelled.
DropWaiters(c) ==
    /\ fast_queue' \in Remaining(fast_queue, Requests \ RequestsOf(c))
    /\ slow_queue' \in Remaining(slow_queue, Requests \ RequestsOf(c))
    /\ phase' = [r \in Requests |->
                    IF r \in RequestsOf(c) /\ phase[r] = "queued" THEN "dead" ELSE phase[r]]

cancel_cycle(c) ==
    /\ Quiet
    /\ DropWaiters(c)
    /\ UNCHANGED <<slots, consecutive_fast, abandoned_pairs, admissions_due>>

\* Mutant of abandon_cycle: one admission for however many slots.
AbandonAdmitsOnce(c) ==
    LET stale == admitted \cap RequestsOf(c)
    IN  /\ Quiet
        /\ DropWaiters(c)
        /\ admitted' = admitted \ stale
        /\ slow_admitted' = slow_admitted \ stale
        /\ in_flight' = in_flight - Cardinality(stale)
        /\ abandoned_pairs' = abandoned_pairs \cup stale
        /\ admissions_due' = Least(1, Cardinality(stale))
        /\ UNCHANGED consecutive_fast

\* Emergency reclamation at shutdown: the slots of c are taken back from under
\* the tasks that hold them, and each is offered to the next waiter.
abandon_cycle(c) ==
    LET stale == admitted \cap RequestsOf(c)
    IN  /\ Quiet
        /\ DropWaiters(c)
        /\ admitted' = admitted \ stale
        /\ slow_admitted' = slow_admitted \ stale
        /\ in_flight' = in_flight - Cardinality(stale)
        /\ abandoned_pairs' = abandoned_pairs \cup stale
        /\ admissions_due' = Cardinality(stale)
        /\ UNCHANGED consecutive_fast

-----------------------------------------------------------------------------
RequestStep(r) ==
    \/ AcquireAtOnce(r)
    \/ AcquireQueued(r)
    \/ Resume(r)
    \/ CancelTask(r)
    \/ LeaseExit(r)
    \/ AcquireCancelled(r)

_admit_next == AdmitFast \/ AdmitSlow \/ AdmitNobody

Next ==
    \/ \E r \in Requests : RequestStep(r)
    \/ _admit_next
    \/ \E c \in Cycles : cancel_cycle(c) \/ abandon_cycle(c)

\* The event loop runs every task it has made ready, a handler runs to its
\* end, and a request in flight ends: bounded_fetch() puts each attempt under
\* asyncio.wait_for().  Strong fairness, because a ready task is not enabled
\* here while another handler runs (Quiet), yet keeps its place in the loop's
\* first-in first-out list.  Nobody has to ask for a slot or cancel anything.
Fairness ==
    /\ WF_vars(_admit_next)
    /\ \A r \in Requests : SF_vars(Resume(r) \/ LeaseExit(r) \/ AcquireCancelled(r))

Spec == Init /\ [][Next]_vars
FairSpec == Spec /\ Fairness

-----------------------------------------------------------------------------
(* Properties *)

\* Requests whose task was given a slot and has not given it back yet.
Owning == {r \in Requests : phase[r] \in {"granted", "doomed", "holding"}}

\* Requests whose task is suspended on a future that was not granted.
Waiters == {r \in Requests : phase[r] \in {"queued", "dead"}}

\* No slot is lost and none is invented: the count, the two sets of admitted
\* pairs and the tasks that will call release() agree, whatever was cancelled,
\* abandoned or granted in between, and no release() meets a pair it does not
\* know (release(), acquire()'s CancelledError handler, abandon_cycle()).
LeaseAccounting ==
    /\ in_flight = Cardinality(admitted)
    /\ slow_admitted = admitted \cap SlowRequests
    /\ admitted \cap abandoned_pairs = {}
    /\ admitted \subseteq Owning
    /\ Owning \subseteq admitted \cup abandoned_pairs
    /\ abandoned_pairs \cap Waiters = {}

\* The BMC never has more than its bound of requests in flight, and the slot
\* reserved for Fast is never given to Slow, not even by the several
\* admissions that one abandon_cycle() makes (_slow_capacity, _admit_next()).
SlotBounds ==
    /\ in_flight + admissions_due <= capacity
    /\ slow_in_flight <= SlowCapacity

\* Between two handlers no waiter sits in a queue while there is a slot it
\* could have: a slot is never freed without being offered, and no admission
\* is spent on a cancelled waiter (_admit_next()'s recursion).
NoIdleSlot ==
    Quiet =>
        /\ fast_queue # <<>> => in_flight = capacity
        /\ slow_queue # <<>> => in_flight = capacity \/ slow_in_flight = SlowCapacity

\* The queues hold the suspended waiters of their lane, each once; a waiter
\* whose future is still pending is always in its queue.
QueueInv ==
    /\ IsInjective(fast_queue) /\ IsInjective(slow_queue)
    /\ Range(fast_queue) \cap SlowRequests = {}
    /\ Range(slow_queue) \subseteq SlowRequests
    /\ Range(fast_queue) \cup Range(slow_queue) \subseteq Waiters
    /\ \A r \in Requests : phase[r] = "queued" => r \in Range(fast_queue) \cup Range(slow_queue)

\* NoIdleSlot also while a handler is running: a slot that is free although
\* somebody waits for it is owed to one of the admissions still to be made.
OwedSlots ==
    /\ fast_queue # <<>> => in_flight + admissions_due = capacity
    /\ slow_queue # <<>> =>
          \/ in_flight + admissions_due = capacity
          \/ slow_in_flight + admissions_due >= SlowCapacity

\* The inductive invariant behind LeaseAccounting, SlotBounds and NoIdleSlot.
IInv == TypeOK /\ LeaseAccounting /\ SlotBounds /\ QueueInv /\ OwedSlots

\* The detailed dispatcher gives out slots as LeaseSlots promises: nobody is
\* served before an older request of the lane, and what one cycle cancels or
\* abandons never touches the wait or the slot of another.
Slots == INSTANCE LeaseSlots WITH
    Capacity <- capacity,
    waiting <- {r \in Requests : phase[r] = "queued"},
    leases <- admitted
ImplementsLeaseSlots == Slots!SlotsSpec

\* A waiter does not stay in the queue for ever, although others keep coming:
\* Fast ones are not held up by Slow ones, and the batch limit keeps an endless
\* supply of Fast ones from starving Slow (consecutive_fast_without_slow).  The
\* queues are first in, first out, so it is enough that the heads keep leaving.
EveryWaiterIsServed ==
    /\ []<>(fast_queue = <<>>) \/ []<><<fast_queue # <<>> /\ fast_queue' = Tail(fast_queue)>>_vars
    /\ []<>(slow_queue = <<>>) \/ []<><<slow_queue # <<>> /\ slow_queue' = Tail(slow_queue)>>_vars

\* What the comment at the declaration of _abandoned_pairs says of it: it only
\* ever holds pairs still awaiting their one late release.
AbandonedAwaitRelease == abandoned_pairs \subseteq Owning

=============================================================================

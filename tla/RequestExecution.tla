-------------------------- MODULE RequestExecution --------------------------
(***************************************************************************)
(* A Redfish request on its way through what bounds it: the semaphore of   *)
(* its cycle, the byte budget of the process, the dispatcher of its BMC    *)
(* and its own retries (core/targets/request_execution.py, with fetch() of *)
(* core/rawCollector.py and _login_via_unified_engine() of                 *)
(* core/targets/login.py, which both take the semaphore around it).        *)
(*                                                                         *)
(* What a request does between two suspensions is one step.  The           *)
(* dispatcher is what LeaseSlots.tla promises of it: a request that waits  *)
(* for a lease gets one when there is a slot for its lane, and no newcomer *)
(* of its lane gets one before it.  Dispatcher.tla implements LeaseSlots,  *)
(* and the requests of every BMC keep to it.                               *)
(***************************************************************************)
EXTENDS Integers, FiniteSets

CONSTANTS
    Requests,
    SlowRequests,       \* the requests with priority "slow"
    Cycles,             \* each has a local_semaphore
    CycleOf,            \* the cycle of each request
    Bmcs,               \* each has a dispatcher
    BmcOf,              \* the BMC of each cycle
    target_concurrency, \* Tuning.TargetConcurrency, of semaphore and dispatcher
    capacity_bytes,     \* Tuning.IO.MaxInFlightResponseBytes
    max_response_bytes, \* Tuning.MaxResponseBytes
    max_attempts        \* of each request: Request.MaxAttempts, Login.MaxAttempts, 1

ASSUME RequestExecutionAssumption ==
    /\ IsFiniteSet(Requests)
    /\ SlowRequests \subseteq Requests
    /\ CycleOf \in [Requests -> Cycles]
    /\ BmcOf \in [Cycles -> Bmcs]
    /\ target_concurrency \in Nat \ {0}
    /\ max_response_bytes \in Nat \ {0}
    /\ capacity_bytes \in Nat
    /\ max_response_bytes <= capacity_bytes
    /\ max_attempts \in [Requests -> Nat \ {0}]

VARIABLES
    stage,       \* where each request is suspended
    attempt,     \* the attempts it has begun
    expired,     \* requests whose deadline has passed
    interrupted, \* requests that will be thrown out of their wait
    in_use,      \* InFlightByteBudget._in_use
    waiters      \* requests with a future in InFlightByteBudget._waiters

vars == <<stage, attempt, expired, interrupted, in_use, waiters>>

\* Not begun; in the wait for the semaphore; in the wait for bytes; out of that
\* wait, but yet to run; in the wait for a lease; in wait_for(); in the
\* backoff's sleep; over.
Stages == {"new", "semaphore", "parked", "woken", "leasing", "attempting", "sleeping", "done"}

\* The stages in which a request holds its cycle's semaphore, and bytes.
Inside == {"parked", "woken", "leasing", "attempting", "sleeping"}
HoldsBytes(r) == stage[r] \in {"leasing", "attempting"}

SemaphoreFree(r) ==
    Cardinality({q \in Requests : CycleOf[q] = CycleOf[r] /\ stage[q] \in Inside}) < target_concurrency

RequestsAt(b) == {r \in Requests : BmcOf[CycleOf[r]] = b}

\* Who has a lease of the dispatcher of BMC b, and who waits for one.
Leases(b) == {r \in RequestsAt(b) : stage[r] = "attempting"}
Waiting(b) == {r \in RequestsAt(b) : stage[r] = "leasing" /\ r \notin interrupted}

\* One slot is out of reach of the Slow lane, unless there is only one.
SlowCapacity == IF target_concurrency = 1 THEN 1 ELSE target_concurrency - 1

\* Mutant of SlotFree: no slot is kept for the Fast lane.
AnySlotFree(r) == Cardinality(Leases(BmcOf[CycleOf[r]])) < target_concurrency

SlotFree(r) ==
    LET held == Leases(BmcOf[CycleOf[r]])
    IN  /\ Cardinality(held) < target_concurrency
        /\ r \in SlowRequests => Cardinality(held \cap SlowRequests) < SlowCapacity

\* A waiter that was handed a slot, but has yet to run, is still one of those who
\* wait, so a slot is there for a newcomer when nobody of its lane waits for one.
ServedAtOnce(r) ==
    /\ SlotFree(r)
    /\ \A q \in Waiting(BmcOf[CycleOf[r]]) : ~(q \in SlowRequests <=> r \in SlowRequests)

BytesFree == in_use + max_response_bytes <= capacity_bytes

Init ==
    /\ stage = [r \in Requests |-> "new"]
    /\ attempt = [r \in Requests |-> 0]
    /\ expired = {}
    /\ interrupted = {}
    /\ in_use = 0
    /\ waiters = {}

-----------------------------------------------------------------------------
(* InFlightByteBudget *)

Move(r, s) == stage' = [stage EXCEPT ![r] = s]

\* release() sets the futures that are not done, which that of an interrupted
\* request is, and forgets them all.
Awoken == waiters \ interrupted

\* Request r goes to stage s and releases its bytes: every waiter may try again.
ReleaseAndMove(r, s) ==
    /\ in_use' = IF in_use < max_response_bytes THEN 0 ELSE in_use - max_response_bytes
    /\ stage' = [q \in Requests |->
          IF q = r THEN s ELSE IF q \in Awoken THEN "woken" ELSE stage[q]]
    /\ waiters' = {}

\* Mutant of Park: the future is not put among the waiters.
ParkUnseen(r) ==
    /\ Move(r, "parked")
    /\ UNCHANGED <<attempt, in_use, waiters>>

Park(r) ==
    /\ Move(r, "parked")
    /\ waiters' = waiters \cup {r}
    /\ UNCHANGED <<attempt, in_use>>

\* The bytes are reserved and the lease asked for.  When it is there at once,
\* the attempt begins, unless the deadline has passed, and then the bytes are
\* back before anybody sees them gone.
ReserveAndLease(r) ==
    /\ BytesFree
    /\ \/ /\ ServedAtOnce(r)
          /\ r \notin expired
          /\ Move(r, "attempting")
          /\ attempt' = [attempt EXCEPT ![r] = @ + 1]
          /\ in_use' = in_use + max_response_bytes
          /\ UNCHANGED waiters
       \/ /\ ~ServedAtOnce(r)
          /\ Move(r, "leasing")
          /\ in_use' = in_use + max_response_bytes
          /\ UNCHANGED <<attempt, waiters>>
       \/ /\ ServedAtOnce(r)
          /\ r \in expired
          /\ stage' = [q \in Requests |->
                IF q = r THEN "done" ELSE IF q \in Awoken THEN "woken" ELSE stage[q]]
          /\ waiters' = {}
          /\ UNCHANGED <<attempt, in_use>>

-----------------------------------------------------------------------------
(* bounded_fetch() *)

\* The beginning of an attempt.
TryAttempt(r) ==
    \/ r \in expired /\ Move(r, "done") /\ UNCHANGED <<attempt, in_use, waiters>>
    \/ r \notin expired /\ ReserveAndLease(r)
    \/ r \notin expired /\ ~BytesFree /\ Park(r)

Begin(r) ==
    /\ stage[r] = "new"
    /\ \/ SemaphoreFree(r) /\ TryAttempt(r)
       \/ ~SemaphoreFree(r) /\ Move(r, "semaphore") /\ UNCHANGED <<attempt, in_use, waiters>>
    /\ UNCHANGED <<expired, interrupted>>

EnterSemaphore(r) ==
    /\ stage[r] = "semaphore" /\ r \notin interrupted
    /\ SemaphoreFree(r)
    /\ TryAttempt(r)
    /\ UNCHANGED <<expired, interrupted>>

\* The loop of reserve() asks for room before it asks for time.
Resume(r) ==
    /\ stage[r] = "woken" /\ r \notin interrupted
    /\ \/ ReserveAndLease(r)
       \/ ~BytesFree /\ r \notin expired /\ Park(r)
       \/ ~BytesFree /\ r \in expired /\ Move(r, "done") /\ UNCHANGED <<attempt, in_use, waiters>>
    /\ UNCHANGED <<expired, interrupted>>

\* Mutant of GetLease: the deadline is not looked at again.
GetLeaseRegardless(r) ==
    /\ stage[r] = "leasing" /\ r \notin interrupted
    /\ SlotFree(r)
    /\ Move(r, "attempting")
    /\ attempt' = [attempt EXCEPT ![r] = @ + 1]
    /\ UNCHANGED <<expired, interrupted, in_use, waiters>>

\* The lease is there; attempt_timeout tells whether it came too late.
GetLease(r) ==
    /\ stage[r] = "leasing" /\ r \notin interrupted
    /\ SlotFree(r)
    /\ \/ /\ r \notin expired
          /\ Move(r, "attempting")
          /\ attempt' = [attempt EXCEPT ![r] = @ + 1]
          /\ UNCHANGED <<in_use, waiters>>
       \/ /\ r \in expired
          /\ ReleaseAndMove(r, "done")
          /\ UNCHANGED attempt
    /\ UNCHANGED <<expired, interrupted>>

\* Mutant of EndAttempt: the bytes are kept for the next attempt, which
\* reserves its own.
EndAttemptWithBytes(r) ==
    /\ stage[r] = "attempting" /\ r \notin interrupted
    /\ \/ ReleaseAndMove(r, "done")
       \/ attempt[r] < max_attempts[r] /\ Move(r, "sleeping") /\ UNCHANGED <<in_use, waiters>>
    /\ UNCHANGED <<attempt, expired, interrupted>>

\* Mutant of EndAttempt: one attempt too many.
EndAttemptOnceMore(r) ==
    /\ stage[r] = "attempting" /\ r \notin interrupted
    /\ \/ ReleaseAndMove(r, "done")
       \/ attempt[r] <= max_attempts[r] /\ r \notin expired /\ ReleaseAndMove(r, "sleeping")
    /\ UNCHANGED <<attempt, expired, interrupted>>

\* The attempt is over within its timeout.  An error that may go away is tried
\* again after the backoff, if there are attempts left and time enough for it.
EndAttempt(r) ==
    /\ stage[r] = "attempting" /\ r \notin interrupted
    /\ \/ ReleaseAndMove(r, "done")
       \/ attempt[r] < max_attempts[r] /\ r \notin expired /\ ReleaseAndMove(r, "sleeping")
    /\ UNCHANGED <<attempt, expired, interrupted>>

EndBackoff(r) ==
    /\ stage[r] = "sleeping" /\ r \notin interrupted
    /\ TryAttempt(r)
    /\ UNCHANGED <<expired, interrupted>>

-----------------------------------------------------------------------------
(* Cancellation and time *)

\* The request is cancelled, or the timer of its wait for bytes fires: it finds
\* out when it runs.
Interrupt(r) ==
    /\ stage[r] \notin {"new", "done"}
    /\ r \notin interrupted
    /\ interrupted' = interrupted \cup {r}
    /\ UNCHANGED <<stage, attempt, expired, in_use, waiters>>

\* Mutant of Unwind: as if only TimeoutError were handled in reserve().
UnwindLeavingFuture(r) ==
    /\ r \in interrupted /\ stage[r] # "done"
    /\ \/ HoldsBytes(r) /\ ReleaseAndMove(r, "done")
       \/ ~HoldsBytes(r) /\ Move(r, "done") /\ UNCHANGED <<in_use, waiters>>
    /\ UNCHANGED <<attempt, expired, interrupted>>

\* The finally clauses on the way out; so ends a request that finds the
\* dispatcher's queue full, too.
Unwind(r) ==
    /\ r \in interrupted /\ stage[r] # "done"
    /\ \/ HoldsBytes(r) /\ ReleaseAndMove(r, "done")
       \/ ~HoldsBytes(r) /\ Move(r, "done") /\ waiters' = waiters \ {r} /\ UNCHANGED in_use
    /\ UNCHANGED <<attempt, expired, interrupted>>

Expire(r) ==
    /\ r \notin expired
    /\ expired' = expired \cup {r}
    /\ UNCHANGED <<stage, attempt, interrupted, in_use, waiters>>

Step(r) ==
    \/ EnterSemaphore(r)
    \/ Resume(r)
    \/ GetLease(r)
    \/ EndAttempt(r)
    \/ EndBackoff(r)
    \/ Unwind(r)

Next == \E r \in Requests : Begin(r) \/ Step(r) \/ Interrupt(r) \/ Expire(r)

Spec == Init /\ [][Next]_vars

\* A request that can run does, wait_for() and sleep() come back, semaphore and
\* dispatcher serve whoever waits.  No deadline has to pass, and nobody has to
\* be cancelled.
FairSpec == Spec /\ \A r \in Requests : WF_vars(Step(r))

-----------------------------------------------------------------------------
(* Properties *)

TypeOK ==
    /\ stage \in [Requests -> Stages]
    /\ attempt \in [Requests -> Nat]
    /\ \A r \in Requests : attempt[r] <= max_attempts[r]
    /\ expired \subseteq Requests
    /\ interrupted \subseteq Requests
    /\ in_use \in Nat
    /\ waiters \subseteq Requests

\* The bytes in use are those of the requests that wait for a lease or have one,
\* each reserved once and released once on whichever way out, and within the
\* budget (reserve, release, the finally clause of bounded_fetch).
BudgetAccounting ==
    /\ in_use = max_response_bytes * Cardinality({r \in Requests : HoldsBytes(r)})
    /\ in_use <= capacity_bytes

\* Nobody waits for bytes that are there, nor without being on the list of those
\* who are woken; and nobody is on it who does not wait (reserve, release).
NobodyParkedForNothing ==
    /\ \A r \in Requests : stage[r] = "parked" /\ r \notin interrupted => r \in waiters /\ ~BytesFree
    /\ \A r \in waiters : stage[r] = "parked"

\* A request that has yet to come to an attempt has one left.
AttemptsAgree ==
    \A r \in Requests : stage[r] \notin {"attempting", "done"} => attempt[r] < max_attempts[r]

\* The inductive invariant behind the invariants above.
IInv ==
    /\ TypeOK
    /\ BudgetAccounting
    /\ NobodyParkedForNothing
    /\ AttemptsAgree

\* No attempt begins after the deadline, however long the request waited for
\* bytes and for its lease (attempt_timeout).
NoAttemptTooLate ==
    [][\A r \in Requests : stage'[r] = "attempting" /\ stage[r] # "attempting" => r \notin expired]_vars

\* What the requests of a BMC do among themselves is what LeaseSlots allows: a
\* newcomer never overtakes a waiter of its lane, Slow never takes the slot kept for
\* Fast, and a lease is never held twice, by whichever way a request comes to it
\* (bounded_fetch, acquire, release).
Slots(b) == INSTANCE LeaseSlots WITH
    Capacity <- target_concurrency,
    waiting <- Waiting(b),
    leases <- Leases(b)
ImplementsLeaseSlots ==
    /\ \A b \in Bmcs : Slots(b)!SlotsInit
    /\ [][\A b \in Bmcs : [Slots(b)!SlotsNext]_(Slots(b)!slots)]_vars

\* Every request that has begun ends, without any deadline's help: semaphore,
\* bytes and lease are taken in one order, and nobody is forgotten who waits for
\* one of them (fetch, bounded_fetch).
EveryRequestEnds == \A r \in Requests : stage[r] # "new" ~> stage[r] = "done"

=============================================================================

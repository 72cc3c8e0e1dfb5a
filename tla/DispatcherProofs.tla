-------------------------- MODULE DispatcherProofs --------------------------
(***************************************************************************)
(* Proofs about the dispatcher, for every set of requests, every number of *)
(* slots and every queue bound.                                            *)
(***************************************************************************)
EXTENDS Dispatcher, FiniteSetTheorems, TLAPS

\* What Remaining() returns: a queue of the same requests, none twice if none
\* was twice before, exactly those in S.
LEMMA RemainingProperties ==
    ASSUME NEW q \in Seq(Requests), NEW S, NEW t \in Remaining(q, S)
    PROVE  /\ t \in Seq(Requests)
           /\ Range(t) = Range(q) \cap S
           /\ IsInjective(q) => IsInjective(t)
<1> DEFINE kept == {i \in DOMAIN q : q[i] \in S}
           n == Cardinality(kept)
<1>1. IsFiniteSet(kept) /\ n \in Nat
  <2>1. DOMAIN q = 1..Len(q) /\ Len(q) \in Nat
    OBVIOUS
  <2>2. IsFiniteSet(1..Len(q))
    BY <2>1, FS_Interval
  <2>3. kept \subseteq 1..Len(q)
    BY <2>1
  <2> QED
    BY <2>2, <2>3, FS_Subset, FS_CardinalityType
<1>2. PICK at \in [1..n -> kept] :
         /\ \A j, k \in 1..n : j < k => at[j] < at[k]
         /\ \A i \in kept : \E k \in 1..n : at[k] = i
         /\ t = [k \in 1..n |-> q[at[k]]]
  BY DEF Remaining
<1> HIDE DEF n
<1>3. DOMAIN t = 1..n
  BY <1>2
<1>4. \A k \in 1..n : at[k] \in DOMAIN q /\ q[at[k]] \in S /\ t[k] = q[at[k]]
  BY <1>2
<1>5. t \in Seq(Requests)
  <2>1. \A k \in 1..n : t[k] \in Requests
    BY <1>4
  <2> QED
    BY <2>1, <1>1, <1>2
<1>6. Range(t) = Range(q) \cap S
  <2>1. Range(t) \subseteq Range(q) \cap S
    BY <1>3, <1>4 DEF Range
  <2>2. Range(q) \cap S \subseteq Range(t)
    <3> SUFFICES ASSUME NEW i \in DOMAIN q, q[i] \in S
                 PROVE  \E k \in DOMAIN t : t[k] = q[i]
      BY DEF Range
    <3>1. PICK k \in 1..n : at[k] = i
      BY <1>2
    <3> QED
      BY <3>1, <1>3, <1>4
  <2> QED
    BY <2>1, <2>2
<1>7. ASSUME IsInjective(q) PROVE IsInjective(t)
  <2> SUFFICES ASSUME NEW j \in 1..n, NEW k \in 1..n, t[j] = t[k]
               PROVE  j = k
    BY <1>3 DEF IsInjective
  <2>1. at[j] = at[k]
    BY <1>4, <1>7 DEF IsInjective
  <2>2. at[j] \in Int /\ at[k] \in Int
    BY <1>4
  <2>3. ~(j < k) /\ ~(k < j)
    BY <2>1, <2>2, <1>2
  <2> QED
    BY <2>3, <1>1
<1> QED
  BY <1>5, <1>6, <1>7

-----------------------------------------------------------------------------
(* Facts about the constants and about single steps *)

\* The Slow lane has at least one slot and at most all of them (_slow_capacity).
LEMMA SlowCapacityType ==
    SlowCapacity \in 1..capacity
  BY DispatcherAssumption DEF SlowCapacity, Least, RESERVED_FAST_SLOTS

\* Every set of requests is finite and has a size.
LEMMA SubsetsAreFinite ==
    ASSUME NEW S \in SUBSET Requests
    PROVE  IsFiniteSet(S) /\ Cardinality(S) \in Nat
  BY DispatcherAssumption, FS_Subset, FS_CardinalityType

\* Appending a request that is not in a queue.
LEMMA AppendToQueue ==
    ASSUME NEW q \in Seq(Requests), NEW r \in Requests \ Range(q), IsInjective(q)
    PROVE  /\ Append(q, r) \in Seq(Requests)
           /\ Range(Append(q, r)) = Range(q) \cup {r}
           /\ IsInjective(Append(q, r))
           /\ Append(q, r) # <<>>
<1>1. DOMAIN Append(q, r) = 1..(Len(q) + 1) /\ DOMAIN q = 1..Len(q) /\ Len(q) \in Nat
  OBVIOUS
<1>2. \A i \in 1..Len(q) : Append(q, r)[i] = q[i] /\ q[i] \in Range(q)
  BY DEF Range
<1>3. Append(q, r)[Len(q) + 1] = r
  OBVIOUS
<1>4. Range(Append(q, r)) = Range(q) \cup {r}
  BY <1>1, <1>2, <1>3 DEF Range
<1>5. IsInjective(Append(q, r))
  BY <1>1, <1>2, <1>3 DEF IsInjective
<1> QED
  BY <1>1, <1>4, <1>5

\* A queue is empty when it holds no request.
LEMMA EmptyRange ==
    ASSUME NEW q \in Seq(Requests)
    PROVE  q = <<>> <=> Range(q) = {}
<1>1. q = <<>> <=> Len(q) = 0
  OBVIOUS
<1>2. DOMAIN q = 1..Len(q) /\ Len(q) \in Nat
  OBVIOUS
<1>3. Len(q) = 0 => 1..Len(q) = {}
  OBVIOUS
<1>4. Len(q) # 0 => 1 \in 1..Len(q)
  BY <1>2
<1> QED
  BY <1>1, <1>2, <1>3, <1>4 DEF Range

\* Taking the oldest waiter out of a queue.
LEMMA HeadOfQueue ==
    ASSUME NEW q \in Seq(Requests), q # <<>>, IsInjective(q)
    PROVE  /\ Head(q) \in Range(q)
           /\ Head(q) \in Requests
           /\ Tail(q) \in Seq(Requests)
           /\ Range(Tail(q)) = Range(q) \ {Head(q)}
           /\ IsInjective(Tail(q))
<1>1. Len(q) \in Nat \ {0} /\ DOMAIN q = 1..Len(q) /\ Head(q) = q[1]
  OBVIOUS
<1>2. /\ Tail(q) \in Seq(Requests)
      /\ DOMAIN Tail(q) = 1..(Len(q) - 1)
      /\ \A i \in 1..(Len(q) - 1) : Tail(q)[i] = q[i + 1]
  BY <1>1
<1>3. Range(Tail(q)) = Range(q) \ {Head(q)}
  <2>1. ASSUME NEW i \in 1..(Len(q) - 1)
        PROVE  Tail(q)[i] \in Range(q) \ {Head(q)}
    BY <1>1, <1>2 DEF IsInjective, Range
  <2>2. ASSUME NEW i \in 1..Len(q), q[i] # Head(q)
        PROVE  i - 1 \in DOMAIN Tail(q) /\ Tail(q)[i - 1] = q[i]
    BY <1>1, <1>2, <2>2
  <2>3. \A x \in Range(Tail(q)) : x \in Range(q) \ {Head(q)}
    BY <1>2, <2>1 DEF Range
  <2>4. \A x \in Range(q) \ {Head(q)} : x \in Range(Tail(q))
    BY ZenonT(60), <1>1, <2>2 DEF Range
  <2> QED
    BY <2>3, <2>4
<1>4. IsInjective(Tail(q))
  BY <1>1, <1>2 DEF IsInjective
<1>5. Head(q) \in Range(q) /\ Head(q) \in Requests
  BY <1>1 DEF Range
<1> QED
  BY <1>2, <1>3, <1>4, <1>5

\* A slot is taken: the count, the sets and the Slow share move together.
LEMMA AdmitKeepsCount ==
    ASSUME TypeOK, LeaseAccounting, NEW r \in Requests \ admitted, Admit(r)
    PROVE  /\ in_flight' \in Int
           /\ admitted' \subseteq Requests /\ slow_admitted' \subseteq Requests
           /\ in_flight' = Cardinality(admitted')
           /\ in_flight' = in_flight + 1
           /\ slow_admitted' = admitted' \cap SlowRequests
           /\ slow_in_flight \in Nat
           /\ slow_in_flight' = IF r \in SlowRequests THEN slow_in_flight + 1 ELSE slow_in_flight
<1>1. IsFiniteSet(admitted) /\ IsFiniteSet(slow_admitted) /\ slow_in_flight \in Nat
  BY SubsetsAreFinite DEF TypeOK, slow_in_flight
<1>2. Cardinality(admitted \cup {r}) = Cardinality(admitted) + 1
  BY <1>1, FS_AddElement
<1>3. r \notin slow_admitted
  BY DEF LeaseAccounting
<1>4. Cardinality(slow_admitted \cup {r}) = Cardinality(slow_admitted) + 1
  BY <1>1, <1>3, FS_AddElement
<1> QED
  BY <1>1, <1>2, <1>4 DEF Admit, LeaseAccounting, TypeOK, slow_in_flight

\* Slots are given back, one by a release or several by abandon_cycle(), and as
\* many admissions become due.
LEMMA ReclaimKeepsCount ==
    ASSUME TypeOK, LeaseAccounting, Quiet, NEW S \in SUBSET admitted,
           admitted' = admitted \ S,
           slow_admitted' = slow_admitted \ S,
           in_flight' = in_flight - Cardinality(S),
           admissions_due' = Cardinality(S)
    PROVE  /\ in_flight' \in Int /\ admissions_due' \in Nat
           /\ admitted' \subseteq Requests /\ slow_admitted' \subseteq Requests
           /\ in_flight' = Cardinality(admitted')
           /\ slow_admitted' = admitted' \cap SlowRequests
           /\ slow_in_flight \in Nat /\ slow_in_flight' \in Nat
           /\ slow_in_flight' <= slow_in_flight
           /\ in_flight' + admissions_due' = in_flight + admissions_due
           /\ (slow_in_flight + admissions_due >= SlowCapacity
                  => slow_in_flight' + admissions_due' >= SlowCapacity)
<1>1. /\ S \subseteq Requests /\ admitted \subseteq Requests
      /\ slow_admitted \subseteq Requests /\ slow_admitted \cap S \subseteq Requests
  BY DEF TypeOK
<1>2. /\ IsFiniteSet(S) /\ Cardinality(S) \in Nat
      /\ IsFiniteSet(admitted) /\ Cardinality(admitted) \in Nat
      /\ IsFiniteSet(slow_admitted) /\ Cardinality(slow_admitted) \in Nat
      /\ IsFiniteSet(slow_admitted \cap S) /\ Cardinality(slow_admitted \cap S) \in Nat
  BY <1>1, SubsetsAreFinite
<1>3. admitted \cap S = S
  OBVIOUS
<1>4. Cardinality(admitted \ S) = Cardinality(admitted) - Cardinality(S)
  BY <1>2, <1>3, FS_Difference
<1>5. Cardinality(slow_admitted \ S) = Cardinality(slow_admitted) - Cardinality(slow_admitted \cap S)
  BY <1>2, FS_Difference
<1>6. Cardinality(slow_admitted \cap S) <= Cardinality(S)
  BY <1>2, FS_Subset
<1>7. slow_in_flight' = Cardinality(slow_admitted \ S)
  BY DEF slow_in_flight
<1>8. Cardinality(slow_admitted \ S) \in Nat
  BY <1>1, SubsetsAreFinite
<1>9. /\ in_flight' \in Int /\ admissions_due' \in Nat
      /\ in_flight' = Cardinality(admitted')
      /\ in_flight' + admissions_due' = in_flight + admissions_due
  BY <1>2, <1>4 DEF LeaseAccounting, Quiet
<1>10. /\ slow_in_flight \in Nat /\ slow_in_flight' \in Nat
       /\ slow_in_flight' <= slow_in_flight
       /\ (slow_in_flight + admissions_due >= SlowCapacity
              => slow_in_flight' + admissions_due' >= SlowCapacity)
  BY <1>2, <1>5, <1>6, <1>7, <1>8, SlowCapacityType, DispatcherAssumption DEF slow_in_flight, Quiet
<1>11. slow_admitted' = admitted' \cap SlowRequests
  BY DEF LeaseAccounting
<1> QED
  BY <1>1, <1>9, <1>10, <1>11

\* A release() of an admitted pair is a reclaim of one slot, so that what is
\* shown of abandon_cycle() is shown of it as well.
LEMMA ReleaseIsReclaim ==
    ASSUME NEW r \in admitted, release(r)
    PROVE  /\ admitted' = admitted \ {r}
           /\ slow_admitted' = slow_admitted \ {r}
           /\ in_flight' = in_flight - Cardinality({r})
           /\ admissions_due' = Cardinality({r})
           /\ UNCHANGED abandoned_pairs
  BY FS_Singleton DEF release

-----------------------------------------------------------------------------
(* The inductive invariant, one step per action *)

\* A new dispatcher satisfies the inductive invariant.
THEOREM InitIInv == Init => IInv
<1> SUFFICES ASSUME Init PROVE IInv
  OBVIOUS
<1>1. Cardinality({}) = 0
  BY FS_EmptySet
<1>2. TypeOK
  BY DispatcherAssumption DEF Init, TypeOK, Phases
<1>3. LeaseAccounting
  BY <1>1 DEF Init, LeaseAccounting, Owning
<1>4. SlotBounds
  BY <1>1, SlowCapacityType, DispatcherAssumption DEF Init, SlotBounds, slow_in_flight
<1>5. QueueInv
  BY DEF Init, QueueInv, IsInjective, Range
<1>6. OwedSlots
  BY DEF Init, OwedSlots
<1> QED
  BY <1>2, <1>3, <1>4, <1>5, <1>6 DEF IInv

\* acquire() that finds a slot free keeps the inductive invariant.
LEMMA AcquireAtOnceStep ==
    ASSUME IInv, NEW r \in Requests, AcquireAtOnce(r)
    PROVE  IInv'
<1> USE DEF IInv
<1>1. /\ r \notin admitted /\ r \notin abandoned_pairs
      /\ Admit(r) /\ HasRoom(r) /\ Quiet /\ phase[r] = "idle"
  BY DEF AcquireAtOnce, MayAcquire, LeaseAccounting, Owning
<1>2. /\ phase' = [phase EXCEPT ![r] = "holding"]
      /\ UNCHANGED <<fast_queue, slow_queue, consecutive_fast, abandoned_pairs, admissions_due>>
  BY DEF AcquireAtOnce, queues
<1>3. /\ in_flight' \in Int
      /\ admitted' \subseteq Requests /\ slow_admitted' \subseteq Requests
      /\ in_flight' = Cardinality(admitted')
      /\ in_flight' = in_flight + 1
      /\ slow_admitted' = admitted' \cap SlowRequests
      /\ slow_in_flight \in Nat
      /\ slow_in_flight' = IF r \in SlowRequests THEN slow_in_flight + 1 ELSE slow_in_flight
  BY <1>1, AdmitKeepsCount
<1>4. TypeOK'
  BY <1>2, <1>3 DEF TypeOK, Phases
<1>5. LeaseAccounting'
  <2>1. Owning' = Owning \cup {r} /\ Waiters' = Waiters
    BY <1>1, <1>2 DEF Owning, Waiters, TypeOK
  <2> QED
    BY <1>1, <1>2, <1>3, <2>1 DEF LeaseAccounting, Admit
<1>6. SlotBounds'
  BY <1>1, <1>2, <1>3, SlowCapacityType, DispatcherAssumption DEF SlotBounds, HasRoom, Quiet, TypeOK
<1>7. QueueInv'
  BY <1>1, <1>2 DEF QueueInv, Waiters, TypeOK
<1>8. fast_queue = <<>>
  BY <1>1, DispatcherAssumption DEF OwedSlots, HasRoom, Quiet, TypeOK
<1>9. slow_queue # <<>> => r \notin SlowRequests /\ slow_in_flight >= SlowCapacity
  BY <1>1, <1>3, SlowCapacityType, DispatcherAssumption DEF OwedSlots, HasRoom, Quiet, TypeOK
<1>10. OwedSlots'
  BY <1>1, <1>2, <1>3, <1>8, <1>9, SlowCapacityType DEF OwedSlots, TypeOK, Quiet
<1> QED
  BY <1>4, <1>5, <1>6, <1>7, <1>10

\* acquire() that has to wait keeps it: whoever queues found no room.
LEMMA AcquireQueuedStep ==
    ASSUME IInv, NEW r \in Requests, AcquireQueued(r)
    PROVE  IInv'
<1> USE DEF IInv
<1>1. /\ Quiet /\ phase[r] = "idle" /\ ~HasRoom(r)
      /\ r \notin Range(fast_queue) /\ r \notin Range(slow_queue)
  BY DEF AcquireQueued, MayAcquire, QueueInv, Waiters
<1>2. /\ phase' = [phase EXCEPT ![r] = "queued"]
      /\ UNCHANGED <<in_flight, admitted, slow_admitted, consecutive_fast, abandoned_pairs, admissions_due>>
  BY DEF AcquireQueued, slots
<1>3. slow_in_flight \in Nat /\ slow_in_flight' = slow_in_flight
  BY <1>2, SubsetsAreFinite DEF TypeOK, slow_in_flight
<1>4. /\ fast_queue \in Seq(Requests) /\ slow_queue \in Seq(Requests)
      /\ IsInjective(fast_queue) /\ IsInjective(slow_queue)
  BY DEF TypeOK, QueueInv
<1>5. LeaseAccounting'
  <2>1. Owning' = Owning /\ Waiters' = Waiters \cup {r} /\ r \notin abandoned_pairs
    BY <1>1, <1>2 DEF Owning, Waiters, TypeOK, AcquireQueued, MayAcquire
  <2> QED
    BY <1>2, <2>1 DEF LeaseAccounting
<1>6. SlotBounds'
  BY <1>2, <1>3 DEF SlotBounds
<1>7. CASE r \in SlowRequests
  <2>1. slow_queue' = Append(slow_queue, r) /\ fast_queue' = fast_queue
    BY <1>7 DEF AcquireQueued
  <2>2. /\ slow_queue' \in Seq(Requests)
        /\ Range(slow_queue') = Range(slow_queue) \cup {r}
        /\ IsInjective(slow_queue')
    BY <2>1, <1>1, <1>4, AppendToQueue
  <2>3. TypeOK'
    BY <1>2, <2>1, <2>2 DEF TypeOK, Phases
  <2>4. QueueInv'
    BY <1>2, <1>7, <2>1, <2>2 DEF QueueInv, Waiters, TypeOK
  <2>5. in_flight >= capacity \/ slow_in_flight >= SlowCapacity
    BY <1>1, <1>3, <1>7, SlowCapacityType, DispatcherAssumption DEF HasRoom, TypeOK
  <2>6. OwedSlots'
    BY <1>1, <1>2, <1>3, <2>1, <2>5, SlowCapacityType, DispatcherAssumption
       DEF OwedSlots, SlotBounds, Quiet, TypeOK
  <2> QED
    BY <1>5, <1>6, <2>3, <2>4, <2>6
<1>8. CASE r \notin SlowRequests
  <2>1. fast_queue' = Append(fast_queue, r) /\ slow_queue' = slow_queue
    BY <1>8 DEF AcquireQueued
  <2>2. /\ fast_queue' \in Seq(Requests)
        /\ Range(fast_queue') = Range(fast_queue) \cup {r}
        /\ IsInjective(fast_queue')
    BY <2>1, <1>1, <1>4, AppendToQueue
  <2>3. TypeOK'
    BY <1>2, <2>1, <2>2 DEF TypeOK, Phases
  <2>4. QueueInv'
    BY <1>2, <1>8, <2>1, <2>2 DEF QueueInv, Waiters, TypeOK
  <2>5. in_flight >= capacity
    BY <1>1, <1>8, DispatcherAssumption DEF HasRoom, TypeOK
  <2>6. OwedSlots'
    BY <1>1, <1>2, <1>3, <2>1, <2>5, DispatcherAssumption
       DEF OwedSlots, SlotBounds, Quiet, TypeOK
  <2> QED
    BY <1>5, <1>6, <2>3, <2>4, <2>6
<1> QED
  BY <1>7, <1>8

\* A waiter that resumes, or is cancelled while suspended, keeps it.
LEMMA ResumeStep ==
    ASSUME IInv, NEW r \in Requests, Resume(r) \/ CancelTask(r)
    PROVE  IInv'
<1> USE DEF IInv
<1>1. UNCHANGED <<in_flight, admitted, slow_admitted, fast_queue, slow_queue,
                  consecutive_fast, abandoned_pairs, admissions_due>>
  BY DEF Resume, CancelTask, slots, queues
<1>2. \/ phase[r] = "granted" /\ phase' = [phase EXCEPT ![r] = "holding"]
      \/ phase[r] = "granted" /\ phase' = [phase EXCEPT ![r] = "doomed"]
      \/ phase[r] = "queued" /\ phase' = [phase EXCEPT ![r] = "dead"]
  BY DEF Resume, CancelTask
<1>3. Owning' = Owning
  <2>1. \A x \in Requests : phase'[x] \in {"granted", "doomed", "holding"}
                             <=> phase[x] \in {"granted", "doomed", "holding"}
    BY <1>2 DEF TypeOK
  <2> QED
    BY <2>1 DEF Owning
<1>4. slow_in_flight' = slow_in_flight
  BY <1>1 DEF slow_in_flight
<1>5. TypeOK'
  BY <1>1, <1>2 DEF TypeOK, Phases
<1>6. LeaseAccounting'
  <2>1. Waiters' = Waiters
    BY <1>2 DEF Waiters, TypeOK
  <2> QED
    BY <1>1, <1>3, <2>1 DEF LeaseAccounting
<1>7. SlotBounds' /\ OwedSlots'
  BY <1>1, <1>4 DEF SlotBounds, OwedSlots
<1>8. QueueInv'
  <2>1. phase \in [Requests -> Phases]
    BY DEF TypeOK
  <2>2. Waiters' = Waiters /\ \A x \in Requests : phase'[x] = "queued" => phase[x] = "queued"
    BY <1>2, <2>1 DEF Waiters
  <2> QED
    BY <1>1, <2>2 DEF QueueInv
<1> QED
  BY <1>5, <1>6, <1>7, <1>8

\* The end of a lease keeps it, be its slot still its own or taken away by
\* abandon_cycle() before.
LEMMA LeaseExitStep ==
    ASSUME IInv, NEW r \in Requests, LeaseExit(r)
    PROVE  IInv'
<1> USE DEF IInv
<1>1. /\ Quiet /\ phase[r] = "holding" /\ release(r)
      /\ phase' = [phase EXCEPT ![r] = "idle"]
      /\ UNCHANGED <<fast_queue, slow_queue, consecutive_fast>>
  BY DEF LeaseExit, queues
<1>2. QueueInv'
  BY <1>1 DEF QueueInv, Waiters, TypeOK
<1>3. Owning' = Owning \ {r} /\ Waiters' = Waiters
  BY <1>1 DEF Owning, Waiters, TypeOK
<1>4. CASE r \in admitted
  <2>1. UNCHANGED abandoned_pairs /\ admitted' = admitted \ {r}
    BY <1>1, <1>4, ReleaseIsReclaim
  <2>2. /\ in_flight' \in Int /\ admissions_due' \in Nat
        /\ admitted' \subseteq Requests /\ slow_admitted' \subseteq Requests
        /\ in_flight' = Cardinality(admitted')
        /\ slow_admitted' = admitted' \cap SlowRequests
        /\ slow_in_flight \in Nat /\ slow_in_flight' \in Nat
        /\ slow_in_flight' <= slow_in_flight
        /\ in_flight' + admissions_due' = in_flight + admissions_due
        /\ (slow_in_flight + admissions_due >= SlowCapacity
               => slow_in_flight' + admissions_due' >= SlowCapacity)
    BY <1>1, <1>4, ReleaseIsReclaim, ReclaimKeepsCount
  <2>3. TypeOK'
    BY <1>1, <2>1, <2>2 DEF TypeOK, Phases
  <2>4. LeaseAccounting'
    BY <1>3, <2>1, <2>2 DEF LeaseAccounting
  <2>5. SlotBounds'
    BY <2>2, SlowCapacityType DEF SlotBounds
  <2>6. OwedSlots'
    BY <1>1, <2>2 DEF OwedSlots
  <2> QED
    BY <1>2, <2>3, <2>4, <2>5, <2>6
<1>5. CASE r \notin admitted
  <2>1. /\ abandoned_pairs' = abandoned_pairs \ {r}
        /\ UNCHANGED <<in_flight, admitted, slow_admitted, admissions_due>>
    BY <1>1, <1>5 DEF release, slots
  <2>2. slow_in_flight' = slow_in_flight
    BY <2>1 DEF slow_in_flight
  <2>3. TypeOK'
    BY <1>1, <2>1 DEF TypeOK, Phases
  <2>4. LeaseAccounting'
    BY <1>3, <1>5, <2>1 DEF LeaseAccounting
  <2>5. SlotBounds' /\ OwedSlots'
    BY <1>1, <2>1, <2>2 DEF SlotBounds, OwedSlots
  <2> QED
    BY <1>2, <2>3, <2>4, <2>5
<1> QED
  BY <1>4, <1>5

\* A waiter that meets its cancellation keeps it, in each of the three places
\* where that may find it: queued, granted, or dropped by its cycle.
LEMMA AcquireCancelledStep ==
    ASSUME IInv, NEW r \in Requests, AcquireCancelled(r)
    PROVE  IInv'
<1> USE DEF IInv
<1>1. /\ Quiet /\ phase[r] \in {"dead", "doomed"}
      /\ phase' = [phase EXCEPT ![r] = "idle"]
      /\ UNCHANGED consecutive_fast
  BY DEF AcquireCancelled
<1>2. Owning' = Owning \ {r} /\ Waiters' = Waiters \ {r}
  BY <1>1 DEF Owning, Waiters, TypeOK
<1>3. CASE r \in Range(fast_queue) \cup Range(slow_queue)
  <2>1. /\ fast_queue' \in Remaining(fast_queue, Requests \ {r})
        /\ slow_queue' \in Remaining(slow_queue, Requests \ {r})
        /\ UNCHANGED <<in_flight, admitted, slow_admitted, abandoned_pairs, admissions_due>>
    BY <1>3 DEF AcquireCancelled, slots
  <2>2. fast_queue \in Seq(Requests) /\ slow_queue \in Seq(Requests)
    BY DEF TypeOK
  <2>3. /\ fast_queue' \in Seq(Requests)
        /\ Range(fast_queue') = Range(fast_queue) \cap (Requests \ {r})
        /\ IsInjective(fast_queue) => IsInjective(fast_queue')
    BY <2>1, <2>2, RemainingProperties
  <2>4. /\ slow_queue' \in Seq(Requests)
        /\ Range(slow_queue') = Range(slow_queue) \cap (Requests \ {r})
        /\ IsInjective(slow_queue) => IsInjective(slow_queue')
    BY <2>1, <2>2, RemainingProperties
  <2>5. r \notin Owning
    BY <1>3 DEF QueueInv, Owning, Waiters
  <2>6. TypeOK'
    BY <1>1, <2>1, <2>3, <2>4 DEF TypeOK, Phases
  <2>7. LeaseAccounting'
    BY <1>2, <2>1, <2>5 DEF LeaseAccounting
  <2>8. QueueInv'
    BY <1>1, <2>3, <2>4 DEF QueueInv, Waiters, TypeOK
  <2>9. /\ fast_queue' # <<>> => fast_queue # <<>>
        /\ slow_queue' # <<>> => slow_queue # <<>>
    BY <2>2, <2>3, <2>4, EmptyRange
  <2>10. slow_in_flight' = slow_in_flight
    BY <2>1 DEF slow_in_flight
  <2>11. SlotBounds' /\ OwedSlots'
    BY <2>1, <2>9, <2>10 DEF SlotBounds, OwedSlots
  <2> QED
    BY <2>6, <2>7, <2>8, <2>11
<1>4. CASE r \notin Range(fast_queue) \cup Range(slow_queue)
  <2>1. UNCHANGED <<fast_queue, slow_queue>>
    BY <1>4 DEF AcquireCancelled, queues
  <2>2. QueueInv'
    BY <1>1, <1>4, <2>1 DEF QueueInv, Waiters, TypeOK
  <2>3. CASE r \in admitted
    <3>1. release(r)
      BY <1>4, <2>3 DEF AcquireCancelled
    <3>2. UNCHANGED abandoned_pairs /\ admitted' = admitted \ {r}
      BY <2>3, <3>1, ReleaseIsReclaim
    <3>3. /\ in_flight' \in Int /\ admissions_due' \in Nat
          /\ admitted' \subseteq Requests /\ slow_admitted' \subseteq Requests
          /\ in_flight' = Cardinality(admitted')
          /\ slow_admitted' = admitted' \cap SlowRequests
          /\ slow_in_flight \in Nat /\ slow_in_flight' \in Nat
          /\ slow_in_flight' <= slow_in_flight
          /\ in_flight' + admissions_due' = in_flight + admissions_due
          /\ (slow_in_flight + admissions_due >= SlowCapacity
                 => slow_in_flight' + admissions_due' >= SlowCapacity)
      BY <1>1, <2>3, <3>1, ReleaseIsReclaim, ReclaimKeepsCount
    <3>4. TypeOK'
      BY <1>1, <2>1, <3>2, <3>3 DEF TypeOK, Phases
    <3>5. LeaseAccounting'
      BY <1>2, <3>2, <3>3 DEF LeaseAccounting
    <3>6. SlotBounds'
      BY <3>3, SlowCapacityType DEF SlotBounds
    <3>7. OwedSlots'
      BY <2>1, <3>3 DEF OwedSlots
    <3> QED
      BY <2>2, <3>4, <3>5, <3>6, <3>7
  <2>4. CASE r \notin admitted
    <3>1. UNCHANGED <<in_flight, admitted, slow_admitted, abandoned_pairs, admissions_due>>
      BY <1>4, <2>4 DEF AcquireCancelled, slots
    <3>2. slow_in_flight' = slow_in_flight
      BY <3>1 DEF slow_in_flight
    <3>3. TypeOK'
      BY <1>1, <2>1, <3>1 DEF TypeOK, Phases
    <3>4. LeaseAccounting'
      BY <1>2, <2>4, <3>1 DEF LeaseAccounting
    <3>5. SlotBounds' /\ OwedSlots'
      BY <2>1, <3>1, <3>2 DEF SlotBounds, OwedSlots
    <3> QED
      BY <2>2, <3>3, <3>4, <3>5
  <2> QED
    BY <2>3, <2>4
<1> QED
  BY <1>3, <1>4

\* An admission from the Fast queue keeps it, and a waiter that turns out to be
\* cancelled leaves the admission to be made.
LEMMA AdmitFastStep ==
    ASSUME IInv, AdmitFast
    PROVE  IInv'
<1> DEFINE r == Head(fast_queue)
<1> USE DEF IInv
<1>1. /\ admissions_due \in Nat \ {0} /\ fast_queue # <<>> /\ Serve(r)
      /\ fast_queue' = Tail(fast_queue)
      /\ UNCHANGED <<slow_queue, abandoned_pairs>>
  BY DEF AdmitFast, TypeOK
<1>2. consecutive_fast' \in 0..fast_batch_limit
  BY DispatcherAssumption DEF AdmitFast, AfterFastTurn, Least, TypeOK
<1>3. /\ r \in Range(fast_queue) /\ r \in Requests
      /\ fast_queue' \in Seq(Requests)
      /\ Range(fast_queue') = Range(fast_queue) \ {r}
      /\ IsInjective(fast_queue')
  BY <1>1, HeadOfQueue DEF TypeOK, QueueInv
<1> HIDE DEF r
<1>4. r \notin Owning /\ r \notin admitted /\ r \notin SlowRequests /\ phase[r] \in {"queued", "dead"}
  BY <1>3 DEF QueueInv, Owning, Waiters, LeaseAccounting
<1>5. CASE phase[r] = "queued"
  <2>1. Admit(r) /\ phase' = [phase EXCEPT ![r] = "granted"] /\ admissions_due' = admissions_due - 1
    BY <1>1, <1>5 DEF Serve
  <2>2. /\ in_flight' \in Int
        /\ admitted' \subseteq Requests /\ slow_admitted' \subseteq Requests
        /\ in_flight' = Cardinality(admitted')
        /\ in_flight' = in_flight + 1
        /\ slow_admitted' = admitted' \cap SlowRequests
        /\ slow_in_flight \in Nat
        /\ slow_in_flight' = slow_in_flight
    BY <1>3, <1>4, <2>1, AdmitKeepsCount
  <2>3. TypeOK'
    BY <1>1, <1>2, <1>3, <2>1, <2>2 DEF TypeOK, Phases
  <2>4. LeaseAccounting'
    <3>1. Owning' = Owning \cup {r} /\ Waiters' = Waiters \ {r}
      BY <1>3, <2>1 DEF Owning, Waiters, TypeOK
    <3>2. r \notin abandoned_pairs
      BY <1>3, <1>4 DEF LeaseAccounting, Waiters
    <3> QED
      BY <1>1, <2>1, <2>2, <3>1, <3>2 DEF LeaseAccounting, Admit
  <2>5. SlotBounds'
    BY <1>1, <2>1, <2>2 DEF SlotBounds, TypeOK
  <2>6. QueueInv'
    BY <1>1, <1>3, <1>4, <2>1 DEF QueueInv, Waiters, TypeOK
  <2>7. OwedSlots'
    BY <1>1, <2>1, <2>2, DispatcherAssumption DEF OwedSlots, TypeOK
  <2> QED
    BY <2>3, <2>4, <2>5, <2>6, <2>7
<1>6. CASE phase[r] # "queued"
  <2>1. UNCHANGED <<in_flight, admitted, slow_admitted, phase, admissions_due>>
    BY <1>1, <1>6 DEF Serve, slots
  <2>2. slow_in_flight' = slow_in_flight /\ Owning' = Owning /\ Waiters' = Waiters
    BY <2>1 DEF slow_in_flight, Owning, Waiters
  <2>3. TypeOK'
    BY <1>1, <1>2, <1>3, <2>1 DEF TypeOK
  <2>4. LeaseAccounting'
    BY <1>1, <2>1, <2>2 DEF LeaseAccounting
  <2>5. QueueInv'
    BY <1>1, <1>3, <1>6, <2>1, <2>2 DEF QueueInv
  <2>6. SlotBounds' /\ OwedSlots'
    BY <1>1, <2>1, <2>2 DEF SlotBounds, OwedSlots
  <2> QED
    BY <2>3, <2>4, <2>5, <2>6
<1> QED
  BY <1>5, <1>6

\* An admission from the Slow queue keeps it, and the reserved slot free of Slow.
LEMMA AdmitSlowStep ==
    ASSUME IInv, AdmitSlow
    PROVE  IInv'
<1> DEFINE r == Head(slow_queue)
<1> USE DEF IInv
<1>1. /\ admissions_due \in Nat \ {0} /\ slow_queue # <<>> /\ Serve(r)
      /\ slow_in_flight < SlowCapacity
      /\ slow_queue' = Tail(slow_queue) /\ consecutive_fast' = 0
      /\ UNCHANGED <<fast_queue, abandoned_pairs>>
  BY DEF AdmitSlow, SlowEligible, TypeOK
<1>2. consecutive_fast' \in 0..fast_batch_limit
  BY <1>1, DispatcherAssumption
<1>3. /\ r \in Range(slow_queue) /\ r \in Requests
      /\ slow_queue' \in Seq(Requests)
      /\ Range(slow_queue') = Range(slow_queue) \ {r}
      /\ IsInjective(slow_queue')
  BY <1>1, HeadOfQueue DEF TypeOK, QueueInv
<1> HIDE DEF r
<1>4. r \notin Owning /\ r \notin admitted /\ r \in SlowRequests /\ phase[r] \in {"queued", "dead"}
  BY <1>3 DEF QueueInv, Owning, Waiters, LeaseAccounting
<1>5. CASE phase[r] = "queued"
  <2>1. Admit(r) /\ phase' = [phase EXCEPT ![r] = "granted"] /\ admissions_due' = admissions_due - 1
    BY <1>1, <1>5 DEF Serve
  <2>2. /\ in_flight' \in Int
        /\ admitted' \subseteq Requests /\ slow_admitted' \subseteq Requests
        /\ in_flight' = Cardinality(admitted')
        /\ in_flight' = in_flight + 1
        /\ slow_admitted' = admitted' \cap SlowRequests
        /\ slow_in_flight \in Nat
        /\ slow_in_flight' = slow_in_flight + 1
    BY <1>3, <1>4, <2>1, AdmitKeepsCount
  <2>3. TypeOK'
    BY <1>1, <1>2, <1>3, <2>1, <2>2 DEF TypeOK, Phases
  <2>4. LeaseAccounting'
    <3>1. Owning' = Owning \cup {r} /\ Waiters' = Waiters \ {r}
      BY <1>3, <2>1 DEF Owning, Waiters, TypeOK
    <3>2. r \notin abandoned_pairs
      BY <1>3, <1>4 DEF LeaseAccounting, Waiters
    <3> QED
      BY <1>1, <2>1, <2>2, <3>1, <3>2 DEF LeaseAccounting, Admit
  <2>5. SlotBounds'
    BY <1>1, <2>1, <2>2, SlowCapacityType, DispatcherAssumption DEF SlotBounds, TypeOK
  <2>6. QueueInv'
    BY <1>1, <1>3, <1>4, <2>1 DEF QueueInv, Waiters, TypeOK
  <2>7. OwedSlots'
    BY <1>1, <2>1, <2>2, SlowCapacityType, DispatcherAssumption DEF OwedSlots, TypeOK
  <2> QED
    BY <2>3, <2>4, <2>5, <2>6, <2>7
<1>6. CASE phase[r] # "queued"
  <2>1. UNCHANGED <<in_flight, admitted, slow_admitted, phase, admissions_due>>
    BY <1>1, <1>6 DEF Serve, slots
  <2>2. slow_in_flight' = slow_in_flight /\ Owning' = Owning /\ Waiters' = Waiters
    BY <2>1 DEF slow_in_flight, Owning, Waiters
  <2>3. TypeOK'
    BY <1>1, <1>2, <1>3, <2>1 DEF TypeOK
  <2>4. LeaseAccounting'
    BY <1>1, <2>1, <2>2 DEF LeaseAccounting
  <2>5. QueueInv'
    BY <1>1, <1>3, <1>6, <2>1, <2>2 DEF QueueInv
  <2>6. SlotBounds' /\ OwedSlots'
    BY <1>1, <2>1, <2>2 DEF SlotBounds, OwedSlots
  <2> QED
    BY <2>3, <2>4, <2>5, <2>6
<1> QED
  BY <1>5, <1>6

\* An admission that finds nobody eligible keeps it.
LEMMA AdmitNobodyStep ==
    ASSUME IInv, AdmitNobody
    PROVE  IInv'
<1> USE DEF IInv
<1>1. /\ admissions_due \in Nat \ {0} /\ admissions_due' = admissions_due - 1
      /\ fast_queue = <<>> /\ ~SlowEligible
      /\ UNCHANGED <<in_flight, admitted, slow_admitted, fast_queue, slow_queue,
                     consecutive_fast, abandoned_pairs, phase>>
  BY DEF AdmitNobody, slots, queues, TypeOK
<1>2. /\ slow_in_flight \in Nat /\ slow_in_flight' = slow_in_flight
      /\ Owning' = Owning /\ Waiters' = Waiters
  BY <1>1, SubsetsAreFinite DEF slow_in_flight, Owning, Waiters, TypeOK
<1>3. TypeOK'
  BY <1>1 DEF TypeOK
<1>4. LeaseAccounting' /\ QueueInv'
  BY <1>1, <1>2 DEF LeaseAccounting, QueueInv
<1>5. SlotBounds'
  BY <1>1, <1>2, DispatcherAssumption DEF SlotBounds, TypeOK
<1>6. slow_queue # <<>> => slow_in_flight >= SlowCapacity
  BY <1>1, <1>2, SlowCapacityType, DispatcherAssumption DEF SlowEligible
<1>7. OwedSlots'
  BY <1>1, <1>2, <1>6, SlowCapacityType, DispatcherAssumption DEF OwedSlots, TypeOK
<1> QED
  BY <1>3, <1>4, <1>5, <1>7

\* cancel_cycle() and the first half of abandon_cycle(): the waiters of one
\* cycle leave the queues, those of the others stay.
LEMMA DropWaitersKeepsQueues ==
    ASSUME TypeOK, QueueInv, NEW c \in Cycles, DropWaiters(c)
    PROVE  /\ fast_queue' \in Seq(Requests) /\ slow_queue' \in Seq(Requests)
           /\ fast_queue' # <<>> => fast_queue # <<>>
           /\ slow_queue' # <<>> => slow_queue # <<>>
           /\ phase' \in [Requests -> Phases]
           /\ Owning' = Owning /\ Waiters' = Waiters
           /\ QueueInv'
<1>1. fast_queue \in Seq(Requests) /\ slow_queue \in Seq(Requests)
  BY DEF TypeOK
<1>2. /\ fast_queue' \in Remaining(fast_queue, Requests \ RequestsOf(c))
      /\ slow_queue' \in Remaining(slow_queue, Requests \ RequestsOf(c))
      /\ phase' = [r \in Requests |->
                     IF r \in RequestsOf(c) /\ phase[r] = "queued" THEN "dead" ELSE phase[r]]
  BY DEF DropWaiters
<1>3. /\ fast_queue' \in Seq(Requests)
      /\ Range(fast_queue') = Range(fast_queue) \cap (Requests \ RequestsOf(c))
      /\ IsInjective(fast_queue) => IsInjective(fast_queue')
  BY <1>1, <1>2, RemainingProperties
<1>4. /\ slow_queue' \in Seq(Requests)
      /\ Range(slow_queue') = Range(slow_queue) \cap (Requests \ RequestsOf(c))
      /\ IsInjective(slow_queue) => IsInjective(slow_queue')
  BY <1>1, <1>2, RemainingProperties
<1>5. /\ fast_queue' # <<>> => fast_queue # <<>>
      /\ slow_queue' # <<>> => slow_queue # <<>>
  BY <1>1, <1>3, <1>4, EmptyRange
<1>6. phase' \in [Requests -> Phases]
  BY <1>2 DEF TypeOK, Phases
<1>7. Owning' = Owning /\ Waiters' = Waiters
  BY <1>2 DEF Owning, Waiters, TypeOK
<1>8. QueueInv'
  BY <1>2, <1>3, <1>4 DEF QueueInv, Waiters, TypeOK
<1> QED
  BY <1>3, <1>4, <1>5, <1>6, <1>7, <1>8

\* cancel_cycle() keeps it: no slot moves.
LEMMA CancelCycleStep ==
    ASSUME IInv, NEW c \in Cycles, cancel_cycle(c)
    PROVE  IInv'
<1> USE DEF IInv
<1>1. DropWaiters(c)
  BY DEF cancel_cycle
<1>2. UNCHANGED <<in_flight, admitted, slow_admitted, consecutive_fast, abandoned_pairs, admissions_due>>
  BY DEF cancel_cycle, slots
<1>3. slow_in_flight' = slow_in_flight
  BY <1>2 DEF slow_in_flight
<1>4. TypeOK'
  BY <1>1, <1>2, DropWaitersKeepsQueues DEF TypeOK
<1>5. LeaseAccounting'
  BY <1>1, <1>2, DropWaitersKeepsQueues DEF LeaseAccounting
<1>6. SlotBounds'
  BY <1>2, <1>3 DEF SlotBounds
<1>7. OwedSlots'
  BY <1>1, <1>2, <1>3, DropWaitersKeepsQueues DEF OwedSlots
<1> QED
  BY <1>1, <1>4, <1>5, <1>6, <1>7, DropWaitersKeepsQueues

\* abandon_cycle() keeps it: every slot it takes back is owed to an admission,
\* and every pair it takes away still has its release() to come.
LEMMA AbandonCycleStep ==
    ASSUME IInv, NEW c \in Cycles, abandon_cycle(c)
    PROVE  IInv'
<1> DEFINE stale == admitted \cap RequestsOf(c)
<1> USE DEF IInv
<1>1. /\ DropWaiters(c) /\ Quiet
      /\ admitted' = admitted \ stale
      /\ slow_admitted' = slow_admitted \ stale
      /\ in_flight' = in_flight - Cardinality(stale)
      /\ abandoned_pairs' = abandoned_pairs \cup stale
      /\ admissions_due' = Cardinality(stale)
      /\ UNCHANGED consecutive_fast
  BY DEF abandon_cycle
<1>2. stale \subseteq admitted
  OBVIOUS
<1> HIDE DEF stale
<1>3. /\ in_flight' \in Int /\ admissions_due' \in Nat
      /\ admitted' \subseteq Requests /\ slow_admitted' \subseteq Requests
      /\ in_flight' = Cardinality(admitted')
      /\ slow_admitted' = admitted' \cap SlowRequests
      /\ slow_in_flight \in Nat /\ slow_in_flight' \in Nat
      /\ slow_in_flight' <= slow_in_flight
      /\ in_flight' + admissions_due' = in_flight + admissions_due
      /\ (slow_in_flight + admissions_due >= SlowCapacity
             => slow_in_flight' + admissions_due' >= SlowCapacity)
  BY <1>1, <1>2, ReclaimKeepsCount
<1>4. TypeOK'
  BY <1>1, <1>2, <1>3, DropWaitersKeepsQueues DEF TypeOK
<1>5. LeaseAccounting'
  <2>1. Owning \cap Waiters = {}
    BY DEF Owning, Waiters
  <2>2. Owning' = Owning /\ Waiters' = Waiters
    BY <1>1, DropWaitersKeepsQueues
  <2> QED
    BY <1>1, <1>2, <1>3, <2>1, <2>2 DEF LeaseAccounting
<1>6. SlotBounds'
  BY <1>3, SlowCapacityType, DispatcherAssumption DEF SlotBounds
<1>7. /\ fast_queue' # <<>> => fast_queue # <<>>
      /\ slow_queue' # <<>> => slow_queue # <<>>
      /\ QueueInv'
  BY <1>1, DropWaitersKeepsQueues
<1>8. OwedSlots'
  BY <1>3, <1>7 DEF OwedSlots
<1> QED
  BY <1>4, <1>5, <1>6, <1>7, <1>8

-----------------------------------------------------------------------------
(* The theorems *)

\* Every step of the dispatcher keeps the inductive invariant.
THEOREM StepIInv == IInv /\ [Next]_vars => IInv'
<1> SUFFICES ASSUME IInv, [Next]_vars
             PROVE  IInv'
  OBVIOUS
<1>1. CASE UNCHANGED vars
  BY <1>1 DEF vars, IInv, TypeOK, LeaseAccounting, Owning, Waiters, SlotBounds, QueueInv, OwedSlots, slow_in_flight
<1>2. ASSUME NEW r \in Requests, RequestStep(r)
      PROVE  IInv'
  BY <1>2, AcquireAtOnceStep, AcquireQueuedStep, ResumeStep, LeaseExitStep, AcquireCancelledStep
     DEF RequestStep
<1>3. CASE _admit_next
  BY <1>3, AdmitFastStep, AdmitSlowStep, AdmitNobodyStep DEF _admit_next
<1>4. ASSUME NEW c \in Cycles, cancel_cycle(c) \/ abandon_cycle(c)
      PROVE  IInv'
  BY <1>4, CancelCycleStep, AbandonCycleStep
<1> QED
  BY <1>1, <1>2, <1>3, <1>4 DEF Next

\* The inductive invariant holds in every state of every dispatcher.
THEOREM DispatcherInvariant == Spec => []IInv
  BY InitIInv, StepIInv, PTL DEF Spec

\* Variables keep their types: queues of requests, a counter within the limit.
THEOREM TypeCorrect == Spec => []TypeOK
<1>1. IInv => TypeOK
  BY DEF IInv
<1> QED
  BY <1>1, DispatcherInvariant, PTL

\* No cancellation, grant or abandonment, in any order, loses or invents a slot.
THEOREM NoSlotIsLost == Spec => []LeaseAccounting
<1>1. IInv => LeaseAccounting
  BY DEF IInv
<1> QED
  BY <1>1, DispatcherInvariant, PTL

\* The bound on requests in flight and the slot reserved for Fast hold.
THEOREM BoundsHold == Spec => []SlotBounds
<1>1. IInv => SlotBounds
  BY DEF IInv
<1> QED
  BY <1>1, DispatcherInvariant, PTL

\* A slot is never left idle while a waiter could have it.
THEOREM SlotsAreOffered == Spec => []NoIdleSlot
<1>1. IInv => NoIdleSlot
  <2> SUFFICES ASSUME IInv, Quiet
               PROVE  /\ fast_queue # <<>> => in_flight = capacity
                      /\ slow_queue # <<>> => in_flight = capacity \/ slow_in_flight = SlowCapacity
    BY DEF NoIdleSlot
  <2>1. slow_in_flight \in Nat /\ in_flight \in Int /\ admissions_due = 0
    BY SubsetsAreFinite DEF IInv, TypeOK, slow_in_flight, Quiet
  <2> QED
    BY <2>1, SlowCapacityType, DispatcherAssumption DEF IInv, OwedSlots, SlotBounds
<1> QED
  BY <1>1, DispatcherInvariant, PTL

-----------------------------------------------------------------------------
(* The dispatcher implements LeaseSlots *)

Pending == {r \in Requests : phase[r] = "queued"}

\* The instance counts as this module does.
LEMMA SlotsCardinality ==
    ASSUME NEW S
    PROVE  Slots!Cardinality(S) = Cardinality(S)
  BY DEF Slots!Cardinality, Cardinality

\* acquire() asks for a slot, or is granted one at once with nobody of its lane
\* waiting: that is what NoIdleSlot is for.
LEMMA SlotsStepAcquire ==
    ASSUME IInv, NEW r \in Requests, AcquireAtOnce(r) \/ AcquireQueued(r)
    PROVE  Slots!GrantAtOnce(r) \/ Slots!Ask(r)
<1> USE DEF IInv
<1>1. /\ Quiet /\ phase[r] = "idle" /\ r \notin admitted /\ r \notin Pending
      /\ phase \in [Requests -> Phases]
  BY DEF AcquireAtOnce, AcquireQueued, MayAcquire, LeaseAccounting, Owning, Pending, TypeOK
<1>2. CASE AcquireAtOnce(r)
  <2>1. /\ HasRoom(r) /\ admitted' = admitted \cup {r}
        /\ phase' = [phase EXCEPT ![r] = "holding"]
    BY <1>2 DEF AcquireAtOnce, Admit
  <2>2. Pending' = Pending
    BY <1>1, <2>1 DEF Pending
  <2>3. /\ Cardinality(admitted) < capacity
        /\ r \in SlowRequests => Cardinality(admitted \cap SlowRequests) < SlowCapacity
    BY <2>1 DEF HasRoom, LeaseAccounting, slow_in_flight
  <2>4. slow_in_flight \in Nat /\ in_flight \in Int
    BY SubsetsAreFinite DEF TypeOK, slow_in_flight
  <2>5. r \notin SlowRequests => fast_queue = <<>>
    BY <1>1, <2>1, <2>4, DispatcherAssumption DEF OwedSlots, HasRoom, Quiet
  <2>6. r \in SlowRequests => slow_queue = <<>>
    BY <1>1, <2>1, <2>4, SlowCapacityType, DispatcherAssumption DEF OwedSlots, HasRoom, Quiet
  <2>7. ASSUME NEW s \in Pending, s \in SlowRequests <=> r \in SlowRequests
        PROVE  FALSE
    <3>1. s \in Range(fast_queue) \cup Range(slow_queue)
      BY DEF Pending, QueueInv
    <3>2. CASE r \in SlowRequests
      <4>1. Range(slow_queue) = {}
        BY <2>6, <3>2, EmptyRange DEF TypeOK
      <4> QED
        BY <2>7, <3>1, <3>2, <4>1 DEF QueueInv
    <3>3. CASE r \notin SlowRequests
      <4>1. Range(fast_queue) = {}
        BY <2>5, <3>3, EmptyRange DEF TypeOK
      <4> QED
        BY <2>7, <3>1, <3>3, <4>1 DEF QueueInv
    <3> QED
      BY <3>2, <3>3
  <2>8. Pending \cap Slots!SameLane(r) = {}
    BY <2>7 DEF Slots!SameLane
  <2>9. Slots!Room(r)
    BY <2>3, SlotsCardinality DEF Slots!Room
  <2> QED
    BY <1>1, <2>1, <2>2, <2>8, <2>9 DEF Slots!GrantAtOnce, Pending
<1>3. CASE AcquireQueued(r)
  <2>1. phase' = [phase EXCEPT ![r] = "queued"] /\ admitted' = admitted
    BY <1>3 DEF AcquireQueued, slots
  <2>2. Pending' = Pending \cup {r}
    BY <1>1, <2>1 DEF Pending
  <2> QED
    BY <1>1, <2>1, <2>2 DEF Slots!Ask, Pending
<1> QED
  BY <1>2, <1>3

\* A request leaves the wait or gives up its slot by itself.
LEMMA SlotsStepLeave ==
    ASSUME IInv, NEW r \in Requests,
           Resume(r) \/ CancelTask(r) \/ LeaseExit(r) \/ AcquireCancelled(r)
    PROVE  Slots!Withdraw(CycleOf[r])
<1> USE DEF IInv
<1>1. phase \in [Requests -> Phases] /\ {r} \subseteq Slots!RequestsOf(CycleOf[r])
  BY DEF TypeOK, Slots!RequestsOf
<1>2. \E gone \in SUBSET {r} : Pending' = Pending \ gone /\ admitted' = admitted \ gone
  <2>1. CASE Resume(r)
    <3>1. Pending' = Pending \ {} /\ admitted' = admitted \ {}
      BY <1>1, <2>1 DEF Resume, Pending, slots
    <3> QED
      BY <3>1
  <2>2. CASE CancelTask(r)
    <3>1. admitted' = admitted
      BY <2>2 DEF CancelTask, slots
    <3>2. CASE phase[r] = "queued" /\ phase' = [phase EXCEPT ![r] = "dead"]
      <4>1. Pending' = Pending \ {r} /\ admitted' = admitted \ {r}
        BY <1>1, <3>1, <3>2 DEF Pending, LeaseAccounting, Owning
      <4> QED
        BY <4>1
    <3>3. CASE phase[r] = "granted" /\ phase' = [phase EXCEPT ![r] = "doomed"]
      <4>1. Pending' = Pending \ {}
        BY <1>1, <3>3 DEF Pending
      <4> QED
        BY <3>1, <4>1
    <3> QED
      BY <2>2, <3>2, <3>3 DEF CancelTask
  <2>3. CASE LeaseExit(r)
    <3>1. Pending' = Pending /\ r \notin Pending
      BY <1>1, <2>3 DEF LeaseExit, Pending
    <3>2. admitted' = admitted \ {r}
      BY <2>3 DEF LeaseExit, release, slots
    <3> QED
      BY <3>1, <3>2
  <2>4. CASE AcquireCancelled(r)
    <3>1. Pending' = Pending /\ r \notin Pending
      BY <1>1, <2>4 DEF AcquireCancelled, Pending
    <3>2. admitted' = admitted \ {} \/ admitted' = admitted \ {r}
      BY <2>4 DEF AcquireCancelled, release, slots
    <3> QED
      BY <3>1, <3>2
  <2> QED
    BY <2>1, <2>2, <2>3, <2>4
<1> QED
  BY <1>1, <1>2 DEF Slots!Withdraw, Pending

\* An admission grants a slot that is there, or nobody notices it.
LEMMA SlotsStepAdmit ==
    ASSUME IInv, _admit_next
    PROVE  \/ \E r \in Requests : Slots!Grant(r)
           \/ UNCHANGED <<Pending, admitted>>
<1> USE DEF IInv
<1>1. ASSUME NEW r \in Requests, Serve(r), HasRoom(r), r \notin admitted
      PROVE  Slots!Grant(r) \/ UNCHANGED <<Pending, admitted>>
  <2>1. CASE phase[r] = "queued"
    <3>1. admitted' = admitted \cup {r} /\ phase' = [phase EXCEPT ![r] = "granted"]
      BY <1>1, <2>1 DEF Serve, Admit
    <3>2. Pending' = Pending \ {r} /\ r \in Pending
      BY <2>1, <3>1 DEF Pending, TypeOK
    <3>3. /\ Cardinality(admitted) < capacity
          /\ r \in SlowRequests => Cardinality(admitted \cap SlowRequests) < SlowCapacity
      BY <1>1 DEF HasRoom, LeaseAccounting, slow_in_flight
    <3>4. Slots!Room(r)
      BY <3>3, SlotsCardinality DEF Slots!Room
    <3> QED
      BY <3>1, <3>2, <3>4 DEF Slots!Grant, Pending
  <2>2. CASE phase[r] # "queued"
    BY <1>1, <2>2 DEF Serve, slots, Pending
  <2> QED
    BY <2>1, <2>2
<1>2. in_flight < capacity \/ admissions_due = 0
  BY DispatcherAssumption DEF SlotBounds, TypeOK
<1>3. CASE AdmitFast
  <2> DEFINE r == Head(fast_queue)
  <2>1. fast_queue # <<>> /\ Serve(r) /\ admissions_due > 0
    BY <1>3 DEF AdmitFast
  <2>2. r \in Range(fast_queue) /\ r \in Requests
    BY <2>1, HeadOfQueue DEF TypeOK, QueueInv
  <2> HIDE DEF r
  <2>3. r \notin SlowRequests /\ r \notin admitted
    BY <2>2 DEF QueueInv, Waiters, Owning, LeaseAccounting
  <2>4. HasRoom(r)
    BY <1>2, <2>1, <2>3 DEF HasRoom, TypeOK
  <2> QED
    BY <1>1, <2>1, <2>2, <2>3, <2>4
<1>4. CASE AdmitSlow
  <2> DEFINE r == Head(slow_queue)
  <2>1. slow_queue # <<>> /\ slow_in_flight < SlowCapacity /\ Serve(r) /\ admissions_due > 0
    BY <1>4 DEF AdmitSlow, SlowEligible
  <2>2. r \in Range(slow_queue) /\ r \in Requests
    BY <2>1, HeadOfQueue DEF TypeOK, QueueInv
  <2> HIDE DEF r
  <2>3. r \notin admitted
    BY <2>2 DEF QueueInv, Waiters, Owning, LeaseAccounting
  <2>4. HasRoom(r)
    BY <1>2, <2>1 DEF HasRoom, TypeOK
  <2> QED
    BY <1>1, <2>1, <2>2, <2>3, <2>4
<1>5. CASE AdmitNobody
  BY <1>5 DEF AdmitNobody, slots, Pending
<1> QED
  BY <1>3, <1>4, <1>5 DEF _admit_next

\* A cycle withdraws all its waiters, and when it is abandoned its slots too.
LEMMA SlotsStepCycle ==
    ASSUME IInv, NEW c \in Cycles, cancel_cycle(c) \/ abandon_cycle(c)
    PROVE  Slots!Withdraw(c)
<1> DEFINE dropped == Pending \cap RequestsOf(c)
           stale == admitted \cap RequestsOf(c)
<1> USE DEF IInv
<1>1. /\ Pending' = Pending \ dropped
      /\ Pending \cap admitted = {}
      /\ Pending \subseteq Requests /\ admitted \subseteq Requests
  BY DEF cancel_cycle, abandon_cycle, DropWaiters, Pending, LeaseAccounting, Owning, TypeOK
<1>2. admitted' = admitted \/ admitted' = admitted \ stale
  BY DEF cancel_cycle, abandon_cycle, slots
<1>3. Slots!RequestsOf(c) = RequestsOf(c)
  BY DEF Slots!RequestsOf, RequestsOf
<1>4. \E gone \in SUBSET RequestsOf(c) : Pending' = Pending \ gone /\ admitted' = admitted \ gone
  <2>1. CASE admitted' = admitted
    BY <1>1, <2>1
  <2>2. CASE admitted' = admitted \ stale
    <3>1. /\ dropped \cup stale \in SUBSET RequestsOf(c)
          /\ Pending' = Pending \ (dropped \cup stale)
          /\ admitted' = admitted \ (dropped \cup stale)
      BY <1>1, <2>2
    <3> QED
      BY <3>1
  <2> QED
    BY <1>2, <2>1, <2>2
<1> QED
  BY <1>3, <1>4 DEF Slots!Withdraw, Pending

\* Every dispatcher gives out slots as LeaseSlots promises.
THEOREM DispatcherImplementsLeaseSlots == Spec => ImplementsLeaseSlots
<1>1. Init => Slots!SlotsInit
  BY DEF Init, Slots!SlotsInit
<1>2. IInv /\ [Next]_vars => [Slots!SlotsNext]_(Slots!slots)
  <2> SUFFICES ASSUME IInv, [Next]_vars
               PROVE  Slots!SlotsNext \/ UNCHANGED <<Pending, admitted>>
    BY DEF Slots!slots, Pending
  <2>1. CASE UNCHANGED vars
    BY <2>1 DEF vars, Pending
  <2>2. ASSUME NEW r \in Requests, RequestStep(r)
        PROVE  Slots!SlotsNext
    <3>1. CycleOf[r] \in Cycles
      BY DispatcherAssumption
    <3> QED
      BY <2>2, <3>1, SlotsStepAcquire, SlotsStepLeave DEF RequestStep, Slots!SlotsNext
  <2>3. CASE _admit_next
    BY <2>3, SlotsStepAdmit DEF Slots!SlotsNext
  <2>4. ASSUME NEW c \in Cycles, cancel_cycle(c) \/ abandon_cycle(c)
        PROVE  Slots!SlotsNext
    BY <2>4, SlotsStepCycle DEF Slots!SlotsNext
  <2> QED
    BY <2>1, <2>2, <2>3, <2>4 DEF Next
<1> QED
  BY <1>1, <1>2, DispatcherInvariant, PTL DEF Spec, ImplementsLeaseSlots, Slots!SlotsSpec

=============================================================================

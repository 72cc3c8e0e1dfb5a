----------------------- MODULE RequestExecutionProofs -----------------------
(***************************************************************************)
(* What holds of RequestExecution for any number of requests, cycles and   *)
(* BMCs, any budget and any number of attempts.                            *)
(***************************************************************************)
EXTENDS RequestExecution, FiniteSetTheorems, TLAPS

Holders == {r \in Requests : HoldsBytes(r)}

\* The set of holders is finite, so it can be counted.
LEMMA HoldersFinite ==
    /\ IsFiniteSet(Holders)
    /\ Cardinality(Holders) \in Nat
<1>1. Holders \subseteq Requests  BY DEF Holders
<1>2. IsFiniteSet(Requests)  BY RequestExecutionAssumption
<1>3. IsFiniteSet(Holders)  BY <1>1, <1>2, FS_Subset
<1> QED  BY <1>3, FS_CardinalityType

\* One holder more or less is one response more or less.
LEMMA OneMore ==
    ASSUME NEW n \in Nat
    PROVE  /\ max_response_bytes * (n + 1) = max_response_bytes * n + max_response_bytes
           /\ max_response_bytes * n \in Nat
           /\ n > 0 => max_response_bytes * (n - 1) = max_response_bytes * n - max_response_bytes
           /\ n > 0 => max_response_bytes * n >= max_response_bytes
<1> USE RequestExecutionAssumption
<1>1. max_response_bytes \in Nat  OBVIOUS
<1>2. max_response_bytes * (n + 1) = max_response_bytes * n + max_response_bytes  BY <1>1
<1>3. max_response_bytes * n \in Nat  BY <1>1
<1>4. max_response_bytes * (n - 1) = max_response_bytes * n - max_response_bytes  BY <1>1
<1>5. ASSUME n > 0 PROVE max_response_bytes * (n - 1) \in Nat
  <2>1. n - 1 \in Nat  BY <1>5
  <2> QED  BY <2>1, <1>1
<1>6. ASSUME n > 0 PROVE max_response_bytes * n >= max_response_bytes
  <2>1. max_response_bytes * (n - 1) \in Nat  BY <1>5, <1>6
  <2> QED  BY <2>1, <1>1, <1>3, <1>4
<1> QED  BY <1>2, <1>3, <1>4, <1>6

\* A request that holds nothing takes up bytes that are free.
LEMMA BytesTaken ==
    ASSUME TypeOK, BudgetAccounting, BytesFree,
           NEW r \in Requests, ~HoldsBytes(r),
           Holders' = Holders \cup {r},
           in_use' = in_use + max_response_bytes
    PROVE  BudgetAccounting' /\ in_use' \in Nat
<1>1. Cardinality(Holders') = Cardinality(Holders) + 1
  <2>1. r \notin Holders  BY DEF Holders
  <2> QED  BY <2>1, HoldersFinite, FS_AddElement
<1>2. in_use = max_response_bytes * Cardinality(Holders)  BY DEF BudgetAccounting, Holders
<1>3. in_use' = max_response_bytes * Cardinality(Holders')
  BY <1>1, <1>2, HoldersFinite, OneMore
<1>4. in_use' <= capacity_bytes  BY DEF BytesFree
<1>5. in_use' \in Nat  BY RequestExecutionAssumption DEF TypeOK
<1> QED  BY <1>3, <1>4, <1>5 DEF BudgetAccounting, Holders

\* A request that holds bytes gives them back, and in_use is not cut off at 0.
LEMMA BytesGivenBack ==
    ASSUME TypeOK, BudgetAccounting,
           NEW r \in Requests, HoldsBytes(r),
           Holders' = Holders \ {r},
           in_use' = IF in_use < max_response_bytes THEN 0 ELSE in_use - max_response_bytes
    PROVE  BudgetAccounting' /\ in_use' \in Nat
<1>1. Cardinality(Holders') = Cardinality(Holders) - 1 /\ Cardinality(Holders) > 0
  <2>1. r \in Holders  BY DEF Holders
  <2>2. Cardinality(Holders \ {r}) = Cardinality(Holders) - 1
    BY <2>1, HoldersFinite, FS_RemoveElement
  <2>3. IsFiniteSet(Holders \ {r})  BY HoldersFinite, FS_RemoveElement
  <2>4. Cardinality(Holders \ {r}) \in Nat  BY <2>3, FS_CardinalityType
  <2> QED  BY <2>2, <2>4, HoldersFinite
<1>2. in_use = max_response_bytes * Cardinality(Holders)  BY DEF BudgetAccounting, Holders
<1>3. in_use >= max_response_bytes  BY <1>1, <1>2, HoldersFinite, OneMore
<1>4. in_use' = in_use - max_response_bytes  BY <1>3, RequestExecutionAssumption DEF TypeOK
<1>5. in_use' = max_response_bytes * Cardinality(Holders')
  BY <1>1, <1>2, <1>4, HoldersFinite, OneMore
<1>6. in_use' \in Nat /\ in_use' <= capacity_bytes
  BY <1>3, <1>4, RequestExecutionAssumption DEF TypeOK, BudgetAccounting
<1> QED  BY <1>5, <1>6 DEF BudgetAccounting, Holders

-----------------------------------------------------------------------------
(* The pieces the actions are made of *)

\* A release leaves nobody parked for nothing: it leaves nobody parked who has
\* not been interrupted.
LEMMA ReleasePreserves ==
    ASSUME IInv, NEW r \in Requests, NEW s \in {"done", "sleeping"}, HoldsBytes(r),
           s = "sleeping" => attempt[r] < max_attempts[r],
           ReleaseAndMove(r, s), UNCHANGED <<attempt, expired, interrupted>>
    PROVE  IInv'
<1> USE DEF IInv
<1>1. stage' \in [Requests -> Stages]
  BY DEF ReleaseAndMove, TypeOK, Stages
<1>2. \A q \in Requests : q # r => stage'[q] = stage[q] \/ (q \in Awoken /\ stage'[q] = "woken")
  BY DEF ReleaseAndMove, TypeOK
<1>3. stage'[r] = s  BY DEF ReleaseAndMove, TypeOK
<1>4. \A q \in Awoken : stage[q] = "parked"  BY DEF Awoken, NobodyParkedForNothing
<1>5. Holders' = Holders \ {r}
  <2>1. \A q \in Requests : q # r => (HoldsBytes(q)' <=> HoldsBytes(q))
    BY <1>2, <1>4 DEF HoldsBytes
  <2>2. ~HoldsBytes(r)'  BY <1>3 DEF HoldsBytes
  <2> QED  BY <2>1, <2>2 DEF Holders
<1>6. BudgetAccounting' /\ in_use' \in Nat
  BY <1>5, BytesGivenBack DEF ReleaseAndMove
<1>7. TypeOK'  BY <1>1, <1>6 DEF TypeOK, ReleaseAndMove
<1>8. NobodyParkedForNothing'
  <2>1. waiters' = {}  BY DEF ReleaseAndMove
  <2>2. \A q \in Requests : stage'[q] = "parked" => q \in interrupted
    <3> SUFFICES ASSUME NEW q \in Requests, stage'[q] = "parked", q \notin interrupted
                 PROVE  FALSE
      OBVIOUS
    <3>1. q # r /\ stage[q] = "parked"  BY <1>2, <1>3
    <3>2. q \in Awoken  BY <3>1 DEF NobodyParkedForNothing, Awoken
    <3> QED  BY <3>1, <3>2 DEF ReleaseAndMove, TypeOK
  <2> QED  BY <2>1, <2>2 DEF NobodyParkedForNothing
<1>9. AttemptsAgree'
  <2> SUFFICES ASSUME NEW q \in Requests, stage'[q] \notin {"attempting", "done"}
               PROVE  attempt[q] < max_attempts[q]
    BY DEF AttemptsAgree
  <2>1. CASE q = r  BY <2>1, <1>3
  <2>2. CASE q # r
    <3>1. stage[q] \notin {"attempting", "done"}  BY <2>2, <1>2, <1>4
    <3> QED  BY <3>1 DEF AttemptsAgree
  <2> QED  BY <2>1, <2>2
<1> QED  BY <1>6, <1>7, <1>8, <1>9

\* A request that holds nothing and goes to a stage where it holds nothing and
\* waits for no bytes.
LEMMA MovePreserves ==
    ASSUME IInv, NEW r \in Requests, NEW s \in {"done", "semaphore"}, ~HoldsBytes(r),
           s = "semaphore" => stage[r] # "attempting" /\ stage[r] # "done",
           Move(r, s), waiters' = waiters \ {r}, UNCHANGED <<attempt, expired, interrupted, in_use>>
    PROVE  IInv'
<1> USE DEF IInv
<1>1. stage' \in [Requests -> Stages]  BY DEF Move, TypeOK, Stages
<1>2. stage'[r] = s /\ \A q \in Requests \ {r} : stage'[q] = stage[q]  BY DEF Move, TypeOK
<1>3. Holders' = Holders  BY <1>2 DEF Holders, HoldsBytes
<1>4. BudgetAccounting'  BY <1>3 DEF BudgetAccounting, Holders
<1>5. TypeOK'  BY <1>1 DEF TypeOK
<1>6. NobodyParkedForNothing'  BY <1>2 DEF NobodyParkedForNothing, BytesFree, TypeOK
<1>7. AttemptsAgree'  BY <1>2 DEF AttemptsAgree
<1> QED  BY <1>4, <1>5, <1>6, <1>7

\* A request parks only when there are no bytes for it.
LEMMA ParkPreserves ==
    ASSUME IInv, NEW r \in Requests, ~HoldsBytes(r), stage[r] # "done", ~BytesFree,
           Park(r), UNCHANGED <<expired, interrupted>>
    PROVE  IInv'
<1> USE DEF IInv
<1>1. stage' \in [Requests -> Stages]  BY DEF Park, Move, TypeOK, Stages
<1>2. stage'[r] = "parked" /\ \A q \in Requests \ {r} : stage'[q] = stage[q]
  BY DEF Park, Move, TypeOK
<1>3. Holders' = Holders  BY <1>2 DEF Holders, HoldsBytes
<1>4. BudgetAccounting'  BY <1>3 DEF BudgetAccounting, Holders, Park
<1>5. TypeOK'  BY <1>1 DEF TypeOK, Park
<1>6. NobodyParkedForNothing'  BY <1>2 DEF NobodyParkedForNothing, BytesFree, TypeOK, Park
<1>7. AttemptsAgree'
  <2>1. attempt[r] < max_attempts[r]  BY DEF AttemptsAgree, HoldsBytes
  <2> QED  BY <1>2, <2>1 DEF AttemptsAgree, Park
<1> QED  BY <1>4, <1>5, <1>6, <1>7

\* A request that is not parked reserves its bytes, and begins the attempt, waits
\* for its lease or is over.
LEMMA ReserveAndLeasePreserves ==
    ASSUME IInv, NEW r \in Requests, ~HoldsBytes(r), stage[r] \notin {"done", "parked"},
           ReserveAndLease(r), UNCHANGED <<expired, interrupted>>
    PROVE  IInv'
<1> USE DEF IInv
<1>1. attempt[r] < max_attempts[r]  BY DEF AttemptsAgree, HoldsBytes
<1>2. ASSUME NEW s \in {"attempting", "leasing"},
             Move(r, s), in_use' = in_use + max_response_bytes, UNCHANGED waiters,
             attempt' = IF s = "attempting" THEN [attempt EXCEPT ![r] = @ + 1] ELSE attempt
      PROVE  IInv'
  <2>1. stage' \in [Requests -> Stages]  BY <1>2 DEF Move, TypeOK, Stages
  <2>2. stage'[r] = s /\ \A q \in Requests \ {r} : stage'[q] = stage[q]  BY <1>2 DEF Move, TypeOK
  <2>3. Holders' = Holders \cup {r}  BY <2>2 DEF Holders, HoldsBytes
  <2>4. BudgetAccounting' /\ in_use' \in Nat
    BY <1>2, <2>3, BytesTaken DEF ReserveAndLease
  <2>5. attempt' \in [Requests -> Nat] /\ \A q \in Requests : attempt'[q] <= max_attempts[q]
    <3>1. max_attempts \in [Requests -> Nat]  BY RequestExecutionAssumption
    <3>2. CASE s = "attempting"
      <4>1. attempt[r] \in Nat /\ attempt'[r] = attempt[r] + 1 /\ attempt' \in [Requests -> Nat]
        BY <1>2, <3>2 DEF TypeOK
      <4>2. \A q \in Requests \ {r} : attempt'[q] = attempt[q]  BY <1>2, <3>2 DEF TypeOK
      <4>3. attempt'[r] <= max_attempts[r]  BY <1>1, <3>1, <4>1
      <4> QED  BY <4>1, <4>2, <4>3 DEF TypeOK
    <3>3. CASE s = "leasing"  BY <1>2, <3>3 DEF TypeOK
    <3> QED  BY <3>2, <3>3
  <2>6. TypeOK'  BY <1>2, <2>1, <2>4, <2>5 DEF TypeOK
  <2>7. NobodyParkedForNothing'
    <3>1. BytesFree' => BytesFree
      BY <1>2, RequestExecutionAssumption DEF BytesFree, TypeOK
    <3>2. waiters' = waiters /\ waiters \subseteq Requests \ {r}
      BY <1>2 DEF NobodyParkedForNothing, TypeOK
    <3> QED  BY <2>2, <3>1, <3>2 DEF NobodyParkedForNothing
  <2>8. AttemptsAgree'  BY <1>1, <1>2, <2>2 DEF AttemptsAgree, TypeOK
  <2> QED  BY <2>4, <2>6, <2>7, <2>8
<1>3. CASE ServedAtOnce(r) /\ r \notin expired /\ Move(r, "attempting")
            /\ attempt' = [attempt EXCEPT ![r] = @ + 1]
            /\ in_use' = in_use + max_response_bytes /\ UNCHANGED waiters
  BY <1>2, <1>3
<1>4. CASE ~ServedAtOnce(r) /\ Move(r, "leasing")
            /\ in_use' = in_use + max_response_bytes /\ UNCHANGED <<attempt, waiters>>
  BY <1>2, <1>4
<1>5. CASE /\ stage' = [q \in Requests |->
                  IF q = r THEN "done" ELSE IF q \in Awoken THEN "woken" ELSE stage[q]]
           /\ waiters' = {}
           /\ UNCHANGED <<attempt, in_use>>
  <2>1. stage' \in [Requests -> Stages]  BY <1>5 DEF TypeOK, Stages
  <2>2. stage'[r] = "done"  BY <1>5
  <2>3. \A q \in Requests : q # r => stage'[q] = stage[q] \/ (q \in Awoken /\ stage'[q] = "woken")
    BY <1>5
  <2>4. \A q \in Awoken : stage[q] = "parked"  BY DEF Awoken, NobodyParkedForNothing
  <2>5. Holders' = Holders  BY <2>2, <2>3, <2>4 DEF Holders, HoldsBytes
  <2>6. BudgetAccounting'  BY <1>5, <2>5 DEF BudgetAccounting, Holders
  <2>7. TypeOK'  BY <1>5, <2>1 DEF TypeOK
  <2>8. NobodyParkedForNothing'
    <3>1. \A q \in Requests : stage'[q] = "parked" => q \in interrupted
      BY <1>5 DEF NobodyParkedForNothing, Awoken
    <3> QED  BY <1>5, <3>1 DEF NobodyParkedForNothing
  <2>9. AttemptsAgree'  BY <1>5, <2>2, <2>3, <2>4 DEF AttemptsAgree
  <2> QED  BY <2>6, <2>7, <2>8, <2>9
<1> QED  BY <1>3, <1>4, <1>5 DEF ReserveAndLease

\* The beginning of an attempt, from any stage where nothing is held or waited
\* for but the semaphore.
LEMMA TryAttemptPreserves ==
    ASSUME IInv, NEW r \in Requests, stage[r] \in {"new", "semaphore", "sleeping"},
           TryAttempt(r), UNCHANGED <<expired, interrupted>>
    PROVE  IInv'
<1>1. ~HoldsBytes(r)  BY DEF HoldsBytes
<1>2. waiters \ {r} = waiters  BY DEF IInv, NobodyParkedForNothing
<1>3. CASE r \in expired /\ Move(r, "done") /\ UNCHANGED <<attempt, in_use, waiters>>
  BY <1>1, <1>2, <1>3, MovePreserves
<1>4. CASE ReserveAndLease(r)  BY <1>1, <1>4, ReserveAndLeasePreserves
<1>5. CASE ~BytesFree /\ Park(r)  BY <1>1, <1>5, ParkPreserves
<1> QED  BY <1>3, <1>4, <1>5 DEF TryAttempt

-----------------------------------------------------------------------------
(* The invariants *)

\* The inductive invariant holds at the start.
LEMMA InitIInv == Init => IInv
<1> SUFFICES ASSUME Init PROVE IInv  OBVIOUS
<1> USE RequestExecutionAssumption DEF Init
<1>1. TypeOK  BY DEF TypeOK, Stages
<1>2. BudgetAccounting
  <2>1. {r \in Requests : HoldsBytes(r)} = {}  BY DEF HoldsBytes
  <2>2. Cardinality({}) = 0  BY FS_EmptySet
  <2>3. max_response_bytes * 0 = 0  OBVIOUS
  <2>4. in_use = 0 /\ 0 <= capacity_bytes  OBVIOUS
  <2> HIDE RequestExecutionAssumption DEF Init
  <2> QED  BY <2>1, <2>2, <2>3, <2>4 DEF BudgetAccounting
<1>3. NobodyParkedForNothing  BY DEF NobodyParkedForNothing
<1>4. AttemptsAgree  BY DEF AttemptsAgree
<1> QED  BY <1>1, <1>2, <1>3, <1>4 DEF IInv

\* Every step preserves the inductive invariant.
LEMMA NextIInv == IInv /\ [Next]_vars => IInv'
<1> SUFFICES ASSUME IInv, [Next]_vars PROVE IInv'  OBVIOUS
<1>1. ASSUME NEW r \in Requests, Begin(r) PROVE IInv'
  <2>1. waiters \ {r} = waiters /\ ~HoldsBytes(r)
    BY <1>1 DEF IInv, NobodyParkedForNothing, Begin, HoldsBytes
  <2>2. CASE TryAttempt(r)  BY <1>1, <2>2, TryAttemptPreserves DEF Begin
  <2>3. CASE Move(r, "semaphore") /\ UNCHANGED <<attempt, in_use, waiters>>
    BY <1>1, <2>1, <2>3, MovePreserves DEF Begin
  <2> QED  BY <1>1, <2>2, <2>3 DEF Begin
<1>2. ASSUME NEW r \in Requests, EnterSemaphore(r) PROVE IInv'
  BY <1>2, TryAttemptPreserves DEF EnterSemaphore
<1>3. ASSUME NEW r \in Requests, Resume(r) PROVE IInv'
  <2>1. waiters \ {r} = waiters /\ ~HoldsBytes(r)
    BY <1>3 DEF IInv, NobodyParkedForNothing, Resume, HoldsBytes
  <2>2. CASE ReserveAndLease(r)  BY <1>3, <2>1, <2>2, ReserveAndLeasePreserves DEF Resume
  <2>3. CASE ~BytesFree /\ Park(r)  BY <1>3, <2>1, <2>3, ParkPreserves DEF Resume
  <2>4. CASE Move(r, "done") /\ UNCHANGED <<attempt, in_use, waiters>>
    BY <1>3, <2>1, <2>4, MovePreserves DEF Resume
  <2> QED  BY <1>3, <2>2, <2>3, <2>4 DEF Resume
<1>4. ASSUME NEW r \in Requests, GetLease(r) PROVE IInv'
  <2>1. HoldsBytes(r) /\ stage[r] = "leasing"  BY <1>4 DEF GetLease, HoldsBytes
  <2>2. CASE ReleaseAndMove(r, "done") /\ UNCHANGED attempt
    BY <1>4, <2>1, <2>2, ReleasePreserves DEF GetLease
  <2>3. CASE /\ Move(r, "attempting")
             /\ attempt' = [attempt EXCEPT ![r] = @ + 1]
             /\ UNCHANGED <<in_use, waiters>>
    <3> USE DEF IInv
    <3>1. stage' \in [Requests -> Stages]  BY <2>3 DEF Move, TypeOK, Stages
    <3>2. stage'[r] = "attempting" /\ \A q \in Requests \ {r} : stage'[q] = stage[q]
      BY <2>3 DEF Move, TypeOK
    <3>3. Holders' = Holders  BY <2>1, <3>2 DEF Holders, HoldsBytes
    <3>4. BudgetAccounting'  BY <2>3, <3>3 DEF BudgetAccounting, Holders
    <3>5. attempt[r] < max_attempts[r]  BY <2>1 DEF AttemptsAgree
    <3>6. attempt' \in [Requests -> Nat] /\ \A q \in Requests : attempt'[q] <= max_attempts[q]
      <4>1. max_attempts \in [Requests -> Nat]  BY RequestExecutionAssumption
      <4>2. attempt[r] \in Nat /\ attempt'[r] = attempt[r] + 1 /\ attempt' \in [Requests -> Nat]
        BY <2>3 DEF TypeOK
      <4>3. \A q \in Requests \ {r} : attempt'[q] = attempt[q]  BY <2>3 DEF TypeOK
      <4>4. attempt'[r] <= max_attempts[r]  BY <3>5, <4>1, <4>2
      <4> QED  BY <4>2, <4>3, <4>4 DEF TypeOK
    <3>7. TypeOK'  BY <1>4, <2>3, <3>1, <3>6 DEF TypeOK, GetLease
    <3>8. NobodyParkedForNothing'
      BY <1>4, <2>1, <2>3, <3>2 DEF NobodyParkedForNothing, BytesFree, TypeOK, GetLease
    <3>9. AttemptsAgree'  BY <2>3, <3>2 DEF AttemptsAgree, TypeOK
    <3> QED  BY <3>4, <3>7, <3>8, <3>9
  <2> QED  BY <1>4, <2>2, <2>3 DEF GetLease
<1>5. ASSUME NEW r \in Requests, EndAttempt(r) PROVE IInv'
  <2>1. HoldsBytes(r)  BY <1>5 DEF EndAttempt, HoldsBytes
  <2>2. CASE ReleaseAndMove(r, "done")  BY <1>5, <2>1, <2>2, ReleasePreserves DEF EndAttempt
  <2>3. CASE attempt[r] < max_attempts[r] /\ ReleaseAndMove(r, "sleeping")
    BY <1>5, <2>1, <2>3, ReleasePreserves DEF EndAttempt
  <2> QED  BY <1>5, <2>2, <2>3 DEF EndAttempt
<1>6. ASSUME NEW r \in Requests, EndBackoff(r) PROVE IInv'
  BY <1>6, TryAttemptPreserves DEF EndBackoff
<1>7. ASSUME NEW r \in Requests, Unwind(r) PROVE IInv'
  <2>1. CASE HoldsBytes(r) /\ ReleaseAndMove(r, "done")
    BY <1>7, <2>1, ReleasePreserves DEF Unwind
  <2>2. CASE ~HoldsBytes(r) /\ Move(r, "done") /\ waiters' = waiters \ {r} /\ UNCHANGED in_use
    BY <1>7, <2>2, MovePreserves DEF Unwind
  <2> QED  BY <1>7, <2>1, <2>2 DEF Unwind
<1>8. ASSUME NEW r \in Requests, Interrupt(r) PROVE IInv'
  BY <1>8 DEF IInv, Interrupt, TypeOK, BudgetAccounting, HoldsBytes, NobodyParkedForNothing,
              BytesFree, AttemptsAgree
<1>9. ASSUME NEW r \in Requests, Expire(r) PROVE IInv'
  BY <1>9 DEF IInv, Expire, TypeOK, BudgetAccounting, HoldsBytes, NobodyParkedForNothing,
              BytesFree, AttemptsAgree
<1>10. CASE UNCHANGED vars
  BY <1>10 DEF vars, IInv, TypeOK, BudgetAccounting, HoldsBytes, NobodyParkedForNothing,
               BytesFree, AttemptsAgree
<1> QED
  BY <1>1, <1>2, <1>3, <1>4, <1>5, <1>6, <1>7, <1>8, <1>9, <1>10 DEF Next, Step

\* The inductive invariant holds of every behaviour.
LEMMA AlwaysIInv == Spec => []IInv
  BY InitIInv, NextIInv, PTL DEF Spec

\* Stages, attempts and bytes stay in their ranges: a request begins at most
\* max_attempts attempts.
THEOREM TypeCorrect == Spec => []TypeOK
<1>1. IInv => TypeOK  BY DEF IInv
<1> QED  BY <1>1, AlwaysIInv, PTL

\* The byte budget is accounted for to the byte and never exceeded, for any
\* number of requests (reserve, release, the finally clause of bounded_fetch).
THEOREM BudgetIsAccountedFor == Spec => []BudgetAccounting
<1>1. IInv => BudgetAccounting  BY DEF IInv
<1> QED  BY <1>1, AlwaysIInv, PTL

\* No waiter is forgotten when bytes are released, and none stays behind on the
\* list (reserve, release).
THEOREM NobodyIsForgotten == Spec => []NobodyParkedForNothing
<1>1. IInv => NobodyParkedForNothing  BY DEF IInv
<1> QED  BY <1>1, AlwaysIInv, PTL

\* No attempt begins after the request's deadline (attempt_timeout).
THEOREM AttemptsAreInTime == Spec => NoAttemptTooLate
<1> DEFINE InTime == \A r \in Requests :
                        stage'[r] = "attempting" /\ stage[r] # "attempting" => r \notin expired
<1>1. IInv /\ [Next]_vars => [InTime]_vars
  <2> SUFFICES ASSUME IInv, [Next]_vars, NEW r \in Requests,
                      stage'[r] = "attempting", stage[r] # "attempting"
               PROVE  r \notin expired
    OBVIOUS
  <2>1. PICK q \in Requests : Begin(q) \/ Step(q) \/ Interrupt(q) \/ Expire(q)
    BY DEF Next, vars
  <2>2. stage \in [Requests -> Stages]  BY DEF IInv, TypeOK
  <2>3. ASSUME NEW s \in {"done", "sleeping"}, ReleaseAndMove(q, s) PROVE FALSE
    BY <2>2, <2>3 DEF ReleaseAndMove
  <2>4. ASSUME NEW s \in Stages, s # "attempting", Move(q, s) PROVE FALSE
    BY <2>2, <2>4 DEF Move
  <2>5. ASSUME ReserveAndLease(q) PROVE r \notin expired
    BY <2>2, <2>5 DEF ReserveAndLease, Move
  <2>6. ASSUME TryAttempt(q) PROVE r \notin expired
    BY <2>4, <2>5, <2>6 DEF TryAttempt, Park, Stages
  <2>7. CASE Begin(q)  BY <2>4, <2>6, <2>7 DEF Begin, Stages
  <2>8. CASE EnterSemaphore(q)  BY <2>6, <2>8 DEF EnterSemaphore
  <2>9. CASE Resume(q)  BY <2>4, <2>5, <2>9 DEF Resume, Park, Stages
  <2>10. CASE GetLease(q)  BY <2>2, <2>3, <2>10 DEF GetLease, Move
  <2>11. CASE EndAttempt(q)  BY <2>3, <2>11 DEF EndAttempt
  <2>12. CASE EndBackoff(q)  BY <2>6, <2>12 DEF EndBackoff
  <2>13. CASE Unwind(q)  BY <2>3, <2>4, <2>13 DEF Unwind, Stages
  <2>14. CASE Interrupt(q) \/ Expire(q)  BY <2>14 DEF Interrupt, Expire
  <2> QED
    BY <2>1, <2>7, <2>8, <2>9, <2>10, <2>11, <2>12, <2>13, <2>14 DEF Step
<1>2. NoAttemptTooLate <=> [][InTime]_vars  BY DEF NoAttemptTooLate
<1> QED  BY <1>1, <1>2, AlwaysIInv, PTL DEF Spec

-----------------------------------------------------------------------------
(* The requests of a BMC keep to LeaseSlots *)

\* The instance counts as this module does.
LEMMA SlotsCardinality ==
    ASSUME NEW b, NEW S
    PROVE  Slots(b)!Cardinality(S) = Cardinality(S)
  BY DEF Slots!Cardinality, Cardinality

LeaseStep(b) == [Slots(b)!SlotsNext]_(Slots(b)!slots)

\* A step in which no other request than r comes to wait for a lease, to hold one
\* or to neither.
OnlyMoves(r) ==
    \A q \in Requests \ {r} : /\ (stage'[q] = "leasing") = (stage[q] = "leasing")
                              /\ (stage'[q] = "attempting") = (stage[q] = "attempting")
                              /\ (q \in interrupted') = (q \in interrupted)

\* Where r is a neighbour, what such a step does to those who wait and those who
\* hold is what it does to r; elsewhere, nothing.
LEMMA OthersStay ==
    ASSUME NEW b \in Bmcs, NEW r \in Requests, OnlyMoves(r)
    PROVE  /\ Waiting(b)' \ {r} = Waiting(b) \ {r}
           /\ Leases(b)' \ {r} = Leases(b) \ {r}
           /\ r \notin RequestsAt(b) => UNCHANGED <<Waiting(b), Leases(b)>>
  BY DEF OnlyMoves, Waiting, Leases, RequestsAt

\* A request that neither waits nor holds afterwards has withdrawn, if it did before.
LEMMA LeavingWithdraws ==
    ASSUME NEW b \in Bmcs, NEW r \in Requests, OnlyMoves(r),
           stage'[r] = "attempting" => stage[r] = "attempting",
           stage'[r] = "leasing" /\ r \notin interrupted' =>
               stage[r] = "leasing" /\ r \notin interrupted
    PROVE  LeaseStep(b)
<1>1. CycleOf[r] \in Cycles  BY RequestExecutionAssumption
<1>2. PICK gone \in SUBSET {r} :
         /\ Waiting(b)' = Waiting(b) \ gone
         /\ Leases(b)' = Leases(b) \ gone
  <2>1. CASE r \in Waiting(b)' \/ r \in Leases(b)'
    <3>1. Waiting(b)' = Waiting(b) \ {}
      BY <2>1, OthersStay DEF Waiting, Leases
    <3>2. Leases(b)' = Leases(b) \ {}
      BY <2>1, OthersStay DEF Waiting, Leases
    <3> QED  BY <3>1, <3>2
  <2>2. CASE ~(r \in Waiting(b)' \/ r \in Leases(b)')
    <3>1. Waiting(b)' = Waiting(b) \ {r} /\ Leases(b)' = Leases(b) \ {r}
      BY <2>2, OthersStay
    <3> QED  BY <3>1
  <2> QED  BY <2>1, <2>2
<1>3. gone \subseteq Slots(b)!RequestsOf(CycleOf[r])  BY DEF Slots!RequestsOf
<1>4. Slots(b)!Withdraw(CycleOf[r])  BY <1>2, <1>3 DEF Slots!Withdraw
<1> QED  BY <1>1, <1>4 DEF LeaseStep, Slots!SlotsNext

\* Who comes to wait has asked.
LEMMA ComingAsks ==
    ASSUME NEW b \in Bmcs, NEW r \in Requests, OnlyMoves(r), ~HoldsBytes(r),
           stage'[r] = "leasing"
    PROVE  LeaseStep(b)
<1>1. Leases(b)' = Leases(b)  BY OthersStay DEF Leases, HoldsBytes
<1>2. Waiting(b)' = Waiting(b) \/ Waiting(b)' = Waiting(b) \cup {r}
  BY OthersStay DEF Waiting, HoldsBytes
<1>3. r \notin Waiting(b) \cup Leases(b)  BY DEF Waiting, Leases, HoldsBytes
<1>4. CASE Waiting(b)' = Waiting(b)  BY <1>1, <1>4 DEF LeaseStep, Slots!slots
<1>5. CASE Waiting(b)' = Waiting(b) \cup {r}
  <2>1. Slots(b)!Ask(r)  BY <1>1, <1>3, <1>5 DEF Slots!Ask
  <2> QED  BY <2>1 DEF LeaseStep, Slots!SlotsNext
<1> QED  BY <1>2, <1>4, <1>5

\* Who comes to hold a lease found a slot of its lane, and either waited for it or
\* came when nobody of its lane did.
LEMMA HoldingIsGranted ==
    ASSUME NEW b \in Bmcs, NEW r \in Requests, OnlyMoves(r), stage'[r] = "attempting",
           SlotFree(r),
           \/ stage[r] = "leasing" /\ r \notin interrupted
           \/ ~HoldsBytes(r) /\ ServedAtOnce(r)
    PROVE  LeaseStep(b)
<1>1. CASE r \notin RequestsAt(b)
  BY <1>1, OthersStay DEF LeaseStep, Slots!slots
<1>2. CASE r \in RequestsAt(b)
  <2>1. b = BmcOf[CycleOf[r]]  BY <1>2 DEF RequestsAt
  <2>2. Slots(b)!Room(r)
    BY <2>1, SlotsCardinality DEF SlotFree, Slots!Room
  <2>3. Leases(b)' = Leases(b) \cup {r}  BY <1>2, OthersStay DEF Leases
  <2>4. Waiting(b)' = Waiting(b) \ {r}  BY OthersStay DEF Waiting
  <2>5. CASE stage[r] = "leasing" /\ r \notin interrupted
    <3>1. r \in Waiting(b)  BY <1>2, <2>5 DEF Waiting
    <3>2. Slots(b)!Grant(r)  BY <2>2, <2>3, <2>4, <3>1 DEF Slots!Grant
    <3> QED  BY <3>2 DEF LeaseStep, Slots!SlotsNext
  <2>6. CASE ~HoldsBytes(r) /\ ServedAtOnce(r)
    <3>1. r \notin Waiting(b) \cup Leases(b)  BY <2>6 DEF Waiting, Leases, HoldsBytes
    <3>2. Waiting(b)' = Waiting(b)  BY <2>4, <3>1
    <3>3. Waiting(b) \cap Slots(b)!SameLane(r) = {}
      BY <2>1, <2>6 DEF ServedAtOnce, Slots!SameLane
    <3>4. Slots(b)!GrantAtOnce(r)
      BY <2>2, <2>3, <3>1, <3>2, <3>3 DEF Slots!GrantAtOnce
    <3> QED  BY <3>4 DEF LeaseStep, Slots!SlotsNext
  <2> QED  BY <2>5, <2>6
<1> QED  BY <1>1, <1>2

-----------------------------------------------------------------------------
(* What the pieces the actions are made of do to the leases *)

\* Those who are woken are those who were parked: they neither waited for a lease
\* nor held one.
LEMMA WokenWereParked ==
    ASSUME IInv, NEW r \in Requests, NEW s \in Stages,
           stage' = [q \in Requests |->
              IF q = r THEN s ELSE IF q \in Awoken THEN "woken" ELSE stage[q]],
           UNCHANGED interrupted
    PROVE  OnlyMoves(r) /\ stage'[r] = s
<1>1. \A q \in Awoken : stage[q] = "parked"  BY DEF IInv, Awoken, NobodyParkedForNothing
<1>2. \A q \in Requests \ {r} : stage'[q] = stage[q] \/ (stage'[q] = "woken" /\ stage[q] = "parked")
  BY <1>1
<1> QED  BY <1>2 DEF OnlyMoves

LEMMA ReleaseWithdraws ==
    ASSUME IInv, NEW b \in Bmcs, NEW r \in Requests, NEW s \in {"done", "sleeping"},
           ReleaseAndMove(r, s), UNCHANGED interrupted
    PROVE  LeaseStep(b)
<1>1. OnlyMoves(r) /\ stage'[r] = s  BY WokenWereParked DEF ReleaseAndMove, Stages
<1> QED  BY <1>1, LeavingWithdraws

LEMMA MoveMovesOne ==
    ASSUME IInv, NEW r \in Requests, NEW s \in Stages, Move(r, s), UNCHANGED interrupted
    PROVE  OnlyMoves(r) /\ stage'[r] = s
  BY DEF IInv, TypeOK, Move, OnlyMoves

\* A move to where nothing is held or waited for but bytes or the semaphore.
LEMMA MoveWithdraws ==
    ASSUME IInv, NEW b \in Bmcs, NEW r \in Requests, NEW s \in {"done", "parked", "semaphore"},
           Move(r, s), UNCHANGED interrupted
    PROVE  LeaseStep(b)
<1>1. OnlyMoves(r) /\ stage'[r] = s  BY MoveMovesOne DEF Stages
<1> QED  BY <1>1, LeavingWithdraws

LEMMA ReserveAsks ==
    ASSUME IInv, NEW b \in Bmcs, NEW r \in Requests, ~HoldsBytes(r),
           ReserveAndLease(r), UNCHANGED interrupted
    PROVE  LeaseStep(b)
<1>1. CASE ServedAtOnce(r) /\ Move(r, "attempting")
  <2>1. OnlyMoves(r) /\ stage'[r] = "attempting"  BY <1>1, MoveMovesOne DEF Stages
  <2> QED  BY <1>1, <2>1, HoldingIsGranted DEF ServedAtOnce
<1>2. CASE Move(r, "leasing")
  <2>1. OnlyMoves(r) /\ stage'[r] = "leasing"  BY <1>2, MoveMovesOne DEF Stages
  <2> QED  BY <2>1, ComingAsks
<1>3. CASE stage' = [q \in Requests |->
              IF q = r THEN "done" ELSE IF q \in Awoken THEN "woken" ELSE stage[q]]
  <2>1. OnlyMoves(r) /\ stage'[r] = "done"  BY <1>3, WokenWereParked DEF Stages
  <2> QED  BY <2>1, LeavingWithdraws
<1> QED  BY <1>1, <1>2, <1>3 DEF ReserveAndLease

LEMMA TryAttemptAsks ==
    ASSUME IInv, NEW b \in Bmcs, NEW r \in Requests, ~HoldsBytes(r),
           TryAttempt(r), UNCHANGED interrupted
    PROVE  LeaseStep(b)
  BY MoveWithdraws, ReserveAsks DEF TryAttempt, Park

\* Every step is one of LeaseSlots, or none, at every BMC.
LEMMA NextIsALeaseStep ==
    ASSUME IInv, [Next]_vars, NEW b \in Bmcs
    PROVE  LeaseStep(b)
<1>1. CASE UNCHANGED vars
  BY <1>1 DEF vars, LeaseStep, Slots!slots, Waiting, Leases, RequestsAt
<1>2. ASSUME NEW r \in Requests, Begin(r) \/ Step(r) \/ Interrupt(r) \/ Expire(r)
      PROVE  LeaseStep(b)
  <2>1. CASE Begin(r)
    <3>1. ~HoldsBytes(r) /\ UNCHANGED interrupted  BY <2>1 DEF Begin, HoldsBytes
    <3> QED  BY <2>1, <3>1, TryAttemptAsks, MoveWithdraws DEF Begin
  <2>2. CASE EnterSemaphore(r)
    BY <2>2, TryAttemptAsks DEF EnterSemaphore, HoldsBytes
  <2>3. CASE Resume(r)
    <3>1. ~HoldsBytes(r) /\ UNCHANGED interrupted  BY <2>3 DEF Resume, HoldsBytes
    <3> QED  BY <2>3, <3>1, ReserveAsks, MoveWithdraws DEF Resume, Park
  <2>4. CASE GetLease(r)
    <3>1. UNCHANGED interrupted /\ SlotFree(r) /\ stage[r] = "leasing" /\ r \notin interrupted
      BY <2>4 DEF GetLease
    <3>2. CASE Move(r, "attempting")
      <4>1. OnlyMoves(r) /\ stage'[r] = "attempting"  BY <3>1, <3>2, MoveMovesOne DEF Stages
      <4> QED  BY <3>1, <4>1, HoldingIsGranted
    <3> QED  BY <2>4, <3>1, <3>2, ReleaseWithdraws DEF GetLease
  <2>5. CASE EndAttempt(r)
    BY <2>5, ReleaseWithdraws DEF EndAttempt
  <2>6. CASE EndBackoff(r)
    BY <2>6, TryAttemptAsks DEF EndBackoff, HoldsBytes
  <2>7. CASE Unwind(r)
    BY <2>7, ReleaseWithdraws, MoveWithdraws DEF Unwind
  <2>8. CASE Interrupt(r)
    <3>1. OnlyMoves(r) /\ stage' = stage /\ r \in interrupted'  BY <2>8 DEF Interrupt, OnlyMoves
    <3> QED  BY <3>1, LeavingWithdraws
  <2>9. CASE Expire(r)
    BY <2>9 DEF Expire, LeaseStep, Slots!slots, Waiting, Leases, RequestsAt
  <2> QED  BY <1>2, <2>1, <2>2, <2>3, <2>4, <2>5, <2>6, <2>7, <2>8, <2>9 DEF Step
<1> QED  BY <1>1, <1>2 DEF Next

\* At every BMC the requests of all its cycles keep to what LeaseSlots allows, for any
\* number of them, any lanes and any number of slots: what this module takes for
\* granted of the dispatcher is what Dispatcher is proved to promise.
THEOREM RequestsKeepToLeaseSlots == Spec => ImplementsLeaseSlots
<1>1. Init => \A b \in Bmcs : Slots(b)!SlotsInit
  BY DEF Init, Slots!SlotsInit, Waiting, Leases, RequestsAt
<1>2. IInv /\ [Next]_vars => [\A b \in Bmcs : [Slots(b)!SlotsNext]_(Slots(b)!slots)]_vars
  BY NextIsALeaseStep DEF LeaseStep
<1> QED  BY <1>1, <1>2, AlwaysIInv, PTL DEF Spec, ImplementsLeaseSlots

=============================================================================

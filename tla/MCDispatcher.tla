---------------------------- MODULE MCDispatcher ----------------------------
(***************************************************************************)
(* Instances of the dispatcher for TLC: two cycles on one BMC, each with   *)
(* requests of both lanes.                                                 *)
(***************************************************************************)
EXTENDS Dispatcher, SequencesExt

CONSTANTS a, b,           \* cycles
          f1, f2, f3,     \* Fast requests
          s1, s2          \* Slow requests

TwoCycles == {a, b}

\* Three Fast and two Slow requests: more of a lane than there are slots, and
\* enough Fast ones to have one waiting whenever a slot is freed.
Mixed == {f1, f2, f3, s1, s2}
MixedSlow == {s1, s2}
MixedCycleOf == [r \in Mixed |-> IF r \in {f1, s1} THEN a ELSE b]

\* Both lanes in pairs, for the finding about abandoned pairs.
Pairs == {f1, f2, s1, s2}
PairsCycleOf == [r \in Pairs |-> IF r \in {f1, s1} THEN a ELSE b]

\* Remaining() is the selection the deque code makes.
ASSUME RemainingIsSelection ==
    \A q \in UNION {[1..n -> {f1, f2, s1}] : n \in 0..3} :
        \A S \in SUBSET {f1, f2, s1} :
            Remaining(q, S) = {SelectSeq(q, LAMBDA x : x \in S)}

=============================================================================

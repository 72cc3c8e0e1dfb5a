-------------------------- MODULE MCTargetRegistry --------------------------
(***************************************************************************)
(* Small instances of TargetRegistry for TLC.                              *)
(***************************************************************************)
EXTENDS TargetRegistry, TLC

CONSTANTS k1, k2, b1, s1, s2

OneBmc == {b1}
TwoKeys == {k1, k2}
BothOnOne == [k \in TwoKeys |-> b1]
OneKey == {k1}
Alone == [k \in OneKey |-> b1]

TwoScrapes == {s1, s2}

SlowOutlivesFast == [l \in Lanes |-> IF l = "fast" THEN 1 ELSE 2]

\* Bound: two keys that take turns, scraped one at a time, in a registry that evicts
\* the one for the other; a lane is published once and nothing expires.
TakingTurns ==
    /\ now <= 1
    /\ \A o \in Objects, l \in Lanes : target[o].lane[l].generation <= 1
    /\ Cardinality({s \in Scrapes : scrapes[s].stage # "idle"}) <= 1

\* Bound: the target of k1 alone, whose lanes are published again and expire, with two
\* scrapes under way and snapshots of one size.
OneKeyAlone ==
    /\ \A k \in Keys : registry.targets[k] \in (IF k = k1 THEN {1, None} ELSE {None})
    /\ registry.bmc_coordinators[b1] \in {1, None}
    /\ \A j \in jobs : j.target = 1 /\ j.coordinator = 1
    /\ \A l \in Lanes : target[1].lane[l].serialized_size <= 1

Explored == TakingTurns \/ OneKeyAlone

ScrapeSymmetry == Permutations(Scrapes)

=============================================================================

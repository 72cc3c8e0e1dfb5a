---------------------------- MODULE CyclePermits ----------------------------
(***************************************************************************)
(* What opening and closing refresh cycles promises, with no task, no lane *)
(* and no cleanup in sight: a cycle takes one permit of its BMC and one of *)
(* the process, a target has at most one cycle that holds them, and they   *)
(* are given back once, for good.                                          *)
(*                                                                         *)
(* RefreshCycle.tla is shown to implement this module.                     *)
(***************************************************************************)
EXTENDS Integers, FiniteSets

CONSTANTS
    Cycles,        \* every cycle that is ever opened
    TargetOf,      \* the target each is opened for
    Bmcs,
    BmcOf,         \* the BMC of each target
    PerBmc,        \* cycles that may be open for one BMC
    InAll          \* cycles that may be open in the process

VARIABLES
    holding,  \* cycles that hold their permits
    spent     \* cycles that gave them back

permits == <<holding, spent>>

HoldingOn(b) == {c \in holding : BmcOf[TargetOf[c]] = b}

PermitsInit ==
    /\ holding = {}
    /\ spent = {}

Take(c) ==
    /\ c \notin holding \cup spent
    /\ \A d \in holding : TargetOf[d] # TargetOf[c]
    /\ Cardinality(HoldingOn(BmcOf[TargetOf[c]])) < PerBmc
    /\ Cardinality(holding) < InAll
    /\ holding' = holding \cup {c}
    /\ UNCHANGED spent

\* One cycle closes, or several are abandoned together at shutdown.
GiveBack(gone) ==
    /\ holding' = holding \ gone
    /\ spent' = spent \cup gone

PermitsNext ==
    \/ \E c \in Cycles : Take(c)
    \/ \E gone \in SUBSET holding : GiveBack(gone)

PermitsSpec == PermitsInit /\ [][PermitsNext]_permits

=============================================================================

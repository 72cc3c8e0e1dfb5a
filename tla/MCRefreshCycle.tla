--------------------------- MODULE MCRefreshCycle ---------------------------
(***************************************************************************)
(* Instances of the refresh cycles for TLC.                                *)
(***************************************************************************)
EXTENDS RefreshCycle, TLC

CONSTANTS c1, c2,   \* cycles
          t1,       \* target
          bmc

OneBmc == {bmc}

\* One cycle, both lanes.
SingleCycle == {c1}
SingleTarget == {t1}
SingleTargetOf == [c \in SingleCycle |-> t1]
SingleBmcOf == [t \in SingleTarget |-> bmc]

\* Two cycles of one target that has no Slow lane, the second opened while the
\* first may still be under way.  Nothing tells the cycles apart.
TwoCycles == {c1, c2}
SuccessiveTargetOf == [c \in TwoCycles |-> t1]
Interchangeable == Permutations(TwoCycles)

=============================================================================

------------------------ MODULE MCRequestExecution -------------------------
(***************************************************************************)
(* Small instances of RequestExecution for TLC.                            *)
(***************************************************************************)
EXTENDS RequestExecution, TLC

CONSTANTS r1, r2, r3, r4, c1, c2, b1

FourRequests == {r1, r2, r3, r4}
TwoCycles == {c1, c2}
ThreeInTheFirst == [r \in FourRequests |-> IF r = r4 THEN c2 ELSE c1]
AllButOne == FourRequests \ {r3}
OneBmc == {b1}
SameBmc == [c \in TwoCycles |-> b1]

\* One of the requests may try again.
OneRetries == [r \in FourRequests |-> IF r = r3 THEN 2 ELSE 1]

=============================================================================

----------------------------- MODULE LeaseSlots -----------------------------
(***************************************************************************)
(* What the request dispatcher of one BMC promises, with no queue, no      *)
(* future and no task in sight: a request asks for one of `capacity`       *)
(* slots, is given one when there is room for its lane, and gives it back; *)
(* some slots are kept out of reach of the Slow lane; a request that finds *)
(* room is never served before an older request of its own lane; and what  *)
(* is taken away at one go belongs to a single refresh cycle.              *)
(*                                                                         *)
(* Dispatcher.tla is shown to implement this module.                       *)
(***************************************************************************)
EXTENDS Integers, FiniteSets

CONSTANTS
    Requests,      \* the logical Redfish requests
    SlowRequests,  \* those of the Slow lane; the others are Fast
    Cycles,        \* the refresh cycles that share the BMC
    CycleOf,       \* the cycle each request belongs to
    Capacity,      \* slots in all
    SlowCapacity   \* slots the Slow lane may hold at a time

VARIABLES
    waiting,  \* requests that asked for a slot and have none yet
    leases    \* requests that hold a slot

slots == <<waiting, leases>>

SameLane(r) == {s \in Requests : s \in SlowRequests <=> r \in SlowRequests}
RequestsOf(c) == {r \in Requests : CycleOf[r] = c}

\* There is a slot for one more request of r's lane.
Room(r) ==
    /\ Cardinality(leases) < Capacity
    /\ r \in SlowRequests => Cardinality(leases \cap SlowRequests) < SlowCapacity

SlotsInit ==
    /\ waiting = {}
    /\ leases = {}

Ask(r) ==
    /\ r \notin waiting \cup leases
    /\ waiting' = waiting \cup {r}
    /\ UNCHANGED leases

\* Served without waiting: nobody of the same lane may be waiting.
GrantAtOnce(r) ==
    /\ r \notin waiting \cup leases
    /\ Room(r)
    /\ waiting \cap SameLane(r) = {}
    /\ leases' = leases \cup {r}
    /\ UNCHANGED waiting

Grant(r) ==
    /\ r \in waiting
    /\ Room(r)
    /\ waiting' = waiting \ {r}
    /\ leases' = leases \cup {r}

\* Requests of one cycle give up their wait or their slot, by themselves
\* (a release, a cancellation) or all together (the cycle is cancelled or
\* abandoned).
Withdraw(c) ==
    \E gone \in SUBSET RequestsOf(c) :
        /\ waiting' = waiting \ gone
        /\ leases' = leases \ gone

SlotsNext ==
    \/ \E r \in Requests : Ask(r) \/ GrantAtOnce(r) \/ Grant(r)
    \/ \E c \in Cycles : Withdraw(c)

SlotsSpec == SlotsInit /\ [][SlotsNext]_slots

=============================================================================

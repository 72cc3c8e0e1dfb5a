---------------------------- MODULE TargetCycle ----------------------------
(***************************************************************************)
(* What the refresh cycle of a target promises to its scrapes and to the   *)
(* jobs of its lanes, with no task, no future and no lock in sight: lanes  *)
(* are requested while it accepts them; each is started once or refused,   *)
(* in time, and Slow for the first time only after Fast; a cycle closes at *)
(* its deadline or when no job runs, is gone after that, and only then the *)
(* target has another.  A shutdown may close it, and end it, at any time.  *)
(*                                                                         *)
(* RefreshCycle.tla implements this module for every target with all its   *)
(* tasks, and so does TargetRegistry.tla with the little it says of them:  *)
(* what the scrapes there count on is what the cycles here provide.        *)
(***************************************************************************)

VARIABLES
    cycle,  \* the cycle of the target, as the others see it
    shut    \* the shutdown has begun

seen == <<cycle, shut>>

Lanes == {"fast", "slow"}

\* A cycle accepts lanes and is live ("open"), but has too little time left to
\* start them ("late"), accepts lanes after its deadline ("expired"), or does
\* neither ("closing").  Slow's first job follows the Fast job it became due with
\* ("follow"), has been started ("start"), or never comes.
Absent ==
    [phase |-> "none",
     requested |-> {},         \* lanes that wait to be started
     running |-> {},           \* lanes whose job runs
     slow_may |-> "follow"]

CycleInit ==
    /\ cycle = Absent
    /\ shut = FALSE

IsAccepting == cycle.phase \in {"open", "late", "expired"}

Open(due) ==
    /\ cycle = Absent
    /\ due # {}
    /\ cycle' = [Absent EXCEPT !.phase = "open", !.requested = due]
    /\ UNCHANGED shut

Attach(due) ==
    /\ IsAccepting
    /\ cycle' = [cycle EXCEPT !.requested = @ \cup (due \ cycle.running)]
    /\ UNCHANGED shut

SlowMayStart ==
    \/ cycle.slow_may = "start"
    \/ cycle.slow_may = "follow" /\ "fast" \notin cycle.requested \cup cycle.running

\* Lanes for which no job will be started.
Refusable ==
    {l \in cycle.requested :
        cycle.phase \in {"late", "expired"} \/ (l = "slow" /\ cycle.slow_may = "not")}

\* Some of the requested lanes are started, some refused.
Turn(started, refused) ==
    /\ IsAccepting
    /\ started \subseteq cycle.requested \ cycle.running
    /\ started # {} => cycle.phase = "open"
    /\ "slow" \in started => SlowMayStart
    /\ refused \subseteq Refusable \ started
    /\ cycle' = [cycle EXCEPT !.requested = @ \ (started \cup refused),
                              !.running = @ \cup started,
                              !.slow_may = IF "slow" \in started THEN "start" ELSE @]
    /\ UNCHANGED shut

\* A Fast job that fails before Slow was started bars Slow from the cycle.
JobEnds(l, failed) ==
    /\ l \in cycle.running
    /\ cycle' = [cycle EXCEPT
          !.running = @ \ {l},
          !.slow_may = IF failed /\ l = "fast" /\ @ = "follow" THEN "not" ELSE @]
    /\ UNCHANGED shut

TimePasses ==
    /\ \/ cycle.phase = "open" /\ cycle' = [cycle EXCEPT !.phase = "late"]
       \/ cycle.phase = "late" /\ cycle' = [cycle EXCEPT !.phase = "expired"]
    /\ UNCHANGED shut

Close(refused) ==
    /\ IsAccepting
    /\ shut \/ cycle.phase = "expired" \/ cycle.running = {}
    /\ refused \subseteq Refusable
    /\ cycle' = [cycle EXCEPT !.phase = "closing", !.requested = @ \ refused]
    /\ UNCHANGED shut

\* The target has no cycle any more; a job that still runs belongs to nobody.
Gone ==
    /\ cycle.phase = "closing" \/ (shut /\ cycle.phase # "none")
    /\ cycle' = Absent
    /\ UNCHANGED shut

ShutDown ==
    /\ shut' = TRUE
    /\ UNCHANGED cycle

CycleNext ==
    \/ \E due \in SUBSET Lanes : Open(due) \/ Attach(due)
    \/ \E started, refused \in SUBSET Lanes : Turn(started, refused)
    \/ \E l \in Lanes, failed \in BOOLEAN : JobEnds(l, failed)
    \/ TimePasses
    \/ \E refused \in SUBSET Lanes : Close(refused)
    \/ Gone
    \/ ShutDown

CycleSpec == CycleInit /\ [][CycleNext]_seen

=============================================================================

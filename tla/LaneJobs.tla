------------------------------ MODULE LaneJobs ------------------------------
(***************************************************************************)
(* The jobs of a refresh cycle (run_lane and ensure_bootstrap of           *)
(* core/targets/cycle_callbacks.py): each looks for the bootstrap of its   *)
(* cycle, discovers what the BMC is if nobody has                          *)
(* (core/schema/bootstrap.py), selects a vendor schema                     *)
(* (core/schema/selection.py) and collects its lane by it: as              *)
(* SchemaExecutor says, or LegacyCrawl if the schema is one of v1          *)
(* (collect_v2_target of core/schema/pipeline.py).                         *)
(*                                                                         *)
(* One lane of the cycle is modelled job by job.  Of the other lane there  *)
(* is what the two share: the lock, the bootstrap and its System body.     *)
(***************************************************************************)
EXTENDS SchemaExecutor, LegacyCrawl

CONSTANTS
    RootLinks,        \* what the ServiceRoot may link to
    select_only,      \* Bootstrap.System.Select is "only"
    chassis_capture,  \* how many captures of a chassis there are
    Rules,            \* ModelSchemas: [priority, requires, schema] of each id
    Observed          \* the sets of rules that a BMC may match

ASSUME LaneJobsAssumption ==
    /\ RootLinks \subseteq SUBSET {"chassis_collection", "managers"}
    /\ select_only \in BOOLEAN
    /\ chassis_capture \in Nat
    /\ \A r \in DOMAIN Rules : Rules[r].schema \in {"v2", "legacy", "unavailable"}
    /\ Observed \subseteq SUBSET DOMAIN Rules

VARIABLES
    stage,           \* where the job is suspended
    discovery,       \* what discover_bootstrap() has found
    lock,            \* who holds bootstrap_lock
    selected_schema, \* of the context
    reused,          \* bootstrap_system_reused
    handed           \* how many jobs of the cycle were given the System body

cycleVars == <<lock, selected_schema, reused, handed>>
vars == <<lane, bootstrap_ctx, crawlVars, legacyVars, stage, discovery, cycleVars>>

Lanes == {"fast", "slow"}
Other == IF lane = "fast" THEN "slow" ELSE "fast"

Discovering ==
    {"service_root", "systems", "system", "chassis", "chassis_captures", "manager"}

NothingFound == [links |-> {}, ctx |-> {}, matched |-> {}, captured |-> 0]

Init ==
    /\ lane = "fast"
    /\ bootstrap_ctx = {}
    /\ CrawlInit
    /\ LegacyInit
    /\ stage = "idle"
    /\ discovery = NothingFound
    /\ lock = "free"
    /\ selected_schema = "none"
    /\ reused = FALSE
    /\ handed = 0

-----------------------------------------------------------------------------
(* select_v2_model_schema() *)

\* The matches of the highest priority: none, one, or a tie.
Winners(matched, ctx) ==
    LET matches == {r \in matched : Rules[r].requires \subseteq ctx}
    IN  {r \in matches : \A q \in matches : Rules[q].priority <= Rules[r].priority}

Selected(matched, ctx) ==
    IF Cardinality(Winners(matched, ctx)) # 1 THEN "unavailable"
    ELSE Rules[CHOOSE r \in Winners(matched, ctx) : TRUE].schema

-----------------------------------------------------------------------------
(* run_lane() *)

\* Nothing is left of a job that is over: its variables are locals.
JobOver ==
    /\ stage' = "idle"
    /\ discovery' = NothingFound
    /\ NoCrawl
    /\ NoLegacy
    /\ UNCHANGED lane

\* collect_v2_target(): the crawl the selected schema asks for, with the System
\* body or without; a lane without resources is collected at once.  A v1 schema
\* asks for a server id in the System's URI.
Collect(reuse) ==
    IF selected_schema = "v2" THEN
        /\ stage' = IF LaneResources[lane] = <<>> THEN "returned" ELSE "v2"
        /\ CrawlBegins(lane, bootstrap_ctx, reuse)
        /\ UNCHANGED legacyVars
    ELSE
        /\ stage' = "legacy"
        /\ LaneBegins \/ NoServerId
        /\ UNCHANGED crawlVars

\* Mutant of StartCollecting: bootstrap_system_reused is not set.
StartCollectingAgain ==
    /\ stage = "bootstrapped"
    /\ Collect(lane = "fast" /\ ~reused)
    /\ handed' = IF lane = "fast" /\ ~reused THEN handed + 1 ELSE handed
    /\ UNCHANGED <<lane, bootstrap_ctx, discovery, lock, selected_schema, reused>>

\* Fast is given the System body of the discovery the first time it gets here
\* (under the lock again, which nobody holds for long once there is a bootstrap).
StartCollecting ==
    LET first == lane = "fast" /\ ~reused
    IN  /\ stage = "bootstrapped"
        /\ Collect(first)
        /\ reused' = (reused \/ first)
        /\ handed' = IF first THEN handed + 1 ELSE handed
        /\ UNCHANGED <<lane, bootstrap_ctx, discovery, lock, selected_schema>>

JobBegins ==
    /\ stage = "idle"
    /\ \E l \in Lanes \ {lock} : lane' = l    \* a lane has one job at a time
    /\ stage' = "lock"
    /\ UNCHANGED <<bootstrap_ctx, crawlVars, legacyVars, discovery, cycleVars>>

\* Mutant of BeginDiscovery: whether there is a bootstrap is not asked again.
BeginDiscoveryAnyway ==
    /\ stage = "lock"
    /\ lock = "free"
    /\ lock' = lane
    /\ stage' = "service_root"
    /\ UNCHANGED <<lane, bootstrap_ctx, crawlVars, legacyVars, discovery, selected_schema, reused, handed>>

\* Nobody has bootstrapped the cycle.
BeginDiscovery ==
    /\ stage = "lock"
    /\ lock = "free"
    /\ selected_schema = "none"
    /\ lock' = lane
    /\ stage' = "service_root"
    /\ UNCHANGED <<lane, bootstrap_ctx, crawlVars, legacyVars, discovery, selected_schema, reused, handed>>

\* The bootstrap is there.
UseBootstrap ==
    /\ stage = "lock"
    /\ lock = "free"
    /\ selected_schema # "none"
    /\ stage' = "bootstrapped"
    /\ UNCHANGED <<lane, bootstrap_ctx, crawlVars, legacyVars, discovery, cycleVars>>

Discovered(next, found) ==
    /\ stage' = next
    /\ discovery' = found
    /\ UNCHANGED <<lane, bootstrap_ctx, crawlVars, legacyVars, cycleVars>>

\* The discovery fails, or is thrown out: the lock is free again, nothing stored.
GiveUp ==
    /\ JobOver
    /\ lock' = "free"
    /\ UNCHANGED <<bootstrap_ctx, selected_schema, reused, handed>>

GotServiceRoot ==
    /\ stage = "service_root"
    /\ \E links \in RootLinks : Discovered("systems", [discovery EXCEPT !.links = links])

\* The members of the Systems collection.
GotSystems ==
    /\ stage = "systems"
    /\ \E members \in 0 .. 2 :
          IF members = 0 \/ (members # 1 /\ select_only) THEN GiveUp
          ELSE Discovered("system", [discovery EXCEPT !.ctx = {"system_uri"}])

\* After the System: the chassis collection, if the ServiceRoot links to it.
AfterSystem(found) == IF "chassis_collection" \in found.links THEN "chassis" ELSE "manager"

GotSystem ==
    /\ stage = "system"
    /\ \/ GiveUp    \* no system_id, manufacturer or model
       \/ \E matched \in Observed :
             LET found == [discovery EXCEPT !.matched = matched] IN Discovered(AfterSystem(found), found)

GotChassis ==
    /\ stage = "chassis"
    /\ \/ Discovered("manager", discovery)
       \/ LET found == [discovery EXCEPT !.ctx = @ \cup {"chassis_uri"}]
          IN  Discovered(IF chassis_capture > 0 THEN "chassis_captures" ELSE "manager", found)

\* Each capture of the chassis is a fetch of its own.
GotChassisCapture ==
    /\ stage = "chassis_captures"
    /\ LET found == [discovery EXCEPT !.captured = @ + 1]
       IN  Discovered(IF found.captured = chassis_capture THEN "manager" ELSE stage, found)

\* The end of the discovery: the schema is selected and all of it is stored, or
\* the job fails and nothing is.
GotManager ==
    /\ stage = "manager"
    /\ "managers" \in discovery.links
    /\ \E ctx \in {discovery.ctx, discovery.ctx \cup {"manager_uri"}} :
          LET schema == Selected(discovery.matched, ctx)
          IN  IF schema = "unavailable" THEN GiveUp
              ELSE /\ bootstrap_ctx' = ctx
                   /\ selected_schema' = schema
                   /\ lock' = "free"
                   /\ discovery' = NothingFound
                   /\ stage' = "bootstrapped"
                   /\ UNCHANGED <<lane, crawlVars, legacyVars, reused, handed>>

\* A fetch of the discovery raises: it is no ExecutorError, so the chassis and the
\* manager are not optional then; the link to the managers that is not there is
\* fetched as "None", which raises.  A cancellation does the same.
DiscoveryRaises ==
    /\ stage \in Discovering
    /\ GiveUp

CollectV2 ==
    /\ stage = "v2"
    /\ CrawlStep
    /\ stage' = IF outcome' = "running" THEN "v2" ELSE "returned"
    /\ UNCHANGED <<legacyVars, discovery, cycleVars>>

CollectLegacy ==
    /\ stage = "legacy"
    /\ LegacyStep
    /\ UNCHANGED <<lane, bootstrap_ctx, crawlVars, stage, discovery, cycleVars>>

\* run_lane() publishes what the job returned or raised (TargetRegistry.tla).
JobEnds ==
    /\ \/ stage = "returned"
       \/ stage = "legacy" /\ gather.mode \in {"done", "failed", "cancelled"}
    /\ JobOver
    /\ UNCHANGED <<bootstrap_ctx, cycleVars>>

\* The cycle cancels the job where it is suspended.
Cancel ==
    \/ /\ stage \in {"lock", "bootstrapped"}
       /\ JobOver
       /\ UNCHANGED <<bootstrap_ctx, cycleVars>>
    \/ /\ stage = "v2" /\ outcome = "running"
       /\ turn.doing \in {"root", "page", "member"}
       /\ JobOver
       /\ UNCHANGED <<bootstrap_ctx, cycleVars>>
    \/ /\ stage = "legacy"
       /\ LaneCancelled
       /\ UNCHANGED <<lane, bootstrap_ctx, crawlVars, stage, discovery, cycleVars>>

-----------------------------------------------------------------------------
(* The other lane, and the cycle *)

\* It finds nothing bootstrapped and discovers; a waiter has the lock before it.
OtherDiscovers ==
    /\ lock = "free"
    /\ stage # "lock"
    /\ selected_schema = "none"
    /\ lock' = Other
    /\ UNCHANGED <<lane, bootstrap_ctx, crawlVars, legacyVars, stage, discovery, selected_schema, reused, handed>>

OtherEnds ==
    /\ lock = Other
    /\ lock' = "free"
    /\ \/ UNCHANGED <<bootstrap_ctx, selected_schema, reused, handed>>
       \/ /\ \E matched \in Observed, found \in SUBSET {"chassis_uri", "manager_uri"} :
                /\ bootstrap_ctx' = {"system_uri"} \cup found
                /\ selected_schema' = Selected(matched, {"system_uri"} \cup found)
          /\ selected_schema' # "unavailable"
          /\ reused' = (Other = "fast")
          /\ handed' = IF Other = "fast" THEN handed + 1 ELSE handed
    /\ UNCHANGED <<lane, crawlVars, legacyVars, stage, discovery>>

\* A later job of the other lane takes the System body, if it is Fast.
OtherTakesSystemBody ==
    /\ selected_schema # "none"
    /\ lock = "free"
    /\ Other = "fast"
    /\ ~reused
    /\ reused' = TRUE
    /\ handed' = handed + 1
    /\ UNCHANGED <<lane, bootstrap_ctx, crawlVars, legacyVars, stage, discovery, lock, selected_schema>>

\* Another cycle, with a context of its own.
NewCycle ==
    /\ stage = "idle"
    /\ lock = "free"
    /\ selected_schema # "none"
    /\ selected_schema' = "none"
    /\ bootstrap_ctx' = {}
    /\ reused' = FALSE
    /\ handed' = 0
    /\ UNCHANGED <<lane, crawlVars, legacyVars, stage, discovery, lock>>

Job ==
    \/ BeginDiscovery \/ UseBootstrap
    \/ GotServiceRoot \/ GotSystems \/ GotSystem \/ GotChassis \/ GotChassisCapture \/ GotManager
    \/ DiscoveryRaises
    \/ StartCollecting \/ CollectV2 \/ CollectLegacy \/ JobEnds

Next ==
    \/ JobBegins \/ Job \/ Cancel
    \/ OtherDiscovers \/ OtherEnds \/ OtherTakesSystemBody
    \/ NewCycle

Spec == Init /\ [][Next]_vars

\* Every fetch ends, so a job that is suspended in one goes on, and so does the
\* other lane (RequestExecution.tla).
FairSpec == Spec /\ WF_vars(Job) /\ WF_vars(OtherEnds)

-----------------------------------------------------------------------------
(* Properties *)

TypeOK ==
    /\ CrawlTypeOK
    /\ LegacyTypeOK
    /\ stage \in {"idle", "lock", "bootstrapped", "v2", "legacy", "returned"} \cup Discovering
    /\ lock \in {"free"} \cup Lanes
    /\ selected_schema \in {"none", "v2", "legacy"}
    /\ reused \in BOOLEAN

\* The System body of a discovery is used once in a cycle, however its jobs
\* interleave and fail: only the first Fast job has it, all others fetch.
SystemBodyIsUsedOnce == handed <= 1 /\ (reusable => handed = 1 /\ lane = "fast")

\* What a cycle has found out about its BMC stays until the cycle is over, for
\* both lanes, and is all of one discovery; who discovers holds the lock
\* (bootstrap_lock).
OneDiscoveryPerCycle ==
    [][/\ selected_schema # "none" /\ selected_schema' # "none" =>
            selected_schema' = selected_schema /\ bootstrap_ctx' = bootstrap_ctx
       /\ (selected_schema # "none") <=> ("system_uri" \in bootstrap_ctx)
       /\ stage \in Discovering => lock = lane /\ selected_schema = "none"]_vars

\* A job ends, whatever the BMC answers, and whoever holds the lock.
EveryJobEnds == stage # "idle" ~> stage = "idle"

=============================================================================

--------------------------- MODULE LaneJobsProofs ---------------------------
(***************************************************************************)
(* Theorems about LaneJobs: the lanes of a cycle share one discovery, the  *)
(* System body it fetched serves one job, and what the crawl of a job      *)
(* keeps, by a v1 schema and by one of a vendor (CrawlProofs).             *)
(*                                                                         *)
(* None is inductive.  That a discovery cannot overwrite another rests on  *)
(* who holds the lock and on what is known while it is held (LockInv), and *)
(* that the body is handed out once on what a job that runs, or no longer  *)
(* runs, still has of it (BodyInv).  A crawl keeps its invariant because   *)
(* the bootstrap it began with is not exchanged under it: that again is    *)
(* LockInv, and CrawlOfJob says when there is a crawl at all.              *)
(***************************************************************************)
EXTENDS LaneJobs, CrawlProofs

Discoveries ==
    [links : SUBSET {"chassis_collection", "managers"},
     ctx : SUBSET {"system_uri", "chassis_uri", "manager_uri"},
     matched : SUBSET DOMAIN Rules,
     captured : Nat]

\* The stages of a job that has its bootstrap.
Bootstrapped == {"bootstrapped", "v2", "legacy", "returned"}

\* Who discovers has the lock and nothing is stored yet; what is stored is all of
\* one discovery.
LockInv ==
    /\ lane \in Lanes
    /\ lock \in {"free"} \cup Lanes
    /\ stage \in {"idle", "lock"} \cup Bootstrapped \cup Discovering
    /\ selected_schema \in {"none", "v2", "legacy"}
    /\ stage \in Discovering <=> lock = lane
    /\ lock # "free" => selected_schema = "none"
    /\ stage \in Bootstrapped => selected_schema # "none"
    /\ selected_schema # "none" <=> "system_uri" \in bootstrap_ctx
    /\ discovery \in Discoveries
    /\ stage \in {"system", "chassis", "chassis_captures", "manager"} => "system_uri" \in discovery.ctx

\* The System body of a discovery that is stored is there to be handed out until
\* reused says it was; a job has it only while it collects.
BodyInv ==
    /\ reused \in BOOLEAN
    /\ handed = IF reused THEN 1 ELSE 0
    /\ selected_schema = "none" => ~reused
    /\ stage \notin {"v2", "returned"} => ~reusable
    /\ reusable => reused /\ lane = "fast"

IInv ==
    /\ LockInv
    /\ BodyInv

\* A selection never answers "none", so that "none" stands for no bootstrap.
LEMMA SelectedIsASchema ==
    ASSUME NEW matched \in SUBSET DOMAIN Rules, NEW ctx
    PROVE  Selected(matched, ctx) \in {"v2", "legacy", "unavailable"}
<1>1. CASE Cardinality(Winners(matched, ctx)) # 1
    BY <1>1 DEF Selected
<1>2. CASE Cardinality(Winners(matched, ctx)) = 1
    <2>1. Winners(matched, ctx) # {}
        BY <1>2, FS_EmptySet
    <2>2. Winners(matched, ctx) \subseteq DOMAIN Rules
        BY DEF Winners
    <2>3. PICK r \in DOMAIN Rules : r = (CHOOSE q \in Winners(matched, ctx) : TRUE)
        BY <2>1, <2>2
    <2>4. Rules[r].schema \in {"v2", "legacy", "unavailable"}
        BY LaneJobsAssumption DEF LaneJobsAssumption
    <2> QED
        BY <1>2, <2>3, <2>4 DEF Selected
<1> QED
    BY <1>1, <1>2

\* A step of the executor touches neither the lane nor the bootstrap, and takes the
\* System body or leaves it.
LEMMA CrawlStepKeeps ==
    ASSUME CrawlStep
    PROVE  UNCHANGED <<lane, bootstrap_ctx>> /\ (reusable' => reusable)
<1> USE DEF givenVars
<1>1. CASE SkipStrategy
    BY <1>1 DEF SkipStrategy
<1>2. CASE ReadInline
    BY <1>2 DEF ReadInline
<1>3. CASE BeginFetch
    BY <1>3 DEF BeginFetch
<1>4. CASE WhenMismatch
    BY <1>4 DEF WhenMismatch
<1>5. CASE GotObject
    BY <1>5 DEF GotObject
<1>6. CASE GotPage
    BY <1>6 DEF GotPage
<1>7. CASE NextPage
    BY <1>7 DEF NextPage
<1>8. CASE TooManyPages
    BY <1>8 DEF TooManyPages
<1>9. CASE FetchMember
    BY <1>9 DEF FetchMember
<1>10. CASE GotMember
    BY <1>10 DEF GotMember
<1>11. CASE DropMember
    BY <1>11 DEF DropMember
<1>12. CASE EndMembers
    BY <1>12 DEF EndMembers
<1>13. CASE FetchRaises
    BY <1>13 DEF FetchRaises
<1>14. CASE NextResource
    BY <1>14 DEF NextResource
<1> QED
    BY <1>1, <1>2, <1>3, <1>4, <1>5, <1>6, <1>7, <1>8, <1>9, <1>10, <1>11, <1>12, <1>13, <1>14 DEF CrawlStep

\* A job that is over has nothing.
LEMMA JobOverLeavesNothing ==
    ASSUME JobOver
    PROVE  stage' = "idle" /\ ~reusable' /\ lane' = lane
BY DEF JobOver, NoCrawl

\* No job has begun, nothing is stored and nobody has the lock.
LEMMA InitEstablishes == Init => IInv
<1> SUFFICES ASSUME Init PROVE IInv
    OBVIOUS
<1>1. NothingFound \in Discoveries
    BY DEF NothingFound, Discoveries
<1>2. LockInv
    BY <1>1 DEF Init, LockInv, Lanes, Discovering, Bootstrapped
<1>3. BodyInv
    BY DEF Init, CrawlInit, BodyInv
<1> QED
    BY <1>2, <1>3 DEF IInv

-----------------------------------------------------------------------------
(* One lemma per action, and each says of a step what OneDiscoveryPerCycle *)
(* says of it.                                                             *)

\* What is stored stays as it is until the cycle is over.
StoredStays ==
    selected_schema # "none" /\ selected_schema' # "none" =>
        selected_schema' = selected_schema /\ bootstrap_ctx' = bootstrap_ctx

Good == IInv' /\ StoredStays

LEMMA JobBeginsKeeps ==
    ASSUME IInv, JobBegins
    PROVE  Good
BY DEF Good, StoredStays, IInv, LockInv, BodyInv, JobBegins, Lanes, Discovering, Bootstrapped, cycleVars, crawlVars

LEMMA BeginDiscoveryKeeps ==
    ASSUME IInv, BeginDiscovery
    PROVE  Good
BY DEF Good, StoredStays, IInv, LockInv, BodyInv, BeginDiscovery, Lanes, Discovering, Bootstrapped, crawlVars

LEMMA UseBootstrapKeeps ==
    ASSUME IInv, UseBootstrap
    PROVE  Good
BY DEF Good, StoredStays, IInv, LockInv, BodyInv, UseBootstrap, Lanes, Discovering, Bootstrapped, cycleVars, crawlVars

\* The discovery goes on.
LEMMA DiscoveredKeeps ==
    ASSUME IInv, stage \in Discovering,
           NEW next \in Discovering \ {"service_root"}, NEW found \in Discoveries,
           next = "systems" \/ "system_uri" \in found.ctx,
           Discovered(next, found)
    PROVE  Good
BY DEF Good, StoredStays, IInv, LockInv, BodyInv, Discovered, Lanes, Discovering, Bootstrapped, cycleVars, crawlVars

\* It ends without a bootstrap.
LEMMA GiveUpKeeps ==
    ASSUME IInv, stage \in Discovering, GiveUp
    PROVE  Good
BY JobOverLeavesNothing
   DEF Good, StoredStays, IInv, LockInv, BodyInv, GiveUp, JobOver, Discovering, Bootstrapped, Discoveries, NothingFound, Lanes

LEMMA GotServiceRootKeeps ==
    ASSUME IInv, GotServiceRoot
    PROVE  Good
<1>1. PICK links \in RootLinks : Discovered("systems", [discovery EXCEPT !.links = links])
    BY DEF GotServiceRoot
<1>2. [discovery EXCEPT !.links = links] \in Discoveries
    BY LaneJobsAssumption DEF LaneJobsAssumption, IInv, LockInv, Discoveries
<1> QED
    BY <1>1, <1>2, DiscoveredKeeps DEF GotServiceRoot, Discovering

LEMMA GotSystemsKeeps ==
    ASSUME IInv, GotSystems
    PROVE  Good
<1> DEFINE found == [discovery EXCEPT !.ctx = {"system_uri"}]
<1>1. GiveUp \/ Discovered("system", found)
    BY DEF GotSystems
<1>2. found \in Discoveries /\ "system_uri" \in found.ctx
    BY DEF IInv, LockInv, Discoveries
<1> QED
    BY <1>1, <1>2, DiscoveredKeeps, GiveUpKeeps DEF GotSystems, Discovering

LEMMA GotSystemKeeps ==
    ASSUME IInv, GotSystem
    PROVE  Good
<1>1. CASE GiveUp
    BY <1>1, GiveUpKeeps DEF GotSystem, Discovering
<1>2. CASE \E matched \in Observed :
               LET found == [discovery EXCEPT !.matched = matched] IN Discovered(AfterSystem(found), found)
    <2>1. PICK matched \in Observed :
              Discovered(AfterSystem([discovery EXCEPT !.matched = matched]), [discovery EXCEPT !.matched = matched])
        BY <1>2
    <2> DEFINE found == [discovery EXCEPT !.matched = matched]
    <2>2. found \in Discoveries /\ "system_uri" \in found.ctx
        BY LaneJobsAssumption DEF LaneJobsAssumption, IInv, LockInv, Discoveries, GotSystem
    <2>3. AfterSystem(found) \in Discovering \ {"service_root"}
        BY DEF AfterSystem, Discovering
    <2> QED
        BY <2>1, <2>2, <2>3, DiscoveredKeeps DEF GotSystem, Discovering
<1> QED
    BY <1>1, <1>2 DEF GotSystem

LEMMA GotChassisKeeps ==
    ASSUME IInv, GotChassis
    PROVE  Good
<1> DEFINE found == [discovery EXCEPT !.ctx = @ \cup {"chassis_uri"}]
<1>1. \E next \in {"manager", "chassis_captures"} : Discovered(next, discovery) \/ Discovered(next, found)
    BY DEF GotChassis
<1>2. discovery \in Discoveries /\ "system_uri" \in discovery.ctx
    BY DEF IInv, LockInv, GotChassis
<1>3. found \in Discoveries /\ "system_uri" \in found.ctx
    BY <1>2 DEF Discoveries
<1> QED
    BY <1>1, <1>2, <1>3, DiscoveredKeeps DEF GotChassis, Discovering

LEMMA GotChassisCaptureKeeps ==
    ASSUME IInv, GotChassisCapture
    PROVE  Good
<1> DEFINE found == [discovery EXCEPT !.captured = @ + 1]
<1>1. Discovered("manager", found) \/ Discovered("chassis_captures", found)
    BY DEF GotChassisCapture
<1>2. found \in Discoveries /\ "system_uri" \in found.ctx
    BY DEF IInv, LockInv, GotChassisCapture, Discoveries
<1> QED
    BY <1>1, <1>2, DiscoveredKeeps DEF GotChassisCapture, Discovering

LEMMA GotManagerKeeps ==
    ASSUME IInv, GotManager
    PROVE  Good
<1>1. PICK ctx \in {discovery.ctx, discovery.ctx \cup {"manager_uri"}} :
          LET schema == Selected(discovery.matched, ctx)
          IN  IF schema = "unavailable" THEN GiveUp
              ELSE /\ bootstrap_ctx' = ctx
                   /\ selected_schema' = schema
                   /\ lock' = "free"
                   /\ discovery' = NothingFound
                   /\ stage' = "bootstrapped"
                   /\ UNCHANGED <<lane, crawlVars, legacyVars, reused, handed>>
    BY DEF GotManager
<1>2. CASE Selected(discovery.matched, ctx) = "unavailable"
    BY <1>1, <1>2, GiveUpKeeps DEF GotManager, Discovering
<1>3. CASE Selected(discovery.matched, ctx) # "unavailable"
    <2>1. selected_schema' \in {"v2", "legacy"}
        BY <1>1, <1>3, SelectedIsASchema DEF IInv, LockInv, Discoveries
    <2>2. "system_uri" \in bootstrap_ctx'
        BY <1>1, <1>3 DEF IInv, LockInv, GotManager
    <2>3. selected_schema = "none"
        BY DEF IInv, LockInv, GotManager, Discovering, Bootstrapped, Lanes
    <2> QED
        BY <1>1, <1>3, <2>1, <2>2, <2>3
        DEF Good, StoredStays, IInv, LockInv, BodyInv, GotManager, NothingFound, Discoveries, Discovering, Bootstrapped,
            Lanes, crawlVars
<1> QED
    BY <1>2, <1>3

LEMMA DiscoveryRaisesKeeps ==
    ASSUME IInv, DiscoveryRaises
    PROVE  Good
BY GiveUpKeeps DEF DiscoveryRaises

LEMMA StartCollectingKeeps ==
    ASSUME IInv, StartCollecting
    PROVE  Good
<1> DEFINE first == lane = "fast" /\ ~reused
<1>1. /\ Collect(first)
      /\ stage = "bootstrapped"
      /\ reused' = (reused \/ first)
      /\ handed' = IF first THEN handed + 1 ELSE handed
      /\ UNCHANGED <<lane, bootstrap_ctx, discovery, lock, selected_schema>>
    BY DEF StartCollecting
<1>2. \/ stage' \in {"v2", "returned"} /\ reusable' = first
      \/ stage' = "legacy" /\ reusable' = reusable
    BY <1>1 DEF Collect, CrawlBegins, crawlVars
<1> HIDE DEF first
<1>3. first \in BOOLEAN /\ (first => lane = "fast" /\ ~reused)
    BY DEF first
<1> QED
    <2>1. stage' \notin Discovering /\ stage \notin Discovering
        BY <1>1, <1>2 DEF Discovering
    <2>2. LockInv' /\ StoredStays
        BY <1>1, <1>2, <2>1 DEF StoredStays, IInv, LockInv, Bootstrapped, Discovering, Lanes
    <2>3. BodyInv'
        <3>1. selected_schema' = "none" => ~reused'
            BY <1>1 DEF IInv, LockInv, Bootstrapped
        <3>2. CASE first
            <4>1. reused' = TRUE /\ reused = FALSE /\ lane' = "fast"
                BY <1>1, <1>3, <3>2 DEF IInv, BodyInv
            <4>2. handed' = 1
                BY <1>1, <3>2, <4>1 DEF IInv, BodyInv
            <4>3. stage' \notin {"v2", "returned"} => ~reusable'
                BY <1>1, <1>2 DEF IInv, BodyInv
            <4> QED
                BY <3>1, <4>1, <4>2, <4>3 DEF BodyInv
        <3>3. CASE ~first
            BY <1>1, <1>2, <1>3, <3>1, <3>3 DEF IInv, BodyInv
        <3> QED
            BY <3>2, <3>3
    <2> QED
        BY <2>2, <2>3 DEF Good, IInv

LEMMA CollectV2Keeps ==
    ASSUME IInv, CollectV2
    PROVE  Good
<1>1. UNCHANGED <<lane, bootstrap_ctx>> /\ (reusable' => reusable)
    BY CrawlStepKeeps DEF CollectV2
<1> QED
    BY <1>1 DEF Good, StoredStays, IInv, LockInv, BodyInv, CollectV2, Discovering, Bootstrapped, Lanes, cycleVars

LEMMA CollectLegacyKeeps ==
    ASSUME IInv, CollectLegacy
    PROVE  Good
BY DEF Good, StoredStays, IInv, LockInv, BodyInv, CollectLegacy, Discovering, Bootstrapped, Lanes, cycleVars, crawlVars

\* A job ends that was not discovering.
LEMMA OverKeeps ==
    ASSUME IInv, stage \notin Discovering, JobOver, UNCHANGED <<bootstrap_ctx, cycleVars>>
    PROVE  Good
BY JobOverLeavesNothing
   DEF Good, StoredStays, IInv, LockInv, BodyInv, JobOver, Discovering, Bootstrapped, Discoveries, NothingFound, Lanes, cycleVars

LEMMA JobEndsKeeps ==
    ASSUME IInv, JobEnds
    PROVE  Good
BY OverKeeps DEF JobEnds, Discovering

LEMMA CancelKeeps ==
    ASSUME IInv, Cancel
    PROVE  Good
<1>1. CASE stage = "legacy" /\ UNCHANGED <<lane, bootstrap_ctx, crawlVars, stage, discovery, cycleVars>>
    BY <1>1 DEF Good, StoredStays, IInv, LockInv, BodyInv, Discovering, Bootstrapped, Lanes, cycleVars, crawlVars
<1> QED
    BY <1>1, OverKeeps DEF Cancel, Discovering

LEMMA OtherDiscoversKeeps ==
    ASSUME IInv, OtherDiscovers
    PROVE  Good
BY DEF Good, StoredStays, IInv, LockInv, BodyInv, OtherDiscovers, Other, Lanes, Discovering, Bootstrapped, crawlVars

LEMMA OtherEndsKeeps ==
    ASSUME IInv, OtherEnds
    PROVE  Good
<1>1. lock = Other /\ lock' = "free" /\ UNCHANGED <<lane, reusable, stage, discovery>>
    BY DEF OtherEnds, crawlVars
<1>2. /\ selected_schema = "none"
      /\ ~reused
      /\ stage \notin Discovering
    BY <1>1 DEF IInv, LockInv, BodyInv, Other, Lanes
<1>3. CASE UNCHANGED <<bootstrap_ctx, selected_schema, reused, handed>>
    BY <1>1, <1>2, <1>3 DEF Good, StoredStays, IInv, LockInv, BodyInv, Lanes
<1>4. ASSUME NEW matched \in Observed, NEW found \in SUBSET {"chassis_uri", "manager_uri"},
             bootstrap_ctx' = {"system_uri"} \cup found,
             selected_schema' = Selected(matched, {"system_uri"} \cup found),
             selected_schema' # "unavailable",
             reused' = (Other = "fast"),
             handed' = IF Other = "fast" THEN handed + 1 ELSE handed
      PROVE  Good
    <2>1. selected_schema' \in {"v2", "legacy"}
        BY <1>4, SelectedIsASchema, LaneJobsAssumption DEF LaneJobsAssumption
    <2>2. LockInv' /\ StoredStays
        BY <1>1, <1>2, <1>4, <2>1 DEF StoredStays, IInv, LockInv, Lanes
    <2>3. BodyInv'
        <3>1. handed = 0
            BY <1>2 DEF IInv, BodyInv
        <3>2. ~reusable' /\ reused' \in BOOLEAN /\ selected_schema' # "none"
            BY <1>1, <1>2, <1>4, <2>1 DEF IInv, BodyInv
        <3>3. CASE Other = "fast"
            <4>1. reused' = TRUE
                BY <1>4, <3>3
            <4>2. handed' = handed + 1
                BY <1>4, <3>3
            <4> QED
                BY <3>1, <3>2, <4>1, <4>2 DEF BodyInv
        <3>4. CASE Other # "fast"
            <4>1. reused' = FALSE /\ handed' = 0
                BY <1>4, <3>1, <3>4
            <4> QED
                BY <3>2, <4>1 DEF BodyInv
        <3> QED
            BY <3>3, <3>4
    <2> QED
        BY <2>2, <2>3 DEF Good, IInv
<1> QED
    BY <1>3, <1>4 DEF OtherEnds

LEMMA OtherTakesSystemBodyKeeps ==
    ASSUME IInv, OtherTakesSystemBody
    PROVE  Good
BY DEF Good, StoredStays, IInv, LockInv, BodyInv, OtherTakesSystemBody, Other, Lanes, Discovering, Bootstrapped, crawlVars

LEMMA NewCycleKeeps ==
    ASSUME IInv, NewCycle
    PROVE  Good
BY DEF Good, StoredStays, IInv, LockInv, BodyInv, NewCycle, Lanes, Discovering, Bootstrapped, crawlVars

LEMMA StutterKeeps ==
    ASSUME IInv, UNCHANGED vars
    PROVE  Good
BY DEF Good, StoredStays, IInv, LockInv, BodyInv, vars, cycleVars, crawlVars

LEMMA StepKeeps ==
    ASSUME IInv, [Next]_vars
    PROVE  Good
BY JobBeginsKeeps, BeginDiscoveryKeeps, UseBootstrapKeeps, GotServiceRootKeeps, GotSystemsKeeps,
   GotSystemKeeps, GotChassisKeeps, GotChassisCaptureKeeps, GotManagerKeeps, DiscoveryRaisesKeeps,
   StartCollectingKeeps, CollectV2Keeps, CollectLegacyKeeps, JobEndsKeeps, CancelKeeps,
   OtherDiscoversKeeps, OtherEndsKeeps, OtherTakesSystemBodyKeeps, NewCycleKeeps, StutterKeeps
   DEF Next, Job

-----------------------------------------------------------------------------

\* The inductive invariant: who discovers has the bootstrap lock and finds nothing
\* stored, and the System body is there until it is handed out.
THEOREM Invariance == Spec => []IInv
<1>1. IInv /\ [Next]_vars => IInv'
    BY StepKeeps DEF Good
<1> QED
    BY InitEstablishes, <1>1, PTL DEF Spec

\* The System body that a discovery has fetched serves one job of its cycle, a Fast
\* one, whatever fails and in whichever order the jobs of the two lanes run
\* (bootstrap_system_reused).
THEOREM SystemBodyServesOneJob == Spec => []SystemBodyIsUsedOnce
<1>1. IInv => SystemBodyIsUsedOnce
    BY DEF IInv, BodyInv, SystemBodyIsUsedOnce
<1> QED
    BY Invariance, <1>1, PTL

\* The jobs of a cycle work by one discovery: no other overwrites what is stored,
\* since who discovers holds the lock and began when nothing was (bootstrap_lock).
THEOREM LanesShareADiscovery == Spec => OneDiscoveryPerCycle
<1> DEFINE Step == /\ selected_schema # "none" /\ selected_schema' # "none" =>
                        selected_schema' = selected_schema /\ bootstrap_ctx' = bootstrap_ctx
                   /\ (selected_schema # "none") <=> ("system_uri" \in bootstrap_ctx)
                   /\ stage \in Discovering => lock = lane /\ selected_schema = "none"
<1>1. IInv /\ [Next]_vars => [Step]_vars
    BY StepKeeps DEF Good, StoredStays, IInv, LockInv, Lanes
<1> QED
    BY Invariance, <1>1, PTL DEF Spec, OneDiscoveryPerCycle

-----------------------------------------------------------------------------
(* The crawl of a v1 schema                                                *)

\* A job collects by a v1 schema what LegacyCrawl says, begins with nothing and
\* leaves nothing.
LEMMA LegacyKept ==
    ASSUME LegacyInv, [Next]_vars
    PROVE  LegacyInv'
<1>1. ASSUME UNCHANGED legacyVars
      PROVE  LegacyInv'
    BY <1>1, LegacyStays
<1>2. ASSUME JobOver
      PROVE  LegacyInv'
    BY <1>2, NoLegacyEstablishes DEF JobOver
<1>3. ASSUME JobBegins \/ BeginDiscovery \/ UseBootstrap
      PROVE  LegacyInv'
    BY <1>1, <1>3 DEF JobBegins, BeginDiscovery, UseBootstrap
<1>4. ASSUME GotServiceRoot \/ GotSystems \/ GotSystem \/ GotChassis \/ GotChassisCapture \/ GotManager \/ DiscoveryRaises
      PROVE  LegacyInv'
    <2>1. GiveUp => LegacyInv'
        BY <1>2 DEF GiveUp
    <2>2. (\E next, found : Discovered(next, found)) => UNCHANGED legacyVars
        BY DEF Discovered
    <2>3. CASE GotServiceRoot
        BY <1>1, <2>2, <2>3 DEF GotServiceRoot
    <2>4. CASE GotSystems
        BY <1>1, <2>1, <2>2, <2>4 DEF GotSystems
    <2>5. CASE GotSystem
        BY <1>1, <2>1, <2>2, <2>5 DEF GotSystem
    <2>6. CASE GotChassis
        BY <1>1, <2>2, <2>6 DEF GotChassis
    <2>7. CASE GotChassisCapture
        BY <1>1, <2>2, <2>7 DEF GotChassisCapture
    <2>8. CASE GotManager
        BY <1>1, <2>1, <2>8 DEF GotManager
    <2>9. CASE DiscoveryRaises
        BY <2>1, <2>9 DEF DiscoveryRaises
    <2> QED
        BY <1>4, <2>3, <2>4, <2>5, <2>6, <2>7, <2>8, <2>9
<1>5. ASSUME StartCollecting
      PROVE  LegacyInv'
    <2>1. LaneBegins \/ NoServerId \/ UNCHANGED legacyVars
        BY <1>5 DEF StartCollecting, Collect
    <2> QED
        BY <1>1, <2>1, LaneBeginsKeeps, NoServerIdKeeps
<1>6. ASSUME CollectV2
      PROVE  LegacyInv'
    BY <1>1, <1>6 DEF CollectV2
<1>7. ASSUME CollectLegacy
      PROVE  LegacyInv'
    BY <1>7, LegacyStepKeeps DEF CollectLegacy
<1>8. ASSUME JobEnds \/ Cancel
      PROVE  LegacyInv'
    BY <1>2, <1>8, LaneCancelledKeeps DEF JobEnds, Cancel
<1>9. ASSUME OtherDiscovers \/ OtherEnds \/ OtherTakesSystemBody \/ NewCycle \/ UNCHANGED vars
      PROVE  LegacyInv'
    BY <1>1, <1>9 DEF OtherDiscovers, OtherEnds, OtherTakesSystemBody, NewCycle, vars
<1> QED
    BY <1>3, <1>4, <1>5, <1>6, <1>7, <1>8, <1>9 DEF Next, Job

\* The invariant of a v1 crawl: what is under way at a level is of the batch that
\* level is at, and nothing is under way at a level above one that winds up.
THEOREM LegacyInvariance == Spec => []LegacyInv
<1>1. Init => LegacyInv
    BY LegacyInitEstablishes DEF Init
<1>2. LegacyInv /\ [Next]_vars => LegacyInv'
    BY LegacyKept
<1> QED
    BY <1>1, <1>2, PTL DEF Spec

\* A gather leaves nothing under way behind it, and never more than a batch, for
\* any number of components and records, whatever fails or is cancelled first
\* (bounded_gather).
THEOREM GathersLeaveNothing == Spec => []NothingLeftInFlight
BY LegacyInvariance, NothingIsLeft, PTL

-----------------------------------------------------------------------------
(* The crawl of a vendor schema                                            *)

\* A job that is not collecting has no crawl.
CrawlOfJob ==
    /\ stage = "v2" => Crawling /\ outcome = "running" /\ WithinBudget /\ Gathered
    /\ stage = "returned" => NothingToCrawl \/ (Crawling /\ WithinBudget /\ Gathered)
    /\ stage \notin {"v2", "returned"} => Untouched /\ outcome = "none"

\* While there is no crawl, whatever else goes on.
LEMMA StillNoCrawl ==
    ASSUME CrawlOfJob, UNCHANGED crawlVars, stage \notin {"v2", "returned"}, stage' \notin {"v2", "returned"}
    PROVE  CrawlOfJob'
BY DEF CrawlOfJob, Untouched, crawlVars

LEMMA CrawlKept ==
    ASSUME IInv, CrawlOfJob, [Next]_vars
    PROVE  CrawlOfJob'
<1>1. ASSUME UNCHANGED <<lane, bootstrap_ctx, crawlVars, stage>>
      PROVE  CrawlOfJob'
    <2>1. /\ (Crawling => Crawling') /\ (NothingToCrawl => NothingToCrawl') /\ (WithinBudget => WithinBudget')
          /\ outcome' = outcome /\ (Gathered => Gathered')
        BY <1>1, CrawlStays, CostStays, GatheredStays DEF givenVars, crawlVars
    <2>2. CASE stage \in {"v2", "returned"}
        BY <1>1, <2>1, <2>2 DEF CrawlOfJob
    <2>3. CASE stage \notin {"v2", "returned"}
        BY <1>1, <2>3, StillNoCrawl
    <2> QED
        BY <2>2, <2>3
<1>2. ASSUME JobOver
      PROVE  CrawlOfJob'
    <2>1. Untouched' /\ outcome' = "none" /\ stage' = "idle"
        BY <1>2, NoCrawlEstablishes DEF JobOver
    <2> QED
        BY <2>1 DEF CrawlOfJob
<1>3. ASSUME JobBegins \/ BeginDiscovery \/ UseBootstrap
      PROVE  CrawlOfJob'
    BY <1>3, StillNoCrawl DEF JobBegins, BeginDiscovery, UseBootstrap
<1>4. ASSUME GotServiceRoot \/ GotSystems \/ GotSystem \/ GotChassis \/ GotChassisCapture \/ GotManager \/ DiscoveryRaises
      PROVE  CrawlOfJob'
    <2>1. GiveUp => CrawlOfJob'
        BY <1>2 DEF GiveUp
    <2>2. ASSUME stage \notin {"v2", "returned"}, NEW next, next \notin {"v2", "returned"}, NEW found, Discovered(next, found)
          PROVE  CrawlOfJob'
        BY <2>2, StillNoCrawl DEF Discovered
    <2>3. CASE GotServiceRoot
        BY <2>2, <2>3 DEF GotServiceRoot
    <2>4. CASE GotSystems
        BY <2>1, <2>2, <2>4 DEF GotSystems
    <2>5. CASE GotSystem
        BY <2>1, <2>2, <2>5 DEF GotSystem, AfterSystem
    <2>6. CASE GotChassis
        BY <2>2, <2>6 DEF GotChassis
    <2>7. CASE GotChassisCapture
        BY <2>2, <2>7 DEF GotChassisCapture
    <2>8. CASE GotManager
        BY <2>1, <2>8, StillNoCrawl DEF GotManager
    <2>9. CASE DiscoveryRaises
        BY <2>1, <2>9 DEF DiscoveryRaises
    <2> QED
        BY <1>4, <2>3, <2>4, <2>5, <2>6, <2>7, <2>8, <2>9
<1>5. ASSUME StartCollecting
      PROVE  CrawlOfJob'
    <2> DEFINE first == lane = "fast" /\ ~reused
    <2>1. stage = "bootstrapped" /\ Collect(first) /\ UNCHANGED <<lane, bootstrap_ctx>>
        BY <1>5 DEF StartCollecting
    <2> HIDE DEF first
    <2>2. CASE selected_schema = "v2"
        <3>1. /\ CrawlBegins(lane, bootstrap_ctx, first)
              /\ stage' = IF LaneResources[lane] = <<>> THEN "returned" ELSE "v2"
            BY <2>1, <2>2 DEF Collect
        <3>2. lane \in {"fast", "slow"} /\ UNCHANGED givenVars
            BY <2>1 DEF givenVars, IInv, LockInv, Lanes
        <3>3. IF LaneResources[lane] = <<>> THEN NothingToCrawl' ELSE Crawling' /\ outcome' = "running"
            BY <3>1, <3>2, CrawlBeginsEstablishes
        <3>4. LaneResources[lane] # <<>> => WithinBudget'
            BY <3>1, <3>2, CrawlBeginsCosts
        <3>5. Gathered'
            BY <3>1, NothingGathered
        <3> QED
            BY <3>1, <3>3, <3>4, <3>5 DEF CrawlOfJob
    <2>3. CASE selected_schema # "v2"
        BY <2>1, <2>3, StillNoCrawl DEF Collect
    <2> QED
        BY <2>2, <2>3
<1>6. ASSUME CollectV2
      PROVE  CrawlOfJob'
    <2>1. stage = "v2" /\ CrawlStep /\ stage' = IF outcome' = "running" THEN "v2" ELSE "returned"
        BY <1>6 DEF CollectV2
    <2>2. Crawling' /\ WithinBudget' /\ Gathered'
        BY <1>6, <2>1, CrawlStepEstablishes, CrawlStepCosts, CrawlStepGathers DEF CrawlOfJob
    <2> QED
        BY <2>1, <2>2 DEF CrawlOfJob
<1>7. ASSUME CollectLegacy
      PROVE  CrawlOfJob'
    BY <1>1, <1>7 DEF CollectLegacy
<1>8. ASSUME JobEnds \/ Cancel
      PROVE  CrawlOfJob'
    BY <1>1, <1>2, <1>8 DEF JobEnds, Cancel
<1>9. ASSUME OtherDiscovers \/ OtherTakesSystemBody \/ UNCHANGED vars
      PROVE  CrawlOfJob'
    BY <1>1, <1>9 DEF OtherDiscovers, OtherTakesSystemBody, vars
<1>10. ASSUME OtherEnds
       PROVE  CrawlOfJob'
    <2>1. stage \notin {"v2", "returned"}    \* nobody has a bootstrap while another discovers
        BY <1>10 DEF OtherEnds, IInv, LockInv, Other, Lanes, Bootstrapped
    <2> QED
        BY <1>10, <2>1, StillNoCrawl DEF OtherEnds
<1>11. ASSUME NewCycle
       PROVE  CrawlOfJob'
    BY <1>11, StillNoCrawl DEF NewCycle
<1> QED
    BY <1>3, <1>4, <1>5, <1>6, <1>7, <1>8, <1>9, <1>10, <1>11 DEF Next, Job

LEMMA CrawlOfJobHolds == Spec => [](IInv /\ CrawlOfJob)
<1>1. Init => CrawlOfJob
    BY NoCrawlEstablishes DEF Init, CrawlOfJob
<1>2. IInv /\ CrawlOfJob /\ [Next]_vars => CrawlOfJob'
    BY CrawlKept
<1> QED
    BY Invariance, <1>1, <1>2, PTL DEF Spec

\* The invariant of a crawl by a vendor schema, whatever the other lane does
\* meanwhile: what is still to execute is what the tree lacks, and knows the
\* captures of the records it is below.
THEOREM CrawlInvariance == Spec => []CrawlInv
<1>1. CrawlOfJob => CrawlInv
    BY DEF CrawlOfJob, CrawlInv, NothingToCrawl
<1> QED
    BY CrawlOfJobHolds, <1>1, PTL

\* The fetches of a job never exceed what the bounds of its schema give, for any schema,
\* however the BMC links and pages its collections and whatever strategy fails: what is
\* still on the agenda is paid for by what is left of the budget (execute_resource,
\* execute_children).
THEOREM CrawlStaysWithinBudget == Spec => []CrawlWithinBudget
<1>1. ASSUME IInv, CrawlOfJob
      PROVE  CrawlWithinBudget
    <2>1. lane \in {"fast", "slow"}
        BY <1>1 DEF IInv, LockInv, Lanes
    <2>2. (Crawling /\ WithinBudget) \/ fetches = 0
        BY <1>1 DEF CrawlOfJob, NothingToCrawl, Untouched
    <2> QED
        BY <2>1, <2>2, BudgetFollows
<1>2. IInv /\ CrawlOfJob => CrawlWithinBudget
    BY <1>1
<1> QED
    BY CrawlOfJobHolds, <1>2, PTL

\* A record was fetched from what it belongs to, for any schema, any nesting and any
\* answers: a capture is that of its nearest ancestor which declares it, never of a
\* sibling or of another subtree (child_context).
THEOREM LineageStays == Spec => []LineageIsKept
BY CrawlInvariance, LineageFollows, PTL

\* A collection of the tree has a record of every member its pages listed, up to
\* MaxMembers, that is an object or a link, in their order, and none of a strategy
\* that failed before, for any pages, members and failures (execute_resource,
\* _execute_collection).
THEOREM CollectionsStayWhole == Spec => []CollectionsAreWhole
<1>1. CrawlOfJob => CollectionsAreWhole
    BY CollectionsFollow DEF CrawlOfJob, NothingToCrawl
<1> QED
    BY CrawlOfJobHolds, <1>1, PTL

\* The types of a job, its two crawls and its cycle: a resource in the tree is below
\* a record that is there, and the pages of a strategy never exceed MaxPages.
THEOREM TypeCorrect == Spec => []TypeOK
<1>1. IInv /\ LegacyInv /\ CrawlInv => TypeOK
    BY CrawlTypesFollow, LegacyTypes DEF TypeOK, IInv, LockInv, BodyInv, Bootstrapped
<1> QED
    BY Invariance, LegacyInvariance, CrawlInvariance, <1>1, PTL

=============================================================================

------------------------ MODULE TargetRegistryProofs ------------------------
(***************************************************************************)
(* Theorems about TargetRegistry: what is registered stays registered as   *)
(* long as something depends on it, the totals are what they count, lanes  *)
(* only get newer, scrapes wait for what will come, the cache serves what  *)
(* is current, and the cycles are those of TargetCycle.                    *)
(***************************************************************************)
EXTENDS TargetRegistry, Counting, Sequences

-----------------------------------------------------------------------------
(* The operations of the cache *)

\* The entries of a cache, which lists them.
Entries(c) == {c.entries[i] : i \in DOMAIN c.entries}

Listed(c) == \E n \in Nat : c.entries \in [1 .. n -> Entries(c)]

\* The instance counts as everybody does.
LEMMA SameCardinality == \A S : Cache!Cardinality(S) = Cardinality(S)
BY Zenon DEF Cache!Cardinality, Cardinality

\* What an operation of the cache calls the entries of a key, or expired.
LEMMA EntriesOfKey ==
    ASSUME NEW c, NEW k
    PROVE  /\ Cache!EntriesOf(c, k) = {e \in Entries(c) : e.key = k}
           /\ \A t : Cache!Expired(c, t) = {e \in Entries(c) : t > e.expires_at}
BY DEF Cache!EntriesOf, Cache!Expired, Cache!ToSet, Entries

\* Removing entries leaves only others, in a list.
LEMMA WithoutKeepsOthers ==
    ASSUME NEW c, Listed(c), NEW gone
    PROVE  /\ Listed(Cache!Without(c, gone))
           /\ Entries(Cache!Without(c, gone)) \subseteq Entries(c) \ gone
<1> DEFINE leaving == {i \in DOMAIN c.entries : c.entries[i] \in gone}
           staying == DOMAIN c.entries \ leaving
           m == Cache!Cardinality(staying)
           Rank(i) == Cache!Cardinality({j \in staying : j <= i})
           left == [p \in 1 .. m |-> c.entries[CHOOSE i \in staying : Rank(i) = p]]
<1>1. PICK n \in Nat : c.entries \in [1 .. n -> Entries(c)]
    BY DEF Listed
<1>2. DOMAIN c.entries = 1 .. n
    BY <1>1
<1>3. Cache!Without(c, gone).entries = left
    BY DEF Cache!Without, Cache!Subsequence
<1>4. staying \in SUBSET (1 .. n)
    BY <1>2
<1>5. \A i \in staying : c.entries[i] \in Entries(c) \ gone
    BY <1>2 DEF Entries
<1> HIDE DEF staying
<1>6. m \in Nat
    <2>1. IsFiniteSet(1 .. n)
        BY FS_Interval
    <2>2. IsFiniteSet(staying)
        BY <1>4, <2>1, FS_Subset
    <2> QED
        BY <2>2, FS_CardinalityType, SameCardinality
<1>7. \A p \in 1 .. m : \E i \in staying : Rank(i) = p
    <2>1. m = Cardinality(staying) /\ \A i : Rank(i) = Cardinality(UpTo(staying, i))
        BY SameCardinality, Zenon DEF UpTo
    <2> HIDE DEF Rank, m
    <2>2. \A p \in 1 .. Cardinality(staying) : \E i \in staying : Cardinality(UpTo(staying, i)) = p
        BY <1>4, EveryRankIsTaken
    <2> QED
        BY <2>1, <2>2
<1> HIDE DEF Rank, m
<1>8. \A p \in 1 .. m : left[p] \in Entries(c) \ gone
    BY <1>5, <1>7
<1>9. DOMAIN left = 1 .. m /\ left = [p \in 1 .. m |-> left[p]]
    OBVIOUS
<1> HIDE DEF left
<1>10. Entries(Cache!Without(c, gone)) \subseteq Entries(c) \ gone
    BY <1>3, <1>8, <1>9 DEF Entries
<1>11. \A p \in 1 .. m : left[p] \in Entries(Cache!Without(c, gone))
    BY <1>3, <1>9 DEF Entries
<1>12. Listed(Cache!Without(c, gone))
    BY <1>3, <1>6, <1>9, <1>11 DEF Listed
<1> QED
    BY <1>10, <1>12

\* What is put is added, and what was of its key is gone.
LEMMA PutAddsOne ==
    ASSUME NEW c, Listed(c), NEW e, NEW t
    PROVE  /\ Listed(Cache!Put(c, e, t))
           /\ \A f \in Entries(Cache!Put(c, e, t)) : f = e \/ f \in Entries(c)
<1> DEFINE old == Cache!Invalidate(c, e.key)
           recent == Cache!Without(old, Cache!Expired(old, t))
           roomy == Cache!MadeRoom(recent, e.size)
<1>1. Listed(old) /\ Entries(old) \subseteq Entries(c)
    BY WithoutKeepsOthers DEF Cache!Invalidate
<1> HIDE DEF old
<1>2. Listed(recent) /\ Entries(recent) \subseteq Entries(old)
    BY <1>1, WithoutKeepsOthers
<1> HIDE DEF recent
<1>3. \E gone : roomy = Cache!Without(recent, gone)
    BY DEF Cache!MadeRoom
<1> HIDE DEF roomy
<1>4. Listed(roomy) /\ Entries(roomy) \subseteq Entries(recent)
    BY <1>2, <1>3, WithoutKeepsOthers
<1>5. PICK n \in Nat : roomy.entries \in [1 .. n -> Entries(roomy)]
    BY <1>4 DEF Listed
<1> DEFINE new == [entries |-> Append(roomy.entries, e), total_bytes |-> roomy.total_bytes + e.size]
<1>6. /\ new.entries \in [1 .. n + 1 -> Entries(roomy) \cup {e}]
      /\ \A i \in 1 .. n : new.entries[i] = roomy.entries[i]
      /\ new.entries[n + 1] = e
    <2>1. roomy.entries \in Seq(Entries(roomy)) /\ Len(roomy.entries) = n
        BY <1>5
    <2>2. new.entries = [i \in 1 .. n + 1 |-> IF i = n + 1 THEN e ELSE roomy.entries[i]]
        BY <1>5, <2>1
    <2>3. \A i \in 1 .. n + 1 : i # n + 1 => i \in 1 .. n
        OBVIOUS
    <2> HIDE DEF new
    <2> QED
        BY <1>5, <2>2, <2>3
<1> HIDE DEF new
<1>7. \A f \in Entries(new) : f = e \/ f \in Entries(roomy)
    BY <1>6 DEF Entries
<1>8. Listed(new)
    BY <1>6 DEF Listed, Entries
<1>9. Cache!Put(c, e, t) = IF e.size > max_entries THEN c ELSE new
    BY DEF Cache!Put, new, roomy, recent, old
<1> QED
    BY <1>1, <1>2, <1>4, <1>7, <1>8, <1>9
-----------------------------------------------------------------------------
(* The invariant *)

\* A registry has its four fields.
Shaped(r) ==
    /\ r = [targets |-> r.targets,
            total_snapshot_bytes_used |-> r.total_snapshot_bytes_used,
            response_cache |-> r.response_cache,
            bmc_coordinators |-> r.bmc_coordinators]
    /\ r.targets \in [Keys -> Objects \cup {None}]
    /\ r.total_snapshot_bytes_used \in Nat
    /\ r.bmc_coordinators \in [Bmcs -> Coordinators \cup {None}]
    /\ Listed(r.response_cache)

\* A registered target is that of its key.  Whatever has a cycle is registered, and
\* its coordinator is the one that is registered for its BMC.
TargetsAgree ==
    /\ \A k \in Keys : registry.targets[k] # None => target[registry.targets[k]].key = k
    /\ \A o \in Objects : target[o].phase # "none" =>
          /\ target[o].key \in Keys
          /\ registry.targets[target[o].key] = o
          /\ target[o].coordinator # None
          /\ target[o].coordinator = registry.bmc_coordinators[BmcOf[target[o].key]]

\* A job that is not late belongs to a cycle, alone with its lane, and has read
\* what the lane state still is.  A coordinator with a request in flight is
\* registered.
JobsAgree ==
    \A j \in jobs :
        /\ ~j.late =>
              /\ target[j.target].phase # "none"
              /\ j.coordinator = target[j.target].coordinator
              /\ j.read = target[j.target].lane[j.lane]
              /\ \A i \in jobs : ~i.late /\ i.target = j.target /\ i.lane = j.lane => i = j
        /\ j.fetching => \E b \in Bmcs : registry.bmc_coordinators[b] = j.coordinator

\* A scrape waits for the target of its key, which has a cycle.
ScrapesAgree ==
    \A s \in Scrapes :
        /\ scrapes[s].stage # "idle" => scrapes[s].target \in Objects /\ scrapes[s].key \in Keys
        /\ scrapes[s].stage \in {"waiting", "woken"} =>
              /\ target[scrapes[s].target].phase # "none"
              /\ target[scrapes[s].target].key = scrapes[s].key

BytesAreFinite == IsFiniteSet(SnapshotBytes(Registered(registry)))

IInv ==
    /\ TypeOK
    /\ Shaped(registry)
    /\ TargetsAgree
    /\ JobsAgree
    /\ ScrapesAgree
    /\ NoScrapeWaitsInVain
    /\ AccountsAreTrue
    /\ BytesAreFinite

-----------------------------------------------------------------------------
(* What does not touch the registry *)

\* The targets and coordinators that are registered are those that were.
SamePlaces ==
    /\ Shaped(registry')
    /\ registry'.targets = registry.targets
    /\ registry'.bmc_coordinators = registry.bmc_coordinators

\* No target changes its key, opens or ends a cycle or changes its coordinator.
SameCycles ==
    \A o \in Objects :
        /\ target'[o].key = target[o].key
        /\ target'[o].phase # "none" <=> target[o].phase # "none"
        /\ target'[o].coordinator = target[o].coordinator

SameLanes == \A o \in Objects : target'[o].lane = target[o].lane

SameBytes ==
    /\ registry'.total_snapshot_bytes_used = registry.total_snapshot_bytes_used
    /\ SameLanes

SameAdmissions ==
    /\ active_and_pending' = active_and_pending
    /\ \A s \in Scrapes : scrapes'[s].stage # "idle" <=> scrapes[s].stage # "idle"

\* Where no target moves and no cycle begins or ends, targets go on to agree.
LEMMA TargetsStay ==
    ASSUME IInv, SamePlaces, SameCycles
    PROVE  TargetsAgree'
BY TargetRegistryAssumption DEF IInv, TypeOK, TargetsAgree, SamePlaces, SameCycles

\* What is registered are objects.
LEMMA RegisteredAreObjects ==
    ASSUME NEW r, r.targets \in [Keys -> Objects \cup {None}]
    PROVE  Registered(r) = {r.targets[k] : k \in Keys} \ {None} /\ Registered(r) \subseteq Objects
BY DEF Registered

\* None is neither an object nor a coordinator nor a key.
LEMMA NoneIsNoObject == None \notin Objects /\ None \notin Coordinators /\ None \notin Keys
BY TargetRegistryAssumption DEF Objects, Coordinators

\* Where no lane changes, the bytes are the same.
LEMMA BytesStay ==
    ASSUME IInv, SamePlaces, SameLanes
    PROVE  SnapshotBytes(Registered(registry))' = SnapshotBytes(Registered(registry))
<1>1. Registered(registry)' = Registered(registry)
    BY DEF SamePlaces, Registered
<1>2. Registered(registry) \subseteq Objects
    BY RegisteredAreObjects DEF IInv, Shaped
<1>3. \A o \in Registered(registry), l \in Lanes : target'[o].lane[l] = target[o].lane[l]
    BY <1>2 DEF SameLanes
<1> QED
    BY <1>1, <1>3 DEF SnapshotBytes

\* Where no scrape begins or ends, the same are under way.
LEMMA AdmissionsStay ==
    ASSUME SameAdmissions
    PROVE  {s \in Scrapes : scrapes'[s].stage # "idle"} = {s \in Scrapes : scrapes[s].stage # "idle"}
BY DEF SameAdmissions

\* And then the accounts stay true.
LEMMA AccountsStay ==
    ASSUME IInv, SamePlaces, SameBytes, SameAdmissions
    PROVE  AccountsAreTrue' /\ BytesAreFinite'
<1>1. SnapshotBytes(Registered(registry))' = SnapshotBytes(Registered(registry))
    BY BytesStay DEF SameBytes
<1>2. {s \in Scrapes : scrapes'[s].stage # "idle"} = {s \in Scrapes : scrapes[s].stage # "idle"}
    BY AdmissionsStay
<1> QED
    BY <1>1, <1>2 DEF IInv, AccountsAreTrue, BytesAreFinite, SameBytes, SameAdmissions

\* The scrapes that wait are among those that waited, for what they waited for.
FewerWait ==
    \A s \in Scrapes :
        /\ scrapes'[s].key = scrapes[s].key
        /\ scrapes'[s].target = scrapes[s].target
        /\ scrapes'[s].stage # "idle" <=> scrapes[s].stage # "idle"
        /\ scrapes'[s].stage = "waiting" => scrapes[s].stage = "waiting"
        /\ scrapes'[s].stage = "woken" => scrapes[s].stage \in {"waiting", "woken"}

ScrapeRecord == [stage : {"idle", "waiting", "woken", "raised"},
                 key : Keys \cup {None}, target : Objects \cup {None}]

\* A lane future that is settled wakes those that wait for it, and nobody else.
LEMMA SettleAnswers ==
    ASSUME IInv, NEW o, NEW stage \in {"woken", "raised"}, Settle(o, stage)
    PROVE  /\ scrapes' \in [Scrapes -> ScrapeRecord]
           /\ FewerWait
           /\ \A s \in Scrapes : scrapes[s].target = o => scrapes'[s].stage # "waiting"
           /\ \A s \in Scrapes : scrapes'[s].stage = "woken" => scrapes[s].stage = "woken" \/ scrapes[s].target = o
           /\ stage = "raised" => \A s \in Scrapes : scrapes'[s].stage = "woken" => scrapes[s].stage = "woken"
<1>1. scrapes \in [Scrapes -> ScrapeRecord]
    BY DEF IInv, TypeOK, ScrapeRecord
<1>2. \A s \in Scrapes : scrapes'[s] =
        IF scrapes[s].stage = "waiting" /\ scrapes[s].target = o
        THEN [scrapes[s] EXCEPT !.stage = stage] ELSE scrapes[s]
    BY DEF Settle
<1>3. DOMAIN scrapes' = Scrapes /\ scrapes' = [s \in Scrapes |-> scrapes'[s]]
    BY DEF Settle
<1>4. \A s \in Scrapes :
        /\ scrapes'[s] \in ScrapeRecord
        /\ scrapes'[s].key = scrapes[s].key
        /\ scrapes'[s].target = scrapes[s].target
        /\ scrapes'[s].stage = IF scrapes[s].stage = "waiting" /\ scrapes[s].target = o THEN stage ELSE scrapes[s].stage
    BY <1>1, <1>2 DEF ScrapeRecord
<1>5. scrapes' \in [Scrapes -> ScrapeRecord]
    BY <1>3, <1>4
<1> QED
    BY <1>4, <1>5 DEF FewerWait

\* Where scrapes do not move, no more wait than before.
LEMMA NobodyAnswered ==
    ASSUME IInv, UNCHANGED scrapes
    PROVE  /\ scrapes' \in [Scrapes -> ScrapeRecord]
           /\ FewerWait
BY DEF IInv, TypeOK, ScrapeRecord, FewerWait

\* Those that still wait do so for the target of their key.
LEMMA ScrapesStay ==
    ASSUME IInv, FewerWait, SameCycles
    PROVE  ScrapesAgree'
BY TargetRegistryAssumption DEF IInv, FewerWait, SameCycles, ScrapesAgree

\* What the steps of cycles and jobs have in common.
LEMMA CommonPart ==
    ASSUME IInv, SamePlaces, SameCycles, SameBytes, FewerWait, Aside,
           target' \in [Objects -> Target], jobs' \subseteq Job, scrapes' \in [Scrapes -> ScrapeRecord]
    PROVE  /\ TypeOK' /\ Shaped(registry)'
           /\ TargetsAgree' /\ ScrapesAgree' /\ AccountsAreTrue' /\ BytesAreFinite'
<1>1. SameAdmissions
    BY DEF FewerWait, SameAdmissions, Aside
<1>2. TypeOK'
    BY DEF IInv, TypeOK, SamePlaces, Shaped, Aside, ScrapeRecord
<1> QED
    BY <1>1, <1>2, TargetsStay, ScrapesStay, AccountsStay DEF SamePlaces, Shaped

\* A registry that does not change keeps its places.
LEMMA RegistryStays ==
    ASSUME IInv, UNCHANGED registry
    PROVE  SamePlaces /\ registry'.total_snapshot_bytes_used = registry.total_snapshot_bytes_used
BY DEF IInv, SamePlaces, Shaped

-----------------------------------------------------------------------------
(* The steps of a cycle *)

\* A step of the cycle of object o that keeps its key, lanes and coordinator.
LEMMA OneCycleMoves ==
    ASSUME IInv, NEW o \in Objects, NEW x \in Target, target' = [target EXCEPT ![o] = x],
           x.key = target[o].key, x.lane = target[o].lane, x.coordinator = target[o].coordinator,
           x.phase # "none" <=> target[o].phase # "none"
    PROVE  /\ target' \in [Objects -> Target] /\ SameCycles /\ SameLanes
           /\ \A p \in Objects : target'[p] = IF p = o THEN x ELSE target[p]
BY DEF IInv, TypeOK, SameCycles, SameLanes

\* A lane that is started is running now instead of requested.
LEMMA StartLaneKeeps ==
    ASSUME IInv, NEW o \in Objects, NEW l \in Lanes, StartLane(o, l)
    PROVE  IInv' /\ SameLanes
<1> DEFINE x == [target[o] EXCEPT !.requested = @ \ {l},
                                  !.slow_may = IF l = "slow" THEN "start" ELSE @]
           new == [target |-> o, lane |-> l, read |-> target[o].lane[l],
                   coordinator |-> target[o].coordinator, fetching |-> FALSE, late |-> FALSE]
<1>1. target[o] \in Target
    BY DEF IInv, TypeOK
<1>2. x \in Target /\ x.phase = target[o].phase /\ x.requested = target[o].requested \ {l}
        /\ x.key = target[o].key /\ x.lane = target[o].lane /\ x.coordinator = target[o].coordinator
    BY <1>1 DEF Target
<1>3. target' = [target EXCEPT ![o] = x] /\ jobs' = jobs \cup {new}
    BY DEF StartLane
<1>4. new \in Job /\ target[o].coordinator \in Coordinators /\ target[o].phase = "open"
    BY <1>1 DEF StartLane, Job, Target, IInv, TargetsAgree
<1>5. ~new.late /\ ~new.fetching /\ new.target = o /\ new.lane = l
        /\ new.coordinator = target[o].coordinator /\ new.read = target[o].lane[l]
    OBVIOUS
<1> HIDE DEF x, new
<1>6. /\ target' \in [Objects -> Target] /\ SameCycles /\ SameLanes
      /\ \A p \in Objects : target'[p] = IF p = o THEN x ELSE target[p]
    BY <1>2, <1>3, OneCycleMoves
<1>7. jobs' \subseteq Job /\ jobs \subseteq Job
    BY <1>3, <1>4 DEF IInv, TypeOK
<1>8. /\ TypeOK' /\ Shaped(registry)'
      /\ TargetsAgree' /\ ScrapesAgree' /\ AccountsAreTrue' /\ BytesAreFinite'
    BY <1>6, <1>7, CommonPart, NobodyAnswered, RegistryStays DEF StartLane, SameBytes
<1>9. ~Running(o, l)
    BY DEF StartLane
<1>10. JobsAgree'
    <2>1. \A j \in jobs : j.target \in Objects
        BY <1>7 DEF Job
    <2>2. \A j \in jobs : ~(~j.late /\ j.target = o /\ j.lane = l)
        BY <1>9 DEF Running, OfCycle
    <2>3. registry'.bmc_coordinators = registry.bmc_coordinators
        BY DEF StartLane
    <2> QED
        BY <1>2, <1>3, <1>4, <1>5, <1>6, <2>1, <2>2, <2>3 DEF IInv, JobsAgree, SameCycles, SameLanes
<1>11. NoScrapeWaitsInVain'
    <2>1. \A s \in Scrapes : scrapes'[s].stage = "waiting" => scrapes'[s].target \in Objects
        BY DEF StartLane, IInv, ScrapesAgree
    <2>2. \A p \in Objects : Running(p, "fast") => Running(p, "fast")'
        BY <1>3 DEF Running, OfCycle
    <2>3. l = "fast" => Running(o, "fast")'
        BY <1>3, <1>5 DEF Running, OfCycle
    <2>4. \A p \in Objects : "fast" \in target[p].requested =>
            "fast" \in target'[p].requested \/ Running(p, "fast")'
        BY <1>2, <1>6, <2>3
    <2>5. \A p \in Objects : target'[p].phase = target[p].phase
        BY <1>2, <1>6
    <2>6. scrapes' = scrapes
        BY DEF StartLane
    <2> QED
        BY <2>1, <2>2, <2>4, <2>5, <2>6 DEF IInv, NoScrapeWaitsInVain
<1> QED
    BY <1>6, <1>8, <1>10, <1>11 DEF IInv

\* The jobs that run are among those that ran.
LEMMA JobsStay ==
    ASSUME IInv, SamePlaces, SameCycles, SameLanes, jobs' \subseteq jobs
    PROVE  JobsAgree' /\ jobs' \subseteq Job
<1>1. \A j \in jobs : j.target \in Objects /\ j \in Job
    BY DEF IInv, TypeOK, Job
<1> QED
    BY <1>1 DEF IInv, JobsAgree, SamePlaces, SameCycles, SameLanes

\* The same jobs run the same lanes.
LEMMA RunningStays ==
    ASSUME jobs' = jobs
    PROVE  \A o, l : Running(o, l)' <=> Running(o, l)
BY DEF Running, OfCycle

\* A lane other than Fast is dropped, or nobody waits for this target any more.
LEMMA RefuseLaneKeeps ==
    ASSUME IInv, NEW o \in Objects, NEW l \in Lanes, RefuseLane(o, l)
    PROVE  IInv' /\ SameLanes
<1> DEFINE x == [target[o] EXCEPT !.requested = @ \ {l}]
<1>1. target[o] \in Target
    BY DEF IInv, TypeOK
<1>2. x \in Target /\ x.phase = target[o].phase /\ x.requested = target[o].requested \ {l}
        /\ x.key = target[o].key /\ x.lane = target[o].lane /\ x.coordinator = target[o].coordinator
    BY <1>1 DEF Target
<1>3. target' = [target EXCEPT ![o] = x] /\ jobs' = jobs
    BY DEF RefuseLane
<1> HIDE DEF x
<1>4. /\ target' \in [Objects -> Target] /\ SameCycles /\ SameLanes
      /\ \A p \in Objects : target'[p] = IF p = o THEN x ELSE target[p]
    BY <1>2, <1>3, OneCycleMoves
<1>5. /\ scrapes' \in [Scrapes -> ScrapeRecord] /\ FewerWait
      /\ l = "fast" => \A s \in Scrapes : scrapes[s].target = o => scrapes'[s].stage # "waiting"
    BY SettleAnswers, NobodyAnswered DEF RefuseLane, SettleLane
<1>6. JobsAgree' /\ jobs' \subseteq Job
    BY <1>3, <1>4, JobsStay, RegistryStays DEF RefuseLane
<1>7. /\ TypeOK' /\ Shaped(registry)'
      /\ TargetsAgree' /\ ScrapesAgree' /\ AccountsAreTrue' /\ BytesAreFinite'
    BY <1>4, <1>5, <1>6, CommonPart, RegistryStays DEF RefuseLane, SameBytes
<1>8. NoScrapeWaitsInVain'
    <2>1. \A s \in Scrapes : scrapes'[s].stage = "waiting" =>
            /\ scrapes[s].stage = "waiting"
            /\ scrapes'[s].target = scrapes[s].target
            /\ scrapes[s].target \in Objects
            /\ l = "fast" => scrapes[s].target # o
        BY <1>5 DEF IInv, ScrapesAgree, FewerWait
    <2>2. \A p \in Objects : target'[p].phase = target[p].phase
        BY <1>2, <1>4
    <2>3. \A p \in Objects : (l = "fast" => p # o) => ("fast" \in target[p].requested => "fast" \in target'[p].requested)
        BY <1>2, <1>4 DEF Lanes
    <2> QED
        BY <1>3, <2>1, <2>2, <2>3, RunningStays DEF IInv, NoScrapeWaitsInVain
<1> QED
    BY <1>4, <1>6, <1>7, <1>8 DEF IInv

\* The phase of a cycle moves on, but the cycle is still there.
LEMMA PhaseKeeps ==
    ASSUME IInv, NEW o \in Objects, NEW next \in Phases \ {"none"},
           target[o].phase \notin {"none", "closing"}, target' = [target EXCEPT ![o].phase = next],
           UNCHANGED <<registry, jobs, scrapes>>, Aside
    PROVE  IInv' /\ SameLanes
<1> DEFINE x == [target[o] EXCEPT !.phase = next]
<1>1. target[o] \in Target
    BY DEF IInv, TypeOK
<1>2. x \in Target /\ x.phase = next /\ x.requested = target[o].requested
        /\ x.key = target[o].key /\ x.lane = target[o].lane /\ x.coordinator = target[o].coordinator
    BY <1>1 DEF Target
<1>3. target' = [target EXCEPT ![o] = x]
    OBVIOUS
<1> HIDE DEF x
<1>4. /\ target' \in [Objects -> Target] /\ SameCycles /\ SameLanes
      /\ \A p \in Objects : target'[p] = IF p = o THEN x ELSE target[p]
    BY <1>2, <1>3, OneCycleMoves
<1>5. JobsAgree' /\ jobs' \subseteq Job
    BY <1>4, JobsStay, RegistryStays
<1>6. /\ TypeOK' /\ Shaped(registry)'
      /\ TargetsAgree' /\ ScrapesAgree' /\ AccountsAreTrue' /\ BytesAreFinite'
    BY <1>4, <1>5, CommonPart, NobodyAnswered, RegistryStays DEF SameBytes
<1>7. NoScrapeWaitsInVain'
    <2>1. \A s \in Scrapes : scrapes[s].stage = "waiting" => scrapes[s].target \in Objects
        BY DEF IInv, ScrapesAgree
    <2>2. \A p \in Objects :
            /\ target[p].phase = "closing" => target'[p].phase = "closing"
            /\ target[p].phase # "none" => target'[p].phase # "none"
            /\ target'[p].requested = target[p].requested
        BY <1>2, <1>4
    <2> QED
        BY <2>1, <2>2, RunningStays DEF IInv, NoScrapeWaitsInVain
<1> QED
    BY <1>4, <1>5, <1>6, <1>7 DEF IInv

\* A cycle that runs out of time is still a cycle.
LEMMA TimePassesKeeps ==
    ASSUME IInv, NEW o \in Objects, TimePasses(o)
    PROVE  IInv' /\ SameLanes
<1>1. target[o].phase \in {"open", "late"}
    BY DEF TimePasses
<1>2. PICK next \in {"late", "expired"} : target' = [target EXCEPT ![o].phase = next]
    BY DEF TimePasses
<1> QED
    BY <1>1, <1>2, PhaseKeeps DEF TimePasses, Phases

\* So is one that closes.
LEMMA CycleClosesKeeps ==
    ASSUME IInv, NEW o \in Objects, CycleCloses(o)
    PROVE  IInv' /\ SameLanes
BY PhaseKeeps DEF CycleCloses, Phases

\* The jobs of the cycle are late now, and nobody waits for its lanes.
LEMMA CycleGoneKeeps ==
    ASSUME IInv, NEW o \in Objects, CycleGone(o)
    PROVE  IInv' /\ SameLanes
<1> DEFINE x == [target[o] EXCEPT !.phase = "none", !.requested = {},
                                  !.slow_may = "follow", !.coordinator = None]
<1>1. target[o] \in Target /\ target[o].phase = "closing"
    BY DEF IInv, TypeOK, CycleGone
<1>2. x \in Target /\ x.phase = "none" /\ x.key = target[o].key /\ x.lane = target[o].lane
    BY <1>1 DEF Target, Phases
<1>3. target' = [target EXCEPT ![o] = x]
    BY DEF CycleGone
<1> HIDE DEF x
<1>4. /\ target' \in [Objects -> Target] /\ SameLanes
      /\ \A p \in Objects : target'[p] = IF p = o THEN x ELSE target[p]
    BY <1>2, <1>3 DEF IInv, TypeOK, SameLanes
<1>5. jobs \subseteq Job /\ \A j \in jobs : j.target \in Objects
    BY DEF IInv, TypeOK, Job
<1>6. jobs' = {IF OfCycle(j, o) THEN [j EXCEPT !.late = TRUE] ELSE j : j \in jobs}
    BY DEF CycleGone
<1>7. \A j \in jobs' : /\ j \in Job
                       /\ ~j.late => j \in jobs /\ j.target # o
                       /\ \E i \in jobs : i.fetching = j.fetching /\ i.coordinator = j.coordinator
    <2>1. ASSUME NEW j \in jobs' PROVE j \in Job /\ (~j.late => j \in jobs /\ j.target # o)
                /\ \E i \in jobs : i.fetching = j.fetching /\ i.coordinator = j.coordinator
        <3>1. PICK i \in jobs : j = IF OfCycle(i, o) THEN [i EXCEPT !.late = TRUE] ELSE i
            BY <1>6, <2>1
        <3> QED
            BY <1>5, <3>1 DEF Job, OfCycle
    <2> QED
        BY <2>1
<1>8. \A i \in jobs : i.target # o => i \in jobs'
    BY <1>6 DEF OfCycle
<1>9. /\ scrapes' \in [Scrapes -> ScrapeRecord] /\ FewerWait
      /\ \A s \in Scrapes : scrapes[s].target = o => scrapes'[s].stage \notin {"waiting", "woken"}
    BY SettleAnswers DEF CycleGone
<1>10. SamePlaces /\ registry'.total_snapshot_bytes_used = registry.total_snapshot_bytes_used
    BY RegistryStays DEF CycleGone
<1>11. SameAdmissions /\ Aside
    BY <1>9 DEF FewerWait, SameAdmissions, Aside, CycleGone
<1>12. TypeOK'
    BY <1>4, <1>7, <1>9, <1>10, <1>11 DEF IInv, TypeOK, SamePlaces, Shaped, Aside, ScrapeRecord
<1>13. TargetsAgree'
    BY <1>2, <1>4, <1>10, TargetRegistryAssumption DEF IInv, TypeOK, TargetsAgree, SamePlaces
<1>14. JobsAgree'
    BY <1>4, <1>5, <1>7, <1>10 DEF IInv, JobsAgree, SamePlaces
<1>15. ScrapesAgree' /\ \A s \in Scrapes : scrapes'[s].stage \in {"waiting", "woken"} => scrapes[s].target \in Objects \ {o}
    BY <1>4, <1>9 DEF IInv, FewerWait, ScrapesAgree
<1>16. NoScrapeWaitsInVain'
    <2>1. \A p \in Objects \ {o} : Running(p, "fast") => Running(p, "fast")'
        BY <1>8 DEF Running, OfCycle
    <2> QED
        BY <1>4, <1>9, <1>15, <2>1 DEF IInv, NoScrapeWaitsInVain, FewerWait
<1>17. AccountsAreTrue' /\ BytesAreFinite'
    BY <1>4, <1>10, <1>11, AccountsStay DEF SameBytes
<1> QED
    BY <1>4, <1>10, <1>12, <1>13, <1>14, <1>15, <1>16, <1>17 DEF IInv, SamePlaces

-----------------------------------------------------------------------------
(* The steps of a job *)

\* A fetch begins only while the cycle is there, whose coordinator is registered.
LEMMA FetchKeeps ==
    ASSUME IInv, NEW j \in jobs, Fetch(j)
    PROVE  IInv' /\ SameLanes
<1> DEFINE new == [j EXCEPT !.fetching = ~@]
<1>1. jobs \subseteq Job /\ j \in Job
    BY DEF IInv, TypeOK
<1>2. new \in Job /\ new.target = j.target /\ new.lane = j.lane /\ new.late = j.late
        /\ new.read = j.read /\ new.coordinator = j.coordinator
        /\ (new.fetching => ~j.fetching)
    BY <1>1 DEF Job
<1>3. jobs' = (jobs \ {j}) \cup {new}
    BY DEF Fetch
<1> HIDE DEF new
<1>4. jobs' \subseteq Job
    BY <1>1, <1>2, <1>3
<1>5. SamePlaces /\ registry'.total_snapshot_bytes_used = registry.total_snapshot_bytes_used /\ target' = target
    BY RegistryStays DEF Fetch
<1>6. SameCycles /\ SameLanes /\ target' \in [Objects -> Target]
    BY <1>5 DEF SameCycles, SameLanes, IInv, TypeOK
<1>7. /\ TypeOK' /\ Shaped(registry)'
      /\ TargetsAgree' /\ ScrapesAgree' /\ AccountsAreTrue' /\ BytesAreFinite'
    BY <1>4, <1>5, <1>6, CommonPart, NobodyAnswered DEF Fetch, SameBytes
<1>8. \A i \in jobs' : \E k \in jobs :
        /\ i.target = k.target /\ i.lane = k.lane /\ i.late = k.late
        /\ i.read = k.read /\ i.coordinator = k.coordinator
        /\ IF k = j THEN i = new ELSE i = k
    BY <1>2, <1>3
<1>9. new.fetching => \E b \in Bmcs : registry.bmc_coordinators[b] = j.coordinator
    <2>1. CASE j.fetching
        BY <1>2, <2>1
    <2>2. CASE ~j.fetching
        <3>1. ~j.late /\ target[j.target].phase # "none" /\ j.target \in Objects
            BY <1>1, <2>2 DEF Fetch, IsAccepting, Job
        <3>2. BmcOf[target[j.target].key] \in Bmcs
            BY <3>1, TargetRegistryAssumption DEF IInv, TargetsAgree
        <3> QED
            BY <3>1, <3>2 DEF IInv, TargetsAgree, JobsAgree
    <2> QED
        BY <2>1, <2>2
<1>10. JobsAgree'
    <2> SUFFICES ASSUME NEW i \in jobs'
                 PROVE  /\ ~i.late =>
                              /\ target[i.target].phase # "none"
                              /\ i.coordinator = target[i.target].coordinator
                              /\ i.read = target[i.target].lane[i.lane]
                              /\ \A h \in jobs' : ~h.late /\ h.target = i.target /\ h.lane = i.lane => h = i
                        /\ i.fetching => \E b \in Bmcs : registry.bmc_coordinators[b] = i.coordinator
        BY <1>5 DEF JobsAgree, SamePlaces
    <2>1. PICK k \in jobs :
            /\ i.target = k.target /\ i.lane = k.lane /\ i.late = k.late
            /\ i.read = k.read /\ i.coordinator = k.coordinator
            /\ IF k = j THEN i = new ELSE i = k
        BY <1>8
    <2>2. ~i.late => \A h \in jobs' : ~h.late /\ h.target = i.target /\ h.lane = i.lane => h = i
        BY <1>8, <2>1 DEF IInv, JobsAgree
    <2> QED
        BY <1>9, <2>1, <2>2 DEF IInv, JobsAgree
<1>11. NoScrapeWaitsInVain'
    <2>1. \A p \in Objects : Running(p, "fast") => Running(p, "fast")'
        BY <1>2, <1>3 DEF Running, OfCycle
    <2>2. scrapes' = scrapes /\ \A s \in Scrapes : scrapes[s].stage = "waiting" => scrapes[s].target \in Objects
        BY DEF IInv, ScrapesAgree, Fetch
    <2> QED
        BY <1>5, <2>1, <2>2 DEF IInv, NoScrapeWaitsInVain
<1> QED
    BY <1>6, <1>7, <1>10, <1>11 DEF IInv

SameRequests ==
    \A o \in Objects : target'[o].phase = target[o].phase /\ target'[o].requested = target[o].requested

\* A job ends and settles its lane's future: nobody waits for it any more.
LEMMA JobGone ==
    ASSUME IInv, NEW j \in jobs, NEW stage \in {"woken", "raised"}, jobs' = jobs \ {j},
           SettleLane(j.target, j.lane, stage), SameRequests
    PROVE  /\ scrapes' \in [Scrapes -> ScrapeRecord]
           /\ FewerWait
           /\ NoScrapeWaitsInVain'
<1>1. j.lane \in Lanes
    BY DEF IInv, TypeOK, Job
<1>2. /\ scrapes' \in [Scrapes -> ScrapeRecord] /\ FewerWait
      /\ j.lane = "fast" => \A s \in Scrapes : scrapes[s].target = j.target => scrapes'[s].stage # "waiting"
    BY SettleAnswers, NobodyAnswered DEF SettleLane
<1>3. \A s \in Scrapes : scrapes'[s].stage = "waiting" =>
        /\ scrapes[s].stage = "waiting"
        /\ scrapes'[s].target = scrapes[s].target
        /\ scrapes[s].target \in Objects
        /\ (j.lane = "fast" => scrapes[s].target # j.target)
    BY <1>2 DEF IInv, ScrapesAgree, FewerWait
<1>4. \A o \in Objects : (j.lane = "fast" => o # j.target) /\ Running(o, "fast") => Running(o, "fast")'
    BY DEF Running, OfCycle
<1> QED
    BY <1>2, <1>3, <1>4 DEF IInv, NoScrapeWaitsInVain, SameRequests

\* The target of a live job is registered, and its lane is as the job has read it.
LEMMA LiveJobsHaveACycle ==
    ASSUME IInv, NEW j \in jobs, is_live(j)
    PROVE  /\ ~j.late /\ j.target \in Objects /\ j.lane \in Lanes
           /\ j.read = target[j.target].lane[j.lane] /\ j.read \in LaneState
           /\ target[j.target].phase # "none"
           /\ target[j.target] \in Target
           /\ registry.targets[target[j.target].key] = j.target
           /\ target[j.target].key \in Keys
BY DEF IInv, TypeOK, JobsAgree, is_live, Job, TargetsAgree

\* A job that fails writes back what is there.
LEMMA FailKeeps ==
    ASSUME IInv, NEW j \in jobs, Fail(j)
    PROVE  IInv' /\ SameLanes
<1> DEFINE o == j.target
           x == [target[o] EXCEPT !.lane[j.lane] = failed(j.read),
                                  !.slow_may = IF j.lane = "fast" /\ @ = "follow" THEN "not" ELSE @]
<1>1. /\ ~j.late /\ j.target \in Objects /\ j.lane \in Lanes
      /\ j.read = target[j.target].lane[j.lane] /\ j.read \in LaneState
      /\ target[j.target].phase # "none"
      /\ target[j.target] \in Target
    BY LiveJobsHaveACycle DEF Fail
<1>2. x \in Target /\ x.phase = target[o].phase /\ x.requested = target[o].requested
        /\ x.key = target[o].key /\ x.coordinator = target[o].coordinator /\ x.lane = target[o].lane
    <2>1. [target[o].lane EXCEPT ![j.lane] = j.read] = target[o].lane
        BY <1>1 DEF Target
    <2> QED
        BY <1>1, <2>1 DEF Target, failed
<1>3. target' = [target EXCEPT ![o] = x] /\ jobs' = jobs \ {j} /\ SettleLane(o, j.lane, "raised")
    BY DEF Fail
<1> HIDE DEF x
<1>4. /\ target' \in [Objects -> Target] /\ SameCycles /\ SameLanes /\ SameRequests
    BY <1>1, <1>2, <1>3, OneCycleMoves DEF SameRequests
<1>5. scrapes' \in [Scrapes -> ScrapeRecord] /\ FewerWait /\ NoScrapeWaitsInVain'
    BY <1>3, <1>4, JobGone
<1>6. JobsAgree' /\ jobs' \subseteq Job
    BY <1>3, <1>4, JobsStay, RegistryStays DEF Fail
<1>7. /\ TypeOK' /\ Shaped(registry)'
      /\ TargetsAgree' /\ ScrapesAgree' /\ AccountsAreTrue' /\ BytesAreFinite'
    BY <1>4, <1>5, <1>6, CommonPart, RegistryStays DEF Fail, SameBytes
<1> QED
    BY <1>4, <1>5, <1>6, <1>7 DEF IInv

\* A job whose outcome is discarded changes nothing but its lane future.
LEMMA DiscardKeeps ==
    ASSUME IInv, NEW j \in jobs, Discard(j)
    PROVE  IInv' /\ SameLanes
<1>1. SamePlaces /\ registry'.total_snapshot_bytes_used = registry.total_snapshot_bytes_used
        /\ target' = target /\ jobs' = jobs \ {j}
    BY RegistryStays DEF Discard
<1>2. target' \in [Objects -> Target] /\ SameCycles /\ SameLanes /\ SameRequests
    BY <1>1 DEF IInv, TypeOK, SameCycles, SameLanes, SameRequests
<1>3. JobsAgree' /\ jobs' \subseteq Job
    BY <1>1, <1>2, JobsStay
<1>4. scrapes' \in [Scrapes -> ScrapeRecord] /\ FewerWait /\ NoScrapeWaitsInVain'
    <2>1. CASE ~j.late
        BY <1>1, <1>2, <2>1, JobGone DEF Discard
    <2>2. CASE j.late
        <3>1. scrapes' = scrapes
            BY <2>2 DEF Discard
        <3>2. \A o \in Objects : Running(o, "fast") => Running(o, "fast")'
            BY <1>1, <2>2 DEF Running, OfCycle
        <3>3. \A s \in Scrapes : scrapes[s].stage = "waiting" => scrapes[s].target \in Objects
            BY DEF IInv, ScrapesAgree
        <3>4. NoScrapeWaitsInVain'
            BY <1>1, <3>1, <3>2, <3>3 DEF IInv, NoScrapeWaitsInVain
        <3> QED
            BY <3>1, <3>4, NobodyAnswered
    <2> QED
        BY <2>1, <2>2
<1>5. /\ TypeOK' /\ Shaped(registry)'
      /\ TargetsAgree' /\ ScrapesAgree' /\ AccountsAreTrue' /\ BytesAreFinite'
    BY <1>1, <1>2, <1>3, <1>4, CommonPart DEF Discard, SameBytes
<1> QED
    BY <1>2, <1>3, <1>4, <1>5 DEF IInv

\* The bytes of some objects, now and after a step, one by one.
LEMMA BytesAre ==
    ASSUME NEW objects
    PROVE  /\ \A u : u \in SnapshotBytes(objects) <=> \E p \in objects, m \in Lanes :
                 u \in {<<p, m>>} \X (1 .. target[p].lane[m].serialized_size)
           /\ \A u : u \in SnapshotBytes(objects)' <=> \E p \in objects, m \in Lanes :
                 u \in {<<p, m>>} \X (1 .. target'[p].lane[m].serialized_size)
<1> DEFINE of(p, m) == {<<p, m>>} \X (1 .. target[p].lane[m].serialized_size)
           after(p, m) == {<<p, m>>} \X (1 .. target'[p].lane[m].serialized_size)
<1> HIDE DEF of, after
<1>1. \A u : u \in UNION {of(p, m) : p \in objects, m \in Lanes} <=> \E p \in objects, m \in Lanes : u \in of(p, m)
    OBVIOUS
<1>2. \A u : u \in UNION {after(p, m) : p \in objects, m \in Lanes} <=> \E p \in objects, m \in Lanes : u \in after(p, m)
    OBVIOUS
<1> QED
    BY <1>1, <1>2 DEF SnapshotBytes, of, after

\* The bytes of one lane of one target among those of all.
LEMMA BytesOfLane ==
    ASSUME NEW objects, NEW o \in objects, NEW l \in Lanes
    PROVE  LET others == {u \in SnapshotBytes(objects) : u[1] # <<o, l>>}
           IN  /\ SnapshotBytes(objects) = others \cup ({<<o, l>>} \X (1 .. target[o].lane[l].serialized_size))
               /\ \A u : u \in others <=> \E p \in objects, m \in Lanes :
                       <<p, m>> # <<o, l>> /\ u \in {<<p, m>>} \X (1 .. target[p].lane[m].serialized_size)
<1>1. \A u : u \in SnapshotBytes(objects) <=> \E p \in objects, m \in Lanes :
            u \in {<<p, m>>} \X (1 .. target[p].lane[m].serialized_size)
    BY BytesAre
<1>2. \A p, m, n : \A u \in {<<p, m>>} \X (1 .. n) : u[1] = <<p, m>>
    OBVIOUS
<1> QED
    BY <1>1, <1>2

\* Adding as many bytes as a size says to bytes that are of something else.
LEMMA SizeIsAdded ==
    ASSUME NEW others, IsFiniteSet(others), NEW x, \A u \in others : u[1] # x
    PROVE  \A n \in Nat : /\ IsFiniteSet(others \cup ({x} \X (1 .. n)))
                          /\ Cardinality(others \cup ({x} \X (1 .. n))) = Cardinality(others) + n
BY SizeIsCounted, Zenon

\* When one lane changes its size, the number of bytes moves by the difference.
LEMMA LaneChangesSize ==
    ASSUME NEW objects, IsFiniteSet(SnapshotBytes(objects)), NEW o \in objects, NEW l \in Lanes,
           target[o].lane[l].serialized_size \in Nat, target'[o].lane[l].serialized_size \in Nat,
           \A p \in objects, m \in Lanes : <<p, m>> # <<o, l>> =>
                target'[p].lane[m].serialized_size = target[p].lane[m].serialized_size
    PROVE  /\ IsFiniteSet(SnapshotBytes(objects)')
           /\ Cardinality(SnapshotBytes(objects)') = Cardinality(SnapshotBytes(objects))
                - target[o].lane[l].serialized_size + target'[o].lane[l].serialized_size
           /\ Cardinality(SnapshotBytes(objects)) \in Nat
           /\ Cardinality(SnapshotBytes(objects)) >= target[o].lane[l].serialized_size
<1> DEFINE others == {u \in SnapshotBytes(objects) : u[1] # <<o, l>>}
<1>1. SnapshotBytes(objects) = others \cup ({<<o, l>>} \X (1 .. target[o].lane[l].serialized_size))
    BY BytesOfLane
<1>2. SnapshotBytes(objects)' = others \cup ({<<o, l>>} \X (1 .. target'[o].lane[l].serialized_size))
    <2>1. \A u : u \in SnapshotBytes(objects)' <=> \E p \in objects, m \in Lanes :
            u \in {<<p, m>>} \X (1 .. target'[p].lane[m].serialized_size)
        BY BytesAre
    <2>2. \A u : u \in others <=> \E p \in objects, m \in Lanes :
            <<p, m>> # <<o, l>> /\ u \in {<<p, m>>} \X (1 .. target[p].lane[m].serialized_size)
        BY BytesOfLane
    <2> HIDE DEF others
    <2>3. \A u : u \in others <=> \E p \in objects, m \in Lanes :
            <<p, m>> # <<o, l>> /\ u \in {<<p, m>>} \X (1 .. target'[p].lane[m].serialized_size)
        BY <2>2
    <2> QED
        BY <2>1, <2>3
<1>3. IsFiniteSet(others)
    BY FS_Subset
<1>4. \A u \in others : u[1] # <<o, l>>
    OBVIOUS
<1> HIDE DEF others
<1>5. \A n \in Nat : /\ IsFiniteSet(others \cup ({<<o, l>>} \X (1 .. n)))
                     /\ Cardinality(others \cup ({<<o, l>>} \X (1 .. n))) = Cardinality(others) + n
    BY <1>3, <1>4, SizeIsAdded, Zenon
<1>6. /\ Cardinality(SnapshotBytes(objects)) = Cardinality(others) + target[o].lane[l].serialized_size
      /\ IsFiniteSet(SnapshotBytes(objects)')
      /\ Cardinality(SnapshotBytes(objects)') = Cardinality(others) + target'[o].lane[l].serialized_size
    BY <1>1, <1>2, <1>5, Zenon
<1>7. Cardinality(others) \in Nat
    BY <1>3, FS_CardinalityType
<1> QED
    BY <1>6, <1>7

\* A lane is published anew, and then nothing is cached that was made from the old one.
LanePublished(o) ==
    /\ target[o].key \in Keys /\ registry.targets[target[o].key] = o
    /\ \A p \in Objects : p # o => target'[p].lane = target[p].lane
    /\ \A l \in Lanes : target'[o].lane[l].generation >= target[o].lane[l].generation
    /\ target'[o].lane # target[o].lane =>
            \A e \in Entries(registry'.response_cache) : e.key # target[o].key
    /\ Entries(registry'.response_cache) \subseteq Entries(registry.response_cache)
    /\ registry'.targets = registry.targets /\ now' = now

\* A publication moves the total by the difference to what the job read, which is what is there.
LEMMA PublishKeeps ==
    ASSUME IInv, NEW j \in jobs, NEW size \in SnapshotSizes, Publish(j, size)
    PROVE  IInv' /\ LanePublished(j.target)
<1> DEFINE o == j.target
           state == IF Rejected(j, size) THEN failed(j.read) ELSE published(j.read, size)
           x == [target[o] EXCEPT !.lane[j.lane] = state, !.slow_disabled = @ \/ SlowDisabled(j, size)]
<1>1. /\ ~j.late /\ j.target \in Objects /\ j.lane \in Lanes
      /\ j.read = target[j.target].lane[j.lane] /\ j.read \in LaneState
      /\ target[j.target].phase # "none"
      /\ target[j.target] \in Target
      /\ registry.targets[target[j.target].key] = j.target /\ target[j.target].key \in Keys
    BY LiveJobsHaveACycle DEF Publish
<1>2. size \in Nat /\ now \in Nat
    BY TargetRegistryAssumption DEF IInv, TypeOK
<1>3. state \in LaneState /\ state = IF Rejected(j, size) THEN j.read ELSE published(j.read, size)
    BY <1>1, <1>2 DEF LaneState, published, failed
<1>4. target' = [target EXCEPT ![o] = x] /\ jobs' = jobs \ {j} /\ SettleLane(o, j.lane, "woken")
    BY DEF Publish
<1> HIDE DEF state
<1>5. x \in Target /\ x.phase = target[o].phase /\ x.requested = target[o].requested
        /\ x.key = target[o].key /\ x.coordinator = target[o].coordinator
        /\ x.lane = [target[o].lane EXCEPT ![j.lane] = state]
    BY <1>1, <1>3 DEF Target, SlowDisabled
<1> HIDE DEF x
<1>6. target' \in [Objects -> Target] /\ \A p \in Objects : target'[p] = IF p = o THEN x ELSE target[p]
    BY <1>1, <1>4, <1>5 DEF IInv, TypeOK
<1>7. SameCycles /\ SameRequests
    BY <1>5, <1>6 DEF SameCycles, SameRequests
<1>8. \A p \in Objects, m \in Lanes : <<p, m>> # <<o, j.lane>> => target'[p].lane[m] = target[p].lane[m]
    BY <1>1, <1>5, <1>6 DEF Target
<1>9. target'[o].lane[j.lane] = state
    BY <1>1, <1>5, <1>6 DEF Target
<1>10. scrapes' \in [Scrapes -> ScrapeRecord] /\ FewerWait /\ NoScrapeWaitsInVain'
    BY <1>4, <1>7, JobGone
<1>11. registry' = IF Rejected(j, size) THEN registry ELSE AfterPublication(j, size)
    BY DEF Publish
<1>12. o \in Registered(registry)
    BY <1>1, NoneIsNoObject DEF Registered
<1>13. registry.total_snapshot_bytes_used = Cardinality(SnapshotBytes(Registered(registry)))
        /\ registry.total_snapshot_bytes_used <= max_total_snapshot_bytes
        /\ IsFiniteSet(SnapshotBytes(Registered(registry)))
    BY DEF IInv, AccountsAreTrue, BytesAreFinite
<1>14. LET after == Cache!Invalidate(registry.response_cache, target[o].key)
       IN  /\ Listed(after) /\ Entries(after) \subseteq Entries(registry.response_cache)
           /\ \A e \in Entries(after) : e.key # target[o].key
    BY WithoutKeepsOthers, EntriesOfKey DEF Cache!Invalidate, IInv, Shaped
<1>15. SamePlaces /\ registry'.total_snapshot_bytes_used =
            IF Rejected(j, size) THEN registry.total_snapshot_bytes_used
            ELSE NotBelowZero(registry.total_snapshot_bytes_used + size - j.read.serialized_size)
    <2>1. registry.total_snapshot_bytes_used \in Nat /\ j.read.serialized_size \in Nat
        BY <1>1 DEF IInv, TypeOK, LaneState
    <2>2. NotBelowZero(registry.total_snapshot_bytes_used + size - j.read.serialized_size) \in Nat
        BY <1>2, <2>1 DEF NotBelowZero
    <2> QED
        BY <1>11, <1>14, <2>2 DEF IInv, Shaped, SamePlaces, AfterPublication
<1>16. JobsAgree' /\ jobs' \subseteq Job
    <2>1. \A i \in jobs' : i \in jobs /\ i # j /\ i.target \in Objects /\ i.lane \in Lanes /\ i \in Job
        BY <1>4 DEF IInv, TypeOK, Job
    <2>2. \A i \in jobs' : ~i.late => <<i.target, i.lane>> # <<o, j.lane>>
        BY <1>1, <2>1 DEF IInv, JobsAgree
    <2>3. \A i \in jobs' : ~i.late => target'[i.target].lane[i.lane] = target[i.target].lane[i.lane]
        BY <1>8, <2>1, <2>2
    <2> QED
        BY <1>7, <1>15, <2>1, <2>3 DEF IInv, JobsAgree, SamePlaces, SameCycles
<1>17. AccountsAreTrue' /\ BytesAreFinite'
    <2>1. PICK objects : objects = Registered(registry)
        OBVIOUS
    <2>2. Registered(registry)' = objects /\ objects \subseteq Objects
        BY <1>15, <2>1, RegisteredAreObjects DEF SamePlaces, Registered, IInv, Shaped
    <2>3. target[o].lane[j.lane].serialized_size \in Nat /\ target'[o].lane[j.lane].serialized_size \in Nat
            /\ target[o].lane[j.lane].serialized_size = j.read.serialized_size
            /\ target'[o].lane[j.lane].serialized_size = IF Rejected(j, size) THEN j.read.serialized_size ELSE size
        BY <1>1, <1>2, <1>3, <1>9 DEF LaneState, published
    <2>4. \A p \in objects, m \in Lanes : <<p, m>> # <<o, j.lane>> =>
                target'[p].lane[m].serialized_size = target[p].lane[m].serialized_size
        BY <1>8, <2>2
    <2>5. o \in objects /\ IsFiniteSet(SnapshotBytes(objects))
            /\ registry.total_snapshot_bytes_used = Cardinality(SnapshotBytes(objects))
        BY <1>12, <1>13, <2>1
    <2>6. /\ IsFiniteSet(SnapshotBytes(objects)')
          /\ Cardinality(SnapshotBytes(objects)') = Cardinality(SnapshotBytes(objects))
                - target[o].lane[j.lane].serialized_size + target'[o].lane[j.lane].serialized_size
          /\ Cardinality(SnapshotBytes(objects)) \in Nat
          /\ Cardinality(SnapshotBytes(objects)) >= target[o].lane[j.lane].serialized_size
        BY <1>1, <2>3, <2>4, <2>5, LaneChangesSize
    <2>7. registry'.total_snapshot_bytes_used = Cardinality(SnapshotBytes(objects)')
        BY <1>2, <1>15, <2>3, <2>5, <2>6 DEF NotBelowZero
    <2>8. registry'.total_snapshot_bytes_used <= max_total_snapshot_bytes
        BY <1>2, <1>13, <1>15, <2>3, <2>5, <2>6, TargetRegistryAssumption DEF NotBelowZero, Rejected, BytesFit
    <2>9. {s \in Scrapes : scrapes'[s].stage # "idle"} = {s \in Scrapes : scrapes[s].stage # "idle"}
            /\ active_and_pending' = active_and_pending
        BY <1>10 DEF FewerWait, Publish, Aside
    <2>10. SnapshotBytes(Registered(registry))' = SnapshotBytes(objects)'
        BY <2>2
    <2> QED
        BY <2>6, <2>7, <2>8, <2>9, <2>10 DEF IInv, AccountsAreTrue, BytesAreFinite
<1>18. Rejected(j, size) => x.lane = target[o].lane
    <2>1. [target[o].lane EXCEPT ![j.lane] = j.read] = target[o].lane
        BY <1>1 DEF Target
    <2> QED
        BY <1>3, <1>5, <2>1
<1>19. \A l \in Lanes : target'[o].lane[l].generation >= target[o].lane[l].generation
    <2>1. \A l \in Lanes : target[o].lane[l].generation \in Nat
        BY <1>1 DEF Target, LaneState
    <2>2. state.generation >= j.read.generation
        BY <1>1, <1>3 DEF LaneState, published
    <2> QED
        BY <1>1, <1>8, <1>9, <2>1, <2>2
<1>20. /\ ~Rejected(j, size) => registry'.response_cache = Cache!Invalidate(registry.response_cache, target[o].key)
       /\ Rejected(j, size) => registry' = registry
    BY <1>11 DEF AfterPublication, IInv, Shaped
<1>21. LanePublished(o)
    BY <1>1, <1>6, <1>14, <1>15, <1>18, <1>19, <1>20 DEF LanePublished, SamePlaces, Publish, Aside
<1>22. TypeOK'
    BY <1>6, <1>10, <1>15, <1>16 DEF IInv, TypeOK, SamePlaces, Shaped, Publish, Aside, ScrapeRecord
<1> QED
    BY <1>7, <1>10, <1>15, <1>16, <1>17, <1>21, <1>22, TargetsStay, ScrapesStay DEF IInv, SamePlaces

-----------------------------------------------------------------------------
(* Getting a target and its coordinator *)

\* There is an unused number if not all are used.
LEMMA UnusedIsUnused ==
    ASSUME NEW all, \A i \in all : i \in Nat, NEW used, all \ used # {}
    PROVE  Unused(all, used) \in all \ used
<1> DEFINE T == all \ used
<1>1. T \in SUBSET Nat /\ T # {}
    OBVIOUS
<1>2. \E m \in T : \A n \in T : m <= n
    <2> HIDE DEF T
    <2> QED
        BY <1>1, LeastNat
<1> QED
    BY <1>2 DEF Unused

\* A coordinator that a cycle holds or that a request goes through is not idle.
LEMMA LeasedIsNotIdle ==
    ASSUME IInv
    PROVE  /\ \A o \in Registered(registry) : ~is_idle(target[o].coordinator)
           /\ \A j \in jobs : j.fetching => ~is_idle(j.coordinator)
<1>1. Registered(registry) \subseteq Objects
    BY RegisteredAreObjects DEF IInv, Shaped
<1>2. IsFiniteSet(Objects)
    BY TargetRegistryAssumption, FS_Interval DEF Objects
<1>3. ASSUME NEW o \in Registered(registry), is_idle(target[o].coordinator)
      PROVE  FALSE
    <2> DEFINE q == target[o].coordinator
               holders == {p \in Registered(registry) : target[p].coordinator = q}
    <2>1. o \in holders
        OBVIOUS
    <2>2. holders \subseteq Objects
        BY <1>1
    <2>3. Cardinality(holders) = 0
        BY <1>3 DEF is_idle, lease_count
    <2> HIDE DEF holders
    <2>4. IsFiniteSet(holders)
        BY <1>2, <2>2, FS_Subset
    <2> QED
        BY <2>1, <2>3, <2>4, FS_EmptySet
<1> QED
    BY <1>3 DEF is_idle

\* Of the cache only what was of targets that left is missing.
CacheIsKept(r) ==
    \A e \in Entries(r.response_cache) :
        /\ e \in Entries(registry.response_cache)
        /\ e.key \in Keys /\ registry.targets[e.key] # None => r.targets[e.key] = registry.targets[e.key]

\* The registry r while a scrape looks for its target: nothing that a cycle or a
\* request depends on has left it, and its total is that of the targets it still has.
Kept(r) ==
    /\ Shaped(r)
    /\ \A o \in Objects : target[o].phase # "none" => r.targets[target[o].key] = o
    /\ \A b \in Bmcs : registry.bmc_coordinators[b] # None =>
          r.bmc_coordinators[b] = registry.bmc_coordinators[b] \/ is_idle(registry.bmc_coordinators[b])
    /\ r.total_snapshot_bytes_used = Cardinality(SnapshotBytes(Registered(r) \cap Registered(registry)))
    /\ r.total_snapshot_bytes_used <= max_total_snapshot_bytes
    /\ CacheIsKept(r)

\* Before it has a target of its own.
Reduced(r) ==
    /\ Kept(r)
    /\ \A k \in Keys : r.targets[k] \in {registry.targets[k], None}

\* With object o for key k, which was registered or was of no use to anybody.
Prepared(k, r, o) ==
    /\ Kept(r)
    /\ o \in Objects /\ r.targets[k] = o
    /\ \A k2 \in Keys \ {k} : r.targets[k2] \in {registry.targets[k2], None}
    /\ registry.targets[k] # o => o \notin InUse

\* A miss removes at most entries of the cache.
LEMMA MissedIsReduced ==
    ASSUME IInv, NEW k \in Keys
    PROVE  /\ Reduced(Missed(k)) /\ Missed(k).targets = registry.targets
           /\ Missed(k).total_snapshot_bytes_used = registry.total_snapshot_bytes_used
           /\ Missed(k).bmc_coordinators = registry.bmc_coordinators
<1> DEFINE r == Missed(k)
<1>1. /\ r.targets = registry.targets
      /\ r.total_snapshot_bytes_used = registry.total_snapshot_bytes_used
      /\ r.bmc_coordinators = registry.bmc_coordinators
      /\ r = [targets |-> r.targets, total_snapshot_bytes_used |-> r.total_snapshot_bytes_used,
              response_cache |-> r.response_cache, bmc_coordinators |-> r.bmc_coordinators]
      /\ \E gone : r.response_cache = Cache!Without(registry.response_cache, gone)
    BY DEF IInv, Shaped, Missed, Cache!Invalidate, Cache!Looked
<1> HIDE DEF r
<1>2. Listed(r.response_cache) /\ Entries(r.response_cache) \subseteq Entries(registry.response_cache)
    BY <1>1, WithoutKeepsOthers DEF IInv, Shaped
<1>3. Shaped(r)
    BY <1>1, <1>2 DEF IInv, Shaped
<1>4. Registered(r) \cap Registered(registry) = Registered(registry)
    BY <1>1 DEF Registered
<1>5. Kept(r)
    BY <1>1, <1>2, <1>3, <1>4 DEF IInv, Kept, CacheIsKept, TargetsAgree, AccountsAreTrue
<1>6. Reduced(r)
    BY <1>1, <1>5 DEF Reduced
<1> QED
    BY <1>1, <1>6 DEF r

\* The bytes of a target that leaves were those of its two lanes.
LEMMA BytesOfTarget ==
    ASSUME NEW objects, NEW o \in objects, IsFiniteSet(SnapshotBytes(objects)),
           \A l \in Lanes : target[o].lane[l].serialized_size \in Nat
    PROVE  /\ IsFiniteSet(SnapshotBytes(objects \ {o}))
           /\ Cardinality(SnapshotBytes(objects \ {o})) \in Nat
           /\ Cardinality(SnapshotBytes(objects)) = Cardinality(SnapshotBytes(objects \ {o})) + SizeOf(o)
<1> DEFINE others == SnapshotBytes(objects \ {o})
           fast == {<<o, "fast">>} \X (1 .. target[o].lane["fast"].serialized_size)
           slow == {<<o, "slow">>} \X (1 .. target[o].lane["slow"].serialized_size)
<1>1. \A u : u \in SnapshotBytes(objects) <=> \E p \in objects, m \in Lanes :
            u \in {<<p, m>>} \X (1 .. target[p].lane[m].serialized_size)
    BY BytesAre
<1>2. \A u : u \in others <=> \E p \in objects \ {o}, m \in Lanes :
            u \in {<<p, m>>} \X (1 .. target[p].lane[m].serialized_size)
    BY BytesAre
<1>3. \A p, m, n : \A u \in {<<p, m>>} \X (1 .. n) : u[1] = <<p, m>>
    OBVIOUS
<1>4. \A u \in others : u[1] # <<o, "fast">> /\ u[1] # <<o, "slow">>
    BY <1>2, <1>3
<1>5. \A u \in fast : u[1] # <<o, "slow">>
    BY <1>3
<1> HIDE DEF others
<1>6. SnapshotBytes(objects) = (others \cup fast) \cup slow
    <2>1. \A u : u \in fast <=> u \in {<<o, "fast">>} \X (1 .. target[o].lane["fast"].serialized_size)
        OBVIOUS
    <2>2. \A u : u \in slow <=> u \in {<<o, "slow">>} \X (1 .. target[o].lane["slow"].serialized_size)
        OBVIOUS
    <2> HIDE DEF fast, slow
    <2>3. ASSUME NEW u PROVE u \in SnapshotBytes(objects) <=> u \in (others \cup fast) \cup slow
        BY <1>1, <1>2, <2>1, <2>2 DEF Lanes
    <2> QED
        BY <2>3
<1>7. IsFiniteSet(others)
    BY <1>6, FS_Subset
<1>8. IsFiniteSet(others \cup fast) /\ Cardinality(others \cup fast) = Cardinality(others) + target[o].lane["fast"].serialized_size
    <2>1. target[o].lane["fast"].serialized_size \in Nat
        BY DEF Lanes
    <2> QED
        BY <1>4, <1>7, <2>1, SizeIsAdded, Zenon
<1>9. Cardinality((others \cup fast) \cup slow) = Cardinality(others \cup fast) + target[o].lane["slow"].serialized_size
    <2> DEFINE R == others \cup fast
    <2>1. target[o].lane["slow"].serialized_size \in Nat
        BY DEF Lanes
    <2>2. \A u \in R : u[1] # <<o, "slow">>
        BY <1>4, <1>5
    <2>3. IsFiniteSet(R)
        BY <1>8
    <2> HIDE DEF R
    <2>4. Cardinality(R \cup slow) = Cardinality(R) + target[o].lane["slow"].serialized_size
        BY <2>1, <2>2, <2>3, SizeIsAdded, Zenon
    <2> QED
        BY <2>4 DEF R
<1>10. Cardinality(others) \in Nat
    BY <1>7, FS_CardinalityType
<1>11. target[o].lane["fast"].serialized_size \in Nat /\ target[o].lane["slow"].serialized_size \in Nat
    BY DEF Lanes
<1> HIDE DEF fast, slow
<1> QED
    BY <1>6, <1>7, <1>8, <1>9, <1>10, <1>11 DEF others, SizeOf

\* An idle target leaves, and its coordinator with it if that is idle.
LEMMA RemovedIsReduced ==
    ASSUME IInv, NEW r, Reduced(r), r.targets = registry.targets,
           r.total_snapshot_bytes_used = registry.total_snapshot_bytes_used,
           r.bmc_coordinators = registry.bmc_coordinators,
           NEW k \in Evictable(r)
    PROVE  Reduced(Removed(r, k))
<1> DEFINE p == r.targets[k]
           b == BmcOf[k]
           left == Removed(r, k)
<1>1. k \in Keys /\ p # None /\ target[p].phase = "none" /\ p \in Objects
    BY DEF Evictable, Reduced, Kept, Shaped
<1>2. /\ left.targets = [r.targets EXCEPT ![k] = None]
      /\ left.total_snapshot_bytes_used = NotBelowZero(r.total_snapshot_bytes_used - SizeOf(p))
      /\ \/ left.bmc_coordinators = r.bmc_coordinators
         \/ /\ left.bmc_coordinators = [r.bmc_coordinators EXCEPT ![b] = None]
            /\ is_idle(r.bmc_coordinators[b])
      /\ left.response_cache = Cache!Invalidate(r.response_cache, k)
      /\ left = [targets |-> left.targets,
                 total_snapshot_bytes_used |-> left.total_snapshot_bytes_used,
                 response_cache |-> left.response_cache,
                 bmc_coordinators |-> left.bmc_coordinators]
    BY DEF Removed
<1> HIDE DEF left
<1>3. p \in Registered(registry) /\ Registered(registry) \subseteq Objects
    BY <1>1, RegisteredAreObjects DEF IInv, Shaped, Registered
<1>4. Registered(left) \cap Registered(registry) = Registered(registry) \ {p}
    <2>1. \A k2 \in Keys : left.targets[k2] = IF k2 = k THEN None ELSE registry.targets[k2]
        BY <1>1, <1>2 DEF Reduced, Kept, Shaped
    <2>2. \A k2 \in Keys : registry.targets[k2] = p => k2 = k
        BY <1>1 DEF IInv, TargetsAgree
    <2>3. ASSUME NEW x PROVE x \in Registered(left) <=> x \in Registered(registry) /\ x # p
        BY <1>1, <2>1, <2>2 DEF Registered
    <2> QED
        BY <2>3
<1>5. /\ IsFiniteSet(SnapshotBytes(Registered(registry)))
      /\ r.total_snapshot_bytes_used = Cardinality(SnapshotBytes(Registered(registry)))
      /\ r.total_snapshot_bytes_used <= max_total_snapshot_bytes
    BY DEF IInv, AccountsAreTrue, BytesAreFinite
<1>6. \A l \in Lanes : target[p].lane[l].serialized_size \in Nat
    BY <1>1 DEF IInv, TypeOK, Target, LaneState
<1>7. SizeOf(p) \in Nat
    BY <1>6 DEF SizeOf, Lanes
<1>8. /\ Cardinality(SnapshotBytes(Registered(registry) \ {p})) \in Nat
      /\ Cardinality(SnapshotBytes(Registered(registry)))
            = Cardinality(SnapshotBytes(Registered(registry) \ {p})) + SizeOf(p)
    BY <1>3, <1>5, <1>6, BytesOfTarget
<1>9. /\ left.total_snapshot_bytes_used = Cardinality(SnapshotBytes(Registered(registry) \ {p}))
      /\ left.total_snapshot_bytes_used \in Nat
      /\ left.total_snapshot_bytes_used <= max_total_snapshot_bytes
    BY <1>2, <1>5, <1>7, <1>8, TargetRegistryAssumption DEF NotBelowZero
<1>10. /\ Listed(left.response_cache)
       /\ \A e \in Entries(left.response_cache) : e \in Entries(r.response_cache) /\ e.key # k
    BY <1>2, WithoutKeepsOthers, EntriesOfKey DEF Cache!Invalidate, Reduced, Kept, Shaped
<1>11. Shaped(left)
    BY <1>1, <1>2, <1>9, <1>10 DEF Reduced, Kept, Shaped
<1>12. \A o \in Objects : target[o].phase # "none" => left.targets[target[o].key] = o
    <2>1. \A o \in Objects : target[o].phase # "none" => target[o].key # k /\ target[o].key \in Keys
        BY <1>1 DEF IInv, TargetsAgree
    <2> QED
        BY <1>2, <2>1 DEF Reduced, Kept, Shaped
<1>13. \A c \in Bmcs : registry.bmc_coordinators[c] # None =>
          left.bmc_coordinators[c] = registry.bmc_coordinators[c] \/ is_idle(registry.bmc_coordinators[c])
    BY <1>1, <1>2 DEF Reduced, Kept, Shaped
<1>14. CacheIsKept(left)
    BY <1>2, <1>10 DEF CacheIsKept, Reduced, Kept, Shaped
<1>15. Kept(left)
    BY <1>4, <1>9, <1>11, <1>12, <1>13, <1>14 DEF Kept
<1>16. \A k2 \in Keys : left.targets[k2] \in {registry.targets[k2], None}
    BY <1>1, <1>2 DEF Reduced, Kept, Shaped
<1> QED
    BY <1>15, <1>16 DEF Reduced, left

\* A new object for a key that has none takes nothing from anybody.
LEMMA WithTargetIsPrepared ==
    ASSUME IInv, NEW k \in Keys, NEW r, Reduced(r), registry.targets[k] = None, Objects \ InUse # {}
    PROVE  Prepared(k, WithTarget(r, k), WithTarget(r, k).targets[k])
<1> DEFINE new == WithTarget(r, k)
           o == Unused(Objects, InUse)
<1>1. o \in Objects \ InUse
    <2>1. \A i \in Objects : i \in Nat
        BY TargetRegistryAssumption DEF Objects
    <2> QED
        BY <2>1, UnusedIsUnused
<1> HIDE DEF o
<1>2. /\ new.targets = [r.targets EXCEPT ![k] = o]
      /\ new.total_snapshot_bytes_used = r.total_snapshot_bytes_used
      /\ new.bmc_coordinators = r.bmc_coordinators
      /\ new.response_cache = r.response_cache
      /\ Shaped(new)
    BY <1>1 DEF WithTarget, o, Reduced, Kept, Shaped
<1> HIDE DEF new
<1>3. \A k2 \in Keys : new.targets[k2] = IF k2 = k THEN o ELSE r.targets[k2]
    BY <1>2 DEF Reduced, Kept, Shaped
<1>4. o \notin Registered(registry) /\ o # None
    BY <1>1, NoneIsNoObject DEF InUse
<1>5. Registered(new) \cap Registered(registry) = Registered(r) \cap Registered(registry)
    <2>1. r.targets[k] = None
        BY DEF Reduced
    <2> QED
        BY <1>3, <1>4, <2>1 DEF Registered
<1>6. \A p \in Objects : target[p].phase # "none" => new.targets[target[p].key] = p
    <2>1. \A p \in Objects : target[p].phase # "none" => target[p].key # k /\ target[p].key \in Keys
        BY NoneIsNoObject DEF IInv, TargetsAgree
    <2> QED
        BY <1>3, <2>1 DEF Reduced, Kept
<1>7. CacheIsKept(new)
    BY <1>2, <1>3 DEF CacheIsKept, Reduced, Kept
<1>8. Kept(new)
    BY <1>2, <1>5, <1>6, <1>7 DEF Reduced, Kept
<1>9. Prepared(k, new, o)
    BY <1>1, <1>3, <1>8 DEF Prepared, Reduced
<1> QED
    BY <1>3, <1>9 DEF new

\* get_or_create prepares the target of a scrape.
LEMMA ObtainedIsPrepared ==
    ASSUME IInv, NEW k \in Keys, Objects \ InUse # {}, NEW r \in Obtained(Missed(k), k)
    PROVE  Prepared(k, r, r.targets[k])
<1>1. /\ Reduced(Missed(k)) /\ Missed(k).targets = registry.targets
      /\ Missed(k).total_snapshot_bytes_used = registry.total_snapshot_bytes_used
      /\ Missed(k).bmc_coordinators = registry.bmc_coordinators
    BY MissedIsReduced
<1>2. CASE registry.targets[k] # None
    <2>1. r = Missed(k)
        BY <1>1, <1>2 DEF Obtained
    <2>2. r.targets[k] \in Objects
        BY <1>1, <1>2, <2>1 DEF IInv, Shaped
    <2> QED
        BY <1>1, <2>1, <2>2 DEF Prepared, Reduced
<1>3. CASE registry.targets[k] = None /\ r = WithTarget(Missed(k), k)
    BY <1>1, <1>3, WithTargetIsPrepared
<1>4. CASE registry.targets[k] = None /\ \E victim \in Oldest(Missed(k)) : r = WithTarget(Removed(Missed(k), victim), k)
    <2>1. PICK victim \in Oldest(Missed(k)) : r = WithTarget(Removed(Missed(k), victim), k)
        BY <1>4
    <2>2. victim \in Evictable(Missed(k))
        BY DEF Oldest
    <2>3. Reduced(Removed(Missed(k), victim))
        BY <1>1, <2>2, RemovedIsReduced
    <2> QED
        BY <1>4, <2>1, <2>3, WithTargetIsPrepared
<1> QED
    BY <1>1, <1>2, <1>3, <1>4 DEF Obtained

\* get_or_create_coordinator leaves it prepared, with a coordinator.
LEMMA WithCoordinatorIsPrepared ==
    ASSUME IInv, NEW k \in Keys, NEW r, NEW o, Prepared(k, r, o), Coordinators \ CoordinatorsInUse # {}
    PROVE  /\ Prepared(k, WithCoordinator(r, BmcOf[k]), o)
           /\ WithCoordinator(r, BmcOf[k]).bmc_coordinators[BmcOf[k]] # None
<1> DEFINE new == WithCoordinator(r, BmcOf[k])
           b == BmcOf[k]
<1>1. b \in Bmcs
    BY TargetRegistryAssumption
<1>2. CASE r.bmc_coordinators[b] # None
    BY <1>2 DEF WithCoordinator
<1>3. CASE r.bmc_coordinators[b] = None
    <2> DEFINE q == Unused(Coordinators, CoordinatorsInUse)
    <2>1. q \in Coordinators
        <3>1. \A i \in Coordinators : i \in Nat
            BY TargetRegistryAssumption DEF Coordinators
        <3> QED
            BY <3>1, UnusedIsUnused
    <2> HIDE DEF q
    <2>2. /\ new.targets = r.targets
          /\ new.total_snapshot_bytes_used = r.total_snapshot_bytes_used
          /\ new.response_cache = r.response_cache
          /\ new.bmc_coordinators = [r.bmc_coordinators EXCEPT ![b] = q]
          /\ Shaped(new)
        BY <1>1, <1>3, <2>1 DEF WithCoordinator, Prepared, Kept, Shaped, q
    <2> HIDE DEF new
    <2>3. \A c \in Bmcs : new.bmc_coordinators[c] = IF c = b THEN q ELSE r.bmc_coordinators[c]
        BY <2>2 DEF Prepared, Kept, Shaped
    <2>4. Registered(new) = Registered(r)
        BY <2>2 DEF Registered
    <2>5. Kept(new)
        BY <1>3, <2>2, <2>3, <2>4 DEF Prepared, Kept, CacheIsKept
    <2>6. Prepared(k, new, o)
        BY <2>2, <2>5 DEF Prepared
    <2>7. new.bmc_coordinators[b] # None
        BY <1>1, <2>1, <2>3, NoneIsNoObject
    <2> QED
        BY <2>6, <2>7 DEF new
<1> QED
    BY <1>2, <1>3

-----------------------------------------------------------------------------
(* What the cache says *)

\* Entry e says of the lanes of target x what they are at time t, and expires with them.
Agrees(e, x, t) ==
    /\ e.expires_at \in Int
    /\ e.body.fast = x.lane["fast"].generation
    /\ x.lane["fast"].last_success_at # None
    /\ e.expires_at <= x.lane["fast"].last_success_at + ttl_seconds["fast"]
    /\ e.body.slow \in {0, x.lane["slow"].generation}
    /\ is_usable(x, "slow", t) => e.body.slow = x.lane["slow"].generation
    /\ e.body.slow_generation # 0 =>
          /\ x.lane["slow"].last_success_at # None
          /\ e.expires_at <= x.lane["slow"].last_success_at + ttl_seconds["slow"]

CacheAgrees ==
    \A e \in Entries(registry.response_cache) :
        /\ e.key \in Keys /\ registry.targets[e.key] # None
        /\ Agrees(e, target[registry.targets[e.key]], now)

\* Targets that stay registered keep their lanes.
LanesKept ==
    \A p \in Registered(registry) : p \in Registered(registry)' => target'[p].lane = target[p].lane

\* An entry of the cache has been there, and its target, if that was registered,
\* still is; or it agrees with its target now.
EntriesStay ==
    /\ now <= now'
    /\ \A e \in Entries(registry'.response_cache) :
        \/ /\ e \in Entries(registry.response_cache)
           /\ e.key \in Keys /\ registry.targets[e.key] # None => registry'.targets[e.key] = registry.targets[e.key]
        \/ /\ e.key \in Keys /\ registry'.targets[e.key] # None
           /\ Agrees(e, target'[registry'.targets[e.key]], now')

\* As the clock goes on and the lanes stay, an entry goes on to agree.
LEMMA AgreementLasts ==
    ASSUME NEW e, NEW x, NEW y, NEW t \in Nat, NEW u \in Nat, t <= u, Agrees(e, x, t),
           x \in Target, y.lane = x.lane
    PROVE  Agrees(e, y, u)
<1>1. is_usable(y, "slow", u) => is_usable(x, "slow", t)
    <2>1. ttl_seconds["slow"] \in Nat
        BY TargetRegistryAssumption
    <2>2. x.lane["slow"].last_success_at # None => x.lane["slow"].last_success_at \in Nat
        BY DEF Target, Lanes, LaneState
    <2> QED
        BY <2>1, <2>2 DEF is_usable
<1> QED
    BY <1>1 DEF Agrees

\* What stays in the cache agrees with a target that stays as it is.
LEMMA CacheKeepsAgreeing ==
    ASSUME IInv, CacheAgrees, LanesKept, EntriesStay, now' \in Nat
    PROVE  CacheAgrees'
<1> SUFFICES ASSUME NEW e \in Entries(registry'.response_cache)
             PROVE  /\ e.key \in Keys /\ registry'.targets[e.key] # None
                    /\ Agrees(e, target'[registry'.targets[e.key]], now')
    BY DEF CacheAgrees
<1>1. CASE /\ e \in Entries(registry.response_cache)
           /\ e.key \in Keys /\ registry.targets[e.key] # None => registry'.targets[e.key] = registry.targets[e.key]
    <2> DEFINE p == registry.targets[e.key]
    <2>1. e.key \in Keys /\ p # None /\ Agrees(e, target[p], now) /\ registry'.targets[e.key] = p
        BY <1>1 DEF CacheAgrees
    <2>2. p \in Registered(registry) /\ p \in Registered(registry)' /\ p \in Objects
        BY <2>1 DEF Registered, IInv, Shaped
    <2> HIDE DEF p
    <2>3. target'[p].lane = target[p].lane
        BY <2>2 DEF LanesKept
    <2>4. target[p] \in Target /\ now \in Nat /\ now <= now'
        BY <2>2 DEF IInv, TypeOK, EntriesStay
    <2>5. Agrees(e, target'[p], now')
        BY <2>1, <2>3, <2>4, AgreementLasts
    <2> QED
        BY <2>1, <2>5
<1> QED
    BY <1>1 DEF EntriesStay

\* Where neither the registry nor the clock changes.
LEMMA NothingCachedChanges ==
    ASSUME IInv, SameLanes, UNCHANGED <<registry, now>>
    PROVE  LanesKept /\ EntriesStay
<1>1. Registered(registry) \subseteq Objects
    BY RegisteredAreObjects DEF IInv, Shaped
<1>2. now \in Nat
    BY DEF IInv, TypeOK
<1> QED
    BY <1>1, <1>2 DEF LanesKept, EntriesStay, SameLanes

-----------------------------------------------------------------------------
(* The steps of a scrape *)

\* What becomes of object o when a scrape of key k found it: its lanes stay as they
\* are, or are new; its cycle goes on, or one may begin, with the registered coordinator.
Continues(k, r, o, y) ==
    /\ y \in Target /\ y.key = k
    /\ registry.targets[k] = o => y.lane = target[o].lane
    /\ registry.targets[k] # o => \A l \in Lanes : y.lane[l].serialized_size = 0
    /\ target[o].phase # "none" =>
          /\ y.phase = target[o].phase
          /\ y.coordinator = target[o].coordinator
          /\ target[o].requested \subseteq y.requested
    /\ target[o].phase = "none" /\ y.phase # "none" =>
          /\ y.coordinator # None
          /\ y.coordinator = r.bmc_coordinators[BmcOf[k]]

\* The registry is r but for its cache.
SameButCache(r) ==
    /\ Shaped(registry')
    /\ registry'.targets = r.targets
    /\ registry'.total_snapshot_bytes_used = r.total_snapshot_bytes_used
    /\ registry'.bmc_coordinators = r.bmc_coordinators

\* What has a cycle keeps it, and what it has been asked for.
CyclesGoOn ==
    \A p \in Objects : target[p].phase # "none" =>
        /\ target'[p].phase = target[p].phase
        /\ target'[p].key = target[p].key
        /\ target'[p].coordinator = target[p].coordinator
        /\ target'[p].lane = target[p].lane
        /\ target[p].requested \subseteq target'[p].requested

\* The total is the number of those bytes.
BytesAreTrue ==
    /\ registry.total_snapshot_bytes_used = Cardinality(SnapshotBytes(Registered(registry)))
    /\ registry.total_snapshot_bytes_used <= max_total_snapshot_bytes

\* An object that was prepared is the registered one, or nobody uses it; every cycle keeps its target.
LEMMA FoundObject ==
    ASSUME IInv, NEW k \in Keys, NEW r, NEW o, Prepared(k, r, o)
    PROVE  /\ registry.targets[k] # o => o \notin Registered(registry) /\ target[o].phase = "none"
           /\ \A p \in Objects : target[p].phase # "none" => p \in Registered(registry) /\ p \in Registered(r)
           /\ \A p \in Registered(r) : p # o => p \in Registered(registry)
           /\ o \in Registered(r) /\ o \in Objects
           /\ registry.targets[k] = o <=> o \in Registered(registry)
<1>1. \A p \in Objects : target[p].phase # "none" => p \in Registered(registry) /\ p \in Registered(r)
    BY NoneIsNoObject DEF IInv, TargetsAgree, Registered, Prepared, Kept
<1>2. \A p \in Registered(r) : p # o => p \in Registered(registry)
    BY DEF Registered, Prepared
<1>3. o \in Registered(r) /\ o \in Objects
    BY NoneIsNoObject DEF Prepared, Registered
<1>4. registry.targets[k] # o => o \notin Registered(registry)
    BY DEF Prepared, InUse
<1>5. registry.targets[k] = o => o \in Registered(registry)
    BY <1>3, NoneIsNoObject DEF Registered
<1> QED
    BY <1>1, <1>2, <1>3, <1>4, <1>5

\* The targets agree again after a scrape has found its own.
LEMMA CollectedTargets ==
    ASSUME IInv, NEW k \in Keys, NEW r, NEW o, NEW y,
           Prepared(k, r, o), Continues(k, r, o, y),
           target' = Targets(r, o, y), SameButCache(r)
    PROVE  /\ target' \in [Objects -> Target]
           /\ CyclesGoOn
           /\ TargetsAgree'
           /\ \A p \in Registered(r) : p # o => target'[p] = target[p]
           /\ target'[o] = y
           /\ LanesKept
<1>1. /\ registry.targets[k] # o => o \notin Registered(registry) /\ target[o].phase = "none"
      /\ \A p \in Objects : target[p].phase # "none" => p \in Registered(registry) /\ p \in Registered(r)
      /\ \A p \in Registered(r) : p # o => p \in Registered(registry)
      /\ o \in Registered(r) /\ o \in Objects
    BY FoundObject
<1>2. \A p \in Objects : target'[p] =
        IF p = o THEN y
        ELSE IF p \in Registered(r) \/ target[p].phase # "none" THEN target[p]
        ELSE NewTarget(None)
    BY DEF Targets
<1>3. NewTarget(None) \in Target /\ NewTarget(None).phase = "none"
    BY DEF NewTarget, Target, Lanes, NoSuccess, LaneState, Phases
<1>4. target' \in [Objects -> Target]
    <2>1. \A p \in Objects : target'[p] \in Target
        BY <1>2, <1>3 DEF Continues, IInv, TypeOK
    <2>2. target' = [p \in Objects |-> target'[p]]
        BY DEF Targets
    <2> HIDE DEF Target
    <2> QED
        BY <2>1, <2>2
<1>5. Registered(r) \subseteq Objects
    BY RegisteredAreObjects DEF Prepared, Kept, Shaped
<1>6. \A p \in Registered(r) : p # o => target'[p] = target[p]
    BY <1>2, <1>5
<1>7. target'[o] = y
    BY <1>1, <1>2
<1>8. CyclesGoOn
    <2>1. target[o].phase # "none" => target[o].key = k
        BY <1>1, NoneIsNoObject DEF IInv, TargetsAgree
    <2> QED
        BY <1>1, <1>2, <1>7, <2>1 DEF Continues, CyclesGoOn
<1>9. TargetsAgree'
    <2>1. ASSUME NEW k2 \in Keys, registry'.targets[k2] # None
          PROVE  target'[registry'.targets[k2]].key = k2
        <3>1. CASE k2 = k
            BY <1>7, <3>1 DEF SameButCache, Prepared, Continues
        <3>2. CASE k2 # k
            <4>1. registry'.targets[k2] = registry.targets[k2] /\ registry'.targets[k2] \in Registered(r)
                BY <2>1, <3>2 DEF SameButCache, Prepared, Registered
            <4>2. target[registry.targets[k2]].key = k2
                BY <2>1, <4>1 DEF IInv, TargetsAgree
            <4>3. registry.targets[k2] # o
                <5>1. CASE registry.targets[k] = o
                    BY <1>1, <3>2, <4>2, <5>1, NoneIsNoObject DEF IInv, TargetsAgree
                <5>2. CASE registry.targets[k] # o
                    BY <1>1, <2>1, <4>1, <5>2 DEF Registered
                <5> QED
                    BY <5>1, <5>2
            <4> QED
                BY <1>6, <4>1, <4>2, <4>3
        <3> QED
            BY <3>1, <3>2
    <2>2. ASSUME NEW p \in Objects, target'[p].phase # "none"
          PROVE  /\ target'[p].key \in Keys
                 /\ registry'.targets[target'[p].key] = p
                 /\ target'[p].coordinator # None
                 /\ target'[p].coordinator = registry'.bmc_coordinators[BmcOf[target'[p].key]]
        <3>1. CASE target[p].phase = "none"
            <4>1. p = o
                BY <1>2, <1>3, <1>5, <1>6, <2>2, <3>1
            <4> QED
                BY <1>7, <2>2, <3>1, <4>1 DEF SameButCache, Prepared, Continues
        <3>2. CASE target[p].phase # "none"
            <4>1. /\ target'[p].key = target[p].key
                  /\ target'[p].coordinator = target[p].coordinator
                BY <1>8, <3>2 DEF CyclesGoOn
            <4>2. /\ target[p].key \in Keys
                  /\ target[p].coordinator # None
                  /\ target[p].coordinator = registry.bmc_coordinators[BmcOf[target[p].key]]
                  /\ r.targets[target[p].key] = p
                BY <3>2 DEF IInv, TargetsAgree, Prepared, Kept
            <4>3. ~is_idle(target[p].coordinator)
                BY <1>1, <3>2, LeasedIsNotIdle
            <4>4. BmcOf[target[p].key] \in Bmcs
                BY <4>2, TargetRegistryAssumption
            <4>5. r.bmc_coordinators[BmcOf[target[p].key]] = target[p].coordinator
                BY <4>2, <4>3, <4>4 DEF Prepared, Kept
            <4> QED
                BY <4>1, <4>2, <4>5 DEF SameButCache
        <3> QED
            BY <3>1, <3>2
    <2> QED
        BY <2>1, <2>2 DEF TargetsAgree
<1>10. LanesKept
    <2>1. Registered(registry)' = Registered(r)
        BY DEF Registered, SameButCache
    <2>2. o \in Registered(registry) => y.lane = target[o].lane
        BY <1>1 DEF Continues
    <2> QED
        BY <1>6, <1>7, <2>1, <2>2 DEF LanesKept
<1> QED
    BY <1>4, <1>6, <1>7, <1>8, <1>9, <1>10

\* The total is still the number of bytes: those of targets that left are gone, and a new target has none.
LEMMA CollectedBytes ==
    ASSUME IInv, NEW k \in Keys, NEW r, NEW o, NEW y,
           Prepared(k, r, o), Continues(k, r, o, y),
           target' = Targets(r, o, y), SameButCache(r)
    PROVE  BytesAreTrue' /\ BytesAreFinite'
<1>1. /\ registry.targets[k] # o => o \notin Registered(registry) /\ target[o].phase = "none"
      /\ \A p \in Registered(r) : p # o => p \in Registered(registry)
      /\ o \in Registered(r) /\ o \in Objects
      /\ registry.targets[k] = o <=> o \in Registered(registry)
    BY FoundObject
<1>2. /\ \A p \in Registered(r) : p # o => target'[p] = target[p]
      /\ target'[o] = y
    BY CollectedTargets
<1>3. PICK objects : objects = Registered(r)
    OBVIOUS
<1>4. PICK old : old = Registered(r) \cap Registered(registry)
    OBVIOUS
<1>5. Registered(registry)' = objects
    BY <1>3 DEF Registered, SameButCache
<1>6. \A u : u \in SnapshotBytes(objects)' <=> \E p \in objects, m \in Lanes :
            u \in {<<p, m>>} \X (1 .. target'[p].lane[m].serialized_size)
    BY BytesAre
<1>7. \A u : u \in SnapshotBytes(old) <=> \E p \in old, m \in Lanes :
            u \in {<<p, m>>} \X (1 .. target[p].lane[m].serialized_size)
    BY BytesAre
<1>8. \A p \in objects, m \in Lanes :
        IF p \in old THEN target'[p].lane[m].serialized_size = target[p].lane[m].serialized_size
        ELSE target'[p].lane[m].serialized_size = 0
    BY <1>1, <1>2, <1>3, <1>4 DEF Continues
<1>9. \A p, m, u : u \notin {<<p, m>>} \X (1 .. 0)
    OBVIOUS
<1>10. old \subseteq objects
    BY <1>3, <1>4
<1>11. SnapshotBytes(objects)' = SnapshotBytes(old)
    <2>1. ASSUME NEW u \in SnapshotBytes(objects)' PROVE u \in SnapshotBytes(old)
        <3>1. PICK p \in objects, m \in Lanes : u \in {<<p, m>>} \X (1 .. target'[p].lane[m].serialized_size)
            BY <1>6
        <3>2. p \in old
            BY <1>8, <1>9, <3>1
        <3> QED
            BY <1>7, <1>8, <3>1, <3>2
    <2>2. ASSUME NEW u \in SnapshotBytes(old) PROVE u \in SnapshotBytes(objects)'
        <3>1. PICK p \in old, m \in Lanes : u \in {<<p, m>>} \X (1 .. target[p].lane[m].serialized_size)
            BY <1>7
        <3> QED
            BY <1>6, <1>8, <1>10, <3>1
    <2> QED
        BY <2>1, <2>2
<1>12. IsFiniteSet(SnapshotBytes(old))
    <2>1. IsFiniteSet(SnapshotBytes(Registered(registry)))
        BY DEF IInv, BytesAreFinite
    <2>2. \A u : u \in SnapshotBytes(Registered(registry)) <=> \E p \in Registered(registry), m \in Lanes :
            u \in {<<p, m>>} \X (1 .. target[p].lane[m].serialized_size)
        BY BytesAre
    <2>3. SnapshotBytes(old) \subseteq SnapshotBytes(Registered(registry))
        BY <1>4, <1>7, <2>2
    <2> QED
        BY <2>1, <2>3, FS_Subset
<1>13. SnapshotBytes(Registered(registry))' = SnapshotBytes(old)
    BY <1>5, <1>11
<1>14. r.total_snapshot_bytes_used = Cardinality(SnapshotBytes(old)) /\ r.total_snapshot_bytes_used <= max_total_snapshot_bytes
    BY <1>4 DEF Prepared, Kept
<1> QED
    BY <1>12, <1>13, <1>14 DEF BytesAreTrue, BytesAreFinite, SameButCache

\* What the steps of a scrape that has its target do to everything but the scrapes.
LEMMA CollectedKeeps ==
    ASSUME IInv, NEW k \in Keys, NEW r, NEW o, NEW y,
           Prepared(k, r, o), Continues(k, r, o, y),
           target' = Targets(r, o, y), SameButCache(r), jobs' = jobs
    PROVE  /\ target' \in [Objects -> Target] /\ target'[o] = y
           /\ CyclesGoOn /\ LanesKept /\ TargetsAgree' /\ JobsAgree'
           /\ BytesAreTrue' /\ BytesAreFinite'
<1>1. target' \in [Objects -> Target] /\ target'[o] = y /\ CyclesGoOn /\ LanesKept /\ TargetsAgree'
    BY CollectedTargets
<1>2. BytesAreTrue' /\ BytesAreFinite'
    BY CollectedBytes
<1>3. JobsAgree'
    <2>1. ASSUME NEW j \in jobs
          PROVE  /\ ~j.late =>
                      /\ target'[j.target].phase # "none"
                      /\ j.coordinator = target'[j.target].coordinator
                      /\ j.read = target'[j.target].lane[j.lane]
                 /\ j.fetching => \E b \in Bmcs : registry'.bmc_coordinators[b] = j.coordinator
        <3>1. j.target \in Objects /\ j.coordinator \in Coordinators
            BY DEF IInv, TypeOK, Job
        <3>2. j.fetching => \E b \in Bmcs : registry'.bmc_coordinators[b] = j.coordinator
            BY <3>1, LeasedIsNotIdle, NoneIsNoObject DEF IInv, JobsAgree, SameButCache, Prepared, Kept
        <3> QED
            BY <1>1, <3>1, <3>2 DEF IInv, JobsAgree, CyclesGoOn
    <2> QED
        BY <2>1 DEF IInv, JobsAgree
<1> QED
    BY <1>1, <1>2, <1>3

Underway == {s \in Scrapes : scrapes[s].stage # "idle"}

AdmissionsAreTrue ==
    /\ active_and_pending = Cardinality(Underway)
    /\ active_and_pending <= max_parallel_targets

\* The scrapes under way can be counted.
LEMMA UnderwayIsFinite ==
    IsFiniteSet(Underway) /\ Cardinality(Underway) \in Nat
<1>1. Underway \subseteq Scrapes
    BY DEF Underway
<1> QED
    BY <1>1, TargetRegistryAssumption, FS_Subset, FS_CardinalityType

\* A scrape that joins is one more under way.
LEMMA JoinedIsCounted ==
    ASSUME IInv, NEW s \in Scrapes, scrapes[s].stage = "idle", try_admit,
           NEW rec \in ScrapeRecord, rec.stage = "waiting", scrapes' = [scrapes EXCEPT ![s] = rec],
           active_and_pending' = active_and_pending + 1
    PROVE  AdmissionsAreTrue' /\ active_and_pending' \in Nat
<1>1. active_and_pending = Cardinality(Underway) /\ active_and_pending \in Nat
    BY DEF IInv, AccountsAreTrue, Underway, TypeOK
<1>2. s \notin Underway /\ IsFiniteSet(Underway)
    BY UnderwayIsFinite DEF Underway
<1>3. Underway' = Underway \cup {s}
    BY DEF IInv, TypeOK, Underway
<1>4. Cardinality(Underway \cup {s}) = Cardinality(Underway) + 1
    BY <1>2, FS_AddElement
<1> QED
    BY <1>1, <1>3, <1>4, TargetRegistryAssumption DEF AdmissionsAreTrue, try_admit

\* A scrape that is done is one less.
LEMMA DoneIsCounted ==
    ASSUME IInv, NEW s \in Scrapes, scrapes[s].stage # "idle", Done(s)
    PROVE  AdmissionsAreTrue' /\ active_and_pending' \in Nat
<1>1. active_and_pending = Cardinality(Underway) /\ active_and_pending \in Nat
        /\ active_and_pending <= max_parallel_targets
    BY DEF IInv, AccountsAreTrue, Underway, TypeOK
<1>2. s \in Underway /\ IsFiniteSet(Underway)
    BY UnderwayIsFinite DEF Underway
<1>3. Underway' = Underway \ {s}
    BY DEF IInv, TypeOK, Underway, Done
<1>4. Cardinality(Underway \ {s}) = Cardinality(Underway) - 1 /\ IsFiniteSet(Underway \ {s})
    BY <1>2, FS_RemoveElement
<1>5. Cardinality(Underway \ {s}) \in Nat
    BY <1>4, FS_CardinalityType
<1> QED
    BY <1>1, <1>3, <1>4, <1>5, TargetRegistryAssumption DEF AdmissionsAreTrue, Done

\* Where no scrape moves, the count stays true.
LEMMA SameScrapesAreCounted ==
    ASSUME IInv, UNCHANGED <<scrapes, active_and_pending>>
    PROVE  AdmissionsAreTrue' /\ active_and_pending' \in Nat
BY DEF IInv, TypeOK, AccountsAreTrue, AdmissionsAreTrue, Underway

\* A scrape begins to wait for a lane that is to come, or is done: the others wait
\* for what they waited for.
LEMMA OneScrapeMoves ==
    ASSUME IInv, CyclesGoOn, jobs' = jobs, NEW s \in Scrapes, NEW rec \in ScrapeRecord,
           scrapes' = [scrapes EXCEPT ![s] = rec],
           \/ rec.stage = "idle"
           \/ /\ rec.stage = "waiting" /\ rec.target \in Objects /\ rec.key \in Keys
              /\ target'[rec.target].phase # "none"
              /\ target'[rec.target].key = rec.key
              /\ "fast" \in target'[rec.target].requested \/ Running(rec.target, "fast")
    PROVE  scrapes' \in [Scrapes -> ScrapeRecord] /\ ScrapesAgree' /\ NoScrapeWaitsInVain'
<1>1. scrapes' \in [Scrapes -> ScrapeRecord] /\ \A t \in Scrapes : scrapes'[t] = IF t = s THEN rec ELSE scrapes[t]
    BY DEF IInv, TypeOK, ScrapeRecord
<1>2. ScrapesAgree'
    BY <1>1 DEF IInv, ScrapesAgree, CyclesGoOn
<1>3. NoScrapeWaitsInVain'
    <2>1. \A t \in Scrapes : t # s /\ scrapes[t].stage = "waiting" =>
            scrapes[t].target \in Objects /\ target[scrapes[t].target].phase # "none"
        BY DEF IInv, ScrapesAgree
    <2>2. \A t \in Scrapes : t # s /\ scrapes[t].stage = "waiting" =>
            LET o == scrapes[t].target
            IN  \/ target'[o].phase = "closing"
                \/ target'[o].phase # "none" /\ ("fast" \in target'[o].requested \/ Running(o, "fast"))
        BY <2>1 DEF IInv, NoScrapeWaitsInVain, CyclesGoOn
    <2>3. \A p, l : Running(p, l)' <=> Running(p, l)
        BY RunningStays
    <2> QED
        BY <1>1, <2>2, <2>3 DEF NoScrapeWaitsInVain
<1> QED
    BY <1>1, <1>2, <1>3

\* Where no scrape moves, what it waits for still comes.
LEMMA NoScrapeMoves ==
    ASSUME IInv, CyclesGoOn, jobs' = jobs, scrapes' = scrapes
    PROVE  scrapes' \in [Scrapes -> ScrapeRecord] /\ ScrapesAgree' /\ NoScrapeWaitsInVain'
<1>1. ScrapesAgree'
    BY DEF IInv, ScrapesAgree, CyclesGoOn
<1>2. \A t \in Scrapes : scrapes[t].stage = "waiting" =>
        scrapes[t].target \in Objects /\ target[scrapes[t].target].phase # "none"
    BY DEF IInv, ScrapesAgree
<1>3. \A p, l : Running(p, l)' <=> Running(p, l)
    BY RunningStays
<1>4. NoScrapeWaitsInVain'
    BY <1>2, <1>3 DEF IInv, NoScrapeWaitsInVain, CyclesGoOn
<1> QED
    BY <1>1, <1>4 DEF IInv, TypeOK, ScrapeRecord

\* The parts of the invariant put together.
LEMMA PartsKeep ==
    ASSUME IInv, Shaped(registry'), jobs' = jobs, now' \in 0 .. MaxNow, target' \in [Objects -> Target],
           scrapes' \in [Scrapes -> ScrapeRecord], active_and_pending' \in Nat,
           TargetsAgree', JobsAgree', ScrapesAgree', NoScrapeWaitsInVain',
           BytesAreTrue', BytesAreFinite', AdmissionsAreTrue'
    PROVE  IInv'
<1>1. TypeOK'
    BY DEF IInv, TypeOK, Shaped, ScrapeRecord
<1>2. AccountsAreTrue'
    BY DEF BytesAreTrue, AdmissionsAreTrue, AccountsAreTrue, Underway
<1> QED
    BY <1>1, <1>2 DEF IInv, Shaped

\* A new entry agrees with the target it was made from.
LEMMA NewEntryAgrees ==
    ASSUME NEW k, NEW x \in Target, now \in Nat, is_usable(x, "fast", now), NEW later \in Nat, now <= later
    PROVE  LET e == Cache!Entry(k, Body(x, later), 1, later, LaneDeadline(x, later))
           IN  e.key = k /\ Agrees(e, x, later)
<1> DEFINE deadline == LaneDeadline(x, later)
           body == Body(x, later)
           e == Cache!Entry(k, body, 1, later, deadline)
<1>1. ttl_seconds["fast"] \in Nat /\ ttl_seconds["slow"] \in Nat /\ response_ttl \in Nat
    BY TargetRegistryAssumption
<1>2. /\ x.lane["fast"].last_success_at \in Nat /\ x.lane["fast"].last_success_at # None
      /\ x.lane["slow"].last_success_at # None => x.lane["slow"].last_success_at \in Nat
    BY DEF Target, Lanes, LaneState, is_usable
<1>3. is_usable(x, "slow", later) => is_usable(x, "slow", now)
    BY <1>1, <1>2 DEF is_usable
<1>4. /\ deadline \in Nat
      /\ deadline <= x.lane["fast"].last_success_at + ttl_seconds["fast"]
      /\ is_usable(x, "slow", later) =>
            /\ x.lane["slow"].last_success_at # None
            /\ deadline <= x.lane["slow"].last_success_at + ttl_seconds["slow"]
    BY <1>1, <1>2 DEF LaneDeadline, Cache!Earlier, is_usable
<1>5. /\ body.fast = x.lane["fast"].generation
      /\ body.slow \in {0, x.lane["slow"].generation}
      /\ is_usable(x, "slow", later) => body.slow = x.lane["slow"].generation
      /\ body.slow_generation # 0 => is_usable(x, "slow", later)
    BY <1>3 DEF Body
<1> HIDE DEF deadline, body
<1>6. e.key = k /\ e.body = body /\ e.expires_at \in Int /\ e.expires_at <= deadline
    BY <1>1, <1>4 DEF Cache!Entry, Cache!Earlier
<1> HIDE DEF e
<1>7. Agrees(e, x, later)
    <2>1. e.expires_at <= x.lane["fast"].last_success_at + ttl_seconds["fast"]
        BY <1>1, <1>2, <1>4, <1>6
    <2>2. e.body.slow_generation # 0 =>
            /\ x.lane["slow"].last_success_at # None
            /\ e.expires_at <= x.lane["slow"].last_success_at + ttl_seconds["slow"]
        BY <1>1, <1>2, <1>4, <1>5, <1>6
    <2> QED
        BY <1>2, <1>5, <1>6, <2>1, <2>2 DEF Agrees
<1> QED
    BY <1>6, <1>7 DEF e, deadline, body

\* A response changes the cache of the registry and the clock.
LEMMA ResponseChangesCache ==
    ASSUME IInv, NEW k \in Keys, NEW r, NEW o, NEW x, Prepared(k, r, o), Continues(k, r, o, x), Respond(r, k, o, x)
    PROVE  /\ SameButCache(r) /\ now' \in 0 .. MaxNow /\ target' = Targets(r, o, x)
           /\ EntriesStay
<1>1. now \in Nat /\ now <= MaxNow /\ Shaped(r)
    BY TargetRegistryAssumption DEF IInv, TypeOK, Prepared, Kept
<1>2. \A t \in now .. Cache!Earlier(now + Lag, MaxNow) : t \in 0 .. MaxNow /\ t \in Nat /\ now <= t
    BY <1>1, TargetRegistryAssumption DEF Cache!Earlier
<1>3. \/ registry' = r /\ now' = now
      \/ \E e : /\ registry' = [r EXCEPT !.response_cache = Cache!Put(r.response_cache, e, now')]
                /\ now' \in 0 .. MaxNow /\ now <= now'
                /\ e.key = k /\ Agrees(e, x, now')
    <2>1. CASE registry' = r /\ now' = now
        BY <2>1
    <2>2. CASE /\ is_usable(x, "fast", now)
               /\ \E later \in now .. Cache!Earlier(now + Lag, MaxNow) :
                    /\ now' = later
                    /\ registry' = [r EXCEPT !.response_cache =
                          Cache!Put(@, Cache!Entry(k, Body(x, later), 1, later, LaneDeadline(x, later)), later)]
        <3>1. PICK later \in now .. Cache!Earlier(now + Lag, MaxNow) :
                    /\ now' = later
                    /\ registry' = [r EXCEPT !.response_cache =
                          Cache!Put(@, Cache!Entry(k, Body(x, later), 1, later, LaneDeadline(x, later)), later)]
            BY <2>2
        <3>2. PICK e : e = Cache!Entry(k, Body(x, later), 1, later, LaneDeadline(x, later))
            OBVIOUS
        <3>3. e.key = k /\ Agrees(e, x, later)
            BY <1>1, <1>2, <2>2, <3>2, NewEntryAgrees DEF Continues
        <3> QED
            BY <1>2, <3>1, <3>2, <3>3
    <2> QED
        BY <2>1, <2>2 DEF Respond
<1>4. now' \in 0 .. MaxNow /\ now <= now'
    BY <1>1, <1>3
<1>5. /\ SameButCache(r)
      /\ \A f \in Entries(registry'.response_cache) :
            f \in Entries(r.response_cache) \/ (f.key = k /\ Agrees(f, x, now'))
    <2>1. CASE registry' = r
        BY <1>1, <2>1 DEF Shaped, SameButCache
    <2>2. CASE \E e : /\ registry' = [r EXCEPT !.response_cache = Cache!Put(r.response_cache, e, now')]
                      /\ e.key = k /\ Agrees(e, x, now')
        <3>1. PICK e : /\ registry' = [r EXCEPT !.response_cache = Cache!Put(r.response_cache, e, now')]
                       /\ e.key = k /\ Agrees(e, x, now')
            BY <2>2
        <3>2. PICK c : c = Cache!Put(r.response_cache, e, now')
            OBVIOUS
        <3>3. Listed(c) /\ \A f \in Entries(c) : f = e \/ f \in Entries(r.response_cache)
            BY <1>1, <3>2, PutAddsOne DEF Shaped
        <3>4. registry' = [r EXCEPT !.response_cache = c]
            BY <3>1, <3>2
        <3>5. SameButCache(r) /\ registry'.response_cache = c
            BY <1>1, <3>3, <3>4 DEF Shaped, SameButCache
        <3> QED
            BY <3>1, <3>3, <3>5
    <2> QED
        BY <1>3, <2>1, <2>2
<1>6. target' = Targets(r, o, x)
    BY DEF Respond
<1>7. target'[o] = x /\ registry'.targets[k] = o /\ o # None
    BY <1>5, <1>6, CollectedTargets, NoneIsNoObject DEF SameButCache, Prepared
<1>8. EntriesStay
    BY <1>4, <1>5, <1>7 DEF EntriesStay, Prepared, Kept, CacheIsKept, SameButCache
<1> QED
    BY <1>4, <1>5, <1>6, <1>8

\* A scrape answers at once.
LEMMA RespondAtOnceKeeps ==
    ASSUME IInv, NEW k \in Keys, NEW r, NEW o, NEW x, Prepared(k, r, o), Continues(k, r, o, x),
           RespondAtOnce(r, k, o, x), UNCHANGED jobs
    PROVE  IInv' /\ LanesKept /\ EntriesStay
<1>1. SameButCache(r) /\ now' \in 0 .. MaxNow /\ target' = Targets(r, o, x)
        /\ EntriesStay
    BY ResponseChangesCache DEF RespondAtOnce
<1>2. /\ target' \in [Objects -> Target]
      /\ CyclesGoOn /\ LanesKept /\ TargetsAgree' /\ JobsAgree'
      /\ BytesAreTrue' /\ BytesAreFinite'
    BY <1>1, CollectedKeeps
<1>3. AdmissionsAreTrue' /\ active_and_pending' \in Nat
    BY SameScrapesAreCounted DEF RespondAtOnce
<1>4. scrapes' \in [Scrapes -> ScrapeRecord] /\ ScrapesAgree' /\ NoScrapeWaitsInVain'
    BY <1>2, NoScrapeMoves DEF RespondAtOnce
<1> QED
    BY <1>1, <1>2, <1>3, <1>4, PartsKeep DEF SameButCache

\* A scrape gives up although it has its target.
LEMMA GivesUpKeeps ==
    ASSUME IInv, NEW k \in Keys, NEW r, NEW o, NEW x, Prepared(k, r, o), Continues(k, r, o, x),
           registry' = r, target' = Targets(r, o, x), UNCHANGED <<jobs, scrapes, active_and_pending, now>>
    PROVE  IInv' /\ LanesKept /\ EntriesStay
<1>1. SameButCache(r) /\ now' \in 0 .. MaxNow
    BY DEF SameButCache, Prepared, Kept, IInv, TypeOK
<1>2. /\ target' \in [Objects -> Target]
      /\ CyclesGoOn /\ LanesKept /\ TargetsAgree' /\ JobsAgree'
      /\ BytesAreTrue' /\ BytesAreFinite'
    BY <1>1, CollectedKeeps
<1>3. AdmissionsAreTrue' /\ active_and_pending' \in Nat
    BY SameScrapesAreCounted
<1>4. scrapes' \in [Scrapes -> ScrapeRecord] /\ ScrapesAgree' /\ NoScrapeWaitsInVain'
    BY <1>2, NoScrapeMoves
<1>5. EntriesStay
    BY DEF EntriesStay, Prepared, Kept, CacheIsKept, IInv, TypeOK
<1> QED
    BY <1>1, <1>2, <1>3, <1>4, <1>5, PartsKeep DEF SameButCache

\* A scrape joins the Fast lane of a cycle.
LEMMA JoinKeeps ==
    ASSUME IInv, NEW k \in Keys, NEW s \in Scrapes, NEW r, NEW o, NEW y,
           Prepared(k, r, o), Continues(k, r, o, y),
           y.phase # "none", "fast" \in y.requested \/ Running(o, "fast"),
           scrapes[s].stage = "idle", try_admit,
           registry' = r, target' = Targets(r, o, y), WaitForFast(s, k, o), UNCHANGED jobs
    PROVE  IInv' /\ LanesKept /\ EntriesStay
<1> DEFINE rec == [stage |-> "waiting", key |-> k, target |-> o]
<1>1. SameButCache(r) /\ now' \in 0 .. MaxNow
    BY DEF SameButCache, Prepared, Kept, WaitForFast, IInv, TypeOK
<1>2. /\ target' \in [Objects -> Target] /\ target'[o] = y
      /\ CyclesGoOn /\ LanesKept /\ TargetsAgree' /\ JobsAgree'
      /\ BytesAreTrue' /\ BytesAreFinite'
    BY <1>1, CollectedKeeps
<1>3. rec \in ScrapeRecord /\ rec.stage = "waiting" /\ rec.key = k /\ rec.target = o /\ o \in Objects
    BY DEF ScrapeRecord, Prepared
<1>4. scrapes' = [scrapes EXCEPT ![s] = rec] /\ active_and_pending' = active_and_pending + 1
    BY DEF WaitForFast
<1> HIDE DEF rec
<1>5. AdmissionsAreTrue' /\ active_and_pending' \in Nat
    BY <1>3, <1>4, JoinedIsCounted
<1>6. y.key = k
    BY DEF Continues
<1>7. scrapes' \in [Scrapes -> ScrapeRecord] /\ ScrapesAgree' /\ NoScrapeWaitsInVain'
    BY <1>2, <1>3, <1>4, <1>6, OneScrapeMoves
<1>8. EntriesStay
    BY DEF EntriesStay, Prepared, Kept, CacheIsKept, IInv, TypeOK, WaitForFast
<1> QED
    BY <1>1, <1>2, <1>5, <1>7, <1>8, PartsKeep DEF SameButCache

\* The target a scrape found, as it finds it, and with a cycle that it joins or opens.
LEMMA FoundContinues ==
    ASSUME IInv, NEW k \in Keys, NEW found, NEW o, Prepared(k, found, o),
           NEW x, x = touched(IF registry.targets[k] = o THEN target[o] ELSE NewTarget(k))
    PROVE  /\ x \in Target /\ x.key = k /\ x.phase = target[o].phase
           /\ \A r : Continues(k, r, o, x)
           /\ \A r : Continues(k, r, o, Attached(o, x))
           /\ Attached(o, x).phase = x.phase
           /\ IsAccepting(x) => Attached(o, x).requested = x.requested \cup {l \in LanesDue(x) : ~Running(o, l)}
           /\ \A r : x.phase = "none" /\ r.bmc_coordinators[BmcOf[k]] \in Coordinators =>
                  Continues(k, r, o, Opened(x, r.bmc_coordinators[BmcOf[k]]))
<1>1. /\ registry.targets[k] # o => target[o].phase = "none"
      /\ o \in Objects
    BY FoundObject
<1>2. target[o] \in Target /\ now \in Nat
    BY <1>1 DEF IInv, TypeOK
<1>3. registry.targets[k] = o => target[o].key = k
    BY <1>1, NoneIsNoObject DEF IInv, TargetsAgree
<1>4. NewTarget(k) \in Target /\ NewTarget(k).phase = "none" /\ NewTarget(k).key = k
        /\ \A l \in Lanes : NewTarget(k).lane[l].serialized_size = 0
    BY DEF NewTarget, Target, Lanes, NoSuccess, LaneState, Phases
<1>5. PICK z \in Target : /\ z = IF registry.targets[k] = o THEN target[o] ELSE NewTarget(k)
                          /\ z.key = k /\ z.phase = target[o].phase
    BY <1>1, <1>2, <1>3, <1>4
<1>6. x \in Target /\ x.key = k /\ x.phase = z.phase /\ x.lane = z.lane
        /\ x.requested = z.requested /\ x.coordinator = z.coordinator
    BY <1>2, <1>5 DEF touched, Target
<1>7. \A r : Continues(k, r, o, x)
    BY <1>1, <1>4, <1>5, <1>6 DEF Continues
<1>8. LanesDue(x) \subseteq Lanes
    BY DEF LanesDue
<1>9. /\ Attached(o, x) \in Target
      /\ Attached(o, x).key = x.key /\ Attached(o, x).lane = x.lane
      /\ Attached(o, x).phase = x.phase /\ Attached(o, x).coordinator = x.coordinator
      /\ x.requested \subseteq Attached(o, x).requested
      /\ IsAccepting(x) => Attached(o, x).requested = x.requested \cup {l \in LanesDue(x) : ~Running(o, l)}
    <2> DEFINE joined == [x EXCEPT !.requested = @ \cup {l \in LanesDue(x) : ~Running(o, l)}]
    <2>1. {l \in LanesDue(x) : ~Running(o, l)} \subseteq Lanes
        BY <1>8
    <2>2. /\ joined \in Target
          /\ joined.key = x.key /\ joined.lane = x.lane
          /\ joined.phase = x.phase /\ joined.coordinator = x.coordinator
          /\ joined.requested = x.requested \cup {l \in LanesDue(x) : ~Running(o, l)}
        BY <1>6, <2>1 DEF Target
    <2>3. Attached(o, x) = IF ~IsAccepting(x) THEN x ELSE joined
        BY DEF Attached
    <2> HIDE DEF joined
    <2> QED
        BY <1>6, <2>2, <2>3
<1>10. \A r : Continues(k, r, o, Attached(o, x))
    BY <1>6, <1>7, <1>9 DEF Continues
<1>11. ASSUME NEW r, x.phase = "none", r.bmc_coordinators[BmcOf[k]] \in Coordinators
       PROVE  Continues(k, r, o, Opened(x, r.bmc_coordinators[BmcOf[k]]))
    <2> DEFINE q == r.bmc_coordinators[BmcOf[k]]
               y == Opened(x, q)
    <2>1. /\ y \in Target /\ y.key = x.key /\ y.lane = x.lane
          /\ y.phase = "open" /\ y.coordinator = q
        BY <1>6, <1>8, <1>11 DEF Opened, Target, Phases
    <2>2. q # None
        BY <1>11, NoneIsNoObject
    <2> HIDE DEF y
    <2>3. target[o].phase = "none"
        BY <1>5, <1>6, <1>11
    <2>4. Continues(k, r, o, y)
        BY <1>6, <1>7, <2>1, <2>2, <2>3 DEF Continues
    <2> QED
        BY <2>4 DEF y
<1> QED
    BY <1>5, <1>6, <1>7, <1>9, <1>10, <1>11

\* A scrape that is admitted, whether it answers, joins, opens a cycle or gives up.
LEMMA AdmittedKeeps ==
    ASSUME IInv, NEW k \in Keys, NEW s \in Scrapes, Admitted(s, k)
    PROVE  IInv' /\ LanesKept /\ EntriesStay
<1>1. PICK found \in Obtained(Missed(k), k) : Collect(s, k, found)
    BY DEF Admitted
<1>2. scrapes[s].stage = "idle" /\ try_admit /\ Objects \ InUse # {} /\ Coordinators \ CoordinatorsInUse # {}
    BY DEF Admitted
<1> DEFINE o == found.targets[k]
           x == touched(IF registry.targets[k] = o THEN target[o] ELSE NewTarget(k))
           r == WithCoordinator(found, BmcOf[k])
           q == r.bmc_coordinators[BmcOf[k]]
<1>3. Prepared(k, found, o)
    BY <1>2, ObtainedIsPrepared
<1>4. Prepared(k, r, o) /\ q # None
    BY <1>2, <1>3, WithCoordinatorIsPrepared
<1>5. q \in Coordinators
    BY <1>4, TargetRegistryAssumption DEF Prepared, Kept, Shaped
<1>6. \/ LanesDue(x) = {} /\ RespondAtOnce(found, k, o, x)
      \/ /\ x.phase # "none"
         /\ "fast" \in LanesDue(x) /\ IsAccepting(Attached(o, x))
         /\ registry' = r /\ target' = Targets(r, o, Attached(o, x)) /\ WaitForFast(s, k, o)
      \/ x.phase # "none" /\ RespondAtOnce(r, k, o, Attached(o, x))
      \/ /\ x.phase = "none"
         /\ "fast" \in LanesDue(x) /\ IsAccepting(Opened(x, q))
         /\ registry' = r /\ target' = Targets(r, o, Opened(x, q)) /\ WaitForFast(s, k, o)
      \/ x.phase = "none" /\ RespondAtOnce(r, k, o, Opened(x, q))
      \/ RespondAtOnce(r, k, o, x)
      \/ registry' = r /\ target' = Targets(r, o, x) /\ UNCHANGED <<scrapes, active_and_pending, now>>
    BY <1>1 DEF Collect
<1>7. UNCHANGED jobs
    BY <1>1 DEF Collect
<1> HIDE DEF o, r
<1>8. x = touched(IF registry.targets[k] = o THEN target[o] ELSE NewTarget(k))
    OBVIOUS
<1> HIDE DEF x
<1>9. /\ x \in Target /\ x.key = k /\ x.phase = target[o].phase
      /\ \A r2 : Continues(k, r2, o, x)
      /\ \A r2 : Continues(k, r2, o, Attached(o, x))
      /\ Attached(o, x).phase = x.phase
      /\ IsAccepting(x) => Attached(o, x).requested = x.requested \cup {l \in LanesDue(x) : ~Running(o, l)}
      /\ \A r2 : x.phase = "none" /\ r2.bmc_coordinators[BmcOf[k]] \in Coordinators =>
             Continues(k, r2, o, Opened(x, r2.bmc_coordinators[BmcOf[k]]))
    BY <1>3, <1>8, FoundContinues
<1>10. CASE LanesDue(x) = {} /\ RespondAtOnce(found, k, o, x)
    BY <1>3, <1>7, <1>9, <1>10, RespondAtOnceKeeps
<1>11. CASE /\ "fast" \in LanesDue(x) /\ IsAccepting(Attached(o, x))
            /\ registry' = r /\ target' = Targets(r, o, Attached(o, x)) /\ WaitForFast(s, k, o)
    <2>1. IsAccepting(x) /\ Attached(o, x).phase # "none"
        BY <1>9, <1>11 DEF IsAccepting
    <2>2. "fast" \in Attached(o, x).requested \/ Running(o, "fast")
        BY <1>9, <1>11, <2>1
    <2> QED
        BY <1>2, <1>4, <1>7, <1>9, <1>11, <2>1, <2>2, JoinKeeps
<1>12. CASE RespondAtOnce(r, k, o, Attached(o, x))
    BY <1>4, <1>7, <1>9, <1>12, RespondAtOnceKeeps
<1>13. CASE /\ x.phase = "none"
            /\ "fast" \in LanesDue(x) /\ IsAccepting(Opened(x, q))
            /\ registry' = r /\ target' = Targets(r, o, Opened(x, q)) /\ WaitForFast(s, k, o)
    <2>1. Opened(x, q).phase # "none" /\ "fast" \in Opened(x, q).requested
        BY <1>9, <1>13 DEF Opened, Target
    <2>2. Continues(k, r, o, Opened(x, q))
        BY <1>5, <1>9, <1>13
    <2> QED
        BY <1>2, <1>4, <1>7, <1>13, <2>1, <2>2, JoinKeeps
<1>14. CASE x.phase = "none" /\ RespondAtOnce(r, k, o, Opened(x, q))
    <2>1. Continues(k, r, o, Opened(x, q))
        BY <1>5, <1>9, <1>14
    <2> QED
        BY <1>4, <1>7, <1>14, <2>1, RespondAtOnceKeeps
<1>15. CASE RespondAtOnce(r, k, o, x)
    BY <1>4, <1>7, <1>9, <1>15, RespondAtOnceKeeps
<1>16. CASE registry' = r /\ target' = Targets(r, o, x) /\ UNCHANGED <<scrapes, active_and_pending, now>>
    BY <1>4, <1>7, <1>9, <1>16, GivesUpKeeps
<1> QED
    BY <1>6, <1>10, <1>11, <1>12, <1>13, <1>14, <1>15, <1>16

\* The registry as it is will do for a target it has.
LEMMA RegistryIsPrepared ==
    ASSUME IInv, NEW k \in Keys, NEW o \in Objects, registry.targets[k] = o
    PROVE  Prepared(k, registry, o)
<1>1. Registered(registry) \cap Registered(registry) = Registered(registry)
    OBVIOUS
<1> QED
    BY <1>1 DEF IInv, Prepared, Kept, CacheIsKept, TargetsAgree, AccountsAreTrue

\* A scrape whose wait is over.
LEMMA AnswerKeeps ==
    ASSUME IInv, NEW s \in Scrapes, Answer(s)
    PROVE  IInv' /\ LanesKept /\ EntriesStay
<1> DEFINE o == scrapes[s].target
           k == scrapes[s].key
           rec == [stage |-> "idle", key |-> None, target |-> None]
<1>1. o \in Objects /\ k \in Keys /\ target[o].phase # "none" /\ target[o].key = k
        /\ scrapes[s].stage # "idle"
    BY DEF Answer, IInv, ScrapesAgree
<1>2. registry.targets[k] = o /\ target[o] \in Target
    BY <1>1 DEF IInv, TargetsAgree, TypeOK
<1>3. Prepared(k, registry, o) /\ Shaped(registry)
    BY <1>1, <1>2, RegistryIsPrepared DEF IInv
<1>4. Continues(k, registry, o, target[o])
    BY <1>1, <1>2 DEF Continues
<1>5. Respond(registry, k, o, target[o]) /\ Done(s) /\ jobs' = jobs
    BY DEF Answer
<1>6. scrapes' = [scrapes EXCEPT ![s] = rec]
    BY DEF Answer, Done
<1>7. rec \in ScrapeRecord /\ rec.stage = "idle"
    BY DEF ScrapeRecord
<1> HIDE DEF o, k, rec
<1>8. SameButCache(registry) /\ now' \in 0 .. MaxNow /\ target' = Targets(registry, o, target[o])
        /\ EntriesStay
    BY <1>1, <1>3, <1>4, <1>5, ResponseChangesCache
<1>9. /\ target' \in [Objects -> Target]
      /\ CyclesGoOn /\ LanesKept /\ TargetsAgree' /\ JobsAgree'
      /\ BytesAreTrue' /\ BytesAreFinite'
    BY <1>1, <1>3, <1>4, <1>5, <1>8, CollectedKeeps
<1>10. AdmissionsAreTrue' /\ active_and_pending' \in Nat
    BY <1>1, <1>5, DoneIsCounted
<1>11. scrapes' \in [Scrapes -> ScrapeRecord] /\ ScrapesAgree' /\ NoScrapeWaitsInVain'
    BY <1>5, <1>6, <1>7, <1>9, OneScrapeMoves
<1> QED
    BY <1>5, <1>8, <1>9, <1>10, <1>11, PartsKeep DEF SameButCache

\* Of the targets at most the time of their last use changes, and of the registry its cache.
LEMMA NothingButUseKeeps ==
    ASSUME IInv, SamePlaces, registry'.total_snapshot_bytes_used = registry.total_snapshot_bytes_used,
           target' \in [Objects -> Target], SameCycles, SameLanes, SameRequests, UNCHANGED jobs
    PROVE  /\ target' \in [Objects -> Target]
           /\ CyclesGoOn /\ TargetsAgree' /\ JobsAgree'
           /\ BytesAreTrue' /\ BytesAreFinite'
<1>1. TargetsAgree' /\ JobsAgree'
    BY TargetsStay, JobsStay
<1>2. BytesAreTrue' /\ BytesAreFinite'
    BY BytesStay DEF IInv, AccountsAreTrue, BytesAreTrue, BytesAreFinite
<1>3. CyclesGoOn
    BY DEF CyclesGoOn, SameCycles, SameLanes, SameRequests
<1> QED
    BY <1>1, <1>2, <1>3

\* A scrape whose lane failed.
LEMMA AnswerFailureKeeps ==
    ASSUME IInv, NEW s \in Scrapes, AnswerFailure(s)
    PROVE  IInv' /\ SameLanes
<1> DEFINE rec == [stage |-> "idle", key |-> None, target |-> None]
<1>1. SamePlaces /\ registry'.total_snapshot_bytes_used = registry.total_snapshot_bytes_used
    BY RegistryStays DEF AnswerFailure
<1>2. target' \in [Objects -> Target] /\ SameCycles /\ SameLanes /\ SameRequests /\ UNCHANGED jobs
    BY DEF IInv, TypeOK, SameCycles, SameLanes, SameRequests, AnswerFailure
<1>3. /\ target' \in [Objects -> Target]
      /\ CyclesGoOn /\ TargetsAgree' /\ JobsAgree'
      /\ BytesAreTrue' /\ BytesAreFinite'
    BY <1>1, <1>2, NothingButUseKeeps
<1>4. AdmissionsAreTrue' /\ active_and_pending' \in Nat
    BY DoneIsCounted DEF AnswerFailure
<1>5. scrapes' = [scrapes EXCEPT ![s] = rec]
    BY DEF AnswerFailure, Done
<1>6. rec \in ScrapeRecord /\ rec.stage = "idle"
    BY DEF ScrapeRecord
<1> HIDE DEF rec
<1>7. scrapes' \in [Scrapes -> ScrapeRecord] /\ ScrapesAgree' /\ NoScrapeWaitsInVain'
    BY <1>2, <1>3, <1>5, <1>6, OneScrapeMoves
<1>8. now' \in 0 .. MaxNow
    BY DEF AnswerFailure, IInv, TypeOK
<1> QED
    BY <1>1, <1>2, <1>3, <1>4, <1>7, <1>8, PartsKeep DEF SamePlaces

\* No scrape begins or ends.
LEMMA NoScrapeActsKeeps ==
    ASSUME IInv, SamePlaces, registry'.total_snapshot_bytes_used = registry.total_snapshot_bytes_used,
           target' \in [Objects -> Target], SameCycles, SameLanes, SameRequests,
           UNCHANGED <<jobs, scrapes, active_and_pending>>, now' \in 0 .. MaxNow
    PROVE  IInv'
<1>1. /\ target' \in [Objects -> Target]
      /\ CyclesGoOn /\ TargetsAgree' /\ JobsAgree'
      /\ BytesAreTrue' /\ BytesAreFinite'
    BY NothingButUseKeeps
<1>2. AdmissionsAreTrue' /\ active_and_pending' \in Nat
    BY SameScrapesAreCounted
<1>3. scrapes' \in [Scrapes -> ScrapeRecord] /\ ScrapesAgree' /\ NoScrapeWaitsInVain'
    BY <1>1, NoScrapeMoves
<1> QED
    BY <1>1, <1>2, <1>3, PartsKeep DEF SamePlaces

\* A scrape that is served from the cache has used its target.
LEMMA ServedFromCacheKeeps ==
    ASSUME IInv, NEW k \in Keys, ServedFromCache(k)
    PROVE  IInv' /\ SameLanes
<1> DEFINE o == registry.targets[k]
           x == touched(target[o])
<1>1. o \in Objects /\ target[o] \in Target /\ now \in Nat
    BY DEF ServedFromCache, IInv, TypeOK
<1>2. target' = [target EXCEPT ![o] = x]
    BY DEF ServedFromCache
<1>3. x \in Target /\ x.key = target[o].key /\ x.lane = target[o].lane /\ x.phase = target[o].phase
        /\ x.coordinator = target[o].coordinator /\ x.requested = target[o].requested
    BY <1>1 DEF touched, Target
<1> HIDE DEF x
<1>4. target' \in [Objects -> Target] /\ SameCycles /\ SameLanes /\ SameRequests
    BY <1>1, <1>2, <1>3, OneCycleMoves DEF SameRequests
<1>5. now' \in 0 .. MaxNow
    BY DEF ServedFromCache, IInv, TypeOK
<1> QED
    BY <1>4, <1>5, RegistryStays, NoScrapeActsKeeps DEF ServedFromCache

\* A scrape that is turned away has removed at most an entry of the cache.
LEMMA OverloadedKeeps ==
    ASSUME IInv, NEW k \in Keys, Overloaded(k)
    PROVE  IInv' /\ LanesKept /\ EntriesStay
<1>1. registry' = Missed(k)
    BY DEF Overloaded
<1>2. SamePlaces /\ registry'.total_snapshot_bytes_used = registry.total_snapshot_bytes_used
    BY <1>1, MissedIsReduced DEF SamePlaces, Reduced, Kept
<1>3. target' \in [Objects -> Target] /\ SameCycles /\ SameLanes /\ SameRequests /\ now' \in 0 .. MaxNow
    BY DEF Overloaded, IInv, TypeOK, SameCycles, SameLanes, SameRequests
<1>4. Registered(registry) \subseteq Objects
    BY RegisteredAreObjects DEF IInv, Shaped
<1>5. LanesKept /\ EntriesStay
    <2>1. CacheIsKept(Missed(k)) /\ now' = now /\ now \in Nat
        <3>1. CacheIsKept(Missed(k))
            BY MissedIsReduced DEF Reduced, Kept
        <3> QED
            BY <3>1 DEF Overloaded, IInv, TypeOK
    <2>2. EntriesStay
        BY <1>1, <2>1 DEF EntriesStay, CacheIsKept
    <2> QED
        BY <1>3, <1>4, <2>2 DEF LanesKept, SameLanes
<1> QED
    BY <1>2, <1>3, <1>5, NoScrapeActsKeeps DEF Overloaded

\* The clock goes on.
LEMMA TickKeeps ==
    ASSUME IInv, Tick
    PROVE  IInv' /\ LanesKept /\ EntriesStay
<1>1. SamePlaces /\ registry'.total_snapshot_bytes_used = registry.total_snapshot_bytes_used
    BY RegistryStays DEF Tick
<1>2. target' \in [Objects -> Target] /\ SameCycles /\ SameLanes /\ SameRequests
    BY DEF Tick, IInv, TypeOK, SameCycles, SameLanes, SameRequests
<1>3. now' \in 0 .. MaxNow
    BY TargetRegistryAssumption DEF Tick, IInv, TypeOK
<1>4. LanesKept /\ EntriesStay
    <2>1. Registered(registry) \subseteq Objects /\ now \in Nat
        BY RegisteredAreObjects DEF IInv, Shaped, TypeOK
    <2> QED
        BY <1>2, <2>1 DEF LanesKept, SameLanes, EntriesStay, Tick
<1> QED
    BY <1>1, <1>2, <1>3, <1>4, NoScrapeActsKeeps DEF Tick

-----------------------------------------------------------------------------
(* The invariant and what follows from it *)

\* Nothing is registered, cached or counted at first.
LEMMA InitEstablishes ==
    ASSUME Init
    PROVE  IInv /\ CacheAgrees
<1>1. /\ registry = [targets |-> [k \in Keys |-> None], total_snapshot_bytes_used |-> 0,
                     response_cache |-> Cache!EmptyCache, bmc_coordinators |-> [b \in Bmcs |-> None]]
      /\ target = [o \in Objects |-> NewTarget(None)]
      /\ jobs = {} /\ active_and_pending = 0 /\ now = 0
      /\ scrapes = [s \in Scrapes |-> [stage |-> "idle", key |-> None, target |-> None]]
    BY DEF Init
<1>2. NewTarget(None) \in Target /\ NewTarget(None).phase = "none"
    BY DEF NewTarget, Target, Lanes, NoSuccess, LaneState, Phases
<1>3. TypeOK
    BY <1>1, <1>2, TargetRegistryAssumption DEF TypeOK
<1>4. Entries(registry.response_cache) = {} /\ Listed(registry.response_cache)
    <2>1. registry.response_cache.entries = <<>>
        BY <1>1 DEF Cache!EmptyCache
    <2>2. Entries(registry.response_cache) = {}
        BY <2>1 DEF Entries
    <2>3. registry.response_cache.entries \in [1 .. 0 -> Entries(registry.response_cache)]
        BY <2>1
    <2> QED
        BY <2>2, <2>3 DEF Listed
<1>5. Shaped(registry)
    BY <1>1, <1>4 DEF Shaped
<1>6. TargetsAgree /\ JobsAgree /\ ScrapesAgree /\ NoScrapeWaitsInVain
    BY <1>1, <1>2 DEF TargetsAgree, JobsAgree, ScrapesAgree, NoScrapeWaitsInVain
<1>7. Registered(registry) = {}
    BY <1>1 DEF Registered
<1>8. SnapshotBytes(Registered(registry)) = {}
    <2>1. \A u : u \notin SnapshotBytes(Registered(registry))
        BY <1>7, BytesAre
    <2> QED
        BY <2>1
<1>9. {s \in Scrapes : scrapes[s].stage # "idle"} = {}
    BY <1>1
<1>10. AccountsAreTrue /\ BytesAreFinite
    BY <1>1, <1>8, <1>9, FS_EmptySet, TargetRegistryAssumption DEF AccountsAreTrue, BytesAreFinite
<1>11. CacheAgrees
    BY <1>4 DEF CacheAgrees
<1> QED
    BY <1>3, <1>5, <1>6, <1>10, <1>11 DEF IInv

\* Lanes of registered targets only get newer, and cached entries go on to agree.
LanesGetNewer ==
    \A k \in Keys : \A l \in Lanes :
        LET o == registry.targets[k]
        IN  o # None /\ registry'.targets[k] = o =>
                target'[o].lane[l].generation >= target[o].lane[l].generation

\* Lanes that are kept have not got older.
LEMMA KeptLanesGetNewer ==
    ASSUME IInv, LanesKept
    PROVE  LanesGetNewer
<1> SUFFICES ASSUME NEW k \in Keys, NEW l \in Lanes, registry.targets[k] # None,
                    registry'.targets[k] = registry.targets[k]
             PROVE  target'[registry.targets[k]].lane[l].generation >= target[registry.targets[k]].lane[l].generation
    BY DEF LanesGetNewer
<1> DEFINE o == registry.targets[k]
<1>1. o \in Registered(registry) /\ o \in Registered(registry)' /\ o \in Objects
    BY DEF Registered, IInv, Shaped
<1>2. target'[o].lane = target[o].lane
    BY <1>1 DEF LanesKept
<1>3. target[o].lane[l].generation \in Nat
    BY <1>1 DEF IInv, TypeOK, Target, LaneState
<1> QED
    BY <1>2, <1>3

\* A published lane is newer, and what was cached of the old one is gone.
LEMMA PublishedLanesAgree ==
    ASSUME IInv, NEW o \in Objects, LanePublished(o)
    PROVE  LanesGetNewer /\ (CacheAgrees => CacheAgrees')
<1>1. LanesGetNewer
    <2> SUFFICES ASSUME NEW k \in Keys, NEW l \in Lanes, registry.targets[k] # None
                 PROVE  target'[registry.targets[k]].lane[l].generation >= target[registry.targets[k]].lane[l].generation
        BY DEF LanesGetNewer
    <2> DEFINE p == registry.targets[k]
    <2>1. p \in Objects
        BY DEF IInv, Shaped
    <2>2. target[p].lane[l].generation \in Nat
        BY <2>1 DEF IInv, TypeOK, Target, LaneState
    <2>3. p = o => target'[p].lane[l].generation >= target[p].lane[l].generation
        BY DEF LanePublished
    <2>4. p # o => target'[p].lane = target[p].lane
        BY <2>1 DEF LanePublished
    <2>5. target'[p].lane[l].generation >= target[p].lane[l].generation
        BY <2>2, <2>3, <2>4
    <2> QED
        BY <2>5
<1>2. ASSUME CacheAgrees, NEW e \in Entries(registry'.response_cache)
      PROVE  /\ e.key \in Keys /\ registry'.targets[e.key] # None
             /\ Agrees(e, target'[registry'.targets[e.key]], now')
    <2> DEFINE p == registry.targets[e.key]
    <2>1. e.key \in Keys /\ p # None /\ Agrees(e, target[p], now) /\ registry'.targets[e.key] = p /\ now' = now
        BY <1>2 DEF CacheAgrees, LanePublished
    <2>2. p \in Objects /\ target[p] \in Target /\ target[p].key = e.key /\ now \in Nat
        BY <2>1 DEF IInv, Shaped, TypeOK, TargetsAgree
    <2> HIDE DEF p
    <2>3. target'[p].lane = target[p].lane
        BY <2>2 DEF LanePublished
    <2>4. Agrees(e, target'[p], now)
        BY <2>1, <2>2, <2>3, AgreementLasts
    <2> QED
        BY <2>1, <2>4
<1> QED
    BY <1>1, <1>2 DEF CacheAgrees

\* A step of a cycle or of a job changes neither a lane nor the cache, except a publication.
LEMMA OthersStep ==
    ASSUME IInv, (\E o \in Objects : CycleStep(o)) \/ (\E j \in jobs : Fetch(j) \/ Fail(j) \/ Discard(j))
    PROVE  IInv' /\ LanesKept /\ EntriesStay
<1>1. ASSUME NEW o \in Objects, CycleStep(o)
      PROVE  IInv' /\ SameLanes /\ UNCHANGED <<registry, now>>
    <2>1. ASSUME NEW l \in Lanes, StartLane(o, l) PROVE IInv' /\ SameLanes /\ UNCHANGED <<registry, now>>
        BY <2>1, StartLaneKeeps DEF StartLane, Aside
    <2>2. ASSUME NEW l \in Lanes, RefuseLane(o, l) PROVE IInv' /\ SameLanes /\ UNCHANGED <<registry, now>>
        BY <2>2, RefuseLaneKeeps DEF RefuseLane, Aside
    <2>3. CASE TimePasses(o)
        BY <2>3, TimePassesKeeps DEF TimePasses, Aside
    <2>4. CASE CycleCloses(o)
        BY <2>4, CycleClosesKeeps DEF CycleCloses, Aside
    <2>5. CASE CycleGone(o)
        BY <2>5, CycleGoneKeeps DEF CycleGone, Aside
    <2> QED
        BY <1>1, <2>1, <2>2, <2>3, <2>4, <2>5 DEF CycleStep
<1>2. ASSUME NEW j \in jobs, Fetch(j) \/ Fail(j) \/ Discard(j)
      PROVE  IInv' /\ SameLanes /\ UNCHANGED <<registry, now>>
    <2>1. CASE Fetch(j)
        BY <2>1, FetchKeeps DEF Fetch, Aside
    <2>2. CASE Fail(j)
        BY <2>2, FailKeeps DEF Fail, Aside
    <2>3. CASE Discard(j)
        BY <2>3, DiscardKeeps DEF Discard, Aside
    <2> QED
        BY <1>2, <2>1, <2>2, <2>3
<1> QED
    BY <1>1, <1>2, NothingCachedChanges

\* Nor does a step of a scrape, but for the entries it makes.
LEMMA ScrapesStep ==
    ASSUME IInv, read_all \/ Tick
    PROVE  IInv' /\ LanesKept /\ EntriesStay
<1>1. ASSUME NEW k \in Keys, ServedFromCache(k) PROVE IInv' /\ LanesKept /\ EntriesStay
    BY <1>1, ServedFromCacheKeeps, NothingCachedChanges DEF ServedFromCache
<1>2. ASSUME NEW k \in Keys, Overloaded(k) PROVE IInv' /\ LanesKept /\ EntriesStay
    BY <1>2, OverloadedKeeps
<1>3. ASSUME NEW s \in Scrapes, NEW k \in Keys, Admitted(s, k) PROVE IInv' /\ LanesKept /\ EntriesStay
    BY <1>3, AdmittedKeeps
<1>4. ASSUME NEW s \in Scrapes, Answer(s) PROVE IInv' /\ LanesKept /\ EntriesStay
    BY <1>4, AnswerKeeps
<1>5. ASSUME NEW s \in Scrapes, AnswerFailure(s) PROVE IInv' /\ LanesKept /\ EntriesStay
    BY <1>5, AnswerFailureKeeps, NothingCachedChanges DEF AnswerFailure
<1>6. CASE Tick
    BY <1>6, TickKeeps
<1> QED
    BY <1>1, <1>2, <1>3, <1>4, <1>5, <1>6 DEF read_all

\* Every step keeps both parts of the invariant, and no lane gets older.
LEMMA StepKeeps ==
    ASSUME IInv, Next
    PROVE  IInv' /\ LanesGetNewer /\ (CacheAgrees => CacheAgrees')
<1>1. CASE (\E o \in Objects : CycleStep(o)) \/ (\E j \in jobs : Fetch(j) \/ Fail(j) \/ Discard(j)) \/ read_all \/ Tick
    <2>1. IInv' /\ LanesKept /\ EntriesStay
        BY <1>1, OthersStep, ScrapesStep
    <2>2. now' \in Nat
        BY <2>1 DEF IInv, TypeOK
    <2> QED
        BY <2>1, <2>2, KeptLanesGetNewer, CacheKeepsAgreeing
<1>2. CASE \E j \in jobs : \E size \in SnapshotSizes : Publish(j, size)
    <2>1. PICK j \in jobs, size \in SnapshotSizes : Publish(j, size)
        BY <1>2
    <2>2. IInv' /\ LanePublished(j.target)
        BY <2>1, PublishKeeps
    <2>3. j.target \in Objects
        BY DEF IInv, TypeOK, Job
    <2> QED
        BY <2>2, <2>3, PublishedLanesAgree
<1> QED
    BY <1>1, <1>2 DEF Next, JobStep

\* And so does no step at all.
LEMMA StutteringKeeps ==
    ASSUME IInv, UNCHANGED vars
    PROVE  IInv' /\ (CacheAgrees => CacheAgrees')
<1>1. SamePlaces /\ registry'.total_snapshot_bytes_used = registry.total_snapshot_bytes_used
    BY RegistryStays DEF vars
<1>2. target' \in [Objects -> Target] /\ SameCycles /\ SameLanes /\ SameRequests /\ now' \in 0 .. MaxNow
    BY DEF vars, IInv, TypeOK, SameCycles, SameLanes, SameRequests
<1>3. IInv'
    BY <1>1, <1>2, NoScrapeActsKeeps DEF vars
<1>4. CacheAgrees => CacheAgrees'
    BY DEF vars, CacheAgrees
<1> QED
    BY <1>3, <1>4

\* The inductive invariant.
THEOREM Invariance == Spec => [](IInv /\ CacheAgrees)
<1>1. Init => IInv /\ CacheAgrees
    BY InitEstablishes
<1>2. IInv /\ CacheAgrees /\ [Next]_vars => (IInv /\ CacheAgrees)'
    BY StepKeeps, StutteringKeeps
<1> QED
    BY <1>1, <1>2, PTL DEF Spec

\* Every variable always has its type.
THEOREM TypeCorrect == Spec => []TypeOK
<1>1. IInv => TypeOK
    BY DEF IInv
<1> QED
    BY <1>1, Invariance, PTL

\* The total of snapshot bytes always is the number of bytes that the registered
\* targets hold, and never beyond its bound, although publications move it by the
\* difference to what their job read and evictions by what the target held; and as
\* many scrapes are counted as are under way, at most max_parallel_targets
\* (try_reserve_snapshot_bytes_delta, release_snapshot_bytes, read_all).
THEOREM AccountsStayTrue == Spec => []AccountsAreTrue
<1>1. IInv => AccountsAreTrue
    BY DEF IInv
<1> QED
    BY <1>1, Invariance, PTL

\* A scrape never waits for a lane that no cycle will run, settle or fail
\* (ensure_cycle, join_lane).
THEOREM WaitsAreAnswered == Spec => []NoScrapeWaitsInVain
<1>1. IInv => NoScrapeWaitsInVain
    BY DEF IInv
<1> QED
    BY <1>1, Invariance, PTL

\* No cycle, job that may publish or scrape that may cache a body ever outlives the
\* registration of its target, and nothing that a coordinator bounds the registration
\* of the coordinator (_evict_one_idle_locked, _remove_locked).
THEOREM TargetsOutliveTheirUse == Spec => []NothingOutlivesItsTarget
<1>1. ASSUME IInv PROVE NothingOutlivesItsTarget
    <2>1. \A k, l \in Keys : registry.targets[k] # None /\ registry.targets[k] = registry.targets[l] => k = l
        BY <1>1 DEF IInv, TargetsAgree
    <2>2. \A o \in Objects : target[o].phase # "none" => o \in Registered(registry)
        BY <1>1, NoneIsNoObject DEF IInv, TargetsAgree, Registered
    <2>3. \A j \in jobs : is_live(j) => j.target \in Registered(registry)
        BY <1>1, <2>2, LiveJobsHaveACycle
    <2>4. \A s \in Scrapes : scrapes[s].stage \in {"waiting", "woken"} =>
            registry.targets[scrapes[s].key] = scrapes[s].target
        BY <1>1 DEF IInv, ScrapesAgree, TargetsAgree
    <2>5. Registered(registry) \subseteq Objects
        BY <1>1, RegisteredAreObjects DEF IInv, Shaped
    <2>6. \A o \in Registered(registry) : target[o].phase # "none" =>
            target[o].coordinator = registry.bmc_coordinators[BmcOf[target[o].key]]
        BY <1>1, <2>5 DEF IInv, TargetsAgree
    <2>7. \A j \in jobs : j.fetching => \E b \in Bmcs : registry.bmc_coordinators[b] = j.coordinator
        BY <1>1 DEF IInv, JobsAgree
    <2> QED
        BY <2>1, <2>2, <2>3, <2>4, <2>6, <2>7 DEF NothingOutlivesItsTarget
<1> QED
    BY <1>1, Invariance, PTL

\* What is served from the cache always is of a registered target and of the lanes it
\* has now, with Fast data that is fresh and no fresh Slow data left out, whatever was
\* published, evicted or expired since it was stored (put, invalidate).
THEOREM CachedIsCurrent == Spec => []CacheIsCurrent
<1>1. ASSUME IInv, CacheAgrees PROVE CacheIsCurrent
    <2> SUFFICES ASSUME NEW k \in Keys, NEW e \in CachedBody(k)
                 PROVE  /\ registry.targets[k] # None
                        /\ LET x == target[registry.targets[k]]
                           IN  /\ e.body.fast = x.lane["fast"].generation
                               /\ is_usable(x, "fast", now)
                               /\ e.body.slow_generation # 0 => is_usable(x, "slow", now)
                               /\ IF is_usable(x, "slow", now)
                                  THEN e.body.slow = x.lane["slow"].generation
                                  ELSE e.body.slow \in {0, x.lane["slow"].generation}
        BY DEF CacheIsCurrent
    <2>1. e \in Entries(registry.response_cache) /\ e.key = k /\ ~(now > e.expires_at)
        BY EntriesOfKey DEF CachedBody, Cache!Hit
    <2> DEFINE x == target[registry.targets[k]]
    <2>2. registry.targets[k] # None /\ Agrees(e, x, now)
        BY <1>1, <2>1 DEF CacheAgrees
    <2>3. x \in Target /\ now \in Nat
        BY <1>1, <2>2 DEF IInv, Shaped, TypeOK
    <2> HIDE DEF x
    <2>4. /\ ttl_seconds["fast"] \in Nat /\ ttl_seconds["slow"] \in Nat
          /\ x.lane["fast"].last_success_at # None => x.lane["fast"].last_success_at \in Nat
          /\ x.lane["slow"].last_success_at # None => x.lane["slow"].last_success_at \in Nat
        BY <2>3, TargetRegistryAssumption DEF Target, Lanes, LaneState
    <2>5. is_usable(x, "fast", now) /\ (e.body.slow_generation # 0 => is_usable(x, "slow", now))
        BY <2>1, <2>2, <2>3, <2>4 DEF Agrees, is_usable
    <2> QED
        BY <2>2, <2>5 DEF Agrees, x
<1> QED
    BY <1>1, Invariance, PTL

\* While a target stays registered its lanes only ever get newer: no job that ends
\* late puts back what it read before another cycle published.
THEOREM LanesNeverGoBack == Spec => LanesOnlyGetNewer
<1>1. IInv /\ [Next]_vars => [\A k \in Keys : \A l \in Lanes :
        LET o == registry.targets[k]
        IN  o # None /\ registry'.targets[k] = o =>
                target'[o].lane[l].generation >= target[o].lane[l].generation]_vars
    BY StepKeeps DEF LanesGetNewer
<1> QED
    BY <1>1, Invariance, PTL DEF Spec, LanesOnlyGetNewer
-----------------------------------------------------------------------------
(* TargetRegistry implements TargetCycle: what a step shows of the cycle of *)
(* an object is nothing, or a step of the abstract cycle.                   *)

Shown(phase, requested, running, slow_may) ==
    [phase |-> phase, requested |-> requested, running |-> running, slow_may |-> slow_may]

Hidden == Shown("none", {}, {}, "follow")

\* Of an object that has no cycle nothing is left of the last one.
AtRest == \A p \in Objects : target[p].phase = "none" => View(p) = Hidden

\* What ImplementsTargetCycle asks of a step, for object p.
KeepsToCycle(p) == [TargetCycle(p)!CycleNext]_(TargetCycle(p)!seen)

\* The parts of what is shown.
LEMMA ViewIsShown ==
    ASSUME NEW p
    PROVE  /\ View(p) = Shown(target[p].phase, target[p].requested, RunningLanes(p), target[p].slow_may)
           /\ View(p)' = Shown(target'[p].phase, target'[p].requested, RunningLanes(p)', target'[p].slow_may)
           /\ View(p).phase = target[p].phase
           /\ View(p).requested = target[p].requested
           /\ View(p).running = RunningLanes(p)
           /\ View(p).slow_may = target[p].slow_may
BY DEF View, Shown

\* Both modules have the same lanes, and the same absence of a cycle.
LEMMA SameTerms ==
    ASSUME NEW p
    PROVE  TargetCycle(p)!Lanes = Lanes /\ TargetCycle(p)!Absent = Hidden
BY DEF TargetCycle!Lanes, TargetCycle!Absent, Lanes, Hidden, Shown

\* A step that shows nothing.
LEMMA NothingShown ==
    ASSUME NEW p, target'[p].phase = target[p].phase, target'[p].requested = target[p].requested,
           target'[p].slow_may = target[p].slow_may, RunningLanes(p)' = RunningLanes(p)
    PROVE  KeepsToCycle(p)
<1>1. View(p)' = View(p)
    BY ViewIsShown
<1> QED
    BY <1>1 DEF KeepsToCycle, TargetCycle!seen

\* Changes of several parts of what is shown.
Turned(v, asked, lanes, slow) == [v EXCEPT !.requested = asked, !.running = lanes, !.slow_may = slow]
Phased(v, phase, asked) == [v EXCEPT !.phase = phase, !.requested = asked]

LEMMA RequestedChanges ==
    ASSUME NEW p, NEW lanes
    PROVE  /\ [View(p) EXCEPT !.requested = lanes] =
                  Shown(target[p].phase, lanes, RunningLanes(p), target[p].slow_may)
           /\ Phased(View(p), "closing", lanes) =
                  Shown("closing", lanes, RunningLanes(p), target[p].slow_may)
           /\ Phased(View(p), "open", lanes) =
                  Shown("open", lanes, RunningLanes(p), target[p].slow_may)
<1> DEFINE v == View(p)
           phase == target[p].phase
           requested == target[p].requested
           running == RunningLanes(p)
           may == target[p].slow_may
           closing == Shown("closing", requested, running, may)
           open == Shown("open", requested, running, may)
<1>1. v = Shown(phase, requested, running, may)
    BY ViewIsShown
<1> HIDE DEF v, phase, requested, running, may
<1>2. [v EXCEPT !.requested = lanes] = Shown(phase, lanes, running, may)
    BY <1>1 DEF Shown
<1>3. [v EXCEPT !.phase = "closing"] = closing /\ [v EXCEPT !.phase = "open"] = open
    BY <1>1 DEF Shown
<1>4. /\ [closing EXCEPT !.requested = lanes] = Shown("closing", lanes, running, may)
      /\ [open EXCEPT !.requested = lanes] = Shown("open", lanes, running, may)
    BY DEF Shown
<1> HIDE DEF closing, open
<1>5. /\ Phased(v, "closing", lanes) = Shown("closing", lanes, running, may)
      /\ Phased(v, "open", lanes) = Shown("open", lanes, running, may)
    BY <1>3, <1>4 DEF Phased
<1> QED
    BY <1>2, <1>5 DEF v, phase, running, may

LEMMA RunningChanges ==
    ASSUME NEW p, NEW lanes, NEW slow
    PROVE  [View(p) EXCEPT !.running = lanes, !.slow_may = slow] =
                  Shown(target[p].phase, target[p].requested, lanes, slow)
<1> DEFINE v == View(p)
           phase == target[p].phase
           requested == target[p].requested
           running == RunningLanes(p)
           may == target[p].slow_may
           run == Shown(phase, requested, lanes, may)
<1>1. v = Shown(phase, requested, running, may)
    BY ViewIsShown
<1> HIDE DEF v, phase, requested, running, may
<1>2. [v EXCEPT !.running = lanes] = run
    BY <1>1 DEF Shown
<1>3. [run EXCEPT !.slow_may = slow] = Shown(phase, requested, lanes, slow)
    BY DEF Shown
<1> HIDE DEF run
<1>4. [v EXCEPT !.running = lanes, !.slow_may = slow] = Shown(phase, requested, lanes, slow)
    BY <1>2, <1>3
<1> QED
    BY <1>4 DEF v, phase, requested

LEMMA TurnChanges ==
    ASSUME NEW p, NEW asked, NEW lanes, NEW slow
    PROVE  Turned(View(p), asked, lanes, slow) = Shown(target[p].phase, asked, lanes, slow)
<1> DEFINE v == View(p)
           phase == target[p].phase
           requested == target[p].requested
           running == RunningLanes(p)
           may == target[p].slow_may
           v1 == Shown(phase, asked, running, may)
           v2 == Shown(phase, asked, lanes, may)
<1>1. v = Shown(phase, requested, running, may)
    BY ViewIsShown
<1> HIDE DEF v, phase, requested, running, may
<1>2. [v EXCEPT !.requested = asked] = v1
    BY <1>1 DEF Shown
<1>3. [v1 EXCEPT !.running = lanes] = v2
    BY DEF Shown
<1>4. [v2 EXCEPT !.slow_may = slow] = Shown(phase, asked, lanes, slow)
    BY DEF Shown
<1> HIDE DEF v1, v2
<1>5. Turned(v, asked, lanes, slow) = Shown(phase, asked, lanes, slow)
    BY <1>2, <1>3, <1>4 DEF Turned
<1> QED
    BY <1>5 DEF v, phase

LEMMA PhaseChanges ==
    ASSUME NEW p
    PROVE  /\ [View(p) EXCEPT !.phase = "late"] =
                  Shown("late", target[p].requested, RunningLanes(p), target[p].slow_may)
           /\ [View(p) EXCEPT !.phase = "expired"] =
                  Shown("expired", target[p].requested, RunningLanes(p), target[p].slow_may)
BY DEF View, Shown

\* A lane is started.
LEMMA StartShown ==
    ASSUME NEW p, NEW l \in Lanes, target[p].phase = "open",
           l \in target[p].requested \ RunningLanes(p),
           l = "slow" => \/ target[p].slow_may = "start"
                         \/ target[p].slow_may = "follow" /\ "fast" \notin target[p].requested \cup RunningLanes(p),
           target'[p].phase = "open", target'[p].requested = target[p].requested \ {l},
           target'[p].slow_may = IF l = "slow" THEN "start" ELSE target[p].slow_may,
           RunningLanes(p)' = RunningLanes(p) \cup {l}
    PROVE  KeepsToCycle(p)
<1> DEFINE may == IF "slow" \in {l} THEN "start" ELSE target[p].slow_may
<1>1. View(p)' = [View(p) EXCEPT !.requested = target[p].requested \ ({l} \cup {}),
                                 !.running = RunningLanes(p) \cup {l}, !.slow_may = may]
    <2> DEFINE asked == target[p].requested \ ({l} \cup {})
               lanes == RunningLanes(p) \cup {l}
    <2>1. View(p)' = Shown(target[p].phase, asked, lanes, may)
        BY ViewIsShown, {l} \cup {} = {l}
    <2> HIDE DEF may, asked, lanes
    <2>2. View(p)' = Turned(View(p), asked, lanes, may)
        BY <2>1, TurnChanges
    <2> QED
        BY <2>2 DEF asked, lanes, Turned
<1>2. TargetCycle(p)!Turn({l}, {})
    BY <1>1, ViewIsShown DEF TargetCycle!Turn, TargetCycle!IsAccepting, TargetCycle!SlowMayStart, TargetCycle!Refusable
<1>3. {l} \in SUBSET TargetCycle(p)!Lanes /\ {} \in SUBSET TargetCycle(p)!Lanes
    BY SameTerms
<1> QED
    BY <1>2, <1>3 DEF KeepsToCycle, TargetCycle!CycleNext

\* A lane is refused.
LEMMA RefusalShown ==
    ASSUME NEW p, NEW l \in Lanes, l \in target[p].requested,
           \/ target[p].phase \in {"late", "expired"}
           \/ l = "slow" /\ target[p].phase = "open" /\ target[p].slow_may = "not",
           target'[p].phase = target[p].phase, target'[p].requested = target[p].requested \ {l},
           target'[p].slow_may = target[p].slow_may, RunningLanes(p)' = RunningLanes(p)
    PROVE  KeepsToCycle(p)
<1> DEFINE may == IF "slow" \in {} THEN "start" ELSE target[p].slow_may
<1>1. View(p)' = [View(p) EXCEPT !.requested = target[p].requested \ ({} \cup {l}),
                                 !.running = RunningLanes(p) \cup {}, !.slow_may = may]
    <2> DEFINE asked == target[p].requested \ ({} \cup {l})
               lanes == RunningLanes(p) \cup {}
    <2>1. View(p)' = Shown(target[p].phase, asked, lanes, may)
        BY ViewIsShown, {} \cup {l} = {l}, RunningLanes(p) \cup {} = RunningLanes(p)
    <2> HIDE DEF may, asked, lanes
    <2>2. View(p)' = Turned(View(p), asked, lanes, may)
        BY <2>1, TurnChanges
    <2> QED
        BY <2>2 DEF asked, lanes, Turned
<1>2. TargetCycle(p)!Turn({}, {l})
    BY <1>1, ViewIsShown DEF TargetCycle!Turn, TargetCycle!IsAccepting, TargetCycle!SlowMayStart, TargetCycle!Refusable
<1>3. {l} \in SUBSET TargetCycle(p)!Lanes /\ {} \in SUBSET TargetCycle(p)!Lanes
    BY SameTerms
<1> QED
    BY <1>2, <1>3 DEF KeepsToCycle, TargetCycle!CycleNext

\* A job of the cycle ends.
LEMMA EndShown ==
    ASSUME NEW p, NEW l \in Lanes, NEW b \in BOOLEAN, l \in RunningLanes(p),
           target'[p].phase = target[p].phase, target'[p].requested = target[p].requested,
           target'[p].slow_may = IF b /\ l = "fast" /\ target[p].slow_may = "follow"
                                 THEN "not" ELSE target[p].slow_may,
           RunningLanes(p)' = RunningLanes(p) \ {l}
    PROVE  KeepsToCycle(p)
<1> DEFINE may == IF b /\ l = "fast" /\ target[p].slow_may = "follow" THEN "not" ELSE target[p].slow_may
<1>1. View(p)' = [View(p) EXCEPT !.running = RunningLanes(p) \ {l}, !.slow_may = may]
    <2>1. View(p)' = Shown(target[p].phase, target[p].requested, RunningLanes(p) \ {l}, may)
        BY ViewIsShown
    <2> HIDE DEF may
    <2> QED
        BY <2>1, RunningChanges
<1>2. TargetCycle(p)!JobEnds(l, b)
    BY <1>1, ViewIsShown DEF TargetCycle!JobEnds
<1> QED
    BY <1>2, SameTerms DEF KeepsToCycle, TargetCycle!CycleNext

\* Time passes, or the cycle closes.
LEMMA PhaseShown ==
    ASSUME NEW p,
           \/ target[p].phase = "open" /\ target'[p].phase = "late"
           \/ target[p].phase = "late" /\ target'[p].phase = "expired"
           \/ /\ target[p].phase \in {"open", "late", "expired"}
              /\ target[p].phase = "expired" \/ RunningLanes(p) = {}
              /\ target'[p].phase = "closing",
           target'[p].requested = target[p].requested, target'[p].slow_may = target[p].slow_may,
           RunningLanes(p)' = RunningLanes(p)
    PROVE  KeepsToCycle(p)
<1>1. View(p)' = Shown(target'[p].phase, target[p].requested, RunningLanes(p), target[p].slow_may)
    BY ViewIsShown
<1>2. CASE target'[p].phase \in {"late", "expired"}
    <2>1. TargetCycle(p)!TimePasses
        BY <1>1, <1>2, ViewIsShown, PhaseChanges DEF TargetCycle!TimePasses
    <2> QED
        BY <2>1 DEF KeepsToCycle, TargetCycle!CycleNext
<1>3. CASE target'[p].phase = "closing"
    <2>1. View(p)' = [View(p) EXCEPT !.phase = "closing", !.requested = target[p].requested \ {}]
        <3> DEFINE lanes == target[p].requested \ {}
        <3>1. lanes = target[p].requested
            OBVIOUS
        <3> HIDE DEF lanes
        <3>2. View(p)' = Phased(View(p), "closing", lanes)
            BY <1>1, <1>3, <3>1, RequestedChanges
        <3> QED
            BY <3>2 DEF lanes, Phased
    <2>2. TargetCycle(p)!Close({})
        BY <1>3, <2>1, ViewIsShown DEF TargetCycle!Close, TargetCycle!IsAccepting, TargetCycle!Refusable
    <2>3. {} \in SUBSET TargetCycle(p)!Lanes
        OBVIOUS
    <2> QED
        BY <2>2, <2>3 DEF KeepsToCycle, TargetCycle!CycleNext
<1> QED
    BY <1>2, <1>3

\* The cycle is gone.
LEMMA GoneShown ==
    ASSUME NEW p, target[p].phase = "closing", target'[p].phase = "none", target'[p].requested = {},
           target'[p].slow_may = "follow", RunningLanes(p)' = {}
    PROVE  KeepsToCycle(p)
<1>1. View(p)' = Hidden
    BY ViewIsShown DEF Hidden
<1>2. TargetCycle(p)!Gone
    BY <1>1, ViewIsShown, SameTerms DEF TargetCycle!Gone
<1> QED
    BY <1>2 DEF KeepsToCycle, TargetCycle!CycleNext

\* A cycle begins, of an object at rest.
LEMMA OpeningShown ==
    ASSUME NEW p, NEW due \in SUBSET Lanes, due # {}, View(p) = Hidden,
           target'[p].phase = "open", target'[p].requested = due, target'[p].slow_may = "follow",
           RunningLanes(p)' = RunningLanes(p)
    PROVE  KeepsToCycle(p)
<1>1. target[p].slow_may = "follow"
    BY ViewIsShown DEF Hidden, Shown
<1>2. View(p)' = [View(p) EXCEPT !.phase = "open", !.requested = due]
    <2>1. View(p)' = Shown("open", due, RunningLanes(p), target[p].slow_may)
        BY <1>1, ViewIsShown
    <2>2. View(p)' = Phased(View(p), "open", due)
        BY <2>1, RequestedChanges
    <2> QED
        BY <2>2 DEF Phased
<1>3. TargetCycle(p)!Open(due)
    BY <1>2, SameTerms DEF TargetCycle!Open
<1> QED
    BY <1>3, SameTerms DEF KeepsToCycle, TargetCycle!CycleNext

\* Lanes are requested of a cycle that accepts them.
LEMMA AttachShown ==
    ASSUME NEW p, NEW due \in SUBSET Lanes, target[p].phase \in {"open", "late", "expired"},
           target'[p].phase = target[p].phase,
           target'[p].requested = target[p].requested \cup (due \ RunningLanes(p)),
           target'[p].slow_may = target[p].slow_may, RunningLanes(p)' = RunningLanes(p)
    PROVE  KeepsToCycle(p)
<1>1. View(p)' = [View(p) EXCEPT !.requested = target[p].requested \cup (due \ RunningLanes(p))]
    <2> DEFINE lanes == target[p].requested \cup (due \ RunningLanes(p))
    <2>1. View(p)' = Shown(target[p].phase, lanes, RunningLanes(p), target[p].slow_may)
        BY ViewIsShown
    <2> HIDE DEF lanes
    <2>2. View(p)' = [View(p) EXCEPT !.requested = lanes]
        BY <2>1, RequestedChanges
    <2> QED
        BY <2>2 DEF lanes
<1>2. TargetCycle(p)!Attach(due)
    BY <1>1, ViewIsShown DEF TargetCycle!Attach, TargetCycle!IsAccepting
<1> QED
    BY <1>2, SameTerms DEF KeepsToCycle, TargetCycle!CycleNext

\* An object at rest is so again after its next cycle.
LEMMA RestLasts ==
    ASSUME AtRest, \A p \in Objects : KeepsToCycle(p)
    PROVE  AtRest'
<1> SUFFICES ASSUME NEW p \in Objects, target'[p].phase = "none"
             PROVE  View(p)' = Hidden
    BY DEF AtRest
<1>1. /\ View(p)'.phase = "none"
      /\ View(p).phase = "none" => View(p) = Hidden
    BY ViewIsShown DEF AtRest, Shown
<1>2. View(p) = Shown(View(p).phase, View(p).requested, View(p).running, View(p).slow_may)
    BY ViewIsShown
<1>3. CASE TargetCycle(p)!CycleNext
    <2>1. ASSUME NEW due, TargetCycle(p)!Open(due) PROVE FALSE
        BY <1>1, <2>1, SameTerms DEF TargetCycle!Open, Hidden, Shown
    <2>2. ASSUME NEW due, TargetCycle(p)!Attach(due) PROVE FALSE
        BY <1>1, <1>2, <2>2 DEF TargetCycle!Attach, TargetCycle!IsAccepting, Shown
    <2>3. ASSUME NEW started, NEW refused, TargetCycle(p)!Turn(started, refused) PROVE FALSE
        BY <1>1, <1>2, <2>3 DEF TargetCycle!Turn, TargetCycle!IsAccepting, Shown
    <2>4. ASSUME NEW l, NEW b, TargetCycle(p)!JobEnds(l, b) PROVE FALSE
        BY <1>1, <1>2, <2>4 DEF TargetCycle!JobEnds, Hidden, Shown
    <2>5. ASSUME TargetCycle(p)!TimePasses PROVE FALSE
        BY <1>1, <1>2, <2>5 DEF TargetCycle!TimePasses, Shown
    <2>6. ASSUME NEW refused, TargetCycle(p)!Close(refused) PROVE FALSE
        BY <1>1, <1>2, <2>6 DEF TargetCycle!Close, Shown
    <2>7. CASE TargetCycle(p)!Gone
        BY <2>7, SameTerms DEF TargetCycle!Gone
    <2>8. ASSUME TargetCycle(p)!ShutDown PROVE FALSE
        BY <2>8 DEF TargetCycle!ShutDown
    <2> QED
        BY <1>3, <2>1, <2>2, <2>3, <2>4, <2>5, <2>6, <2>7, <2>8 DEF TargetCycle!CycleNext
<1>4. CASE View(p)' = View(p)
    BY <1>1, <1>4
<1> QED
    BY <1>3, <1>4 DEF KeepsToCycle, TargetCycle!seen

\* A step of one object's cycle shows nothing of the others.
LEMMA OthersShowNothing ==
    ASSUME NEW o, KeepsToCycle(o),
           \A p \in Objects : p # o =>
              target'[p] = target[p] /\ \A l \in Lanes : Running(p, l)' <=> Running(p, l)
    PROVE  \A p \in Objects : KeepsToCycle(p)
<1> SUFFICES ASSUME NEW p \in Objects, p # o PROVE KeepsToCycle(p)
    OBVIOUS
<1>1. RunningLanes(p)' = RunningLanes(p)
    BY DEF RunningLanes
<1> QED
    BY <1>1, NothingShown

\* Lanes that run are lanes, each because of a job.
LEMMA RunningAre ==
    ASSUME NEW p
    PROVE  /\ RunningLanes(p) \subseteq Lanes
           /\ \A l \in Lanes : l \in RunningLanes(p) <=> \E j \in jobs : OfCycle(j, p) /\ j.lane = l
BY DEF RunningLanes, Running

LEMMA StartLaneFollows ==
    ASSUME IInv, NEW o \in Objects, NEW l \in Lanes, StartLane(o, l)
    PROVE  \A p \in Objects : KeepsToCycle(p)
<1> DEFINE x == [target[o] EXCEPT !.requested = @ \ {l},
                                  !.slow_may = IF l = "slow" THEN "start" ELSE @]
           new == [target |-> o, lane |-> l, read |-> target[o].lane[l],
                   coordinator |-> target[o].coordinator, fetching |-> FALSE, late |-> FALSE]
<1>1. target[o] \in Target
    BY DEF IInv, TypeOK
<1>2. /\ x.phase = target[o].phase /\ x.requested = target[o].requested \ {l}
      /\ x.slow_may = IF l = "slow" THEN "start" ELSE target[o].slow_may
    BY <1>1 DEF Target
<1>3. target' = [target EXCEPT ![o] = x] /\ jobs' = jobs \cup {new}
    BY DEF StartLane
<1>4. new.target = o /\ new.lane = l /\ new.late = FALSE
    OBVIOUS
<1> HIDE DEF x, new
<1>5. \A p \in Objects : target'[p] = IF p = o THEN x ELSE target[p]
    BY <1>3 DEF IInv, TypeOK
<1>6. \A p, m : Running(p, m)' <=> Running(p, m) \/ (p = o /\ m = l)
    BY <1>3, <1>4 DEF Running, OfCycle
<1>7. RunningLanes(o)' = RunningLanes(o) \cup {l}
    BY <1>6 DEF RunningLanes
<1>8. l \notin RunningLanes(o)
    BY DEF StartLane, RunningLanes
<1>9. l = "slow" => \/ target[o].slow_may = "start"
                    \/ target[o].slow_may = "follow" /\ "fast" \notin target[o].requested \cup RunningLanes(o)
    BY DEF StartLane, RunningLanes
<1>10. target[o].phase = "open" /\ l \in target[o].requested
    BY DEF StartLane
<1>11. KeepsToCycle(o)
    BY <1>2, <1>5, <1>7, <1>8, <1>9, <1>10, StartShown
<1>12. \A p \in Objects : p # o => target'[p] = target[p] /\ \A m \in Lanes : Running(p, m)' <=> Running(p, m)
    BY <1>5, <1>6
<1> QED
    BY <1>11, <1>12, OthersShowNothing

LEMMA CycleMovesFollows ==
    ASSUME IInv, NEW o \in Objects,
           (\E l \in Lanes : RefuseLane(o, l)) \/ TimePasses(o) \/ CycleCloses(o)
    PROVE  \A p \in Objects : KeepsToCycle(p)
<1>1. target[o] \in Target /\ jobs' = jobs
    BY DEF IInv, TypeOK, RefuseLane, TimePasses, CycleCloses
<1>2. \A p, m : Running(p, m)' <=> Running(p, m)
    BY <1>1, RunningStays
<1>3. RunningLanes(o)' = RunningLanes(o)
    BY <1>2 DEF RunningLanes
<1>4. \A p \in Objects : p # o => target'[p] = target[p]
    BY DEF IInv, TypeOK, RefuseLane, TimePasses, CycleCloses
<1>5. KeepsToCycle(o)
    <2>1. ASSUME NEW l \in Lanes, RefuseLane(o, l) PROVE KeepsToCycle(o)
        <3>1. /\ target'[o].phase = target[o].phase /\ target'[o].requested = target[o].requested \ {l}
              /\ target'[o].slow_may = target[o].slow_may
            BY <1>1, <2>1 DEF IInv, TypeOK, RefuseLane, Target
        <3>2. /\ l \in target[o].requested
              /\ \/ target[o].phase \in {"late", "expired"}
                 \/ l = "slow" /\ target[o].phase = "open" /\ target[o].slow_may = "not"
            BY <2>1 DEF RefuseLane
        <3> QED
            BY <1>3, <3>1, <3>2, RefusalShown
    <2>2. CASE TimePasses(o)
        <3>1. /\ target'[o].phase = IF target[o].phase = "open" THEN "late" ELSE "expired"
              /\ target'[o].requested = target[o].requested
              /\ target'[o].slow_may = target[o].slow_may
              /\ target[o].phase \in {"open", "late"}
            BY <1>1, <2>2 DEF IInv, TypeOK, TimePasses, Target
        <3> QED
            BY <1>3, <3>1, PhaseShown
    <2>3. CASE CycleCloses(o)
        <3>1. /\ target'[o].phase = "closing"
              /\ target'[o].requested = target[o].requested
              /\ target'[o].slow_may = target[o].slow_may
            BY <1>1, <2>3 DEF IInv, TypeOK, CycleCloses, Target
        <3>2. target[o].phase = "expired" \/ (target[o].phase \in {"open", "late"} /\ RunningLanes(o) = {})
            BY <2>3 DEF CycleCloses, RunningLanes
        <3> QED
            BY <1>3, <3>1, <3>2, PhaseShown
    <2> QED
        BY <2>1, <2>2, <2>3
<1> QED
    BY <1>2, <1>4, <1>5, OthersShowNothing

\* Jobs that outlive their cycle are not shown any more.
LEMMA CycleGoneFollows ==
    ASSUME IInv, NEW o \in Objects, CycleGone(o)
    PROVE  \A p \in Objects : KeepsToCycle(p)
<1>1. target[o] \in Target /\ target[o].phase = "closing" /\ jobs \subseteq Job
    BY DEF IInv, TypeOK, CycleGone
<1>2. target'[o].phase = "none" /\ target'[o].requested = {} /\ target'[o].slow_may = "follow"
    <2> DEFINE x == [target[o] EXCEPT !.phase = "none", !.requested = {},
                                      !.slow_may = "follow", !.coordinator = None]
    <2>1. x.phase = "none" /\ x.requested = {} /\ x.slow_may = "follow"
        BY <1>1 DEF Target
    <2>2. target' = [target EXCEPT ![o] = x]
        BY DEF CycleGone
    <2> HIDE DEF x
    <2> QED
        BY <2>1, <2>2 DEF IInv, TypeOK
<1>3. \A p \in Objects : p # o => target'[p] = target[p]
    BY DEF IInv, TypeOK, CycleGone
<1>4. jobs' = {IF OfCycle(j, o) THEN [j EXCEPT !.late = TRUE] ELSE j : j \in jobs}
    BY DEF CycleGone
<1>5. \A j \in jobs' : ~j.late => j \in jobs /\ j.target # o
    <2>1. ASSUME NEW j \in jobs', ~j.late PROVE j \in jobs /\ j.target # o
        <3>1. PICK i \in jobs : j = IF OfCycle(i, o) THEN [i EXCEPT !.late = TRUE] ELSE i
            BY <1>4, <2>1
        <3> QED
            BY <1>1, <2>1, <3>1 DEF Job, OfCycle
    <2> QED
        BY <2>1
<1>6. \A i \in jobs : i.target # o => i \in jobs'
    BY <1>4 DEF OfCycle
<1>7. RunningLanes(o)' = {}
    BY <1>5 DEF RunningLanes, Running, OfCycle
<1>8. \A p, m : p # o => (Running(p, m)' <=> Running(p, m))
    BY <1>5, <1>6 DEF Running, OfCycle
<1>9. KeepsToCycle(o)
    BY <1>1, <1>2, <1>7, GoneShown
<1> QED
    BY <1>3, <1>8, <1>9, OthersShowNothing

\* A job that ends is missed by its own cycle only, and not even there if it is late.
LEMMA JobEndsFollows ==
    ASSUME IInv, NEW j \in jobs, jobs' = jobs \ {j}, NEW b \in BOOLEAN,
           \A p \in Objects : target'[p].phase = target[p].phase /\ target'[p].requested = target[p].requested,
           \A p \in Objects : p # j.target => target'[p].slow_may = target[p].slow_may,
           target'[j.target].slow_may =
              IF b /\ j.lane = "fast" /\ target[j.target].slow_may = "follow"
              THEN "not" ELSE target[j.target].slow_may,
           j.late => ~b
    PROVE  \A p \in Objects : KeepsToCycle(p)
<1>1. j.target \in Objects /\ j.lane \in Lanes
    BY DEF IInv, TypeOK, Job
<1>2. ASSUME NEW p \in Objects, p # j.target \/ j.late PROVE KeepsToCycle(p)
    <2>1. \A m : Running(p, m)' <=> Running(p, m)
        BY <1>2 DEF Running, OfCycle
    <2>2. RunningLanes(p)' = RunningLanes(p)
        BY <2>1 DEF RunningLanes
    <2>3. target'[p].slow_may = target[p].slow_may
        BY <1>2
    <2> QED
        BY <2>2, <2>3, NothingShown
<1>3. ASSUME ~j.late PROVE KeepsToCycle(j.target)
    <2>1. \A i \in jobs : ~i.late /\ i.target = j.target /\ i.lane = j.lane => i = j
        BY <1>3 DEF IInv, JobsAgree
    <2>2. \A m : Running(j.target, m)' <=> Running(j.target, m) /\ m # j.lane
        BY <1>3, <2>1 DEF Running, OfCycle
    <2>3. RunningLanes(j.target)' = RunningLanes(j.target) \ {j.lane}
        BY <2>2 DEF RunningLanes
    <2>4. j.lane \in RunningLanes(j.target)
        BY <1>1, <1>3 DEF RunningLanes, Running, OfCycle
    <2> QED
        BY <1>1, <2>3, <2>4, EndShown
<1> QED
    BY <1>2, <1>3

LEMMA JobStepFollows ==
    ASSUME IInv, NEW j \in jobs, JobStep(j)
    PROVE  \A p \in Objects : KeepsToCycle(p)
<1>1. j \in Job /\ j.target \in Objects /\ target[j.target] \in Target /\ jobs \subseteq Job
    BY DEF IInv, TypeOK, Job
<1>2. CASE Fetch(j)
    <2> DEFINE new == [j EXCEPT !.fetching = ~@]
    <2>1. new.target = j.target /\ new.lane = j.lane /\ new.late = j.late
        BY <1>1 DEF Job
    <2>2. jobs' = (jobs \ {j}) \cup {new} /\ target' = target
        BY <1>2 DEF Fetch
    <2> HIDE DEF new
    <2>3. \A p, m : Running(p, m)' <=> Running(p, m)
        BY <2>1, <2>2 DEF Running, OfCycle
    <2>4. \A p : RunningLanes(p)' = RunningLanes(p)
        BY <2>3 DEF RunningLanes
    <2> QED
        BY <2>2, <2>4, NothingShown
<1>3. ASSUME NEW size \in SnapshotSizes, Publish(j, size) PROVE \A p \in Objects : KeepsToCycle(p)
    <2> DEFINE state == IF Rejected(j, size) THEN failed(j.read) ELSE published(j.read, size)
               x == [target[j.target] EXCEPT !.lane[j.lane] = state, !.slow_disabled = @ \/ SlowDisabled(j, size)]
    <2>1. target' = [target EXCEPT ![j.target] = x] /\ jobs' = jobs \ {j}
        BY <1>3 DEF Publish
    <2> HIDE DEF state
    <2>2. /\ x.phase = target[j.target].phase /\ x.requested = target[j.target].requested
          /\ x.slow_may = target[j.target].slow_may
        BY <1>1 DEF Target
    <2> HIDE DEF x
    <2>3. \A p \in Objects : /\ target'[p].phase = target[p].phase /\ target'[p].requested = target[p].requested
                             /\ target'[p].slow_may = target[p].slow_may
        BY <2>1, <2>2 DEF IInv, TypeOK
    <2> QED
        BY <1>1, <2>1, <2>3, FALSE \in BOOLEAN, JobEndsFollows
<1>4. CASE Fail(j)
    <2> DEFINE x == [target[j.target] EXCEPT !.lane[j.lane] = failed(j.read),
                        !.slow_may = IF j.lane = "fast" /\ @ = "follow" THEN "not" ELSE @]
    <2>1. target' = [target EXCEPT ![j.target] = x] /\ jobs' = jobs \ {j} /\ ~j.late
        BY <1>4 DEF Fail, is_live
    <2>2. /\ x.phase = target[j.target].phase /\ x.requested = target[j.target].requested
          /\ x.slow_may = IF j.lane = "fast" /\ target[j.target].slow_may = "follow"
                          THEN "not" ELSE target[j.target].slow_may
        BY <1>1 DEF Target
    <2> HIDE DEF x
    <2>3. /\ \A p \in Objects : target'[p].phase = target[p].phase /\ target'[p].requested = target[p].requested
          /\ \A p \in Objects : p # j.target => target'[p].slow_may = target[p].slow_may
          /\ target'[j.target].slow_may = x.slow_may
        BY <1>1, <2>1, <2>2 DEF IInv, TypeOK
    <2> QED
        BY <2>1, <2>2, <2>3, TRUE \in BOOLEAN, JobEndsFollows
<1>5. CASE Discard(j)
    <2>1. target' = target /\ jobs' = jobs \ {j}
        BY <1>5 DEF Discard
    <2> QED
        BY <2>1, FALSE \in BOOLEAN, JobEndsFollows
<1> QED
    BY <1>2, <1>3, <1>4, <1>5 DEF JobStep

\* Where cycles stay and jobs do, nothing is shown.
LEMMA QuietFollows ==
    ASSUME UNCHANGED jobs,
           \A p \in Objects : /\ target'[p].phase = target[p].phase
                              /\ target'[p].requested = target[p].requested
                              /\ target'[p].slow_may = target[p].slow_may
    PROVE  \A p \in Objects : KeepsToCycle(p)
<1>1. \A p : RunningLanes(p)' = RunningLanes(p)
    BY RunningStays DEF RunningLanes
<1> QED
    BY <1>1, NothingShown

\* A scrape that has found object o leaves it as y and the others as they are shown:
\* of those it drops nothing is shown either way.
LEMMA FoundFollows ==
    ASSUME IInv, AtRest, UNCHANGED jobs, NEW k \in Keys, NEW r, NEW o, Prepared(k, r, o),
           NEW y, target' = Targets(r, o, y), target'[o] = y => KeepsToCycle(o)
    PROVE  \A p \in Objects : KeepsToCycle(p)
<1>1. o \in Objects
    BY DEF Prepared
<1>2. \A p \in Objects : target'[p] =
        IF p = o THEN y
        ELSE IF p \in Registered(r) \/ target[p].phase # "none" THEN target[p]
        ELSE NewTarget(None)
    BY DEF Targets
<1>3. \A p : RunningLanes(p)' = RunningLanes(p)
    BY RunningStays DEF RunningLanes
<1> SUFFICES ASSUME NEW p \in Objects, p # o PROVE KeepsToCycle(p)
    BY <1>1, <1>2
<1>4. CASE p \in Registered(r) \/ target[p].phase # "none"
    BY <1>2, <1>3, <1>4, NothingShown
<1>5. CASE ~(p \in Registered(r) \/ target[p].phase # "none")
    <2>1. target[p].phase = "none" /\ target[p].requested = {} /\ target[p].slow_may = "follow"
        BY <1>5, ViewIsShown DEF AtRest, Hidden, Shown
    <2>2. target'[p].phase = "none" /\ target'[p].requested = {} /\ target'[p].slow_may = "follow"
        BY <1>2, <1>5 DEF NewTarget
    <2> QED
        BY <1>3, <2>1, <2>2, NothingShown
<1> QED
    BY <1>4, <1>5

LEMMA AdmittedFollows ==
    ASSUME IInv, AtRest, NEW k \in Keys, NEW s \in Scrapes, Admitted(s, k)
    PROVE  \A p \in Objects : KeepsToCycle(p)
<1>1. PICK found \in Obtained(Missed(k), k) : Collect(s, k, found)
    BY DEF Admitted
<1>2. Objects \ InUse # {} /\ Coordinators \ CoordinatorsInUse # {}
    BY DEF Admitted
<1> DEFINE o == found.targets[k]
           x == touched(IF registry.targets[k] = o THEN target[o] ELSE NewTarget(k))
           r == WithCoordinator(found, BmcOf[k])
           q == r.bmc_coordinators[BmcOf[k]]
<1>3. Prepared(k, found, o)
    BY <1>2, ObtainedIsPrepared
<1>4. Prepared(k, r, o)
    BY <1>2, <1>3, WithCoordinatorIsPrepared
<1>5. /\ UNCHANGED jobs
      /\ \/ target' = Targets(found, o, x)
         \/ x.phase # "none" /\ target' = Targets(r, o, Attached(o, x))
         \/ x.phase = "none" /\ LanesDue(x) # {} /\ target' = Targets(r, o, Opened(x, q))
         \/ target' = Targets(r, o, x)
    BY <1>1 DEF Collect, RespondAtOnce, Respond
<1> HIDE DEF o, r
<1>6. x = touched(IF registry.targets[k] = o THEN target[o] ELSE NewTarget(k))
    OBVIOUS
<1> HIDE DEF x, q
<1>7. /\ x \in Target /\ x.phase = target[o].phase
      /\ x.requested = target[o].requested /\ x.slow_may = target[o].slow_may
    <2>1. x \in Target /\ x.phase = target[o].phase
        BY <1>3, <1>6, FoundContinues
    <2>2. o \in Objects /\ target[o] \in Target /\ now \in Nat
        BY <1>3 DEF Prepared, IInv, TypeOK
    <2>3. CASE registry.targets[k] = o
        BY <1>6, <2>1, <2>2, <2>3 DEF touched, Target
    <2>4. CASE registry.targets[k] # o
        <3>1. target[o].phase = "none"
            BY <1>3, <2>4, FoundObject
        <3>2. target[o].requested = {} /\ target[o].slow_may = "follow"
            BY <2>2, <3>1, ViewIsShown DEF AtRest, Hidden, Shown
        <3>3. x.requested = {} /\ x.slow_may = "follow"
            BY <1>6, <2>4 DEF touched, NewTarget
        <3> QED
            BY <2>1, <3>2, <3>3
    <2> QED
        BY <2>3, <2>4
<1>8. LanesDue(x) \in SUBSET Lanes /\ o \in Objects
    BY <1>3 DEF LanesDue, Prepared
<1>9. RunningLanes(o)' = RunningLanes(o)
    BY <1>5, RunningStays DEF RunningLanes
<1>10. target'[o] = x => KeepsToCycle(o)
    BY <1>7, <1>9, NothingShown
<1>11. target'[o] = Attached(o, x) => KeepsToCycle(o)
    <2>1. CASE ~IsAccepting(x)
        BY <1>10, <2>1 DEF Attached
    <2>2. CASE IsAccepting(x)
        <3> DEFINE lanes == target[o].requested \cup (LanesDue(x) \ RunningLanes(o))
        <3>1. {l \in LanesDue(x) : ~Running(o, l)} = LanesDue(x) \ RunningLanes(o)
            BY <1>8 DEF RunningLanes
        <3>2. Attached(o, x) = [x EXCEPT !.requested = lanes]
            BY <1>7, <2>2, <3>1 DEF Attached
        <3> HIDE DEF lanes
        <3>3. /\ Attached(o, x).phase = x.phase /\ Attached(o, x).requested = lanes
              /\ Attached(o, x).slow_may = x.slow_may
            BY <1>7, <3>2 DEF Target
        <3>4. x.phase \in {"open", "late", "expired"}
            BY <2>2 DEF IsAccepting
        <3> QED
            BY <1>7, <1>8, <1>9, <3>3, <3>4, AttachShown DEF lanes
    <2> QED
        BY <2>1, <2>2
<1>12. ASSUME x.phase = "none", LanesDue(x) # {}, target'[o] = Opened(x, q)
       PROVE  KeepsToCycle(o)
    <2>1. Opened(x, q).phase = "open" /\ Opened(x, q).requested = LanesDue(x) /\ Opened(x, q).slow_may = "follow"
        <3> DEFINE due == LanesDue(x)
        <3> HIDE DEF due
        <3>1. [x EXCEPT !.phase = "open", !.requested = due, !.slow_may = "follow", !.coordinator = q].phase = "open"
            BY <1>7 DEF Target
        <3>2. [x EXCEPT !.phase = "open", !.requested = due, !.slow_may = "follow", !.coordinator = q].requested = due
            BY <1>7 DEF Target
        <3>3. [x EXCEPT !.phase = "open", !.requested = due, !.slow_may = "follow", !.coordinator = q].slow_may = "follow"
            BY <1>7 DEF Target
        <3> QED
            BY <3>1, <3>2, <3>3 DEF Opened, due
    <2>2. View(o) = Hidden
        BY <1>7, <1>8, <1>12 DEF AtRest
    <2> QED
        BY <1>8, <1>9, <1>12, <2>1, <2>2, OpeningShown
<1>13. CASE target' = Targets(found, o, x)
    BY <1>3, <1>5, <1>10, <1>13, FoundFollows
<1>14. CASE target' = Targets(r, o, Attached(o, x))
    BY <1>4, <1>5, <1>11, <1>14, FoundFollows
<1>15. CASE x.phase = "none" /\ LanesDue(x) # {} /\ target' = Targets(r, o, Opened(x, q))
    BY <1>4, <1>5, <1>12, <1>15, FoundFollows
<1>16. CASE target' = Targets(r, o, x)
    BY <1>4, <1>5, <1>10, <1>16, FoundFollows
<1> QED
    BY <1>5, <1>13, <1>14, <1>15, <1>16

LEMMA AnswerFollows ==
    ASSUME IInv, AtRest, NEW s \in Scrapes, Answer(s)
    PROVE  \A p \in Objects : KeepsToCycle(p)
<1>1. PICK o \in Objects, k \in Keys : o = scrapes[s].target /\ k = scrapes[s].key
    BY DEF Answer, IInv, ScrapesAgree
<1>2. registry.targets[k] = o
    BY <1>1 DEF Answer, IInv, ScrapesAgree, TargetsAgree
<1>3. target' = Targets(registry, o, target[o]) /\ UNCHANGED jobs
    BY <1>1 DEF Answer, Respond
<1>4. Prepared(k, registry, o)
    BY <1>1, <1>2, RegistryIsPrepared
<1>5. RunningLanes(o)' = RunningLanes(o)
    BY <1>3, RunningStays DEF RunningLanes
<1>6. target'[o] = target[o] => KeepsToCycle(o)
    BY <1>5, NothingShown
<1> QED
    BY <1>1, <1>3, <1>4, <1>6, FoundFollows

\* Every step is one of the abstract cycle, or none, for every object.
LEMMA StepFollows ==
    ASSUME IInv, AtRest, [Next]_vars
    PROVE  \A p \in Objects : KeepsToCycle(p)
<1>1. ASSUME NEW k \in Keys, ServedFromCache(k) PROVE \A p \in Objects : KeepsToCycle(p)
    <2> DEFINE o == registry.targets[k]
               x == touched(target[o])
    <2>1. o \in Objects /\ target[o] \in Target
        BY <1>1 DEF ServedFromCache, IInv, TypeOK
    <2>2. target' = [target EXCEPT ![o] = x] /\ UNCHANGED jobs
        BY <1>1 DEF ServedFromCache
    <2>3. x.phase = target[o].phase /\ x.requested = target[o].requested /\ x.slow_may = target[o].slow_may
        BY <2>1 DEF touched, Target
    <2> HIDE DEF x
    <2>4. \A p \in Objects : target'[p] = IF p = o THEN x ELSE target[p]
        BY <2>1, <2>2 DEF IInv, TypeOK
    <2> QED
        BY <2>2, <2>3, <2>4, QuietFollows
<1>2. ASSUME UNCHANGED <<target, jobs>> PROVE \A p \in Objects : KeepsToCycle(p)
    BY <1>2, QuietFollows
<1>3. CASE read_all
    <2>1. ASSUME NEW k \in Keys, Overloaded(k) PROVE \A p \in Objects : KeepsToCycle(p)
        BY <1>2, <2>1 DEF Overloaded
    <2>2. ASSUME NEW s \in Scrapes, AnswerFailure(s) PROVE \A p \in Objects : KeepsToCycle(p)
        BY <1>2, <2>2 DEF AnswerFailure
    <2> QED
        BY <1>1, <1>3, <2>1, <2>2, AdmittedFollows, AnswerFollows DEF read_all
<1>4. ASSUME NEW o \in Objects, CycleStep(o) PROVE \A p \in Objects : KeepsToCycle(p)
    BY <1>4, StartLaneFollows, CycleMovesFollows, CycleGoneFollows DEF CycleStep
<1>5. ASSUME NEW j \in jobs, JobStep(j) PROVE \A p \in Objects : KeepsToCycle(p)
    BY <1>5, JobStepFollows
<1>6. CASE Tick
    BY <1>2, <1>6 DEF Tick
<1>7. CASE UNCHANGED vars
    BY <1>2, <1>7 DEF vars
<1> QED
    BY <1>3, <1>4, <1>5, <1>6, <1>7 DEF Next

\* The cycle of every target is the one TargetCycle describes, and so the one that
\* RefreshCycle implements: scrapes ask of a cycle, and count on, no more than it does,
\* while targets are evicted and made anew and jobs outlive their cycle (ensure_cycle,
\* _evict_one_idle_locked, clear_active_cycle).
THEOREM RegistryImplementsTargetCycle == Spec => ImplementsTargetCycle
<1>1. ASSUME Init PROVE AtRest /\ \A o \in Objects : TargetCycle(o)!CycleInit
    <2>1. ASSUME NEW o \in Objects PROVE View(o) = Hidden
        <3>1. target[o].phase = "none" /\ target[o].requested = {} /\ target[o].slow_may = "follow"
            BY <1>1 DEF Init, NewTarget
        <3>2. RunningLanes(o) = {}
            BY <1>1 DEF Init, RunningLanes, Running
        <3> QED
            BY <3>1, <3>2, ViewIsShown DEF Hidden
    <2> QED
        BY <2>1, SameTerms DEF AtRest, TargetCycle!CycleInit
<1>2. IInv /\ AtRest /\ [Next]_vars => AtRest'
    BY StepFollows, RestLasts
<1>3. IInv /\ AtRest /\ [Next]_vars =>
          [\A o \in Objects : View(o)' = View(o) \/ TargetCycle(o)!CycleNext]_vars
    <2>1. ASSUME NEW o \in Objects, KeepsToCycle(o) PROVE View(o)' = View(o) \/ TargetCycle(o)!CycleNext
        BY <2>1 DEF KeepsToCycle, TargetCycle!seen
    <2> QED
        BY <2>1, StepFollows
<1>4. Spec => []AtRest
    BY <1>1, <1>2, Invariance, PTL DEF Spec
<1> QED
    BY <1>1, <1>3, <1>4, Invariance, PTL DEF Spec, ImplementsTargetCycle

=============================================================================

---------------------------- MODULE LegacyCrawl ----------------------------
(***************************************************************************)
(* A lane job of the v1 bridge: the components of the lane are crawled in  *)
(* batches (collect_legacy_lane of core/schema/legacy.py), each by a task  *)
(* that fetches its root, then the records the root links to, in batches   *)
(* again, then crawls the components nested under each record, one after   *)
(* the other (rawDataCollector of core/rawCollector.py).  Both batches are *)
(* bounded_gather() of core/batching.py, one gather inside another.        *)
(*                                                                         *)
(* A step is what a task does between two suspensions.  A cancelled fetch  *)
(* takes its time: it gives back its lease and its semaphore first, or has *)
(* its answer already.                                                     *)
(***************************************************************************)
EXTENDS Naturals, Sequences, FiniteSets

CONSTANTS
    Components, \* the number of components the lane selects
    Keys,       \* the number of components nested under each
    MaxRecords, \* bound on the records each has
    batch_size  \* Tuning.Crawl.BatchSize

ASSUME LegacyCrawlAssumption ==
    /\ Components \in Nat
    /\ Keys \in [1 .. Components -> Nat]
    /\ MaxRecords \in [1 .. Components -> Nat]
    /\ batch_size \in Nat \ {0}

VARIABLES
    gather, \* the bounded_gather() of the lane: its mode, and the batch it is at
    crawl   \* the rawDataCollector() of each component

legacyVars == <<gather, crawl>>

\* A task or a fetch: not begun; under way; cancelled and not over; and how it
\* ended.
UnderWay == {"flying", "unwinding"}
TaskStates == {"later", "got", "raised", "dropped"} \cup UnderWay

\* A crawl is a task of the lane's gather, suspended in the fetch of its root, in
\* the gather of its records or in a nested crawl.
NewCrawl ==
    [state |-> "later", at |-> "root", records |-> <<>>, batch |-> 1, draining |-> FALSE,
     key |-> 1, record |-> 1, count |-> 1, nested |-> {}]

LegacyInit ==
    /\ gather = [mode |-> "none", batch |-> 1]
    /\ crawl = [c \in 1 .. Components |-> NewCrawl]

NoLegacy ==
    /\ gather' = [mode |-> "none", batch |-> 1]
    /\ crawl' = [c \in 1 .. Components |-> NewCrawl]

Flies(c) == crawl[c].state = "flying"
Update(c, new) == crawl' = [crawl EXCEPT ![c] = new]

-----------------------------------------------------------------------------
(* bounded_gather() *)

Batch(b) == ((b - 1) * batch_size + 1) .. (b * batch_size)

\* The tasks of a batch start together.
Begun(states, b) == [i \in DOMAIN states |-> IF i \in Batch(b) THEN "flying" ELSE states[i]]

\* After a failure those under way are cancelled; those of later batches never run.
Cancelled(states) ==
    [i \in DOMAIN states |-> CASE states[i] = "flying" -> "unwinding"
                               [] states[i] = "later" -> "dropped"
                               [] OTHER -> states[i]]

AllGot(states, b) == \A i \in DOMAIN states \cap Batch(b) : states[i] = "got"
More(states, b) == \E i \in DOMAIN states : i \notin UNION {Batch(a) : a \in 1 .. b}
OneRaised(states) == \E i \in DOMAIN states : states[i] = "raised"
NoneUnderWay(states) == \A i \in DOMAIN states : states[i] \notin UnderWay

\* A task that is cancelled passes it on to the gather it waits for.
CancelledCrawl(r) ==
    [r EXCEPT !.state = Cancelled(<<r.state>>)[1],
              !.records = IF r.state = "flying" THEN Cancelled(r.records) ELSE r.records,
              !.draining = r.state = "flying" \/ r.draining]

-----------------------------------------------------------------------------
(* rawDataCollector() of one component *)

\* No record under the root, or no $jsonpath: the crawl is over.
RootGot(c) ==
    /\ Flies(c)
    /\ crawl[c].at = "root"
    /\ \E n \in 0 .. MaxRecords[c] :
          Update(c, IF n = 0 THEN [crawl[c] EXCEPT !.state = "got"]
                    ELSE [crawl[c] EXCEPT !.at = "records",
                                          !.records = Begun([i \in 1 .. n |-> "later"], 1)])
    /\ UNCHANGED gather

RootRaises(c) ==
    /\ Flies(c)
    /\ crawl[c].at = "root"
    /\ Update(c, [crawl[c] EXCEPT !.state = "raised"])
    /\ UNCHANGED gather

\* A fetch of a record ends; one that is cancelled may still have its answer.
RecordOver(c, i) ==
    /\ crawl[c].records[i] \in UnderWay
    /\ \E s \in {"got", "raised", "dropped"} :
          /\ s = "dropped" => crawl[c].records[i] = "unwinding"
          /\ Update(c, [crawl[c] EXCEPT !.records[i] = s])
    /\ UNCHANGED gather

\* The next batch, or what is nested under the records.
RecordsGoOn(c) ==
    LET r == crawl[c]
    IN  /\ Flies(c) /\ r.at = "records" /\ ~r.draining
        /\ AllGot(r.records, r.batch)
        /\ Update(c, IF More(r.records, r.batch)
                     THEN [r EXCEPT !.batch = @ + 1, !.records = Begun(@, r.batch + 1)]
                     ELSE IF Keys[c] > 0 THEN [r EXCEPT !.at = "nested"]
                     ELSE [r EXCEPT !.state = "got"])
        /\ UNCHANGED gather

RecordsFail(c) ==
    LET r == crawl[c]
    IN  /\ Flies(c) /\ r.at = "records" /\ ~r.draining
        /\ OneRaised(r.records)
        /\ Update(c, [r EXCEPT !.draining = TRUE, !.records = Cancelled(@)])
        /\ UNCHANGED gather

\* Mutant of RecordsEnd: the failure is passed on without waiting for the others.
RecordsEndAtOnce(c) ==
    LET r == crawl[c]
    IN  /\ r.state \in UnderWay /\ r.at = "records" /\ r.draining
        /\ Update(c, [r EXCEPT !.state = IF @ = "flying" THEN "raised" ELSE "dropped"])
        /\ UNCHANGED gather

\* All of them are over: the failure is passed on, or the cancellation.
RecordsEnd(c) ==
    LET r == crawl[c]
    IN  /\ r.state \in UnderWay /\ r.at = "records" /\ r.draining
        /\ NoneUnderWay(r.records)
        /\ Update(c, [r EXCEPT !.state = IF @ = "flying" THEN "raised" ELSE "dropped"])
        /\ UNCHANGED gather

\* On to the next record, or to the first record for the next key.
After(c, r) ==
    IF r.record < Len(r.records) THEN [r EXCEPT !.record = @ + 1]
    ELSE IF r.key < Keys[c] THEN [r EXCEPT !.key = @ + 1, !.record = 1, !.count = 1]
    ELSE [r EXCEPT !.state = "got"]

\* The crawl nested under a record is stored with the record that count points at.
NestedGot(c) ==
    LET r == crawl[c]
    IN  /\ Flies(c) /\ r.at = "nested"
        /\ Update(c, After(c, [r EXCEPT !.nested = @ \cup {<<r.count, r.key, r.record>>}, !.count = @ + 1]))
        /\ UNCHANGED gather

\* It raised: nothing is stored, and count stays.
NestedRaises(c) ==
    LET r == crawl[c]
    IN  /\ Flies(c) /\ r.at = "nested"
        /\ Update(c, After(c, r))
        /\ UNCHANGED gather

\* A cancelled crawl that waits for a fetch of its own.
Unwound(c) ==
    /\ crawl[c].state = "unwinding"
    /\ crawl[c].at # "records"
    /\ Update(c, [crawl[c] EXCEPT !.state = "dropped"])
    /\ UNCHANGED gather

-----------------------------------------------------------------------------
(* collect_legacy_lane() *)

States == [c \in DOMAIN crawl |-> crawl[c].state]

BegunCrawls(b) == [c \in DOMAIN crawl |-> [crawl[c] EXCEPT !.state = Begun(States, b)[c]]]

LaneBegins ==
    /\ gather.mode = "none"
    /\ gather' = [gather EXCEPT !.mode = IF Components = 0 THEN "done" ELSE "gathering"]
    /\ crawl' = BegunCrawls(1)

\* derive_serverid_from_system_uri() finds none.
NoServerId ==
    /\ gather.mode = "none"
    /\ gather' = [gather EXCEPT !.mode = "failed"]
    /\ UNCHANGED crawl

LaneGoesOn ==
    /\ gather.mode = "gathering"
    /\ AllGot(States, gather.batch)
    /\ IF More(States, gather.batch) THEN
          /\ gather' = [gather EXCEPT !.batch = @ + 1]
          /\ crawl' = BegunCrawls(gather.batch + 1)
       ELSE
          /\ gather' = [gather EXCEPT !.mode = "done"]
          /\ UNCHANGED crawl

LaneFails ==
    /\ gather.mode = "gathering"
    /\ OneRaised(States)
    /\ gather' = [gather EXCEPT !.mode = "failing"]
    /\ crawl' = [c \in DOMAIN crawl |-> CancelledCrawl(crawl[c])]

\* The job is cancelled, by its cycle.
LaneCancelled ==
    /\ gather.mode \in {"gathering", "failing"}
    /\ gather' = [gather EXCEPT !.mode = "cancelling"]
    /\ crawl' = [c \in DOMAIN crawl |-> CancelledCrawl(crawl[c])]

LaneEnds ==
    /\ gather.mode \in {"failing", "cancelling"}
    /\ NoneUnderWay(States)
    /\ gather' = [gather EXCEPT !.mode = IF @ = "failing" THEN "failed" ELSE "cancelled"]
    /\ UNCHANGED crawl

LegacyStep ==
    \/ \E c \in DOMAIN crawl :
          \/ RootGot(c) \/ RootRaises(c)
          \/ RecordsGoOn(c) \/ RecordsFail(c) \/ RecordsEnd(c)
          \/ NestedGot(c) \/ NestedRaises(c) \/ Unwound(c)
          \/ \E i \in DOMAIN crawl[c].records : RecordOver(c, i)
    \/ LaneGoesOn \/ LaneFails \/ LaneEnds

-----------------------------------------------------------------------------
(* Properties *)

LegacyTypeOK ==
    /\ gather.mode \in {"none", "gathering", "failing", "cancelling", "done", "failed", "cancelled"}
    /\ \A c \in DOMAIN crawl :
          /\ crawl[c].state \in TaskStates
          /\ crawl[c].at \in {"root", "records", "nested"}
          /\ \A i \in DOMAIN crawl[c].records : crawl[c].records[i] \in TaskStates

Over == {"got", "raised", "dropped"}

\* A gather that has returned, raised or been cancelled has left nothing under way
\* behind it, at either level and whatever failed or was cancelled first; and no
\* level has more than a batch under way (bounded_gather).
NothingLeftInFlight ==
    /\ gather.mode \in {"none", "done", "failed", "cancelled"} => NoneUnderWay(States)
    /\ \A c \in DOMAIN crawl :
          /\ crawl[c].state \in Over \/ crawl[c].at = "nested" => NoneUnderWay(crawl[c].records)
          /\ Cardinality({i \in DOMAIN crawl[c].records : crawl[c].records[i] \in UnderWay}) <= batch_size
    /\ Cardinality({c \in DOMAIN crawl : crawl[c].state \in UnderWay}) <= batch_size

\* What is nested under a record is stored with it: "callers build parent/child
\* lineage and positional output by index" (bounded_gather), and count is to be the
\* index of the record whose components are crawled.
NestedDataStaysWithItsRecord ==
    \A c \in DOMAIN crawl : \A d \in crawl[c].nested : d[1] = d[3]

=============================================================================

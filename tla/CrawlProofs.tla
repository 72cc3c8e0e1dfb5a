---------------------------- MODULE CrawlProofs ----------------------------
(***************************************************************************)
(* Lemmas about the two crawls of a lane job: the one of v1 (LegacyCrawl), *)
(* and the one of a vendor schema (SchemaExecutor).  LaneJobsProofs states *)
(* what they come to as theorems of the job.                               *)
(*                                                                         *)
(* v1: what a gather has under way is of the batch it is at: a batch       *)
(* begins only when all of the one before have been got, and of the later  *)
(* batches nothing has begun.                                              *)
(*                                                                         *)
(* v2: the tree is closed upwards, an entry is there once and where the    *)
(* schema has it, and what a record still lacks below it is on the agenda, *)
(* once.  An execution that waits there carries the captures of the        *)
(* records above it, the nearest one first (Bound), which is what puts its *)
(* records where they belong.                                              *)
(***************************************************************************)
EXTENDS SchemaExecutor, LegacyCrawl, Counting

Modes == {"none", "gathering", "failing", "cancelling", "done", "failed", "cancelled"}

Gathers == [mode : Modes, batch : Nat \ {0}]

Crawls ==
    [state : TaskStates, at : {"root", "records", "nested"}, records : Seq(TaskStates),
     batch : Nat \ {0}, draining : BOOLEAN,
     key : Nat \ {0}, record : Nat \ {0}, count : Nat \ {0},
     nested : SUBSET (Nat \X Nat \X Nat)]

InBatch(states, b) == \A i \in DOMAIN states : states[i] \in UnderWay => i \in Batch(b)

\* The records of a crawl: none before its root is there, those of one batch under
\* way while they are fetched, none after that.
RecordsSound(r) ==
    /\ r.state = "later" => r.at = "root"
    /\ r.at = "root" => r.records = <<>> /\ r.batch = 1
    /\ InBatch(r.records, r.batch)
    /\ r.state \in Over \/ r.at = "nested" => NoneUnderWay(r.records)

\* The gather of the lane: it has begun the crawls of its batches, and no other.
GatherSound ==
    /\ \A c \in DOMAIN crawl : crawl[c].state \in UnderWay => c \in Batch(gather.batch)
    /\ gather.mode \in {"none", "done", "failed", "cancelled"} =>
          \A c \in DOMAIN crawl : crawl[c].state \notin UnderWay
    /\ gather.mode = "none" => gather.batch = 1 /\ \A c \in DOMAIN crawl : crawl[c].state = "later"
    /\ gather.mode = "gathering" =>
          \A c \in DOMAIN crawl : c > gather.batch * batch_size => crawl[c].state = "later"

CrawlSound(r) == r \in Crawls /\ RecordsSound(r)

LegacyInv ==
    /\ gather \in Gathers
    /\ crawl \in [1 .. Components -> Crawls]
    /\ \A c \in 1 .. Components : CrawlSound(crawl[c])
    /\ GatherSound

-----------------------------------------------------------------------------
(* Batches                                                                 *)

\* A batch is as large as BatchSize, and the next one is behind it.
LEMMA BatchesInOrder ==
    ASSUME NEW b \in Nat \ {0}
    PROVE  /\ IsFiniteSet(Batch(b)) /\ Cardinality(Batch(b)) = batch_size
           /\ b * batch_size \in Nat
           /\ \A i \in Batch(b) : i <= b * batch_size
           /\ \A i \in Nat \ {0} : i \in Batch(1) <=> i <= 1 * batch_size
           /\ \A i \in Nat : i \in Batch(b + 1) <=> i > b * batch_size /\ i <= (b + 1) * batch_size
           /\ b * batch_size < (b + 1) * batch_size
<1>1. batch_size \in Nat /\ batch_size # 0
    BY LegacyCrawlAssumption DEF LegacyCrawlAssumption
<1> DEFINE before == (b - 1) * batch_size
           upto == b * batch_size
<1>2. before \in Nat /\ upto \in Nat
    BY <1>1
<1>3. upto = before + batch_size /\ (b + 1) * batch_size = upto + batch_size
    BY <1>1
<1>4. Batch(b) = (before + 1) .. upto
    BY DEF Batch
<1>5. Batch(b + 1) = (upto + 1) .. (b + 1) * batch_size
    <2>1. (b + 1) - 1 = b
        OBVIOUS
    <2> QED
        BY <2>1 DEF Batch
<1>6. Batch(1) = 1 .. 1 * batch_size
    BY <1>1 DEF Batch
<1> HIDE DEF before, upto
<1>7. IsFiniteSet(Batch(b)) /\ Cardinality(Batch(b)) = batch_size
    <2>1. before + 1 \in Int /\ upto \in Int /\ before + 1 <= upto /\ upto - (before + 1) + 1 = batch_size
        BY <1>1, <1>2, <1>3
    <2> QED
        BY <1>4, <2>1, FS_Interval
<1>8. \A i \in Nat : i \in Batch(b + 1) <=> i > upto /\ i <= (b + 1) * batch_size
    BY <1>1, <1>2, <1>3, <1>5
<1>9. \A i \in Batch(b) : i <= upto
    BY <1>2, <1>4
<1>10. \A i \in Nat \ {0} : i \in Batch(1) <=> i <= 1 * batch_size
    BY <1>1, <1>6
<1>11. upto < (b + 1) * batch_size
    BY <1>1, <1>2, <1>3
<1> QED
    BY <1>2, <1>7, <1>8, <1>9, <1>10, <1>11 DEF upto

\* What is under way is no more than a batch.
LEMMA AtMostABatch ==
    ASSUME NEW b \in Nat \ {0}, NEW S, S \subseteq Batch(b)
    PROVE  Cardinality(S) <= batch_size
BY BatchesInOrder, FS_Subset

\* A batch that begins: none is under way of the one before.
LEMMA NextBatchBegins ==
    ASSUME NEW states \in Seq(TaskStates), NEW b \in Nat \ {0},
           InBatch(states, b), AllGot(states, b)
    PROVE  /\ Begun(states, b + 1) \in Seq(TaskStates)
           /\ InBatch(Begun(states, b + 1), b + 1)
           /\ NoneUnderWay(states)
<1>1. \A i \in DOMAIN states : states[i] \notin UnderWay
    BY DEF InBatch, AllGot, UnderWay
<1>2. Begun(states, b + 1) \in Seq(TaskStates)
    BY DEF Begun, TaskStates, UnderWay
<1>3. /\ DOMAIN Begun(states, b + 1) = DOMAIN states
      /\ \A i \in DOMAIN states : i \notin Batch(b + 1) => Begun(states, b + 1)[i] = states[i]
    BY DEF Begun
<1> QED
    BY <1>1, <1>2, <1>3 DEF InBatch, NoneUnderWay

\* The first batch.
LEMMA FirstBatchBegins ==
    ASSUME NEW n \in Nat
    PROVE  /\ Begun([i \in 1 .. n |-> "later"], 1) \in Seq(TaskStates)
           /\ InBatch(Begun([i \in 1 .. n |-> "later"], 1), 1)
<1> DEFINE states == [i \in 1 .. n |-> "later"]
<1>1. states \in Seq(TaskStates) /\ DOMAIN states = 1 .. n
    BY DEF TaskStates
<1>2. \A i \in DOMAIN states : states[i] = "later"
    OBVIOUS
<1> HIDE DEF states
<1>3. Begun(states, 1) \in Seq(TaskStates)
    BY <1>1 DEF Begun, TaskStates, UnderWay
<1>4. InBatch(Begun(states, 1), 1)
    BY <1>1, <1>2 DEF Begun, InBatch, UnderWay
<1> QED
    BY <1>3, <1>4 DEF states

\* A cancellation begins nothing, and ends nothing.
LEMMA CancellingBeginsNothing ==
    ASSUME NEW states \in Seq(TaskStates), NEW b
    PROVE  /\ Cancelled(states) \in Seq(TaskStates)
           /\ InBatch(states, b) => InBatch(Cancelled(states), b)
           /\ NoneUnderWay(states) => NoneUnderWay(Cancelled(states))
           /\ states = <<>> => Cancelled(states) = <<>>
<1>1. Cancelled(states) \in Seq(TaskStates) /\ Len(Cancelled(states)) = Len(states)
    BY DEF Cancelled, TaskStates, UnderWay
<1>2. /\ DOMAIN Cancelled(states) = DOMAIN states
      /\ \A i \in DOMAIN states : Cancelled(states)[i] \in UnderWay => states[i] \in UnderWay
    BY DEF Cancelled, UnderWay
<1> QED
    BY <1>1, <1>2 DEF InBatch, NoneUnderWay

-----------------------------------------------------------------------------
(* The count of the nested crawls                                          *)

\* A nested crawl was stored, or failed.
Stored(r) == [r EXCEPT !.nested = @ \cup {<<r.count, r.key, r.record>>}, !.count = @ + 1]

\* On to the next record, or key, or the crawl is over.
LEMMA NestedCrawlOver ==
    ASSUME NEW c \in 1 .. Components, NEW r, CrawlSound(r), r.at = "nested", r.state = "flying",
           NEW m, m = Stored(r) \/ m = r
    PROVE  CrawlSound(After(c, m)) /\ After(c, m).state \in {"flying", "got"}
<1> DEFINE q == After(c, m)
<1>1. /\ m \in Crawls
      /\ m.at = "nested" /\ m.state = r.state /\ m.records = r.records /\ m.batch = r.batch
    <2>1. r \in Crawls /\ r.key \in Nat /\ r.record \in Nat /\ r.count \in Nat
        BY DEF CrawlSound, Crawls
    <2>2. r.nested \cup {<<r.count, r.key, r.record>>} \in SUBSET (Nat \X Nat \X Nat)
        BY <2>1 DEF Crawls
    <2>3. r.count + 1 \in Nat \ {0}
        BY <2>1
    <2>4. CASE m = r
        BY <2>1, <2>4
    <2>5. CASE m = Stored(r)
        <3> DEFINE more == r.nested \cup {<<r.count, r.key, r.record>>}
                   next == r.count + 1
        <3>1. m = [r EXCEPT !.nested = more, !.count = next]
            BY <2>1, <2>5 DEF Stored, Crawls
        <3> HIDE DEF more, next
        <3>2. more \in SUBSET (Nat \X Nat \X Nat) /\ next \in Nat \ {0}
            BY <2>2, <2>3 DEF more, next
        <3> QED
            BY <2>1, <3>1, <3>2 DEF Crawls
    <2> QED
        BY <2>4, <2>5
<1>2. \/ q = [m EXCEPT !.record = @ + 1]
      \/ q = [m EXCEPT !.key = @ + 1, !.record = 1, !.count = 1]
      \/ q = [m EXCEPT !.state = "got"]
    BY DEF After
<1> HIDE DEF q
<1>3. /\ q \in Crawls
      /\ q.at = "nested" /\ q.records = r.records /\ q.batch = r.batch
      /\ q.state \in {"flying", "got"}
    <2>1. m.key + 1 \in Nat \ {0} /\ m.record + 1 \in Nat \ {0} /\ 1 \in Nat \ {0} /\ "got" \in TaskStates
        BY <1>1 DEF Crawls, TaskStates
    <2>2. CASE q = [m EXCEPT !.record = @ + 1]
        BY <1>1, <2>1, <2>2 DEF Crawls
    <2>3. CASE q = [m EXCEPT !.key = @ + 1, !.record = 1, !.count = 1]
        BY <1>1, <2>1, <2>3 DEF Crawls
    <2>4. CASE q = [m EXCEPT !.state = "got"]
        BY <1>1, <2>1, <2>4 DEF Crawls
    <2> QED
        BY <1>2, <2>2, <2>3, <2>4
<1>4. RecordsSound(q)
    BY <1>3 DEF CrawlSound, RecordsSound
<1> QED
    BY <1>3, <1>4 DEF CrawlSound, q

-----------------------------------------------------------------------------
(* The steps of one crawl                                                  *)

\* A step of one crawl disturbs neither the other crawls nor the gather.
LEMMA OneCrawl ==
    ASSUME LegacyInv, NEW c \in DOMAIN crawl, NEW q, CrawlSound(q), Update(c, q), UNCHANGED gather,
           q.state \in UnderWay => crawl[c].state \in UnderWay,
           crawl[c].state = "later" => q.state = "later"
    PROVE  LegacyInv'
<1>1. c \in 1 .. Components /\ DOMAIN crawl = 1 .. Components
    BY DEF LegacyInv
<1>2. /\ DOMAIN crawl' = 1 .. Components
      /\ crawl'[c] = q
      /\ \A d \in 1 .. Components : d # c => crawl'[d] = crawl[d]
      /\ crawl' \in [1 .. Components -> Crawls]
    BY <1>1 DEF LegacyInv, Update, CrawlSound
<1>3. \A d \in 1 .. Components : CrawlSound(crawl'[d])
    BY <1>1, <1>2 DEF LegacyInv
<1>4. \A d \in 1 .. Components : /\ crawl'[d].state \in UnderWay => crawl[d].state \in UnderWay
                                 /\ crawl[d].state = "later" => crawl'[d].state = "later"
    BY <1>1, <1>2
<1>5. GatherSound'
    <2>1. /\ \A d \in DOMAIN crawl' : crawl'[d].state \in UnderWay => d \in Batch(gather'.batch)
          /\ gather'.mode \in {"none", "done", "failed", "cancelled"} =>
                \A d \in DOMAIN crawl' : crawl'[d].state \notin UnderWay
        BY <1>1, <1>2, <1>4 DEF LegacyInv, GatherSound
    <2>2. gather'.mode = "none" => gather'.batch = 1 /\ \A d \in DOMAIN crawl' : crawl'[d].state = "later"
        BY <1>1, <1>2, <1>4 DEF LegacyInv, GatherSound
    <2>3. gather'.mode = "gathering" =>
              \A d \in DOMAIN crawl' : d > gather'.batch * batch_size => crawl'[d].state = "later"
        BY <1>1, <1>2, <1>4 DEF LegacyInv, GatherSound
    <2> QED
        BY <2>1, <2>2, <2>3 DEF GatherSound
<1> QED
    BY <1>2, <1>3, <1>5 DEF LegacyInv

\* What is known of a crawl.
LEMMA CrawlFacts ==
    ASSUME LegacyInv, NEW c \in DOMAIN crawl
    PROVE  c \in 1 .. Components /\ CrawlSound(crawl[c]) /\ crawl[c] \in Crawls
BY DEF LegacyInv, CrawlSound

\* A crawl that ends with nothing under way.
LEMMA CrawlEnds ==
    ASSUME NEW r, CrawlSound(r), NoneUnderWay(r.records), NEW s \in Over
    PROVE  CrawlSound([r EXCEPT !.state = s]) /\ [r EXCEPT !.state = s].state = s
<1> DEFINE q == [r EXCEPT !.state = s]
<1>1. s \in TaskStates /\ s \notin UnderWay /\ s # "later"
    BY DEF Over, TaskStates, UnderWay
<1>2. r \in Crawls
    BY DEF CrawlSound
<1>3. /\ q \in Crawls
      /\ q.state = s /\ q.at = r.at /\ q.records = r.records /\ q.batch = r.batch
    BY <1>1, <1>2 DEF Crawls
<1> HIDE DEF q
<1>4. RecordsSound(q)
    BY <1>1, <1>3 DEF CrawlSound, RecordsSound
<1>5. CrawlSound(q) /\ q.state = s
    BY <1>3, <1>4 DEF CrawlSound
<1> QED
    BY <1>5 DEF q

LEMMA RootGotKeeps ==
    ASSUME LegacyInv, NEW c \in DOMAIN crawl, RootGot(c)
    PROVE  LegacyInv'
<1> DEFINE r == crawl[c]
<1>1. CrawlSound(r) /\ r \in Crawls /\ c \in 1 .. Components
    BY CrawlFacts
<1>2. r.state = "flying" /\ r.at = "root" /\ r.records = <<>> /\ r.batch = 1 /\ UNCHANGED gather
    BY <1>1 DEF RootGot, Flies, CrawlSound, RecordsSound
<1>3. NoneUnderWay(r.records)
    BY <1>2 DEF NoneUnderWay
<1>4. PICK n \in 0 .. MaxRecords[c] :
          Update(c, IF n = 0 THEN [r EXCEPT !.state = "got"]
                    ELSE [r EXCEPT !.at = "records", !.records = Begun([i \in 1 .. n |-> "later"], 1)])
    BY DEF RootGot
<1>5. CASE n = 0
    <2>1. Update(c, [r EXCEPT !.state = "got"])
        BY <1>4, <1>5
    <2>2. CrawlSound([r EXCEPT !.state = "got"]) /\ [r EXCEPT !.state = "got"].state = "got"
        BY <1>1, <1>3, CrawlEnds DEF Over
    <2> HIDE DEF r
    <2> QED
        BY <1>2, <2>1, <2>2, OneCrawl DEF UnderWay, r
<1>6. CASE n # 0
    <2> DEFINE first == Begun([i \in 1 .. n |-> "later"], 1)
               q == [r EXCEPT !.at = "records", !.records = first]
    <2>1. first \in Seq(TaskStates) /\ InBatch(first, 1)
        <3>1. n \in Nat
            BY <1>1, LegacyCrawlAssumption DEF LegacyCrawlAssumption
        <3> QED
            BY <3>1, FirstBatchBegins
    <2> HIDE DEF first
    <2>2. /\ q \in Crawls
          /\ q.state = "flying" /\ q.at = "records" /\ q.records = first /\ q.batch = r.batch
        BY <1>1, <1>2, <2>1 DEF Crawls
    <2>3. Update(c, q)
        BY <1>4, <1>6 DEF first
    <2> HIDE DEF q
    <2>4. RecordsSound(q)
        BY <1>2, <2>1, <2>2 DEF RecordsSound, Over
    <2>5. CrawlSound(q)
        BY <2>2, <2>4 DEF CrawlSound
    <2>6. q.state \in UnderWay => r.state \in UnderWay
        BY <1>2, <2>2
    <2> HIDE DEF r
    <2> QED
        BY <1>2, <2>2, <2>3, <2>5, <2>6, OneCrawl DEF r
<1> QED
    BY <1>5, <1>6

LEMMA RootRaisesKeeps ==
    ASSUME LegacyInv, NEW c \in DOMAIN crawl, RootRaises(c)
    PROVE  LegacyInv'
<1> DEFINE r == crawl[c]
<1>1. CrawlSound(r) /\ r.state = "flying" /\ UNCHANGED gather
    BY CrawlFacts DEF RootRaises, Flies
<1>2. NoneUnderWay(r.records)
    BY <1>1 DEF RootRaises, CrawlSound, RecordsSound, NoneUnderWay
<1>3. Update(c, [r EXCEPT !.state = "raised"])
    BY DEF RootRaises
<1>4. CrawlSound([r EXCEPT !.state = "raised"]) /\ [r EXCEPT !.state = "raised"].state = "raised"
    BY <1>1, <1>2, CrawlEnds DEF Over
<1> HIDE DEF r
<1> QED
    BY <1>1, <1>3, <1>4, OneCrawl DEF UnderWay, r

\* Other records of a crawl that stays where it is, none of them under way that was
\* not.
LEMMA RecordsMove ==
    ASSUME NEW r, CrawlSound(r), NEW q \in Crawls,
           q.state \in UnderWay => r.state \in UnderWay,
           r.state = "later" => q.state = "later",
           q.state \in Over => NoneUnderWay(q.records), q.state = "later" => r.state = "later",
           q.at = r.at, q.batch = r.batch,
           DOMAIN q.records = DOMAIN r.records,
           \A i \in DOMAIN r.records : q.records[i] \in UnderWay => r.records[i] \in UnderWay
    PROVE  CrawlSound(q)
<1>1. r \in Crawls /\ q.records \in Seq(TaskStates) /\ r.records \in Seq(TaskStates)
    BY DEF CrawlSound, Crawls
<1>2. r.records = <<>> => q.records = <<>>
    <2>1. Len(q.records) = Len(r.records)
        BY <1>1
    <2> QED
        BY <1>1, <2>1
<1>3. InBatch(q.records, q.batch) /\ (NoneUnderWay(r.records) => NoneUnderWay(q.records))
    BY DEF CrawlSound, RecordsSound, InBatch, NoneUnderWay
<1>4. RecordsSound(q)
    BY <1>2, <1>3 DEF CrawlSound, RecordsSound
<1> QED
    BY <1>4 DEF CrawlSound

LEMMA RecordOverKeeps ==
    ASSUME LegacyInv, NEW c \in DOMAIN crawl, NEW i \in DOMAIN crawl[c].records, RecordOver(c, i)
    PROVE  LegacyInv'
<1> DEFINE r == crawl[c]
<1>1. PICK s \in {"got", "raised", "dropped"} : Update(c, [r EXCEPT !.records[i] = s])
    BY DEF RecordOver
<1> DEFINE q == [r EXCEPT !.records[i] = s]
<1>2. CrawlSound(r) /\ r \in Crawls /\ UNCHANGED gather
    BY CrawlFacts DEF RecordOver
<1>3. s \in TaskStates /\ s \notin UnderWay
    BY DEF TaskStates, UnderWay
<1>4. q = [r EXCEPT !.records = [r.records EXCEPT ![i] = s]]
    BY <1>2 DEF Crawls
<1>5. [r.records EXCEPT ![i] = s] \in Seq(TaskStates)
    BY <1>2, <1>3 DEF Crawls
<1>6. /\ q \in Crawls
      /\ q.state = r.state /\ q.at = r.at /\ q.batch = r.batch
      /\ q.records = [r.records EXCEPT ![i] = s]
    BY <1>2, <1>4, <1>5 DEF Crawls
<1> HIDE DEF q
<1>7. /\ DOMAIN q.records = DOMAIN r.records
      /\ \A j \in DOMAIN r.records : q.records[j] \in UnderWay => r.records[j] \in UnderWay
    BY <1>3, <1>6
<1>8. q.state \in Over => NoneUnderWay(q.records)
    BY <1>2, <1>6, <1>7 DEF CrawlSound, RecordsSound, NoneUnderWay
<1> HIDE DEF r
<1>9. CrawlSound(q)
    BY <1>2, <1>6, <1>7, <1>8, RecordsMove
<1> QED
    BY <1>1, <1>2, <1>6, <1>9, OneCrawl DEF r, q

LEMMA RecordsGoOnKeeps ==
    ASSUME LegacyInv, NEW c \in DOMAIN crawl, RecordsGoOn(c)
    PROVE  LegacyInv'
<1> DEFINE r == crawl[c]
<1>1. CrawlSound(r) /\ r \in Crawls /\ UNCHANGED gather
    BY CrawlFacts DEF RecordsGoOn
<1>2. r.state = "flying" /\ r.at = "records" /\ AllGot(r.records, r.batch)
    BY DEF RecordsGoOn, Flies
<1>3. r.records \in Seq(TaskStates) /\ r.batch \in Nat \ {0} /\ InBatch(r.records, r.batch)
    BY <1>1 DEF CrawlSound, RecordsSound, Crawls
<1> DEFINE next == Begun(r.records, r.batch + 1)
<1>4. next \in Seq(TaskStates) /\ InBatch(next, r.batch + 1) /\ NoneUnderWay(r.records)
    BY <1>2, <1>3, NextBatchBegins
<1>5. \/ Update(c, [r EXCEPT !.batch = @ + 1, !.records = next])
      \/ Update(c, [r EXCEPT !.at = "nested"])
      \/ Update(c, [r EXCEPT !.state = "got"])
    BY DEF RecordsGoOn
<1> HIDE DEF next
<1>6. CASE Update(c, [r EXCEPT !.batch = @ + 1, !.records = next])
    <2> DEFINE q == [r EXCEPT !.batch = @ + 1, !.records = next]
    <2>1. r.batch + 1 \in Nat \ {0}
        BY <1>3
    <2>2. /\ q \in Crawls
          /\ q.state = "flying" /\ q.at = "records" /\ q.records = next /\ q.batch = r.batch + 1
        BY <1>1, <1>2, <1>4, <2>1 DEF Crawls
    <2> HIDE DEF q
    <2>3. RecordsSound(q)
        BY <1>4, <2>2 DEF RecordsSound, Over
    <2>4. CrawlSound(q)
        BY <2>2, <2>3 DEF CrawlSound
    <2>5. (q.state \in UnderWay => r.state \in UnderWay) /\ Update(c, q)
        BY <1>2, <1>6, <2>2 DEF q
    <2> HIDE DEF r
    <2> QED
        BY <1>1, <1>2, <2>4, <2>5, OneCrawl DEF r
<1>7. CASE Update(c, [r EXCEPT !.at = "nested"])
    <2> DEFINE q == [r EXCEPT !.at = "nested"]
    <2>1. /\ q \in Crawls
          /\ q.state = "flying" /\ q.at = "nested" /\ q.records = r.records /\ q.batch = r.batch
        BY <1>1, <1>2 DEF Crawls
    <2> HIDE DEF q
    <2>2. RecordsSound(q)
        BY <1>3, <1>4, <2>1 DEF RecordsSound
    <2>3. CrawlSound(q)
        BY <2>1, <2>2 DEF CrawlSound
    <2>4. (q.state \in UnderWay => r.state \in UnderWay) /\ Update(c, q)
        BY <1>2, <1>7, <2>1 DEF q
    <2> HIDE DEF r
    <2> QED
        BY <1>1, <1>2, <2>3, <2>4, OneCrawl DEF r
<1>8. CASE Update(c, [r EXCEPT !.state = "got"])
    <2>1. CrawlSound([r EXCEPT !.state = "got"]) /\ [r EXCEPT !.state = "got"].state = "got"
        BY <1>1, <1>4, CrawlEnds DEF Over
    <2> HIDE DEF r
    <2> QED
        BY <1>1, <1>2, <1>8, <2>1, OneCrawl DEF UnderWay, r
<1> QED
    BY <1>5, <1>6, <1>7, <1>8

LEMMA RecordsFailKeeps ==
    ASSUME LegacyInv, NEW c \in DOMAIN crawl, RecordsFail(c)
    PROVE  LegacyInv'
<1> DEFINE r == crawl[c]
           q == [r EXCEPT !.draining = TRUE, !.records = Cancelled(r.records)]
<1>1. CrawlSound(r) /\ r \in Crawls /\ UNCHANGED gather
    BY CrawlFacts DEF RecordsFail
<1>2. r.state = "flying" /\ Update(c, q)
    BY DEF RecordsFail, Flies
<1>3. Cancelled(r.records) \in Seq(TaskStates)
    BY <1>1, CancellingBeginsNothing DEF Crawls
<1>4. /\ DOMAIN Cancelled(r.records) = DOMAIN r.records
      /\ \A i \in DOMAIN r.records : Cancelled(r.records)[i] \in UnderWay => r.records[i] \in UnderWay
    BY DEF Cancelled, UnderWay
<1>5. /\ q \in Crawls
      /\ q.state = r.state /\ q.at = r.at /\ q.batch = r.batch
      /\ q.records = Cancelled(r.records)
    BY <1>1, <1>3 DEF Crawls
<1> HIDE DEF q
<1>6. q.state \notin Over
    BY <1>2, <1>5 DEF Over
<1> HIDE DEF r
<1>7. CrawlSound(q)
    BY <1>1, <1>4, <1>5, <1>6, RecordsMove
<1> QED
    BY <1>1, <1>2, <1>5, <1>7, OneCrawl DEF r

LEMMA RecordsEndKeeps ==
    ASSUME LegacyInv, NEW c \in DOMAIN crawl, RecordsEnd(c)
    PROVE  LegacyInv'
<1> DEFINE r == crawl[c]
<1>1. CrawlSound(r) /\ NoneUnderWay(r.records) /\ r.state \in UnderWay /\ UNCHANGED gather
    BY CrawlFacts DEF RecordsEnd
<1>2. PICK s \in Over : Update(c, [r EXCEPT !.state = s])
    BY DEF RecordsEnd, Over
<1>3. CrawlSound([r EXCEPT !.state = s]) /\ [r EXCEPT !.state = s].state = s
    BY <1>1, CrawlEnds
<1> HIDE DEF r
<1> QED
    BY <1>1, <1>2, <1>3, OneCrawl DEF UnderWay, Over, r

LEMMA NestedCrawlKeeps ==
    ASSUME LegacyInv, NEW c \in DOMAIN crawl, NestedGot(c) \/ NestedRaises(c)
    PROVE  LegacyInv'
<1> DEFINE r == crawl[c]
<1>1. CrawlSound(r) /\ c \in 1 .. Components
    BY CrawlFacts
<1>2. r.state = "flying" /\ r.at = "nested" /\ UNCHANGED gather
    BY DEF NestedGot, NestedRaises, Flies
<1>3. PICK m \in {Stored(r), r} : Update(c, After(c, m))
    BY DEF NestedGot, NestedRaises, Stored
<1>4. CrawlSound(After(c, m)) /\ After(c, m).state \in {"flying", "got"}
    BY <1>1, <1>2, <1>3, NestedCrawlOver
<1> HIDE DEF r
<1> QED
    BY <1>1, <1>2, <1>3, <1>4, OneCrawl DEF UnderWay, r

LEMMA UnwoundKeeps ==
    ASSUME LegacyInv, NEW c \in DOMAIN crawl, Unwound(c)
    PROVE  LegacyInv'
<1> DEFINE r == crawl[c]
<1>1. CrawlSound(r) /\ r \in Crawls /\ r.state \in UnderWay /\ UNCHANGED gather
    BY CrawlFacts DEF Unwound, UnderWay
<1>2. NoneUnderWay(r.records)
    <2>1. r.at \in {"root", "nested"}
        BY <1>1 DEF Unwound, Crawls
    <2> QED
        BY <1>1, <2>1 DEF CrawlSound, RecordsSound, NoneUnderWay
<1>3. Update(c, [r EXCEPT !.state = "dropped"])
    BY DEF Unwound
<1>4. CrawlSound([r EXCEPT !.state = "dropped"]) /\ [r EXCEPT !.state = "dropped"].state = "dropped"
    BY <1>1, <1>2, CrawlEnds DEF Over
<1> HIDE DEF r
<1> QED
    BY <1>1, <1>3, <1>4, OneCrawl DEF UnderWay, r

-----------------------------------------------------------------------------
(* The gather of the lane                                                  *)

LEMMA NewCrawlIsSound == CrawlSound(NewCrawl)
<1>1. NewCrawl \in Crawls
    BY DEF NewCrawl, Crawls, TaskStates
<1>2. RecordsSound(NewCrawl)
    BY DEF RecordsSound, NewCrawl, InBatch, NoneUnderWay
<1> QED
    BY <1>1, <1>2 DEF CrawlSound

\* Before a job begins, and when it is over.
LEMMA NothingBegun ==
    ASSUME gather = [mode |-> "none", batch |-> 1], crawl = [c \in 1 .. Components |-> NewCrawl]
    PROVE  LegacyInv
<1>1. gather \in Gathers
    BY DEF Gathers, Modes
<1>2. \A c \in 1 .. Components : crawl[c] = NewCrawl /\ crawl[c].state = "later"
    BY DEF NewCrawl
<1>3. crawl \in [1 .. Components -> Crawls] /\ \A c \in 1 .. Components : CrawlSound(crawl[c])
    BY <1>2, NewCrawlIsSound DEF CrawlSound
<1>4. GatherSound
    BY <1>2 DEF GatherSound, UnderWay
<1> QED
    BY <1>1, <1>3, <1>4 DEF LegacyInv

LEMMA LegacyInitEstablishes == LegacyInit => LegacyInv
BY NothingBegun DEF LegacyInit

LEMMA NoLegacyEstablishes == NoLegacy => LegacyInv'
<1> SUFFICES ASSUME NoLegacy PROVE LegacyInv'
    OBVIOUS
<1>1. gather' \in Gathers
    BY DEF Gathers, Modes, NoLegacy
<1>2. \A c \in 1 .. Components : crawl'[c] = NewCrawl /\ crawl'[c].state = "later"
    BY DEF NewCrawl, NoLegacy
<1>3. DOMAIN crawl' = 1 .. Components
    BY DEF NoLegacy
<1>4. crawl' \in [1 .. Components -> Crawls] /\ \A c \in 1 .. Components : CrawlSound(crawl'[c])
    BY <1>2, NewCrawlIsSound DEF CrawlSound, NoLegacy
<1>5. GatherSound'
    BY <1>2, <1>3 DEF GatherSound, UnderWay, NoLegacy
<1> QED
    BY <1>1, <1>4, <1>5 DEF LegacyInv

\* The crawls of a batch begin, which had not.
LEMMA CrawlsBegin ==
    ASSUME LegacyInv, NEW b, crawl' = BegunCrawls(b),
           \A c \in DOMAIN crawl : crawl[c].state \notin UnderWay,
           \A c \in DOMAIN crawl \cap Batch(b) : crawl[c].state = "later"
    PROVE  /\ crawl' \in [1 .. Components -> Crawls]
           /\ \A c \in 1 .. Components : CrawlSound(crawl'[c])
           /\ \A c \in 1 .. Components : crawl'[c].state \in UnderWay => c \in Batch(b)
           /\ \A c \in 1 .. Components : c \notin Batch(b) => crawl'[c].state = crawl[c].state
<1>1. DOMAIN crawl = 1 .. Components /\ \A c \in 1 .. Components : crawl[c] \in Crawls /\ CrawlSound(crawl[c])
    BY DEF LegacyInv
<1>2. /\ DOMAIN crawl' = 1 .. Components
      /\ \A c \in 1 .. Components :
            crawl'[c] = [crawl[c] EXCEPT !.state = IF c \in Batch(b) THEN "flying" ELSE crawl[c].state]
    BY <1>1 DEF BegunCrawls, Begun, States
<1>3. ASSUME NEW c \in 1 .. Components, c \notin Batch(b)
      PROVE  crawl'[c] = crawl[c]
    BY <1>1, <1>2, <1>3 DEF Crawls
<1>4. ASSUME NEW c \in 1 .. Components, c \in Batch(b)
      PROVE  CrawlSound(crawl'[c])
    <2> DEFINE r == crawl[c]
               q == crawl'[c]
    <2>1. r \in Crawls /\ RecordsSound(r) /\ r.state = "later"
        BY <1>1, <1>4 DEF CrawlSound
    <2>2. r.at = "root" /\ r.records = <<>> /\ r.batch = 1
        BY <2>1 DEF RecordsSound
    <2>3. /\ q \in Crawls
          /\ q.state = "flying" /\ q.at = r.at /\ q.batch = r.batch /\ q.records = r.records
        <3>1. q = [r EXCEPT !.state = "flying"] /\ "flying" \in TaskStates
            BY <1>2, <1>4 DEF TaskStates, UnderWay
        <3> HIDE DEF r, q
        <3> QED
            BY <2>1, <3>1 DEF Crawls
    <2> HIDE DEF r, q
    <2>4. RecordsSound(q)
        BY <2>1, <2>2, <2>3 DEF RecordsSound, Over, NoneUnderWay
    <2> QED
        BY <2>3, <2>4 DEF CrawlSound, q
<1>5. \A c \in 1 .. Components : CrawlSound(crawl'[c])
    BY <1>1, <1>3, <1>4
<1>6. crawl' \in [1 .. Components -> Crawls]
    BY <1>2, <1>5 DEF CrawlSound, BegunCrawls
<1> QED
    BY <1>1, <1>3, <1>5, <1>6

\* A crawl that is cancelled passes it on to its records.
LEMMA CancelledCrawlIsSound ==
    ASSUME NEW r, CrawlSound(r)
    PROVE  /\ CrawlSound(CancelledCrawl(r))
           /\ CancelledCrawl(r).state \in UnderWay => r.state \in UnderWay
<1> DEFINE q == CancelledCrawl(r)
<1>1. r \in Crawls /\ r.records \in Seq(TaskStates) /\ r.state \in TaskStates
    BY DEF CrawlSound, Crawls
<1> DEFINE s == CASE r.state = "flying" -> "unwinding" [] r.state = "later" -> "dropped" [] OTHER -> r.state
           recs == IF r.state = "flying" THEN Cancelled(r.records) ELSE r.records
<1>2. Cancelled(<<r.state>>)[1] = s
    BY DEF Cancelled
<1>3. s \in TaskStates /\ recs \in Seq(TaskStates)
    BY <1>1, CancellingBeginsNothing DEF TaskStates, UnderWay
<1>4. /\ DOMAIN recs = DOMAIN r.records
      /\ \A i \in DOMAIN r.records : recs[i] \in UnderWay => r.records[i] \in UnderWay
    BY DEF Cancelled, UnderWay
<1>5. /\ s \in UnderWay => r.state \in UnderWay
      /\ s # "later"
      /\ s \in Over => r.state = "later" \/ r.state \in Over
      /\ r.state = "later" => s = "dropped"
    BY <1>1 DEF TaskStates, UnderWay, Over
<1>6. q = [r EXCEPT !.state = s, !.records = recs, !.draining = r.state = "flying" \/ r.draining]
    BY <1>2 DEF CancelledCrawl
<1> HIDE DEF s, recs, q
<1>7. (r.state = "flying" \/ r.draining) \in BOOLEAN
    OBVIOUS
<1>8. /\ q \in Crawls
      /\ q.state = s /\ q.at = r.at /\ q.batch = r.batch /\ q.records = recs
    BY <1>1, <1>3, <1>6, <1>7 DEF Crawls
<1>9. RecordsSound(r)
    BY DEF CrawlSound
<1>10. NoneUnderWay(r.records) => NoneUnderWay(recs)
    BY <1>4 DEF NoneUnderWay
<1>11. r.records = <<>> => recs = <<>>
    <2>1. Len(recs) = Len(r.records)
        BY <1>1, <1>3, <1>4
    <2> QED
        BY <1>1, <1>3, <2>1
<1>12. RecordsSound(q)
    <2>1. r.state = "later" => NoneUnderWay(recs)
        BY <1>9, <1>11 DEF RecordsSound, NoneUnderWay
    <2> QED
        BY <1>4, <1>5, <1>8, <1>9, <1>10, <1>11, <2>1 DEF RecordsSound, InBatch
<1> QED
    BY <1>5, <1>8, <1>12 DEF CrawlSound, q

LEMMA LaneBeginsKeeps ==
    ASSUME LegacyInv, LaneBegins
    PROVE  LegacyInv'
<1>1. /\ gather.mode = "none" /\ gather.batch = 1
      /\ \A c \in DOMAIN crawl : crawl[c].state \notin UnderWay
      /\ \A c \in DOMAIN crawl : crawl[c].state = "later"
    BY DEF LaneBegins, LegacyInv, GatherSound
<1>2. gather' = [gather EXCEPT !.mode = IF Components = 0 THEN "done" ELSE "gathering"] /\ crawl' = BegunCrawls(1)
    BY DEF LaneBegins
<1>3. /\ crawl' \in [1 .. Components -> Crawls]
      /\ \A c \in 1 .. Components : CrawlSound(crawl'[c])
      /\ \A c \in 1 .. Components : crawl'[c].state \in UnderWay => c \in Batch(1)
      /\ \A c \in 1 .. Components : c \notin Batch(1) => crawl'[c].state = crawl[c].state
    BY <1>1, <1>2, CrawlsBegin
<1>4. gather' \in Gathers /\ gather'.batch = 1 /\ gather'.mode = (IF Components = 0 THEN "done" ELSE "gathering")
    BY <1>1, <1>2 DEF LegacyInv, Gathers, Modes
<1>5. DOMAIN crawl = 1 .. Components /\ DOMAIN crawl' = 1 .. Components
    BY <1>3 DEF LegacyInv
<1>6. \A c \in 1 .. Components : c > 1 * batch_size => c \notin Batch(1)
    BY BatchesInOrder, LegacyCrawlAssumption DEF LegacyCrawlAssumption
<1>7. CASE Components = 0
    <2>1. DOMAIN crawl' = {}
        BY <1>5, <1>7
    <2> QED
        BY <1>3, <1>4, <1>7, <2>1 DEF LegacyInv, GatherSound
<1>8. CASE Components # 0
    BY <1>1, <1>3, <1>4, <1>5, <1>6, <1>8 DEF LegacyInv, GatherSound
<1> QED
    BY <1>7, <1>8

LEMMA NoServerIdKeeps ==
    ASSUME LegacyInv, NoServerId
    PROVE  LegacyInv'
<1>1. gather' \in Gathers /\ gather'.batch = gather.batch /\ gather'.mode = "failed" /\ crawl' = crawl
    BY DEF NoServerId, LegacyInv, Gathers, Modes
<1> QED
    BY <1>1 DEF NoServerId, LegacyInv, GatherSound

LEMMA LaneGoesOnKeeps ==
    ASSUME LegacyInv, LaneGoesOn
    PROVE  LegacyInv'
<1>1. gather.mode = "gathering" /\ gather \in Gathers /\ gather.batch \in Nat \ {0}
    BY DEF LaneGoesOn, LegacyInv, Gathers
<1>2. DOMAIN crawl = 1 .. Components
    BY DEF LegacyInv
<1>3. \A c \in DOMAIN crawl : crawl[c].state \notin UnderWay
    <2>1. \A c \in DOMAIN crawl : crawl[c].state \in UnderWay => c \in Batch(gather.batch)
        BY DEF LegacyInv, GatherSound
    <2>2. \A c \in DOMAIN crawl \cap Batch(gather.batch) : crawl[c].state = "got"
        BY DEF LaneGoesOn, AllGot, States
    <2> QED
        BY <2>1, <2>2 DEF UnderWay
<1>4. CASE gather' = [gather EXCEPT !.batch = @ + 1] /\ crawl' = BegunCrawls(gather.batch + 1)
    <2> DEFINE b == gather.batch
    <2>1. gather' \in Gathers /\ gather'.batch = b + 1 /\ gather'.mode = "gathering"
        BY <1>1, <1>4 DEF Gathers
    <2>2. /\ \A i \in Nat : i \in Batch(b + 1) <=> i > b * batch_size /\ i <= (b + 1) * batch_size
          /\ b * batch_size < (b + 1) * batch_size
          /\ b * batch_size \in Nat /\ (b + 1) * batch_size \in Nat
        <3>1. b \in Nat \ {0} /\ b + 1 \in Nat \ {0}
            BY <1>1
        <3> HIDE DEF b
        <3>2. (b + 1) * batch_size \in Nat
            BY <3>1, BatchesInOrder
        <3> QED
            BY <3>1, <3>2, BatchesInOrder
    <2>3. \A c \in DOMAIN crawl : c > b * batch_size => crawl[c].state = "later"
        BY <1>1 DEF LegacyInv, GatherSound
    <2>4. \A c \in DOMAIN crawl \cap Batch(b + 1) : crawl[c].state = "later"
        BY <1>2, <2>2, <2>3
    <2>5. /\ crawl' \in [1 .. Components -> Crawls]
          /\ \A c \in 1 .. Components : CrawlSound(crawl'[c])
          /\ \A c \in 1 .. Components : crawl'[c].state \in UnderWay => c \in Batch(b + 1)
          /\ \A c \in 1 .. Components : c \notin Batch(b + 1) => crawl'[c].state = crawl[c].state
        BY <1>3, <1>4, <2>4, CrawlsBegin
    <2>6. \A c \in 1 .. Components : c > (b + 1) * batch_size => crawl'[c].state = "later"
        <3> SUFFICES ASSUME NEW c \in 1 .. Components, c > (b + 1) * batch_size
                     PROVE  crawl'[c].state = "later"
            OBVIOUS
        <3> DEFINE lo == b * batch_size
                   hi == (b + 1) * batch_size
        <3>1. lo \in Nat /\ hi \in Nat /\ lo < hi /\ c > hi /\ c \in Nat
            BY <2>2
        <3>2. c \notin Batch(b + 1)
            <4>1. c \in Batch(b + 1) => c <= hi
                BY <2>2, <3>1
            <4> HIDE DEF hi, lo
            <4> QED
                BY <3>1, <4>1
        <3>3. c > lo
            <4> HIDE DEF hi, lo
            <4> QED
                BY <3>1
        <3> QED
            BY <1>2, <2>3, <2>5, <3>2, <3>3
    <2>7. DOMAIN crawl' = 1 .. Components
        BY <2>5
    <2>8. GatherSound'
        BY <2>1, <2>5, <2>6, <2>7 DEF GatherSound
    <2> QED
        BY <2>1, <2>5, <2>8 DEF LegacyInv
<1>5. CASE gather' = [gather EXCEPT !.mode = "done"] /\ crawl' = crawl
    <2>1. gather' \in Gathers /\ gather'.batch = gather.batch /\ gather'.mode = "done"
        BY <1>1, <1>5 DEF Gathers, Modes
    <2> QED
        BY <1>3, <1>5, <2>1 DEF LegacyInv, GatherSound
<1> QED
    BY <1>4, <1>5 DEF LaneGoesOn

\* The gather is cancelled, or cancels what it has begun.
LEMMA GatherCancels ==
    ASSUME LegacyInv, NEW mode \in {"failing", "cancelling"},
           gather' = [gather EXCEPT !.mode = mode],
           crawl' = [c \in DOMAIN crawl |-> CancelledCrawl(crawl[c])]
    PROVE  LegacyInv'
<1>1. gather' \in Gathers /\ gather'.batch = gather.batch /\ gather'.mode = mode
    BY DEF LegacyInv, Gathers, Modes
<1>2. DOMAIN crawl = 1 .. Components /\ DOMAIN crawl' = 1 .. Components
    BY DEF LegacyInv
<1>3. \A c \in 1 .. Components : /\ CrawlSound(crawl'[c])
                                 /\ crawl'[c].state \in UnderWay => crawl[c].state \in UnderWay
    BY <1>2, CancelledCrawlIsSound DEF LegacyInv
<1>4. crawl' \in [1 .. Components -> Crawls]
    BY <1>2, <1>3 DEF CrawlSound
<1>5. GatherSound'
    BY <1>1, <1>2, <1>3 DEF LegacyInv, GatherSound
<1> QED
    BY <1>1, <1>3, <1>4, <1>5 DEF LegacyInv

LEMMA LaneCancelledKeeps ==
    ASSUME LegacyInv, LaneCancelled
    PROVE  LegacyInv'
BY GatherCancels DEF LaneCancelled

LEMMA LaneEndsKeeps ==
    ASSUME LegacyInv, LaneEnds
    PROVE  LegacyInv'
<1>1. gather' \in Gathers /\ gather'.batch = gather.batch /\ gather'.mode \in {"failed", "cancelled"} /\ crawl' = crawl
    BY DEF LaneEnds, LegacyInv, Gathers, Modes
<1>2. \A c \in DOMAIN crawl : crawl[c].state \notin UnderWay
    BY DEF LaneEnds, NoneUnderWay, States
<1> QED
    BY <1>1, <1>2 DEF LegacyInv, GatherSound

\* The invariant of a job of v1: what is under way at a level is of the batch it is
\* at.
LEMMA LegacyStepKeeps ==
    ASSUME LegacyInv, LegacyStep
    PROVE  LegacyInv'
<1>1. ASSUME NEW c \in DOMAIN crawl,
             \/ RootGot(c) \/ RootRaises(c)
             \/ RecordsGoOn(c) \/ RecordsFail(c) \/ RecordsEnd(c)
             \/ NestedGot(c) \/ NestedRaises(c) \/ Unwound(c)
             \/ \E i \in DOMAIN crawl[c].records : RecordOver(c, i)
      PROVE  LegacyInv'
    BY <1>1, RootGotKeeps, RootRaisesKeeps, RecordsGoOnKeeps, RecordsFailKeeps, RecordsEndKeeps,
       NestedCrawlKeeps, UnwoundKeeps, RecordOverKeeps
<1>2. CASE LaneFails
    BY <1>2, GatherCancels DEF LaneFails
<1> QED
    BY <1>1, <1>2, LaneGoesOnKeeps, LaneEndsKeeps DEF LegacyStep

LEMMA LegacyStays ==
    ASSUME LegacyInv, UNCHANGED legacyVars
    PROVE  LegacyInv'
<1>1. gather' = gather /\ crawl' = crawl
    BY DEF legacyVars
<1> QED
    BY <1>1 DEF LegacyInv, GatherSound

-----------------------------------------------------------------------------
(* What the runs check                                                     *)

\* Nothing is left under way behind a gather, at either level.
LEMMA NothingIsLeft == LegacyInv => NothingLeftInFlight
<1> SUFFICES ASSUME LegacyInv PROVE NothingLeftInFlight
    OBVIOUS
<1>1. DOMAIN crawl = 1 .. Components
    BY DEF LegacyInv
<1>2. gather.mode \in {"none", "done", "failed", "cancelled"} => NoneUnderWay(States)
    BY DEF LegacyInv, GatherSound, NoneUnderWay, States
<1>3. ASSUME NEW c \in DOMAIN crawl
      PROVE  /\ crawl[c].state \in Over \/ crawl[c].at = "nested" => NoneUnderWay(crawl[c].records)
             /\ Cardinality({i \in DOMAIN crawl[c].records : crawl[c].records[i] \in UnderWay}) <= batch_size
    <2>1. RecordsSound(crawl[c]) /\ crawl[c] \in Crawls
        BY CrawlFacts DEF CrawlSound
    <2>2. crawl[c].batch \in Nat \ {0}
        BY <2>1 DEF Crawls
    <2>3. {i \in DOMAIN crawl[c].records : crawl[c].records[i] \in UnderWay} \subseteq Batch(crawl[c].batch)
        BY <2>1 DEF RecordsSound, InBatch
    <2> QED
        BY <2>1, <2>2, <2>3, AtMostABatch DEF RecordsSound
<1>4. Cardinality({c \in DOMAIN crawl : crawl[c].state \in UnderWay}) <= batch_size
    <2>1. gather.batch \in Nat \ {0}
        BY DEF LegacyInv, Gathers
    <2>2. {c \in DOMAIN crawl : crawl[c].state \in UnderWay} \subseteq Batch(gather.batch)
        BY DEF LegacyInv, GatherSound
    <2> QED
        BY <2>1, <2>2, AtMostABatch
<1> QED
    BY <1>2, <1>3, <1>4 DEF NothingLeftInFlight

LEMMA LegacyTypes == LegacyInv => LegacyTypeOK
<1> SUFFICES ASSUME LegacyInv PROVE LegacyTypeOK
    OBVIOUS
<1>1. gather.mode \in Modes
    BY DEF LegacyInv, Gathers
<1>2. \A c \in DOMAIN crawl : /\ crawl[c].state \in TaskStates
                              /\ crawl[c].at \in {"root", "records", "nested"}
                              /\ crawl[c].records \in Seq(TaskStates)
    BY CrawlFacts DEF Crawls
<1> QED
    BY <1>1, <1>2 DEF LegacyTypeOK, Modes

-----------------------------------------------------------------------------
(* The crawl of a schema: what its state is made of                        *)

AllNames == DOMAIN Resources \cup UNION {ChildNames(d) : d \in Definitions}

Paths == Seq(AllNames \X (Nat \ {0}))

Asked == UNION {{d.strategies[i].of : i \in DOMAIN d.strategies} : d \in Definitions}

AnyRecord ==
    [member : Nat \X Nat, body : Bodies, from : Paths, capture : SUBSET Captures,
     uri : {"none", "template", "capture", "resource", "parent"}, of : Asked]

Kinds == {"link", "inline", "other"}

AnyRef == [kind : Kinds, member : Nat \X Nat]

Executions ==
    [owner : Paths, name : AllNames, def : Definitions,
     context : [Captures -> Paths \cup {NoSource}], depth : Nat]

Turns ==
    [strategy : Nat, doing : {"choosing", "root", "reuse", "paging", "page", "members", "member"},
     source : Paths \cup {NoSource}, listed : Seq(Kinds), refs : Seq(AnyRef), pages : 0 .. max_pages,
     more : BOOLEAN, records : Seq(AnyRecord)]

\* The definition of a resource: of a lane, or nested under a record.
DefOf(owner, name) == IF owner = <<>> THEN Resources[name] ELSE ChildDef(DefAt(owner), name)

\* A resource belongs under its owner, and nowhere below the depth.
Belongs(owner, name) ==
    IF owner = <<>> THEN name \in DOMAIN Resources
    ELSE Len(owner) <= max_depth /\ name \in ChildNames(DefAt(owner))

-----------------------------------------------------------------------------
(* Its invariant                                                           *)

TreeSound ==
    /\ DOMAIN tree \subseteq Paths \X AllNames
    /\ \A e \in DOMAIN tree :
          /\ tree[e].records \in Seq(AnyRecord) /\ tree[e].strategy \in Nat
          /\ Line(e[1]) \subseteq Records
          /\ Belongs(e[1], e[2])
          /\ tree[e].strategy = 0 => tree[e].records = <<>>
          /\ Len(tree[e].records) <= 1 \/ Len(tree[e].records) <= max_members
          /\ e[1] = <<>> /\ Resources[e[2]].required => tree[e].strategy # 0
    /\ \A p \in Records : RightSource(RecordAt(p), Front(p), p[1][1])

\* What a capture is bound to below a record: to what the nearest record that
\* declares it had, or to what bootstrap had.
Bound(context, owner) ==
    \A c \in Captures :
        LET Declaring == {q \in Line(owner) : c \in RecordAt(q).capture}
        IN  IF Declaring = {} THEN context[c] = IF c \in bootstrap_ctx THEN FromBootstrap ELSE NoSource
            ELSE \E q \in Declaring :
                    /\ \A q2 \in Declaring : Len(q2) <= Len(q)
                    /\ context[c] = IF c \in RecordAt(q).body THEN q ELSE NoSource

\* An execution that is to be made.
Awaited(x) ==
    /\ Line(x.owner) \subseteq Records
    /\ Belongs(x.owner, x.name)
    /\ x.def = DefOf(x.owner, x.name)
    /\ x.depth = Len(x.owner)
    /\ x.owner # <<>> => Entry(x.owner, x.name) \notin DOMAIN tree
    /\ Bound(x.context, x.owner)

\* What is not executed under a record will be.
AgendaSound ==
    /\ agenda \in Seq(Executions)
    /\ \A i \in DOMAIN agenda : Awaited(agenda[i])
    /\ \A i, j \in DOMAIN agenda : agenda[i].owner = agenda[j].owner /\ agenda[i].name = agenda[j].name => i = j
    /\ \A p \in Records : Len(p) <= max_depth =>
          \A name \in ChildNames(DefAt(p)) :
              \/ Entry(p, name) \in DOMAIN tree
              \/ \E i \in DOMAIN agenda : agenda[i].owner = p /\ agenda[i].name = name

Top == LaneResources[lane][position]

\* The resources of the lane are executed one after the other, each with all that is
\* below it.
PositionSound ==
    /\ lane \in {"fast", "slow"}
    /\ position \in DOMAIN LaneResources[lane]
    /\ \A i \in DOMAIN LaneResources[lane] : i < position => Entry(<<>>, LaneResources[lane][i]) \in DOMAIN tree
    /\ \A i \in DOMAIN agenda : IF agenda[i].owner = <<>> THEN Len(agenda) = 1 /\ agenda[i].name = Top
                                ELSE agenda[i].owner[1][1] = Top
    /\ agenda = <<>> \/ agenda[1].owner # <<>> => Entry(<<>>, Top) \in DOMAIN tree
    /\ DOMAIN raws \subseteq {LaneResources[lane][i] : i \in {j \in DOMAIN LaneResources[lane] :
                                                        j < position \/ (outcome = "done" /\ j = position)}}
    /\ outcome = "done" => agenda = <<>> /\ position = Len(LaneResources[lane])

TurnSound ==
    /\ turn \in Turns
    /\ agenda = <<>> => turn = Fresh(1)
    /\ turn.more => turn.doing \in {"paging", "page"}
    /\ turn.doing = "page" => turn.pages < max_pages
    /\ turn.doing \in {"choosing", "root", "reuse"} => turn.pages = 0
    /\ turn.doing \in {"choosing", "root", "reuse", "paging", "page"} => turn.records = <<>>
    /\ turn.doing \in {"choosing", "root", "reuse"} => turn.refs = <<>>
    /\ turn.doing \in {"members", "member"} => Len(turn.records) + Len(turn.refs) <= max_members
    /\ turn.doing = "member" => turn.refs # <<>>
    /\ agenda # <<>> =>
          /\ turn.strategy \in DOMAIN Current.def.strategies
          /\ turn.doing # "choosing" => turn.source \in Paths /\ \A member \in Nat \X Nat, body \in Bodies : RightSource(Record(member, body), Current.owner, Top)
          /\ \A i \in DOMAIN turn.records : RightSource(turn.records[i], Current.owner, Top)
          /\ turn.doing # "choosing" => Strategy.kind # "telemetry-reports"

Untouched ==
    /\ position = 1 /\ agenda = <<>> /\ turn = Fresh(1) /\ tree = [e \in {} |-> {}]
    /\ raws = [n \in {} |-> {}] /\ fetches = 0

\* Before the first resource, and while a lane without resources is collected.
NothingToCrawl ==
    /\ Untouched
    /\ outcome = "none" \/ (outcome = "done" /\ LaneResources[lane] = <<>>)

Crawling ==
    /\ outcome \in {"running", "done", "failed", "aborted"}
    /\ fetches \in Nat
    /\ PositionSound
    /\ TreeSound
    /\ AgendaSound
    /\ TurnSound

CrawlInv == NothingToCrawl \/ Crawling

-----------------------------------------------------------------------------
(* Paths                                                                   *)

\* A path that goes one step further.
LEMMA OneStepFurther ==
    ASSUME NEW S, NEW o \in Seq(S), NEW x \in S
    PROVE  /\ Append(o, x) \in Seq(S) /\ Append(o, x) # <<>>
           /\ Len(Append(o, x)) = Len(o) + 1
           /\ Front(Append(o, x)) = o /\ Last(Append(o, x)) = x
           /\ Append(o, x)[1] = IF o = <<>> THEN x ELSE o[1]
<1> DEFINE p == Append(o, x)
<1>1. /\ p \in Seq(S) /\ Len(p) = Len(o) + 1 /\ DOMAIN p = 1 .. Len(o) + 1
      /\ p[Len(o) + 1] = x /\ \A i \in 1 .. Len(o) : p[i] = o[i]
    OBVIOUS
<1> HIDE DEF p
<1>2. Last(p) = x
    BY <1>1 DEF Last
<1>3. Front(p) = o
    <2>1. SubSeq(p, 1, Len(o)) \in Seq(S) /\ Len(SubSeq(p, 1, Len(o))) = Len(o)
        BY <1>1
    <2>2. \A i \in 1 .. Len(o) : SubSeq(p, 1, Len(o))[i] = o[i]
        BY <1>1
    <2>3. SubSeq(p, 1, Len(o)) = o
        BY <2>1, <2>2
    <2> QED
        BY <1>1, <2>3 DEF Front
<1>4. p[1] = IF o = <<>> THEN x ELSE o[1]
    <2>1. CASE o = <<>>
        <3>1. Len(o) = 0
            BY <2>1
        <3> QED
            BY <1>1, <2>1, <3>1
    <2>2. CASE o # <<>>
        BY <1>1, <2>2
    <2> QED
        BY <2>1, <2>2
<1>5. p # <<>>
    BY <1>1
<1> QED
    BY <1>1, <1>2, <1>3, <1>4, <1>5 DEF p

\* What is above a path: parts of it that begin as it does.
LEMMA LineFacts ==
    ASSUME NEW S, NEW o \in Seq(S)
    PROVE  /\ Line(<<>>) = {}
           /\ \A q \in Line(o) : q \in Seq(S) /\ q # <<>> /\ Len(q) <= Len(o) /\ q[1] = o[1]
           /\ \A x \in S : Line(Append(o, x)) = Line(o) \cup {Append(o, x)}
<1>1. Line(<<>>) = {}
    BY DEF Line
<1>2. ASSUME NEW q \in Line(o)
      PROVE  q \in Seq(S) /\ q # <<>> /\ Len(q) <= Len(o) /\ q[1] = o[1]
    <2>1. PICK n \in 1 .. Len(o) : q = SubSeq(o, 1, n)
        BY DEF Line
    <2>2. SubSeq(o, 1, n) \in Seq(S) /\ Len(SubSeq(o, 1, n)) = n /\ SubSeq(o, 1, n)[1] = o[1]
        OBVIOUS
    <2> QED
        BY <2>1, <2>2
<1>3. ASSUME NEW x \in S
      PROVE  Line(Append(o, x)) = Line(o) \cup {Append(o, x)}
    <2> DEFINE p == Append(o, x)
    <2>1. /\ p \in Seq(S) /\ Len(p) = Len(o) + 1 /\ DOMAIN p = 1 .. Len(o) + 1
          /\ \A i \in 1 .. Len(o) : p[i] = o[i]
        OBVIOUS
    <2> HIDE DEF p
    <2>2. ASSUME NEW n \in 1 .. Len(o)
          PROVE  SubSeq(p, 1, n) = SubSeq(o, 1, n)
        <3>1. SubSeq(p, 1, n) \in Seq(S) /\ Len(SubSeq(p, 1, n)) = n /\ SubSeq(o, 1, n) \in Seq(S) /\ Len(SubSeq(o, 1, n)) = n
            BY <2>1
        <3>2. \A i \in 1 .. n : SubSeq(p, 1, n)[i] = SubSeq(o, 1, n)[i]
            BY <2>1
        <3> QED
            BY <3>1, <3>2
    <2>3. SubSeq(p, 1, Len(o) + 1) = p
        <3>1. SubSeq(p, 1, Len(o) + 1) \in Seq(S) /\ Len(SubSeq(p, 1, Len(o) + 1)) = Len(o) + 1
            BY <2>1
        <3>2. \A i \in 1 .. Len(o) + 1 : SubSeq(p, 1, Len(o) + 1)[i] = p[i]
            BY <2>1
        <3> QED
            BY <2>1, <3>1, <3>2
    <2>4. \A n : n \in 1 .. Len(p) <=> n \in 1 .. Len(o) \/ n = Len(o) + 1
        BY <2>1
    <2>5. \A q : q \in Line(p) <=> q \in Line(o) \/ q = p
        BY <2>2, <2>3, <2>4 DEF Line
    <2>6. Line(p) = Line(o) \cup {p}
        BY <2>5, Zenon
    <2> QED
        BY <2>6 DEF p
<1> QED
    BY <1>1, <1>2, <1>3

-----------------------------------------------------------------------------
(* Sequences of definitions and of sequences                               *)

\* Of places in a sequence there is a last one.
LEMMA LastPlace ==
    ASSUME NEW n \in Nat, NEW S \in SUBSET (1 .. n), S # {}
    PROVE  \E i \in S : \A j \in S : i >= j
<1> DEFINE down == {k \in Nat : \E i \in S : k = n - i}
<1>1. \A i \in S : i \in Nat /\ n - i \in Nat
    OBVIOUS
<1>2. down \in SUBSET Nat /\ down # {}
    BY <1>1
<1> HIDE DEF down
<1>3. PICK m \in down : \A k \in down : m <= k
    BY <1>2, LeastNat
<1> USE DEF down
<1>4. PICK i \in S : m = n - i
    OBVIOUS
<1>5. ASSUME NEW j \in S
      PROVE  i >= j
    <2>1. n - j \in down
        BY <1>1
    <2>2. n - i <= n - j
        BY <1>3, <1>4, <2>1
    <2> HIDE DEF down
    <2> QED
        BY <1>1, <2>2
<1> QED
    BY <1>5

\* The names of a definition's children are known, and so are their definitions.
LEMMA ChildIsDefined ==
    ASSUME NEW d \in Definitions, NEW name \in ChildNames(d)
    PROVE  ChildDef(d, name) \in Definitions /\ name \in AllNames
<1> DEFINE declaring == {i \in DOMAIN d.strategies : name \in DOMAIN d.strategies[i].children}
<1>1. WellFormed(d)
    BY SchemaAssumption DEF SchemaAssumption
<1>2. DOMAIN d.strategies = 1 .. Len(d.strategies) /\ Len(d.strategies) \in Nat
    BY <1>1 DEF WellFormed
<1>3. declaring \in SUBSET (1 .. Len(d.strategies)) /\ declaring # {}
    BY <1>2 DEF ChildNames
<1>4. \E i \in declaring : \A j \in declaring : i >= j
    <2> HIDE DEF declaring
    <2> QED
        BY <1>2, <1>3, LastPlace
<1> DEFINE last == CHOOSE i \in declaring : \A j \in declaring : i >= j
<1>5. last \in declaring
    <2> HIDE DEF declaring
    <2> QED
        BY <1>4
<1>6. ChildDef(d, name) = d.strategies[last].children[name]
    BY DEF ChildDef
<1> HIDE DEF last
<1>7. ChildDef(d, name) \in Definitions
    BY <1>1, <1>5, <1>6 DEF WellFormed
<1>8. name \in AllNames
    BY DEF AllNames
<1> QED
    BY <1>7, <1>8

\* A finite set in some order.
LEMMA InSomeOrder ==
    ASSUME NEW S, IsFiniteSet(S)
    PROVE  /\ SetToSeq(S) \in Seq(S)
           /\ \A i, j \in DOMAIN SetToSeq(S) : SetToSeq(S)[i] = SetToSeq(S)[j] => i = j
           /\ \A x \in S : \E i \in DOMAIN SetToSeq(S) : SetToSeq(S)[i] = x
<1> DEFINE n == Cardinality(S)
           f == SetToSeq(S)
<1>1. n \in Nat /\ ExistsBijection(1 .. n, S)
    BY FS_CardinalityType
<1>2. \E g \in [1 .. n -> S] : IsInjective(g)
    BY <1>1 DEF ExistsBijection, Bijection, Injection
<1>3. f \in [1 .. n -> S] /\ IsInjective(f)
    <2> HIDE DEF n
    <2> QED
        BY <1>2 DEF SetToSeq, n
<1>4. f \in Surjection(1 .. n, S)
    <2>1. f \in Injection(1 .. n, S)
        BY <1>3 DEF Injection
    <2>2. Cardinality(1 .. n) = n
        BY <1>1, FirstNumbers
    <2> QED
        BY <1>1, <2>1, <2>2, FS_Injection
<1> HIDE DEF f, n
<1>5. f \in Seq(S)
    BY <1>1, <1>3
<1>6. \A x \in S : \E i \in DOMAIN f : f[i] = x
    BY <1>3, <1>4 DEF Surjection
<1>7. \A i, j \in DOMAIN f : f[i] = f[j] => i = j
    BY <1>3 DEF IsInjective
<1> QED
    BY <1>5, <1>6, <1>7 DEF f

\* FlattenSeq() joins one sequence after the other.
LEMMA FlattenIsJoined ==
    ASSUME NEW T, NEW seqs \in Seq(Seq(T)), seqs # <<>>
    PROVE  \E f : /\ FlattenSeq(seqs) = f[Len(seqs)]
                  /\ f[1] = seqs[1]
                  /\ \A i \in 2 .. Len(seqs) : f[i] = f[i - 1] \o seqs[i]
<1> DEFINE n == Len(seqs)
           Flat(f) == f = [i \in 1 .. n |-> IF i = 1 THEN seqs[i] ELSE f[i - 1] \o seqs[i]]
           F == CHOOSE f : Flat(f)
           G == [p \in Nat \X Seq(T) |-> IF p[1] \in 1 .. n THEN p[2] \o seqs[p[1]] ELSE <<>>]
<1>1. n \in Nat /\ n # 0 /\ \A i \in 1 .. n : seqs[i] \in Seq(T)
    OBVIOUS
<1>2. FlattenSeq(seqs) = F[n]
    BY <1>1 DEF FlattenSeq
<1> HIDE DEF n
<1>3. G \in [Nat \X Seq(T) -> Seq(T)] /\ <<>> \in Seq(T)
    BY <1>1
<1>4. PICK g : g \in [0 .. n -> Seq(T)] /\ g[0] = <<>> /\ \A i \in 1 .. n : g[i] = G[<<i, g[i - 1]>>]
    <2> HIDE DEF G
    <2>1. \E g : Follows(g, n, Seq(T), <<>>, G)
        BY <1>1, <1>3, Recursion
    <2> QED
        BY <2>1 DEF Follows
<1>5. \A i \in 1 .. n : g[i] = IF i = 1 THEN seqs[i] ELSE g[i - 1] \o seqs[i]
    <2> TAKE i \in 1 .. n
    <2>1. i - 1 \in 0 .. n /\ i \in Nat
        BY <1>1
    <2>2. g[i - 1] \in Seq(T)
        BY <1>4, <2>1
    <2>3. G[<<i, g[i - 1]>>] = g[i - 1] \o seqs[i]
        BY <2>1, <2>2
    <2> HIDE DEF G
    <2>4. g[i] = g[i - 1] \o seqs[i]
        BY <1>4, <2>3
    <2>5. i = 1 => g[i - 1] \o seqs[i] = seqs[i]
        <3>1. seqs[i] \in Seq(T)
            BY <1>1
        <3>2. <<>> \o seqs[i] = seqs[i]
            BY <3>1
        <3> QED
            BY <1>4, <2>1, <3>2
    <2> QED
        BY <2>4, <2>5
<1> DEFINE h == [i \in 1 .. n |-> g[i]]
<1>6. Flat(h)
    <2>1. \A i \in 1 .. n : h[i] = IF i = 1 THEN seqs[i] ELSE h[i - 1] \o seqs[i]
        <3> TAKE i \in 1 .. n
        <3>1. i # 1 => i - 1 \in 1 .. n
            BY <1>1
        <3>2. h[i] = g[i] /\ (i # 1 => h[i - 1] = g[i - 1])
            BY <3>1
        <3> HIDE DEF h
        <3> QED
            BY <1>5, <3>2
    <2>2. h = [i \in 1 .. n |-> h[i]]
        OBVIOUS
    <2> HIDE DEF h
    <2> QED
        BY <2>1, <2>2
<1>7. Flat(F)
    <2> HIDE DEF Flat
    <2> QED
        BY <1>6
<1> HIDE DEF F
<1>8. F[1] = seqs[1] /\ \A i \in 2 .. n : F[i] = F[i - 1] \o seqs[i]
    <2>1. 1 \in 1 .. n /\ \A i \in 2 .. n : i \in 1 .. n /\ i # 1
        BY <1>1
    <2> QED
        BY <1>7, <2>1
<1> HIDE DEF Flat
<1> QED
    BY <1>2, <1>8 DEF n

\* What is flattened is all there, each once if each was there once.
LEMMA Flattened ==
    ASSUME NEW T, NEW seqs \in Seq(Seq(T))
    PROVE  /\ FlattenSeq(seqs) \in Seq(T)
           /\ \A k \in DOMAIN FlattenSeq(seqs) : \E i \in DOMAIN seqs : \E j \in DOMAIN seqs[i] : FlattenSeq(seqs)[k] = seqs[i][j]
           /\ \A i \in DOMAIN seqs : \A j \in DOMAIN seqs[i] : \E k \in DOMAIN FlattenSeq(seqs) : FlattenSeq(seqs)[k] = seqs[i][j]
           /\ (\A i1, i2 \in DOMAIN seqs : \A j1 \in DOMAIN seqs[i1], j2 \in DOMAIN seqs[i2] :
                  seqs[i1][j1] = seqs[i2][j2] => i1 = i2 /\ j1 = j2)
              => \A k, l \in DOMAIN FlattenSeq(seqs) : FlattenSeq(seqs)[k] = FlattenSeq(seqs)[l] => k = l
<1> DEFINE n == Len(seqs)
           All(s, m) ==
              /\ s \in Seq(T)
              /\ \A k \in DOMAIN s : \E i \in 1 .. m : \E j \in DOMAIN seqs[i] : s[k] = seqs[i][j]
              /\ \A i \in 1 .. m : \A j \in DOMAIN seqs[i] : \E k \in DOMAIN s : s[k] = seqs[i][j]
           Once(s) == \A k, l \in DOMAIN s : s[k] = s[l] => k = l
           Apart == \A i1, i2 \in DOMAIN seqs : \A j1 \in DOMAIN seqs[i1], j2 \in DOMAIN seqs[i2] :
                       seqs[i1][j1] = seqs[i2][j2] => i1 = i2 /\ j1 = j2
<1>1. n \in Nat /\ DOMAIN seqs = 1 .. n /\ \A i \in 1 .. n : seqs[i] \in Seq(T)
    OBVIOUS
<1>2. n = 0 => FlattenSeq(seqs) = seqs
    BY DEF FlattenSeq
<1> HIDE DEF n
<1>3. CASE n = 0
    <2>1. \A k : k \notin DOMAIN seqs
        BY <1>1, <1>3
    <2>2. FlattenSeq(seqs) = seqs
        BY <1>2, <1>3
    <2>3. seqs \in Seq(T)
        <3>1. seqs = <<>>
            BY <1>3 DEF n
        <3> QED
            BY <3>1
    <2> QED
        BY <2>1, <2>2, <2>3, Zenon
<1>4. CASE n # 0
    <2>1. PICK F : /\ FlattenSeq(seqs) = F[n] /\ F[1] = seqs[1]
                   /\ \A i \in 2 .. n : F[i] = F[i - 1] \o seqs[i]
        <3>1. seqs # <<>>
            BY <1>4 DEF n
        <3> QED
            BY <3>1, FlattenIsJoined DEF n
    <2>5. \A m \in 1 .. n : All(F[m], m) /\ (Apart => Once(F[m]))
        <3> DEFINE bad == {m \in 1 .. n : ~ (All(F[m], m) /\ (Apart => Once(F[m])))}
        <3>1. SUFFICES ASSUME bad # {} PROVE FALSE
            OBVIOUS
        <3>2. bad \in SUBSET Nat
            BY <1>1
        <3>3. PICK m \in bad : \A k \in bad : m <= k
            <4> HIDE DEF bad
            <4> QED
                BY <3>1, <3>2, LeastNat
        <3>4. m \in 1 .. n /\ ~ (All(F[m], m) /\ (Apart => Once(F[m])))
            OBVIOUS
        <3>5. CASE m = 1
            <4>1. All(seqs[1], 1)
                BY <1>1, <3>4, <3>5
            <4>2. Apart => Once(seqs[1])
                BY <1>1, <3>4, <3>5
            <4> HIDE DEF All, Once, Apart
            <4> QED
                BY <2>1, <3>4, <3>5, <4>1, <4>2
        <3>6. CASE m > 1
            <4>1. m - 1 \in 1 .. n /\ m - 1 \notin bad /\ m \in 2 .. n
                <5>1. m - 1 \in 1 .. n /\ m \in 2 .. n
                    BY <1>1, <3>4, <3>6
                <5> HIDE DEF bad
                <5> QED
                    BY <3>3, <3>4, <5>1
            <4>2. All(F[m - 1], m - 1) /\ (Apart => Once(F[m - 1]))
                BY <4>1
            <4> DEFINE s == F[m - 1]
                       t == seqs[m]
                       u == s \o t
            <4>3. F[m] = u
                BY <2>1, <4>1
            <4>4. s \in Seq(T) /\ t \in Seq(T)
                BY <1>1, <3>4, <4>2
            <4>5. /\ u \in Seq(T) /\ Len(u) = Len(s) + Len(t)
                  /\ DOMAIN u = 1 .. Len(s) + Len(t) /\ DOMAIN s = 1 .. Len(s) /\ DOMAIN t = 1 .. Len(t)
                  /\ \A k \in DOMAIN s : u[k] = s[k]
                  /\ \A k \in DOMAIN t : u[Len(s) + k] = t[k]
                  /\ Len(s) \in Nat /\ Len(t) \in Nat
                <5> HIDE DEF s, t
                <5> QED
                    BY <4>4
            <4> HIDE DEF u, s, t
            <4>6. \A k \in DOMAIN u : \/ k \in DOMAIN s
                                      \/ k - Len(s) \in DOMAIN t /\ u[k] = t[k - Len(s)] /\ k = Len(s) + (k - Len(s))
                <5> TAKE k \in DOMAIN u
                <5>1. CASE k <= Len(s)
                    BY <4>5, <5>1
                <5>2. CASE k > Len(s)
                    <6>1. k - Len(s) \in DOMAIN t /\ k = Len(s) + (k - Len(s))
                        BY <4>5, <5>2
                    <6> QED
                        BY <4>5, <6>1
                <5> QED
                    BY <4>5, <5>1, <5>2
            <4>7. 1 .. m = (1 .. m - 1) \cup {m} /\ m \in Nat
                BY <1>1, <3>4, <3>6
            <4>8. All(s, m - 1)
                BY <4>2 DEF s
            <4>9. All(u, m)
                <5>1. ASSUME NEW k \in DOMAIN u
                      PROVE  \E i \in 1 .. m : \E j \in DOMAIN seqs[i] : u[k] = seqs[i][j]
                    <6>1. CASE k \in DOMAIN s
                        <7>1. PICK i \in 1 .. m - 1 : \E j \in DOMAIN seqs[i] : s[k] = seqs[i][j]
                            BY <4>8, <6>1
                        <7> QED
                            BY <4>5, <4>7, <6>1, <7>1
                    <6>2. CASE k - Len(s) \in DOMAIN t /\ u[k] = t[k - Len(s)]
                        BY <4>7, <6>2 DEF t
                    <6> QED
                        BY <4>6, <6>1, <6>2
                <5>2. ASSUME NEW i \in 1 .. m, NEW j \in DOMAIN seqs[i]
                      PROVE  \E k \in DOMAIN u : u[k] = seqs[i][j]
                    <6>1. CASE i \in 1 .. m - 1
                        <7>1. PICK k \in DOMAIN s : s[k] = seqs[i][j]
                            BY <4>8, <6>1
                        <7>2. k \in DOMAIN u /\ u[k] = s[k]
                            BY <4>5
                        <7> QED
                            BY <7>1, <7>2
                    <6>2. CASE i = m
                        <7>1. j \in DOMAIN t /\ t[j] = seqs[i][j]
                            BY <6>2 DEF t
                        <7>2. Len(s) + j \in DOMAIN u
                            BY <4>5, <7>1
                        <7> QED
                            BY <4>5, <7>1, <7>2
                    <6> QED
                        BY <4>7, <6>1, <6>2
                <5> QED
                    BY <4>5, <5>1, <5>2
            <4>10. ASSUME Apart
                   PROVE  Once(u)
                <5>1. Once(s)
                    BY <4>2, <4>10 DEF s
                <5>2. Once(t)
                    <6>1. m \in DOMAIN seqs
                        BY <1>1, <3>4
                    <6> QED
                        BY <4>10, <6>1 DEF t
                <5>3. ASSUME NEW k \in DOMAIN s, NEW l \in DOMAIN t
                      PROVE  s[k] # t[l]
                    <6>1. PICK i \in 1 .. m - 1 : \E j \in DOMAIN seqs[i] : s[k] = seqs[i][j]
                        BY <4>8
                    <6>2. PICK j \in DOMAIN seqs[i] : s[k] = seqs[i][j]
                        BY <6>1
                    <6>3. i \in DOMAIN seqs /\ m \in DOMAIN seqs /\ i # m
                        BY <1>1, <3>4, <3>6
                    <6>4. l \in DOMAIN seqs[m] /\ t[l] = seqs[m][l]
                        BY DEF t
                    <6> QED
                        BY <4>10, <6>2, <6>3, <6>4
                <5>4. ASSUME NEW k \in DOMAIN u, NEW l \in DOMAIN u, u[k] = u[l]
                      PROVE  k = l
                    <6>1. CASE k \in DOMAIN s /\ l \in DOMAIN s
                        BY <4>5, <5>1, <5>4, <6>1
                    <6>2. CASE k \in DOMAIN s /\ l - Len(s) \in DOMAIN t /\ u[l] = t[l - Len(s)]
                        BY <4>5, <5>3, <5>4, <6>2
                    <6>3. CASE l \in DOMAIN s /\ k - Len(s) \in DOMAIN t /\ u[k] = t[k - Len(s)]
                        <7>1. u[l] = s[l] /\ u[k] # s[l]
                            BY <4>5, <5>3, <6>3
                        <7> QED
                            BY <5>4, <7>1
                    <6>4. CASE /\ k - Len(s) \in DOMAIN t /\ u[k] = t[k - Len(s)] /\ k = Len(s) + (k - Len(s))
                               /\ l - Len(s) \in DOMAIN t /\ u[l] = t[l - Len(s)] /\ l = Len(s) + (l - Len(s))
                        <7> DEFINE a == k - Len(s)
                                   b == l - Len(s)
                        <7>0. a \in DOMAIN t /\ b \in DOMAIN t /\ t[a] = t[b]
                            BY <5>4, <6>4
                        <7> HIDE DEF a, b
                        <7>1. a = b
                            BY <5>2, <7>0
                        <7> USE DEF a, b
                        <7> QED
                            BY <6>4, <7>1
                    <6> QED
                        BY <4>6, <6>1, <6>2, <6>3, <6>4
                <5> QED
                    BY <5>4
            <4> QED
                BY <3>4, <4>3, <4>9, <4>10
        <3> QED
            BY <1>1, <3>4, <3>5, <3>6
    <2>6. FlattenSeq(seqs) = F[n] /\ n \in 1 .. n
        BY <1>1, <1>4, <2>1
    <2>7. All(FlattenSeq(seqs), n) /\ (Apart => Once(FlattenSeq(seqs)))
        <3> HIDE DEF All, Once, Apart
        <3> QED
            BY <2>5, <2>6
    <2> QED
        BY <1>1, <2>7
<1> QED
    BY <1>3, <1>4

\* The way down to a record is the way to its definition.
LEMMA OneDefinitionFurther ==
    ASSUME NEW S, NEW o \in Seq(S), NEW x \in S
    PROVE  DefAt(Append(o, x)) = DefOf(o, x[1])
<1> DEFINE Def(f, path, m) ==
              f = [i \in 1 .. m |-> IF i = 1 THEN Resources[path[1][1]] ELSE ChildDef(f[i - 1], path[i][1])]
           D(path) == CHOOSE f : Def(f, path, Len(path))
<1>1. \A path : DefAt(path) = D(path)[Len(path)]
    BY DEF DefAt
<1>2. ASSUME NEW path \in Seq(S), path # <<>>
      PROVE  Def(D(path), path, Len(path))
    <2> DEFINE n == Len(path)
    <2>1. n \in Nat /\ n # 0
        BY <1>2
    <2> HIDE DEF n
    <2>2. \A m \in 1 .. n : \E f : Def(f, path, m)
        <3> DEFINE bad == {m \in 1 .. n : ~ \E f : Def(f, path, m)}
        <3>1. SUFFICES ASSUME bad # {} PROVE FALSE
            OBVIOUS
        <3>2. bad \in SUBSET Nat
            <4>1. bad \subseteq 1 .. n
                BY Zenon
            <4> HIDE DEF bad
            <4> QED
                BY <2>1, <4>1
        <3>3. PICK m \in bad : \A k \in bad : m <= k
            <4> HIDE DEF bad
            <4> QED
                BY <3>1, <3>2, LeastNat
        <3>4. m \in 1 .. n /\ ~ \E f : Def(f, path, m)
            OBVIOUS
        <3>5. CASE m = 1
            <4>1. Def([i \in 1 .. 1 |-> Resources[path[1][1]]], path, 1)
                OBVIOUS
            <4> QED
                BY <3>4, <3>5, <4>1
        <3>6. CASE m > 1
            <4>1. m - 1 \in 1 .. n /\ m - 1 \notin bad
                <5>1. m - 1 \in 1 .. n
                    BY <2>1, <3>4, <3>6
                <5> HIDE DEF bad
                <5> QED
                    BY <3>3, <3>4, <5>1
            <4>2. PICK f : Def(f, path, m - 1)
                BY <4>1
            <4> DEFINE g == [i \in 1 .. m |-> IF i < m THEN f[i] ELSE ChildDef(f[m - 1], path[m][1])]
            <4>3. \A i \in 1 .. m : g[i] = IF i = 1 THEN Resources[path[1][1]] ELSE ChildDef(g[i - 1], path[i][1])
                <5> TAKE i \in 1 .. m
                <5>1. CASE i = m
                    BY <2>1, <3>4, <3>6, <5>1
                <5>2. CASE i < m
                    <6>1. i \in 1 .. m - 1 /\ (i # 1 => i - 1 \in 1 .. m - 1)
                        BY <2>1, <3>4, <5>2
                    <6>2. f[i] = IF i = 1 THEN Resources[path[1][1]] ELSE ChildDef(f[i - 1], path[i][1])
                        BY <4>2, <6>1
                    <6>3. g[i] = f[i]
                        BY <5>2
                    <6>4. i # 1 => g[i - 1] = f[i - 1]
                        BY <2>1, <3>4, <5>2, <6>1
                    <6> HIDE DEF g
                    <6> QED
                        BY <6>2, <6>3, <6>4
                <5> QED
                    BY <2>1, <3>4, <5>1, <5>2
            <4>4. Def(g, path, m)
                <5>1. g = [i \in 1 .. m |-> g[i]]
                    OBVIOUS
                <5> HIDE DEF g
                <5> QED
                    BY <4>3, <5>1
            <4> QED
                BY <3>4, <4>4
        <3> QED
            BY <2>1, <3>4, <3>5, <3>6
    <2> HIDE DEF Def
    <2>3. n \in 1 .. n
        BY <2>1
    <2>4. \E f : Def(f, path, n)
        BY <2>2, <2>3
    <2> QED
        BY <2>4 DEF n
<1> DEFINE p == Append(o, x)
           n == Len(o)
<1>3. /\ p \in Seq(S) /\ p # <<>> /\ Len(p) = n + 1 /\ p[n + 1] = x /\ n \in Nat
      /\ \A i \in 1 .. n : p[i] = o[i]
    OBVIOUS
<1> HIDE DEF D, p
<1>4. Def(D(p), p, n + 1)
    BY <1>2, <1>3
<1>5. CASE o = <<>>
    <2>1. n = 0
        BY <1>5
    <2>2. D(p)[1] = Resources[x[1]]
        BY <1>3, <1>4, <2>1
    <2>3. DefAt(p) = D(p)[1]
        BY <1>1, <1>3, <2>1
    <2>4. DefOf(o, x[1]) = Resources[x[1]]
        BY <1>5 DEF DefOf
    <2> QED
        BY <2>2, <2>3, <2>4 DEF p
<1>6. CASE o # <<>>
    <2>1. n # 0 /\ Def(D(o), o, n)
        BY <1>2, <1>6
    <2> HIDE DEF n
    <2>2. \A i \in 1 .. n : D(p)[i] = D(o)[i]
        <3> DEFINE bad == {i \in 1 .. n : D(p)[i] # D(o)[i]}
        <3>1. SUFFICES ASSUME bad # {} PROVE FALSE
            OBVIOUS
        <3>2. bad \in SUBSET Nat
            BY <1>3
        <3>3. PICK m \in bad : \A k \in bad : m <= k
            <4> HIDE DEF bad
            <4> QED
                BY <3>1, <3>2, LeastNat
        <3>4. m \in 1 .. n /\ m \in 1 .. n + 1 /\ D(p)[m] # D(o)[m]
            BY <1>3
        <3>5. D(p)[m] = IF m = 1 THEN Resources[p[1][1]] ELSE ChildDef(D(p)[m - 1], p[m][1])
            BY <1>4, <3>4
        <3>6. D(o)[m] = IF m = 1 THEN Resources[o[1][1]] ELSE ChildDef(D(o)[m - 1], o[m][1])
            BY <2>1, <3>4
        <3>7. p[m] = o[m] /\ (m = 1 => p[1] = o[1])
            BY <1>3, <3>4
        <3>8. CASE m # 1
            <4>1. m - 1 \in 1 .. n /\ m - 1 < m
                BY <1>3, <3>4, <3>8
            <4>2. m - 1 \notin bad
                <5> HIDE DEF bad
                <5> QED
                    BY <1>3, <3>3, <3>4, <4>1
            <4>3. D(p)[m - 1] = D(o)[m - 1]
                BY <4>1, <4>2
            <4> QED
                BY <3>4, <3>5, <3>6, <3>7, <3>8, <4>3
        <3> QED
            BY <3>4, <3>5, <3>6, <3>7, <3>8
    <2>3. D(p)[n + 1] = ChildDef(D(p)[n], x[1])
        <3>1. n + 1 \in 1 .. n + 1 /\ n + 1 # 1 /\ n + 1 - 1 = n
            BY <1>3, <2>1
        <3> QED
            BY <1>3, <1>4, <3>1
    <2>4. D(p)[n] = D(o)[n]
        BY <1>3, <2>1, <2>2
    <2> QED
        BY <1>1, <1>3, <1>6, <2>3, <2>4 DEF DefOf, p, n
<1> QED
    BY <1>5, <1>6

-----------------------------------------------------------------------------
(* Records                                                                 *)

\* What an entry has are records.
LEMMA EntriesHaveRecords ==
    ASSUME TreeSound, NEW e \in DOMAIN tree, NEW n \in DOMAIN tree[e].records
    PROVE  /\ e[1] \in Paths /\ e[2] \in AllNames /\ e = Entry(e[1], e[2]) /\ n \in Nat \ {0}
           /\ RecordPath(e[1], e[2], n) \in Records
           /\ RecordPath(e[1], e[2], n) \in Paths /\ RecordPath(e[1], e[2], n) # <<>>
           /\ Len(RecordPath(e[1], e[2], n)) = Len(e[1]) + 1
           /\ Front(RecordPath(e[1], e[2], n)) = e[1]
           /\ Last(RecordPath(e[1], e[2], n)) = <<e[2], n>>
           /\ RecordPath(e[1], e[2], n)[1][1] = IF e[1] = <<>> THEN e[2] ELSE e[1][1][1]
           /\ RecordAt(RecordPath(e[1], e[2], n)) = tree[e].records[n]
           /\ tree[e].records[n] \in AnyRecord
           /\ Line(e[1]) \subseteq Records
<1> DEFINE p == RecordPath(e[1], e[2], n)
           x == <<e[2], n>>
           S == AllNames \X (Nat \ {0})
<1>1. e[1] \in Paths /\ e[2] \in AllNames /\ e = Entry(e[1], e[2]) /\ Line(e[1]) \subseteq Records
    BY DEF TreeSound, Entry
<1>2. tree[e].records \in Seq(AnyRecord)
    BY DEF TreeSound
<1>3. n \in Nat \ {0} /\ tree[e].records[n] \in AnyRecord
    BY <1>2
<1>4. x \in S /\ e[1] \in Seq(S)
    BY <1>1, <1>3 DEF Paths
<1>5. p \in Records
    BY DEF Records
<1>6. p = Append(e[1], x)
    BY DEF RecordPath
<1> HIDE DEF p, x, S
<1>7. /\ p \in Seq(S) /\ p # <<>> /\ Len(p) = Len(e[1]) + 1 /\ Front(p) = e[1] /\ Last(p) = x
      /\ p[1] = IF e[1] = <<>> THEN x ELSE e[1][1]
    BY <1>4, <1>6, OneStepFurther
<1>8. x[1] = e[2] /\ x[2] = n
    BY DEF x
<1>9. RecordAt(p) = tree[e].records[n]
    BY <1>1, <1>7, <1>8 DEF RecordAt
<1>10. p[1][1] = IF e[1] = <<>> THEN e[2] ELSE e[1][1][1]
    BY <1>7, <1>8
<1>11. p \in Paths /\ Last(p) = <<e[2], n>>
    BY <1>7 DEF Paths, S, x
<1> QED
    BY <1>1, <1>3, <1>5, <1>7, <1>9, <1>10, <1>11 DEF p

\* A record is of the entry its path names.
LEMMA RecordsAreOfEntries ==
    ASSUME TreeSound, NEW p \in Records
    PROVE  \E e \in DOMAIN tree : \E n \in DOMAIN tree[e].records : p = RecordPath(e[1], e[2], n)
BY DEF Records

LEMMA RecordFacts ==
    ASSUME TreeSound, NEW p \in Records
    PROVE  /\ p \in Paths /\ p # <<>> /\ Front(p) \in Paths
           /\ RecordAt(p) \in AnyRecord
           /\ Line(Front(p)) \subseteq Records /\ Line(p) \subseteq Records
           /\ Entry(Front(p), Last(p)[1]) \in DOMAIN tree
           /\ RightSource(RecordAt(p), Front(p), p[1][1])
           /\ p[1][1] = IF Front(p) = <<>> THEN Last(p)[1] ELSE Front(p)[1][1]
<1>1. PICK e \in DOMAIN tree : \E n \in DOMAIN tree[e].records : p = RecordPath(e[1], e[2], n)
    BY RecordsAreOfEntries
<1>2. PICK n \in DOMAIN tree[e].records : p = RecordPath(e[1], e[2], n)
    BY <1>1
<1>3. /\ e[1] \in Paths /\ e[2] \in AllNames /\ e = Entry(e[1], e[2]) /\ n \in Nat \ {0}
      /\ p \in Paths /\ p # <<>> /\ Front(p) = e[1] /\ Last(p) = <<e[2], n>>
      /\ RecordAt(p) = tree[e].records[n] /\ tree[e].records[n] \in AnyRecord
      /\ Line(e[1]) \subseteq Records
      /\ p[1][1] = IF e[1] = <<>> THEN e[2] ELSE e[1][1][1]
    BY <1>2, EntriesHaveRecords
<1>4. Line(p) = Line(e[1]) \cup {p}
    <2> DEFINE S == AllNames \X (Nat \ {0})
    <2>1. <<e[2], n>> \in S /\ e[1] \in Seq(S)
        BY <1>3 DEF Paths
    <2> HIDE DEF S
    <2>2. Line(Append(e[1], <<e[2], n>>)) = Line(e[1]) \cup {Append(e[1], <<e[2], n>>)}
        BY <2>1, LineFacts
    <2> QED
        BY <1>2, <2>2 DEF RecordPath
<1>5. Last(p)[1] = e[2]
    BY <1>3
<1>6. RightSource(RecordAt(p), Front(p), p[1][1])
    BY DEF TreeSound
<1> QED
    BY <1>3, <1>4, <1>5, <1>6

\* The execution under way, and those after it.
LEMMA AgendaFacts ==
    ASSUME AgendaSound, agenda # <<>>
    PROVE  /\ Current \in Executions /\ Current = agenda[1] /\ Awaited(Current)
           /\ 1 \in DOMAIN agenda
           /\ Current.owner \in Paths /\ Current.name \in AllNames /\ Current.def \in Definitions
           /\ Current.context \in [Captures -> Paths \cup {NoSource}] /\ Current.depth \in Nat
           /\ Tail(agenda) \in Seq(Executions) /\ Len(Tail(agenda)) = Len(agenda) - 1
           /\ \A i \in DOMAIN Tail(agenda) : Tail(agenda)[i] = agenda[i + 1] /\ i + 1 \in DOMAIN agenda
           /\ \A i \in DOMAIN agenda : i = 1 \/ (i - 1 \in DOMAIN Tail(agenda) /\ Tail(agenda)[i - 1] = agenda[i])
<1>1. agenda \in Seq(Executions)
    BY DEF AgendaSound
<1> DEFINE n == Len(agenda)
<1>2. n \in Nat /\ n >= 1 /\ DOMAIN agenda = 1 .. n
    BY <1>1
<1>3. /\ Tail(agenda) \in Seq(Executions) /\ Len(Tail(agenda)) = n - 1 /\ DOMAIN Tail(agenda) = 1 .. n - 1
      /\ \A i \in 1 .. n - 1 : Tail(agenda)[i] = agenda[i + 1]
    BY <1>1
<1> HIDE DEF n
<1>4. \A i \in 1 .. n - 1 : i + 1 \in 1 .. n
    BY <1>2
<1>5. \A i \in 1 .. n : i = 1 \/ (i - 1 \in 1 .. n - 1 /\ (i - 1) + 1 = i)
    BY <1>2
<1>6. 1 \in DOMAIN agenda /\ Current = agenda[1] /\ agenda[1] \in Executions
    BY <1>1, <1>2 DEF Current
<1>7. Awaited(Current)
    BY <1>6 DEF AgendaSound
<1>8. \A i \in DOMAIN agenda : i = 1 \/ (i - 1 \in DOMAIN Tail(agenda) /\ Tail(agenda)[i - 1] = agenda[i])
    BY <1>2, <1>3, <1>5
<1>9. \A i \in DOMAIN Tail(agenda) : Tail(agenda)[i] = agenda[i + 1] /\ i + 1 \in DOMAIN agenda
    BY <1>2, <1>3, <1>4
<1>10. Current \in Executions
    BY <1>6
<1>11. /\ Current.owner \in Paths /\ Current.name \in AllNames /\ Current.def \in Definitions
       /\ Current.context \in [Captures -> Paths \cup {NoSource}] /\ Current.depth \in Nat
    BY <1>10 DEF Executions
<1> QED
    BY <1>3, <1>6, <1>7, <1>8, <1>9, <1>10, <1>11 DEF n

-----------------------------------------------------------------------------
(* The end of an execution                                                 *)

Remaining == {p \in Records : Current.owner = <<>> => p[1][1] # Current.name}
NewRecords(records) == {RecordPath(Current.owner, Current.name, n) : n \in DOMAIN records}

LEMMA RecordBelow ==
    ASSUME NEW o \in Paths, NEW name \in AllNames, NEW n \in Nat \ {0}
    PROVE  /\ RecordPath(o, name, n) \in Paths /\ RecordPath(o, name, n) # <<>>
           /\ Len(RecordPath(o, name, n)) = Len(o) + 1
           /\ Front(RecordPath(o, name, n)) = o /\ Last(RecordPath(o, name, n)) = <<name, n>>
           /\ RecordPath(o, name, n)[1][1] = IF o = <<>> THEN name ELSE o[1][1]
           /\ Line(RecordPath(o, name, n)) = Line(o) \cup {RecordPath(o, name, n)}
           /\ DefAt(RecordPath(o, name, n)) = DefOf(o, name)
<1> DEFINE S == AllNames \X (Nat \ {0})
           x == <<name, n>>
<1>1. x \in S /\ o \in Seq(S) /\ x[1] = name
    BY DEF Paths
<1>2. Paths = Seq(S) /\ RecordPath(o, name, n) = Append(o, x)
    BY DEF Paths, RecordPath
<1> HIDE DEF S, x
<1>3. /\ Append(o, x) \in Seq(S) /\ Append(o, x) # <<>>
      /\ Len(Append(o, x)) = Len(o) + 1
      /\ Front(Append(o, x)) = o /\ Last(Append(o, x)) = x
      /\ Append(o, x)[1] = IF o = <<>> THEN x ELSE o[1]
    BY <1>1, OneStepFurther
<1>4. Line(Append(o, x)) = Line(o) \cup {Append(o, x)}
    BY <1>1, LineFacts
<1>5. DefAt(Append(o, x)) = DefOf(o, name)
    BY <1>1, OneDefinitionFurther
<1>6. Append(o, x)[1][1] = IF o = <<>> THEN name ELSE o[1][1]
    BY <1>1, <1>3
<1> DEFINE p == RecordPath(o, name, n)
<1>7. /\ p \in Paths /\ p # <<>> /\ Len(p) = Len(o) + 1 /\ Front(p) = o /\ Last(p) = x
      /\ p[1][1] = (IF o = <<>> THEN name ELSE o[1][1]) /\ Line(p) = Line(o) \cup {p} /\ DefAt(p) = DefOf(o, name)
    BY <1>2, <1>3, <1>4, <1>5, <1>6
<1> QED
    BY <1>7 DEF x

\* What Conclude leaves of the tree, and what it adds.
HasConcluded(records, strategy) ==
    LET this == Entry(Current.owner, Current.name)
    IN  /\ this \in DOMAIN tree'
        /\ tree'[this] = Executed(records, strategy)
        /\ \A e \in DOMAIN tree' :
              \/ e = this
              \/ /\ e \in DOMAIN tree /\ tree'[e] = tree[e]
                 /\ Current.owner = <<>> => e[1] = <<>> \/ e[1][1][1] # Current.name
        /\ \A e \in DOMAIN tree :
              (Current.owner = <<>> => e[1] = <<>> \/ e[1][1][1] # Current.name) => e \in DOMAIN tree'
        /\ Current.owner # <<>> => this \notin DOMAIN tree
        /\ \A p : p \in Records' <=> p \in Remaining \/ p \in NewRecords(records)
        /\ \A p \in Remaining : RecordAt(p)' = RecordAt(p)
        /\ \A n \in DOMAIN records : \A p : p = RecordPath(Current.owner, Current.name, n) => RecordAt(p)' = records[n]
        /\ \A p \in NewRecords(records) : p \notin Remaining
        /\ \A p \in Remaining : Line(p) \subseteq Remaining /\ Line(Front(p)) \subseteq Remaining
        /\ Line(Current.owner) \subseteq Remaining

LEMMA ExecutedParts ==
    ASSUME NEW records, NEW strategy
    PROVE  Executed(records, strategy).records = records /\ Executed(records, strategy).strategy = strategy
BY DEF Executed

LEMMA Concluded ==
    ASSUME TreeSound, AgendaSound, agenda # <<>>,
           NEW records \in Seq(AnyRecord), NEW strategy, Conclude(records, strategy)
    PROVE  HasConcluded(records, strategy)
<1> DEFINE o == Current.owner
           name == Current.name
           this == Entry(o, name)
           Kept(e) == o = <<>> => e[1] = <<>> \/ e[1][1][1] # name
           result == Executed(records, strategy)
<1>1. tree' = [e \in {d \in DOMAIN tree : Kept(d)} \cup {this} |-> IF e = this THEN result ELSE tree[e]]
    BY DEF Conclude
<1>2. o \in Paths /\ name \in AllNames /\ Awaited(Current)
    BY AgendaFacts
<1>3. o # <<>> => this \notin DOMAIN tree
    BY <1>2 DEF Awaited
<1>4. Line(o) \subseteq Records /\ (o = <<>> => Line(o) = {})
    <2>1. Line(<<>>) = {}
        BY LineFacts
    <2> QED
        BY <1>2, <2>1 DEF Awaited
<1> HIDE DEF Kept, result
<1>5. /\ this \in DOMAIN tree' /\ tree'[this] = result
      /\ \A e \in DOMAIN tree' : e = this \/ (e \in DOMAIN tree /\ tree'[e] = tree[e] /\ Kept(e))
      /\ \A e \in DOMAIN tree : Kept(e) => e \in DOMAIN tree'
    BY <1>1
<1>6. \A p : p \in Records' <=> \E e \in DOMAIN tree' : \E n \in DOMAIN tree'[e].records : p = RecordPath(e[1], e[2], n)
    BY DEF Records
<1>7. result.records = records
    BY ExecutedParts DEF result
<1> HIDE DEF this
<1>8. this[1] = o /\ this[2] = name
    BY DEF this, Entry
<1>9. ASSUME NEW p, p \in Records'
      PROVE  p \in Remaining \/ p \in NewRecords(records)
    <2>1. PICK e \in DOMAIN tree' : \E n \in DOMAIN tree'[e].records : p = RecordPath(e[1], e[2], n)
        BY <1>6, <1>9
    <2>2. PICK n \in DOMAIN tree'[e].records : p = RecordPath(e[1], e[2], n)
        BY <2>1
    <2>3. CASE e = this
        BY <1>5, <1>7, <1>8, <2>2, <2>3 DEF NewRecords
    <2>4. CASE e # this
        <3>1. e \in DOMAIN tree /\ n \in DOMAIN tree[e].records /\ Kept(e)
            BY <1>5, <2>2, <2>4
        <3>2. p \in Records /\ e = Entry(e[1], e[2]) /\ p[1][1] = IF e[1] = <<>> THEN e[2] ELSE e[1][1][1]
            BY <2>2, <3>1, EntriesHaveRecords
        <3>3. ASSUME o = <<>>
              PROVE  p[1][1] # name
            <4>1. CASE e[1] = <<>>
                BY <2>4, <3>2, <3>3, <4>1 DEF this
            <4>2. CASE e[1] # <<>>
                BY <3>1, <3>2, <3>3, <4>2 DEF Kept
            <4> QED
                BY <4>1, <4>2
        <3> QED
            BY <3>2, <3>3 DEF Remaining
    <2> QED
        BY <2>3, <2>4
<1>10. ASSUME NEW p \in Remaining
       PROVE  p \in Records' /\ RecordAt(p)' = RecordAt(p)
    <2>0. p \in Records /\ (o = <<>> => p[1][1] # name)
        BY DEF Remaining
    <2>1. PICK e \in DOMAIN tree : \E n \in DOMAIN tree[e].records : p = RecordPath(e[1], e[2], n)
        BY <2>0, RecordsAreOfEntries
    <2>2. PICK n \in DOMAIN tree[e].records : p = RecordPath(e[1], e[2], n)
        BY <2>1
    <2>3. /\ e = Entry(e[1], e[2]) /\ p[1][1] = IF e[1] = <<>> THEN e[2] ELSE e[1][1][1]
          /\ Front(p) = e[1] /\ Last(p) = <<e[2], n>>
        BY <2>2, EntriesHaveRecords
    <2>4. e # this
        BY <1>3, <1>8, <2>0, <2>3
    <2>5. Kept(e)
        BY <2>0, <2>3 DEF Kept
    <2>6. e \in DOMAIN tree' /\ tree'[e] = tree[e]
        BY <1>5, <2>4, <2>5
    <2>7. p \in Records'
        BY <1>6, <2>2, <2>6
    <2>8. RecordAt(p)' = tree'[e].records[n] /\ RecordAt(p) = tree[e].records[n]
        BY <2>3 DEF RecordAt
    <2> QED
        BY <2>6, <2>7, <2>8
<1>11. ASSUME NEW n \in DOMAIN records, NEW p, p = RecordPath(o, name, n)
       PROVE  p \in Records' /\ RecordAt(p)' = records[n] /\ p \notin Remaining
    <2>1. n \in Nat \ {0}
        OBVIOUS
    <2>2. Front(p) = o /\ Last(p) = <<name, n>> /\ p[1][1] = IF o = <<>> THEN name ELSE o[1][1]
        BY <1>2, <1>11, <2>1, RecordBelow
    <2>3. p \in Records'
        BY <1>5, <1>6, <1>7, <1>8, <1>11
    <2>4. Entry(Front(p), Last(p)[1]) = this /\ Last(p)[2] = n
        BY <2>2 DEF this
    <2>5. RecordAt(p)' = tree'[this].records[n]
        BY <2>4 DEF RecordAt
    <2>6. RecordAt(p)' = records[n]
        BY <1>5, <1>7, <2>5
    <2>7. p \notin Remaining
        <3>1. CASE o = <<>>
            BY <2>2, <3>1 DEF Remaining
        <3>2. CASE o # <<>>
            <4>1. ASSUME p \in Records PROVE FALSE
                <5>1. Entry(Front(p), Last(p)[1]) \in DOMAIN tree
                    BY <4>1, RecordFacts
                <5> QED
                    BY <1>3, <2>4, <3>2, <5>1
            <4> QED
                BY <4>1 DEF Remaining
        <3> QED
            BY <3>1, <3>2
    <2> QED
        BY <2>3, <2>6, <2>7
<1>12. ASSUME NEW p \in Remaining
       PROVE  Line(p) \subseteq Remaining /\ Line(Front(p)) \subseteq Remaining
    <2>1. p \in Records /\ (o = <<>> => p[1][1] # name)
        BY DEF Remaining
    <2>2. /\ p \in Paths /\ p # <<>> /\ Front(p) \in Paths /\ Line(p) \subseteq Records /\ Line(Front(p)) \subseteq Records
          /\ p[1][1] = IF Front(p) = <<>> THEN Last(p)[1] ELSE Front(p)[1][1]
        BY <2>1, RecordFacts
    <2>3. \A q \in Line(p) : q[1] = p[1]
        BY <2>2, LineFacts DEF Paths
    <2>4. \A q \in Line(Front(p)) : q[1][1] = p[1][1]
        <3>1. \A q \in Line(Front(p)) : q[1] = Front(p)[1]
            BY <2>2, LineFacts DEF Paths
        <3>2. Front(p) = <<>> => Line(Front(p)) = {}
            <4>1. Line(<<>>) = {}
                BY LineFacts
            <4> QED
                BY <4>1
        <3> QED
            BY <2>2, <3>1, <3>2
    <2> QED
        BY <2>1, <2>2, <2>3, <2>4 DEF Remaining
<1>13. Line(o) \subseteq Remaining
    BY <1>4 DEF Remaining
<1>14. \A p : p \in NewRecords(records) => \E n \in DOMAIN records : p = RecordPath(o, name, n)
    BY DEF NewRecords
<1>15. \A p : p \in Records' <=> p \in Remaining \/ p \in NewRecords(records)
    BY <1>9, <1>10, <1>11, <1>14
<1>16. \A p \in NewRecords(records) : p \notin Remaining
    BY <1>11, <1>14
<1> QED
    BY <1>3, <1>5, <1>10, <1>11, <1>12, <1>13, <1>15, <1>16, Zenon DEF HasConcluded, this, Kept, result

\* The execution of a child of the n-th of these records.
Child(records, n, name) ==
    LET path == RecordPath(Current.owner, Current.name, n)
    IN  Execution(path, name, ChildDef(Current.def, name),
                  ChildContext(Current.context, path, records[n]), Current.depth + 1)

\* Every child of every record is executed, once, down to the depth.
AreChildren(children, records) ==
    /\ children \in Seq(Executions)
    /\ \A k \in DOMAIN children :
          /\ Current.depth + 1 <= max_depth
          /\ \E n \in DOMAIN records : \E name \in ChildNames(Current.def) : children[k] = Child(records, n, name)
    /\ Current.depth + 1 <= max_depth =>
          \A n \in DOMAIN records : \A name \in ChildNames(Current.def) :
              \E k \in DOMAIN children : children[k] = Child(records, n, name)
    /\ \A k, l \in DOMAIN children :
          children[k].owner = children[l].owner /\ children[k].name = children[l].name => k = l

LEMMA AChild ==
    ASSUME AgendaSound, agenda # <<>>, NEW records \in Seq(AnyRecord),
           NEW n \in DOMAIN records, NEW name \in ChildNames(Current.def)
    PROVE  /\ Child(records, n, name) \in Executions
           /\ Child(records, n, name).owner = RecordPath(Current.owner, Current.name, n)
           /\ Child(records, n, name).name = name
           /\ Child(records, n, name).def = ChildDef(Current.def, name)
           /\ Child(records, n, name).depth = Current.depth + 1
           /\ \A c \in Captures : Child(records, n, name).context[c]
                 = IF c \notin records[n].capture THEN Current.context[c]
                   ELSE IF c \in records[n].body THEN RecordPath(Current.owner, Current.name, n) ELSE NoSource
<1> DEFINE path == RecordPath(Current.owner, Current.name, n)
           context == ChildContext(Current.context, path, records[n])
<1>1. /\ Current.owner \in Paths /\ Current.name \in AllNames /\ Current.def \in Definitions
      /\ Current.context \in [Captures -> Paths \cup {NoSource}] /\ Current.depth \in Nat
    BY AgendaFacts
<1>2. n \in Nat \ {0}
    OBVIOUS
<1>3. path \in Paths
    BY <1>1, <1>2, RecordBelow
<1>4. ChildDef(Current.def, name) \in Definitions /\ name \in AllNames
    BY <1>1, ChildIsDefined
<1>5. /\ context = [c \in Captures |-> IF c \notin records[n].capture THEN Current.context[c]
                                       ELSE IF c \in records[n].body THEN path ELSE NoSource]
    BY DEF ChildContext
<1> HIDE DEF path, context
<1>6. context \in [Captures -> Paths \cup {NoSource}]
    BY <1>1, <1>3, <1>5
<1>7. Child(records, n, name) = [owner |-> path, name |-> name, def |-> ChildDef(Current.def, name),
                                 context |-> context, depth |-> Current.depth + 1]
    BY DEF Child, Execution, path, context
<1>8. Child(records, n, name) \in Executions
    BY <1>1, <1>3, <1>4, <1>6, <1>7 DEF Executions
<1>9. \A c \in Captures : context[c] = IF c \notin records[n].capture THEN Current.context[c]
                                       ELSE IF c \in records[n].body THEN path ELSE NoSource
    BY <1>5
<1> QED
    BY <1>7, <1>8, <1>9 DEF path

LEMMA Children ==
    ASSUME AgendaSound, agenda # <<>>, NEW records \in Seq(AnyRecord)
    PROVE  AreChildren(ChildExecutions(records), records)
<1> DEFINE names == SetToSeq(ChildNames(Current.def))
           Of(n) == [i \in DOMAIN names |-> Child(records, n, names[i])]
           seqs == [n \in DOMAIN records |-> Of(n)]
           deep == Current.depth + 1 > max_depth
           children == FlattenSeq(seqs)
<1>1. ChildExecutions(records) = IF deep THEN <<>> ELSE children
    BY DEF ChildExecutions, Child
<1>2. Current.def \in Definitions /\ Current.depth \in Nat /\ max_depth \in Nat
      /\ Current.owner \in Paths /\ Current.name \in AllNames
    BY AgendaFacts, SchemaAssumption DEF SchemaAssumption
<1>3. IsFiniteSet(ChildNames(Current.def))
    BY <1>2, SchemaAssumption DEF SchemaAssumption, WellFormed
<1>4. /\ names \in Seq(ChildNames(Current.def))
      /\ \A i, j \in DOMAIN names : names[i] = names[j] => i = j
      /\ \A x \in ChildNames(Current.def) : \E i \in DOMAIN names : names[i] = x
    BY <1>3, InSomeOrder
<1> HIDE DEF names
<1>5. CASE deep
    <2>1. ChildExecutions(records) = <<>>
        BY <1>1, <1>5
    <2>2. ~ (Current.depth + 1 <= max_depth)
        BY <1>2, <1>5
    <2>3. <<>> \in Seq(Executions) /\ \A k : k \notin DOMAIN <<>>
        OBVIOUS
    <2> QED
        BY <2>1, <2>2, <2>3, Zenon DEF AreChildren
<1>6. CASE ~deep
    <2>1. \A n \in DOMAIN records : \A i \in DOMAIN names :
             Child(records, n, names[i]) \in Executions /\ Child(records, n, names[i]).name = names[i]
             /\ Child(records, n, names[i]).owner = RecordPath(Current.owner, Current.name, n)
        <3> TAKE n \in DOMAIN records
        <3> TAKE i \in DOMAIN names
        <3>1. names[i] \in ChildNames(Current.def)
            BY <1>4
        <3> QED
            BY <3>1, AChild
    <2>2. ASSUME NEW n \in DOMAIN records
          PROVE  Of(n) \in Seq(Executions)
        <3>1. DOMAIN names = 1 .. Len(names) /\ Len(names) \in Nat
            BY <1>4
        <3>2. Of(n) \in [1 .. Len(names) -> Executions]
            BY <2>1, <3>1
        <3> HIDE DEF Of
        <3> QED
            BY <3>1, <3>2
    <2>3. seqs \in Seq(Seq(Executions)) /\ DOMAIN seqs = DOMAIN records
        <3>1. DOMAIN records = 1 .. Len(records) /\ Len(records) \in Nat
            OBVIOUS
        <3> HIDE DEF Of
        <3>2. seqs \in [1 .. Len(records) -> Seq(Executions)]
            BY <2>2, <3>1
        <3> HIDE DEF seqs
        <3> QED
            BY <3>1, <3>2
    <2>4. \A n \in DOMAIN records : DOMAIN seqs[n] = DOMAIN names
          /\ \A i \in DOMAIN names : seqs[n][i] = Child(records, n, names[i])
        OBVIOUS
    <2> HIDE DEF seqs
    <2>5. \A n1, n2 \in DOMAIN records : RecordPath(Current.owner, Current.name, n1) = RecordPath(Current.owner, Current.name, n2)
             => n1 = n2
        <3> TAKE n1, n2 \in DOMAIN records
        <3>1. n1 \in Nat \ {0} /\ n2 \in Nat \ {0}
            OBVIOUS
        <3>2. /\ Last(RecordPath(Current.owner, Current.name, n1)) = <<Current.name, n1>>
              /\ Last(RecordPath(Current.owner, Current.name, n2)) = <<Current.name, n2>>
            BY <1>2, <3>1, RecordBelow
        <3> QED
            BY <3>2
    <2>6. ASSUME NEW i1 \in DOMAIN seqs, NEW i2 \in DOMAIN seqs, NEW j1 \in DOMAIN seqs[i1], NEW j2 \in DOMAIN seqs[i2],
                 seqs[i1][j1].owner = seqs[i2][j2].owner, seqs[i1][j1].name = seqs[i2][j2].name
          PROVE  i1 = i2 /\ j1 = j2
        <3>1. i1 \in DOMAIN records /\ i2 \in DOMAIN records /\ j1 \in DOMAIN names /\ j2 \in DOMAIN names
            BY <2>3, <2>4
        <3>2. seqs[i1][j1] = Child(records, i1, names[j1]) /\ seqs[i2][j2] = Child(records, i2, names[j2])
            BY <2>4, <3>1
        <3>3. RecordPath(Current.owner, Current.name, i1) = RecordPath(Current.owner, Current.name, i2)
              /\ names[j1] = names[j2]
            BY <2>1, <2>6, <3>1, <3>2
        <3> QED
            BY <1>4, <2>5, <3>1, <3>3
    <2>7. \A i1, i2 \in DOMAIN seqs : \A j1 \in DOMAIN seqs[i1], j2 \in DOMAIN seqs[i2] :
             seqs[i1][j1] = seqs[i2][j2] => i1 = i2 /\ j1 = j2
        BY <2>6
    <2>8. /\ children \in Seq(Executions)
          /\ \A k \in DOMAIN children : \E i \in DOMAIN seqs : \E j \in DOMAIN seqs[i] : children[k] = seqs[i][j]
          /\ \A i \in DOMAIN seqs : \A j \in DOMAIN seqs[i] : \E k \in DOMAIN children : children[k] = seqs[i][j]
          /\ \A k, l \in DOMAIN children : children[k] = children[l] => k = l
        BY <2>3, <2>7, Flattened
    <2> HIDE DEF children
    <2>9. ASSUME NEW k \in DOMAIN children
          PROVE  \E n \in DOMAIN records : \E name \in ChildNames(Current.def) : children[k] = Child(records, n, name)
        <3>1. PICK n \in DOMAIN seqs : \E j \in DOMAIN seqs[n] : children[k] = seqs[n][j]
            BY <2>8
        <3>2. PICK j \in DOMAIN seqs[n] : children[k] = seqs[n][j]
            BY <3>1
        <3>3. n \in DOMAIN records /\ j \in DOMAIN names /\ names[j] \in ChildNames(Current.def)
            BY <1>4, <2>3, <2>4
        <3> QED
            BY <2>4, <3>2, <3>3
    <2>10. ASSUME NEW n \in DOMAIN records, NEW name \in ChildNames(Current.def)
           PROVE  \E k \in DOMAIN children : children[k] = Child(records, n, name)
        <3>1. PICK j \in DOMAIN names : names[j] = name
            BY <1>4
        <3>2. n \in DOMAIN seqs /\ j \in DOMAIN seqs[n] /\ seqs[n][j] = Child(records, n, name)
            BY <2>3, <2>4, <3>1
        <3> QED
            BY <2>8, <3>2
    <2>11. ASSUME NEW k \in DOMAIN children, NEW l \in DOMAIN children,
                  children[k].owner = children[l].owner, children[k].name = children[l].name
           PROVE  k = l
        <3>1. PICK n1 \in DOMAIN seqs : \E j1 \in DOMAIN seqs[n1] : children[k] = seqs[n1][j1]
            BY <2>8
        <3>2. PICK j1 \in DOMAIN seqs[n1] : children[k] = seqs[n1][j1]
            BY <3>1
        <3>3. PICK n2 \in DOMAIN seqs : \E j2 \in DOMAIN seqs[n2] : children[l] = seqs[n2][j2]
            BY <2>8
        <3>4. PICK j2 \in DOMAIN seqs[n2] : children[l] = seqs[n2][j2]
            BY <3>3
        <3>5. n1 = n2 /\ j1 = j2
            BY <2>6, <2>11, <3>2, <3>4
        <3> QED
            BY <2>8, <3>2, <3>4, <3>5
    <2>12. ChildExecutions(records) = children
        BY <1>1, <1>6
    <2>13. Current.depth + 1 <= max_depth
        BY <1>2, <1>6
    <2>14. AreChildren(children, records)
        BY <2>8, <2>9, <2>10, <2>11, <2>13, Zenon DEF AreChildren
    <2> QED
        BY <2>12, <2>14
<1> QED
    BY <1>5, <1>6

\* Where a record came from is so for good, as long as those it is below are there.
LEMMA SourceStays ==
    ASSUME NEW r, NEW o, NEW top, lane' = lane, RightSource(r, o, top),
           \A q \in Line(o) : RecordAt(q)' = RecordAt(q)
    PROVE  RightSource(r, o, top)'
<1> DEFINE Declaring == {q \in Line(o) : r.of \in RecordAt(q).capture}
<1>1. {q \in Line(o) : r.of \in RecordAt(q)'.capture} = Declaring
    OBVIOUS
<1>2. CASE r.uri = "capture"
    BY <1>1, <1>2 DEF RightSource
<1>3. CASE r.uri = "resource"
    BY <1>3 DEF RightSource
<1>4. CASE r.uri \in {"parent", "none"}
    BY <1>4 DEF RightSource
<1>5. CASE r.uri \notin {"capture", "resource", "parent", "none"}
    BY <1>5 DEF RightSource
<1> QED
    BY <1>2, <1>3, <1>4, <1>5

LEMMA BoundStays ==
    ASSUME NEW context, NEW o, bootstrap_ctx' = bootstrap_ctx, Bound(context, o),
           \A q \in Line(o) : RecordAt(q)' = RecordAt(q)
    PROVE  Bound(context, o)'
<1> SUFFICES ASSUME NEW c \in Captures
             PROVE  LET Declaring == {q \in Line(o) : c \in RecordAt(q)'.capture}
                    IN  IF Declaring = {} THEN context[c] = IF c \in bootstrap_ctx' THEN FromBootstrap ELSE NoSource
                        ELSE \E q \in Declaring :
                                /\ \A q2 \in Declaring : Len(q2) <= Len(q)
                                /\ context[c] = IF c \in RecordAt(q)'.body THEN q ELSE NoSource
    BY DEF Bound
<1> DEFINE Declaring == {q \in Line(o) : c \in RecordAt(q).capture}
<1>1. {q \in Line(o) : c \in RecordAt(q)'.capture} = Declaring
    OBVIOUS
<1>2. IF Declaring = {} THEN context[c] = IF c \in bootstrap_ctx THEN FromBootstrap ELSE NoSource
      ELSE \E q \in Declaring :
              /\ \A q2 \in Declaring : Len(q2) <= Len(q)
              /\ context[c] = IF c \in RecordAt(q).body THEN q ELSE NoSource
    BY DEF Bound
<1>3. Declaring \subseteq Line(o)
    OBVIOUS
<1> HIDE DEF Declaring
<1> QED
    BY <1>1, <1>2, <1>3

LEMMA AwaitedStays ==
    ASSUME NEW x, Awaited(x), bootstrap_ctx' = bootstrap_ctx,
           \A q \in Line(x.owner) : q \in Records' /\ RecordAt(q)' = RecordAt(q),
           x.owner # <<>> => Entry(x.owner, x.name) \notin DOMAIN tree'
    PROVE  Awaited(x)'
<1>1. Bound(x.context, x.owner)'
    BY BoundStays DEF Awaited
<1> QED
    BY <1>1 DEF Awaited, Belongs, DefOf

LEMMA TreeAfter ==
    ASSUME TreeSound, AgendaSound, PositionSound, agenda # <<>>,
           UNCHANGED givenVars,
           NEW records \in Seq(AnyRecord), NEW strategy \in Nat,
           HasConcluded(records, strategy),
           strategy = 0 => records = <<>>,
           Len(records) <= 1 \/ Len(records) <= max_members,
           Current.owner = <<>> /\ Current.def.required => strategy # 0,
           \A i \in DOMAIN records : RightSource(records[i], Current.owner, Top)
    PROVE  TreeSound'
<1> DEFINE o == Current.owner
           name == Current.name
           this == Entry(o, name)
<1>1. o \in Paths /\ name \in AllNames /\ Awaited(Current)
    BY AgendaFacts
<1>2. this \in Paths \X AllNames /\ this[1] = o /\ this[2] = name
    BY <1>1 DEF Entry
<1>3. /\ this \in DOMAIN tree'
      /\ tree'[this].records = records /\ tree'[this].strategy = strategy
      /\ \A e \in DOMAIN tree' : e = this \/ (e \in DOMAIN tree /\ tree'[e] = tree[e]
                                              /\ (o = <<>> => e[1] = <<>> \/ e[1][1][1] # name))
      /\ \A p : p \in Records' <=> p \in Remaining \/ p \in NewRecords(records)
      /\ \A p \in Remaining : RecordAt(p)' = RecordAt(p)
      /\ \A n \in DOMAIN records : \A p : p = RecordPath(o, name, n) => RecordAt(p)' = records[n]
      /\ \A p \in Remaining : Line(p) \subseteq Remaining /\ Line(Front(p)) \subseteq Remaining
      /\ Line(o) \subseteq Remaining
    BY ExecutedParts DEF HasConcluded
<1> HIDE DEF this
<1>4. DOMAIN tree' \subseteq Paths \X AllNames
    BY <1>2, <1>3 DEF TreeSound
<1>5. ASSUME NEW e \in DOMAIN tree'
      PROVE  /\ tree'[e].records \in Seq(AnyRecord) /\ tree'[e].strategy \in Nat
             /\ Line(e[1]) \subseteq Records'
             /\ Belongs(e[1], e[2])
             /\ tree'[e].strategy = 0 => tree'[e].records = <<>>
             /\ Len(tree'[e].records) <= 1 \/ Len(tree'[e].records) <= max_members
             /\ e[1] = <<>> /\ Resources[e[2]].required => tree'[e].strategy # 0
    <2>1. CASE e = this
        <3>1. tree'[e].records \in Seq(AnyRecord) /\ tree'[e].strategy \in Nat
            BY <1>3, <2>1
        <3>2. Line(e[1]) \subseteq Records'
            BY <1>2, <1>3, <2>1
        <3>3. Belongs(e[1], e[2]) /\ Current.def = DefOf(o, name)
            BY <1>1, <1>2, <2>1 DEF Awaited
        <3>4. o = <<>> => Current.def = Resources[name]
            BY <3>3 DEF DefOf
        <3> QED
            BY <1>2, <1>3, <2>1, <3>1, <3>2, <3>3, <3>4
    <2>2. CASE e # this
        <3>1. e \in DOMAIN tree /\ tree'[e] = tree[e] /\ (o = <<>> => e[1] = <<>> \/ e[1][1][1] # name)
            BY <1>3, <2>2
        <3>2. Line(e[1]) \subseteq Records /\ e[1] \in Paths
            BY <3>1 DEF TreeSound
        <3>3. \A q \in Line(e[1]) : q[1] = e[1][1]
            BY <3>2, LineFacts DEF Paths
        <3>4. e[1] = <<>> => Line(e[1]) = {}
            <4>1. Line(<<>>) = {}
                BY LineFacts
            <4> QED
                BY <4>1
        <3>5. Line(e[1]) \subseteq Remaining
            BY <3>1, <3>2, <3>3, <3>4 DEF Remaining
        <3>6. Line(e[1]) \subseteq Records'
            BY <1>3, <3>5
        <3> QED
            BY <3>1, <3>6 DEF TreeSound
    <2> QED
        BY <2>1, <2>2
<1>6. ASSUME NEW p \in Records'
      PROVE  RightSource(RecordAt(p), Front(p), p[1][1])'
    <2>1. CASE p \in Remaining
        <3>1. PICK r : r = RecordAt(p)
            OBVIOUS
        <3>2. RightSource(r, Front(p), p[1][1])
            BY <2>1, <3>1 DEF Remaining, TreeSound
        <3>3. \A q \in Line(Front(p)) : RecordAt(q)' = RecordAt(q)
            BY <1>3, <2>1
        <3>4. RightSource(r, Front(p), p[1][1])'
            BY <3>2, <3>3, SourceStays DEF givenVars
        <3>5. RecordAt(p)' = r
            BY <1>3, <2>1, <3>1
        <3> QED
            BY <3>4, <3>5 DEF RightSource
    <2>2. CASE p \in NewRecords(records)
        <3>1. PICK n \in DOMAIN records : p = RecordPath(o, name, n)
            BY <2>2 DEF NewRecords
        <3>2. n \in Nat \ {0}
            OBVIOUS
        <3>3. Front(p) = o /\ p[1][1] = IF o = <<>> THEN name ELSE o[1][1]
            BY <1>1, <3>1, <3>2, RecordBelow
        <3>4. p[1][1] = Top
            <4>1. 1 \in DOMAIN agenda /\ Current = agenda[1]
                BY AgendaFacts
            <4>2. IF o = <<>> THEN name = Top ELSE o[1][1] = Top
                BY <4>1 DEF PositionSound
            <4> QED
                BY <3>3, <4>2
        <3>5. PICK r : r = records[n]
            OBVIOUS
        <3>6. RightSource(r, Front(p), p[1][1])
            BY <3>3, <3>4, <3>5
        <3>7. RightSource(r, Front(p), p[1][1])'
            <4>1. \A q \in Line(Front(p)) : RecordAt(q)' = RecordAt(q)
                BY <1>3, <3>3
            <4> QED
                BY <3>6, <4>1, SourceStays DEF givenVars
        <3>8. RecordAt(p)' = r
            BY <1>3, <3>1, <3>5
        <3> QED
            BY <3>7, <3>8 DEF RightSource
    <2> QED
        BY <1>3, <2>1, <2>2
<1> QED
    BY <1>4, <1>5, <1>6 DEF TreeSound

LEMMA Joined ==
    ASSUME NEW T, NEW s \in Seq(T), NEW t \in Seq(T)
    PROVE  /\ s \o t \in Seq(T)
           /\ \A k \in DOMAIN (s \o t) : \/ k \in DOMAIN s /\ (s \o t)[k] = s[k]
                                         \/ \E i \in DOMAIN t : k = Len(s) + i /\ (s \o t)[k] = t[i]
           /\ \A k \in DOMAIN s : k \in DOMAIN (s \o t) /\ (s \o t)[k] = s[k]
           /\ \A i \in DOMAIN t : Len(s) + i \in DOMAIN (s \o t) /\ (s \o t)[Len(s) + i] = t[i]
<1> DEFINE u == s \o t
<1>1. /\ u \in Seq(T)
      /\ DOMAIN u = 1 .. Len(s) + Len(t) /\ DOMAIN s = 1 .. Len(s) /\ DOMAIN t = 1 .. Len(t)
      /\ \A k \in DOMAIN s : u[k] = s[k]
      /\ \A k \in DOMAIN t : u[Len(s) + k] = t[k]
      /\ Len(s) \in Nat /\ Len(t) \in Nat
    OBVIOUS
<1> HIDE DEF u
<1>2. ASSUME NEW k \in DOMAIN u
      PROVE  \/ k \in DOMAIN s /\ u[k] = s[k]
             \/ \E i \in DOMAIN t : k = Len(s) + i /\ u[k] = t[i]
    <2>1. CASE k <= Len(s)
        BY <1>1, <2>1
    <2>2. CASE k > Len(s)
        <3>1. k - Len(s) \in DOMAIN t /\ k = Len(s) + (k - Len(s))
            BY <1>1, <2>2
        <3> QED
            BY <1>1, <3>1
    <2> QED
        BY <1>1, <2>1, <2>2
<1>3. \A k \in DOMAIN s : k \in DOMAIN u
    BY <1>1
<1>4. \A i \in DOMAIN t : Len(s) + i \in DOMAIN u
    BY <1>1
<1> QED
    BY <1>1, <1>2, <1>3, <1>4 DEF u

\* The executions of the children are to be made.
LEMMA ChildrenAreAwaited ==
    ASSUME TreeSound, AgendaSound, agenda # <<>>, UNCHANGED givenVars,
           NEW records \in Seq(AnyRecord), NEW strategy, HasConcluded(records, strategy),
           Current.depth + 1 <= max_depth,
           NEW n \in DOMAIN records, NEW name \in ChildNames(Current.def),
           NEW x, x = Child(records, n, name)
    PROVE  Awaited(x)' /\ x.owner \in NewRecords(records) /\ x.owner \in Line(x.owner)
<1> DEFINE o == Current.owner
           this == Entry(o, Current.name)
<1>0. PICK path : path = RecordPath(o, Current.name, n)
    OBVIOUS
<1>1. o \in Paths /\ Current.name \in AllNames /\ Awaited(Current) /\ Current.depth \in Nat
    BY AgendaFacts
<1>2. n \in Nat \ {0} /\ records[n] \in AnyRecord
    OBVIOUS
<1>3. /\ path \in Paths /\ path # <<>> /\ Len(path) = Len(o) + 1 /\ Front(path) = o
      /\ Line(path) = Line(o) \cup {path}
      /\ DefAt(path) = DefOf(o, Current.name)
    <2>1. PICK owner, me : owner = o /\ me = Current.name
        OBVIOUS
    <2>2. owner \in Paths /\ me \in AllNames /\ n \in Nat \ {0}
        BY <1>1, <1>2, <2>1
    <2> DEFINE p == RecordPath(owner, me, n)
    <2>3. p \in Paths /\ p # <<>> /\ Len(p) = Len(owner) + 1 /\ Front(p) = owner
        BY <2>2, RecordBelow
    <2>4. Line(p) = Line(owner) \cup {p} /\ DefAt(p) = DefOf(owner, me)
        BY <2>2, RecordBelow
    <2>5. path = p
        BY <1>0, <2>1
    <2> HIDE DEF p
    <2> QED
        BY <2>1, <2>3, <2>4, <2>5
<1>4. /\ x.owner = path /\ x.name = name /\ x.def = ChildDef(Current.def, name) /\ x.depth = Current.depth + 1
      /\ \A c \in Captures : x.context[c] = IF c \notin records[n].capture THEN Current.context[c]
                                            ELSE IF c \in records[n].body THEN path ELSE NoSource
    BY <1>0, AChild
<1>5. /\ \A e \in DOMAIN tree' : \/ e = this
                                 \/ e \in DOMAIN tree /\ (o = <<>> => e[1] = <<>> \/ e[1][1][1] # Current.name)
      /\ \A p : p \in Records' <=> p \in Remaining \/ p \in NewRecords(records)
      /\ \A p \in Remaining : RecordAt(p)' = RecordAt(p)
      /\ RecordAt(path)' = records[n]
      /\ \A p \in NewRecords(records) : p \notin Remaining
      /\ Line(o) \subseteq Remaining
    BY <1>0 DEF HasConcluded
<1>6. path \in NewRecords(records)
    BY <1>0 DEF NewRecords
<1>7. Line(path) \subseteq Records'
    BY <1>3, <1>5, <1>6
<1>8. Belongs(path, name) /\ x.def = DefOf(path, name) /\ x.depth = Len(path)
    <2>1. Current.def = DefOf(o, Current.name) /\ Current.depth = Len(o)
        BY <1>1 DEF Awaited
    <2>2. Current.def = DefAt(path)
        BY <1>3, <2>1
    <2>3. Len(path) <= max_depth
        BY <1>3, <2>1
    <2> QED
        BY <1>3, <1>4, <2>1, <2>2, <2>3 DEF Belongs, DefOf
<1>9. Entry(path, name) \notin DOMAIN tree'
    <2>1. SUFFICES ASSUME Entry(path, name) \in DOMAIN tree' PROVE FALSE
        OBVIOUS
    <2> DEFINE e == Entry(path, name)
    <2>2. e[1] = path
        BY DEF Entry
    <2> HIDE DEF e
    <2>3. e # this
        <3>1. this[1] = o
            BY DEF Entry
        <3>2. path # o
            BY <1>1, <1>3
        <3> QED
            BY <2>2, <3>1, <3>2
    <2>4. e \in DOMAIN tree /\ (o = <<>> => e[1] = <<>> \/ e[1][1][1] # Current.name)
        BY <1>5, <2>1, <2>3 DEF e
    <2>5. Line(path) \subseteq Records
        BY <2>2, <2>4 DEF TreeSound
    <2>6. path \in Records
        BY <1>3, <2>5
    <2>7. path \in Remaining
        BY <1>3, <2>2, <2>4, <2>6 DEF Remaining
    <2> QED
        BY <1>5, <1>6, <2>7
<1>10. Bound(x.context, path)'
    <2> SUFFICES ASSUME NEW c \in Captures
                 PROVE  LET Declaring == {q \in Line(path) : c \in RecordAt(q)'.capture}
                        IN  IF Declaring = {} THEN x.context[c] = IF c \in bootstrap_ctx' THEN FromBootstrap ELSE NoSource
                            ELSE \E q \in Declaring :
                                    /\ \A q2 \in Declaring : Len(q2) <= Len(q)
                                    /\ x.context[c] = IF c \in RecordAt(q)'.body THEN q ELSE NoSource
        BY DEF Bound
    <2> DEFINE Above == {q \in Line(o) : c \in RecordAt(q).capture}
               Declaring == {q \in Line(path) : c \in RecordAt(q)'.capture}
    <2>1. \A q \in Line(o) : RecordAt(q)' = RecordAt(q) /\ q \in Paths /\ Len(q) <= Len(o)
        BY <1>1, <1>5, LineFacts DEF Paths
    <2>2. \A q : q \in Declaring <=> q \in Above \/ (q = path /\ c \in records[n].capture)
        BY <1>3, <1>5, <2>1
    <2>3. IF Above = {} THEN Current.context[c] = IF c \in bootstrap_ctx THEN FromBootstrap ELSE NoSource
          ELSE \E q \in Above :
                  /\ \A q2 \in Above : Len(q2) <= Len(q)
                  /\ Current.context[c] = IF c \in RecordAt(q).body THEN q ELSE NoSource
        BY <1>1 DEF Awaited, Bound
    <2>4. \A q \in Above : q \in Line(o)
        OBVIOUS
    <2> HIDE DEF Above
    <2> SUFFICES IF Declaring = {} THEN x.context[c] = IF c \in bootstrap_ctx' THEN FromBootstrap ELSE NoSource
                 ELSE \E q \in Declaring :
                         /\ \A q2 \in Declaring : Len(q2) <= Len(q)
                         /\ x.context[c] = IF c \in RecordAt(q)'.body THEN q ELSE NoSource
        OBVIOUS
    <2> HIDE DEF Declaring
    <2>5. CASE c \in records[n].capture
        <3>1. path \in Declaring
            BY <2>2, <2>5
        <3>2. \A q \in Declaring : Len(q) <= Len(path)
            <4>1. Len(o) \in Nat /\ Len(path) = Len(o) + 1
                BY <1>1, <1>3 DEF Paths
            <4>2. \A q \in Above : Len(q) <= Len(o) /\ Len(q) \in Nat
                BY <2>1, <2>4 DEF Paths
            <4> QED
                BY <2>2, <4>1, <4>2
        <3>3. x.context[c] = IF c \in RecordAt(path)'.body THEN path ELSE NoSource
            BY <1>4, <1>5, <2>5
        <3> QED
            BY <3>1, <3>2, <3>3
    <2>6. CASE c \notin records[n].capture
        <3>1. Declaring = Above
            BY <2>2, <2>6, Zenon
        <3>2. x.context[c] = Current.context[c]
            BY <1>4, <2>6
        <3> QED
            BY <2>1, <2>3, <2>4, <3>1, <3>2 DEF givenVars
    <2> QED
        BY <2>5, <2>6
<1>11. Awaited(x)'
    BY <1>4, <1>7, <1>8, <1>9, <1>10 DEF Awaited, Belongs, DefOf
<1> QED
    BY <1>3, <1>4, <1>6, <1>11

LEMMA AgendaAfter ==
    ASSUME TreeSound, AgendaSound, PositionSound, agenda # <<>>, UNCHANGED givenVars,
           NEW records \in Seq(AnyRecord), NEW strategy, HasConcluded(records, strategy),
           agenda' = ChildExecutions(records) \o Tail(agenda)
    PROVE  AgendaSound' /\ \A i \in DOMAIN agenda' : agenda'[i].owner # <<>> /\ agenda'[i].owner[1][1] = Top
<1> DEFINE o == Current.owner
           this == Entry(o, Current.name)
           children == ChildExecutions(records)
           rest == Tail(agenda)
<1>1. /\ o \in Paths /\ Current.name \in AllNames /\ Awaited(Current) /\ Current.depth \in Nat
      /\ Current = agenda[1] /\ 1 \in DOMAIN agenda
      /\ rest \in Seq(Executions)
      /\ \A i \in DOMAIN rest : rest[i] = agenda[i + 1] /\ i + 1 \in DOMAIN agenda
      /\ \A i \in DOMAIN agenda : i = 1 \/ (i - 1 \in DOMAIN rest /\ rest[i - 1] = agenda[i])
    BY AgendaFacts
<1>2. AreChildren(children, records)
    BY Children
<1>3. /\ children \in Seq(Executions)
      /\ \A k \in DOMAIN children :
            /\ Current.depth + 1 <= max_depth
            /\ \E n \in DOMAIN records : \E name \in ChildNames(Current.def) : children[k] = Child(records, n, name)
      /\ Current.depth + 1 <= max_depth =>
            \A n \in DOMAIN records : \A name \in ChildNames(Current.def) :
                \E k \in DOMAIN children : children[k] = Child(records, n, name)
      /\ \A k, l \in DOMAIN children :
            children[k].owner = children[l].owner /\ children[k].name = children[l].name => k = l
    BY <1>2 DEF AreChildren
<1> HIDE DEF children, rest
<1>4. /\ agenda' \in Seq(Executions)
      /\ \A k \in DOMAIN agenda' : \/ k \in DOMAIN children /\ agenda'[k] = children[k]
                                   \/ \E i \in DOMAIN rest : k = Len(children) + i /\ agenda'[k] = rest[i]
      /\ \A k \in DOMAIN children : k \in DOMAIN agenda' /\ agenda'[k] = children[k]
      /\ \A i \in DOMAIN rest : Len(children) + i \in DOMAIN agenda' /\ agenda'[Len(children) + i] = rest[i]
    <2> DEFINE both == children \o rest
    <2>1. agenda' = both
        BY DEF children, rest
    <2>2. /\ both \in Seq(Executions)
          /\ \A k \in DOMAIN both : \/ k \in DOMAIN children /\ both[k] = children[k]
                                    \/ \E i \in DOMAIN rest : k = Len(children) + i /\ both[k] = rest[i]
          /\ \A k \in DOMAIN children : k \in DOMAIN both /\ both[k] = children[k]
          /\ \A i \in DOMAIN rest : Len(children) + i \in DOMAIN both /\ both[Len(children) + i] = rest[i]
        BY <1>1, <1>3, Joined
    <2> HIDE DEF both
    <2> QED
        BY <2>1, <2>2
<1>5. /\ this \in DOMAIN tree'
      /\ \A e \in DOMAIN tree' : \/ e = this
                                 \/ e \in DOMAIN tree /\ (o = <<>> => e[1] = <<>> \/ e[1][1][1] # Current.name)
      /\ \A e \in DOMAIN tree : (o = <<>> => e[1] = <<>> \/ e[1][1][1] # Current.name) => e \in DOMAIN tree'
      /\ \A p : p \in Records' <=> p \in Remaining \/ p \in NewRecords(records)
      /\ \A p \in Remaining : RecordAt(p)' = RecordAt(p)
      /\ \A p \in NewRecords(records) : p \notin Remaining
    BY DEF HasConcluded
<1>6. ASSUME NEW k \in DOMAIN children
      PROVE  /\ \A x : x = children[k] => Awaited(x)'
             /\ children[k].owner \in NewRecords(records)
             /\ children[k].owner \in Line(children[k].owner)
             /\ children[k].owner # <<>> /\ children[k].owner[1][1] = Top
    <2>1. Current.depth + 1 <= max_depth
        BY <1>3
    <2>2. PICK n \in DOMAIN records : \E name \in ChildNames(Current.def) : children[k] = Child(records, n, name)
        BY <1>3
    <2>3. PICK name \in ChildNames(Current.def) : children[k] = Child(records, n, name)
        BY <2>2
    <2>4. PICK x : x = Child(records, n, name)
        OBVIOUS
    <2>5. Awaited(x)' /\ x.owner \in NewRecords(records) /\ x.owner \in Line(x.owner)
        BY <2>1, <2>4, ChildrenAreAwaited
    <2>6. PICK m \in DOMAIN records : x.owner = RecordPath(o, Current.name, m)
        BY <2>5 DEF NewRecords
    <2>7. m \in Nat \ {0}
        OBVIOUS
    <2>8. x.owner # <<>> /\ x.owner[1][1] = IF o = <<>> THEN Current.name ELSE o[1][1]
        <3> DEFINE p == RecordPath(o, Current.name, m)
        <3>1. o \in Paths /\ Current.name \in AllNames
            BY <1>1
        <3>2. p # <<>> /\ p[1][1] = IF o = <<>> THEN Current.name ELSE o[1][1]
            BY <2>7, <3>1, RecordBelow
        <3> QED
            BY <2>6, <3>2
    <2>9. IF o = <<>> THEN Current.name = Top ELSE o[1][1] = Top
        BY <1>1 DEF PositionSound
    <2> QED
        BY <2>3, <2>4, <2>5, <2>8, <2>9
<1>7. ASSUME NEW i \in DOMAIN rest
      PROVE  /\ \A x : x = rest[i] => Awaited(x)'
             /\ rest[i].owner \notin NewRecords(records)
             /\ rest[i].owner # <<>> /\ rest[i].owner[1][1] = Top
    <2>1. rest[i] = agenda[i + 1] /\ i + 1 \in DOMAIN agenda
        BY <1>1
    <2>2. i \in Nat /\ i >= 1
        BY <1>1
    <2>3. Len(agenda) # 1
        <3>1. agenda \in Seq(Executions)
            BY DEF AgendaSound
        <3> QED
            BY <2>1, <2>2, <3>1
    <2>4. rest[i].owner # <<>> /\ rest[i].owner[1][1] = Top /\ o # <<>>
        BY <1>1, <2>1, <2>3 DEF PositionSound
    <2>5. PICK x : x = rest[i]
        OBVIOUS
    <2>6. Awaited(x) /\ x.owner \in Paths
        <3>1. x \in Executions
            BY <1>1, <2>5
        <3> QED
            BY <2>1, <2>5, <3>1 DEF AgendaSound, Executions
    <2>7. \A q \in Line(x.owner) : q \in Remaining
        BY <2>4, <2>6 DEF Awaited, Remaining
    <2>8. Entry(x.owner, x.name) # this
        <3>1. ~ (agenda[1].owner = x.owner /\ agenda[1].name = x.name)
            <4>1. 1 \in DOMAIN agenda /\ i + 1 \in DOMAIN agenda /\ 1 # i + 1
                BY <1>1, <2>1, <2>2
            <4> QED
                BY <2>1, <2>5, <4>1 DEF AgendaSound
        <3> QED
            BY <1>1, <3>1 DEF Entry
    <2>9. Entry(x.owner, x.name) \notin DOMAIN tree'
        BY <1>5, <2>4, <2>5, <2>6, <2>8 DEF Awaited
    <2>10. Awaited(x)'
        BY <1>5, <2>6, <2>7, <2>9, AwaitedStays DEF givenVars
    <2>11. x.owner \in Line(x.owner)
        <3>1. Len(x.owner) \in Nat /\ Len(x.owner) # 0 /\ SubSeq(x.owner, 1, Len(x.owner)) = x.owner
            BY <2>4, <2>5, <2>6 DEF Paths
        <3>2. Len(x.owner) \in 1 .. Len(x.owner)
            BY <3>1
        <3> QED
            BY <3>1, <3>2 DEF Line
    <2>12. x.owner \notin NewRecords(records)
        BY <1>5, <2>7, <2>11
    <2> QED
        BY <2>4, <2>5, <2>10, <2>12
<1>8. ASSUME NEW k \in DOMAIN agenda'
      PROVE  (\A x : x = agenda'[k] => Awaited(x)') /\ agenda'[k].owner # <<>> /\ agenda'[k].owner[1][1] = Top
    BY <1>4, <1>6, <1>7
<1>9. ASSUME NEW k \in DOMAIN agenda', NEW l \in DOMAIN agenda',
             agenda'[k].owner = agenda'[l].owner, agenda'[k].name = agenda'[l].name
      PROVE  k = l
    <2>1. CASE k \in DOMAIN children /\ agenda'[k] = children[k]
        <3>1. CASE l \in DOMAIN children /\ agenda'[l] = children[l]
            BY <1>3, <1>9, <2>1, <3>1
        <3>2. CASE \E i \in DOMAIN rest : l = Len(children) + i /\ agenda'[l] = rest[i]
            BY <1>6, <1>7, <1>9, <2>1, <3>2
        <3> QED
            BY <1>4, <3>1, <3>2
    <2>2. ASSUME NEW i \in DOMAIN rest, k = Len(children) + i, agenda'[k] = rest[i]
          PROVE  k = l
        <3>1. CASE l \in DOMAIN children /\ agenda'[l] = children[l]
            BY <1>6, <1>7, <1>9, <2>2, <3>1
        <3>2. ASSUME NEW j \in DOMAIN rest, l = Len(children) + j, agenda'[l] = rest[j]
              PROVE  k = l
            <4>1. rest[i] = agenda[i + 1] /\ i + 1 \in DOMAIN agenda /\ rest[j] = agenda[j + 1] /\ j + 1 \in DOMAIN agenda
                BY <1>1
            <4>2. agenda[i + 1].owner = agenda[j + 1].owner /\ agenda[i + 1].name = agenda[j + 1].name => i + 1 = j + 1
                BY <4>1 DEF AgendaSound
            <4>3. i \in Nat /\ j \in Nat
                BY <1>1
            <4> QED
                <5>1. rest[i].owner = rest[j].owner /\ rest[i].name = rest[j].name
                    BY <1>9, <2>2, <3>2
                <5>2. i + 1 = j + 1
                    BY <4>1, <4>2, <5>1
                <5> QED
                    BY <2>2, <3>2, <4>3, <5>2
        <3> QED
            BY <1>4, <3>1, <3>2
    <2> QED
        BY <1>4, <2>1, <2>2
<1>10. ASSUME NEW p \in Records', Len(p) <= max_depth, NEW name \in ChildNames(DefAt(p))
       PROVE  \/ Entry(p, name) \in DOMAIN tree'
              \/ \E i \in DOMAIN agenda' : agenda'[i].owner = p /\ agenda'[i].name = name
    <2>1. CASE p \in NewRecords(records)
        <3>1. PICK n \in DOMAIN records : p = RecordPath(o, Current.name, n)
            BY <2>1 DEF NewRecords
        <3>2. n \in Nat \ {0}
            OBVIOUS
        <3>3. Len(p) = Len(o) + 1 /\ DefAt(p) = DefOf(o, Current.name)
            BY <1>1, <3>1, <3>2, RecordBelow
        <3>4. DefAt(p) = Current.def /\ Current.depth + 1 <= max_depth
            BY <1>1, <1>10, <3>3 DEF Awaited
        <3>5. PICK k \in DOMAIN children : children[k] = Child(records, n, name)
            BY <1>3, <1>10, <3>4
        <3>6. children[k].owner = p /\ children[k].name = name
            BY <1>10, <3>1, <3>4, <3>5, AChild
        <3> QED
            BY <1>4, <3>6
    <2>2. CASE p \in Remaining
        <3>1. p \in Records /\ (o = <<>> => p[1][1] # Current.name)
            BY <2>2 DEF Remaining
        <3>2. CASE Entry(p, name) \in DOMAIN tree
            <4>1. Entry(p, name)[1] = p
                BY DEF Entry
            <4> QED
                BY <1>5, <3>1, <3>2, <4>1
        <3>3. ASSUME NEW i \in DOMAIN agenda, agenda[i].owner = p, agenda[i].name = name
              PROVE  \/ Entry(p, name) \in DOMAIN tree'
                     \/ \E j \in DOMAIN agenda' : agenda'[j].owner = p /\ agenda'[j].name = name
            <4>1. CASE i = 1
                BY <1>1, <1>5, <3>3, <4>1
            <4>2. CASE i # 1
                <5>1. i - 1 \in DOMAIN rest /\ rest[i - 1] = agenda[i]
                    BY <1>1, <4>2
                <5>2. Len(children) + (i - 1) \in DOMAIN agenda' /\ agenda'[Len(children) + (i - 1)] = rest[i - 1]
                    BY <1>4, <5>1
                <5> QED
                    BY <3>3, <5>1, <5>2
            <4> QED
                BY <4>1, <4>2
        <3> QED
            BY <1>10, <3>1, <3>2, <3>3 DEF AgendaSound
    <2> QED
        BY <1>5, <2>1, <2>2
<1>11. \A k \in DOMAIN agenda' : Awaited(agenda[k])'
    BY <1>8 DEF Awaited, Belongs, DefOf
<1> QED
    BY <1>4, <1>8, <1>9, <1>10, <1>11 DEF AgendaSound

-----------------------------------------------------------------------------
(* The steps of the crawl                                                  *)

\* What is said of the tree and of the agenda is so until they change.
LEMMA TreeStays ==
    ASSUME UNCHANGED <<givenVars, tree>>, TreeSound
    PROVE  TreeSound'
<1>1. /\ lane' = lane /\ tree' = tree /\ Records' = Records /\ \A p : RecordAt(p)' = RecordAt(p)
    BY DEF givenVars, Records, RecordAt
<1>2. ASSUME NEW p \in Records
      PROVE  RightSource(RecordAt(p), Front(p), p[1][1])'
    <2>1. PICK r : r = RecordAt(p)
        OBVIOUS
    <2>2. RightSource(r, Front(p), p[1][1])'
        BY <1>1, <2>1, SourceStays DEF TreeSound
    <2> QED
        BY <1>1, <2>1, <2>2 DEF RightSource
<1>3. \A e \in DOMAIN tree' :
         /\ tree'[e].records \in Seq(AnyRecord) /\ tree'[e].strategy \in Nat
         /\ Line(e[1]) \subseteq Records'
         /\ Belongs(e[1], e[2])
         /\ tree'[e].strategy = 0 => tree'[e].records = <<>>
         /\ Len(tree'[e].records) <= 1 \/ Len(tree'[e].records) <= max_members
         /\ e[1] = <<>> /\ Resources[e[2]].required => tree'[e].strategy # 0
    BY <1>1 DEF TreeSound
<1>4. DOMAIN tree' \subseteq Paths \X AllNames
    BY <1>1 DEF TreeSound
<1> QED
    BY <1>1, <1>2, <1>3, <1>4 DEF TreeSound

LEMMA StillSound ==
    ASSUME UNCHANGED <<givenVars, agenda, tree>>
    PROVE  (TreeSound => TreeSound') /\ (AgendaSound => AgendaSound')
<1>1. /\ lane' = lane /\ bootstrap_ctx' = bootstrap_ctx /\ tree' = tree /\ agenda' = agenda
      /\ Records' = Records /\ \A p : RecordAt(p)' = RecordAt(p)
    BY DEF givenVars, Records, RecordAt
<1>2. TreeSound => TreeSound'
    BY TreeStays
<1>3. AgendaSound => AgendaSound'
    <2> SUFFICES ASSUME AgendaSound PROVE AgendaSound'
        OBVIOUS
    <2>1. ASSUME NEW i \in DOMAIN agenda
          PROVE  Awaited(agenda[i])'
        <3>1. PICK x : x = agenda[i]
            OBVIOUS
        <3>2. Awaited(x)
            BY <3>1 DEF AgendaSound
        <3>3. Awaited(x)'
            BY <1>1, <3>2, AwaitedStays DEF Awaited
        <3> QED
            BY <1>1, <3>1, <3>3 DEF Awaited
    <2>2. agenda' \in Seq(Executions)
        BY <1>1 DEF AgendaSound
    <2>3. \A i, j \in DOMAIN agenda' : agenda'[i].owner = agenda'[j].owner /\ agenda'[i].name = agenda'[j].name => i = j
        BY <1>1 DEF AgendaSound
    <2>4. \A p \in Records' : Len(p) <= max_depth =>
             \A name \in ChildNames(DefAt(p)) :
                 \/ Entry(p, name) \in DOMAIN tree'
                 \/ \E i \in DOMAIN agenda' : agenda'[i].owner = p /\ agenda'[i].name = name
        BY <1>1 DEF AgendaSound
    <2> QED
        BY <1>1, <2>1, <2>2, <2>3, <2>4 DEF AgendaSound
<1> QED
    BY <1>2, <1>3

LEMMA TurnMoves ==
    ASSUME Crawling, UNCHANGED <<givenVars, position, agenda, tree, raws, outcome>>,
           fetches' \in Nat, TurnSound'
    PROVE  Crawling'
<1>1. TreeSound' /\ AgendaSound'
    BY StillSound DEF Crawling
<1>2. PositionSound'
    BY DEF Crawling, PositionSound, Top, givenVars
<1> QED
    BY <1>1, <1>2 DEF Crawling

\* A turn that begins is sound, whatever execution is the first.
LEMMA FreshTurn ==
    ASSUME SchemaAssumption, NEW i \in Nat
    PROVE  /\ Fresh(i) \in Turns /\ Fresh(i).doing = "choosing" /\ Fresh(i).strategy = i
           /\ Fresh(i).pages = 0 /\ ~Fresh(i).more /\ Fresh(i).records = <<>> /\ Fresh(i).refs = <<>>
<1>1. <<>> \in Seq(AnyRecord) /\ <<>> \in Seq(AnyRef) /\ <<>> \in Seq(Kinds)
    OBVIOUS
<1>2. 0 \in 0 .. max_pages
    BY DEF SchemaAssumption
<1> HIDE DEF SchemaAssumption
<1> QED
    BY <1>1, <1>2 DEF Fresh, Turns

\* A definition has a first strategy.
LEMMA FirstStrategy ==
    ASSUME NEW d \in Definitions
    PROVE  /\ Len(d.strategies) \in Nat /\ DOMAIN d.strategies = 1 .. Len(d.strategies) /\ 1 \in DOMAIN d.strategies
<1>1. d.strategies \in Seq(ToSet(d.strategies)) /\ d.strategies # <<>>
    BY SchemaAssumption DEF SchemaAssumption, WellFormed
<1> QED
    BY <1>1

\* The strategy under way.
LEMMA StrategyFacts ==
    ASSUME Crawling, agenda # <<>>
    PROVE  /\ turn.strategy \in DOMAIN Current.def.strategies /\ turn.strategy # 0 /\ turn.strategy \in Nat
           /\ Strategy.kind \in {"object", "collection", "inline-collection", "telemetry-reports"}
           /\ Strategy.kind \in {"object", "collection"} => Strategy.from \in {"template", "capture", "resource", "parent"}
           /\ Strategy.from = "capture" => Strategy.of \in Captures
           /\ Strategy.capture \subseteq Captures
           /\ Strategy.of \in Asked
<1>1. Current.def \in Definitions
    BY AgendaFacts DEF Crawling
<1>2. turn.strategy \in DOMAIN Current.def.strategies
    BY DEF Crawling, TurnSound
<1>3. WellFormed(Current.def)
    BY <1>1, SchemaAssumption DEF SchemaAssumption
<1>4. turn.strategy # 0 /\ turn.strategy \in Nat
    BY <1>1, <1>2, FirstStrategy
<1>5. Strategy.of \in Asked
    BY <1>1, <1>2 DEF Strategy, Asked
<1> QED
    BY <1>2, <1>3, <1>4, <1>5 DEF WellFormed, Strategy

\* The end of an execution, with records that came from where they should.
LEMMA ConcludeKeeps ==
    ASSUME Crawling, Running, UNCHANGED <<givenVars, position, raws, fetches>>,
           NEW records \in Seq(AnyRecord), NEW strategy \in Nat, Conclude(records, strategy),
           strategy = 0 => records = <<>>,
           Len(records) <= 1 \/ Len(records) <= max_members,
           Current.owner = <<>> /\ Current.def.required => strategy # 0,
           \A i \in DOMAIN records : RightSource(records[i], Current.owner, Top)
    PROVE  Crawling'
<1>1. TreeSound /\ AgendaSound /\ PositionSound /\ TurnSound /\ agenda # <<>> /\ outcome = "running"
    BY DEF Crawling, Running
<1>2. HasConcluded(records, strategy)
    BY <1>1, Concluded
<1>3. TreeSound'
    BY <1>1, <1>2, TreeAfter
<1>4. agenda' = ChildExecutions(records) \o Tail(agenda) /\ turn' = Fresh(1) /\ outcome' = outcome
    BY DEF Conclude
<1>5. AgendaSound' /\ \A i \in DOMAIN agenda' : agenda'[i].owner # <<>> /\ agenda'[i].owner[1][1] = Top
    BY <1>1, <1>2, <1>4, AgendaAfter
<1>6. /\ Entry(Current.owner, Current.name) \in DOMAIN tree'
      /\ \A e \in DOMAIN tree : e[1] = <<>> => e \in DOMAIN tree'
    BY <1>2 DEF HasConcluded
<1>7. Top' = Top /\ lane' = lane /\ position' = position /\ raws' = raws
    BY DEF Top, givenVars
<1>8. PositionSound'
    <2>1. \A i \in DOMAIN LaneResources[lane] : i < position => Entry(<<>>, LaneResources[lane][i]) \in DOMAIN tree'
        <3> TAKE i \in DOMAIN LaneResources[lane]
        <3>1. Entry(<<>>, LaneResources[lane][i])[1] = <<>>
            BY DEF Entry
        <3> QED
            BY <1>1, <1>6, <3>1 DEF PositionSound
    <2>2. Entry(<<>>, Top) \in DOMAIN tree'
        <3>1. 1 \in DOMAIN agenda /\ Current = agenda[1]
            BY <1>1, AgendaFacts
        <3>2. CASE Current.owner = <<>>
            BY <1>1, <1>6, <3>1, <3>2 DEF PositionSound
        <3>3. CASE Current.owner # <<>>
            <4>1. Entry(<<>>, Top) \in DOMAIN tree
                BY <1>1, <3>1, <3>3 DEF PositionSound
            <4>2. Entry(<<>>, Top)[1] = <<>>
                BY DEF Entry
            <4> QED
                BY <1>6, <4>1, <4>2
        <3> QED
            BY <3>2, <3>3
    <2>3. \A i \in DOMAIN agenda' : IF agenda'[i].owner = <<>> THEN Len(agenda') = 1 /\ agenda'[i].name = Top
                                    ELSE agenda'[i].owner[1][1] = Top
        BY <1>5
    <2>4. lane \in {"fast", "slow"} /\ position \in DOMAIN LaneResources[lane]
        BY <1>1 DEF PositionSound
    <2>5. DOMAIN raws \subseteq {LaneResources[lane][i] : i \in {j \in DOMAIN LaneResources[lane] :
                                    j < position \/ (outcome' = "done" /\ j = position)}}
        BY <1>1, <1>4 DEF PositionSound
    <2>6. outcome' # "done"
        BY <1>1, <1>4
    <2> QED
        BY <1>7, <2>1, <2>2, <2>3, <2>4, <2>5, <2>6 DEF PositionSound
<1>9. TurnSound'
    <2>1. agenda' # <<>> => 1 \in DOMAIN Current'.def.strategies
        <3> SUFFICES ASSUME agenda' # <<>> PROVE 1 \in DOMAIN Current'.def.strategies
            OBVIOUS
        <3>1. agenda' \in Seq(Executions)
            BY <1>5 DEF AgendaSound
        <3>2. Current' \in Executions
            BY <3>1 DEF Current
        <3>3. Current'.def \in Definitions
            BY <3>2 DEF Executions
        <3> QED
            BY <3>3, FirstStrategy
    <2>2. /\ turn' \in Turns /\ turn'.doing = "choosing" /\ turn'.strategy = 1
          /\ turn'.pages = 0 /\ ~turn'.more /\ turn'.records = <<>> /\ turn'.refs = <<>>
        BY <1>4, FreshTurn, SchemaAssumption
    <2>3. \A i : i \notin DOMAIN turn'.records
        BY <2>2
    <2> QED
        BY <1>4, <2>1, <2>2, <2>3 DEF TurnSound
<1> QED
    BY <1>1, <1>3, <1>4, <1>5, <1>8, <1>9 DEF Crawling

\* Where a record of the execution under way came from is right still.
LEMMA RightStays ==
    ASSUME UNCHANGED <<givenVars, position, agenda, tree>>, NEW r, RightSource(r, Current.owner, Top)
    PROVE  RightSource(r, Current.owner, Top)'
<1>1. PICK o : o = Current.owner
    OBVIOUS
<1>2. PICK top : top = Top
    OBVIOUS
<1>3. RightSource(r, o, top)
    BY <1>1, <1>2
<1>4. RightSource(r, o, top)'
    BY <1>3, SourceStays DEF RecordAt, givenVars
<1>5. Current'.owner = o /\ Top' = top
    BY <1>1, <1>2 DEF Current, Top, givenVars
<1> QED
    BY <1>4, <1>5 DEF RightSource

\* A turn goes on: what it collects came from the same source.
LEMMA SourcesStay ==
    ASSUME Crawling, agenda # <<>>, UNCHANGED <<givenVars, position, agenda, tree>>,
           turn'.source = turn.source, turn'.strategy = turn.strategy,
           \A i \in DOMAIN turn'.records :
               \/ \E j \in DOMAIN turn.records : turn'.records[i] = turn.records[j]
               \/ turn.doing # "choosing" /\ \E member \in Nat \X Nat, body \in Bodies : turn'.records[i] = Record(member, body)
    PROVE  /\ turn.doing # "choosing" => \A member \in Nat \X Nat, body \in Bodies : RightSource(Record(member, body), Current.owner, Top)'
           /\ \A i \in DOMAIN turn'.records : RightSource(turn.records[i], Current.owner, Top)'
<1>1. ASSUME turn.doing # "choosing", NEW member \in Nat \X Nat, NEW body \in Bodies
      PROVE  RightSource(Record(member, body), Current.owner, Top)'
    <2>1. PICK r : r = Record(member, body)
        OBVIOUS
    <2>2. RightSource(r, Current.owner, Top)
        BY <1>1, <2>1 DEF Crawling, TurnSound
    <2>3. RightSource(r, Current.owner, Top)'
        BY <2>2, RightStays
    <2>4. Record(member, body)' = r
        BY <2>1 DEF Record, Strategy, Current
    <2> QED
        BY <2>3, <2>4 DEF RightSource
<1>2. ASSUME NEW i \in DOMAIN turn'.records
      PROVE  RightSource(turn.records[i], Current.owner, Top)'
    <2>1. PICK r : r = turn'.records[i]
        OBVIOUS
    <2>2. RightSource(r, Current.owner, Top)
        <3>1. ASSUME NEW j \in DOMAIN turn.records, turn'.records[i] = turn.records[j]
              PROVE  RightSource(r, Current.owner, Top)
            BY <2>1, <3>1 DEF Crawling, TurnSound
        <3>2. ASSUME turn.doing # "choosing", NEW member \in Nat \X Nat, NEW body \in Bodies, turn'.records[i] = Record(member, body)
              PROVE  RightSource(r, Current.owner, Top)
            BY <2>1, <3>2 DEF Crawling, TurnSound
        <3> QED
            BY <3>1, <3>2
    <2>3. RightSource(r, Current.owner, Top)'
        BY <2>2, RightStays
    <2> QED
        BY <2>1, <2>3 DEF RightSource
<1> QED
    BY <1>1, <1>2

LEMMA TurnStays ==
    ASSUME Crawling, UNCHANGED <<givenVars, position, agenda, turn, tree>>
    PROVE  TurnSound'
<1>1. TurnSound
    BY DEF Crawling
<1>2. CASE agenda = <<>>
    BY <1>1, <1>2 DEF TurnSound
<1>3. CASE agenda # <<>>
    <2>1. /\ turn.doing # "choosing" => \A member \in Nat \X Nat, body \in Bodies : RightSource(Record(member, body), Current.owner, Top)'
          /\ \A i \in DOMAIN turn'.records : RightSource(turn.records[i], Current.owner, Top)'
        BY <1>3, SourcesStay
    <2>2. Current' = Current /\ Strategy' = Strategy /\ turn' = turn /\ agenda' = agenda
        BY DEF Current, Strategy
    <2> QED
        BY <1>1, <2>1, <2>2 DEF TurnSound
<1> QED
    BY <1>2, <1>3

LEMMA NextStrategyKeeps ==
    ASSUME Crawling, Running, NextStrategy, UNCHANGED <<givenVars, position, raws, fetches>>
    PROVE  Crawling'
<1>1. agenda # <<>> /\ AgendaSound
    BY DEF Running, Crawling
<1>2. CASE turn.strategy < Len(Current.def.strategies)
    <2>1. turn' = Fresh(turn.strategy + 1) /\ UNCHANGED <<agenda, tree, outcome>>
        BY <1>2 DEF NextStrategy
    <2>2. turn.strategy \in Nat /\ Current.def \in Definitions
        BY <1>1, StrategyFacts, AgendaFacts
    <2>3. turn.strategy + 1 \in DOMAIN Current.def.strategies
        BY <1>2, <2>2, FirstStrategy
    <2>4. /\ turn' \in Turns /\ turn'.doing = "choosing" /\ turn'.strategy = turn.strategy + 1
          /\ turn'.pages = 0 /\ ~turn'.more /\ turn'.records = <<>> /\ turn'.refs = <<>>
        BY <2>1, <2>2, FreshTurn, SchemaAssumption
    <2>5. Current' = Current /\ agenda' = agenda
        BY <2>1 DEF Current
    <2>6. \A i : i \notin DOMAIN turn'.records
        BY <2>4
    <2>7. TurnSound'
        BY <1>1, <2>3, <2>4, <2>5, <2>6 DEF TurnSound
    <2>8. fetches' \in Nat
        BY DEF Crawling
    <2> QED
        BY <2>1, <2>7, <2>8, TurnMoves
<1>3. CASE ~(turn.strategy < Len(Current.def.strategies)) /\ Current.owner = <<>> /\ Current.def.required
    <2>1. outcome' = "failed" /\ UNCHANGED <<agenda, turn, tree>>
        BY <1>3 DEF NextStrategy
    <2>2. TreeSound' /\ AgendaSound'
        BY <2>1, StillSound DEF Crawling
    <2>3. PositionSound'
        BY <2>1 DEF Crawling, PositionSound, Top, givenVars, Running
    <2>4. TurnSound'
        BY <2>1, TurnStays
    <2> QED
        BY <2>1, <2>2, <2>3, <2>4 DEF Crawling
<1>4. CASE ~(turn.strategy < Len(Current.def.strategies)) /\ ~(Current.owner = <<>> /\ Current.def.required)
    <2>1. Conclude(<<>>, 0)
        BY <1>4 DEF NextStrategy
    <2>2. <<>> \in Seq(AnyRecord) /\ Len(<<>>) <= 1 /\ 0 \in Nat /\ \A i : i \notin DOMAIN <<>>
        OBVIOUS
    <2> QED
        BY <1>4, <2>1, <2>2, ConcludeKeeps
<1> QED
    BY <1>2, <1>3, <1>4

LEMMA ARecord ==
    ASSUME Crawling, agenda # <<>>, turn.source \in Paths, Strategy.kind # "telemetry-reports", NEW member \in Nat \X Nat, NEW body \in Bodies
    PROVE  Record(member, body) \in AnyRecord
<1>1. /\ Strategy.kind \in {"object", "collection", "inline-collection"}
      /\ Strategy.kind \in {"object", "collection"} => Strategy.from \in {"template", "capture", "resource", "parent"}
      /\ Strategy.capture \subseteq Captures /\ Strategy.of \in Asked
    BY StrategyFacts
<1> DEFINE uri == IF Strategy.kind = "inline-collection" THEN "none" ELSE Strategy.from
<1>2. uri \in {"none", "template", "capture", "resource", "parent"}
    BY <1>1
<1>3. Record(member, body) = [member |-> member, body |-> body, from |-> turn.source, capture |-> Strategy.capture, uri |-> uri, of |-> Strategy.of]
    BY DEF Record
<1> HIDE DEF uri
<1> QED
    BY <1>1, <1>2, <1>3 DEF AnyRecord

\* A turn that has its source goes on with it.
LEMMA TurnGoesOn ==
    ASSUME Crawling, Running, UNCHANGED <<givenVars, position, agenda, tree, raws, outcome>>, fetches' \in Nat,
           turn.doing # "choosing", turn' \in Turns,
           turn'.source = turn.source, turn'.strategy = turn.strategy,
           turn'.doing \in {"paging", "page", "members", "member"},
           turn'.more => turn'.doing \in {"paging", "page"},
           turn'.doing = "page" => turn'.pages < max_pages,
           turn'.doing \in {"paging", "page"} => turn'.records = <<>>,
           turn'.doing \in {"members", "member"} => Len(turn'.records) + Len(turn'.refs) <= max_members,
           turn'.doing = "member" => turn'.refs # <<>>,
           \A i \in DOMAIN turn'.records :
               \/ \E j \in DOMAIN turn.records : turn'.records[i] = turn.records[j]
               \/ \E member \in Nat \X Nat, body \in Bodies : turn'.records[i] = Record(member, body)
    PROVE  Crawling'
<1>1. agenda # <<>> /\ TurnSound
    BY DEF Running, Crawling
<1>2. /\ turn.doing # "choosing" => \A member \in Nat \X Nat, body \in Bodies : RightSource(Record(member, body), Current.owner, Top)'
      /\ \A i \in DOMAIN turn'.records : RightSource(turn.records[i], Current.owner, Top)'
    BY <1>1, SourcesStay
<1>3. Current' = Current /\ Strategy' = Strategy /\ agenda' = agenda
    BY DEF Current, Strategy
<1>4. TurnSound'
    BY <1>1, <1>2, <1>3 DEF TurnSound
<1> QED
    BY <1>4, TurnMoves

LEMMA SkipStrategyKeeps == Crawling /\ SkipStrategy => Crawling'
BY NextStrategyKeeps DEF SkipStrategy

LEMMA WhenMismatchKeeps == Crawling /\ WhenMismatch => Crawling'
BY NextStrategyKeeps DEF WhenMismatch

LEMMA TooManyPagesKeeps == Crawling /\ TooManyPages => Crawling'
BY NextStrategyKeeps DEF TooManyPages

\* What Truncated leaves.
LEMMA TruncatedFacts ==
    ASSUME NEW T, NEW refs \in Seq(T)
    PROVE  Truncated(refs) \in Seq(T) /\ Len(Truncated(refs)) <= max_members
<1>1. max_members \in Nat
    BY SchemaAssumption DEF SchemaAssumption
<1>2. CASE Len(refs) > max_members
    BY <1>1, <1>2 DEF Truncated
<1>3. CASE ~(Len(refs) > max_members)
    BY <1>1, <1>3 DEF Truncated
<1> QED
    BY <1>2, <1>3

\* The parts of a turn.
LEMMA TurnParts ==
    ASSUME NEW t \in Turns
    PROVE  /\ t.strategy \in Nat /\ t.doing \in {"choosing", "root", "reuse", "paging", "page", "members", "member"}
           /\ t.source \in Paths \cup {NoSource} /\ t.listed \in Seq(Kinds) /\ t.refs \in Seq(AnyRef) /\ t.pages \in 0 .. max_pages
           /\ t.more \in BOOLEAN /\ t.records \in Seq(AnyRecord)
BY DEF Turns

\* The members of a page: each is named by its place on the list.
LEMMA RefsFacts ==
    ASSUME turn \in Turns, NEW found \in Seq(Kinds)
    PROVE  /\ Refs(found) \in Seq(AnyRef) /\ Len(Refs(found)) = Len(found)
           /\ \A i \in 1 .. Len(found) :
                 Refs(found)[i] = [kind |-> found[i], member |-> <<turn.strategy, Len(turn.listed) + i>>]
<1>1. turn.strategy \in Nat /\ Len(turn.listed) \in Nat /\ DOMAIN found = 1 .. Len(found) /\ Len(found) \in Nat
    BY TurnParts
<1>2. \A i \in 1 .. Len(found) : [kind |-> found[i], member |-> <<turn.strategy, Len(turn.listed) + i>>] \in AnyRef
    BY <1>1 DEF AnyRef
<1> QED
    BY <1>1, <1>2 DEF Refs

\* A turn that begins to collect has a source of its own.
LEMMA TurnBegins ==
    ASSUME Crawling, Running, UNCHANGED <<givenVars, position, agenda, tree, raws, outcome>>, fetches' \in Nat,
           turn.doing = "choosing", Strategy.kind # "telemetry-reports",
           turn' \in Turns, turn'.strategy = turn.strategy, turn'.source \in Paths,
           turn'.pages = 0, ~turn'.more, turn'.records = <<>>,
           turn'.doing \in {"root", "reuse", "members"},
           turn'.doing # "members" => turn'.refs = <<>>,
           Len(turn'.refs) <= max_members,
           \A r : r.uri = (IF Strategy.kind = "inline-collection" THEN "none" ELSE Strategy.from)
                  /\ r.of = Strategy.of /\ r.from = turn'.source
                  => RightSource(r, Current.owner, Top)
    PROVE  Crawling'
<1>1. agenda # <<>> /\ TurnSound
    BY DEF Running, Crawling
<1>2. Current' = Current /\ Strategy' = Strategy /\ agenda' = agenda
    BY DEF Current, Strategy
<1>3. ASSUME NEW member \in Nat \X Nat, NEW body \in Bodies
      PROVE  RightSource(Record(member, body), Current.owner, Top)'
    <2>1. PICK r : r = Record(member, body)'
        OBVIOUS
    <2>2. r.uri = (IF Strategy.kind = "inline-collection" THEN "none" ELSE Strategy.from)
          /\ r.of = Strategy.of /\ r.from = turn'.source
        BY <1>2, <2>1 DEF Record
    <2>3. RightSource(r, Current.owner, Top)
        BY <2>2
    <2>4. RightSource(r, Current.owner, Top)'
        BY <2>3, RightStays
    <2> QED
        BY <2>1, <2>4 DEF RightSource
<1>4. \A i : i \notin DOMAIN turn'.records
    OBVIOUS
<1>5. Len(turn'.records) = 0 /\ Len(turn'.refs) \in Nat
    BY TurnParts
<1>6. turn'.doing = "members" => Len(turn'.records) + Len(turn'.refs) <= max_members
    BY <1>5
<1>7. TurnSound'
    BY <1>1, <1>2, <1>3, <1>4, <1>6 DEF TurnSound
<1> QED
    BY <1>7, TurnMoves

LEMMA ReadInlineKeeps == Crawling /\ ReadInline => Crawling'
<1> SUFFICES ASSUME Crawling, ReadInline PROVE Crawling'
    OBVIOUS
<1>1. agenda # <<>> /\ AgendaSound /\ turn \in Turns /\ turn.doing = "choosing" /\ Strategy.kind = "inline-collection"
      /\ fetches' \in Nat
    BY DEF ReadInline, Running, Crawling, TurnSound
<1>2. PICK found \in MemberLists :
         turn' = [turn EXCEPT !.doing = "members", !.source = Current.owner,
                              !.listed = found, !.refs = Truncated(Refs(found))]
    BY DEF ReadInline
<1> DEFINE refs == Truncated(Refs(found))
<1>3. found \in Seq(Kinds)
    BY SchemaAssumption DEF SchemaAssumption, Kinds
<1>4. refs \in Seq(AnyRef) /\ Len(refs) <= max_members
    BY <1>1, <1>3, RefsFacts, TruncatedFacts
<1> HIDE DEF refs
<1>5. Current.owner \in Paths
    BY <1>1, AgendaFacts
<1>6. turn' \in Turns
    BY <1>1, <1>2, <1>3, <1>4, <1>5 DEF Turns, refs
<1>7. /\ turn'.strategy = turn.strategy /\ turn'.source = Current.owner /\ turn'.doing = "members"
      /\ turn'.pages = turn.pages /\ turn'.more = turn.more /\ turn'.records = turn.records /\ turn'.refs = refs
    BY <1>1, <1>2 DEF Turns, refs
<1>8. turn.pages = 0 /\ ~turn.more /\ turn.records = <<>>
    BY <1>1 DEF Crawling, TurnSound
<1>9. \A r : r.uri = "none" /\ r.from = Current.owner => RightSource(r, Current.owner, Top)
    BY DEF RightSource
<1>10. UNCHANGED <<givenVars, position, agenda, tree, raws, outcome>> /\ Running
    BY DEF ReadInline
<1> HIDE DEF ReadInline
<1> QED
    BY <1>1, <1>4, <1>5, <1>6, <1>7, <1>8, <1>9, <1>10, TurnBegins

\* Where a fetch gets its URI belongs to the record.
LEMMA SourceIsRight ==
    ASSUME Crawling, Running, Strategy.kind \in {"object", "collection"}, Source(Strategy) # NoSource,
           NEW r, r.uri = Strategy.from, r.of = Strategy.of, r.from = Source(Strategy)
    PROVE  Source(Strategy) \in Paths /\ RightSource(r, Current.owner, Top)
<1>1. agenda # <<>> /\ AgendaSound /\ outcome = "running" /\ PositionSound
    BY DEF Running, Crawling
<1>2. /\ Current.owner \in Paths /\ Awaited(Current)
      /\ Current.context \in [Captures -> Paths \cup {NoSource}]
    BY <1>1, AgendaFacts
<1>3. /\ Strategy.from \in {"template", "capture", "resource", "parent"}
      /\ Strategy.from = "capture" => Strategy.of \in Captures
    BY <1>1, StrategyFacts
<1>4. CASE Strategy.from = "template"
    <2>1. Source(Strategy) = FromBootstrap /\ <<>> \in Paths
        BY <1>4 DEF Source, Paths
    <2> QED
        BY <1>4, <2>1 DEF RightSource, FromBootstrap
<1>5. CASE Strategy.from = "capture"
    <2> DEFINE c == Strategy.of
               Declaring == {q \in Line(Current.owner) : c \in RecordAt(q).capture}
    <2>1. c \in Captures /\ Source(Strategy) = Current.context[c]
        BY <1>3, <1>5 DEF Source
    <2>2. IF Declaring = {} THEN Current.context[c] = IF c \in bootstrap_ctx THEN FromBootstrap ELSE NoSource
          ELSE \E q \in Declaring :
                  /\ \A q2 \in Declaring : Len(q2) <= Len(q)
                  /\ Current.context[c] = IF c \in RecordAt(q).body THEN q ELSE NoSource
        BY <1>2, <2>1 DEF Awaited, Bound
    <2>3. IF Declaring = {} THEN r.from = FromBootstrap
          ELSE r.from \in Declaring /\ \A q \in Declaring : Len(q) <= Len(r.from)
        <3> HIDE DEF Declaring
        <3> QED
            BY <2>1, <2>2
    <2>4. Source(Strategy) \in Paths
        BY <1>2, <2>1
    <2> QED
        BY <1>5, <2>3, <2>4 DEF RightSource
<1>6. CASE Strategy.from = "resource"
    <2>1. Source(Strategy) = RecordPath(<<>>, Strategy.of, 1) /\ Strategy.of \in DOMAIN raws
        BY <1>6 DEF Source
    <2>2. PICK i \in DOMAIN LaneResources[lane] : i < position /\ LaneResources[lane][i] = Strategy.of
        BY <1>1, <2>1 DEF PositionSound
    <2>3. position \in DOMAIN LaneResources[lane] /\ LaneResources[lane][position] = Top
        BY <1>1 DEF PositionSound, Top
    <2>4. Strategy.of \in AllNames
        BY <1>1, <2>2, SchemaAssumption DEF SchemaAssumption, PositionSound, AllNames
    <2>5. <<>> \in Paths /\ 1 \in Nat \ {0}
        BY DEF Paths
    <2>6. RecordPath(<<>>, Strategy.of, 1) \in Paths
        BY <2>4, <2>5, RecordBelow
    <2> QED
        BY <1>6, <2>1, <2>2, <2>3, <2>6 DEF RightSource
<1>7. CASE Strategy.from = "parent"
    <2>1. Source(Strategy) = Current.owner
        BY <1>7 DEF Source
    <2> QED
        BY <1>2, <1>7, <2>1 DEF RightSource
<1> QED
    BY <1>3, <1>4, <1>5, <1>6, <1>7

LEMMA BeginFetchKeeps == Crawling /\ BeginFetch => Crawling'
<1> SUFFICES ASSUME Crawling, BeginFetch PROVE Crawling'
    OBVIOUS
<1>1. /\ agenda # <<>> /\ turn \in Turns /\ turn.doing = "choosing" /\ Strategy.kind \in {"object", "collection"}
      /\ Source(Strategy) # NoSource /\ fetches \in Nat /\ Running
      /\ UNCHANGED <<givenVars, position, agenda, tree, raws, outcome>>
    BY DEF BeginFetch, Running, Crawling, TurnSound
<1>2. fetches' \in Nat
    BY <1>1 DEF BeginFetch
<1>3. PICK doing \in {"reuse", "root"} : turn' = [turn EXCEPT !.doing = doing, !.source = Source(Strategy)]
    BY DEF BeginFetch
<1>4. \A r : r.uri = Strategy.from /\ r.of = Strategy.of /\ r.from = Source(Strategy) => RightSource(r, Current.owner, Top)
    BY <1>1, SourceIsRight
<1>5. Source(Strategy) \in Paths
    <2>1. PICK r : r = [uri |-> Strategy.from, of |-> Strategy.of, from |-> Source(Strategy)]
        OBVIOUS
    <2> QED
        BY <1>1, <2>1, SourceIsRight
<1> DEFINE source == Source(Strategy)
<1> HIDE DEF source
<1>6. turn' \in Turns
    <2>1. turn' = [turn EXCEPT !.doing = doing, !.source = source] /\ source \in Paths
        BY <1>3, <1>5 DEF source
    <2> QED
        BY <1>1, <2>1 DEF Turns
<1>7. /\ turn'.strategy = turn.strategy /\ turn'.source = Source(Strategy) /\ turn'.doing = doing
      /\ turn'.pages = turn.pages /\ turn'.more = turn.more /\ turn'.records = turn.records /\ turn'.refs = turn.refs
    BY <1>1, <1>3 DEF Turns
<1>8. turn.pages = 0 /\ ~turn.more /\ turn.records = <<>> /\ turn.refs = <<>>
    BY <1>1 DEF Crawling, TurnSound
<1>9. Len(turn'.refs) <= max_members
    <2>1. max_members \in Nat /\ Len(<<>>) = 0
        BY SchemaAssumption DEF SchemaAssumption
    <2> QED
        BY <1>7, <1>8, <2>1
<1> HIDE DEF BeginFetch
<1> QED
    BY <1>1, <1>2, <1>4, <1>5, <1>6, <1>7, <1>8, <1>9, TurnBegins

LEMMA GotObjectKeeps == Crawling /\ GotObject => Crawling'
<1> SUFFICES ASSUME Crawling, GotObject PROVE Crawling'
    OBVIOUS
<1>1. /\ agenda # <<>> /\ Running /\ turn.doing \in {"root", "reuse"} /\ Strategy.kind = "object"
      /\ UNCHANGED <<givenVars, position, raws, fetches>>
    BY DEF GotObject, HasRoot, Running
<1>2. PICK body \in Bodies : Conclude(<<Record(<<turn.strategy, 0>>, body)>>, turn.strategy)
    BY DEF GotObject
<1> DEFINE member == <<turn.strategy, 0>>
<1>3. member \in Nat \X Nat
    BY <1>1, StrategyFacts
<1> HIDE DEF member
<1>4. turn.source \in Paths /\ RightSource(Record(member, body), Current.owner, Top)
    BY <1>1, <1>3 DEF Crawling, TurnSound
<1>5. Record(member, body) \in AnyRecord
    BY <1>1, <1>3, <1>4, ARecord
<1> DEFINE records == <<Record(member, body)>>
<1>6. records \in Seq(AnyRecord) /\ Len(records) <= 1 /\ DOMAIN records = {1} /\ records[1] = Record(member, body)
    BY <1>5
<1>7. \A i \in DOMAIN records : RightSource(records[i], Current.owner, Top)
    <2> HIDE DEF records
    <2> QED
        BY <1>4, <1>6
<1>8. turn.strategy # 0 /\ turn.strategy \in Nat
    BY <1>1, StrategyFacts
<1> HIDE DEF records
<1>9. Conclude(records, turn.strategy)
    BY <1>2 DEF records, member
<1> QED
    BY <1>1, <1>4, <1>6, <1>7, <1>8, <1>9, ConcludeKeeps

LEMMA EndMembersKeeps == Crawling /\ EndMembers => Crawling'
<1> SUFFICES ASSUME Crawling, EndMembers PROVE Crawling'
    OBVIOUS
<1>1. /\ agenda # <<>> /\ Running /\ turn.doing = "members" /\ turn.refs = <<>>
      /\ UNCHANGED <<givenVars, position, raws, fetches>>
      /\ Conclude(turn.records, turn.strategy)
    BY DEF EndMembers, Running
<1>2. /\ turn.records \in Seq(AnyRecord) /\ Len(turn.records) + Len(turn.refs) <= max_members
      /\ \A i \in DOMAIN turn.records : RightSource(turn.records[i], Current.owner, Top)
    BY <1>1 DEF Crawling, TurnSound, Turns
<1>3. Len(turn.records) <= max_members
    <2>1. Len(turn.refs) = 0 /\ Len(turn.records) \in Nat
        BY <1>1, <1>2
    <2> QED
        BY <1>2, <2>1
<1>4. turn.strategy # 0 /\ turn.strategy \in Nat
    BY <1>1, StrategyFacts
<1> QED
    BY <1>1, <1>2, <1>3, <1>4, ConcludeKeeps

LEMMA GotPageKeeps == Crawling /\ GotPage => Crawling'
<1> SUFFICES ASSUME Crawling, GotPage PROVE Crawling'
    OBVIOUS
<1>1. /\ agenda # <<>> /\ turn \in Turns /\ Running /\ turn.doing \in {"page", "root", "reuse"} /\ fetches' \in Nat
      /\ UNCHANGED <<givenVars, position, agenda, tree, raws, outcome>>
    BY DEF GotPage, HasRoot, Running, Crawling, TurnSound
<1>2. PICK found \in MemberLists, next \in BOOLEAN :
         turn' = [turn EXCEPT !.doing = IF next THEN "paging" ELSE "members",
                              !.listed = turn.listed \o found,
                              !.refs = IF next THEN turn.refs \o Refs(found) ELSE Truncated(turn.refs \o Refs(found)),
                              !.pages = turn.pages + 1,
                              !.more = next]
    BY <1>1 DEF GotPage, Turns
<1> DEFINE doing == IF next THEN "paging" ELSE "members"
           listed == turn.listed \o found
           all == turn.refs \o Refs(found)
           refs == IF next THEN all ELSE Truncated(all)
           pages == turn.pages + 1
<1>3. found \in Seq(Kinds) /\ turn.listed \in Seq(Kinds) /\ turn.refs \in Seq(AnyRef)
    BY <1>1, TurnParts, SchemaAssumption DEF SchemaAssumption, Kinds
<1>4. all \in Seq(AnyRef) /\ listed \in Seq(Kinds)
    BY <1>1, <1>3, RefsFacts
<1> HIDE DEF all
<1>5. Truncated(all) \in Seq(AnyRef) /\ Len(Truncated(all)) <= max_members
    BY <1>4, TruncatedFacts
<1>6. refs \in Seq(AnyRef) /\ (~next => Len(refs) <= max_members)
    BY <1>4, <1>5
<1>7. pages \in 0 .. max_pages
    <2>1. turn.doing = "page" => turn.pages < max_pages
        BY <1>1 DEF Crawling, TurnSound
    <2>2. turn.doing # "page" => turn.pages = 0
        BY <1>1 DEF Crawling, TurnSound
    <2>3. turn.pages \in 0 .. max_pages
        BY <1>1, TurnParts
    <2>4. max_pages \in Nat \ {0}
        BY SchemaAssumption DEF SchemaAssumption
    <2> QED
        BY <2>1, <2>2, <2>3, <2>4
<1>8. doing \in {"paging", "members"} /\ (next <=> doing = "paging")
    OBVIOUS
<1>9. turn' = [turn EXCEPT !.doing = doing, !.listed = listed, !.refs = refs, !.pages = pages, !.more = next]
    BY <1>2 DEF all
<1> HIDE DEF doing, listed, refs, pages
<1>10. turn' \in Turns
    BY <1>1, <1>4, <1>6, <1>7, <1>8, <1>9 DEF Turns
<1>11. /\ turn'.strategy = turn.strategy /\ turn'.source = turn.source /\ turn'.doing = doing
       /\ turn'.pages = pages /\ turn'.more = next /\ turn'.records = turn.records /\ turn'.refs = refs
    BY <1>1, <1>9 DEF Turns
<1>12. turn.records = <<>>
    BY <1>1 DEF Crawling, TurnSound
<1>13. turn'.doing = "members" => Len(turn'.records) + Len(turn'.refs) <= max_members
    <2>1. Len(turn'.records) = 0 /\ Len(refs) \in Nat
        BY <1>6, <1>11, <1>12
    <2> QED
        BY <1>6, <1>8, <1>11, <2>1
<1> HIDE DEF GotPage
<1> QED
    BY <1>1, <1>8, <1>10, <1>11, <1>12, <1>13, TurnGoesOn

LEMMA NextPageKeeps == Crawling /\ NextPage => Crawling'
<1> SUFFICES ASSUME Crawling, NextPage PROVE Crawling'
    OBVIOUS
<1>1. /\ agenda # <<>> /\ turn \in Turns /\ Running /\ turn.doing = "paging" /\ fetches' \in Nat
      /\ turn.pages < max_pages /\ turn' = [turn EXCEPT !.doing = "page"]
      /\ UNCHANGED <<givenVars, position, agenda, tree, raws, outcome>>
    BY DEF NextPage, Running, Crawling, TurnSound
<1>2. turn' \in Turns
    BY <1>1 DEF Turns
<1>3. /\ turn'.strategy = turn.strategy /\ turn'.source = turn.source /\ turn'.doing = "page"
      /\ turn'.pages = turn.pages /\ turn'.more = turn.more /\ turn'.records = turn.records /\ turn'.refs = turn.refs
    BY <1>1 DEF Turns
<1>4. turn.records = <<>>
    BY <1>1 DEF Crawling, TurnSound
<1> HIDE DEF NextPage
<1> QED
    BY <1>1, <1>2, <1>3, <1>4, TurnGoesOn

LEMMA FetchMemberKeeps == Crawling /\ FetchMember => Crawling'
<1> SUFFICES ASSUME Crawling, FetchMember PROVE Crawling'
    OBVIOUS
<1>1. /\ agenda # <<>> /\ turn \in Turns /\ Running /\ turn.doing = "members" /\ fetches' \in Nat
      /\ turn.refs # <<>> /\ turn' = [turn EXCEPT !.doing = "member"]
      /\ UNCHANGED <<givenVars, position, agenda, tree, raws, outcome>>
    BY DEF FetchMember, Running, Crawling, TurnSound
<1>2. turn' \in Turns
    BY <1>1 DEF Turns
<1>3. /\ turn'.strategy = turn.strategy /\ turn'.source = turn.source /\ turn'.doing = "member"
      /\ turn'.pages = turn.pages /\ turn'.more = turn.more /\ turn'.records = turn.records /\ turn'.refs = turn.refs
    BY <1>1 DEF Turns
<1>4. ~turn.more /\ Len(turn.records) + Len(turn.refs) <= max_members
    BY <1>1 DEF Crawling, TurnSound
<1> HIDE DEF FetchMember
<1> QED
    BY <1>1, <1>2, <1>3, <1>4, TurnGoesOn

\* One reference less.
LEMMA OneRefLess ==
    ASSUME NEW T, NEW refs \in Seq(T), refs # <<>>
    PROVE  Tail(refs) \in Seq(T) /\ Len(Tail(refs)) = Len(refs) - 1 /\ Len(refs) \in Nat \ {0}
OBVIOUS

LEMMA DropMemberKeeps == Crawling /\ DropMember => Crawling'
<1> SUFFICES ASSUME Crawling, DropMember PROVE Crawling'
    OBVIOUS
<1>1. /\ agenda # <<>> /\ turn \in Turns /\ Running /\ turn.doing = "members" /\ fetches' \in Nat
      /\ turn.refs # <<>> /\ turn' = [turn EXCEPT !.refs = Tail(turn.refs)]
      /\ UNCHANGED <<givenVars, position, agenda, tree, raws, outcome>>
    BY DEF DropMember, Running, Crawling, TurnSound
<1> DEFINE rest == Tail(turn.refs)
<1>2. rest \in Seq(AnyRef) /\ Len(rest) = Len(turn.refs) - 1 /\ Len(turn.refs) \in Nat \ {0}
    BY <1>1, TurnParts, OneRefLess
<1> HIDE DEF rest
<1>3. turn' \in Turns
    <2>1. turn' = [turn EXCEPT !.refs = rest]
        BY <1>1 DEF rest
    <2> QED
        BY <1>1, <1>2, <2>1 DEF Turns
<1>4. /\ turn'.strategy = turn.strategy /\ turn'.source = turn.source /\ turn'.doing = turn.doing
      /\ turn'.pages = turn.pages /\ turn'.more = turn.more /\ turn'.records = turn.records /\ turn'.refs = rest
    BY <1>1 DEF Turns, rest
<1>5. ~turn.more /\ Len(turn.records) + Len(turn.refs) <= max_members
    BY <1>1 DEF Crawling, TurnSound
<1>6. Len(turn'.records) + Len(turn'.refs) <= max_members
    <2>1. Len(turn.records) \in Nat /\ max_members \in Nat
        BY <1>1, TurnParts, SchemaAssumption DEF SchemaAssumption
    <2>2. Len(turn'.records) = Len(turn.records) /\ Len(turn'.refs) = Len(rest)
        BY <1>4
    <2>3. \A a, b, c, m \in Nat : c = b - 1 /\ b # 0 /\ a + b <= m => a + c <= m
        OBVIOUS
    <2>4. Len(rest) \in Nat
        BY <1>2
    <2>5. Len(turn.records) + Len(rest) <= max_members
        BY <1>2, <1>5, <2>1, <2>3, <2>4
    <2> QED
        BY <2>2, <2>5
<1> HIDE DEF DropMember
<1> QED
    BY <1>1, <1>3, <1>4, <1>5, <1>6, TurnGoesOn

LEMMA GotMemberKeeps == Crawling /\ GotMember => Crawling'
<1> SUFFICES ASSUME Crawling, GotMember PROVE Crawling'
    OBVIOUS
<1>1. /\ agenda # <<>> /\ turn \in Turns /\ Running /\ turn.doing \in {"member", "members"} /\ fetches' \in Nat
      /\ turn.doing = "members" => turn.refs # <<>>
      /\ UNCHANGED <<givenVars, position, agenda, tree, raws, outcome>>
    BY DEF GotMember, Running, Crawling, TurnSound
<1>2. PICK body \in Bodies :
         turn' = [turn EXCEPT !.doing = "members", !.refs = Tail(turn.refs),
                              !.records = Append(turn.records, Record(Head(turn.refs).member, body))]
    BY DEF GotMember, Keep
<1> DEFINE member == Head(turn.refs).member
<1>3. /\ turn.refs # <<>> /\ ~turn.more /\ Len(turn.records) + Len(turn.refs) <= max_members
      /\ turn.source \in Paths /\ Strategy.kind # "telemetry-reports"
    BY <1>1 DEF Crawling, TurnSound
<1>4. Record(member, body) \in AnyRecord /\ turn.records \in Seq(AnyRecord) /\ member \in Nat \X Nat
    <2>1. turn.refs \in Seq(AnyRef)
        BY <1>1, TurnParts
    <2>2. Head(turn.refs) \in AnyRef
        BY <1>3, <2>1
    <2>3. member \in Nat \X Nat
        BY <2>2 DEF AnyRef
    <2> HIDE DEF member
    <2> QED
        BY <1>1, <1>3, <2>3, ARecord, TurnParts
<1> HIDE DEF member
<1> DEFINE rest == Tail(turn.refs)
           records == Append(turn.records, Record(member, body))
<1>5. rest \in Seq(AnyRef) /\ Len(rest) = Len(turn.refs) - 1 /\ Len(turn.refs) \in Nat \ {0}
    BY <1>1, <1>3, TurnParts, OneRefLess
<1>6. /\ records \in Seq(AnyRecord) /\ Len(records) = Len(turn.records) + 1 /\ Len(turn.records) \in Nat
      /\ \A i \in DOMAIN records : (i \in DOMAIN turn.records /\ records[i] = turn.records[i]) \/ records[i] = Record(member, body)
    BY <1>4
<1> HIDE DEF rest, records
<1>7. turn' = [turn EXCEPT !.doing = "members", !.refs = rest, !.records = records]
    BY <1>2 DEF rest, records, member
<1>8. turn' \in Turns
    BY <1>1, <1>5, <1>6, <1>7 DEF Turns
<1>9. /\ turn'.strategy = turn.strategy /\ turn'.source = turn.source /\ turn'.doing = "members"
      /\ turn'.pages = turn.pages /\ turn'.more = turn.more /\ turn'.records = records /\ turn'.refs = rest
    BY <1>1, <1>7 DEF Turns
<1>10. Len(turn'.records) + Len(turn'.refs) <= max_members
    <2>1. max_members \in Nat
        BY SchemaAssumption DEF SchemaAssumption
    <2>2. Len(turn'.records) = Len(records) /\ Len(turn'.refs) = Len(rest)
        BY <1>9
    <2>3. \A a, b, c, d, m \in Nat : c = b - 1 /\ b # 0 /\ d = a + 1 /\ a + b <= m => d + c <= m
        OBVIOUS
    <2>4. Len(rest) \in Nat /\ Len(records) \in Nat
        BY <1>5, <1>6
    <2>5. Len(rest) = Len(turn.refs) - 1 /\ Len(turn.refs) # 0 /\ Len(turn.refs) \in Nat
        BY <1>5
    <2>6. Len(records) = Len(turn.records) + 1 /\ Len(turn.records) \in Nat
        BY <1>6
    <2>7. Len(turn.records) + Len(turn.refs) <= max_members
        BY <1>3
    <2>8. Len(records) + Len(rest) <= max_members
        BY <2>1, <2>3, <2>4, <2>5, <2>6, <2>7
    <2> QED
        BY <2>2, <2>8
<1>11. \A i \in DOMAIN turn'.records :
          \/ \E j \in DOMAIN turn.records : turn'.records[i] = turn.records[j]
          \/ \E m \in Nat \X Nat, b \in Bodies : turn'.records[i] = Record(m, b)
    BY <1>4, <1>6, <1>9
<1> HIDE DEF GotMember
<1> QED
    BY <1>1, <1>3, <1>8, <1>9, <1>10, <1>11, TurnGoesOn

LEMMA FetchRaisesKeeps == Crawling /\ FetchRaises => Crawling'
<1> SUFFICES ASSUME Crawling, FetchRaises PROVE Crawling'
    OBVIOUS
<1>1. outcome' = "aborted" /\ outcome = "running" /\ UNCHANGED <<givenVars, position, agenda, turn, tree, raws, fetches>>
    BY DEF FetchRaises, Running
<1>2. TreeSound' /\ AgendaSound'
    BY <1>1, StillSound DEF Crawling
<1>3. PositionSound'
    BY <1>1 DEF Crawling, PositionSound, Top, givenVars
<1>4. TurnSound'
    BY <1>1, TurnStays
<1> QED
    BY <1>1, <1>2, <1>3, <1>4 DEF Crawling

-----------------------------------------------------------------------------
(* The resources of the lane                                               *)

\* A resource of the lane, as it is begun.
LEMMA TopLevelIsAwaited ==
    ASSUME NEW name \in DOMAIN Resources
    PROVE  /\ TopLevel(name, bootstrap_ctx) \in Executions /\ Awaited(TopLevel(name, bootstrap_ctx))
           /\ TopLevel(name, bootstrap_ctx).owner = <<>> /\ TopLevel(name, bootstrap_ctx).name = name
           /\ TopLevel(name, bootstrap_ctx).def \in Definitions
<1> DEFINE context == [c \in Captures |-> IF c \in bootstrap_ctx THEN FromBootstrap ELSE NoSource]
           x == Execution(<<>>, name, Resources[name], context, 0)
<1>1. TopLevel(name, bootstrap_ctx) = x
    BY DEF TopLevel
<1>2. context \in [Captures -> Paths \cup {NoSource}]
    BY DEF FromBootstrap, Paths
<1>3. Line(<<>>) = {} /\ <<>> \in Paths
    BY DEF Paths, Line
<1>4. Bound(context, <<>>)
    BY <1>3 DEF Bound
<1>5. Resources[name] \in Definitions /\ name \in AllNames
    BY SchemaAssumption DEF SchemaAssumption, AllNames
<1> HIDE DEF context
<1>6. x \in Executions
    BY <1>2, <1>3, <1>5 DEF Executions, Execution
<1>7. x.owner = <<>> /\ x.name = name /\ x.def = Resources[name] /\ x.depth = 0 /\ x.context = context
    BY DEF Execution
<1> HIDE DEF x
<1>8. Awaited(x)
    BY <1>3, <1>4, <1>7 DEF Awaited, Belongs, DefOf
<1> QED
    BY <1>1, <1>5, <1>6, <1>7, <1>8

\* The turn that begins with it.
LEMMA TurnIsFresh ==
    ASSUME NEW x \in Executions, agenda' = <<x>>, turn' = Fresh(1)
    PROVE  TurnSound'
<1>1. agenda' # <<>> /\ Current' = x
    BY DEF Current
<1>2. x.def \in Definitions
    BY DEF Executions
<1>3. 1 \in DOMAIN Current'.def.strategies
    BY <1>1, <1>2, FirstStrategy
<1>4. /\ turn' \in Turns /\ turn'.doing = "choosing" /\ turn'.strategy = 1
      /\ turn'.pages = 0 /\ ~turn'.more /\ turn'.records = <<>> /\ turn'.refs = <<>>
    BY FreshTurn, SchemaAssumption
<1>5. \A i : i \notin DOMAIN turn'.records
    BY <1>4
<1> QED
    BY <1>1, <1>3, <1>4, <1>5 DEF TurnSound

\* The agenda when a resource of the lane is begun: nothing else is awaited.
LEMMA AgendaBegins ==
    ASSUME NEW x \in Executions, Awaited(x)', agenda' = <<x>>,
           \A p \in Records' : Len(p) <= max_depth => \A name \in ChildNames(DefAt(p)) : Entry(p, name) \in DOMAIN tree'
    PROVE  AgendaSound'
<1>1. agenda' \in Seq(Executions) /\ DOMAIN agenda' = {1} /\ agenda'[1] = x
    OBVIOUS
<1>2. ASSUME NEW i \in DOMAIN agenda'
      PROVE  Awaited(agenda[i])'
    <2>1. agenda'[i] = x
        BY <1>1
    <2> QED
        BY <2>1 DEF Awaited, Belongs, DefOf, Bound
<1>3. \A i, j \in DOMAIN agenda' : i = j
    BY <1>1
<1> QED
    BY <1>1, <1>2, <1>3 DEF AgendaSound

\* The records of resources that are all executed have all their children.
LEMMA NothingIsAwaited ==
    ASSUME AgendaSound, agenda = <<>>
    PROVE  \A p \in Records : Len(p) <= max_depth => \A name \in ChildNames(DefAt(p)) : Entry(p, name) \in DOMAIN tree
<1>1. \A i : i \notin DOMAIN agenda
    OBVIOUS
<1> QED
    BY <1>1 DEF AgendaSound

LEMMA NextResourceKeeps == Crawling /\ NextResource => Crawling'
<1> SUFFICES ASSUME Crawling, NextResource PROVE Crawling'
    OBVIOUS
<1> DEFINE LR == LaneResources[lane]
           name == LR[position]
<1>1. /\ outcome = "running" /\ agenda = <<>> /\ fetches' \in Nat
      /\ raws' = IF tree[Entry(<<>>, name)].records = <<>> THEN raws
                 ELSE [n \in DOMAIN raws \cup {name} |-> IF n = name THEN tree[Entry(<<>>, name)].records[1].body ELSE raws[n]]
      /\ UNCHANGED <<givenVars, turn, tree>>
    BY DEF NextResource, Crawling
<1>2. /\ LR \in Seq(DOMAIN Resources) /\ lane \in {"fast", "slow"} /\ position \in DOMAIN LR
      /\ \A i \in DOMAIN LR : i < position => Entry(<<>>, LR[i]) \in DOMAIN tree
      /\ Entry(<<>>, name) \in DOMAIN tree
      /\ DOMAIN raws \subseteq {LR[i] : i \in {j \in DOMAIN LR : j < position}}
    BY <1>1, SchemaAssumption DEF Crawling, PositionSound, Top, SchemaAssumption
<1>3. TreeSound'
    BY <1>1, TreeStays DEF Crawling
<1>4. turn' = Fresh(1) /\ turn' \in Turns
    BY <1>1 DEF Crawling, TurnSound
<1>5. \A p \in Records' : Len(p) <= max_depth => \A n \in ChildNames(DefAt(p)) : Entry(p, n) \in DOMAIN tree'
    <2>1. Records' = Records
        BY <1>1 DEF Records
    <2> QED
        BY <1>1, <2>1, NothingIsAwaited DEF Crawling
<1>6. DOMAIN raws' \subseteq DOMAIN raws \cup {name}
    BY <1>1
<1>7. position \in Nat /\ Len(LR) \in Nat /\ DOMAIN LR = 1 .. Len(LR)
    BY <1>2
<1>8. CASE position < Len(LR)
    <2> DEFINE next == LR[position + 1]
    <2>1. /\ position' = position + 1 /\ outcome' = "running"
          /\ agenda' = <<TopLevel(next, bootstrap_ctx)>>
        BY <1>1, <1>8 DEF NextResource
    <2>2. position + 1 \in DOMAIN LR /\ next \in DOMAIN Resources
        BY <1>2, <1>7, <1>8
    <2> HIDE DEF next
    <2>3. PICK x : x = TopLevel(next, bootstrap_ctx)
        OBVIOUS
    <2>4. x \in Executions /\ Awaited(x) /\ x.owner = <<>> /\ x.name = next /\ x.def \in Definitions
        BY <2>2, <2>3, TopLevelIsAwaited
    <2>5. agenda' = <<x>> /\ bootstrap_ctx' = bootstrap_ctx
        BY <1>1, <2>1, <2>3 DEF givenVars
    <2>6. Awaited(x)'
        BY <2>4, <2>5, AwaitedStays DEF Line
    <2>7. AgendaSound'
        BY <1>5, <2>4, <2>5, <2>6, AgendaBegins
    <2>8. PositionSound'
        <3>1. lane' = lane /\ LR' = LR
            BY <1>1 DEF givenVars
        <3>2. Top' = next
            BY <2>1, <3>1 DEF Top, next
        <3>3. \A i \in DOMAIN LR : i < position + 1 => Entry(<<>>, LR[i]) \in DOMAIN tree'
            BY <1>1, <1>2, <1>7
        <3>4. \A i \in DOMAIN agenda' : agenda'[i].owner = <<>> /\ Len(agenda') = 1 /\ agenda'[i].name = next
            BY <2>4, <2>5
        <3>5. agenda' # <<>> /\ agenda'[1].owner = <<>>
            BY <2>4, <2>5
        <3>6. DOMAIN raws' \subseteq {LR[i] : i \in {j \in DOMAIN LR : j < position + 1}}
            BY <1>2, <1>6, <1>7
        <3> HIDE DEF LR
        <3> QED
            BY <1>2, <2>1, <2>2, <3>1, <3>2, <3>3, <3>4, <3>5, <3>6 DEF PositionSound, LR
    <2>9. TurnSound'
        BY <1>4, <2>4, <2>5, TurnIsFresh
    <2> QED
        BY <1>1, <1>3, <2>1, <2>7, <2>8, <2>9 DEF Crawling
<1>9. CASE ~(position < Len(LR))
    <2>1. outcome' = "done" /\ UNCHANGED <<position, agenda>>
        BY <1>1, <1>9 DEF NextResource
    <2>2. AgendaSound'
        BY <1>1, <2>1, StillSound DEF Crawling
    <2>3. PositionSound'
        <3>1. lane' = lane /\ LR' = LR /\ position' = position /\ agenda' = <<>> /\ tree' = tree
            BY <1>1, <2>1 DEF givenVars
        <3>2. position = Len(LR)
            BY <1>2, <1>7, <1>9
        <3>3. DOMAIN raws' \subseteq {LR[i] : i \in {j \in DOMAIN LR : j < position \/ j = position}}
            BY <1>2, <1>6, <1>7
        <3>4. \A i \in DOMAIN agenda' : FALSE
            BY <3>1
        <3>5. Top' = name
            BY <3>1 DEF Top
        <3> HIDE DEF LR, name
        <3> QED
            BY <1>2, <2>1, <3>1, <3>2, <3>3, <3>4, <3>5 DEF PositionSound, LR
    <2>4. TurnSound'
        BY <1>1, <2>1, TurnStays
    <2> QED
        BY <1>1, <1>3, <2>1, <2>2, <2>3, <2>4 DEF Crawling
<1> QED
    BY <1>8, <1>9

LEMMA CrawlStepEstablishes ==
    ASSUME Crawling, CrawlStep
    PROVE  Crawling'
BY SkipStrategyKeeps, ReadInlineKeeps, BeginFetchKeeps, WhenMismatchKeeps, GotObjectKeeps, GotPageKeeps, NextPageKeeps,
   TooManyPagesKeeps, FetchMemberKeeps, GotMemberKeeps, DropMemberKeeps, EndMembersKeeps, FetchRaisesKeeps, NextResourceKeeps
   DEF CrawlStep

\* A crawl begins with the first resource of the lane, and a lane without resources
\* is collected at once.
LEMMA CrawlBeginsEstablishes ==
    ASSUME lane \in {"fast", "slow"}, NEW reuse, CrawlBegins(lane, bootstrap_ctx, reuse), UNCHANGED givenVars
    PROVE  IF LaneResources[lane] = <<>> THEN NothingToCrawl' ELSE Crawling' /\ outcome' = "running"
<1> DEFINE LR == LaneResources[lane]
<1>1. /\ position' = 1 /\ turn' = Fresh(1) /\ fetches' = 0
      /\ tree' = [e \in {} |-> {}] /\ raws' = [n \in {} |-> {}]
      /\ agenda' = IF LR = <<>> THEN <<>> ELSE <<TopLevel(LR[1], bootstrap_ctx)>>
      /\ outcome' = IF LR = <<>> THEN "done" ELSE "running"
      /\ lane' = lane /\ bootstrap_ctx' = bootstrap_ctx
    BY DEF CrawlBegins, givenVars
<1>2. CASE LR = <<>>
    BY <1>1, <1>2 DEF NothingToCrawl, Untouched
<1>3. CASE LR # <<>>
    <2>1. LR \in Seq(DOMAIN Resources)
        BY SchemaAssumption DEF SchemaAssumption
    <2>2. 1 \in DOMAIN LR /\ LR[1] \in DOMAIN Resources
        BY <1>3, <2>1
    <2>3. PICK x : x = TopLevel(LR[1], bootstrap_ctx)
        OBVIOUS
    <2>4. x \in Executions /\ Awaited(x) /\ x.owner = <<>> /\ x.name = LR[1] /\ x.def \in Definitions
        BY <2>2, <2>3, TopLevelIsAwaited
    <2>5. agenda' = <<x>> /\ outcome' = "running"
        BY <1>1, <1>3, <2>3
    <2>6. Awaited(x)'
        BY <1>1, <2>4, AwaitedStays DEF Line
    <2>7. DOMAIN tree' = {} /\ DOMAIN raws' = {}
        BY <1>1
    <2>8. Records' = {}
        BY <2>7 DEF Records
    <2>9. AgendaSound'
        BY <2>4, <2>5, <2>6, <2>8, AgendaBegins
    <2>10. TreeSound'
        BY <2>7, <2>8 DEF TreeSound
    <2>11. TurnSound'
        BY <1>1, <2>4, <2>5, TurnIsFresh
    <2>12. PositionSound'
        <3>1. Top' = LR[1] /\ LaneResources[lane'] = LR
            BY <1>1 DEF Top
        <3>2. \A i \in DOMAIN LR : ~(i < 1)
            BY <2>1
        <3>3. \A i \in DOMAIN agenda' : agenda'[i].owner = <<>> /\ Len(agenda') = 1 /\ agenda'[i].name = LR[1]
            BY <2>4, <2>5
        <3>4. agenda' # <<>> /\ agenda'[1].owner = <<>>
            BY <2>4, <2>5
        <3> HIDE DEF LR
        <3> QED
            BY <1>1, <2>2, <2>5, <2>7, <3>1, <3>2, <3>3, <3>4 DEF PositionSound
    <2> QED
        BY <1>1, <1>3, <2>5, <2>9, <2>10, <2>11, <2>12 DEF Crawling
<1> QED
    BY <1>2, <1>3

\* While nothing is collected.
LEMMA NoCrawlEstablishes ==
    /\ CrawlInit => Untouched /\ outcome = "none"
    /\ NoCrawl => Untouched' /\ outcome' = "none"
BY DEF CrawlInit, NoCrawl, Untouched

\* A crawl that nothing touches stays what it is.
LEMMA CrawlStays ==
    ASSUME UNCHANGED <<givenVars, crawlVars>>
    PROVE  (Crawling => Crawling') /\ (NothingToCrawl => NothingToCrawl')
<1>1. Crawling => Crawling'
    <2> SUFFICES ASSUME Crawling PROVE Crawling'
        OBVIOUS
    <2>1. fetches' \in Nat /\ TurnSound'
        BY TurnStays DEF Crawling, crawlVars
    <2> QED
        BY <2>1, TurnMoves DEF crawlVars
<1>2. NothingToCrawl => NothingToCrawl'
    BY DEF NothingToCrawl, Untouched, crawlVars, givenVars
<1> QED
    BY <1>1, <1>2

-----------------------------------------------------------------------------
(* What follows from the invariant                                         *)

LEMMA NothingIsThere ==
    ASSUME NothingToCrawl
    PROVE  DOMAIN tree = {} /\ Records = {}
<1>1. DOMAIN tree = {}
    BY DEF NothingToCrawl, Untouched
<1> QED
    BY <1>1 DEF Records

LEMMA LineageFollows == CrawlInv => LineageIsKept
<1>1. CASE NothingToCrawl
    BY <1>1, NothingIsThere DEF LineageIsKept
<1>2. CASE Crawling
    BY <1>2 DEF LineageIsKept, Crawling, TreeSound
<1> QED
    BY <1>1, <1>2 DEF CrawlInv

\* When the job is done, every record has the children it may have, no others.
LEMMA ChildrenAreThere ==
    ASSUME TreeSound, AgendaSound, agenda = <<>>, NEW p \in Records
    PROVE  {e[2] : e \in {d \in DOMAIN tree : d[1] = p}} = IF Len(p) <= max_depth THEN ChildNames(DefAt(p)) ELSE {}
<1> DEFINE there == {e[2] : e \in {d \in DOMAIN tree : d[1] = p}}
           may == IF Len(p) <= max_depth THEN ChildNames(DefAt(p)) ELSE {}
<1>1. p # <<>>
    BY RecordFacts
<1>2. ASSUME NEW name \in there
      PROVE  name \in may
    <2>1. PICK e \in DOMAIN tree : e[1] = p /\ e[2] = name
        OBVIOUS
    <2>2. Belongs(p, name)
        BY <2>1 DEF TreeSound
    <2> QED
        BY <1>1, <2>2 DEF Belongs
<1>3. ASSUME NEW name \in may
      PROVE  name \in there
    <2>1. Entry(p, name) \in DOMAIN tree
        BY <1>3, NothingIsAwaited
    <2>2. Entry(p, name)[1] = p /\ Entry(p, name)[2] = name
        BY DEF Entry
    <2> QED
        BY <2>1, <2>2
<1> HIDE DEF there, may
<1>4. there = may
    BY <1>2, <1>3
<1> QED
    BY <1>4 DEF there, may

\* A path is among those it is below.
LEMMA PathIsInLine ==
    ASSUME NEW S, NEW o \in Seq(S), o # <<>>
    PROVE  o \in Line(o)
<1>1. Len(o) \in 1 .. Len(o) /\ SubSeq(o, 1, Len(o)) = o
    OBVIOUS
<1> QED
    BY <1>1 DEF Line

LEMMA CrawlTypesFollow == CrawlInv => CrawlTypeOK
<1>1. CASE NothingToCrawl
    <2>1. turn = Fresh(1) /\ turn.doing = "choosing" /\ turn.pages = 0
        BY <1>1, FreshTurn, SchemaAssumption DEF NothingToCrawl, Untouched
    <2>2. 0 \in 0 .. max_pages
        BY SchemaAssumption DEF SchemaAssumption
    <2>3. DOMAIN raws = {}
        BY <1>1 DEF NothingToCrawl, Untouched
    <2> QED
        BY <1>1, <2>1, <2>2, <2>3, NothingIsThere DEF CrawlTypeOK, NothingToCrawl, Untouched
<1>2. CASE Crawling
    <2>1. TreeSound /\ PositionSound /\ TurnSound
        BY <1>2 DEF Crawling
    <2>2. LaneResources[lane] \in Seq(DOMAIN Resources)
        BY <2>1, SchemaAssumption DEF PositionSound, SchemaAssumption
    <2>3. position \in Nat /\ DOMAIN raws \subseteq DOMAIN Resources
        BY <2>1, <2>2 DEF PositionSound
    <2>4. /\ turn.doing \in {"choosing", "root", "reuse", "paging", "page", "members", "member"}
          /\ turn.pages \in 0 .. max_pages
          /\ agenda # <<>> => turn.strategy \in DOMAIN Current.def.strategies
        BY <2>1 DEF TurnSound, Turns
    <2>5. ASSUME NEW e \in DOMAIN tree, e[1] # <<>>
          PROVE  e[1] \in Records
        <3>1. e[1] \in Paths /\ Line(e[1]) \subseteq Records
            BY <2>1 DEF TreeSound
        <3> QED
            BY <2>5, <3>1, PathIsInLine DEF Paths
    <2> QED
        BY <1>2, <2>3, <2>4, <2>5 DEF CrawlTypeOK, Crawling
<1> QED
    BY <1>1, <1>2 DEF CrawlInv

-----------------------------------------------------------------------------
(* Sums                                                                    *)

\* The sum up to every place of a sequence.
Sums(s, f) == f \in [0 .. Len(s) -> Nat] /\ f[0] = 0 /\ \A i \in 1 .. Len(s) : f[i] = f[i - 1] + s[i]

LEMMA TotalIsSummed ==
    ASSUME NEW s \in Seq(Nat)
    PROVE  \E f : Sums(s, f) /\ Total(s) = f[Len(s)]
<1> DEFINE n == Len(s)
           Def(f) == f = [i \in 0 .. n |-> IF i = 0 THEN 0 ELSE f[i - 1] + s[i]]
           F == CHOOSE f : Def(f)
           G == [p \in Nat \X Nat |-> IF p[1] \in 1 .. n THEN p[2] + s[p[1]] ELSE 0]
<1>1. n \in Nat /\ \A i \in 1 .. n : s[i] \in Nat
    OBVIOUS
<1>2. Total(s) = F[n]
    BY DEF Total
<1> HIDE DEF n
<1>3. G \in [Nat \X Nat -> Nat]
    BY <1>1
<1>4. PICK g : g \in [0 .. n -> Nat] /\ g[0] = 0 /\ \A i \in 1 .. n : g[i] = G[<<i, g[i - 1]>>]
    <2>1. 0 \in Nat
        OBVIOUS
    <2> HIDE DEF G
    <2>2. \E g : Follows(g, n, Nat, 0, G)
        BY <1>1, <1>3, <2>1, Recursion
    <2> QED
        BY <2>2 DEF Follows
<1>5. \A i \in 0 .. n : g[i] = IF i = 0 THEN 0 ELSE g[i - 1] + s[i]
    <2> TAKE i \in 0 .. n
    <2>1. CASE i # 0
        <3>1. i \in 1 .. n /\ i - 1 \in 0 .. n /\ i \in Nat
            BY <1>1, <2>1
        <3>2. g[i - 1] \in Nat
            BY <1>4, <3>1
        <3>3. G[<<i, g[i - 1]>>] = g[i - 1] + s[i]
            BY <3>1, <3>2
        <3> HIDE DEF G
        <3> QED
            BY <1>4, <2>1, <3>1, <3>3
    <2> QED
        BY <1>4, <2>1
<1>6. Def(g)
    <2>1. g = [i \in 0 .. n |-> g[i]]
        BY <1>4
    <2> QED
        BY <1>5, <2>1
<1>7. Def(F)
    <2> HIDE DEF Def
    <2> QED
        BY <1>6
<1> HIDE DEF F, G
<1>8. F[0] = 0 /\ \A i \in 1 .. n : F[i] = F[i - 1] + s[i]
    <2>1. 0 \in 0 .. n /\ \A i \in 1 .. n : i \in 0 .. n /\ i # 0
        BY <1>1
    <2> QED
        BY <1>7, <2>1
<1>9. \A i \in 0 .. n : F[i] \in Nat
    <2> DEFINE bad == {i \in 0 .. n : F[i] \notin Nat}
    <2>1. SUFFICES ASSUME bad # {} PROVE FALSE
        OBVIOUS
    <2>2. bad \in SUBSET Nat
        BY <1>1
    <2>3. PICK m \in bad : \A k \in bad : m <= k
        <3> HIDE DEF bad
        <3> QED
            BY <2>1, <2>2, LeastNat
    <2>4. m \in 0 .. n /\ F[m] \notin Nat
        OBVIOUS
    <2>5. m # 0
        BY <1>8, <2>4
    <2>6. m \in 1 .. n /\ m - 1 \in 0 .. n
        BY <1>1, <2>4, <2>5
    <2>7. m - 1 \notin bad
        <3> HIDE DEF bad
        <3> QED
            BY <1>1, <2>3, <2>6
    <2>8. F[m - 1] \in Nat
        BY <2>6, <2>7
    <2>9. F[m] = F[m - 1] + s[m] /\ s[m] \in Nat
        BY <1>1, <1>8, <2>6
    <2> HIDE DEF bad
    <2> QED
        BY <2>4, <2>8, <2>9
<1>10. F \in [0 .. n -> Nat]
    <2>1. F = [i \in 0 .. n |-> F[i]]
        <3>1. DOMAIN F = 0 .. n
            BY <1>7
        <3> QED
            BY <1>7
    <2> HIDE DEF Def
    <2> QED
        BY <1>9, <2>1
<1>11. Sums(s, F)
    BY <1>8, <1>10 DEF Sums, n
<1> QED
    BY <1>2, <1>11 DEF n

\* Sums of what two sequences have in common.
LEMMA SumsAgree ==
    ASSUME NEW s \in Seq(Nat), NEW t \in Seq(Nat), NEW m \in Nat, m <= Len(s), m <= Len(t),
           \A i \in 1 .. m : s[i] = t[i], NEW f, NEW g, Sums(s, f), Sums(t, g)
    PROVE  f[m] = g[m] /\ f[m] \in Nat
<1> DEFINE bad == {i \in 0 .. m : f[i] # g[i]}
<1>1. ASSUME bad # {}
      PROVE  FALSE
    <2>1. bad \in SUBSET Nat
        OBVIOUS
    <2>2. PICK k \in bad : \A i \in bad : k <= i
        <3> HIDE DEF bad
        <3> QED
            BY <1>1, <2>1, LeastNat
    <2>3. k \in 0 .. m /\ f[k] # g[k]
        OBVIOUS
    <2>4. f[0] = 0 /\ g[0] = 0
        BY DEF Sums
    <2>5. k \in 1 .. m /\ k - 1 \in 0 .. m /\ k - 1 < k
        BY <2>3, <2>4
    <2>6. f[k - 1] = g[k - 1]
        <3>1. k - 1 \notin bad
            <4> HIDE DEF bad
            <4> QED
                BY <2>2, <2>3, <2>5
        <3> QED
            BY <2>5, <3>1
    <2>7. k \in 1 .. Len(s) /\ k \in 1 .. Len(t)
        BY <2>5
    <2>8. f[k] = f[k - 1] + s[k] /\ g[k] = g[k - 1] + t[k]
        BY <2>7 DEF Sums
    <2> HIDE DEF bad
    <2> QED
        BY <2>3, <2>5, <2>6, <2>8
<1>2. m \in 0 .. m /\ m \in 0 .. Len(s)
    OBVIOUS
<1>3. f[m] \in Nat
    BY <1>2 DEF Sums
<1> QED
    BY <1>1, <1>2, <1>3

LEMMA TotalFacts ==
    ASSUME NEW s \in Seq(Nat), NEW x \in Nat
    PROVE  Total(<<>>) = 0 /\ Total(s) \in Nat /\ Total(Append(s, x)) = Total(s) + x
<1>1. Total(<<>>) = 0
    <2>1. <<>> \in Seq(Nat) /\ Len(<<>>) = 0
        OBVIOUS
    <2>2. PICK f : Sums(<<>>, f) /\ Total(<<>>) = f[Len(<<>>)]
        BY <2>1, TotalIsSummed
    <2> QED
        BY <2>1, <2>2 DEF Sums
<1>2. PICK f : Sums(s, f) /\ Total(s) = f[Len(s)]
    BY TotalIsSummed
<1> DEFINE t == Append(s, x)
           n == Len(s)
<1>3. t \in Seq(Nat) /\ Len(t) = n + 1 /\ t[n + 1] = x /\ n \in Nat /\ \A i \in 1 .. n : s[i] = t[i]
    OBVIOUS
<1> HIDE DEF t
<1>4. PICK g : Sums(t, g) /\ Total(t) = g[Len(t)]
    BY <1>3, TotalIsSummed
<1>5. f[n] = g[n] /\ f[n] \in Nat
    <2>1. n <= Len(s) /\ n <= Len(t)
        BY <1>3
    <2> QED
        BY <1>2, <1>3, <1>4, <2>1, SumsAgree
<1>6. g[n + 1] = g[n] + x
    <2>1. n + 1 \in 1 .. Len(t) /\ n + 1 - 1 = n
        BY <1>3
    <2> QED
        BY <1>3, <1>4, <2>1 DEF Sums
<1> QED
    BY <1>1, <1>2, <1>3, <1>4, <1>5, <1>6 DEF t

LEMMA TotalJoined ==
    ASSUME NEW s \in Seq(Nat), NEW t \in Seq(Nat)
    PROVE  Total(s \o t) = Total(s) + Total(t)
<1> DEFINE P == {u \in Seq(Nat) : Total(s \o u) = Total(s) + Total(u)}
<1>1. <<>> \in P
    <2>1. s \o <<>> = s /\ <<>> \in Seq(Nat)
        OBVIOUS
    <2>2. Total(<<>>) = 0 /\ Total(s) \in Nat
        BY TotalFacts
    <2> QED
        BY <2>1, <2>2
<1>2. ASSUME NEW u \in Seq(Nat), NEW x \in Nat, u \in P
      PROVE  Append(u, x) \in P
    <2>1. s \o u \in Seq(Nat) /\ s \o Append(u, x) = Append(s \o u, x) /\ Append(u, x) \in Seq(Nat)
        OBVIOUS
    <2>2. Total(s \o u) = Total(s) + Total(u)
        BY <1>2
    <2>3. Total(Append(s \o u, x)) = Total(s \o u) + x /\ Total(Append(u, x)) = Total(u) + x
        BY <2>1, TotalFacts
    <2>4. Total(s) \in Nat /\ Total(u) \in Nat
        BY TotalFacts
    <2>5. Total(s \o Append(u, x)) = Total(s) + Total(Append(u, x))
        BY <2>1, <2>2, <2>3, <2>4
    <2> QED
        BY <2>1, <2>5
<1> HIDE DEF P
<1>3. t \in P
    BY <1>1, <1>2, SequenceInduction
<1> QED
    BY <1>3 DEF P

\* What the members of a sequence come to.
Mapped(c, s) == [i \in DOMAIN s |-> c[s[i]]]

LEMMA MappedFacts ==
    ASSUME NEW T, NEW c \in [T -> Nat], NEW s \in Seq(T), NEW t \in Seq(T)
    PROVE  /\ Mapped(c, s) \in Seq(Nat)
           /\ Mapped(c, <<>>) = <<>>
           /\ Mapped(c, s \o t) = Mapped(c, s) \o Mapped(c, t)
<1>1. Mapped(c, s) \in Seq(Nat) /\ Mapped(c, t) \in Seq(Nat) /\ Len(Mapped(c, s)) = Len(s) /\ Len(Mapped(c, t)) = Len(t)
    BY DEF Mapped
<1>2. Mapped(c, <<>>) = <<>>
    BY DEF Mapped
<1>3. PICK u, a, b : u = s \o t /\ a = Mapped(c, s) /\ b = Mapped(c, t)
    OBVIOUS
<1>4. a \in Seq(Nat) /\ b \in Seq(Nat) /\ Len(a) = Len(s) /\ Len(b) = Len(t)
    BY <1>1, <1>3
<1>5. PICK v : v = a \o b
    OBVIOUS
<1>6. /\ v \in Seq(Nat) /\ DOMAIN v = 1 .. Len(s) + Len(t)
      /\ u \in Seq(T) /\ DOMAIN u = 1 .. Len(s) + Len(t)
    <2>1. v \in Seq(Nat) /\ Len(v) = Len(a) + Len(b)
        <3>1. \A p \in Seq(Nat) : \A q \in Seq(Nat) : p \o q \in Seq(Nat) /\ Len(p \o q) = Len(p) + Len(q)
            OBVIOUS
        <3> QED
            BY <1>4, <1>5, <3>1
    <2>2. u \in Seq(T) /\ Len(u) = Len(s) + Len(t)
        BY <1>3
    <2> QED
        BY <1>4, <2>1, <2>2
<1>7. \A i \in 1 .. Len(s) + Len(t) : c[u[i]] = v[i]
    <2> TAKE i \in 1 .. Len(s) + Len(t)
    <2>1. CASE i <= Len(s)
        <3>1. u[i] = s[i] /\ v[i] = a[i] /\ i \in DOMAIN s
            BY <1>3, <1>4, <1>5, <2>1
        <3> QED
            BY <1>3, <3>1 DEF Mapped
    <2>2. CASE i > Len(s)
        <3>1. u[i] = t[i - Len(s)]
            BY <1>3, <2>2
        <3>2. v[i] = b[i - Len(a)]
            BY <1>4, <1>5, <2>2
        <3>3. i - Len(s) \in DOMAIN t
            BY <2>2
        <3>4. \A k \in DOMAIN t : b[k] = c[t[k]]
            BY <1>3 DEF Mapped
        <3> QED
            BY <1>4, <3>1, <3>2, <3>3, <3>4
    <2> QED
        BY <2>1, <2>2
<1>8. Mapped(c, u) = [i \in 1 .. Len(s) + Len(t) |-> c[u[i]]]
    BY <1>6 DEF Mapped
<1>9. v = [i \in 1 .. Len(s) + Len(t) |-> v[i]]
    BY <1>6
<1>10. Mapped(c, u) = v
    BY <1>7, <1>8, <1>9
<1> QED
    BY <1>1, <1>2, <1>3, <1>5, <1>10

\* As many times the same.
LEMMA FlattenedTotal ==
    ASSUME NEW T, NEW seqs \in Seq(Seq(T)), NEW c \in [T -> Nat], NEW C \in Nat,
           \A i \in DOMAIN seqs : Total(Mapped(c, seqs[i])) = C
    PROVE  Total(Mapped(c, FlattenSeq(seqs))) = Len(seqs) * C
<1> DEFINE n == Len(seqs)
<1>1. n \in Nat /\ DOMAIN seqs = 1 .. n /\ \A i \in 1 .. n : seqs[i] \in Seq(T) /\ Total(Mapped(c, seqs[i])) = C
    OBVIOUS
<1>2. CASE seqs = <<>>
    <2>1. FlattenSeq(seqs) = <<>> /\ Len(seqs) = 0
        BY <1>2 DEF FlattenSeq
    <2>2. Mapped(c, <<>>) = <<>>
        BY DEF Mapped
    <2>3. Total(<<>>) = 0
        <3>1. <<>> \in Seq(Nat) /\ 0 \in Nat
            OBVIOUS
        <3> QED
            BY <3>1, TotalFacts
    <2> QED
        BY <2>1, <2>2, <2>3
<1>3. CASE seqs # <<>>
    <2>1. PICK f : FlattenSeq(seqs) = f[n] /\ f[1] = seqs[1] /\ \A i \in 2 .. n : f[i] = f[i - 1] \o seqs[i]
        BY <1>3, FlattenIsJoined
    <2>2. n # 0
        BY <1>3
    <2> HIDE DEF n
    <2> DEFINE Good(i) == f[i] \in Seq(T) /\ Total(Mapped(c, f[i])) = i * C
               bad == {i \in 1 .. n : ~Good(i)}
    <2>3. ASSUME bad # {}
          PROVE  FALSE
        <3>1. bad \in SUBSET Nat
            <4>1. bad \subseteq 1 .. n
                BY Zenon
            <4> HIDE DEF bad
            <4> QED
                BY <4>1
        <3>2. PICK m \in bad : \A k \in bad : m <= k
            <4> HIDE DEF bad
            <4> QED
                BY <2>3, <3>1, LeastNat
        <3>3. m \in 1 .. n /\ ~Good(m)
            BY Zenon
        <3>4. CASE m = 1
            <4>1. f[1] \in Seq(T) /\ Total(Mapped(c, f[1])) = C /\ 1 * C = C
                BY <1>1, <2>1, <3>3, <3>4
            <4> QED
                BY <3>3, <3>4, <4>1
        <3>5. CASE m # 1
            <4>1. m \in 2 .. n /\ m - 1 \in 1 .. n /\ m - 1 < m /\ m - 1 \in Nat
                BY <1>1, <3>3, <3>5
            <4>2. Good(m - 1)
                <5>1. m - 1 \notin bad
                    <6> HIDE DEF bad
                    <6> QED
                        BY <3>2, <3>3, <4>1
                <5> HIDE DEF Good
                <5> QED
                    BY <4>1, <5>1
            <4>3. f[m] = f[m - 1] \o seqs[m] /\ seqs[m] \in Seq(T) /\ Total(Mapped(c, seqs[m])) = C
                BY <1>1, <2>1, <3>3, <4>1
            <4>4. f[m - 1] \in Seq(T) /\ Total(Mapped(c, f[m - 1])) = (m - 1) * C
                BY <4>2
            <4>5. /\ f[m] \in Seq(T)
                  /\ Mapped(c, f[m]) = Mapped(c, f[m - 1]) \o Mapped(c, seqs[m])
                  /\ Mapped(c, f[m - 1]) \in Seq(Nat) /\ Mapped(c, seqs[m]) \in Seq(Nat)
                <5>1. f[m] \in Seq(T)
                    BY <4>3, <4>4
                <5>2. PICK a, b : a = f[m - 1] /\ b = seqs[m]
                    OBVIOUS
                <5>3. a \in Seq(T) /\ b \in Seq(T)
                    BY <4>3, <4>4, <5>2
                <5>4. /\ Mapped(c, a \o b) = Mapped(c, a) \o Mapped(c, b)
                      /\ Mapped(c, a) \in Seq(Nat) /\ Mapped(c, b) \in Seq(Nat)
                    BY <5>3, MappedFacts
                <5> HIDE DEF Good
                <5> QED
                    BY <4>3, <5>1, <5>2, <5>4
            <4>6. Total(Mapped(c, f[m])) = (m - 1) * C + C
                BY <4>3, <4>4, <4>5, TotalJoined
            <4>7. (m - 1) * C + C = m * C
                BY <4>1
            <4> QED
                BY <3>3, <4>5, <4>6, <4>7
        <3> QED
            BY <3>4, <3>5
    <2>4. n \in 1 .. n
        BY <1>1, <2>2
    <2>5. Good(n)
        <3> HIDE DEF Good
        <3> QED
            BY <2>3, <2>4
    <2> QED
        BY <2>1, <2>5 DEF n
<1> QED
    BY <1>2, <1>3

\* What the first so many come to.
SumTo(f, k) == Total([i \in 1 .. k |-> f[i]])

LEMMA PrefixSums ==
    ASSUME NEW f, NEW n \in Nat, \A i \in 1 .. n : f[i] \in Nat
    PROVE  /\ SumTo(f, 0) = 0
           /\ \A k \in 0 .. n : SumTo(f, k) \in Nat /\ SumTo(f, k) <= SumTo(f, n)
           /\ \A k \in 1 .. n : SumTo(f, k) = SumTo(f, k - 1) + f[k]
<1>1. \A k \in 0 .. n : [i \in 1 .. k |-> f[i]] \in Seq(Nat)
    OBVIOUS
<1>2. \A k \in 0 .. n : SumTo(f, k) \in Nat
    <2>1. 0 \in Nat
        OBVIOUS
    <2> QED
        BY <1>1, <2>1, TotalFacts DEF SumTo
<1>3. SumTo(f, 0) = 0
    <2>1. [i \in 1 .. 0 |-> f[i]] = <<>>
        OBVIOUS
    <2>2. <<>> \in Seq(Nat) /\ 0 \in Nat
        OBVIOUS
    <2> QED
        BY <2>1, <2>2, TotalFacts DEF SumTo
<1>4. ASSUME NEW k \in 1 .. n
      PROVE  SumTo(f, k) = SumTo(f, k - 1) + f[k]
    <2> DEFINE s == [i \in 1 .. k - 1 |-> f[i]]
               t == [i \in 1 .. k |-> f[i]]
    <2>1. s \in Seq(Nat) /\ f[k] \in Nat
        OBVIOUS
    <2>2. t = Append(s, f[k])
        OBVIOUS
    <2> HIDE DEF s, t
    <2>3. Total(Append(s, f[k])) = Total(s) + f[k]
        BY <2>1, TotalFacts
    <2> QED
        BY <2>2, <2>3 DEF SumTo, s, t
<1> DEFINE Grows(k) == \A j \in 0 .. k : SumTo(f, j) <= SumTo(f, k)
           bad == {k \in 0 .. n : ~Grows(k)}
<1>5. ASSUME bad # {}
      PROVE  FALSE
    <2>1. bad \in SUBSET Nat
        <3>1. bad \subseteq 0 .. n
            BY Zenon
        <3> HIDE DEF bad
        <3> QED
            BY <3>1
    <2>2. PICK m \in bad : \A k \in bad : m <= k
        <3> HIDE DEF bad
        <3> QED
            BY <1>5, <2>1, LeastNat
    <2>3. m \in 0 .. n /\ ~Grows(m)
        BY Zenon
    <2>4. PICK j \in 0 .. m : ~(SumTo(f, j) <= SumTo(f, m))
        BY <2>3
    <2>5. SumTo(f, m) \in Nat /\ SumTo(f, j) \in Nat
        BY <1>2, <2>3, <2>4
    <2>6. j # m
        BY <2>4, <2>5
    <2>7. m \in 1 .. n /\ m - 1 \in 0 .. n /\ j \in 0 .. m - 1 /\ m - 1 < m
        BY <2>3, <2>4, <2>6
    <2>8. Grows(m - 1)
        <3>1. m - 1 \notin bad
            <4> HIDE DEF bad
            <4> QED
                BY <2>2, <2>3, <2>7
        <3> HIDE DEF Grows
        <3> QED
            BY <2>7, <3>1
    <2>9. SumTo(f, j) <= SumTo(f, m - 1)
        BY <2>7, <2>8
    <2>10. SumTo(f, m) = SumTo(f, m - 1) + f[m] /\ f[m] \in Nat /\ SumTo(f, m - 1) \in Nat
        BY <1>2, <1>4, <2>7
    <2> HIDE DEF bad, Grows
    <2> QED
        BY <2>4, <2>5, <2>9, <2>10
<1>6. Grows(n)
    <2>1. n \in 0 .. n
        OBVIOUS
    <2> HIDE DEF Grows
    <2> QED
        BY <1>5, <2>1
<1> QED
    BY <1>2, <1>3, <1>4, <1>6

\* The largest of some numbers.
LEMMA LargestNat ==
    ASSUME NEW S \in SUBSET Nat, S # {}, NEW b \in Nat, \A x \in S : x <= b
    PROVE  Max(S) \in S /\ \A x \in S : x <= Max(S)
<1> DEFINE U == {u \in Nat : \A x \in S : x <= u}
<1>1. U \in SUBSET Nat /\ U # {}
    OBVIOUS
<1>2. PICK u \in U : \A v \in U : u <= v
    <2> HIDE DEF U
    <2> QED
        BY <1>1, LeastNat
<1>3. u \in S
    <2>1. CASE u = 0
        <3>1. PICK x \in S : TRUE
            OBVIOUS
        <3>2. x \in Nat /\ x <= u
            BY <1>2
        <3> HIDE DEF U
        <3>3. x = u
            BY <2>1, <3>2
        <3> QED
            BY <3>3
    <2>2. CASE u # 0
        <3>1. u - 1 \in Nat /\ u - 1 \notin U
            <4>1. u - 1 \in Nat /\ ~(u <= u - 1)
                BY <1>2, <2>2
            <4> HIDE DEF U
            <4> QED
                BY <1>2, <4>1
        <3>2. PICK x \in S : ~(x <= u - 1)
            BY <3>1
        <3>3. x <= u /\ x \in Nat
            BY <1>2
        <3>4. x = u
            BY <1>2, <3>1, <3>2, <3>3
        <3> QED
            BY <3>4
    <2> QED
        BY <2>1, <2>2
<1>4. \A x \in S : u >= x
    BY <1>2
<1>5. Max(S) \in S /\ \A y \in S : Max(S) >= y
    <2>1. \E x \in S : \A y \in S : x >= y
        BY <1>3, <1>4
    <2> QED
        BY <2>1 DEF Max
<1> QED
    BY <1>5

-----------------------------------------------------------------------------
(* What a definition may cost                                              *)

LEMMA StrategyCost ==
    ASSUME NEW s
    PROVE  MostFetches(s) \in Nat /\ MostRecords(s) \in Nat /\ MostRecords(s) <= max_members + 1
<1>1. max_pages \in Nat /\ max_members \in Nat
    BY SchemaAssumption DEF SchemaAssumption
<1> QED
    BY <1>1 DEF MostFetches, MostRecords

\* The fetches of one strategy come after those of the others before it.
LEMMA DefinitionCost ==
    ASSUME NEW d \in Definitions
    PROVE  /\ OwnFetches(d) \in Nat
           /\ FetchesBefore(d, 1) = 0
           /\ \A i \in DOMAIN d.strategies :
                 /\ FetchesBefore(d, i) \in Nat
                 /\ FetchesBefore(d, i + 1) = FetchesBefore(d, i) + MostFetches(d.strategies[i])
                 /\ FetchesBefore(d, i + 1) <= OwnFetches(d)
                 /\ MostRecords(d.strategies[i]) <= RecordsGiven(d)
           /\ RecordsGiven(d) \in Nat
<1> DEFINE n == Len(d.strategies)
<1>1. n \in Nat /\ DOMAIN d.strategies = 1 .. n /\ 1 \in 1 .. n
    BY FirstStrategy
<1>2. PICK f : f = [i \in 1 .. n |-> MostFetches(d.strategies[i])]
    OBVIOUS
<1> HIDE DEF n
<1>3. \A i \in 1 .. n : f[i] = MostFetches(d.strategies[i]) /\ f[i] \in Nat
    BY <1>2, StrategyCost
<1>4. /\ SumTo(f, 0) = 0
      /\ \A k \in 0 .. n : SumTo(f, k) \in Nat /\ SumTo(f, k) <= SumTo(f, n)
      /\ \A k \in 1 .. n : SumTo(f, k) = SumTo(f, k - 1) + f[k]
    BY <1>1, <1>3, PrefixSums
<1>5. \A k \in 1 .. n + 1 : FetchesBefore(d, k) = SumTo(f, k - 1)
    <2> TAKE k \in 1 .. n + 1
    <2>1. \A i \in 1 .. k - 1 : i \in 1 .. n
        BY <1>1
    <2>2. [i \in 1 .. k - 1 |-> f[i]] = [i \in 1 .. k - 1 |-> MostFetches(d.strategies[i])]
        BY <1>3, <2>1
    <2> QED
        BY <2>2 DEF FetchesBefore, SumTo
<1>6. /\ 1 \in 1 .. n + 1 /\ n + 1 \in 1 .. n + 1 /\ n + 1 - 1 = n /\ 1 - 1 = 0 /\ n \in 0 .. n
      /\ \A i \in 1 .. n : i \in 1 .. n + 1 /\ i + 1 \in 1 .. n + 1 /\ i + 1 - 1 = i /\ i - 1 \in 0 .. n /\ i \in 0 .. n
    BY <1>1
<1>7. OwnFetches(d) = SumTo(f, n)
    BY <1>5, <1>6 DEF OwnFetches, n
<1>8. ASSUME NEW i \in 1 .. n
      PROVE  /\ FetchesBefore(d, i) \in Nat
             /\ FetchesBefore(d, i + 1) = FetchesBefore(d, i) + MostFetches(d.strategies[i])
             /\ FetchesBefore(d, i + 1) <= OwnFetches(d)
    <2>1. FetchesBefore(d, i) = SumTo(f, i - 1) /\ FetchesBefore(d, i + 1) = SumTo(f, i)
        BY <1>5, <1>6
    <2> QED
        BY <1>3, <1>4, <1>6, <1>7, <2>1
<1> DEFINE S == {MostRecords(d.strategies[i]) : i \in DOMAIN d.strategies}
<1>9. Max(S) \in S /\ \A x \in S : x <= Max(S)
    <2>1. S \in SUBSET Nat /\ S # {}
        BY <1>1, StrategyCost
    <2>2. max_members + 1 \in Nat
        BY SchemaAssumption DEF SchemaAssumption
    <2>3. \A x \in S : x <= max_members + 1
        BY StrategyCost
    <2> HIDE DEF S
    <2> QED
        BY <2>1, <2>2, <2>3, LargestNat
<1>10. RecordsGiven(d) \in Nat /\ \A i \in DOMAIN d.strategies : MostRecords(d.strategies[i]) <= RecordsGiven(d)
    BY <1>9, StrategyCost DEF RecordsGiven
<1> HIDE DEF S
<1> QED
    BY <1>1, <1>4, <1>5, <1>6, <1>7, <1>8, <1>10

\* A record's children, each with so many levels below it.
OfRecord(budget, d) ==
    LET names == SetToSeq(ChildNames(d))
    IN  Total([i \in DOMAIN names |-> budget[ChildDef(d, names[i])]])

LEMMA OfRecordIsNat ==
    ASSUME NEW d \in Definitions, NEW budget \in [Definitions -> Nat]
    PROVE  OfRecord(budget, d) \in Nat
<1> DEFINE names == SetToSeq(ChildNames(d))
           s == [i \in DOMAIN names |-> budget[ChildDef(d, names[i])]]
<1>1. names \in Seq(ChildNames(d))
    <2>1. IsFiniteSet(ChildNames(d))
        BY SchemaAssumption DEF SchemaAssumption, WellFormed
    <2> QED
        BY <2>1, InSomeOrder
<1>2. \A i \in DOMAIN names : ChildDef(d, names[i]) \in Definitions
    <2>1. \A i \in DOMAIN names : names[i] \in ChildNames(d)
        BY <1>1
    <2> QED
        BY <2>1, ChildIsDefined
<1> HIDE DEF names
<1>3. s \in Seq(Nat)
    BY <1>1, <1>2
<1>4. Total(s) \in Nat
    <2> HIDE DEF s
    <2>1. 0 \in Nat
        OBVIOUS
    <2> QED
        BY <1>3, <2>1, TotalFacts
<1> QED
    BY <1>4 DEF OfRecord, names

\* The budget of a definition is its own and that of the children of its records.
LEMMA BudgetUnfolds ==
    /\ \A levels \in 0 .. max_depth : FetchBudget[levels] \in [Definitions -> Nat]
    /\ \A d \in Definitions : FetchBudget[0][d] = OwnFetches(d)
    /\ \A levels \in 1 .. max_depth : \A d \in Definitions :
          FetchBudget[levels][d] = OwnFetches(d) + RecordsGiven(d) * OfRecord(FetchBudget[levels - 1], d)
<1> DEFINE n == max_depth
           S == [Definitions -> Nat]
           Of(i, b) == [d \in Definitions |->
                          OwnFetches(d) + (IF i = 0 THEN 0 ELSE RecordsGiven(d) * OfRecord(b, d))]
           Def(f) == f = [i \in 0 .. n |-> Of(i, f[i - 1])]
           a == [d \in Definitions |-> OwnFetches(d)]
           G == [p \in Nat \X S |-> IF p[1] = 0 THEN a ELSE Of(p[1], p[2])]
<1>1. n \in Nat
    BY SchemaAssumption DEF SchemaAssumption
<1>2. FetchBudget = CHOOSE f : Def(f)
    BY DEF FetchBudget, OfRecord
<1>3. a \in S
    BY DefinitionCost
<1>4. ASSUME NEW i \in Nat, NEW b \in S
      PROVE  Of(i, b) \in S
    <2>1. ASSUME NEW d \in Definitions
          PROVE  OwnFetches(d) + (IF i = 0 THEN 0 ELSE RecordsGiven(d) * OfRecord(b, d)) \in Nat
        <3>1. OwnFetches(d) \in Nat /\ RecordsGiven(d) \in Nat /\ OfRecord(b, d) \in Nat
            BY DefinitionCost, OfRecordIsNat
        <3>2. RecordsGiven(d) * OfRecord(b, d) \in Nat
            BY <3>1
        <3> QED
            BY <3>1, <3>2
    <2> QED
        BY <2>1
<1> HIDE DEF n
<1>5. G \in [Nat \X S -> S]
    <2> HIDE DEF Of, a, S
    <2> QED
        BY <1>3, <1>4
<1>6. PICK g : g \in [0 .. n -> S] /\ g[0] = a /\ \A i \in 1 .. n : g[i] = G[<<i, g[i - 1]>>]
    <2> HIDE DEF G, S, a
    <2>1. \E g : Follows(g, n, S, a, G)
        BY <1>1, <1>3, <1>5, Recursion
    <2> QED
        BY <2>1 DEF Follows
<1>7. Of(0, g[0 - 1]) = a
    BY DefinitionCost
<1>8. ASSUME NEW i \in 1 .. n
      PROVE  g[i] = Of(i, g[i - 1]) /\ i - 1 \in 0 .. n /\ g[i - 1] \in S
    <2>1. i \in Nat /\ i # 0 /\ i - 1 \in 0 .. n
        BY <1>1
    <2> HIDE DEF Of, a, S
    <2>2. g[i - 1] \in S
        BY <1>6, <2>1
    <2>3. G[<<i, g[i - 1]>>] = Of(i, g[i - 1])
        BY <2>1, <2>2
    <2> HIDE DEF G
    <2> QED
        BY <1>6, <2>1, <2>2, <2>3
<1>9. \A i \in 0 .. n : g[i] = Of(i, g[i - 1])
    <2> HIDE DEF Of, a, S, G
    <2> TAKE i \in 0 .. n
    <2>1. CASE i = 0
        BY <1>6, <1>7, <2>1
    <2>2. CASE i # 0
        <3>1. i \in 1 .. n
            BY <1>1, <2>2
        <3> QED
            BY <1>8, <3>1
    <2> QED
        BY <2>1, <2>2
<1>10. Def(g)
    <2> HIDE DEF Of, a, S, G
    <2>1. g = [i \in 0 .. n |-> g[i]]
        BY <1>6
    <2> QED
        BY <1>9, <2>1
<1> DEFINE F == FetchBudget
<1>11. Def(F)
    <2> HIDE DEF Def
    <2> QED
        BY <1>2, <1>10
<1> HIDE DEF F
<1>12. \A i \in 0 .. n : F[i] = Of(i, F[i - 1])
    <2> HIDE DEF Of
    <2> QED
        BY <1>11
<1>13. \A i \in 0 .. n : F[i] \in S
    <2> HIDE DEF Of, a, S, G, Def
    <2> DEFINE bad == {i \in 0 .. n : F[i] \notin S}
    <2>1. SUFFICES ASSUME bad # {} PROVE FALSE
        OBVIOUS
    <2>2. bad \in SUBSET Nat
        BY <1>1
    <2>3. PICK m \in bad : \A k \in bad : m <= k
        <3> HIDE DEF bad
        <3> QED
            BY <2>1, <2>2, LeastNat
    <2>4. m \in 0 .. n /\ F[m] \notin S
        OBVIOUS
    <2>5. F[m] = Of(m, F[m - 1])
        BY <1>12, <2>4
    <2>6. m # 0
        <3>1. ASSUME m = 0 PROVE FALSE
            <4>1. Of(0, F[0 - 1]) = a
                BY DefinitionCost DEF Of, a
            <4> QED
                BY <1>3, <2>4, <2>5, <3>1, <4>1
        <3> QED
            BY <3>1
    <2>7. m - 1 \in 0 .. n /\ m \in Nat
        BY <1>1, <2>4, <2>6
    <2>8. m - 1 \notin bad
        <3> HIDE DEF bad
        <3> QED
            BY <1>1, <2>3, <2>7
    <2>9. F[m - 1] \in S
        BY <2>7, <2>8
    <2> HIDE DEF bad
    <2> QED
        BY <1>4, <2>4, <2>5, <2>7, <2>9
<1>14. \A d \in Definitions : F[0][d] = OwnFetches(d)
    <2>1. 0 \in 0 .. n
        BY <1>1
    <2>2. F[0] = Of(0, F[0 - 1])
        BY <1>12, <2>1
    <2> HIDE DEF Def
    <2> QED
        BY <2>2, DefinitionCost
<1>15. \A levels \in 1 .. n : \A d \in Definitions :
          F[levels][d] = OwnFetches(d) + RecordsGiven(d) * OfRecord(F[levels - 1], d)
    <2> TAKE levels \in 1 .. n
    <2> TAKE d \in Definitions
    <2>1. levels \in 0 .. n /\ levels # 0
        BY <1>1
    <2>2. F[levels] = Of(levels, F[levels - 1])
        BY <1>12, <2>1
    <2> HIDE DEF Def
    <2> QED
        BY <2>1, <2>2
<1> QED
    BY <1>13, <1>14, <1>15 DEF F, n

-----------------------------------------------------------------------------
(* What the executions under way may still cost                            *)

Shallow == {x \in Executions : x.depth <= max_depth}

CostOf == [x \in Shallow |-> FetchBudget[max_depth - x.depth][x.def]]

LEMMA CostFacts ==
    /\ CostOf \in [Shallow -> Nat]
    /\ \A x \in Shallow :
          /\ x \in Executions /\ x.depth \in Nat /\ x.depth <= max_depth /\ x.def \in Definitions
          /\ CostOf[x] = IF x.depth = max_depth THEN OwnFetches(x.def)
                         ELSE OwnFetches(x.def)
                                + RecordsGiven(x.def) * OfRecord(FetchBudget[max_depth - (x.depth + 1)], x.def)
<1>1. max_depth \in Nat
    BY SchemaAssumption DEF SchemaAssumption
<1>2. ASSUME NEW x \in Shallow
      PROVE  /\ x \in Executions /\ x.depth \in Nat /\ x.depth <= max_depth /\ x.def \in Definitions
             /\ max_depth - x.depth \in 0 .. max_depth
    BY <1>1 DEF Shallow, Executions
<1>3. \A x \in Shallow : FetchBudget[max_depth - x.depth][x.def] \in Nat
    BY <1>2, BudgetUnfolds
<1>4. CostOf \in [Shallow -> Nat]
    BY <1>3 DEF CostOf
<1>5. ASSUME NEW x \in Shallow
      PROVE  CostOf[x] = IF x.depth = max_depth THEN OwnFetches(x.def)
                         ELSE OwnFetches(x.def)
                                + RecordsGiven(x.def) * OfRecord(FetchBudget[max_depth - (x.depth + 1)], x.def)
    <2>1. CostOf[x] = FetchBudget[max_depth - x.depth][x.def]
        BY DEF CostOf
    <2>2. CASE x.depth = max_depth
        <3>1. max_depth - x.depth = 0
            BY <1>1, <2>2
        <3> QED
            BY <1>2, <2>1, <2>2, <3>1, BudgetUnfolds
    <2>3. CASE x.depth # max_depth
        <3>1. max_depth - x.depth \in 1 .. max_depth /\ max_depth - x.depth - 1 = max_depth - (x.depth + 1)
            BY <1>1, <1>2, <2>3
        <3> QED
            BY <1>2, <2>1, <2>3, <3>1, BudgetUnfolds
    <2> QED
        BY <2>2, <2>3
<1> QED
    BY <1>2, <1>4, <1>5

\* The children of the records of an execution cost no more than what it has been
\* given for them.
LEMMA ChildrenCost ==
    ASSUME AgendaSound, agenda # <<>>, Current \in Shallow,
           NEW records \in Seq(AnyRecord), Len(records) <= RecordsGiven(Current.def)
    PROVE  /\ ChildExecutions(records) \in Seq(Shallow)
           /\ Total(Mapped(CostOf, ChildExecutions(records))) \in Nat
           /\ OwnFetches(Current.def) + Total(Mapped(CostOf, ChildExecutions(records))) <= CostOf[Current]
<1> DEFINE names == SetToSeq(ChildNames(Current.def))
           Of(n) == [i \in DOMAIN names |-> Child(records, n, names[i])]
           seqs == [n \in DOMAIN records |-> Of(n)]
           deep == Current.depth + 1 > max_depth
           budget == FetchBudget[max_depth - (Current.depth + 1)]
           each == OfRecord(budget, Current.def)
           k == Len(records)
<1>1. ChildExecutions(records) = IF deep THEN <<>> ELSE FlattenSeq(seqs)
    BY DEF ChildExecutions, Child
<1>2. /\ Current.def \in Definitions /\ Current.depth \in Nat /\ max_depth \in Nat /\ Current.depth <= max_depth
      /\ OwnFetches(Current.def) \in Nat /\ RecordsGiven(Current.def) \in Nat /\ k \in Nat
    BY CostFacts, DefinitionCost, SchemaAssumption DEF SchemaAssumption
<1>3. names \in Seq(ChildNames(Current.def))
    <2>1. IsFiniteSet(ChildNames(Current.def))
        BY <1>2, SchemaAssumption DEF SchemaAssumption, WellFormed
    <2> QED
        BY <2>1, InSomeOrder
<1>4. CostOf[Current] = IF deep THEN OwnFetches(Current.def) ELSE OwnFetches(Current.def) + RecordsGiven(Current.def) * each
    <2>1. deep <=> Current.depth = max_depth
        BY <1>2
    <2> HIDE DEF deep
    <2> QED
        BY <2>1, CostFacts
<1> HIDE DEF names, budget, each, k
<1>5. CASE deep
    <2>1. ChildExecutions(records) = <<>> /\ <<>> \in Seq(Shallow)
        BY <1>1, <1>5
    <2>2. Mapped(CostOf, <<>>) = <<>>
        BY DEF Mapped
    <2>3. <<>> \in Seq(Nat) /\ 0 \in Nat
        OBVIOUS
    <2>4. Total(<<>>) = 0
        BY <2>3, TotalFacts
    <2> QED
        BY <1>2, <1>4, <1>5, <2>1, <2>2, <2>4
<1>6. CASE ~deep
    <2>1. max_depth - (Current.depth + 1) \in 0 .. max_depth
        BY <1>2, <1>6
    <2>2. budget \in [Definitions -> Nat]
        BY <2>1, BudgetUnfolds DEF budget
    <2>3. each \in Nat
        BY <1>2, <2>2, OfRecordIsNat DEF each
    <2>4. ASSUME NEW n \in DOMAIN records, NEW i \in DOMAIN names
          PROVE  /\ Child(records, n, names[i]) \in Shallow
                 /\ CostOf[Child(records, n, names[i])] = budget[ChildDef(Current.def, names[i])]
        <3>1. names[i] \in ChildNames(Current.def)
            BY <1>3
        <3>2. PICK x : x = Child(records, n, names[i])
            OBVIOUS
        <3>3. x \in Executions /\ x.def = ChildDef(Current.def, names[i]) /\ x.depth = Current.depth + 1
            BY <3>1, <3>2, AChild
        <3>4. x \in Shallow
            BY <1>2, <1>6, <3>3 DEF Shallow
        <3>5. CostOf[x] = budget[ChildDef(Current.def, names[i])]
            BY <3>3, <3>4 DEF CostOf, budget
        <3> QED
            BY <3>2, <3>4, <3>5
    <2>5. DOMAIN names = 1 .. Len(names) /\ Len(names) \in Nat
        BY <1>3
    <2>6. ASSUME NEW n \in DOMAIN records
          PROVE  Of(n) \in Seq(Shallow) /\ Total(Mapped(CostOf, Of(n))) = each
        <3>1. Of(n) \in [1 .. Len(names) -> Shallow]
            BY <2>4, <2>5
        <3>2. \A i \in DOMAIN names : CostOf[Of(n)[i]] = budget[ChildDef(Current.def, names[i])]
            BY <2>4
        <3>3. DOMAIN Of(n) = DOMAIN names
            OBVIOUS
        <3> HIDE DEF Of
        <3>4. Mapped(CostOf, Of(n)) = [i \in DOMAIN names |-> budget[ChildDef(Current.def, names[i])]]
            BY <3>2, <3>3 DEF Mapped
        <3> QED
            BY <2>5, <3>1, <3>4 DEF each, OfRecord, names
    <2>7. seqs \in Seq(Seq(Shallow)) /\ Len(seqs) = k /\ \A n \in DOMAIN seqs : Total(Mapped(CostOf, seqs[n])) = each
        <3>1. DOMAIN records = 1 .. k /\ k \in Nat
            BY DEF k
        <3> HIDE DEF Of
        <3>2. seqs \in [1 .. k -> Seq(Shallow)]
            BY <2>6, <3>1
        <3>3. \A n \in DOMAIN seqs : n \in DOMAIN records /\ seqs[n] = Of(n)
            OBVIOUS
        <3>4. \A n \in DOMAIN seqs : Total(Mapped(CostOf, seqs[n])) = each
            BY <2>6, <3>3
        <3> HIDE DEF seqs
        <3> QED
            BY <3>1, <3>2, <3>4
    <2> HIDE DEF seqs, Of
    <2>8. Total(Mapped(CostOf, FlattenSeq(seqs))) = k * each
        BY <2>3, <2>7, CostFacts, FlattenedTotal
    <2>9. FlattenSeq(seqs) \in Seq(Shallow)
        BY <2>7, Flattened
    <2>10. k <= RecordsGiven(Current.def)
        BY DEF k
    <2>11. k * each \in Nat /\ k * each <= RecordsGiven(Current.def) * each
        <3>1. \A x, y, z \in Nat : x <= y => x * z \in Nat /\ x * z <= y * z
            OBVIOUS
        <3> QED
            BY <1>2, <2>3, <2>10, <3>1
    <2>12. RecordsGiven(Current.def) * each \in Nat
        BY <1>2, <2>3
    <2> DEFINE p == k * each
               q == RecordsGiven(Current.def) * each
    <2> HIDE DEF p, q, deep
    <2>13. p \in Nat /\ q \in Nat /\ p <= q /\ CostOf[Current] = OwnFetches(Current.def) + q
        BY <1>4, <1>6, <2>11, <2>12 DEF p, q
    <2>14. OwnFetches(Current.def) + p <= CostOf[Current]
        BY <1>2, <2>13
    <2> QED
        BY <1>1, <1>6, <2>8, <2>9, <2>13, <2>14 DEF p
<1> QED
    BY <1>5, <1>6

-----------------------------------------------------------------------------
(* The fetches never exceed the budget                                     *)

\* The fetches that a strategy may have made when it is where the turn says.
Pages(s) == IF s.kind = "collection" THEN max_pages ELSE 0

Spent(s, t) ==
    CASE t.doing = "choosing" -> 0
      [] t.doing \in {"root", "reuse"} -> 1
      [] t.doing = "paging" -> t.pages
      [] t.doing = "page" -> t.pages + 1
      [] t.doing = "members" -> Pages(s) + Len(t.records)
      [] t.doing = "member" -> Pages(s) + Len(t.records) + 1

\* What a strategy of a kind may do.
KindFits(s, t) ==
    /\ t.doing \in {"root", "reuse"} => s.kind \in {"object", "collection"}
    /\ t.doing \in {"paging", "page"} => s.kind = "collection"
    /\ t.doing \in {"members", "member"} => s.kind \in {"collection", "inline-collection"}

\* With what is still to execute the fetches stay within the budget of the lane up to
\* its resource under way: what is spent on that one is no more than what the strategies
\* tried before and the one under way may spend.
WithinBudget ==
    IF agenda = <<>> THEN fetches <= LaneBudget(lane, position)
    ELSE /\ fetches + Total(Mapped(CostOf, agenda))
               <= LaneBudget(lane, position) + FetchesBefore(Current.def, turn.strategy) + Spent(Strategy, turn)
         /\ KindFits(Strategy, turn)

LEMMA AgendaIsShallow ==
    ASSUME AgendaSound
    PROVE  /\ agenda \in Seq(Shallow)
           /\ Total(Mapped(CostOf, agenda)) \in Nat
           /\ agenda # <<>> =>
                 /\ Current \in Shallow /\ Current.def \in Definitions
                 /\ Tail(agenda) \in Seq(Shallow)
                 /\ Total(Mapped(CostOf, Tail(agenda))) \in Nat
                 /\ Total(Mapped(CostOf, agenda)) = CostOf[Current] + Total(Mapped(CostOf, Tail(agenda)))
<1>1. agenda \in Seq(Executions) /\ max_depth \in Nat
    BY SchemaAssumption DEF AgendaSound, SchemaAssumption
<1>2. ASSUME NEW i \in DOMAIN agenda
      PROVE  agenda[i] \in Shallow
    <2>1. PICK x : x = agenda[i]
        OBVIOUS
    <2>2. x \in Executions /\ Awaited(x)
        BY <1>1, <2>1 DEF AgendaSound
    <2>3. x.depth = Len(x.owner) /\ Belongs(x.owner, x.name)
        BY <2>2 DEF Awaited
    <2>4. x.depth <= max_depth
        <3>1. CASE x.owner = <<>>
            BY <1>1, <2>3, <3>1
        <3>2. CASE x.owner # <<>>
            BY <2>3, <3>2 DEF Belongs
        <3> QED
            BY <3>1, <3>2
    <2> QED
        BY <2>1, <2>2, <2>4 DEF Shallow
<1>3. agenda \in Seq(Shallow)
    BY <1>1, <1>2
<1>4. \A s \in Seq(Shallow) : Total(Mapped(CostOf, s)) \in Nat
    <2> TAKE s \in Seq(Shallow)
    <2>1. Mapped(CostOf, s) \in Seq(Nat) /\ 0 \in Nat
        BY CostFacts, MappedFacts
    <2> QED
        BY <2>1, TotalFacts
<1>5. ASSUME agenda # <<>>
      PROVE  /\ Current \in Shallow /\ Tail(agenda) \in Seq(Shallow)
             /\ Total(Mapped(CostOf, agenda)) = CostOf[Current] + Total(Mapped(CostOf, Tail(agenda)))
    <2>1. PICK x, s : x = Current /\ s = Tail(agenda)
        OBVIOUS
    <2>2. x \in Shallow /\ s \in Seq(Shallow) /\ agenda = <<x>> \o s /\ <<x>> \in Seq(Shallow)
        BY <1>3, <1>5, <2>1 DEF Current
    <2>3. Mapped(CostOf, agenda) = Mapped(CostOf, <<x>>) \o Mapped(CostOf, s)
        BY <2>2, CostFacts, MappedFacts
    <2>4. Mapped(CostOf, <<x>>) \in Seq(Nat) /\ Mapped(CostOf, s) \in Seq(Nat)
        BY <2>2, CostFacts, MappedFacts
    <2>5. Total(Mapped(CostOf, agenda)) = Total(Mapped(CostOf, <<x>>)) + Total(Mapped(CostOf, s))
        BY <2>3, <2>4, TotalJoined
    <2>6. Total(Mapped(CostOf, <<x>>)) = CostOf[x]
        <3>1. CostOf[x] \in Nat
            BY <2>2, CostFacts
        <3>2. Mapped(CostOf, <<x>>) = Append(<<>>, CostOf[x]) /\ <<>> \in Seq(Nat)
            BY DEF Mapped
        <3>3. Total(<<>>) = 0 /\ Total(Append(<<>>, CostOf[x])) = Total(<<>>) + CostOf[x]
            BY <3>1, <3>2, TotalFacts
        <3> QED
            BY <3>1, <3>2, <3>3
    <2> QED
        BY <2>1, <2>2, <2>5, <2>6
<1>6. agenda # <<>> => Current.def \in Definitions
    BY <1>5, CostFacts
<1> QED
    BY <1>3, <1>4, <1>5, <1>6

\* The budget of a lane grows with its resources.
LEMMA LaneCost ==
    ASSUME NEW l \in {"fast", "slow"}
    PROVE  /\ LaneBudget(l, 0) = 0 /\ Budgets[l] \in Nat
           /\ \A i \in DOMAIN LaneResources[l] :
                 /\ LaneBudget(l, i) \in Nat /\ LaneBudget(l, i - 1) \in Nat
                 /\ LaneBudget(l, i) = LaneBudget(l, i - 1) + FetchBudget[max_depth][Resources[LaneResources[l][i]]]
                 /\ LaneBudget(l, i) <= Budgets[l]
                 /\ FetchBudget[max_depth][Resources[LaneResources[l][i]]] \in Nat
<1> DEFINE LR == LaneResources[l]
           n == Len(LR)
<1>1. LR \in Seq(DOMAIN Resources) /\ n \in Nat /\ DOMAIN LR = 1 .. n
    BY SchemaAssumption DEF SchemaAssumption
<1>2. PICK f : f = [i \in 1 .. n |-> FetchBudget[max_depth][Resources[LR[i]]]]
    OBVIOUS
<1> HIDE DEF n
<1>3. \A i \in 1 .. n : f[i] = FetchBudget[max_depth][Resources[LR[i]]] /\ f[i] \in Nat
    <2> TAKE i \in 1 .. n
    <2>1. LR[i] \in DOMAIN Resources
        BY <1>1
    <2>2. Resources[LR[i]] \in Definitions /\ max_depth \in 0 .. max_depth
        BY <2>1, SchemaAssumption DEF SchemaAssumption
    <2>3. FetchBudget[max_depth][Resources[LR[i]]] \in Nat
        BY <2>2, BudgetUnfolds
    <2> QED
        BY <1>2, <2>3
<1>4. /\ SumTo(f, 0) = 0
      /\ \A k \in 0 .. n : SumTo(f, k) \in Nat /\ SumTo(f, k) <= SumTo(f, n)
      /\ \A k \in 1 .. n : SumTo(f, k) = SumTo(f, k - 1) + f[k]
    BY <1>1, <1>3, PrefixSums
<1>5. \A k \in 0 .. n : LaneBudget(l, k) = SumTo(f, k)
    <2> TAKE k \in 0 .. n
    <2>1. \A i \in 1 .. k : i \in 1 .. n
        BY <1>1
    <2>2. [i \in 1 .. k |-> f[i]] = [i \in 1 .. k |-> FetchBudget[max_depth][Resources[LR[i]]]]
        BY <1>3, <2>1
    <2> QED
        BY <2>2 DEF LaneBudget, SumTo
<1>6. Budgets[l] = LaneBudget(l, n)
    BY DEF Budgets, n
<1>7. 0 \in 0 .. n /\ n \in 0 .. n /\ \A i \in 1 .. n : i \in 0 .. n /\ i - 1 \in 0 .. n
    BY <1>1
<1> QED
    BY <1>1, <1>3, <1>4, <1>5, <1>6, <1>7

LEMMA SpentFacts ==
    ASSUME NEW s, NEW t \in Turns
    PROVE  Spent(s, t) \in Nat
<1>1. max_pages \in Nat /\ t.pages \in 0 .. max_pages /\ Len(t.records) \in Nat
    BY TurnParts, SchemaAssumption DEF SchemaAssumption
<1>2. t.doing \in {"choosing", "root", "reuse", "paging", "page", "members", "member"}
    BY TurnParts
<1>3. Pages(s) \in Nat /\ t.pages \in Nat
    BY <1>1 DEF Pages
<1> QED
    BY <1>1, <1>2, <1>3 DEF Spent

LEMMA SpentAtMost ==
    ASSUME Crawling, agenda # <<>>, KindFits(Strategy, turn)
    PROVE  /\ Spent(Strategy, turn) \in Nat
           /\ FetchesBefore(Current.def, turn.strategy) \in Nat
           /\ FetchesBefore(Current.def, turn.strategy) + Spent(Strategy, turn) <= FetchesBefore(Current.def, turn.strategy + 1)
           /\ FetchesBefore(Current.def, turn.strategy + 1) <= OwnFetches(Current.def)
           /\ FetchesBefore(Current.def, turn.strategy + 1) \in Nat
           /\ OwnFetches(Current.def) \in Nat
           /\ MostRecords(Strategy) <= RecordsGiven(Current.def)
<1>1. /\ turn \in Turns /\ max_pages \in Nat \ {0} /\ max_members \in Nat
      /\ Current.def \in Definitions /\ turn.strategy \in DOMAIN Current.def.strategies
    BY StrategyFacts, AgendaFacts, SchemaAssumption DEF Crawling, TurnSound, SchemaAssumption
<1>2. PICK s, d : s = Strategy /\ d = Current.def
    OBVIOUS
<1>3. s = d.strategies[turn.strategy] /\ d \in Definitions /\ turn.strategy \in DOMAIN d.strategies
    BY <1>1, <1>2 DEF Strategy
<1>4. Spent(s, turn) \in Nat
    BY <1>1, SpentFacts
<1>5. Spent(s, turn) <= MostFetches(s)
    <2>1. /\ turn.doing \in {"choosing", "root", "reuse", "paging", "page", "members", "member"}
          /\ turn.pages \in 0 .. max_pages /\ turn.records \in Seq(AnyRecord) /\ turn.refs \in Seq(AnyRef)
        BY <1>1 DEF Turns
    <2>2. MostFetches(s) \in Nat
        BY StrategyCost
    <2>3. KindFits(s, turn)
        BY <1>2
    <2>4. CASE turn.doing = "choosing"
        BY <2>2, <2>4 DEF Spent
    <2>5. CASE turn.doing \in {"root", "reuse"}
        BY <1>1, <2>3, <2>5 DEF Spent, KindFits, MostFetches
    <2>6. CASE turn.doing = "paging"
        BY <1>1, <2>1, <2>3, <2>6 DEF Spent, KindFits, MostFetches
    <2>7. CASE turn.doing = "page"
        <3>1. turn.pages < max_pages
            BY <2>7 DEF Crawling, TurnSound
        <3> QED
            BY <1>1, <2>1, <2>3, <2>7, <3>1 DEF Spent, KindFits, MostFetches
    <2>8. CASE turn.doing \in {"members", "member"}
        <3>1. Len(turn.records) + Len(turn.refs) <= max_members /\ (turn.doing = "member" => turn.refs # <<>>)
            BY <2>8 DEF Crawling, TurnSound
        <3>2. Len(turn.records) \in Nat /\ Len(turn.refs) \in Nat /\ (turn.refs # <<>> => Len(turn.refs) # 0)
            BY <2>1
        <3>3. /\ Len(turn.records) <= max_members
              /\ turn.doing = "member" => Len(turn.records) + 1 <= max_members
            <4>1. \A a, b, m \in Nat : a + b <= m => a <= m /\ (b # 0 => a + 1 <= m)
                OBVIOUS
            <4>2. PICK a, b : a = Len(turn.records) /\ b = Len(turn.refs)
                OBVIOUS
            <4> QED
                BY <1>1, <3>1, <3>2, <4>1, <4>2
        <3>4. MostFetches(s) = Pages(s) + max_members
            BY <1>1, <2>3, <2>8 DEF KindFits, MostFetches, Pages
        <3>5. Pages(s) \in Nat
            BY <1>1 DEF Pages
        <3>6. Spent(s, turn) = IF turn.doing = "member" THEN Pages(s) + Len(turn.records) + 1 ELSE Pages(s) + Len(turn.records)
            BY <2>8 DEF Spent
        <3> QED
            BY <1>1, <3>2, <3>3, <3>4, <3>5, <3>6
    <2> QED
        BY <2>1, <2>4, <2>5, <2>6, <2>7, <2>8
<1>6. /\ FetchesBefore(d, turn.strategy) \in Nat /\ OwnFetches(d) \in Nat
      /\ FetchesBefore(d, turn.strategy + 1) = FetchesBefore(d, turn.strategy) + MostFetches(s)
      /\ FetchesBefore(d, turn.strategy + 1) <= OwnFetches(d)
      /\ MostRecords(s) <= RecordsGiven(d)
    BY <1>3, DefinitionCost
<1>7. MostFetches(s) \in Nat
    BY StrategyCost
<1>8. \A a, b, c \in Nat : b <= c => a + b <= a + c /\ a + c \in Nat
    OBVIOUS
<1> QED
    BY <1>2, <1>4, <1>5, <1>6, <1>7, <1>8

\* A turn that goes on with the same strategy.
LEMMA TurnSpends ==
    ASSUME Crawling, Crawling', WithinBudget, agenda # <<>>, UNCHANGED <<givenVars, position, agenda>>,
           turn'.strategy = turn.strategy, KindFits(Strategy, turn'),
           fetches' + Spent(Strategy, turn) <= fetches + Spent(Strategy, turn')
    PROVE  WithinBudget'
<1>1. PICK s, d, l, b : s = Strategy /\ d = Current.def /\ l = LaneBudget(lane, position) /\ b = FetchesBefore(d, turn.strategy)
    OBVIOUS
<1>2. PICK t : t = Total(Mapped(CostOf, agenda))
    OBVIOUS
<1>3. /\ lane' = lane /\ position' = position /\ agenda' = agenda /\ agenda' # <<>>
      /\ Current' = Current /\ Strategy' = s /\ turn'.strategy = turn.strategy
    BY <1>1 DEF givenVars, Current, Strategy
<1>4. Spent(s, turn) \in Nat /\ Spent(s, turn') \in Nat /\ fetches \in Nat /\ fetches' \in Nat
    <2>1. turn \in Turns /\ turn' \in Turns /\ fetches \in Nat /\ fetches' \in Nat
        BY DEF Crawling, TurnSound
    <2> QED
        BY <2>1, SpentFacts
<1>5. t \in Nat
    BY <1>2, AgendaIsShallow DEF Crawling
<1>6. l \in Nat /\ b \in Nat
    <2>1. KindFits(Strategy, turn)
        BY DEF WithinBudget
    <2>2. lane \in {"fast", "slow"} /\ position \in DOMAIN LaneResources[lane]
        BY DEF Crawling, PositionSound
    <2> QED
        BY <1>1, <2>1, <2>2, SpentAtMost, LaneCost
<1>7. fetches + t <= l + b + Spent(s, turn)
    BY <1>1, <1>2 DEF WithinBudget
<1>8. fetches' + Spent(s, turn) <= fetches + Spent(s, turn')
    BY <1>1
<1>9. \A f, g, x, y, k \in Nat : f + t <= k + x /\ g + x <= f + y => g + t <= k + y
    BY <1>5
<1>10. l + b \in Nat
    BY <1>6
<1>11. fetches' + t <= l + b + Spent(s, turn')
    BY <1>4, <1>7, <1>8, <1>9, <1>10
<1>12. KindFits(s, turn')
    BY <1>1
<1>13. /\ Total(Mapped(CostOf, agenda')) = t /\ LaneBudget(lane', position') = l
       /\ FetchesBefore(Current'.def, turn'.strategy) = b
    BY <1>1, <1>2, <1>3
<1> QED
    BY <1>3, <1>11, <1>12, <1>13 DEF WithinBudget

\* An execution that ends leaves its children no more than was kept for them.
LEMMA ConcludeCost ==
    ASSUME Crawling, Crawling', WithinBudget, Running, UNCHANGED <<givenVars, position, fetches>>,
           NEW records \in Seq(AnyRecord), NEW strategy, Len(records) <= MostRecords(Strategy), Conclude(records, strategy)
    PROVE  WithinBudget'
<1>1. agenda # <<>> /\ AgendaSound /\ KindFits(Strategy, turn)
    BY DEF Running, Crawling, WithinBudget
<1>2. /\ agenda' = ChildExecutions(records) \o Tail(agenda) /\ turn' = Fresh(1)
      /\ lane' = lane /\ position' = position /\ fetches' = fetches
    BY DEF Conclude, givenVars
<1>3. PICK c, r, x : c = ChildExecutions(records) /\ r = Tail(agenda) /\ x = Current
    OBVIOUS
<1>4. /\ x \in Shallow /\ x.def \in Definitions /\ r \in Seq(Shallow) /\ Total(Mapped(CostOf, r)) \in Nat
      /\ Total(Mapped(CostOf, agenda)) = CostOf[x] + Total(Mapped(CostOf, r))
    BY <1>1, <1>3, AgendaIsShallow
<1>5. Len(records) <= RecordsGiven(x.def)
    <2>1. MostRecords(Strategy) <= RecordsGiven(x.def)
        BY <1>1, <1>3, SpentAtMost
    <2>2. Len(records) \in Nat /\ MostRecords(Strategy) \in Nat /\ RecordsGiven(x.def) \in Nat
        BY <1>4, StrategyCost, DefinitionCost
    <2> QED
        BY <2>1, <2>2
<1>6. /\ c \in Seq(Shallow) /\ Total(Mapped(CostOf, c)) \in Nat
      /\ OwnFetches(x.def) + Total(Mapped(CostOf, c)) <= CostOf[x]
    BY <1>1, <1>3, <1>4, <1>5, ChildrenCost
<1>7. Total(Mapped(CostOf, agenda')) = Total(Mapped(CostOf, c)) + Total(Mapped(CostOf, r))
    <2>1. /\ Mapped(CostOf, c \o r) = Mapped(CostOf, c) \o Mapped(CostOf, r)
          /\ Mapped(CostOf, c) \in Seq(Nat) /\ Mapped(CostOf, r) \in Seq(Nat)
        BY <1>4, <1>6, CostFacts, MappedFacts
    <2>2. Total(Mapped(CostOf, c) \o Mapped(CostOf, r)) = Total(Mapped(CostOf, c)) + Total(Mapped(CostOf, r))
        BY <2>1, TotalJoined
    <2>3. agenda' = c \o r
        BY <1>2, <1>3
    <2> QED
        BY <2>1, <2>2, <2>3
<1>8. PICK own, spent, l, tc, tr, cost, sofar :
         /\ own = OwnFetches(x.def) /\ spent = FetchesBefore(Current.def, turn.strategy) + Spent(Strategy, turn)
         /\ l = LaneBudget(lane, position) /\ tc = Total(Mapped(CostOf, c)) /\ tr = Total(Mapped(CostOf, r))
         /\ cost = CostOf[x] /\ sofar = fetches
    OBVIOUS
<1>9. own \in Nat /\ spent \in Nat /\ spent <= own
    <2>1. /\ Spent(Strategy, turn) \in Nat /\ FetchesBefore(Current.def, turn.strategy) \in Nat
          /\ spent <= FetchesBefore(Current.def, turn.strategy + 1)
          /\ FetchesBefore(Current.def, turn.strategy + 1) <= own
          /\ FetchesBefore(Current.def, turn.strategy + 1) \in Nat /\ own \in Nat
        BY <1>1, <1>3, <1>8, SpentAtMost
    <2>2. spent \in Nat
        BY <1>8, <2>1
    <2> QED
        BY <2>1, <2>2
<1>10. l \in Nat /\ tc \in Nat /\ tr \in Nat /\ cost \in Nat /\ sofar \in Nat
    <2>1. lane \in {"fast", "slow"} /\ position \in DOMAIN LaneResources[lane] /\ fetches \in Nat
        BY DEF Crawling, PositionSound
    <2>2. CostOf[x] \in Nat
        BY <1>4, CostFacts
    <2> QED
        BY <1>4, <1>6, <1>8, <2>1, <2>2, LaneCost
<1>11. sofar + (cost + tr) <= l + spent
    <2>1. fetches + Total(Mapped(CostOf, agenda))
             <= LaneBudget(lane, position) + FetchesBefore(Current.def, turn.strategy) + Spent(Strategy, turn)
        BY <1>1 DEF WithinBudget
    <2>2. Spent(Strategy, turn) \in Nat /\ FetchesBefore(Current.def, turn.strategy) \in Nat
        BY <1>1, SpentAtMost
    <2>3. l + FetchesBefore(Current.def, turn.strategy) + Spent(Strategy, turn) = l + spent
        BY <1>8, <1>10, <2>2
    <2>4. Total(Mapped(CostOf, agenda)) = cost + tr
        BY <1>4, <1>8
    <2> QED
        BY <1>8, <2>1, <2>3, <2>4
<1>12. own + tc <= cost
    BY <1>6, <1>8
<1>13. sofar + (tc + tr) <= l
    BY <1>9, <1>10, <1>11, <1>12
<1>14. CASE agenda' = <<>>
    <2>1. sofar <= l
        BY <1>10, <1>13
    <2> QED
        BY <1>2, <1>8, <1>14, <2>1 DEF WithinBudget
<1>15. CASE agenda' # <<>>
    <2>1. PICK y : y = Current'
        OBVIOUS
    <2>2. y.def \in Definitions
        <3>1. agenda' \in Seq(Executions)
            BY DEF Crawling, AgendaSound
        <3>2. y \in Executions
            BY <1>15, <2>1, <3>1 DEF Current
        <3> QED
            BY <3>2 DEF Executions
    <2>3. turn'.strategy = 1 /\ turn'.doing = "choosing"
        BY <1>2 DEF Fresh
    <2>4. FetchesBefore(Current'.def, turn'.strategy) = 0
        BY <2>1, <2>2, <2>3, DefinitionCost
    <2>5. \A s : Spent(s, turn') = 0 /\ KindFits(s, turn')
        BY <2>3 DEF Spent, KindFits
    <2>6. fetches' + Total(Mapped(CostOf, agenda')) <= LaneBudget(lane', position') + 0 + 0
        BY <1>2, <1>7, <1>8, <1>10, <1>13
    <2> QED
        BY <1>15, <2>4, <2>5, <2>6 DEF WithinBudget
<1> QED
    BY <1>14, <1>15

\* A strategy that is given up leaves what it may have spent behind.
LEMMA NextStrategyCost ==
    ASSUME Crawling, Crawling', WithinBudget, Running, NextStrategy, UNCHANGED <<givenVars, position, raws, fetches>>
    PROVE  WithinBudget'
<1>1. agenda # <<>> /\ AgendaSound /\ KindFits(Strategy, turn)
    BY DEF Running, Crawling, WithinBudget
<1>2. CASE turn.strategy < Len(Current.def.strategies)
    <2>1. turn' = Fresh(turn.strategy + 1) /\ UNCHANGED <<agenda, tree, outcome>>
        BY <1>2 DEF NextStrategy
    <2>2. /\ lane' = lane /\ position' = position /\ agenda' = agenda /\ Current' = Current /\ fetches' = fetches
        BY <2>1 DEF givenVars, Current
    <2>3. turn'.strategy = turn.strategy + 1 /\ turn'.doing = "choosing"
        BY <2>1 DEF Fresh
    <2>4. \A s : Spent(s, turn') = 0 /\ KindFits(s, turn')
        BY <2>3 DEF Spent, KindFits
    <2>5. PICK l, t, b, c, s : /\ l = LaneBudget(lane, position) /\ t = Total(Mapped(CostOf, agenda))
                               /\ b = FetchesBefore(Current.def, turn.strategy)
                               /\ c = FetchesBefore(Current.def, turn.strategy + 1) /\ s = Spent(Strategy, turn)
        OBVIOUS
    <2>6. b \in Nat /\ c \in Nat /\ s \in Nat /\ b + s <= c
        BY <1>1, <2>5, SpentAtMost
    <2>7. l \in Nat /\ t \in Nat /\ fetches \in Nat
        <3>1. lane \in {"fast", "slow"} /\ position \in DOMAIN LaneResources[lane] /\ fetches \in Nat
            BY DEF Crawling, PositionSound
        <3> QED
            BY <1>1, <2>5, <3>1, LaneCost, AgendaIsShallow
    <2>8. fetches + t <= l + b + s
        BY <1>1, <2>5 DEF WithinBudget
    <2>9. fetches + t <= l + c + 0
        BY <2>6, <2>7, <2>8
    <2>10. fetches' + Total(Mapped(CostOf, agenda'))
             <= LaneBudget(lane', position') + FetchesBefore(Current'.def, turn'.strategy) + 0
        BY <2>2, <2>3, <2>5, <2>9
    <2> QED
        BY <1>1, <2>2, <2>4, <2>10 DEF WithinBudget
<1>3. CASE ~(turn.strategy < Len(Current.def.strategies)) /\ Current.owner = <<>> /\ Current.def.required
    <2>1. UNCHANGED <<agenda, turn>>
        BY <1>3 DEF NextStrategy
    <2>2. lane' = lane /\ position' = position /\ fetches' = fetches /\ Current' = Current /\ Strategy' = Strategy
        BY <2>1 DEF givenVars, Current, Strategy
    <2> QED
        BY <2>1, <2>2 DEF WithinBudget
<1>4. CASE ~(turn.strategy < Len(Current.def.strategies)) /\ ~(Current.owner = <<>> /\ Current.def.required)
    <2>1. Conclude(<<>>, 0)
        BY <1>4 DEF NextStrategy
    <2>2. <<>> \in Seq(AnyRecord) /\ Len(<<>>) = 0
        OBVIOUS
    <2>3. Len(<<>>) <= MostRecords(Strategy)
        <3>1. MostRecords(Strategy) \in Nat
            BY StrategyCost
        <3> QED
            BY <2>2, <3>1
    <2> QED
        BY <2>1, <2>2, <2>3, ConcludeCost
<1> QED
    BY <1>2, <1>3, <1>4

LEMMA GivingUpCosts ==
    ASSUME Crawling, Crawling', WithinBudget, SkipStrategy \/ WhenMismatch \/ TooManyPages
    PROVE  WithinBudget'
BY NextStrategyCost DEF SkipStrategy, WhenMismatch, TooManyPages

LEMMA BeginFetchCosts ==
    ASSUME Crawling, Crawling', WithinBudget, ReadInline \/ BeginFetch
    PROVE  WithinBudget'
<1>1. agenda # <<>> /\ UNCHANGED <<givenVars, position, agenda>> /\ turn \in Turns /\ turn.doing = "choosing" /\ fetches \in Nat
    BY DEF ReadInline, BeginFetch, Running, Crawling, TurnSound
<1>2. Spent(Strategy, turn) = 0
    BY <1>1 DEF Spent
<1>3. CASE ReadInline
    <2>1. PICK found \in MemberLists :
             turn' = [turn EXCEPT !.doing = "members", !.source = Current.owner,
                                  !.listed = found, !.refs = Truncated(Refs(found))]
        BY <1>3 DEF ReadInline
    <2>2. turn'.strategy = turn.strategy /\ turn'.doing = "members" /\ fetches' = fetches
        BY <1>1, <1>3, <2>1 DEF Turns, ReadInline
    <2>3. KindFits(Strategy, turn')
        BY <1>3, <2>2 DEF KindFits, ReadInline
    <2>4. Spent(Strategy, turn') \in Nat
        BY SpentFacts DEF Crawling, TurnSound
    <2>5. fetches' + Spent(Strategy, turn) <= fetches + Spent(Strategy, turn')
        BY <1>1, <1>2, <2>2, <2>4
    <2> QED
        BY <1>1, <2>2, <2>3, <2>5, TurnSpends
<1>4. CASE BeginFetch
    <2>1. PICK doing \in {"reuse", "root"} : turn' = [turn EXCEPT !.doing = doing, !.source = Source(Strategy)]
        BY <1>4 DEF BeginFetch
    <2>2. turn'.strategy = turn.strategy /\ turn'.doing = doing
        BY <1>1, <2>1 DEF Turns
    <2>3. fetches' = fetches \/ fetches' = fetches + 1
        BY <1>4 DEF BeginFetch
    <2>4. KindFits(Strategy, turn')
        BY <1>4, <2>2 DEF KindFits, BeginFetch
    <2>5. Spent(Strategy, turn') = 1
        BY <2>2 DEF Spent
    <2>6. fetches' + Spent(Strategy, turn) <= fetches + Spent(Strategy, turn')
        <3>1. PICK a, b : a = Spent(Strategy, turn) /\ b = Spent(Strategy, turn')
            OBVIOUS
        <3>2. a = 0 /\ b = 1
            BY <1>2, <2>5, <3>1
        <3>3. fetches' + a <= fetches + b
            BY <1>1, <2>3, <3>2
        <3> QED
            BY <3>1, <3>3
    <2> QED
        BY <1>1, <2>2, <2>4, <2>6, TurnSpends
<1> QED
    BY <1>3, <1>4

LEMMA GotObjectCosts ==
    ASSUME Crawling, Crawling', WithinBudget, GotObject
    PROVE  WithinBudget'
<1>1. /\ agenda # <<>> /\ Running /\ turn.doing \in {"root", "reuse"} /\ Strategy.kind = "object"
      /\ UNCHANGED <<givenVars, position, fetches>>
    BY DEF GotObject, HasRoot, Running
<1>2. PICK body \in Bodies : Conclude(<<Record(<<turn.strategy, 0>>, body)>>, turn.strategy)
    BY DEF GotObject
<1>3. turn.source \in Paths
    BY <1>1 DEF Crawling, TurnSound
<1>4. Record(<<turn.strategy, 0>>, body) \in AnyRecord
    <2>1. <<turn.strategy, 0>> \in Nat \X Nat
        BY <1>1, StrategyFacts
    <2> QED
        BY <1>1, <1>3, <2>1, ARecord
<1>5. PICK records : records = <<Record(<<turn.strategy, 0>>, body)>>
    OBVIOUS
<1>6. records \in Seq(AnyRecord) /\ Len(records) = 1
    BY <1>4, <1>5
<1>7. MostRecords(Strategy) = 1
    BY <1>1 DEF MostRecords
<1>8. Conclude(records, turn.strategy) /\ Len(records) <= MostRecords(Strategy)
    BY <1>2, <1>5, <1>6, <1>7
<1> QED
    BY <1>1, <1>6, <1>8, ConcludeCost

LEMMA EndMembersCosts ==
    ASSUME Crawling, Crawling', WithinBudget, EndMembers
    PROVE  WithinBudget'
<1>1. /\ agenda # <<>> /\ Running /\ turn.doing = "members" /\ turn.refs = <<>>
      /\ UNCHANGED <<givenVars, position, fetches>>
      /\ Conclude(turn.records, turn.strategy)
    BY DEF EndMembers, Running
<1>2. turn.records \in Seq(AnyRecord) /\ Len(turn.records) + Len(turn.refs) <= max_members
    BY <1>1 DEF Crawling, TurnSound, Turns
<1>3. Strategy.kind \in {"collection", "inline-collection"}
    BY <1>1 DEF WithinBudget, KindFits
<1>4. MostRecords(Strategy) = max_members
    BY <1>3 DEF MostRecords
<1>5. Len(turn.records) <= max_members
    <2>1. Len(turn.refs) = 0 /\ Len(turn.records) \in Nat
        BY <1>1, <1>2
    <2> QED
        BY <1>2, <2>1
<1> QED
    BY <1>1, <1>2, <1>4, <1>5, ConcludeCost

LEMMA PagesCost ==
    ASSUME Crawling, Crawling', WithinBudget, GotPage \/ NextPage
    PROVE  WithinBudget'
<1>1. /\ agenda # <<>> /\ UNCHANGED <<givenVars, position, agenda>> /\ turn \in Turns /\ fetches \in Nat
      /\ KindFits(Strategy, turn) /\ turn.pages \in 0 .. max_pages /\ max_pages \in Nat \ {0} /\ max_members \in Nat
    BY TurnParts, SchemaAssumption DEF GotPage, NextPage, Running, Crawling, TurnSound, WithinBudget, SchemaAssumption
<1>2. CASE NextPage
    <2>1. turn.doing = "paging" /\ turn' = [turn EXCEPT !.doing = "page"] /\ fetches' = fetches + 1
        BY <1>2 DEF NextPage
    <2>2. turn'.strategy = turn.strategy /\ turn'.doing = "page" /\ turn'.pages = turn.pages
        BY <1>1, <2>1 DEF Turns
    <2>3. KindFits(Strategy, turn')
        BY <1>1, <2>1, <2>2 DEF KindFits
    <2>4. Spent(Strategy, turn) = turn.pages /\ Spent(Strategy, turn') = turn.pages + 1
        BY <2>1, <2>2 DEF Spent
    <2>5. fetches' + Spent(Strategy, turn) <= fetches + Spent(Strategy, turn')
        BY <1>1, <2>1, <2>4
    <2> QED
        BY <1>1, <2>2, <2>3, <2>5, TurnSpends
<1>3. CASE GotPage
    <2>1. turn.doing = "page" \/ (turn.doing \in {"root", "reuse"} /\ Strategy.kind = "collection")
        BY <1>3 DEF GotPage, HasRoot
    <2>2. Strategy.kind = "collection" /\ fetches' = fetches
        BY <1>1, <1>3, <2>1 DEF KindFits, GotPage
    <2>3. /\ turn'.strategy = turn.strategy /\ turn'.pages = turn.pages + 1 /\ turn'.records = turn.records
          /\ turn'.doing \in {"paging", "members"}
        <3>1. PICK found \in MemberLists, next \in BOOLEAN :
                 turn' = [turn EXCEPT !.doing = IF next THEN "paging" ELSE "members",
                                      !.listed = turn.listed \o found,
                                      !.refs = IF next THEN turn.refs \o Refs(found) ELSE Truncated(turn.refs \o Refs(found)),
                                      !.pages = turn.pages + 1,
                                      !.more = next]
            BY <1>1, <1>3 DEF GotPage, Turns
        <3> QED
            BY <1>1, <3>1 DEF Turns
    <2>4. KindFits(Strategy, turn')
        BY <2>2, <2>3 DEF KindFits
    <2>5. Spent(Strategy, turn) = turn.pages + 1
        <3>1. turn.doing \in {"root", "reuse"} => turn.pages = 0
            BY DEF Crawling, TurnSound
        <3> QED
            BY <2>1, <3>1 DEF Spent
    <2>6. turn.pages + 1 <= max_pages
        <3>1. turn.doing = "page" => turn.pages < max_pages
            BY DEF Crawling, TurnSound
        <3>2. turn.doing \in {"root", "reuse"} => turn.pages = 0
            BY DEF Crawling, TurnSound
        <3> QED
            BY <1>1, <2>1, <3>1, <3>2
    <2>7. Len(turn'.records) \in Nat
        <3>1. turn' \in Turns
            BY DEF Crawling, TurnSound
        <3> QED
            BY <3>1, TurnParts
    <2>8. turn.pages + 1 <= Spent(Strategy, turn')
        <3>1. CASE turn'.doing = "paging"
            <4>1. Spent(Strategy, turn') = turn.pages + 1
                BY <2>3, <3>1 DEF Spent
            <4> QED
                BY <1>1, <4>1
        <3>2. CASE turn'.doing = "members"
            <4>1. Spent(Strategy, turn') = max_pages + Len(turn'.records)
                BY <2>2, <3>2 DEF Spent, Pages
            <4> QED
                BY <1>1, <2>6, <2>7, <4>1
        <3> QED
            BY <2>3, <3>1, <3>2
    <2>9. Spent(Strategy, turn') \in Nat
        BY SpentFacts DEF Crawling, TurnSound
    <2>10. fetches' + Spent(Strategy, turn) <= fetches + Spent(Strategy, turn')
        BY <1>1, <2>2, <2>5, <2>8, <2>9
    <2> QED
        BY <1>1, <2>3, <2>4, <2>10, TurnSpends
<1> QED
    BY <1>2, <1>3

LEMMA MembersCost ==
    ASSUME Crawling, Crawling', WithinBudget, FetchMember \/ GotMember \/ DropMember
    PROVE  WithinBudget'
<1>1. /\ agenda # <<>> /\ UNCHANGED <<givenVars, position, agenda>> /\ turn \in Turns /\ turn' \in Turns /\ fetches \in Nat
      /\ turn.doing \in {"members", "member"} /\ KindFits(Strategy, turn)
    BY DEF FetchMember, GotMember, DropMember, Running, Crawling, TurnSound, WithinBudget
<1>2. /\ turn.records \in Seq(AnyRecord) /\ Len(turn.records) \in Nat /\ Len(turn'.records) \in Nat
      /\ Pages(Strategy) \in Nat
    BY <1>1, TurnParts, SchemaAssumption DEF SchemaAssumption, Pages
<1>3. /\ turn'.strategy = turn.strategy /\ turn'.doing \in {"members", "member"}
      /\ \/ /\ turn'.doing = "member" /\ turn.doing = "members" /\ fetches' = fetches + 1
            /\ Len(turn'.records) = Len(turn.records)
         \/ turn'.doing = "members" /\ fetches' = fetches /\ Len(turn'.records) = Len(turn.records) + 1
         \/ turn'.doing = turn.doing /\ turn.doing = "members" /\ fetches' = fetches /\ Len(turn'.records) = Len(turn.records)
    <2>1. CASE FetchMember
        <3>1. turn' = [turn EXCEPT !.doing = "member"] /\ fetches' = fetches + 1 /\ turn.doing = "members"
            BY <2>1 DEF FetchMember
        <3>2. turn'.strategy = turn.strategy /\ turn'.doing = "member" /\ turn'.records = turn.records
            BY <1>1, <3>1 DEF Turns
        <3> QED
            BY <3>1, <3>2
    <2>2. CASE GotMember
        <3>1. PICK body \in Bodies : turn' = [turn EXCEPT !.doing = "members", !.refs = Tail(turn.refs),
                                                         !.records = Append(turn.records, Record(Head(turn.refs).member, body))]
            BY <2>2 DEF GotMember, Keep
        <3>2. fetches' = fetches
            BY <2>2 DEF GotMember
        <3>3. /\ turn'.strategy = turn.strategy /\ turn'.doing = "members"
              /\ turn'.records = Append(turn.records, Record(Head(turn.refs).member, body))
            BY <1>1, <3>1 DEF Turns
        <3>4. \A r : Len(Append(turn.records, r)) = Len(turn.records) + 1
            BY <1>2
        <3>5. Len(turn'.records) = Len(turn.records) + 1
            BY <3>3, <3>4
        <3> QED
            BY <3>2, <3>3, <3>5
    <2>3. CASE DropMember
        <3>1. turn' = [turn EXCEPT !.refs = Tail(turn.refs)] /\ fetches' = fetches /\ turn.doing = "members"
            BY <2>3 DEF DropMember
        <3>2. turn'.strategy = turn.strategy /\ turn'.doing = turn.doing /\ turn'.records = turn.records
            BY <1>1, <3>1 DEF Turns
        <3> QED
            BY <3>1, <3>2
    <2> QED
        BY <2>1, <2>2, <2>3
<1>4. KindFits(Strategy, turn')
    BY <1>1, <1>3 DEF KindFits
<1>5. \A t : t.doing \in {"members", "member"} =>
         Spent(Strategy, t) = IF t.doing = "member" THEN Pages(Strategy) + Len(t.records) + 1 ELSE Pages(Strategy) + Len(t.records)
    BY DEF Spent
<1>6. fetches' + Spent(Strategy, turn) <= fetches + Spent(Strategy, turn')
    <2>1. PICK p, a, b : p = Pages(Strategy) /\ a = Len(turn.records) /\ b = Len(turn'.records)
        OBVIOUS
    <2>2. p \in Nat /\ a \in Nat /\ b \in Nat
        BY <1>2, <2>1
    <2>3. /\ Spent(Strategy, turn) = IF turn.doing = "member" THEN p + a + 1 ELSE p + a
          /\ Spent(Strategy, turn') = IF turn'.doing = "member" THEN p + b + 1 ELSE p + b
        BY <1>1, <1>3, <1>5, <2>1
    <2>4. PICK x, y : x = Spent(Strategy, turn) /\ y = Spent(Strategy, turn')
        OBVIOUS
    <2>5. \/ x = p + a /\ y = p + b + 1 /\ b = a /\ fetches' = fetches + 1
          \/ x \in {p + a, p + a + 1} /\ y = p + b /\ b = a + 1 /\ fetches' = fetches
          \/ x = p + a /\ y = p + b /\ b = a /\ fetches' = fetches
        BY <1>1, <1>3, <2>1, <2>3, <2>4
    <2>6. fetches' + x <= fetches + y
        BY <1>1, <2>2, <2>5
    <2> QED
        BY <2>4, <2>6
<1> QED
    BY <1>1, <1>3, <1>4, <1>6, TurnSpends

LEMMA FetchRaisesCosts ==
    ASSUME Crawling, WithinBudget, FetchRaises
    PROVE  WithinBudget'
<1>1. /\ lane' = lane /\ position' = position /\ agenda' = agenda /\ turn' = turn /\ fetches' = fetches
      /\ Current' = Current /\ Strategy' = Strategy
    BY DEF FetchRaises, givenVars, Current, Strategy
<1> QED
    BY <1>1 DEF WithinBudget

\* A resource of the lane that begins has its whole budget.
LEMMA TopLevelCost ==
    ASSUME NEW l \in {"fast", "slow"}, NEW i \in DOMAIN LaneResources[l], NEW ctx, NEW f \in Nat, f <= LaneBudget(l, i - 1),
           AgendaSound', agenda' = <<TopLevel(LaneResources[l][i], ctx)>>, turn' = Fresh(1),
           lane' = l, position' = i, fetches' = f
    PROVE  WithinBudget'
<1>1. PICK x : x = TopLevel(LaneResources[l][i], ctx)
    OBVIOUS
<1>2. x.depth = 0 /\ x.def = Resources[LaneResources[l][i]] /\ agenda' = <<x>> /\ agenda' # <<>> /\ Current' = x
    BY <1>1 DEF TopLevel, Execution, Current
<1>3. x \in Executions /\ x.def \in Definitions
    <2>1. agenda' \in Seq(Executions)
        BY DEF AgendaSound
    <2>2. x \in Executions
        BY <1>2, <2>1
    <2> QED
        BY <2>2 DEF Executions
<1>4. x \in Shallow /\ CostOf[x] = FetchBudget[max_depth][x.def]
    <2>1. max_depth \in Nat /\ max_depth - 0 = max_depth
        BY SchemaAssumption DEF SchemaAssumption
    <2>2. x \in Shallow
        BY <1>2, <1>3, <2>1 DEF Shallow
    <2> QED
        BY <1>2, <2>1, <2>2 DEF CostOf
<1>5. CostOf[x] \in Nat
    BY <1>4, CostFacts
<1>6. Total(Mapped(CostOf, <<x>>)) = CostOf[x]
    <2>1. Mapped(CostOf, <<x>>) = Append(<<>>, CostOf[x]) /\ <<>> \in Seq(Nat)
        BY DEF Mapped
    <2>2. Total(<<>>) = 0 /\ Total(Append(<<>>, CostOf[x])) = Total(<<>>) + CostOf[x]
        BY <1>5, <2>1, TotalFacts
    <2> QED
        BY <1>5, <2>1, <2>2
<1>7. turn'.strategy = 1 /\ turn'.doing = "choosing"
    BY DEF Fresh
<1>8. FetchesBefore(Current'.def, turn'.strategy) = 0
    BY <1>2, <1>3, <1>7, DefinitionCost
<1>9. \A s : Spent(s, turn') = 0 /\ KindFits(s, turn')
    BY <1>7 DEF Spent, KindFits
<1>10. fetches' + Total(Mapped(CostOf, agenda')) <= LaneBudget(lane', position') + 0 + 0
    <2>1. /\ LaneBudget(l, i) \in Nat /\ LaneBudget(l, i - 1) \in Nat
          /\ LaneBudget(l, i) = LaneBudget(l, i - 1) + CostOf[x]
        BY <1>2, <1>4, LaneCost
    <2>2. f + CostOf[x] <= LaneBudget(l, i) + 0 + 0
        BY <1>5, <2>1
    <2> QED
        BY <1>2, <1>6, <2>2
<1> QED
    BY <1>2, <1>8, <1>9, <1>10 DEF WithinBudget

LEMMA NextResourceCosts ==
    ASSUME Crawling, Crawling', WithinBudget, NextResource
    PROVE  WithinBudget'
<1>1. /\ agenda = <<>> /\ lane' = lane /\ bootstrap_ctx' = bootstrap_ctx /\ turn' = turn /\ turn = Fresh(1) /\ fetches' = fetches
      /\ fetches \in Nat /\ lane \in {"fast", "slow"} /\ position \in DOMAIN LaneResources[lane]
    BY DEF NextResource, givenVars, Crawling, TurnSound, PositionSound
<1>2. fetches <= LaneBudget(lane, position)
    BY <1>1 DEF WithinBudget
<1>3. CASE position < Len(LaneResources[lane])
    <2>1. position' = position + 1 /\ agenda' = <<TopLevel(LaneResources[lane][position + 1], bootstrap_ctx)>>
        BY <1>3 DEF NextResource
    <2>2. position + 1 \in DOMAIN LaneResources[lane] /\ position + 1 - 1 = position
        <3>1. LaneResources[lane] \in Seq(DOMAIN Resources)
            BY <1>1, SchemaAssumption DEF SchemaAssumption
        <3> QED
            BY <1>1, <1>3, <3>1
    <2>3. PICK l, i, f : l = lane /\ i = position + 1 /\ f = fetches
        OBVIOUS
    <2>4. /\ l \in {"fast", "slow"} /\ i \in DOMAIN LaneResources[l] /\ f \in Nat /\ f <= LaneBudget(l, i - 1)
          /\ agenda' = <<TopLevel(LaneResources[l][i], bootstrap_ctx)>> /\ turn' = Fresh(1)
          /\ lane' = l /\ position' = i /\ fetches' = f /\ AgendaSound'
        BY <1>1, <1>2, <2>1, <2>2, <2>3 DEF Crawling
    <2> QED
        BY <2>4, TopLevelCost
<1>4. CASE ~(position < Len(LaneResources[lane]))
    <2>1. UNCHANGED <<position, agenda>>
        BY <1>4 DEF NextResource
    <2> QED
        BY <1>1, <1>2, <2>1 DEF WithinBudget
<1> QED
    BY <1>3, <1>4

LEMMA CrawlStepCosts ==
    ASSUME Crawling, WithinBudget, CrawlStep
    PROVE  WithinBudget'
<1>1. Crawling'
    BY CrawlStepEstablishes
<1> QED
    BY <1>1, GivingUpCosts, BeginFetchCosts, GotObjectCosts, EndMembersCosts, PagesCost, MembersCost, FetchRaisesCosts,
       NextResourceCosts DEF CrawlStep

\* A crawl begins with nothing spent.
LEMMA CrawlBeginsCosts ==
    ASSUME lane \in {"fast", "slow"}, NEW reuse, CrawlBegins(lane, bootstrap_ctx, reuse), UNCHANGED givenVars,
           LaneResources[lane] # <<>>
    PROVE  WithinBudget'
<1>1. Crawling'
    BY CrawlBeginsEstablishes
<1>2. PICK l : l = lane
    OBVIOUS
<1>3. /\ l \in {"fast", "slow"} /\ 1 \in DOMAIN LaneResources[l] /\ AgendaSound'
      /\ agenda' = <<TopLevel(LaneResources[l][1], bootstrap_ctx)>> /\ turn' = Fresh(1)
      /\ lane' = l /\ position' = 1 /\ fetches' = 0
    <2>1. LaneResources[l] \in Seq(DOMAIN Resources)
        BY <1>2, SchemaAssumption DEF SchemaAssumption
    <2>2. 1 \in DOMAIN LaneResources[l]
        BY <1>2, <2>1
    <2> QED
        BY <1>1, <1>2, <2>2 DEF CrawlBegins, givenVars, Crawling
<1>4. 0 <= LaneBudget(l, 1 - 1)
    BY <1>3, LaneCost
<1> QED
    BY <1>3, <1>4, TopLevelCost

LEMMA CostStays ==
    ASSUME UNCHANGED <<givenVars, crawlVars>>, WithinBudget
    PROVE  WithinBudget'
BY DEF WithinBudget, crawlVars, givenVars, Current, Strategy

\* The budget of the lane is above that of its first resources.
LEMMA BudgetFollows ==
    /\ Crawling /\ WithinBudget => CrawlWithinBudget
    /\ lane \in {"fast", "slow"} /\ fetches = 0 => CrawlWithinBudget
<1>1. lane \in {"fast", "slow"} /\ fetches = 0 => CrawlWithinBudget
    BY LaneCost DEF CrawlWithinBudget
<1>2. ASSUME Crawling, WithinBudget
      PROVE  CrawlWithinBudget
    <2>1. lane \in {"fast", "slow"} /\ position \in DOMAIN LaneResources[lane] /\ fetches \in Nat
        BY <1>2 DEF Crawling, PositionSound
    <2>2. LaneBudget(lane, position) \in Nat /\ Budgets[lane] \in Nat /\ LaneBudget(lane, position) <= Budgets[lane]
        BY <2>1, LaneCost
    <2>3. CASE agenda = <<>>
        BY <1>2, <2>1, <2>2, <2>3 DEF WithinBudget, CrawlWithinBudget
    <2>4. CASE agenda # <<>>
        <3>1. /\ fetches + Total(Mapped(CostOf, agenda))
                   <= LaneBudget(lane, position) + FetchesBefore(Current.def, turn.strategy) + Spent(Strategy, turn)
              /\ KindFits(Strategy, turn)
            BY <1>2, <2>4 DEF WithinBudget
        <3>2. PICK l, b, s, own, t, c, r : /\ l = LaneBudget(lane, position) /\ b = FetchesBefore(Current.def, turn.strategy)
                                 /\ s = Spent(Strategy, turn) /\ own = OwnFetches(Current.def)
                                 /\ t = Total(Mapped(CostOf, agenda)) /\ c = CostOf[Current]
                                 /\ r = Total(Mapped(CostOf, Tail(agenda)))
            OBVIOUS
        <3>3. b \in Nat /\ s \in Nat /\ own \in Nat /\ b + s <= own
            <4>1. /\ s \in Nat /\ b \in Nat /\ own \in Nat /\ FetchesBefore(Current.def, turn.strategy + 1) \in Nat
                  /\ b + s <= FetchesBefore(Current.def, turn.strategy + 1)
                  /\ FetchesBefore(Current.def, turn.strategy + 1) <= own
                BY <1>2, <2>4, <3>1, <3>2, SpentAtMost
            <4> QED
                BY <4>1
        <3>4. Current \in Shallow /\ t \in Nat /\ r \in Nat /\ t = c + r
            BY <1>2, <2>4, <3>2, AgendaIsShallow DEF Crawling
        <3>5. own <= c /\ c \in Nat
            <4>1. PICK none : none = <<>>
                OBVIOUS
            <4>2. none \in Seq(AnyRecord) /\ Len(none) <= RecordsGiven(Current.def)
                <5>1. RecordsGiven(Current.def) \in Nat
                    BY <3>4, CostFacts, DefinitionCost
                <5>2. none \in Seq(AnyRecord) /\ Len(none) = 0
                    BY <4>1
                <5> QED
                    BY <5>1, <5>2
            <4>3. PICK k : k = Total(Mapped(CostOf, ChildExecutions(none)))
                OBVIOUS
            <4>4. k \in Nat /\ own + k <= c
                <5>1. AgendaSound
                    BY <1>2 DEF Crawling
                <5> QED
                    BY <2>4, <3>2, <3>4, <4>2, <4>3, <5>1, ChildrenCost
            <4>5. c \in Nat
                BY <3>2, <3>4, CostFacts
            <4> QED
                BY <3>3, <4>4, <4>5
        <3>6. fetches + t <= l + b + s
            BY <3>1, <3>2
        <3>7. fetches <= l
            BY <2>1, <2>2, <3>2, <3>3, <3>4, <3>5, <3>6
        <3> QED
            BY <2>1, <2>2, <3>2, <3>7 DEF CrawlWithinBudget
    <2> QED
        BY <2>3, <2>4
<1> QED
    BY <1>1, <1>2

-----------------------------------------------------------------------------
(* Collections are whole                                                   *)

Cap(n) == IF n > max_members THEN max_members ELSE n

\* The first p members of the list are dealt with: what is left to do are the others,
\* and the records are of those among the first that give one, in their order.
Left(t, p) == \A k \in 1 .. Len(t.refs) : t.refs[k] = [kind |-> t.listed[p + k], member |-> <<t.strategy, p + k>>]

Taken(t, p) ==
    /\ {t.records[n].member : n \in DOMAIN t.records} = {t.strategy} \X {i \in 1 .. p : t.listed[i] # "other"}
    /\ \A m, n \in DOMAIN t.records : m < n => t.records[m].member[2] < t.records[n].member[2]

\* Nothing is listed before the first body; the pages go on the list one after the
\* other; and then the list is cut, and taken from the front.
ListSound(t) ==
    /\ t.doing \in {"choosing", "root", "reuse"} => t.listed = <<>>
    /\ t.doing \in {"paging", "page"} => Len(t.refs) = Len(t.listed) /\ Left(t, 0)
    /\ t.doing \in {"members", "member"} =>
          \E p \in 0 .. Len(t.listed) : p + Len(t.refs) = Cap(Len(t.listed)) /\ Left(t, p) /\ Taken(t, p)
    /\ t.doing = "member" => t.refs[1].kind = "link"

Gathered == (\A e \in DOMAIN tree : Whole(tree[e])) /\ ListSound(turn)

LEMMA FreshList ==
    ASSUME NEW i
    PROVE  ListSound(Fresh(i))
BY DEF ListSound, Fresh

\* What is said of the next turn is said of the turn of the next state.
LEMMA ListThen ==
    ASSUME ListSound(turn')
    PROVE  ListSound(turn)'
<1>1. PICK t : t = turn'
    OBVIOUS
<1> QED
    BY <1>1 DEF ListSound, Left, Taken, Cap

\* A turn goes on.
LEMMA ListGoesOn ==
    ASSUME Gathered, tree' = tree, ListSound(turn')
    PROVE  Gathered'
<1>1. \A e \in DOMAIN tree' : Whole(tree'[e])
    BY DEF Gathered
<1>2. ListSound(turn)'
    BY ListThen
<1> QED
    BY <1>1, <1>2 DEF Gathered

\* An execution ends with an entry that is whole.
LEMMA ConcludeGathers ==
    ASSUME Crawling, Running, Gathered, NEW records \in Seq(AnyRecord), NEW strategy, Conclude(records, strategy),
           Whole(Executed(records, strategy))
    PROVE  Gathered'
<1>1. TreeSound /\ AgendaSound /\ agenda # <<>>
    BY DEF Crawling, Running
<1>2. HasConcluded(records, strategy)
    BY <1>1, Concluded
<1>3. \A e \in DOMAIN tree' : Whole(tree'[e])
    BY <1>2 DEF HasConcluded, Gathered
<1>4. turn' = Fresh(1)
    BY DEF Conclude
<1>5. ListSound(turn')
    BY <1>4, FreshList
<1>6. ListSound(turn)'
    BY <1>5, ListThen
<1> QED
    BY <1>3, <1>6 DEF Gathered

\* The next strategy begins with nothing on the list.
LEMMA NextStrategyGathers ==
    ASSUME Crawling, Running, Gathered, NextStrategy
    PROVE  Gathered'
<1>1. CASE turn' = Fresh(turn.strategy + 1) /\ tree' = tree
    BY <1>1, FreshList, ListGoesOn
<1>2. CASE turn' = turn /\ tree' = tree
    BY <1>2, ListGoesOn DEF Gathered
<1>3. CASE Conclude(<<>>, 0)
    <2>1. Whole(Executed(<<>>, 0)) /\ <<>> \in Seq(AnyRecord)
        BY DEF Whole, Executed
    <2> QED
        BY <1>3, <2>1, ConcludeGathers
<1> QED
    BY <1>1, <1>2, <1>3 DEF NextStrategy

LEMMA GotObjectGathers ==
    ASSUME Crawling, Gathered, GotObject
    PROVE  Gathered'
<1>1. PICK body \in Bodies : Conclude(<<Record(<<turn.strategy, 0>>, body)>>, turn.strategy)
    BY DEF GotObject
<1>2. Running /\ Strategy.kind = "object" /\ agenda # <<>> /\ turn.doing \in {"root", "reuse"}
    BY DEF GotObject, Running, HasRoot
<1>3. PICK records : records = <<Record(<<turn.strategy, 0>>, body)>>
    OBVIOUS
<1>4. records \in Seq(AnyRecord) /\ Len(records) = 1
    <2>1. turn.source \in Paths /\ <<turn.strategy, 0>> \in Nat \X Nat
        BY <1>2, StrategyFacts DEF Crawling, TurnSound
    <2>2. Record(<<turn.strategy, 0>>, body) \in AnyRecord
        BY <1>2, <2>1, ARecord
    <2> QED
        BY <1>3, <2>2
<1>5. Whole(Executed(records, turn.strategy))
    <2>1. Executed(records, turn.strategy).kind = "object" /\ Executed(records, turn.strategy).records = records
        BY <1>2, StrategyFacts DEF Executed
    <2> QED
        BY <1>4, <2>1 DEF Whole
<1> QED
    BY <1>1, <1>2, <1>3, <1>4, <1>5, ConcludeGathers

\* All that was chosen from the list is there when nothing is left to do.
LEMMA EndMembersGathers ==
    ASSUME Crawling, WithinBudget, Gathered, EndMembers
    PROVE  Gathered'
<1>1. /\ Running /\ agenda # <<>> /\ turn.doing = "members" /\ turn.refs = <<>>
      /\ Conclude(turn.records, turn.strategy)
    BY DEF EndMembers, Running
<1>2. Strategy.kind \in {"collection", "inline-collection"} /\ turn.strategy # 0 /\ turn.strategy \in Nat
    BY <1>1, StrategyFacts DEF WithinBudget, KindFits
<1>3. ~turn.more /\ turn.listed \in Seq(Kinds) /\ turn.records \in Seq(AnyRecord)
    BY <1>1, TurnParts DEF Crawling, TurnSound
<1>4. PICK p \in 0 .. Len(turn.listed) : p + Len(turn.refs) = Cap(Len(turn.listed)) /\ Taken(turn, p)
    BY <1>1 DEF Gathered, ListSound
<1>5. {i \in 1 .. p : turn.listed[i] # "other"} = Chosen(turn.listed)
    <2>1. max_members \in Nat /\ Len(turn.listed) \in Nat /\ DOMAIN turn.listed = 1 .. Len(turn.listed)
        BY <1>3, SchemaAssumption DEF SchemaAssumption
    <2>2. p = Cap(Len(turn.listed))
        BY <1>1, <1>4, <2>1
    <2> QED
        BY <2>1, <2>2 DEF Chosen, Cap
<1> DEFINE e == Executed(turn.records, turn.strategy)
<1>6. /\ e.kind = Strategy.kind /\ e.records = turn.records /\ e.strategy = turn.strategy
      /\ e.listed = turn.listed /\ e.more = turn.more
    BY <1>2 DEF Executed
<1> HIDE DEF e
<1>7. Whole(e)
    BY <1>2, <1>3, <1>4, <1>5, <1>6 DEF Whole, AllChosen, Taken
<1> QED
    BY <1>1, <1>3, <1>7, ConcludeGathers DEF e

\* Truncated leaves the front of the list.
LEMMA TruncatedIsFront ==
    ASSUME NEW T, NEW refs \in Seq(T)
    PROVE  /\ Len(Truncated(refs)) = Cap(Len(refs)) /\ Cap(Len(refs)) <= Len(refs)
           /\ \A k \in 1 .. Cap(Len(refs)) : Truncated(refs)[k] = refs[k]
<1>1. max_members \in Nat /\ Len(refs) \in Nat
    BY SchemaAssumption DEF SchemaAssumption
<1>2. CASE Len(refs) > max_members
    BY <1>1, <1>2 DEF Truncated, Cap
<1>3. CASE ~(Len(refs) > max_members)
    BY <1>1, <1>3 DEF Truncated, Cap
<1> QED
    BY <1>2, <1>3

\* The list is complete: it is cut, and nothing has been taken from it.
LEMMA ListIsCut ==
    ASSUME NEW t \in Turns, NEW refs \in Seq(AnyRef), Len(refs) = Len(t.listed), t.refs = Truncated(refs),
           \A k \in 1 .. Len(refs) : refs[k] = [kind |-> t.listed[k], member |-> <<t.strategy, k>>],
           t.records = <<>>, t.doing = "members"
    PROVE  ListSound(t)
<1>1. t.listed \in Seq(Kinds) /\ Len(t.listed) \in Nat /\ t.refs \in Seq(AnyRef) /\ max_members \in Nat
    BY TurnParts, SchemaAssumption DEF SchemaAssumption
<1>2. /\ Len(t.refs) = Cap(Len(t.listed)) /\ Len(t.refs) <= Len(refs) /\ Len(t.refs) \in Nat
      /\ \A k \in 1 .. Len(t.refs) : t.refs[k] = refs[k]
    <2>1. PICK u : u = Truncated(refs)
        OBVIOUS
    <2>2. PICK c : c = Cap(Len(refs))
        OBVIOUS
    <2>3. Len(u) = c /\ c <= Len(refs) /\ \A k \in 1 .. c : u[k] = refs[k]
        BY <2>1, <2>2, TruncatedIsFront
    <2>4. t.refs = u /\ Cap(Len(t.listed)) = c /\ Len(u) \in Nat
        BY <1>1, <2>1, <2>2
    <2> QED
        BY <2>3, <2>4
<1>3. Left(t, 0)
    <2> SUFFICES ASSUME NEW k \in 1 .. Len(t.refs)
                 PROVE  t.refs[k] = [kind |-> t.listed[0 + k], member |-> <<t.strategy, 0 + k>>]
        BY DEF Left
    <2>1. k \in 1 .. Len(refs) /\ 0 + k = k
        BY <1>1, <1>2
    <2> QED
        BY <1>2, <2>1
<1>4. Taken(t, 0)
    BY DEF Taken
<1>5. 0 \in 0 .. Len(t.listed) /\ 0 + Len(t.refs) = Cap(Len(t.listed))
    BY <1>1, <1>2
<1> QED
    BY <1>3, <1>4, <1>5 DEF ListSound

LEMMA ReadInlineGathers ==
    ASSUME Crawling, Crawling', Gathered, ReadInline
    PROVE  Gathered'
<1>1. turn \in Turns /\ turn' \in Turns /\ turn.doing = "choosing" /\ turn.records = <<>> /\ tree' = tree
    BY DEF ReadInline, Crawling, TurnSound
<1>2. PICK found \in MemberLists :
         turn' = [turn EXCEPT !.doing = "members", !.source = Current.owner,
                              !.listed = found, !.refs = Truncated(Refs(found))]
    BY DEF ReadInline
<1>3. /\ turn'.doing = "members" /\ turn'.listed = found /\ turn'.refs = Truncated(Refs(found))
      /\ turn'.records = <<>> /\ turn'.strategy = turn.strategy
    BY <1>1, <1>2 DEF Turns
<1>4. Len(turn.listed) = 0
    BY <1>1 DEF Gathered, ListSound
<1>5. found \in Seq(Kinds)
    BY SchemaAssumption DEF SchemaAssumption, Kinds
<1>6. /\ Refs(found) \in Seq(AnyRef) /\ Len(Refs(found)) = Len(found)
      /\ \A i \in 1 .. Len(found) : Refs(found)[i] = [kind |-> found[i], member |-> <<turn.strategy, Len(turn.listed) + i>>]
    BY <1>1, <1>5, RefsFacts
<1>7. \A i \in 1 .. Len(found) : Refs(found)[i] = [kind |-> found[i], member |-> <<turn.strategy, i>>]
    BY <1>4, <1>6
<1>8. PICK refs : refs = Refs(found)
    OBVIOUS
<1>9. ListSound(turn')
    BY <1>1, <1>3, <1>6, <1>7, <1>8, ListIsCut
<1> QED
    BY <1>1, <1>9, ListGoesOn

LEMMA GotPageGathers ==
    ASSUME Crawling, Crawling', Gathered, GotPage
    PROVE  Gathered'
<1>1. turn \in Turns /\ turn' \in Turns /\ turn.doing \in {"page", "root", "reuse"} /\ turn.records = <<>> /\ tree' = tree
    BY DEF GotPage, HasRoot, Crawling, TurnSound
<1>2. PICK found \in MemberLists, next \in BOOLEAN :
         turn' = [turn EXCEPT !.doing = IF next THEN "paging" ELSE "members",
                              !.listed = turn.listed \o found,
                              !.refs = IF next THEN turn.refs \o Refs(found) ELSE Truncated(turn.refs \o Refs(found)),
                              !.pages = turn.pages + 1,
                              !.more = next]
    BY <1>1 DEF GotPage, Turns
<1> DEFINE listed == turn.listed \o found
           refs == turn.refs \o Refs(found)
<1>3. /\ turn'.doing = (IF next THEN "paging" ELSE "members") /\ turn'.listed = listed
      /\ turn'.refs = (IF next THEN refs ELSE Truncated(refs))
      /\ turn'.records = <<>> /\ turn'.strategy = turn.strategy
    BY <1>1, <1>2 DEF Turns
<1>4. /\ Len(turn.refs) = Len(turn.listed)
      /\ \A k \in 1 .. Len(turn.refs) : turn.refs[k] = [kind |-> turn.listed[k], member |-> <<turn.strategy, k>>]
    <2>1. CASE turn.doing = "page"
        <3>1. Len(turn.refs) = Len(turn.listed) /\ Left(turn, 0) /\ Len(turn.refs) \in Nat
            BY <1>1, <2>1, TurnParts DEF Gathered, ListSound
        <3>2. \A k \in 1 .. Len(turn.refs) : 0 + k = k
            BY <3>1
        <3> QED
            BY <3>1, <3>2 DEF Left
    <2>2. CASE turn.doing \in {"root", "reuse"}
        <3>1. turn.listed = <<>> /\ turn.refs = <<>>
            BY <2>2 DEF Gathered, ListSound, Crawling, TurnSound
        <3> QED
            BY <3>1
    <2> QED
        BY <1>1, <2>1, <2>2
<1>5. found \in Seq(Kinds) /\ turn.listed \in Seq(Kinds) /\ turn.refs \in Seq(AnyRef)
    BY <1>1, TurnParts, SchemaAssumption DEF SchemaAssumption, Kinds
<1>6. /\ Refs(found) \in Seq(AnyRef) /\ Len(Refs(found)) = Len(found)
      /\ \A i \in 1 .. Len(found) : Refs(found)[i] = [kind |-> found[i], member |-> <<turn.strategy, Len(turn.listed) + i>>]
    BY <1>1, <1>5, RefsFacts
<1>7. refs \in Seq(AnyRef) /\ Len(refs) = Len(listed) /\ Len(refs) \in Nat
    <2>1. PICK r : r = Refs(found)
        OBVIOUS
    <2>2. r \in Seq(AnyRef) /\ Len(r) = Len(found)
        BY <1>6, <2>1
    <2>3. /\ turn.refs \o r \in Seq(AnyRef) /\ Len(turn.refs \o r) = Len(turn.refs) + Len(r)
          /\ Len(turn.refs \o r) \in Nat
        <3>1. PICK q : q = turn.refs
            OBVIOUS
        <3>2. q \in Seq(AnyRef)
            BY <1>5, <3>1
        <3>3. q \o r \in Seq(AnyRef) /\ Len(q \o r) = Len(q) + Len(r)
            BY <2>2, <3>2
        <3> QED
            BY <3>1, <3>3
    <2>4. Len(turn.listed \o found) = Len(turn.listed) + Len(found)
        BY <1>5
    <2> QED
        BY <1>4, <2>1, <2>2, <2>3, <2>4
<1>8. ASSUME NEW k \in 1 .. Len(refs)
      PROVE  refs[k] = [kind |-> listed[k], member |-> <<turn.strategy, k>>]
    <2>1. CASE k \in 1 .. Len(turn.refs)
        <3>1. refs[k] = turn.refs[k] /\ listed[k] = turn.listed[k]
            BY <1>4, <1>5, <1>6, <2>1
        <3> QED
            BY <1>4, <2>1, <3>1
    <2>2. CASE k \notin 1 .. Len(turn.refs)
        <3>1. PICK i : i = k - Len(turn.refs)
            OBVIOUS
        <3>2. i \in 1 .. Len(found) /\ k = Len(turn.listed) + i
            BY <1>4, <1>5, <1>6, <2>2, <3>1
        <3>3. refs[k] = Refs(found)[i] /\ listed[k] = found[i]
            BY <1>4, <1>5, <1>6, <2>2, <3>1, <3>2
        <3> QED
            BY <1>6, <3>2, <3>3
    <2> QED
        BY <2>1, <2>2
<1> HIDE DEF listed, refs
<1>9. ListSound(turn')
    <2>1. PICK t : t = turn'
        OBVIOUS
    <2>2. CASE next
        <3>1. t.doing = "paging" /\ t.refs = refs /\ t.listed = listed /\ t.strategy = turn.strategy
            BY <1>3, <2>1, <2>2
        <3>2. Left(t, 0)
            <4> SUFFICES ASSUME NEW k \in 1 .. Len(t.refs)
                         PROVE  t.refs[k] = [kind |-> t.listed[0 + k], member |-> <<t.strategy, 0 + k>>]
                BY DEF Left
            <4>1. k \in 1 .. Len(refs) /\ 0 + k = k
                BY <1>7, <3>1
            <4> QED
                BY <1>8, <3>1, <4>1
        <3>3. ListSound(t)
            BY <1>7, <3>1, <3>2 DEF ListSound
        <3> QED
            BY <2>1, <3>3
    <2>3. CASE ~next
        <3>1. t.doing = "members" /\ t.refs = Truncated(refs) /\ t.listed = listed /\ t.strategy = turn.strategy /\ t.records = <<>>
            BY <1>3, <2>1, <2>3
        <3>2. ListSound(t)
            BY <1>1, <1>7, <1>8, <2>1, <3>1, ListIsCut
        <3> QED
            BY <2>1, <3>2
    <2> QED
        BY <2>2, <2>3
<1> QED
    BY <1>1, <1>9, ListGoesOn

\* The next member is dealt with: a record is made of it, or it gives none.
LEMMA OneMemberMore ==
    ASSUME NEW t \in Turns, NEW q \in Turns, ListSound(t), t.doing \in {"members", "member"}, t.refs # <<>>,
           q.doing = "members", q.listed = t.listed, q.strategy = t.strategy, q.refs = Tail(t.refs),
           \/ /\ t.refs[1].kind # "other"
              /\ \E r \in AnyRecord : r.member = t.refs[1].member /\ q.records = Append(t.records, r)
           \/ t.refs[1].kind = "other" /\ q.records = t.records
    PROVE  ListSound(q)
<1>1. PICK p \in 0 .. Len(t.listed) : p + Len(t.refs) = Cap(Len(t.listed)) /\ Left(t, p) /\ Taken(t, p)
    BY DEF ListSound
<1>2. /\ t.refs \in Seq(AnyRef) /\ t.records \in Seq(AnyRecord) /\ t.listed \in Seq(Kinds) /\ t.strategy \in Nat
      /\ Len(t.listed) \in Nat /\ max_members \in Nat
    BY TurnParts, SchemaAssumption DEF SchemaAssumption
<1>3. /\ Len(q.refs) = Len(t.refs) - 1 /\ Len(t.refs) \in Nat \ {0}
      /\ \A k \in 1 .. Len(q.refs) : q.refs[k] = t.refs[k + 1]
    BY <1>2
<1>4. Cap(Len(t.listed)) <= Len(t.listed) /\ Cap(Len(t.listed)) \in Nat
    BY <1>2 DEF Cap
<1>5. p + 1 \in 0 .. Len(q.listed) /\ p + 1 + Len(q.refs) = Cap(Len(q.listed))
    <2>1. PICK c : c = Cap(Len(t.listed))
        OBVIOUS
    <2>2. p \in Nat /\ c \in Nat /\ c <= Len(t.listed) /\ p + Len(t.refs) = c
        BY <1>1, <1>4, <2>1
    <2>3. PICK n, m, l : n = Len(t.refs) /\ m = Len(q.refs) /\ l = Len(t.listed)
        OBVIOUS
    <2>4. n \in Nat \ {0} /\ m = n - 1 /\ l \in Nat /\ p + n = c /\ c <= l
        BY <1>2, <1>3, <2>2, <2>3
    <2>5. p + 1 \in 0 .. l /\ p + 1 + m = c
        BY <2>2, <2>4
    <2> QED
        BY <2>1, <2>3, <2>5
<1>6. t.refs[1] = [kind |-> t.listed[p + 1], member |-> <<t.strategy, p + 1>>]
    <2>1. 1 \in 1 .. Len(t.refs)
        BY <1>3
    <2> QED
        BY <1>1, <2>1 DEF Left
<1>7. Left(q, p + 1)
    <2> SUFFICES ASSUME NEW k \in 1 .. Len(q.refs)
                 PROVE  q.refs[k] = [kind |-> q.listed[p + 1 + k], member |-> <<q.strategy, p + 1 + k>>]
        BY DEF Left
    <2>1. k + 1 \in 1 .. Len(t.refs) /\ p + (k + 1) = p + 1 + k
        BY <1>3
    <2>2. t.refs[k + 1] = [kind |-> t.listed[p + (k + 1)], member |-> <<t.strategy, p + (k + 1)>>]
        BY <1>1, <2>1 DEF Left
    <2> QED
        BY <1>3, <2>1, <2>2
<1>8. Taken(q, p + 1)
    <2> DEFINE Members(records) == {records[n].member : n \in DOMAIN records}
               before == {i \in 1 .. p : t.listed[i] # "other"}
               now == {i \in 1 .. p + 1 : t.listed[i] # "other"}
    <2>1. Members(t.records) = {t.strategy} \X before
        BY <1>1 DEF Taken
    <2>2. p \in Nat
        OBVIOUS
    <2>3. CASE t.refs[1].kind = "other" /\ q.records = t.records
        <3>1. now = before
            BY <1>6, <2>2, <2>3
        <3> QED
            BY <1>1, <2>3, <3>1 DEF Taken
    <2>4. CASE t.refs[1].kind # "other" /\ \E r \in AnyRecord : r.member = t.refs[1].member /\ q.records = Append(t.records, r)
        <3>1. PICK r \in AnyRecord : r.member = <<t.strategy, p + 1>> /\ q.records = Append(t.records, r)
            BY <1>6, <2>4
        <3>2. now = before \cup {p + 1}
            BY <1>6, <2>2, <2>4
        <3> DEFINE n == Len(t.records)
        <3>3. /\ n \in Nat /\ DOMAIN t.records = 1 .. n /\ DOMAIN q.records = 1 .. n + 1
              /\ \A i \in 1 .. n : q.records[i] = t.records[i]
              /\ q.records[n + 1] = r
            BY <1>2, <3>1
        <3> HIDE DEF n
        <3>4. Members(q.records) = Members(t.records) \cup {<<t.strategy, p + 1>>}
            <4>1. \A i \in 1 .. n + 1 : i \in 1 .. n \/ i = n + 1
                BY <3>3
            <4>2. n + 1 \in 1 .. n + 1 /\ \A i \in 1 .. n : i \in 1 .. n + 1
                BY <3>3
            <4> QED
                BY <3>1, <3>3, <4>1, <4>2
        <3>5. Members(q.records) = {q.strategy} \X now
            <4>1. {t.strategy} \X now = ({t.strategy} \X before) \cup {<<t.strategy, p + 1>>}
                BY <3>2
            <4> QED
                BY <2>1, <3>4, <4>1
        <3>6. \A i \in 1 .. n : t.records[i].member[2] < p + 1
            <4> SUFFICES ASSUME NEW i \in 1 .. n PROVE t.records[i].member[2] < p + 1
                OBVIOUS
            <4>1. t.records[i].member \in {t.strategy} \X before
                BY <2>1, <3>3
            <4>2. t.records[i].member[2] \in 1 .. p
                BY <4>1
            <4> QED
                BY <2>2, <4>2
        <3>7. ASSUME NEW i \in DOMAIN q.records, NEW j \in DOMAIN q.records, i < j
              PROVE  q.records[i].member[2] < q.records[j].member[2]
            <4>1. i \in 1 .. n
                BY <3>3, <3>7
            <4>2. CASE j \in 1 .. n
                BY <1>1, <3>3, <3>7, <4>1, <4>2 DEF Taken
            <4>3. CASE j = n + 1
                BY <3>1, <3>3, <3>6, <4>1, <4>3
            <4> QED
                BY <3>3, <4>2, <4>3
        <3> QED
            BY <3>5, <3>7 DEF Taken
    <2> QED
        BY <2>3, <2>4
<1> QED
    BY <1>5, <1>7, <1>8 DEF ListSound

LEMMA MembersGather ==
    ASSUME Crawling, Crawling', Gathered, FetchMember \/ GotMember \/ DropMember
    PROVE  Gathered'
<1>1. turn \in Turns /\ turn' \in Turns /\ tree' = tree /\ turn.refs \in Seq(AnyRef) /\ agenda # <<>>
    BY TurnParts DEF FetchMember, GotMember, DropMember, Running, Crawling, TurnSound
<1>2. ListSound(turn) /\ (turn.refs # <<>> => Head(turn.refs) = turn.refs[1])
    BY <1>1 DEF Gathered
<1>3. CASE FetchMember
    <2>1. turn' = [turn EXCEPT !.doing = "member"] /\ turn.doing = "members" /\ turn.refs[1].kind = "link"
        BY <1>2, <1>3 DEF FetchMember
    <2>2. /\ turn'.doing = "member" /\ turn'.listed = turn.listed /\ turn'.refs = turn.refs
          /\ turn'.records = turn.records /\ turn'.strategy = turn.strategy
        BY <1>1, <2>1 DEF Turns
    <2>3. PICK t : t = turn'
        OBVIOUS
    <2>4. PICK p \in 0 .. Len(turn.listed) : p + Len(turn.refs) = Cap(Len(turn.listed)) /\ Left(turn, p) /\ Taken(turn, p)
        BY <1>2, <2>1 DEF ListSound
    <2>5. Left(t, p) /\ Taken(t, p)
        BY <2>2, <2>3, <2>4 DEF Left, Taken
    <2>6. ListSound(t)
        BY <2>1, <2>2, <2>3, <2>4, <2>5 DEF ListSound
    <2> QED
        BY <1>1, <2>3, <2>6, ListGoesOn
<1>4. CASE GotMember
    <2>1. PICK body \in Bodies : turn' = [turn EXCEPT !.doing = "members", !.refs = Tail(turn.refs),
                                                      !.records = Append(turn.records, Record(Head(turn.refs).member, body))]
        BY <1>4 DEF GotMember, Keep
    <2> DEFINE r == Record(Head(turn.refs).member, body)
    <2>2. /\ turn'.doing = "members" /\ turn'.listed = turn.listed /\ turn'.refs = Tail(turn.refs)
          /\ turn'.records = Append(turn.records, r) /\ turn'.strategy = turn.strategy
        BY <1>1, <2>1 DEF Turns
    <2>3. turn.doing \in {"members", "member"} /\ turn.refs # <<>> /\ turn.refs[1].kind # "other"
        BY <1>2, <1>4 DEF GotMember, ListSound, Crawling, TurnSound
    <2>4. r \in AnyRecord /\ r.member = turn.refs[1].member
        <3>1. Head(turn.refs) = turn.refs[1] /\ turn.refs[1] \in AnyRef
            BY <1>1, <1>2, <2>3
        <3>2. Head(turn.refs).member \in Nat \X Nat
            BY <3>1 DEF AnyRef
        <3>3. turn.source \in Paths /\ Strategy.kind # "telemetry-reports"
            BY <1>1, <2>3 DEF Crawling, TurnSound
        <3>4. r \in AnyRecord
            BY <1>1, <3>2, <3>3, ARecord
        <3>5. r.member = Head(turn.refs).member
            BY DEF Record
        <3> QED
            BY <3>1, <3>4, <3>5
    <2> HIDE DEF r
    <2>5. ListSound(turn')
        BY <1>1, <1>2, <2>2, <2>3, <2>4, OneMemberMore
    <2> QED
        BY <1>1, <2>5, ListGoesOn
<1>5. CASE DropMember
    <2>1. turn' = [turn EXCEPT !.refs = Tail(turn.refs)] /\ turn.doing = "members" /\ turn.refs # <<>> /\ turn.refs[1].kind = "other"
        BY <1>2, <1>5 DEF DropMember
    <2>2. /\ turn'.doing = "members" /\ turn'.listed = turn.listed /\ turn'.refs = Tail(turn.refs)
          /\ turn'.records = turn.records /\ turn'.strategy = turn.strategy
        BY <1>1, <2>1 DEF Turns
    <2>3. ListSound(turn')
        BY <1>1, <1>2, <2>1, <2>2, OneMemberMore
    <2> QED
        BY <1>1, <2>3, ListGoesOn
<1> QED
    BY <1>3, <1>4, <1>5

\* A fetch of the root, or of another page, lists nothing yet.
LEMMA FetchGathers ==
    ASSUME Crawling, Gathered, BeginFetch \/ NextPage
    PROVE  Gathered'
<1>1. turn \in Turns /\ tree' = tree /\ ListSound(turn)
    BY DEF BeginFetch, NextPage, Crawling, TurnSound, Gathered
<1>2. PICK t : t = turn'
    OBVIOUS
<1>3. CASE BeginFetch
    <2>1. turn.doing = "choosing"
        BY <1>3 DEF BeginFetch
    <2>2. PICK doing \in {"reuse", "root"} : turn' = [turn EXCEPT !.doing = doing, !.source = Source(Strategy)]
        BY <1>3 DEF BeginFetch
    <2>3. t.doing = doing /\ t.listed = turn.listed
        BY <1>1, <1>2, <2>2 DEF Turns
    <2>4. ListSound(t)
        BY <1>1, <2>1, <2>3 DEF ListSound
    <2> QED
        BY <1>1, <1>2, <2>4, ListGoesOn
<1>4. CASE NextPage
    <2>1. turn.doing = "paging" /\ turn' = [turn EXCEPT !.doing = "page"]
        BY <1>4 DEF NextPage
    <2>2. t.doing = "page" /\ t.listed = turn.listed /\ t.refs = turn.refs /\ t.strategy = turn.strategy
        BY <1>1, <1>2, <2>1 DEF Turns
    <2>3. Left(t, 0) <=> Left(turn, 0)
        BY <2>2 DEF Left
    <2>4. ListSound(t)
        BY <1>1, <2>1, <2>2, <2>3 DEF ListSound
    <2> QED
        BY <1>1, <1>2, <2>4, ListGoesOn
<1> QED
    BY <1>3, <1>4

LEMMA CrawlStepGathers ==
    ASSUME Crawling, WithinBudget, Gathered, CrawlStep
    PROVE  Gathered'
<1>1. Crawling'
    BY CrawlStepEstablishes
<1>2. CASE SkipStrategy \/ WhenMismatch \/ TooManyPages
    BY <1>2, NextStrategyGathers DEF SkipStrategy, WhenMismatch, TooManyPages
<1>3. CASE FetchRaises \/ NextResource
    BY <1>3, ListGoesOn DEF FetchRaises, NextResource, Gathered
<1> QED
    BY <1>1, <1>2, <1>3, ReadInlineGathers, FetchGathers, GotObjectGathers, GotPageGathers, MembersGather, EndMembersGathers
       DEF CrawlStep

\* No entry, and nothing listed.
LEMMA NothingGathered ==
    ASSUME NEW reuse, CrawlBegins(lane, bootstrap_ctx, reuse) \/ NoCrawl
    PROVE  Gathered'
<1>1. turn' = Fresh(1) /\ tree' = [e \in {} |-> {}]
    BY DEF CrawlBegins, NoCrawl
<1>2. PICK t : t = turn'
    OBVIOUS
<1>3. ListSound(t)
    BY <1>1, <1>2, FreshList
<1>4. ListSound(turn)'
    BY <1>2, <1>3 DEF ListSound, Left, Taken, Cap
<1> QED
    BY <1>1, <1>4 DEF Gathered

LEMMA GatheredStays ==
    ASSUME UNCHANGED <<givenVars, crawlVars>>, Gathered
    PROVE  Gathered'
BY ListGoesOn DEF Gathered, crawlVars

\* What the runs check of them.
LEMMA CollectionsFollow == NothingToCrawl \/ (Crawling /\ Gathered) => CollectionsAreWhole
<1>1. CASE NothingToCrawl
    <2>1. outcome = "done" => DOMAIN LaneResources[lane] = {}
        BY <1>1 DEF NothingToCrawl
    <2> QED
        BY <1>1, <2>1, NothingIsThere DEF CollectionsAreWhole
<1>2. CASE Crawling /\ Gathered
    <2>1. TreeSound /\ AgendaSound /\ PositionSound
        BY <1>2 DEF Crawling
    <2>2. \A e \in DOMAIN tree : Whole(tree[e])
        BY <1>2 DEF Gathered
    <2>3. ASSUME outcome = "done"
          PROVE  agenda = <<>> /\ \A i \in DOMAIN LaneResources[lane] :
                    LET e == Entry(<<>>, LaneResources[lane][i])
                    IN  /\ e \in DOMAIN tree
                        /\ Resources[LaneResources[lane][i]].required => tree[e].strategy # 0
        <3>1. agenda = <<>> /\ position = Len(LaneResources[lane]) /\ Entry(<<>>, LaneResources[lane][position]) \in DOMAIN tree
            BY <2>1, <2>3 DEF PositionSound, Top
        <3>2. LaneResources[lane] \in Seq(DOMAIN Resources)
            BY <2>1, SchemaAssumption DEF PositionSound, SchemaAssumption
        <3>3. ASSUME NEW i \in DOMAIN LaneResources[lane]
              PROVE  Entry(<<>>, LaneResources[lane][i]) \in DOMAIN tree
            <4>1. i < position \/ i = position
                BY <3>1, <3>2
            <4> QED
                BY <2>1, <3>1, <4>1 DEF PositionSound
        <3>4. ASSUME NEW name, Entry(<<>>, name) \in DOMAIN tree, Resources[name].required
              PROVE  tree[Entry(<<>>, name)].strategy # 0
            <4>1. Entry(<<>>, name)[1] = <<>> /\ Entry(<<>>, name)[2] = name
                BY DEF Entry
            <4> QED
                BY <2>1, <3>4, <4>1 DEF TreeSound
        <3> QED
            BY <3>1, <3>3, <3>4
    <2>4. ASSUME outcome = "done", NEW p \in Records
          PROVE  {e[2] : e \in {d \in DOMAIN tree : d[1] = p}} = IF Len(p) <= max_depth THEN ChildNames(DefAt(p)) ELSE {}
        BY <2>1, <2>3, <2>4, ChildrenAreThere
    <2> QED
        BY <2>2, <2>3, <2>4 DEF CollectionsAreWhole
<1> QED
    BY <1>1, <1>2

=============================================================================

--------------------------- MODULE ResponseCache ---------------------------
(***************************************************************************)
(* The cache of whole response bodies (core/targets/response_cache.py).    *)
(*                                                                         *)
(* No operation suspends, so each is one step.  A cache is a record; what  *)
(* an operation does to it is an operator from caches to caches, which the *)
(* registry (TargetRegistry.tla) applies too.  The dictionary of entries   *)
(* is the sequence of its entries in insertion order, the order in which   *)
(* min() breaks ties between equal values of stored_at.                    *)
(***************************************************************************)
EXTENDS Integers, Sequences, SequencesExt

CONSTANTS
    CacheKeys,        \* (serverAddress, config) identities
    Bodies,           \* what a response says
    BodySizes,        \* len(body)
    Ttls,             \* how long after now the lanes' data is fresh
    response_ttl,     \* Tuning.Cache.ResponseTtlSeconds
    max_entries,      \* Tuning.Cache.MaxEntries
    max_total_bytes,  \* Tuning.Cache.MaxTotalBytes
    MaxNow            \* bound on the clock

ASSUME ResponseCacheAssumption ==
    /\ max_entries \in Nat \ {0}
    /\ max_total_bytes \in Nat \ {0}
    /\ response_ttl \in Nat
    /\ BodySizes \subseteq Nat
    /\ Ttls \subseteq Int
    /\ MaxNow \in Nat

VARIABLES
    cache, \* the ResponseCache
    now    \* time.time()

cacheVars == <<cache, now>>

Earlier(a, b) == IF a < b THEN a ELSE b

\* The elements of s at some of its positions, in their order.
Subsequence(s, positions) ==
    LET Rank(i) == Cardinality({j \in positions : j <= i})
    IN  [n \in 1 .. Cardinality(positions) |-> s[CHOOSE i \in positions : Rank(i) = n]]

\* How many bytes the entries at some positions have.
Bytes(entries, positions) == Cardinality(UNION {{i} \X (1 .. entries[i].size) : i \in positions})

EmptyCache == [entries |-> <<>>, total_bytes |-> 0]

\* _remove() of some entries.
Without(c, gone) ==
    LET leaving == {i \in DOMAIN c.entries : c.entries[i] \in gone}
    IN  [entries |-> Subsequence(c.entries, DOMAIN c.entries \ leaving),
         total_bytes |-> c.total_bytes - Bytes(c.entries, leaving)]

EntriesOf(c, k) == {e \in ToSet(c.entries) : e.key = k}

Invalidate(c, k) == Without(c, EntriesOf(c, k))

Expired(c, t) == {e \in ToSet(c.entries) : t > e.expires_at}

\* What get() leaves behind: the entry it asked for is gone if it has expired.
Looked(c, k, t) == Without(c, EntriesOf(c, k) \cap Expired(c, t))

Hit(c, k, t) == EntriesOf(c, k) \ Expired(c, t)

\* The negated condition of the eviction loop.
Fits(c, size) ==
    \/ c.entries = <<>>
    \/ Len(c.entries) < max_entries /\ c.total_bytes + size <= max_total_bytes

\* Mutant of Oldest: the entry that was stored last.
Newest(c, n) ==
    {c.entries[i] : i \in {j \in DOMAIN c.entries : j > Len(c.entries) - n}}

\* The n entries the loop evicts first.
Oldest(c, n) ==
    LET Rank(i) == Cardinality({j \in DOMAIN c.entries :
            \/ c.entries[j].stored_at < c.entries[i].stored_at
            \/ c.entries[j].stored_at = c.entries[i].stored_at /\ j < i})
    IN  {c.entries[i] : i \in {j \in DOMAIN c.entries : Rank(j) < n}}

\* The loop evicts the oldest entry until the new one fits.
MadeRoom(c, size) ==
    LET Enough(n) == Fits(Without(c, Oldest(c, n)), size)
        n == CHOOSE i \in 0 .. Len(c.entries) : Enough(i) /\ \A j \in 0 .. (i - 1) : ~Enough(j)
    IN  Without(c, Oldest(c, n))

\* put() of entry e at time t; a body that can never fit is not stored, and
\* what was stored for its key stays.
Put(c, e, t) ==
    IF e.size > max_total_bytes THEN c
    ELSE LET old == Invalidate(c, e.key)
             r == MadeRoom(Without(old, Expired(old, t)), e.size)
         IN  [entries |-> Append(r.entries, e), total_bytes |-> r.total_bytes + e.size]

\* An entry stored at time t, of a body that is fresh until deadline.
Entry(k, body, size, t, deadline) ==
    [key |-> k, body |-> body, size |-> size, stored_at |-> t,
     expires_at |-> Earlier(t + response_ttl, deadline)]

-----------------------------------------------------------------------------
(* The cache by itself *)

CacheInit ==
    /\ cache = EmptyCache
    /\ now = 0

CachePut(k, body, size, deadline) ==
    /\ cache' = Put(cache, Entry(k, body, size, now, deadline), now)
    /\ UNCHANGED now

CacheGet(k) ==
    /\ cache' = Looked(cache, k, now)
    /\ UNCHANGED now

CacheInvalidate(k) ==
    /\ cache' = Invalidate(cache, k)
    /\ UNCHANGED now

CacheTick ==
    /\ now < MaxNow
    /\ now' = now + 1
    /\ UNCHANGED cache

-----------------------------------------------------------------------------
(* Properties *)

CacheTypeOK ==
    /\ cache.entries \in Seq([key : CacheKeys, body : Bodies, size : BodySizes,
                              stored_at : 0 .. MaxNow, expires_at : Int])
    /\ cache.total_bytes \in Nat
    /\ now \in 0 .. MaxNow

\* The count of bytes is that of the entries, there is one entry for a key, and
\* neither bound is ever exceeded, whatever is replaced, evicted, expired or
\* refused on the way (put, _remove).
CacheWithinBounds ==
    /\ cache.total_bytes = Bytes(cache.entries, DOMAIN cache.entries)
    /\ cache.total_bytes <= max_total_bytes
    /\ Len(cache.entries) <= max_entries
    /\ \A i, j \in DOMAIN cache.entries : cache.entries[i].key = cache.entries[j].key => i = j

\* A fresh body of another key is given up only for want of room: the new body
\* would not have fitted beside it and what is stored since, and nothing older
\* is kept in its place (the loop in put).
EvictsOnlyOldest ==
    [][\A new \in ToSet(cache'.entries) \ ToSet(cache.entries) :
        LET rivals == {f \in ToSet(cache.entries) \ Expired(cache, now) : f.key # new.key}
            Since(e) == {i \in DOMAIN cache.entries :
                cache.entries[i] \in rivals /\ cache.entries[i].stored_at >= e.stored_at}
        IN  \A e \in rivals \ ToSet(cache'.entries) :
                /\ \/ Cardinality(Since(e)) + 1 > max_entries
                   \/ Bytes(cache.entries, Since(e)) + new.size > max_total_bytes
                /\ \A f \in rivals \cap ToSet(cache'.entries) : f.stored_at >= e.stored_at]_cacheVars

=============================================================================

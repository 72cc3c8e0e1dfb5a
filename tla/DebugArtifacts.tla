--------------------------- MODULE DebugArtifacts ---------------------------
(***************************************************************************)
(* The store of debug artifacts (core/debug/artifacts.py), and what a      *)
(* scrape leaves behind in it and in the response cache before it answers  *)
(* (the end of read_all in routers/prometheus.py).                         *)
(*                                                                         *)
(* The store counts the files it has written, in memory; the files are on  *)
(* disk.  A file that an unlink refuses, or that was there before a        *)
(* restart, is on disk and counted by nobody: nothing the store does looks *)
(* at it again, unless it is written anew.  The temporary file of a write  *)
(* that fails, if it cannot be removed, is such a file under a name of its *)
(* own, and is left out.  The store has the shape of the cache (a          *)
(* dictionary in insertion order and a total), so the operators of         *)
(* ResponseCache.tla serve here too.  One file is written for a target,    *)
(* NormalizedData.json, so max_files_per_target (at least 1) never bites;  *)
(* how the directories are opened decides only whether an operation fails. *)
(***************************************************************************)
EXTENDS ResponseCache, FiniteSetsExt

CONSTANTS
    FileSizes,         \* len(encoded)
    max_file_bytes,    \* Tuning.Debug.MaxFileBytes
    max_debug_bytes,   \* Tuning.Debug.MaxTotalBytes
    retention_seconds  \* Tuning.Debug.RetentionSeconds

\* No relation between the two bounds is validated (config/profile.py).
ASSUME DebugArtifactsAssumption ==
    /\ FileSizes \subseteq Nat
    /\ max_file_bytes \in Nat \ {0}
    /\ max_debug_bytes \in Nat \ {0}
    /\ retention_seconds \in Nat \ {0}

VARIABLES
    files, \* _files, in insertion order, and _total_bytes
    disk   \* the files there are, with their sizes

vars == <<cacheVars, files, disk>>

PathsOf(entries) == {f.key : f \in entries}

Outdated(s, t) == {f \in ToSet(s.entries) : t - f.stored_at > retention_seconds}

\* The first n evictions of the loop are of the oldest files; the file that is
\* about to be replaced counts, and may be among them.
Evicted(s, size) ==
    LET Enough(n) == LET r == Without(s, Oldest(s, n))
                     IN  r.entries = <<>> \/ r.total_bytes + size <= max_debug_bytes
    IN  Oldest(s, Min({n \in 0 .. Len(s.entries) : Enough(n)}))

\* Mutant of Written: the size of the file that is replaced is not given back.
WrittenAnew(s, f) ==
    [entries |-> Append(Without(s, EntriesOf(s, f.key)).entries, f),
     total_bytes |-> s.total_bytes + f.size]

\* _files after a write: a file that is replaced keeps its place.
Written(s, f) ==
    [entries |-> IF \E g \in ToSet(s.entries) : g.key = f.key
                 THEN [i \in DOMAIN s.entries |-> IF s.entries[i].key = f.key THEN f ELSE s.entries[i]]
                 ELSE Append(s.entries, f),
     total_bytes |-> s.total_bytes + f.size - Bytes(s.entries, {i \in DOMAIN s.entries : s.entries[i].key = f.key})]

\* _remove() of some files: none of them is counted any more, those in stuck
\* could not be unlinked.
Unlinked(d, gone, stuck) == Restrict(d, DOMAIN d \ (gone \ stuck))

\* A file is created or replaced.
Saved(d, k, size) == [p \in DOMAIN d \cup {k} |-> IF p = k THEN size ELSE d[p]]

-----------------------------------------------------------------------------
Init ==
    /\ CacheInit
    /\ files = EmptyCache
    /\ disk = <<>>

\* write() of a file that is too large: only the purge has happened.
WriteRefused(size) ==
    /\ size > max_file_bytes
    /\ \E stuck \in SUBSET PathsOf(Outdated(files, now)) :
          /\ files' = Without(files, Outdated(files, now))
          /\ disk' = Unlinked(disk, PathsOf(Outdated(files, now)), stuck)

\* write(): the purge, the evictions, and the file, which may fail to be written
\* when room has been made for it.
Write(k, size, works) ==
    LET kept == Without(files, Outdated(files, now))
        room == Without(kept, Evicted(kept, size))
        gone == PathsOf(Outdated(files, now) \cup Evicted(kept, size))
    IN  /\ size <= max_file_bytes
        /\ \E stuck \in SUBSET gone :
              IF works
              THEN /\ files' = Written(room, [key |-> k, size |-> size, stored_at |-> now])
                   /\ disk' = Saved(Unlinked(disk, gone, stuck), k, size)
              ELSE /\ files' = room
                   /\ disk' = Unlinked(disk, gone, stuck)

NoArtifact == UNCHANGED <<files, disk>>

\* A scrape that has a snapshot: the artifact if it asked for one, whose failure
\* is swallowed, and then the body, into the cache.
ScrapeStores(k, body, size, deadline) ==
    /\ \/ NoArtifact
       \/ \E length \in FileSizes : WriteRefused(length)
       \/ \E length \in FileSizes, works \in BOOLEAN : Write(k, length, works)
    /\ CachePut(k, body, size, deadline)

\* The lookup of a scrape, or a publication.
ScrapeLooks(k) == (CacheGet(k) \/ CacheInvalidate(k)) /\ NoArtifact

Tick == CacheTick /\ NoArtifact

\* Both stores start empty; the files of before are not looked for.
Restart ==
    /\ cache' = EmptyCache
    /\ files' = EmptyCache
    /\ UNCHANGED <<disk, now>>

Next ==
    \/ \E k \in CacheKeys, body \in Bodies, size \in BodySizes, ttl \in Ttls :
          ScrapeStores(k, body, size, now + ttl)
    \/ \E k \in CacheKeys : ScrapeLooks(k)
    \/ Tick
    \/ Restart

Spec == Init /\ [][Next]_vars

-----------------------------------------------------------------------------
(* Properties *)

TypeOK ==
    /\ CacheTypeOK
    /\ files.entries \in Seq([key : CacheKeys, size : FileSizes, stored_at : 0 .. MaxNow])
    /\ files.total_bytes \in Nat
    /\ DOMAIN disk \subseteq CacheKeys
    /\ disk \in [DOMAIN disk -> FileSizes]

\* The store counts each file once, and its size; a file it counts is on disk, at
\* the size it was counted with; and what it counts keeps within MaxTotalBytes,
\* unless it is one file that is larger by itself, and no larger than MaxFileBytes
\* (write, _remove).  Of files it does not count it says nothing.
ArtifactsAreCounted ==
    /\ files.total_bytes = Bytes(files.entries, DOMAIN files.entries)
    /\ \A i, j \in DOMAIN files.entries : files.entries[i].key = files.entries[j].key => i = j
    /\ \A f \in ToSet(files.entries) : f.key \in DOMAIN disk /\ disk[f.key] = f.size
    /\ \/ files.total_bytes <= max_debug_bytes
       \/ Len(files.entries) = 1 /\ files.total_bytes <= max_file_bytes

\* Neither store loses count of what it holds or outgrows its bounds, whatever is
\* replaced, evicted, expired or refused on the way, and however a scrape fails to
\* write its artifact.
StoresKeepCount == CacheWithinBounds /\ ArtifactsAreCounted

=============================================================================

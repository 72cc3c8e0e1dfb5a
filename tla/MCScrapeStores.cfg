\* Three keys against two bounds of the cache: three entries of size 1 exceed
\* max_entries, a size of 3 leaves no room in max_total_bytes for another, and 4 can
\* never be stored.  Of the artifacts, three of size 1 exceed MaxTotalBytes, one of
\* size 3 exceeds it by itself, and 4 is over MaxFileBytes.
CONSTANTS
    k1 = k1
    k2 = k2
    k3 = k3
    b = b
    CacheKeys <- MCCacheKeys
    Bodies <- MCBodies
    BodySizes <- MCBodySizes
    Ttls <- MCTtls
    FileSizes <- MCFileSizes
    response_ttl = 2
    max_entries = 2
    max_total_bytes = 3
    max_file_bytes = 3
    max_debug_bytes = 2
    retention_seconds = 1
    MaxNow = 3
SYMMETRY KeySymmetry
SPECIFICATION Spec
INVARIANTS
    StoresKeepCount
PROPERTIES
    EvictsOnlyOldest

---------------------------- MODULE FlexibleCache ----------------------------
(***************************************************************************)
(* The cache of query results: FlexibleCache of Cache.h with the least-    *)
(* recently-used policy, as the query cache of the server uses it.  An     *)
(* entry is a key with a result of a certain size.  Pinned entries are     *)
(* never evicted; the others are evicted, the least recently used first,   *)
(* when a new entry would exceed a limit on the number or on the total     *)
(* size of the entries.  The limits are runtime parameters and change      *)
(* while the cache is in use.                                              *)
(***************************************************************************)
EXTENDS Integers, FiniteSets, FiniteSetsExt, SequencesExt

CONSTANTS
    Key,         \* the keys of results
    Size,        \* the size of the result of each key
    InitLimits,  \* the limits at the start
    EntryLimits, \* the values _maxNumEntries is set to
    SizeLimits   \* the values the other two limits are set to

LimitType == [entries : Nat, size : Nat, single : Nat]

ASSUME CacheAssumption ==
    /\ IsFiniteSet(Key)
    /\ Size \in [Key -> Nat]
    /\ InitLimits \in LimitType
    /\ EntryLimits \subseteq Nat
    /\ SizeLimits \subseteq Nat

VARIABLES
    cache,  \* order: _entries and _accessMap, the least recently used first;
            \* pinned: _pinnedMap; sizeNonPinned and sizePinned: the totals
    limits  \* _maxNumEntries, _maxSize and _maxSizeSingleEntry

cacheVars == <<cache, limits>>

EmptyCache ==
    [order |-> <<>>, pinned |-> {}, sizeNonPinned |-> 0, sizePinned |-> 0]

CacheInit ==
    /\ cache = EmptyCache
    /\ limits = InitLimits

-----------------------------------------------------------------------------
NonPinned(c) == {c.order[i] : i \in 1 .. Len(c.order)}
Present(c, k) == k \in c.pinned \cup NonPinned(c)
Without(order, k) == RemoveAt(order, CHOOSE i \in DOMAIN order : order[i] = k)

\* operator[]: reading an entry that is not pinned makes it the most recent.
Access(c, k) ==
    IF k \in NonPinned(c)
      THEN [c EXCEPT !.order = Append(Without(@, k), k)]
      ELSE c

\* removeOneEntry, n times: the totals shrink by the sizes of the entries.
SizeOfOldest(c, n) ==
    LET total[i \in 0 .. n] ==
          IF i = 0 THEN 0 ELSE total[i - 1] + Size[c.order[i]]
    IN  total[n]

RemoveOldest(c, n) ==
    [c EXCEPT !.order = SubSeq(@, n + 1, Len(@)),
              !.sizeNonPinned = @ - SizeOfOldest(c, n)]

\* The first n at which the loop that removes entries while P(n) ends.
FirstNot(c, P(_)) ==
    CHOOSE n \in 0 .. Len(c.order) :
        /\ \A m \in 0 .. n - 1 : P(m)
        /\ n = Len(c.order) \/ ~P(n)

\* makeRoomIfFits.  The subtraction of MemorySize throws when the pinned
\* entries exceed the limit; a new entry of size 0 is not counted.
MakeRoomThrows(c, l) == l.size < c.sizePinned

Fits(c, l, sz) == l.size - c.sizePinned >= sz

\* Mutant: the size of the new entry is not accounted for.
MakeRoom_IgnoreSize(c, l, sz) ==
    RemoveOldest(c, FirstNot(c, LAMBDA n :
        \/ Len(c.order) - n + Cardinality(c.pinned)
             + (IF sz # 0 THEN 1 ELSE 0) > l.entries
        \/ c.sizeNonPinned - SizeOfOldest(c, n) + c.sizePinned > l.size))

MakeRoom(c, l, sz) ==
    RemoveOldest(c, FirstNot(c, LAMBDA n :
        \/ Len(c.order) - n + Cardinality(c.pinned)
             + (IF sz # 0 THEN 1 ELSE 0) > l.entries
        \/ c.sizeNonPinned - SizeOfOldest(c, n) + c.sizePinned + sz > l.size))

\* insert: a key that is present is an error, a result that is too big is
\* silently not stored.
InsertThrows(c, l, k) ==
    \/ Present(c, k)
    \/ Size[k] <= l.single /\ MakeRoomThrows(c, l)

Insert(c, l, k) ==
    IF Size[k] > l.single \/ ~Fits(c, l, Size[k]) THEN c
    ELSE LET room == MakeRoom(c, l, Size[k])
         IN  [room EXCEPT !.order = Append(@, k),
                          !.sizeNonPinned = @ + Size[k]]

\* insertPinned: a result that is too big is an error; one that does not fit
\* is pinned all the same.
InsertPinnedThrows(c, l, k) ==
    \/ Present(c, k)
    \/ Size[k] > l.single
    \/ MakeRoomThrows(c, l)

InsertPinned(c, l, k) ==
    LET room == IF Fits(c, l, Size[k]) THEN MakeRoom(c, l, Size[k]) ELSE c
    IN  [room EXCEPT !.pinned = @ \cup {k}, !.sizePinned = @ + Size[k]]

\* containsAndMakePinnedIfExists: the size moves from one total to the other.
\* Mutant: the entry stays in the total of the entries that are not pinned.
MakePinned_KeepTotal(c, k) ==
    IF k \in NonPinned(c)
      THEN [c EXCEPT !.order = Without(@, k), !.pinned = @ \cup {k},
                     !.sizePinned = @ + Size[k]]
      ELSE c

MakePinned(c, k) ==
    IF k \in NonPinned(c)
      THEN [c EXCEPT !.order = Without(@, k), !.pinned = @ \cup {k},
                     !.sizeNonPinned = @ - Size[k],
                     !.sizePinned = @ + Size[k]]
      ELSE c

\* tryInsertIfNotPresent of ConcurrentCache.h.
TryInsertThrows(c, l, k, pin) ==
    /\ ~Present(c, k)
    /\ IF pin THEN InsertPinnedThrows(c, l, k) ELSE InsertThrows(c, l, k)

TryInsert(c, l, k, pin) ==
    CASE Present(c, k) /\ pin -> MakePinned(c, k)
      [] Present(c, k) /\ ~pin -> c
      [] ~Present(c, k) /\ pin -> InsertPinned(c, l, k)
      [] OTHER -> Insert(c, l, k)

-----------------------------------------------------------------------------
(***************************************************************************)
(* The operations as actions; an exception leaves the cache as it is.      *)
(***************************************************************************)
Look(k) ==
    /\ Present(cache, k)
    /\ cache' = Access(cache, k)
    /\ UNCHANGED limits

Pin(k) ==
    /\ cache' = MakePinned(cache, k)
    /\ UNCHANGED limits

Put(k, pin) ==
    /\ ~TryInsertThrows(cache, limits, k, pin)
    /\ cache' = TryInsert(cache, limits, k, pin)
    /\ UNCHANGED limits

\* The commands clear-cache and clear-cache-complete.
ClearUnpinnedOnly ==
    /\ cache' = [cache EXCEPT !.order = <<>>, !.sizeNonPinned = 0]
    /\ UNCHANGED limits

ClearAll ==
    /\ cache' = EmptyCache
    /\ UNCHANGED limits

\* Called when the memory for a computation is short: evict entries of total
\* size sz, or all of them if they are smaller than that.
MakeRoomAsMuchAsPossible(sz) ==
    /\ cache' =
         IF sz > cache.sizeNonPinned
           THEN [cache EXCEPT !.order = <<>>, !.sizeNonPinned = 0]
           ELSE RemoveOldest(cache,
                    FirstNot(cache, LAMBDA n : SizeOfOldest(cache, n) < sz))
    /\ UNCHANGED limits

\* The limits.  The new limit stays when making room throws.
Shrink(l) == IF MakeRoomThrows(cache, l) THEN cache ELSE MakeRoom(cache, l, 0)

SetMaxNumEntries(n) ==
    /\ limits' = [limits EXCEPT !.entries = n]
    /\ cache' = Shrink(limits')

SetMaxSize(sz) ==
    /\ limits' = [limits EXCEPT !.size = sz]
    /\ cache' = Shrink(limits')

SetMaxSizeSingleEntry(sz) ==
    /\ limits' = [limits EXCEPT !.single = sz]
    /\ UNCHANGED cache

Maintain ==
    \/ ClearUnpinnedOnly
    \/ ClearAll
    \/ \E sz \in SizeLimits : MakeRoomAsMuchAsPossible(sz)
    \/ \E n \in EntryLimits : SetMaxNumEntries(n)
    \/ \E sz \in SizeLimits : SetMaxSize(sz)
    \/ \E sz \in SizeLimits : SetMaxSizeSingleEntry(sz)

CacheNext ==
    \/ \E k \in Key : Look(k) \/ Pin(k) \/ Put(k, TRUE) \/ Put(k, FALSE)
    \/ Maintain

CacheSpec == CacheInit /\ [][CacheNext]_cacheVars

-----------------------------------------------------------------------------
TotalSize(S) == MapThenSumSet(LAMBDA k : Size[k], S)

\* The totals the limits are compared with are the sizes of the entries, after
\* every sequence of insertions, promotions, evictions and clears, and no key
\* is held twice.
SizesExact ==
    /\ cache.sizeNonPinned = TotalSize(NonPinned(cache))
    /\ cache.sizePinned = TotalSize(cache.pinned)
    /\ Cardinality(NonPinned(cache)) = Len(cache.order)
    /\ NonPinned(cache) \cap cache.pinned = {}

\* Unless the pinned entries alone exceed it, all entries together respect the
\* limit on the size, also after the limit was changed.
SizeWithinLimit ==
    cache.sizePinned <= limits.size =>
        cache.sizePinned + cache.sizeNonPinned <= limits.size

\* After every sequence of insertions, promotions, evictions, clears and changes
\* of the limits, the totals are exact and the limit on the size is respected.
CacheSizesRespected == SizesExact /\ SizeWithinLimit

\* Unless the pinned entries alone reach it, all entries together respect the
\* limit on the number of entries.  This fails for empty results: see the
\* observations in the README.
EntriesWithinLimit ==
    Cardinality(cache.pinned) < limits.entries =>
        Len(cache.order) + Cardinality(cache.pinned) <= limits.entries

\* Storing the result of a key that is not present never fails.  It does when
\* the pinned entries are too large: see the observations in the README.
InsertSucceeds ==
    \A k \in Key : ~Present(cache, k) => ~InsertThrows(cache, limits, k)
=============================================================================

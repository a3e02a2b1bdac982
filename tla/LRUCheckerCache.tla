--------------------------- MODULE LRUCheckerCache ---------------------------
(***************************************************************************)
(* The checker cache of the v2 language server as a state machine          *)
(* (languageserver/server2/cache.go).  Every operation is one critical     *)
(* section of the cache's mutex; the loop of DeleteByPrefix is taken one   *)
(* key at a time, with the mutex held (locked) until it ends.              *)
(***************************************************************************)
EXTENDS LRUOps

CONSTANTS Key,          \* the cache keys: canonical location IDs
          Entry,        \* checker entries
          NotFound,     \* the answer of Get to an unknown key
          Requested,    \* the capacities asked of NewLRUCheckerCache
          Prefix,       \* the arguments of DeleteByPrefix
          Matching(_)   \* the keys that start with a prefix

ASSUME RequestedAssumption == Requested \subseteq Int
ASSUME MatchingAssumption == \A p \in Prefix : Matching(p) \subseteq Key

VARIABLES cache,    \* the cache value of LRUOps
          sweep,    \* the keys DeleteByPrefix has still to delete
          locked,   \* is DeleteByPrefix holding the mutex?
          answer    \* what the last Get returned

cacheVars == <<cache, sweep, locked, answer>>

CacheInit ==
  /\ \E r \in Requested : cache = NewCache(r)
  /\ sweep = {}
  /\ locked = FALSE
  /\ answer = NotFound

(* Mutant: a hit is not moved to the front.                                *)
GetKeepsPlace(k) ==
  /\ ~locked
  /\ answer' = IF k \in cache.items THEN EntryOf(cache, k) ELSE NotFound
  /\ UNCHANGED <<cache, sweep, locked>>

(* Get(key)                                                                *)
Get(k) ==
  /\ ~locked
  /\ answer' = IF k \in cache.items THEN EntryOf(cache, k) ELSE NotFound
  /\ cache' = AfterGet(cache, k)
  /\ UNCHANGED <<sweep, locked>>

(* Mutant: the evicted key stays in the map.                               *)
PutKeepsEvictedKey(k, e) ==
  /\ ~locked
  /\ cache' = [AfterPut(cache, k, e) EXCEPT !.items = cache.items \cup {k}]
  /\ UNCHANGED <<sweep, locked, answer>>

(* Put(key, entry)                                                         *)
Put(k, e) ==
  /\ ~locked
  /\ cache' = AfterPut(cache, k, e)
  /\ UNCHANGED <<sweep, locked, answer>>

(* Delete(key)                                                             *)
Delete(k) ==
  /\ ~locked
  /\ cache' = AfterDelete(cache, k)
  /\ UNCHANGED <<sweep, locked, answer>>

(* DeleteByPrefix(prefix) takes the mutex and starts to range over items.  *)
DeleteByPrefix(p) ==
  /\ ~locked
  /\ locked' = TRUE
  /\ sweep' = cache.items \cap Matching(p)
  /\ UNCHANGED <<cache, answer>>

(* One turn of its loop: any matching key is next.                         *)
SweepKey(k) ==
  /\ locked
  /\ k \in sweep
  /\ cache' = AfterDelete(cache, k)
  /\ sweep' = sweep \ {k}
  /\ UNCHANGED <<locked, answer>>

(* Its loop ends and the mutex is released.                                *)
SweepEnd ==
  /\ locked
  /\ sweep = {}
  /\ locked' = FALSE
  /\ UNCHANGED <<cache, sweep, answer>>

CacheNext ==
  \/ \E k \in Key : Get(k)
  \/ \E k \in Key, e \in Entry : Put(k, e)
  \/ \E k \in Key : Delete(k)
  \/ \E p \in Prefix : DeleteByPrefix(p)
  \/ \E k \in Key : SweepKey(k)
  \/ SweepEnd

CacheSpec == CacheInit /\ [][CacheNext]_cacheVars

-----------------------------------------------------------------------------
Item == [key : Key, entry : Entry]

CacheType ==
  [capacity : Nat \ {0}, items : SUBSET Key, order : Seq(Item)]

(* Type invariant: a positive capacity whatever was asked for, and a list  *)
(* of items.                                                               *)
CacheTypeOK ==
  /\ cache \in CacheType
  /\ sweep \subseteq cache.items
  /\ locked \in BOOLEAN
  /\ answer \in Entry \cup {NotFound}

(***************************************************************************)
(* The map and the list of cache.go agree: the same keys, each key in one  *)
(* element only, and never more elements than the capacity.  It is what    *)
(* Get, the update path of Put and the eviction rely on.                   *)
(***************************************************************************)
MapMatchesList ==
  /\ cache.items = ListKeys(cache.order)
  /\ \A i, j \in DOMAIN cache.order :
       cache.order[i].key = cache.order[j].key => i = j
  /\ Len(cache.order) <= cache.capacity

(* What a cache stores, and which of its keys comes after which in a list. *)
ValuesOf(c) == [k \in ListKeys(c.order) |-> EntryOf(c, k)]
OlderIn(order) ==
  {<<order[p[1]].key, order[p[2]].key>> :
     p \in {q \in (DOMAIN order) \X (DOMAIN order) : q[2] < q[1]}}

(***************************************************************************)
(* The list is a faithful record of recency: under this mapping every      *)
(* step of the cache is a step of LRURecency, so a Put into a full cache   *)
(* evicts exactly the key used longest ago, by Get or by Put, and Get      *)
(* returns what was last Put.                                              *)
(***************************************************************************)
Recency == INSTANCE LRURecency WITH
  capacity <- cache.capacity, value <- ValuesOf(cache), older <- OlderIn(cache.order)

ImplementsRecency == Recency!RecencySpec
=============================================================================

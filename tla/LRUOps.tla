------------------------------- MODULE LRUOps -------------------------------
(***************************************************************************)
(* The operations of LRUCheckerCache (languageserver/server2/cache.go) as  *)
(* operators on a cache value                                              *)
(*                                                                         *)
(*    [capacity, items, order]                                             *)
(*                                                                         *)
(* items is the set of keys of the Go map, order the container/list, front *)
(* first, of items [key, entry].  The map's values (list elements) are     *)
(* found by their key.  Map and list are two structures that every         *)
(* operation has to change together.                                       *)
(***************************************************************************)
EXTENDS Integers, Sequences, SequencesExt

(* NewLRUCheckerCache: a capacity below 1 becomes 1.                       *)
NewCache(requested) ==
  [capacity |-> IF requested < 1 THEN 1 ELSE requested,
   items    |-> {},
   order    |-> << >>]

(* The keys of the list.                                                   *)
ListKeys(order) == {order[i].key : i \in DOMAIN order}

(* The place in the list of the element the map holds for key k.           *)
PosOf(order, k) == CHOOSE i \in DOMAIN order : order[i].key = k

EntryOf(c, k) == c.order[PosOf(c.order, k)].entry

(* list.Remove of the element of k, which is in the list.                  *)
Unlink(order, k) == RemoveAt(order, PosOf(order, k))

(* list.PushFront of a new item; after Unlink, list.MoveToFront.           *)
PushFront(order, k, e) == <<[key |-> k, entry |-> e]>> \o order

(* Get, as it changes the cache: a hit becomes the most recently used.     *)
AfterGet(c, k) ==
  IF k \in c.items
  THEN [c EXCEPT !.order = PushFront(Unlink(@, k), k, EntryOf(c, k))]
  ELSE c

(* The eviction of Put: the back of the list goes, when the list is full.  *)
Evicted(c) ==
  IF Len(c.order) >= c.capacity /\ Len(c.order) > 0
  THEN [c EXCEPT !.order = SubSeq(@, 1, Len(@) - 1),
                 !.items = @ \ {c.order[Len(c.order)].key}]
  ELSE c

(* Put: update in place and move to the front, or evict and insert.        *)
AfterPut(c, k, e) ==
  IF k \in c.items
  THEN [c EXCEPT !.order = PushFront(Unlink(@, k), k, e)]
  ELSE [Evicted(c) EXCEPT !.order = PushFront(@, k, e),
                          !.items = @ \cup {k}]

(* Mutant: the list forgets the key, the map does not.                     *)
AfterDeleteKeepsKey(c, k) ==
  IF k \in c.items THEN [c EXCEPT !.order = Unlink(@, k)] ELSE c

(* Delete.                                                                 *)
AfterDelete(c, k) ==
  IF k \in c.items
  THEN [c EXCEPT !.order = Unlink(@, k), !.items = @ \ {k}]
  ELSE c
=============================================================================

------------------------ MODULE LRUCheckerCacheProofs ------------------------
(***************************************************************************)
(* Proofs that the map and the list of the checker cache agree, for every  *)
(* set of keys, every capacity and every sequence of operations, and that  *)
(* the cache implements LRURecency.                                        *)
(***************************************************************************)
EXTENDS LRUCheckerCache, ValueLemmas, FiniteSetTheorems

CacheInv ==
  /\ Coherent(Key, Entry, cache)
  /\ sweep \subseteq cache.items
  /\ ~locked => sweep = {}
  /\ locked \in BOOLEAN
  /\ answer \in Entry \cup {NotFound}

(* The type of the cache value is the one of the facts about LRUOps.       *)
LEMMA CacheTypeIs == CacheType = CacheOf(Key, Entry)
BY DEF CacheType, CacheOf, Item, Items

-----------------------------------------------------------------------------
(* NewLRUCheckerCache makes a coherent cache of whatever capacity it is    *)
(* asked for.                                                              *)
LEMMA CacheInitInv == CacheInit => CacheInv
<1> SUFFICES ASSUME NEW r \in Requested, cache = NewCache(r),
                    sweep = {}, locked = FALSE, answer = NotFound
             PROVE  CacheInv
  BY DEF CacheInit
<1>1. r \in Int
  BY RequestedAssumption
<1>2. /\ cache.items = {} /\ cache.order = << >>
      /\ cache.capacity \in Nat \ {0}
      /\ cache \in CacheOf(Key, Entry)
  BY <1>1 DEF NewCache, CacheOf
<1>3. cache.items = ListKeys(cache.order) /\ Distinct(cache.order)
        /\ Len(cache.order) <= cache.capacity
  BY <1>2 DEF ListKeys, Distinct
<1>4. Coherent(Key, Entry, cache)
  BY <1>2, <1>3 DEF Coherent
<1> QED  BY <1>2, <1>4 DEF CacheInv

(* Every operation of the cache preserves the invariant.                   *)
LEMMA CacheNextInv == CacheInv /\ [CacheNext]_cacheVars => CacheInv'
<1> SUFFICES ASSUME CacheInv, [CacheNext]_cacheVars
             PROVE  CacheInv'
  OBVIOUS
<1>1. ASSUME NEW k \in Key, Get(k) PROVE CacheInv'
  <2>1. Coherent(Key, Entry, cache)' /\ cache'.items = cache.items
    BY <1>1, AfterGetCoherent DEF CacheInv, Get
  <2>2. answer' \in Entry \cup {NotFound}
    BY <1>1, EntryOfType DEF CacheInv, Get
  <2>3. sweep' \subseteq cache'.items
    BY <1>1, <2>1 DEF CacheInv, Get
  <2>4. locked' \in BOOLEAN
    BY <1>1 DEF CacheInv, Get
  <2>5. ~locked' => sweep' = {}
    BY <1>1 DEF CacheInv, Get
  <2> QED  BY <2>1, <2>2, <2>3, <2>4, <2>5 DEF CacheInv
<1>2. ASSUME NEW k \in Key, NEW e \in Entry, Put(k, e) PROVE CacheInv'
  BY <1>2, AfterPutCoherent DEF CacheInv, Put
<1>3. ASSUME NEW k \in Key, Delete(k) PROVE CacheInv'
  BY <1>3, AfterDeleteCoherent DEF CacheInv, Delete
<1>4. ASSUME NEW p \in Prefix, DeleteByPrefix(p) PROVE CacheInv'
  BY <1>4 DEF CacheInv, DeleteByPrefix
<1>5. ASSUME NEW k \in Key, SweepKey(k) PROVE CacheInv'
  <2>1. Coherent(Key, Entry, cache)' /\ cache'.items = cache.items \ {k}
    BY <1>5, AfterDeleteCoherent DEF CacheInv, SweepKey
  <2> QED  BY <1>5, <2>1 DEF CacheInv, SweepKey
<1>6. CASE SweepEnd
  BY <1>6 DEF CacheInv, SweepEnd
<1>7. CASE UNCHANGED cacheVars
  BY <1>7 DEF CacheInv, cacheVars
<1> QED  BY <1>1, <1>2, <1>3, <1>4, <1>5, <1>6, <1>7 DEF CacheNext

(* The cache keeps its types, whatever capacity was requested.             *)
THEOREM CacheTypeCorrect == CacheSpec => []CacheTypeOK
<1>1. CacheInv => CacheTypeOK
  BY CacheTypeIs DEF CacheInv, CacheTypeOK, Coherent
<1> QED  BY <1>1, CacheInitInv, CacheNextInv, PTL DEF CacheSpec

(* The map and the list of cache.go agree after every sequence of Get,     *)
(* Put, Delete and DeleteByPrefix, and the capacity is never exceeded.     *)
THEOREM CacheMapMatchesList == CacheSpec => []MapMatchesList
<1>1. CacheInv => MapMatchesList
  BY DEF CacheInv, MapMatchesList, Coherent, Distinct
<1> QED  BY <1>1, CacheInitInv, CacheNextInv, PTL DEF CacheSpec
-----------------------------------------------------------------------------
(* The refinement of LRURecency.  First, the order of the keys in a list.  *)
LEMMA OlderFacts ==
  ASSUME NEW order \in Seq(Items(Key, Entry))
  PROVE  /\ \A x, y : <<x, y>> \in OlderIn(order) <=>
              \E i, j \in DOMAIN order : j < i /\ order[i].key = x /\ order[j].key = y
         /\ \A p \in OlderIn(order) : \E x, y \in ListKeys(order) : p = <<x, y>>
<1> DEFINE Q == {q \in (DOMAIN order) \X (DOMAIN order) : q[2] < q[1]}
<1>1. \A i, j \in DOMAIN order : j < i => <<i, j>> \in Q /\ <<i, j>>[1] = i /\ <<i, j>>[2] = j
  OBVIOUS
<1>2. \A q \in Q : q[1] \in DOMAIN order /\ q[2] \in DOMAIN order /\ q[2] < q[1]
  OBVIOUS
<1>3. OlderIn(order) = {<<order[q[1]].key, order[q[2]].key>> : q \in Q}
  BY DEF OlderIn
<1> HIDE DEF Q
<1>4. ASSUME NEW x, NEW y, <<x, y>> \in OlderIn(order)
      PROVE  \E i, j \in DOMAIN order : j < i /\ order[i].key = x /\ order[j].key = y
  <2>1. PICK q \in Q : <<x, y>> = <<order[q[1]].key, order[q[2]].key>>
    BY <1>3, <1>4
  <2> QED  BY <1>2, <2>1
<1>5. ASSUME NEW x, NEW y, NEW i \in DOMAIN order, NEW j \in DOMAIN order,
             j < i, order[i].key = x, order[j].key = y
      PROVE  <<x, y>> \in OlderIn(order)
  <2> DEFINE q == <<i, j>>
  <2>1. q \in Q /\ q[1] = i /\ q[2] = j
    BY <1>1, <1>5
  <2> HIDE DEF q
  <2> QED  BY <1>3, <1>5, <2>1
<1>6. \A p \in OlderIn(order) : \E x, y \in ListKeys(order) : p = <<x, y>>
  BY <1>2, <1>3 DEF ListKeys
<1> QED  BY <1>4, <1>5, <1>6

(* Sets of pairs with the same pairs are the same.                         *)
LEMMA SamePairs ==
  ASSUME NEW A, NEW B, \A p \in A \cup B : \E x, y : p = <<x, y>>,
         \A x, y : <<x, y>> \in A <=> <<x, y>> \in B
  PROVE  A = B
<1>1. ASSUME NEW p PROVE p \in A <=> p \in B
  <2>1. CASE p \in A \cup B
    <3>1. PICK x, y : p = <<x, y>>
      BY <2>1
    <3> QED  BY <3>1
  <2>2. CASE p \notin A \cup B
    BY <2>2
  <2> QED  BY <2>1, <2>2
<1> QED  BY <1>1

(* Without one key, the others keep their order.                           *)
Without(R, k) == {p \in R : p[1] \notin {k} /\ p[2] \notin {k}}

(* What is left are pairs of the other keys.                               *)
LEMMA WithoutFacts ==
  ASSUME NEW order \in Seq(Items(Key, Entry)), NEW k
  PROVE  /\ \A x, y : <<x, y>> \in Without(OlderIn(order), k) <=>
              <<x, y>> \in OlderIn(order) /\ x # k /\ y # k
         /\ \A p \in Without(OlderIn(order), k) : \E x, y : p = <<x, y>>
BY OlderFacts DEF Without

(* list.Remove.                                                            *)
LEMMA UnlinkOlder ==
  ASSUME NEW order \in Seq(Items(Key, Entry)), Distinct(order), NEW k \in ListKeys(order)
  PROVE  OlderIn(Unlink(order, k)) = Without(OlderIn(order), k)
<1> DEFINE n == Len(order)
           p == PosOf(order, k)
           r == Unlink(order, k)
<1>1. n \in Nat /\ DOMAIN order = 1 .. n /\ p \in 1 .. n /\ order[p].key = k
  BY PosOfFacts
<1>2. /\ r \in Seq(Items(Key, Entry)) /\ Len(r) = n - 1
      /\ \A i \in 1 .. n - 1 : r[i] = IF i < p THEN order[i] ELSE order[i + 1]
  <2> HIDE DEF p
  <2>1. p \in DOMAIN order
    BY <1>1
  <2> QED  BY <2>1, RemoveAtFacts DEF Unlink, p
<1> HIDE DEF p, r
<1>3. DOMAIN r = 1 .. n - 1
  BY <1>1, <1>2
<1>4. ASSUME NEW x, NEW y
      PROVE  <<x, y>> \in OlderIn(r) <=> <<x, y>> \in Without(OlderIn(order), k)
  <2>1. ASSUME <<x, y>> \in OlderIn(r) PROVE <<x, y>> \in Without(OlderIn(order), k)
    <3>1. PICK i \in 1 .. n - 1, j \in 1 .. n - 1 : j < i /\ r[i].key = x /\ r[j].key = y
      BY <1>2, <1>3, <2>1, OlderFacts
    <3> DEFINE a == IF i < p THEN i ELSE i + 1
               b == IF j < p THEN j ELSE j + 1
    <3>2. a \in 1 .. n /\ b \in 1 .. n /\ b < a /\ a # p /\ b # p
      BY <1>1, <3>1
    <3>3. order[a].key = x /\ order[b].key = y
      BY <1>2, <3>1
    <3> HIDE DEF a, b
    <3>4. x # k /\ y # k
      BY <1>1, <3>2, <3>3 DEF Distinct
    <3>5. <<x, y>> \in OlderIn(order)
      BY <1>1, <3>2, <3>3, OlderFacts
    <3> QED  BY <3>4, <3>5, WithoutFacts
  <2>2. ASSUME <<x, y>> \in Without(OlderIn(order), k) PROVE <<x, y>> \in OlderIn(r)
    <3>1. x # k /\ y # k /\ <<x, y>> \in OlderIn(order)
      BY <2>2, WithoutFacts
    <3>2. PICK i \in 1 .. n, j \in 1 .. n : j < i /\ order[i].key = x /\ order[j].key = y
      BY <1>1, <3>1, OlderFacts
    <3>3. i # p /\ j # p
      BY <1>1, <3>1, <3>2
    <3> DEFINE a == IF i < p THEN i ELSE i - 1
               b == IF j < p THEN j ELSE j - 1
    <3>4. a \in 1 .. n - 1 /\ b \in 1 .. n - 1 /\ b < a
      BY <1>1, <3>2, <3>3
    <3>5. r[a] = order[i]
      BY <1>1, <1>2, <3>3, <3>4
    <3>6. r[b] = order[j]
      BY <1>1, <1>2, <3>3, <3>4
    <3> HIDE DEF a, b
    <3>7. a \in DOMAIN r /\ b \in DOMAIN r /\ b < a /\ r[a].key = x /\ r[b].key = y
      BY <1>3, <3>2, <3>4, <3>5, <3>6
    <3> QED  BY <1>2, <3>7, OlderFacts
  <2> QED  BY <2>1, <2>2
<1>5. \A q \in OlderIn(r) \cup Without(OlderIn(order), k) : \E x, y : q = <<x, y>>
  BY <1>2, OlderFacts, WithoutFacts
<1> QED  BY <1>4, <1>5, SamePairs DEF r

(* list.PushFront: every other key is older.                               *)
LEMMA PushFrontOlder ==
  ASSUME NEW order \in Seq(Items(Key, Entry)), NEW k \in Key, NEW e \in Entry
  PROVE  OlderIn(PushFront(order, k, e))
           = OlderIn(order) \cup {<<x, k>> : x \in ListKeys(order)}
<1> DEFINE n == Len(order)
           h == [key |-> k, entry |-> e]
           r == PushFront(order, k, e)
           B == {<<x, k>> : x \in ListKeys(order)}
<1>1. n \in Nat /\ DOMAIN order = 1 .. n /\ h \in Items(Key, Entry) /\ h.key = k
  BY DEF Items
<1>2. /\ r \in Seq(Items(Key, Entry)) /\ Len(r) = n + 1
      /\ r[1] = h /\ \A i \in 1 .. n : r[i + 1] = order[i]
  <2> HIDE DEF h
  <2> QED  BY <1>1 DEF PushFront, h
<1> HIDE DEF h, r
<1>3. DOMAIN r = 1 .. n + 1
  BY <1>1, <1>2
<1>4. ASSUME NEW x, NEW y
      PROVE  <<x, y>> \in OlderIn(r) <=> <<x, y>> \in OlderIn(order) \cup B
  <2>1. ASSUME <<x, y>> \in OlderIn(r) PROVE <<x, y>> \in OlderIn(order) \cup B
    <3>0. PICK i \in DOMAIN r, j \in DOMAIN r : j < i /\ r[i].key = x /\ r[j].key = y
      <4> HIDE DEF B, n
      <4>1. r \in Seq(Items(Key, Entry))
        BY <1>2
      <4> QED  BY <4>1, <2>1, OlderFacts
    <3>1. i \in 1 .. n + 1 /\ j \in 1 .. n + 1 /\ j < i /\ r[i].key = x /\ r[j].key = y
      BY <1>3, <3>0
    <3>2. i - 1 \in 1 .. n /\ r[i] = order[i - 1]
      BY <1>1, <1>2, <3>1
    <3>3. CASE j = 1
      <4>1. y = k /\ x \in ListKeys(order)
        BY <1>1, <1>2, <3>1, <3>2, <3>3 DEF ListKeys
      <4> QED  BY <4>1
    <3>4. CASE j # 1
      <4>1. j - 1 \in 1 .. n /\ r[j] = order[j - 1] /\ j - 1 < i - 1
        BY <1>1, <1>2, <3>1, <3>4
      <4> QED  BY <1>1, <3>1, <3>2, <4>1, OlderFacts
    <3> QED  BY <3>3, <3>4
  <2>2. ASSUME <<x, y>> \in OlderIn(order) PROVE <<x, y>> \in OlderIn(r)
    <3>1. PICK i \in 1 .. n, j \in 1 .. n : j < i /\ order[i].key = x /\ order[j].key = y
      BY <1>1, <2>2, OlderFacts
    <3>2. i + 1 \in DOMAIN r /\ j + 1 \in DOMAIN r /\ j + 1 < i + 1
      BY <1>1, <1>3, <3>1
    <3>3. r[i + 1].key = x /\ r[j + 1].key = y
      BY <1>2, <3>1
    <3> QED  BY <1>2, <3>2, <3>3, OlderFacts
  <2>3. ASSUME <<x, y>> \in B PROVE <<x, y>> \in OlderIn(r)
    <3>1. y = k /\ x \in ListKeys(order)
      BY <2>3
    <3>2. PICK i \in 1 .. n : order[i].key = x
      BY <1>1, <3>1 DEF ListKeys
    <3>3. i + 1 \in DOMAIN r /\ 1 \in DOMAIN r /\ 1 < i + 1 /\ r[i + 1] = order[i]
      BY <1>1, <1>2, <1>3
    <3>4. r[i + 1].key = x /\ r[1].key = y
      BY <1>1, <1>2, <3>1, <3>2, <3>3
    <3> QED  BY <1>2, <3>3, <3>4, OlderFacts
  <2> QED  BY <2>1, <2>2, <2>3
<1>5. \A q \in OlderIn(r) \cup (OlderIn(order) \cup B) : \E x, y : q = <<x, y>>
  BY <1>2, OlderFacts
<1> HIDE DEF B
<1>6. OlderIn(r) = OlderIn(order) \cup B
  BY <1>4, <1>5, SamePairs
<1> QED  BY <1>6 DEF r, B

(* The eviction: the back of the list is older than the rest.              *)
LEMMA DropBackOlder ==
  ASSUME NEW order \in Seq(Items(Key, Entry)), Distinct(order), Len(order) > 0
  PROVE  LET v == order[Len(order)].key
         IN  /\ OlderIn(SubSeq(order, 1, Len(order) - 1)) = Without(OlderIn(order), v)
             /\ v \in ListKeys(order)
             /\ \A x \in ListKeys(order) \ {v} : <<v, x>> \in OlderIn(order)
<1> DEFINE n == Len(order)
           v == order[n].key
           r == SubSeq(order, 1, n - 1)
<1>1. n \in Nat \ {0} /\ DOMAIN order = 1 .. n /\ n \in 1 .. n
  OBVIOUS
<1>2. r \in Seq(Items(Key, Entry)) /\ Len(r) = n - 1 /\ \A i \in 1 .. n - 1 : r[i] = order[i]
  BY <1>1
<1> HIDE DEF r
<1>3. DOMAIN r = 1 .. n - 1
  BY <1>1, <1>2
<1>4. v \in ListKeys(order)
  BY <1>1 DEF ListKeys
<1>5. ASSUME NEW x \in ListKeys(order) \ {v} PROVE <<v, x>> \in OlderIn(order)
  <2>1. PICK j \in 1 .. n : order[j].key = x
    BY <1>1 DEF ListKeys
  <2>2. j < n
    BY <1>1, <2>1
  <2> QED  BY <1>1, <2>1, <2>2, OlderFacts
<1>6. ASSUME NEW x, NEW y
      PROVE  <<x, y>> \in OlderIn(r) <=> <<x, y>> \in Without(OlderIn(order), v)
  <2>1. ASSUME <<x, y>> \in OlderIn(r) PROVE <<x, y>> \in Without(OlderIn(order), v)
    <3>1. PICK i \in 1 .. n - 1, j \in 1 .. n - 1 : j < i /\ r[i].key = x /\ r[j].key = y
      BY <1>2, <1>3, <2>1, OlderFacts, SMTT(20)
    <3>2. i \in 1 .. n /\ j \in 1 .. n /\ i # n /\ j # n
      <4>1. i \in 1 .. n - 1 /\ j \in 1 .. n - 1 /\ n \in Nat
        BY <1>1
      <4> HIDE DEF n
      <4> QED  BY <4>1
    <3>5. order[i].key = x /\ order[j].key = y
      BY <1>2, <3>1
    <3>3. x # v /\ y # v
      BY <1>1, <3>2, <3>5 DEF Distinct
    <3>4. <<x, y>> \in OlderIn(order)
      BY <1>1, <3>1, <3>2, <3>5, OlderFacts
    <3> QED  BY <3>3, <3>4, WithoutFacts
  <2>2. ASSUME <<x, y>> \in Without(OlderIn(order), v) PROVE <<x, y>> \in OlderIn(r)
    <3>1. x # v /\ y # v /\ <<x, y>> \in OlderIn(order)
      BY <2>2, WithoutFacts
    <3>2. PICK i \in 1 .. n, j \in 1 .. n : j < i /\ order[i].key = x /\ order[j].key = y
      BY <1>1, <3>1, OlderFacts
    <3>3. i \in 1 .. n - 1 /\ j \in 1 .. n - 1
      BY <1>1, <3>1, <3>2
    <3> QED  BY <1>2, <1>3, <3>2, <3>3, OlderFacts
  <2> QED  BY <2>1, <2>2
<1>7. \A q \in OlderIn(r) \cup Without(OlderIn(order), v) : \E x, y : q = <<x, y>>
  BY <1>2, OlderFacts, WithoutFacts
<1>8. OlderIn(r) = Without(OlderIn(order), v)
  BY <1>6, <1>7, SamePairs
<1> QED  BY <1>4, <1>5, <1>8 DEF r

(* What a coherent cache has in its parts.                                 *)
LEMMA CoherentFields ==
  ASSUME NEW c, Coherent(Key, Entry, c)
  PROVE  /\ c.order \in Seq(Items(Key, Entry)) /\ Distinct(c.order)
         /\ c.items = ListKeys(c.order) /\ c.items \subseteq Key
         /\ c.capacity \in Nat \ {0} /\ Len(c.order) \in Nat /\ Len(c.order) <= c.capacity
         /\ DOMAIN ValuesOf(c) = c.items /\ \A x \in c.items : ValuesOf(c)[x] = EntryOf(c, x)
<1>1. /\ c.order \in Seq(Items(Key, Entry)) /\ Distinct(c.order)
      /\ c.items = ListKeys(c.order) /\ c.items \subseteq Key
      /\ c.capacity \in Nat \ {0} /\ Len(c.order) <= c.capacity
  BY DEF Coherent, CacheOf
<1> QED  BY <1>1 DEF ValuesOf

(* There are as many keys as elements of the list.                         *)
LEMMA CacheSize ==
  ASSUME NEW c, Coherent(Key, Entry, c)
  PROVE  Cardinality(c.items) = Len(c.order)
<1> DEFINE n == Len(c.order)
           T == ListKeys(c.order)
           f == [i \in 1 .. n |-> c.order[i].key]
<1>1. n \in Nat /\ DOMAIN c.order = 1 .. n /\ c.items = T /\ Distinct(c.order)
  <2>1. c.order \in Seq(Items(Key, Entry)) /\ c.items = T /\ Distinct(c.order)
    BY CoherentFields
  <2> QED  BY <2>1
<1>2. f \in Surjection(1 .. n, T)
  <2>1. f \in [1 .. n -> T]
    BY <1>1 DEF ListKeys
  <2>2. \A t \in T : \E i \in 1 .. n : f[i] = t
    BY <1>1 DEF ListKeys
  <2> HIDE DEF f, T, n
  <2> QED  BY <2>1, <2>2 DEF Surjection
<1>3. f \in Injection(1 .. n, T)
  <2>1. \A i, j \in 1 .. n : f[i] = f[j] => i = j
    BY <1>1 DEF Distinct
  <2>2. f \in [1 .. n -> T]
    BY <1>1 DEF ListKeys
  <2>3. DOMAIN f = 1 .. n
    OBVIOUS
  <2> HIDE DEF f, T, n
  <2> QED  BY <2>1, <2>2, <2>3 DEF Injection, IsInjective
<1>4. IsFiniteSet(1 .. n) /\ Cardinality(1 .. n) = n
  BY <1>1, FS_Interval
<1> HIDE DEF f, T, n
<1>5. Cardinality(T) = Cardinality(1 .. n)
  BY <1>2, <1>3, <1>4, FS_Surjection
<1> QED  BY <1>1, <1>4, <1>5 DEF n

(* What the cache stores after each operation.  Get: what it did before.   *)
LEMMA GetValues ==
  ASSUME NEW c, Coherent(Key, Entry, c), NEW k
  PROVE  ValuesOf(AfterGet(c, k)) = ValuesOf(c)
<1> DEFINE d == AfterGet(c, k)
<1>1. Coherent(Key, Entry, d) /\ d.items = c.items
  BY AfterGetCoherent
<1>2. Contents(d.order) = Contents(c.order)
  BY AfterGetContents
<1> HIDE DEF d
<1>3. ASSUME NEW x \in c.items PROVE EntryOf(d, x) = EntryOf(c, x)
  <2> DEFINE i == [key |-> x, entry |-> EntryOf(d, x)]
  <2>1. i \in Contents(d.order)
    BY <1>1, EntryOfContents
  <2>2. i.key = x /\ i.entry = EntryOf(d, x)
    OBVIOUS
  <2> HIDE DEF i
  <2>3. EntryOf(c, i.key) = i.entry
    BY <1>2, <2>1, EntryOfContents
  <2> QED  BY <2>2, <2>3
<1>4. c.items = ListKeys(c.order) /\ d.items = ListKeys(d.order)
  BY <1>1, CoherentFields
<1>5. ValuesOf(d) = [x \in c.items |-> EntryOf(d, x)]
  BY <1>1, <1>4 DEF ValuesOf
<1>6. ValuesOf(c) = [x \in c.items |-> EntryOf(c, x)]
  BY <1>4 DEF ValuesOf
<1> QED  BY <1>3, <1>5, <1>6 DEF d

(* Put: its key has its entry, any other key what it had.                  *)
LEMMA PutValues ==
  ASSUME NEW c, Coherent(Key, Entry, c), NEW k \in Key, NEW e \in Entry
  PROVE  LET d == AfterPut(c, k, e)
         IN  /\ Coherent(Key, Entry, d) /\ k \in d.items /\ d.items \subseteq c.items \cup {k}
             /\ ValuesOf(d) = [x \in d.items |-> IF x = k THEN e ELSE ValuesOf(c)[x]]
<1> DEFINE d == AfterPut(c, k, e)
           h == [key |-> k, entry |-> e]
<1>1. Coherent(Key, Entry, d)
  BY AfterPutCoherent
<1>2. /\ h \in Contents(d.order)
      /\ Contents(d.order) \subseteq {y \in Contents(c.order) : y.key # k} \cup {h}
  BY AfterPutContents
<1>3. h.key = k /\ h.entry = e
  OBVIOUS
<1> HIDE DEF d, h
<1>4. k \in d.items
  BY <1>1, <1>2, <1>3, EntryOfContents
<1>5. ASSUME NEW x \in d.items
      PROVE  /\ EntryOf(d, x) = IF x = k THEN e ELSE ValuesOf(c)[x]
             /\ x \in c.items \cup {k}
  <2> DEFINE i == [key |-> x, entry |-> EntryOf(d, x)]
  <2>1. i \in Contents(d.order)
    BY <1>1, EntryOfContents
  <2>2. i.key = x /\ i.entry = EntryOf(d, x)
    OBVIOUS
  <2> HIDE DEF i
  <2>3. CASE i = h
    BY <2>2, <2>3, <1>3
  <2>4. CASE i \in Contents(c.order) /\ i.key # k
    <3>1. EntryOf(c, i.key) = i.entry /\ i.key \in c.items
      BY <2>4, EntryOfContents
    <3>2. ValuesOf(c)[x] = EntryOf(c, x)
      BY <2>2, <3>1, CoherentFields
    <3> QED  BY <2>2, <2>4, <3>1, <3>2
  <2> QED  BY <1>2, <2>1, <2>3, <2>4
<1>6. d.items = ListKeys(d.order)
  BY <1>1, CoherentFields
<1>7. ValuesOf(d) = [x \in d.items |-> EntryOf(d, x)]
  BY <1>6 DEF ValuesOf
<1>8. ValuesOf(d) = [x \in d.items |-> IF x = k THEN e ELSE ValuesOf(c)[x]]
  BY <1>5, <1>7
<1> QED  BY <1>1, <1>4, <1>5, <1>8 DEF d

(* Delete: the other keys have what they had.                              *)
LEMMA DeleteValues ==
  ASSUME NEW c, Coherent(Key, Entry, c), NEW k
  PROVE  ValuesOf(AfterDelete(c, k)) = [x \in c.items \ {k} |-> ValuesOf(c)[x]]
<1> DEFINE d == AfterDelete(c, k)
<1>1. Coherent(Key, Entry, d) /\ d.items = c.items \ {k}
  BY AfterDeleteCoherent
<1>2. Contents(d.order) = {y \in Contents(c.order) : y.key # k}
  BY AfterDeleteContents
<1> HIDE DEF d
<1>3. ASSUME NEW x \in d.items PROVE EntryOf(d, x) = ValuesOf(c)[x]
  <2> DEFINE i == [key |-> x, entry |-> EntryOf(d, x)]
  <2>1. i \in Contents(d.order)
    BY <1>1, EntryOfContents
  <2>2. i.key = x /\ i.entry = EntryOf(d, x)
    OBVIOUS
  <2> HIDE DEF i
  <2>3. EntryOf(c, i.key) = i.entry /\ i.key \in c.items
    BY <1>2, <2>1, EntryOfContents
  <2>4. ValuesOf(c)[x] = EntryOf(c, x)
    BY <2>2, <2>3, CoherentFields
  <2> QED  BY <2>2, <2>3, <2>4
<1>4. d.items = ListKeys(d.order)
  BY <1>1, CoherentFields
<1>5. ValuesOf(d) = [x \in d.items |-> EntryOf(d, x)]
  BY <1>4 DEF ValuesOf
<1>6. ValuesOf(d) = [x \in d.items |-> ValuesOf(c)[x]]
  BY <1>3, <1>5
<1> QED  BY <1>1, <1>6 DEF d

(* The abstract specification counts as this module does.                  *)
LEMMA SameCardinality ==
  ASSUME NEW S
  PROVE  Recency!Cardinality(S) = Cardinality(S)
BY DEF Recency!Cardinality, Cardinality

(* A key that is not there is in no pair.                                  *)
LEMMA WithoutAbsent ==
  ASSUME NEW order \in Seq(Items(Key, Entry)), NEW k, k \notin ListKeys(order)
  PROVE  Without(OlderIn(order), k) = OlderIn(order)
<1>1. \A x, y : <<x, y>> \in Without(OlderIn(order), k) <=> <<x, y>> \in OlderIn(order)
  <2>1. \A x, y : <<x, y>> \in OlderIn(order) => x # k /\ y # k
    BY OlderFacts DEF ListKeys
  <2> QED  BY <2>1, WithoutFacts
<1>2. \A q \in Without(OlderIn(order), k) \cup OlderIn(order) : \E x, y : q = <<x, y>>
  BY OlderFacts, WithoutFacts
<1> QED  BY <1>1, <1>2, SamePairs

(* MoveToFront.                                                            *)
LEMMA MovedOlder ==
  ASSUME NEW c, Coherent(Key, Entry, c), NEW k \in c.items, NEW e \in Entry
  PROVE  OlderIn(PushFront(Unlink(c.order, k), k, e))
           = Without(OlderIn(c.order), k) \cup {<<x, k>> : x \in c.items \ {k}}
<1> DEFINE u == Unlink(c.order, k)
<1>1. /\ c.order \in Seq(Items(Key, Entry)) /\ Distinct(c.order) /\ c.items = ListKeys(c.order)
      /\ k \in Key
  BY CoherentFields
<1>2. u \in Seq(Items(Key, Entry)) /\ ListKeys(u) = c.items \ {k}
  BY <1>1, UnlinkFacts
<1>3. OlderIn(u) = Without(OlderIn(c.order), k)
  BY <1>1, UnlinkOlder
<1> HIDE DEF u
<1>4. OlderIn(PushFront(u, k, e)) = OlderIn(u) \cup {<<x, k>> : x \in ListKeys(u)}
  BY <1>1, <1>2, PushFrontOlder
<1> QED  BY <1>2, <1>3, <1>4 DEF u

(* A new cache.                                                            *)
LEMMA RecencyStarts ==
  ASSUME CacheInit, CacheInv
  PROVE  Recency!RecencyInit
<1>1. cache.order = << >> /\ answer = NotFound
  BY DEF CacheInit, NewCache
<1>2. cache.capacity \in Nat \ {0}
  BY CoherentFields DEF CacheInv
<1>3. ListKeys(cache.order) = {} /\ DOMAIN cache.order = {}
  BY <1>1 DEF ListKeys
<1>4. ValuesOf(cache) = << >>
  BY <1>3 DEF ValuesOf
<1>5. OlderIn(cache.order) = {}
  BY <1>3 DEF OlderIn
<1> QED  BY <1>1, <1>2, <1>4, <1>5 DEF Recency!RecencyInit

(* Get uses its key, if it is there.                                       *)
LEMMA RecencyOfGet ==
  ASSUME CacheInv, NEW k \in Key, Get(k)
  PROVE  Recency!RecencyGet(k) /\ cache'.capacity = cache.capacity
<1>1. Coherent(Key, Entry, cache) /\ cache \in CacheOf(Key, Entry)
  BY DEF CacheInv, Coherent
<1>2. DOMAIN ValuesOf(cache) = cache.items
      /\ \A x \in cache.items : ValuesOf(cache)[x] = EntryOf(cache, x)
  BY <1>1, CoherentFields
<1>3. ValuesOf(cache') = ValuesOf(cache)
  BY <1>1, GetValues DEF Get
<1>4. CASE k \in cache.items
  <2> DEFINE e == EntryOf(cache, k)
  <2>1. answer' = ValuesOf(cache)[k]
    BY <1>2, <1>4 DEF Get
  <2>2. cache'.order = PushFront(Unlink(cache.order, k), k, e) /\ cache'.capacity = cache.capacity
    BY <1>1, <1>4 DEF Get, AfterGet, CacheOf
  <2>3. e \in Entry
    BY <1>1, <1>4, EntryOfType
  <2> HIDE DEF e
  <2>4. OlderIn(cache'.order)
          = Without(OlderIn(cache.order), k) \cup {<<x, k>> : x \in cache.items \ {k}}
    BY <1>1, <1>4, <2>2, <2>3, MovedOlder
  <2> QED  BY <1>2, <1>3, <1>4, <2>1, <2>2, <2>4
           DEF Recency!RecencyGet, Recency!Use, Recency!Forget, Without
<1>5. CASE k \notin cache.items
  <2>1. answer' = NotFound /\ cache' = cache
    BY <1>5 DEF Get, AfterGet
  <2> QED  BY <1>2, <1>5, <2>1 DEF Recency!RecencyGet
<1> QED  BY <1>4, <1>5

(* Delete, and a turn of DeleteByPrefix, forget a key.                     *)
LEMMA RecencyOfDelete ==
  ASSUME CacheInv, NEW k \in Key, cache' = AfterDelete(cache, k), answer' = answer
  PROVE  \/ Recency!RecencyDelete(k) /\ cache'.capacity = cache.capacity
         \/ cache' = cache
<1>1. Coherent(Key, Entry, cache) /\ cache \in CacheOf(Key, Entry)
  BY DEF CacheInv, Coherent
<1>2. /\ DOMAIN ValuesOf(cache) = cache.items /\ cache.items = ListKeys(cache.order)
      /\ cache.order \in Seq(Items(Key, Entry)) /\ Distinct(cache.order)
  BY <1>1, CoherentFields
<1>3. CASE k \in cache.items
  <2>1. cache'.order = Unlink(cache.order, k) /\ cache'.capacity = cache.capacity
    BY <1>1, <1>3 DEF AfterDelete, CacheOf
  <2>2. OlderIn(cache'.order) = Without(OlderIn(cache.order), k)
    BY <1>2, <1>3, <2>1, UnlinkOlder
  <2>3. ValuesOf(cache') = [x \in cache.items \ {k} |-> ValuesOf(cache)[x]]
    BY <1>1, DeleteValues
  <2> QED  BY <1>2, <1>3, <2>1, <2>2, <2>3 DEF Recency!RecencyDelete, Recency!Forget, Without
<1>4. CASE k \notin cache.items
  BY <1>4 DEF AfterDelete
<1> QED  BY <1>3, <1>4

(* Put stores its entry, and evicts the least recent key of a full cache.  *)
LEMMA RecencyOfPut ==
  ASSUME CacheInv, NEW k \in Key, NEW e \in Entry, Put(k, e)
  PROVE  /\ Recency!RecencyPut(k, e) \/ Recency!RecencyEvict(k, e)
         /\ cache'.capacity = cache.capacity
<1> DEFINE n == Len(cache.order)
<1>1. Coherent(Key, Entry, cache) /\ cache \in CacheOf(Key, Entry)
  BY DEF CacheInv, Coherent
<1>2. /\ DOMAIN ValuesOf(cache) = cache.items /\ cache.items = ListKeys(cache.order)
      /\ cache.order \in Seq(Items(Key, Entry)) /\ Distinct(cache.order)
      /\ cache.capacity \in Nat \ {0} /\ n \in Nat /\ n <= cache.capacity
  BY <1>1, CoherentFields
<1>3. cache' = AfterPut(cache, k, e) /\ answer' = answer
  BY DEF Put
<1>4. /\ Coherent(Key, Entry, cache')
      /\ ValuesOf(cache') = [x \in cache'.items |-> IF x = k THEN e ELSE ValuesOf(cache)[x]]
  BY <1>1, <1>3, PutValues
<1>5. cache'.items = ListKeys(cache'.order)
  BY <1>4, CoherentFields
<1>6. Recency!Cardinality(cache.items) = n
  BY <1>1, CacheSize, SameCardinality
<1>7. CASE k \in cache.items
  <2>1. /\ cache'.order = PushFront(Unlink(cache.order, k), k, e)
        /\ cache'.capacity = cache.capacity /\ cache'.items = cache.items
    BY <1>1, <1>3, <1>7 DEF AfterPut, CacheOf
  <2>2. OlderIn(cache'.order)
          = Without(OlderIn(cache.order), k) \cup {<<x, k>> : x \in cache.items \ {k}}
    BY <1>1, <1>7, <2>1, MovedOlder
  <2>3. cache'.items = cache.items \cup {k}
    BY <1>7, <2>1
  <2>4. Recency!RecencyPut(k, e)
    BY <1>2, <1>3, <1>4, <1>7, <2>2, <2>3
    DEF Recency!RecencyPut, Recency!Use, Recency!Forget, Without
  <2> QED  BY <2>1, <2>4
<1>8. CASE k \notin cache.items /\ n < cache.capacity
  <2>1. Evicted(cache) = cache
    BY <1>2, <1>8 DEF Evicted
  <2>2. /\ cache'.order = PushFront(cache.order, k, e)
        /\ cache'.capacity = cache.capacity /\ cache'.items = cache.items \cup {k}
    BY <1>1, <1>3, <1>8, <2>1 DEF AfterPut, CacheOf
  <2>3. OlderIn(cache'.order) = OlderIn(cache.order) \cup {<<x, k>> : x \in cache.items}
    BY <1>2, <2>2, PushFrontOlder
  <2>4. Without(OlderIn(cache.order), k) = OlderIn(cache.order) /\ cache.items \ {k} = cache.items
    BY <1>2, <1>8, WithoutAbsent
  <2>5. Recency!RecencyPut(k, e)
    BY <1>2, <1>3, <1>4, <1>6, <1>8, <2>2, <2>3, <2>4
    DEF Recency!RecencyPut, Recency!Use, Recency!Forget, Without
  <2> QED  BY <2>2, <2>5
<1>9. CASE k \notin cache.items /\ ~(n < cache.capacity)
  <2> DEFINE b == SubSeq(cache.order, 1, n - 1)
             v == cache.order[n].key
             kept == cache.items \ {v}
             c == Evicted(cache)
  <2>1. n > 0 /\ n = cache.capacity
    BY <1>2, <1>9
  <2>2. /\ c.order = b /\ c.items = kept /\ c.capacity = cache.capacity
        /\ c \in CacheOf(Key, Entry)
    <3>1. c.order = b /\ c.items = kept /\ c.capacity = cache.capacity
      BY <1>1, <2>1 DEF Evicted, CacheOf
    <3>2. c \in CacheOf(Key, Entry)
      BY <1>1, EvictedCoherent DEF Coherent
    <3> QED  BY <3>1, <3>2
  <2>3. /\ OlderIn(b) = Without(OlderIn(cache.order), v) /\ v \in cache.items
        /\ \A x \in cache.items \ {v} : <<v, x>> \in OlderIn(cache.order)
    BY <1>2, <2>1, DropBackOlder
  <2>4. b \in Seq(Items(Key, Entry)) /\ ListKeys(b) = kept
    BY <1>2, <2>1, DropBackFacts
  <2>5. cache' = [c EXCEPT !.order = PushFront(@, k, e), !.items = @ \cup {k}]
    BY <1>3, <1>9 DEF AfterPut
  <2> HIDE DEF b, v, c
  <2>6. /\ cache'.order = PushFront(b, k, e) /\ cache'.capacity = cache.capacity
        /\ cache'.items = kept \cup {k}
    BY <2>2, <2>5 DEF CacheOf
  <2>7. OlderIn(cache'.order)
          = Without(OlderIn(cache.order), v) \cup {<<x, k>> : x \in kept}
    BY <2>3, <2>4, <2>6, PushFrontOlder
  <2>8. ValuesOf(cache') = [x \in kept \cup {k} |-> IF x = k THEN e ELSE ValuesOf(cache)[x]]
    BY <1>4, <2>6
  <2>9. Recency!LeastRecent(v)
    BY <1>2, <2>3 DEF Recency!LeastRecent
  <2>10. Recency!RecencyEvict(k, e)
    BY <1>2, <1>3, <1>6, <1>9, <2>1, <2>3, <2>7, <2>8, <2>9
    DEF Recency!RecencyEvict, Recency!Forget, Without
  <2> QED  BY <2>6, <2>10
<1> QED  BY <1>7, <1>8, <1>9

(* Every step of the cache is one of LRURecency, or none.                  *)
LEMMA RecencyStep ==
  ASSUME CacheInv, CacheNext
  PROVE  Recency!RecencyNext \/ UNCHANGED Recency!recencyVars
<1>1. ASSUME NEW k \in Key, Get(k) PROVE Recency!RecencyNext
  BY <1>1, RecencyOfGet DEF Recency!RecencyNext
<1>2. ASSUME NEW k \in Key, NEW e \in Entry, Put(k, e) PROVE Recency!RecencyNext
  BY <1>2, RecencyOfPut DEF Recency!RecencyNext
<1>3. ASSUME NEW k \in Key, cache' = AfterDelete(cache, k), answer' = answer
      PROVE  Recency!RecencyNext \/ UNCHANGED Recency!recencyVars
  <2>1. CASE Recency!RecencyDelete(k) /\ cache'.capacity = cache.capacity
    BY <2>1 DEF Recency!RecencyNext
  <2>2. CASE cache' = cache
    BY <1>3, <2>2 DEF Recency!recencyVars
  <2> QED  BY <1>3, <2>1, <2>2, RecencyOfDelete
<1>4. ASSUME UNCHANGED <<cache, answer>> PROVE UNCHANGED Recency!recencyVars
  BY <1>4 DEF Recency!recencyVars
<1> QED  BY <1>1, <1>2, <1>3, <1>4
         DEF CacheNext, Delete, SweepKey, DeleteByPrefix, SweepEnd

(***************************************************************************)
(* The list of cache.go is a faithful record of recency, for any keys and  *)
(* any capacity: the cache implements LRURecency, so that a Put into a     *)
(* full cache evicts the key that Get and Put used longest ago, and Get    *)
(* answers with what was last Put.                                         *)
(***************************************************************************)
THEOREM CacheImplementsRecency == CacheSpec => ImplementsRecency
<1>1. CacheInit => Recency!RecencyInit
  BY RecencyStarts, CacheInitInv
<1>2. CacheInv /\ [CacheNext]_cacheVars => [Recency!RecencyNext]_Recency!recencyVars
  <2>1. CASE CacheNext
    BY <2>1, RecencyStep
  <2>2. CASE UNCHANGED cacheVars
    BY <2>2 DEF cacheVars, Recency!recencyVars
  <2> QED  BY <2>1, <2>2
<1> QED  BY <1>1, <1>2, CacheInitInv, CacheNextInv, PTL
         DEF CacheSpec, ImplementsRecency, Recency!RecencySpec
==============================================================================

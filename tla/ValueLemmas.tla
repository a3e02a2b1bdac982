----------------------------- MODULE ValueLemmas -----------------------------
(***************************************************************************)
(* Facts about values that the proofs of several components cite.          *)
(*                                                                         *)
(* The first half is about numbers and lists made step by step: induction, *)
(* that recursive functions exist, and FlattenSeq.                         *)
(*                                                                         *)
(* The second is what the operations of the checker cache do to a cache    *)
(* value, for every set K of keys and E of entries: they keep the map and  *)
(* the list in agreement, and change the stored items as their callers     *)
(* expect.                                                                 *)
(***************************************************************************)
EXTENDS LRUOps, SequenceTheorems, WellFoundedInduction, TLAPS

(* A set of numbers that is not empty has a least one.                     *)
LEMMA LeastNumber ==
  ASSUME NEW S \in SUBSET Nat, S # {}
  PROVE  \E m \in S : \A i \in S : m <= i
<1> DEFINE less == {ss \in Nat \X Nat : ss[1] < ss[2]}
<1>1. OpToRel(<, Nat) = less
  BY Zenon DEF OpToRel
<1>2. PICK x \in S : \A y \in S : ~(<<y, x>> \in less)
  BY <1>1, NatLessThanWellFounded, WFMin
<1>3. ASSUME NEW y \in S PROVE x <= y
  <2>1. x \in Nat /\ y \in Nat
    OBVIOUS
  <2>2. y < x => <<y, x>> \in less
    BY <2>1
  <2> QED  BY <1>2, <2>1, <2>2
<1> QED  BY <1>2, <1>3

(* What holds for 0, and for i + 1 if it holds for i, holds up to n.       *)
LEMMA Induction ==
  ASSUME NEW n \in Nat, NEW S, 0 \in S, \A i \in 0 .. n - 1 : i \in S => i + 1 \in S
  PROVE  0 .. n \subseteq S
<1> DEFINE T == {i \in 0 .. n : i \notin S}
<1>1. SUFFICES ASSUME T # {} PROVE FALSE
  OBVIOUS
<1>2. T \in SUBSET Nat
  OBVIOUS
<1> HIDE DEF T
<1>3. PICK m \in T : \A i \in T : m <= i
  BY <1>1, <1>2, LeastNumber
<1>4. m \in 0 .. n /\ m \notin S
  BY <1>3 DEF T
<1>5. m - 1 \in 0 .. n - 1
  BY <1>4
<1>6. m - 1 \in S
  BY <1>3, <1>4, <1>5 DEF T
<1>7. (m - 1) + 1 \in S
  BY <1>5, <1>6
<1> QED  BY <1>4, <1>7

(* f lists the values that step i gives for the value before, from a on.   *)
Iterates(f, V, a, step, n) ==
  /\ f \in [0 .. n -> V] /\ f[0] = a
  /\ \A i \in 0 .. n - 1 : f[i + 1] = step[i][f[i]]

(* There is such a list: what a recursive function on 0 .. n needs.        *)
LEMMA Iteration ==
  ASSUME NEW V, NEW a \in V, NEW step \in [Nat -> [V -> V]], NEW n \in Nat
  PROVE  \E f : Iterates(f, V, a, step, n)
<1> DEFINE Fits(f, k) == f[0] = a /\ \A i \in 0 .. k - 1 : f[i + 1] = step[i][f[i]]
           S == {k \in Nat : \E f \in [0 .. k -> V] : Fits(f, k)}
<1>1. 0 \in S
  <2> DEFINE f == [i \in 0 .. 0 |-> a]
  <2>1. f \in [0 .. 0 -> V] /\ f[0] = a /\ 0 .. 0 - 1 = {}
    OBVIOUS
  <2> QED  BY <2>1
<1>2. ASSUME NEW k \in 0 .. n - 1, k \in S PROVE k + 1 \in S
  <2>1. PICK f \in [0 .. k -> V] : Fits(f, k)
    BY <1>2
  <2> DEFINE g == [i \in 0 .. k + 1 |-> IF i = k + 1 THEN step[k][f[k]] ELSE f[i]]
  <2>2. k \in Nat /\ k + 1 \in Nat /\ k \in 0 .. k /\ f[k] \in V
    BY <1>2
  <2>3. step[k][f[k]] \in V
    BY <2>2
  <2>4. ASSUME NEW i \in 0 .. k + 1, i # k + 1 PROVE i \in 0 .. k /\ f[i] \in V
    BY <2>2, <2>4
  <2>5. g \in [0 .. k + 1 -> V]
    BY <2>3, <2>4
  <2>6. g[0] = a
    BY <2>1, <2>2
  <2>7. ASSUME NEW i \in 0 .. (k + 1) - 1 PROVE g[i + 1] = step[i][g[i]]
    <3>1. i \in 0 .. k + 1 /\ i # k + 1 /\ i + 1 \in 0 .. k + 1
      BY <2>2
    <3>2. g[i] = f[i]
      BY <3>1
    <3>3. CASE i = k
      <4>1. g[i + 1] = step[k][f[k]]
        BY <3>1, <3>3
      <4> HIDE DEF g
      <4> QED  BY <4>1, <3>2, <3>3
    <3>4. CASE i # k
      <4>1. i \in 0 .. k - 1 /\ i + 1 # k + 1
        BY <3>4, <2>2
      <4>2. g[i + 1] = f[i + 1]
        BY <3>1, <4>1
      <4> HIDE DEF g
      <4> QED  BY <4>1, <4>2, <3>2, <2>1
    <3> QED  BY <3>3, <3>4
  <2> HIDE DEF g
  <2> QED  BY <2>2, <2>5, <2>6, <2>7
<1> HIDE DEF S
<1>3. 0 .. n \subseteq S
  BY <1>1, <1>2, Induction
<1>4. n \in S
  BY <1>3
<1> QED  BY <1>4 DEF S, Iterates

(* f lists what FlattenSeq makes of the first members of seqs.             *)
Flattens(f, seqs) ==
  f = [i \in 1 .. Len(seqs) |-> IF i = 1 THEN seqs[i] ELSE f[i-1] \o seqs[i]]

(* FlattenSeq is the last member of such a list.                           *)
LEMMA FlattenSeqFacts ==
  ASSUME NEW E, NEW seqs \in Seq(Seq(E)), Len(seqs) # 0
  PROVE  \E f : Flattens(f, seqs) /\ FlattenSeq(seqs) = f[Len(seqs)]
<1> DEFINE N == Len(seqs)
           step == [i \in Nat |-> [v \in Seq(E) |->
                      IF i + 2 \in 1 .. N THEN v \o seqs[i + 2] ELSE v]]
           g == CHOOSE f : Flattens(f, seqs)
<1>1. N \in Nat \ {0} /\ \A i \in 1 .. N : seqs[i] \in Seq(E)
  OBVIOUS
<1>2. step \in [Nat -> [Seq(E) -> Seq(E)]]
  <2>1. ASSUME NEW i \in Nat, NEW v \in Seq(E)
        PROVE  (IF i + 2 \in 1 .. N THEN v \o seqs[i + 2] ELSE v) \in Seq(E)
    <3>1. CASE i + 2 \in 1 .. N
      <4>1. seqs[i + 2] \in Seq(E)
        BY <1>1, <3>1
      <4> QED  BY <3>1, <4>1
    <3>2. CASE i + 2 \notin 1 .. N
      BY <3>2
    <3> QED  BY <3>1, <3>2
  <2> HIDE DEF N
  <2> QED  BY <2>1
<1>3. PICK h : Iterates(h, Seq(E), seqs[1], step, N - 1)
  <2>1. seqs[1] \in Seq(E) /\ N - 1 \in Nat
    BY <1>1
  <2> HIDE DEF step, N
  <2> QED  BY <2>1, <1>2, Iteration
<1>4. \E f : Flattens(f, seqs)
  <2> DEFINE f == [i \in 1 .. N |-> h[i - 1]]
  <2>1. /\ h \in [0 .. N - 1 -> Seq(E)] /\ h[0] = seqs[1]
        /\ \A i \in 0 .. (N - 1) - 1 : h[i + 1] = step[i][h[i]]
    BY <1>3 DEF Iterates
  <2>2. ASSUME NEW i \in 1 .. N, i # 1 PROVE h[i - 1] = h[(i - 1) - 1] \o seqs[i]
    <3>1. /\ i - 2 \in 0 .. (N - 1) - 1 /\ i - 2 \in Nat /\ (i - 2) + 1 = i - 1
          /\ (i - 2) + 2 = i /\ i - 2 \in 0 .. N - 1 /\ (i - 1) - 1 = i - 2
      BY <1>1, <2>2
    <3>2. h[i - 1] = step[i - 2][h[i - 2]] /\ h[i - 2] \in Seq(E)
      BY <2>1, <3>1
    <3>3. step[i - 2][h[i - 2]] = h[i - 2] \o seqs[i]
      BY <3>1, <3>2
    <3> QED  BY <3>1, <3>2, <3>3
  <2>3. ASSUME NEW i \in 1 .. N
        PROVE  f[i] = IF i = 1 THEN seqs[i] ELSE f[i-1] \o seqs[i]
    <3>1. CASE i = 1
      BY <3>1, <2>1
    <3>2. CASE i # 1
      <4>1. i - 1 \in 1 .. N
        BY <1>1, <3>2
      <4>2. f[i] = h[i - 1] /\ f[i - 1] = h[(i - 1) - 1]
        BY <4>1
      <4> HIDE DEF f
      <4> QED  BY <4>2, <3>2, <2>2
    <3> QED  BY <3>1, <3>2
  <2>4. f = [i \in 1 .. N |-> IF i = 1 THEN seqs[i] ELSE f[i-1] \o seqs[i]]
    BY <2>3
  <2> HIDE DEF f
  <2> QED  BY <2>4 DEF Flattens
<1>5. Flattens(g, seqs)
  BY <1>4
<1>6. FlattenSeq(seqs) = g[N]
  BY DEF FlattenSeq, Flattens
<1> HIDE DEF g
<1> QED  BY <1>5, <1>6

(* A list is what its equation says, place by place.                       *)
LEMMA FlattensAt ==
  ASSUME NEW E, NEW seqs \in Seq(Seq(E)), Len(seqs) # 0, NEW f, Flattens(f, seqs)
  PROVE  /\ f[1] = seqs[1]
         /\ \A i \in 1 .. Len(seqs) - 1 : f[i + 1] = f[i] \o seqs[i + 1]
<1> DEFINE N == Len(seqs)
           F == [i \in 1 .. N |-> IF i = 1 THEN seqs[i] ELSE f[i-1] \o seqs[i]]
<1>1. N \in Nat \ {0}
  OBVIOUS
<1>2. F[1] = seqs[1]
  BY <1>1
<1>3. ASSUME NEW i \in 1 .. N - 1 PROVE F[i + 1] = f[i] \o seqs[i + 1]
  <2>1. i + 1 \in 1 .. N /\ i + 1 # 1 /\ (i + 1) - 1 = i
    BY <1>1
  <2>2. F[i + 1] = f[(i + 1) - 1] \o seqs[i + 1]
    BY <2>1
  <2> QED  BY <2>1, <2>2
<1>4. f = F
  BY Zenon DEF Flattens
<1> HIDE DEF F
<1> QED  BY <1>2, <1>3, <1>4

(* FlattenSeq gives a sequence of the members' members.                    *)
LEMMA FlattenType ==
  ASSUME NEW E, NEW s \in Seq(Seq(E))
  PROVE  FlattenSeq(s) \in Seq(E)
<1> DEFINE N == Len(s)
<1>1. N \in Nat /\ \A i \in 1 .. N : s[i] \in Seq(E)
  OBVIOUS
<1>2. CASE N = 0
  <2>1. FlattenSeq(s) = s
    BY <1>2 DEF FlattenSeq
  <2>2. s = << >>
    BY <1>2
  <2> QED  BY <2>1, <2>2
<1>3. CASE N # 0
  <2>1. PICK f : Flattens(f, s) /\ FlattenSeq(s) = f[N]
    BY <1>3, FlattenSeqFacts
  <2>2. f[1] = s[1] /\ \A i \in 1 .. N - 1 : f[i + 1] = f[i] \o s[i + 1]
    BY <2>1, <1>3, FlattensAt
  <2> HIDE DEF N
  <2> DEFINE S == {i \in Nat : i + 1 <= N => f[i + 1] \in Seq(E)}
  <2>3. 0 \in S
    BY <1>1, <1>3, <2>2
  <2>4. ASSUME NEW i \in 0 .. (N - 1) - 1, i \in S PROVE i + 1 \in S
    <3>1. i + 1 \in 1 .. N - 1 /\ (i + 1) + 1 \in 1 .. N /\ i + 1 <= N /\ i \in Nat
      BY <1>1
    <3>2. f[i + 1] \in Seq(E) /\ s[(i + 1) + 1] \in Seq(E)
      BY <2>4, <3>1, <1>1
    <3>3. f[(i + 1) + 1] = f[i + 1] \o s[(i + 1) + 1]
      BY <2>2, <3>1
    <3>4. f[i + 1] \o s[(i + 1) + 1] \in Seq(E)
      BY <3>2, ConcatProperties
    <3>5. f[(i + 1) + 1] \in Seq(E) /\ i + 1 \in Nat
      BY <3>1, <3>3, <3>4
    <3> QED  BY <3>5
  <2> HIDE DEF S
  <2>5. 0 .. N - 1 \subseteq S
    <3>1. N - 1 \in Nat
      BY <1>1, <1>3
    <3> QED  BY <3>1, <2>3, <2>4, Induction
  <2>6. N - 1 \in S /\ (N - 1) + 1 = N
    <3>1. N - 1 \in 0 .. N - 1
      BY <1>1, <1>3
    <3> QED  BY <1>1, <2>5, <3>1
  <2>7. f[N] \in Seq(E)
    BY <2>6, <1>1 DEF S
  <2> QED  BY <2>1, <2>7
<1> QED  BY <1>2, <1>3

-----------------------------------------------------------------------------
(* Cache values                                                            *)
Items(K, E) == [key : K, entry : E]

CacheOf(K, E) ==
  [capacity : Nat \ {0}, items : SUBSET K, order : Seq(Items(K, E))]

(* The list holds every key once.                                          *)
Distinct(order) ==
  \A i, j \in DOMAIN order : order[i].key = order[j].key => i = j

(* What the operations need of the cache value, and preserve.              *)
Coherent(K, E, c) ==
  /\ c \in CacheOf(K, E)
  /\ c.items = ListKeys(c.order)
  /\ Distinct(c.order)
  /\ Len(c.order) <= c.capacity

(* The items a list holds.                                                 *)
Contents(order) == {order[i] : i \in DOMAIN order}

(* A key of the list has a place there.                                    *)
LEMMA PosOfFacts ==
  ASSUME NEW K, NEW E, NEW order \in Seq(Items(K, E)), NEW k \in ListKeys(order)
  PROVE  PosOf(order, k) \in DOMAIN order /\ order[PosOf(order, k)].key = k
BY DEF PosOf, ListKeys

(* list.Remove: what is left of the list.                                  *)
LEMMA RemoveAtFacts ==
  ASSUME NEW K, NEW E, NEW order \in Seq(Items(K, E)), NEW p \in DOMAIN order
  PROVE  /\ RemoveAt(order, p) \in Seq(Items(K, E))
         /\ Len(RemoveAt(order, p)) = Len(order) - 1
         /\ \A i \in 1 .. Len(order) - 1 :
              RemoveAt(order, p)[i] = IF i < p THEN order[i] ELSE order[i + 1]
<1> DEFINE n == Len(order)
           a == SubSeq(order, 1, p - 1)
           b == SubSeq(order, p + 1, n)
<1>1. n \in Nat /\ p \in 1 .. n
  OBVIOUS
<1>2. a \in Seq(Items(K, E)) /\ Len(a) = p - 1 /\ \A i \in 1 .. p - 1 : a[i] = order[i]
  BY <1>1
<1>3. b \in Seq(Items(K, E)) /\ Len(b) = n - p /\ \A i \in 1 .. n - p : b[i] = order[p + i]
  BY <1>1
<1>4. RemoveAt(order, p) = a \o b
  BY DEF RemoveAt
<1> HIDE DEF a, b
<1>5. a \o b \in Seq(Items(K, E)) /\ Len(a \o b) = n - 1
  BY <1>1, <1>2, <1>3
<1>6. ASSUME NEW i \in 1 .. n - 1
      PROVE  (a \o b)[i] = IF i < p THEN order[i] ELSE order[i + 1]
  <2>1. CASE i < p
    BY <2>1, <1>1, <1>2, <1>3
  <2>2. CASE ~(i < p)
    <3>1. (a \o b)[i] = b[i - (p - 1)]
      BY <2>2, <1>1, <1>2, <1>3, SMTT(20)
    <3>2. i - (p - 1) \in 1 .. n - p /\ p + (i - (p - 1)) = i + 1
      BY <2>2, <1>1
    <3> QED  BY <2>2, <3>1, <3>2, <1>3
  <2> QED  BY <2>1, <2>2
<1> QED  BY <1>4, <1>5, <1>6

(* Unlink removes one key and keeps the others apart.                      *)
LEMMA UnlinkFacts ==
  ASSUME NEW K, NEW E, NEW order \in Seq(Items(K, E)), NEW k \in ListKeys(order), Distinct(order)
  PROVE  /\ Unlink(order, k) \in Seq(Items(K, E))
         /\ Len(Unlink(order, k)) = Len(order) - 1
         /\ ListKeys(Unlink(order, k)) = ListKeys(order) \ {k}
         /\ Distinct(Unlink(order, k))
<1> DEFINE n == Len(order)
           p == PosOf(order, k)
           r == Unlink(order, k)
<1>1. n \in Nat /\ DOMAIN order = 1 .. n /\ p \in 1 .. n /\ order[p].key = k
  BY PosOfFacts
<1>2. /\ r \in Seq(Items(K, E))
      /\ Len(r) = n - 1
      /\ \A i \in 1 .. n - 1 : r[i] = IF i < p THEN order[i] ELSE order[i + 1]
  <2> HIDE DEF p
  <2>1. r = RemoveAt(order, p)
    BY DEF Unlink, p
  <2>2. p \in DOMAIN order
    BY <1>1
  <2>3. /\ RemoveAt(order, p) \in Seq(Items(K, E))
        /\ Len(RemoveAt(order, p)) = Len(order) - 1
        /\ \A i \in 1 .. Len(order) - 1 :
             RemoveAt(order, p)[i] = IF i < p THEN order[i] ELSE order[i + 1]
    BY <2>2, RemoveAtFacts
  <2> QED  BY <2>1, <2>3
<1> HIDE DEF p, r
<1>3. DOMAIN r = 1 .. n - 1
  BY <1>1, <1>2
<1>4. Distinct(r)
  <2> SUFFICES ASSUME NEW i \in 1 .. n - 1, NEW j \in 1 .. n - 1,
                      r[i].key = r[j].key
               PROVE  i = j
    BY <1>3 DEF Distinct
  <2> DEFINE from(m) == IF m < p THEN m ELSE m + 1
  <2>1. r[i] = order[from(i)] /\ r[j] = order[from(j)]
    BY <1>2
  <2>2. from(i) \in DOMAIN order /\ from(j) \in DOMAIN order
    BY <1>1
  <2>3. from(i) = from(j)
    <3> HIDE DEF from
    <3> QED  BY <2>1, <2>2 DEF Distinct
  <2> QED  BY <2>3, <1>1
<1>5. ListKeys(r) \subseteq ListKeys(order) \ {k}
  <2> SUFFICES ASSUME NEW i \in 1 .. n - 1
               PROVE  r[i].key \in ListKeys(order) \ {k}
    BY <1>3 DEF ListKeys
  <2>1. CASE i < p
    <3>1. r[i] = order[i] /\ i \in 1 .. n /\ i # p
      BY <2>1, <1>1, <1>2
    <3> QED  BY <3>1, <1>1 DEF Distinct, ListKeys
  <2>2. CASE ~(i < p)
    <3>1. r[i] = order[i + 1] /\ i + 1 \in 1 .. n /\ i + 1 # p
      BY <2>2, <1>1, <1>2
    <3> QED  BY <3>1, <1>1 DEF Distinct, ListKeys
  <2> QED  BY <2>1, <2>2
<1>6. ListKeys(order) \ {k} \subseteq ListKeys(r)
  <2> SUFFICES ASSUME NEW i \in 1 .. n, order[i].key # k
               PROVE  order[i].key \in ListKeys(r)
    BY <1>1 DEF ListKeys
  <2>1. CASE i < p
    <3>1. i \in DOMAIN r /\ r[i] = order[i]
      BY <2>1, <1>1, <1>2, <1>3
    <3> QED  BY <3>1 DEF ListKeys
  <2>2. CASE i > p
    <3>1. i - 1 \in DOMAIN r /\ r[i - 1] = order[i]
      BY <2>2, <1>1, <1>2, <1>3
    <3> QED  BY <3>1 DEF ListKeys
  <2> QED  BY <2>1, <2>2, <1>1
<1> QED  BY <1>2, <1>4, <1>5, <1>6 DEF r

(* PushFront adds one new key.                                             *)
LEMMA PushFrontFacts ==
  ASSUME NEW K, NEW E, NEW order \in Seq(Items(K, E)), NEW k \in K, NEW e \in E,
         k \notin ListKeys(order), Distinct(order)
  PROVE  /\ PushFront(order, k, e) \in Seq(Items(K, E))
         /\ Len(PushFront(order, k, e)) = Len(order) + 1
         /\ ListKeys(PushFront(order, k, e)) = ListKeys(order) \cup {k}
         /\ Distinct(PushFront(order, k, e))
<1> DEFINE n == Len(order)
           x == [key |-> k, entry |-> e]
           r == PushFront(order, k, e)
<1>1. n \in Nat /\ DOMAIN order = 1 .. n
  OBVIOUS
<1>2. x \in Items(K, E) /\ x.key = k
  BY DEF Items
<1> HIDE DEF x
<1>3. /\ r \in Seq(Items(K, E))
      /\ Len(r) = n + 1
      /\ DOMAIN r = 1 .. n + 1
      /\ r[1] = x
      /\ \A i \in 1 .. n : r[i + 1] = order[i]
  <2>1. r = <<x>> \o order
    BY DEF PushFront, x
  <2> HIDE DEF r
  <2> QED  BY <1>1, <1>2, <2>1
<1> HIDE DEF r
<1>4. \A i \in 2 .. n + 1 : i - 1 \in 1 .. n /\ r[i] = order[i - 1]
  BY <1>1, <1>3
<1>5. ListKeys(r) = ListKeys(order) \cup {k}
  <2>1. ListKeys(r) \subseteq ListKeys(order) \cup {k}
    <3> SUFFICES ASSUME NEW i \in 1 .. n + 1
                 PROVE  r[i].key \in ListKeys(order) \cup {k}
      BY <1>3 DEF ListKeys
    <3>1. i = 1 \/ i \in 2 .. n + 1
      BY <1>1
    <3> QED  BY <3>1, <1>1, <1>2, <1>3, <1>4 DEF ListKeys
  <2>2. k \in ListKeys(r)
    BY <1>1, <1>2, <1>3 DEF ListKeys
  <2>3. ASSUME NEW i \in 1 .. n
        PROVE  order[i].key \in ListKeys(r)
    <3>1. i + 1 \in DOMAIN r /\ r[i + 1] = order[i]
      BY <1>1, <1>3
    <3> QED  BY <3>1 DEF ListKeys
  <2>4. ListKeys(order) \subseteq ListKeys(r)
    BY <2>3, <1>1 DEF ListKeys
  <2> QED  BY <2>1, <2>2, <2>4
<1>6. Distinct(r)
  <2> SUFFICES ASSUME NEW i \in 1 .. n + 1, NEW j \in 1 .. n + 1,
                      r[i].key = r[j].key, i < j
               PROVE  FALSE
    BY <1>1, <1>3 DEF Distinct
  <2>1. j \in 2 .. n + 1 /\ r[j] = order[j - 1] /\ j - 1 \in 1 .. n
    BY <1>1, <1>4
  <2>2. CASE i = 1
    BY <2>1, <2>2, <1>1, <1>2, <1>3 DEF ListKeys
  <2>3. CASE i # 1
    BY <2>1, <2>3, <1>1, <1>4 DEF Distinct
  <2> QED  BY <2>2, <2>3
<1> QED  BY <1>3, <1>5, <1>6 DEF r

(* Dropping the back of the list removes its key.                          *)
LEMMA DropBackFacts ==
  ASSUME NEW K, NEW E, NEW order \in Seq(Items(K, E)), Len(order) > 0, Distinct(order)
  PROVE  /\ SubSeq(order, 1, Len(order) - 1) \in Seq(Items(K, E))
         /\ Len(SubSeq(order, 1, Len(order) - 1)) = Len(order) - 1
         /\ ListKeys(SubSeq(order, 1, Len(order) - 1))
              = ListKeys(order) \ {order[Len(order)].key}
         /\ Distinct(SubSeq(order, 1, Len(order) - 1))
<1> DEFINE n == Len(order)
           r == SubSeq(order, 1, n - 1)
<1>1. n \in Nat /\ n > 0 /\ DOMAIN order = 1 .. n
  OBVIOUS
<1>2. /\ r \in Seq(Items(K, E)) /\ Len(r) = n - 1 /\ DOMAIN r = 1 .. n - 1
      /\ \A i \in 1 .. n - 1 : r[i] = order[i]
  BY <1>1
<1> HIDE DEF r
<1>3. Distinct(r)
  BY <1>1, <1>2 DEF Distinct
<1>4. ASSUME NEW i \in 1 .. n - 1
      PROVE  r[i].key \in ListKeys(order) \ {order[n].key}
  BY <1>1, <1>2 DEF ListKeys, Distinct
<1>5. ASSUME NEW i \in 1 .. n, order[i].key # order[n].key
      PROVE  order[i].key \in ListKeys(r)
  <2>1. i \in 1 .. n - 1
    BY <1>1, <1>5
  <2> QED  BY <2>1, <1>2 DEF ListKeys
<1>6. ListKeys(r) = ListKeys(order) \ {order[n].key}
  BY <1>1, <1>2, <1>4, <1>5, SMTT(20) DEF ListKeys
<1> QED  BY <1>2, <1>3, <1>6 DEF r

-----------------------------------------------------------------------------
(* Moving a stored key to the front, with the entry it has or another.     *)
LEMMA MoveToFrontCoherent ==
  ASSUME NEW K, NEW E, NEW c, Coherent(K, E, c), NEW k \in c.items, NEW e \in E
  PROVE  /\ Coherent(K, E, [c EXCEPT !.order = PushFront(Unlink(@, k), k, e)])
         /\ [c EXCEPT !.order = PushFront(Unlink(@, k), k, e)].items = c.items
<1> DEFINE u == Unlink(c.order, k)
           f == PushFront(u, k, e)
           d == [c EXCEPT !.order = f]
<1>1. /\ c \in CacheOf(K, E) /\ c.order \in Seq(Items(K, E)) /\ Distinct(c.order)
      /\ c.items = ListKeys(c.order) /\ k \in K /\ Len(c.order) <= c.capacity
  BY DEF Coherent, CacheOf
<1>2. /\ u \in Seq(Items(K, E)) /\ Len(u) = Len(c.order) - 1
      /\ ListKeys(u) = c.items \ {k} /\ Distinct(u)
  BY <1>1, UnlinkFacts
<1> HIDE DEF u
<1>3. /\ f \in Seq(Items(K, E)) /\ Len(f) = Len(u) + 1
      /\ ListKeys(f) = ListKeys(u) \cup {k} /\ Distinct(f)
  BY <1>1, <1>2, PushFrontFacts
<1> HIDE DEF f
<1>4. /\ d.order = f /\ d.items = c.items /\ d.capacity = c.capacity
      /\ d \in CacheOf(K, E)
  BY <1>1, <1>3 DEF CacheOf
<1>5. Len(f) = Len(c.order) /\ ListKeys(f) = c.items
  BY <1>1, <1>2, <1>3
<1>6. Coherent(K, E, d)
  BY <1>1, <1>3, <1>4, <1>5 DEF Coherent
<1> QED  BY <1>4, <1>6 DEF d, f, u

(* The entry of a stored key is an entry.                                  *)
LEMMA EntryOfType ==
  ASSUME NEW K, NEW E, NEW c, Coherent(K, E, c), NEW k \in c.items
  PROVE  EntryOf(c, k) \in E
<1>1. c.order \in Seq(Items(K, E)) /\ k \in ListKeys(c.order)
  BY DEF Coherent, CacheOf
<1>2. PosOf(c.order, k) \in DOMAIN c.order
  BY <1>1, PosOfFacts
<1>3. c.order[PosOf(c.order, k)] \in Items(K, E)
  BY <1>1, <1>2
<1> QED  BY <1>3 DEF EntryOf, Items

(* Get keeps the cache coherent and its keys.                              *)
LEMMA AfterGetCoherent ==
  ASSUME NEW K, NEW E, NEW c, Coherent(K, E, c), NEW k
  PROVE  Coherent(K, E, AfterGet(c, k)) /\ AfterGet(c, k).items = c.items
<1>1. CASE k \in c.items
  BY <1>1, MoveToFrontCoherent, EntryOfType DEF AfterGet
<1>2. CASE k \notin c.items
  BY <1>2 DEF AfterGet
<1> QED  BY <1>1, <1>2

(* Delete keeps the cache coherent and removes one key.                    *)
LEMMA AfterDeleteCoherent ==
  ASSUME NEW K, NEW E, NEW c, Coherent(K, E, c), NEW k
  PROVE  Coherent(K, E, AfterDelete(c, k)) /\ AfterDelete(c, k).items = c.items \ {k}
<1>1. /\ c \in CacheOf(K, E) /\ c.order \in Seq(Items(K, E)) /\ Distinct(c.order)
      /\ c.items = ListKeys(c.order) /\ Len(c.order) <= c.capacity
      /\ c.capacity \in Nat /\ Len(c.order) \in Nat
  BY DEF Coherent, CacheOf
<1>2. CASE k \in c.items
  <2> DEFINE u == Unlink(c.order, k)
             d == [c EXCEPT !.order = u, !.items = @ \ {k}]
  <2>1. /\ u \in Seq(Items(K, E)) /\ Len(u) = Len(c.order) - 1
        /\ ListKeys(u) = c.items \ {k} /\ Distinct(u)
    BY <1>1, <1>2, UnlinkFacts
  <2> HIDE DEF u
  <2>2. /\ d.order = u /\ d.items = c.items \ {k} /\ d.capacity = c.capacity
        /\ d \in CacheOf(K, E)
    BY <1>1, <2>1 DEF CacheOf
  <2>3. Coherent(K, E, d)
    BY <1>1, <2>1, <2>2 DEF Coherent
  <2>4. AfterDelete(c, k) = d
    BY <1>2 DEF AfterDelete, u
  <2> QED  BY <2>2, <2>3, <2>4
<1>3. CASE k \notin c.items
  BY <1>3 DEF AfterDelete
<1> QED  BY <1>2, <1>3

(* The eviction of Put leaves room for one more key.                       *)
LEMMA EvictedCoherent ==
  ASSUME NEW K, NEW E, NEW c, Coherent(K, E, c)
  PROVE  /\ Coherent(K, E, Evicted(c))
         /\ Evicted(c).items \subseteq c.items
         /\ Len(Evicted(c).order) < Evicted(c).capacity
<1>1. /\ c \in CacheOf(K, E) /\ c.order \in Seq(Items(K, E)) /\ Distinct(c.order)
      /\ c.items = ListKeys(c.order) /\ Len(c.order) <= c.capacity
      /\ c.capacity \in Nat \ {0} /\ Len(c.order) \in Nat
  BY DEF Coherent, CacheOf
<1>2. CASE Len(c.order) >= c.capacity
  <2> DEFINE b == SubSeq(c.order, 1, Len(c.order) - 1)
             v == c.order[Len(c.order)].key
             d == [c EXCEPT !.order = b, !.items = @ \ {v}]
  <2>1. Len(c.order) > 0
    BY <1>1, <1>2
  <2>2. /\ b \in Seq(Items(K, E)) /\ Len(b) = Len(c.order) - 1
        /\ ListKeys(b) = c.items \ {v} /\ Distinct(b)
    BY <1>1, <2>1, DropBackFacts
  <2> HIDE DEF b, v
  <2>3. /\ d.order = b /\ d.items = c.items \ {v} /\ d.capacity = c.capacity
        /\ d \in CacheOf(K, E)
    BY <1>1, <2>2 DEF CacheOf
  <2>4. Coherent(K, E, d) /\ Len(d.order) < d.capacity
    BY <1>1, <2>2, <2>3 DEF Coherent
  <2>5. Evicted(c) = d
    BY <1>2, <2>1 DEF Evicted, b, v
  <2> QED  BY <2>3, <2>4, <2>5
<1>3. CASE ~(Len(c.order) >= c.capacity)
  BY <1>1, <1>3 DEF Evicted
<1> QED  BY <1>2, <1>3

(* Put keeps the cache coherent.                                           *)
LEMMA AfterPutCoherent ==
  ASSUME NEW K, NEW E, NEW c, Coherent(K, E, c), NEW k \in K, NEW e \in E
  PROVE  Coherent(K, E, AfterPut(c, k, e))
<1>1. CASE k \in c.items
  BY <1>1, MoveToFrontCoherent DEF AfterPut
<1>2. CASE k \notin c.items
  <2> DEFINE v == Evicted(c)
             f == PushFront(v.order, k, e)
             d == [v EXCEPT !.order = f, !.items = @ \cup {k}]
  <2>1. Coherent(K, E, v) /\ k \notin v.items /\ Len(v.order) < v.capacity
    BY <1>2, EvictedCoherent
  <2> HIDE DEF v
  <2>2. /\ v \in CacheOf(K, E) /\ v.order \in Seq(Items(K, E)) /\ Distinct(v.order)
        /\ v.items = ListKeys(v.order) /\ v.capacity \in Nat
        /\ Len(v.order) \in Nat
    BY <2>1 DEF Coherent, CacheOf
  <2>3. /\ f \in Seq(Items(K, E)) /\ Len(f) = Len(v.order) + 1
        /\ ListKeys(f) = v.items \cup {k} /\ Distinct(f)
    BY <2>1, <2>2, PushFrontFacts
  <2> HIDE DEF f
  <2>4. /\ d.order = f /\ d.items = v.items \cup {k} /\ d.capacity = v.capacity
        /\ d \in CacheOf(K, E)
    BY <2>2, <2>3 DEF CacheOf
  <2>5. Coherent(K, E, d)
    BY <2>1, <2>2, <2>3, <2>4 DEF Coherent
  <2>6. AfterPut(c, k, e) = d
    BY <1>2 DEF AfterPut, v, f
  <2> QED  BY <2>5, <2>6
<1> QED  BY <1>1, <1>2

-----------------------------------------------------------------------------
(* Which items the list holds after each operation.                        *)

(* Unlink drops the item of its key.                                       *)
LEMMA UnlinkContents ==
  ASSUME NEW K, NEW E, NEW order \in Seq(Items(K, E)), NEW k \in ListKeys(order),
         Distinct(order)
  PROVE  Contents(Unlink(order, k)) = {x \in Contents(order) : x.key # k}
<1> DEFINE n == Len(order)
           p == PosOf(order, k)
           r == Unlink(order, k)
<1>1. n \in Nat /\ DOMAIN order = 1 .. n /\ p \in 1 .. n /\ order[p].key = k
  BY PosOfFacts
<1>2. /\ RemoveAt(order, p) \in Seq(Items(K, E))
      /\ Len(RemoveAt(order, p)) = n - 1
      /\ \A i \in 1 .. n - 1 :
           RemoveAt(order, p)[i] = IF i < p THEN order[i] ELSE order[i + 1]
  <2>1. p \in DOMAIN order
    BY <1>1
  <2> HIDE DEF p
  <2> QED  BY <2>1, RemoveAtFacts
<1>3. r = RemoveAt(order, p)
  BY DEF Unlink
<1> HIDE DEF p, r
<1>4. /\ DOMAIN r = 1 .. n - 1
      /\ \A i \in 1 .. n - 1 : r[i] = IF i < p THEN order[i] ELSE order[i + 1]
  BY <1>1, <1>2, <1>3
<1>5. ASSUME NEW i \in 1 .. n - 1
      PROVE  r[i] \in Contents(order) /\ r[i].key # k
  <2>1. CASE i < p
    <3>1. r[i] = order[i] /\ i \in 1 .. n /\ i # p
      BY <2>1, <1>1, <1>4
    <3> QED  BY <3>1, <1>1 DEF Distinct, Contents
  <2>2. CASE ~(i < p)
    <3>1. r[i] = order[i + 1] /\ i + 1 \in 1 .. n /\ i + 1 # p
      BY <2>2, <1>1, <1>4
    <3> QED  BY <3>1, <1>1 DEF Distinct, Contents
  <2> QED  BY <2>1, <2>2
<1>6. ASSUME NEW i \in 1 .. n, order[i].key # k
      PROVE  order[i] \in Contents(r)
  <2>1. CASE i < p
    <3>1. i \in DOMAIN r /\ r[i] = order[i]
      BY <2>1, <1>1, <1>4
    <3> QED  BY <3>1 DEF Contents
  <2>2. CASE i > p
    <3>1. i - 1 \in DOMAIN r /\ r[i - 1] = order[i]
      BY <2>2, <1>1, <1>4
    <3> QED  BY <3>1 DEF Contents
  <2> QED  BY <2>1, <2>2, <1>1, <1>6
<1>7. Contents(r) \subseteq {x \in Contents(order) : x.key # k}
  BY <1>4, <1>5 DEF Contents
<1>8. {x \in Contents(order) : x.key # k} \subseteq Contents(r)
  BY <1>1, <1>6 DEF Contents
<1> QED  BY <1>7, <1>8 DEF r

(* PushFront adds its item.                                                *)
LEMMA PushFrontContents ==
  ASSUME NEW K, NEW E, NEW order \in Seq(Items(K, E)), NEW k \in K, NEW e \in E
  PROVE  Contents(PushFront(order, k, e))
           = Contents(order) \cup {[key |-> k, entry |-> e]}
<1> DEFINE n == Len(order)
           x == [key |-> k, entry |-> e]
           r == PushFront(order, k, e)
<1>1. n \in Nat /\ DOMAIN order = 1 .. n
  OBVIOUS
<1>2. x \in Items(K, E)
  BY DEF Items
<1> HIDE DEF x
<1>3. /\ DOMAIN r = 1 .. n + 1
      /\ r[1] = x
      /\ \A i \in 1 .. n : r[i + 1] = order[i]
  <2>1. r = <<x>> \o order
    BY DEF PushFront, x
  <2> HIDE DEF r
  <2> QED  BY <1>1, <1>2, <2>1
<1> HIDE DEF r
<1>4. ASSUME NEW i \in 1 .. n + 1
      PROVE  r[i] \in Contents(order) \cup {x}
  <2>1. i = 1 \/ (i - 1 \in 1 .. n /\ r[i] = order[i - 1])
    BY <1>1, <1>3
  <2> QED  BY <2>1, <1>1, <1>3 DEF Contents
<1>5. ASSUME NEW i \in 1 .. n
      PROVE  order[i] \in Contents(r)
  <2>1. i + 1 \in DOMAIN r /\ r[i + 1] = order[i]
    BY <1>1, <1>3
  <2> QED  BY <2>1 DEF Contents
<1>6. x \in Contents(r)
  BY <1>1, <1>3 DEF Contents
<1>7. Contents(r) \subseteq Contents(order) \cup {x}
  BY <1>3, <1>4 DEF Contents
<1>8. Contents(order) \subseteq Contents(r)
  BY <1>1, <1>5 DEF Contents
<1> QED  BY <1>6, <1>7, <1>8 DEF r, x

(* Delete drops the item of its key, if there is one.                      *)
LEMMA AfterDeleteContents ==
  ASSUME NEW K, NEW E, NEW c, Coherent(K, E, c), NEW k
  PROVE  Contents(AfterDelete(c, k).order) = {x \in Contents(c.order) : x.key # k}
<1>1. /\ c \in CacheOf(K, E) /\ c.order \in Seq(Items(K, E)) /\ Distinct(c.order)
      /\ c.items = ListKeys(c.order)
  BY DEF Coherent, CacheOf
<1>2. CASE k \in c.items
  <2>1. AfterDelete(c, k).order = Unlink(c.order, k)
    BY <1>1, <1>2 DEF AfterDelete, CacheOf
  <2> QED  BY <1>1, <1>2, <2>1, UnlinkContents
<1>3. CASE k \notin c.items
  <2>1. AfterDelete(c, k) = c
    BY <1>3 DEF AfterDelete
  <2>2. \A x \in Contents(c.order) : x.key # k
    BY <1>1, <1>3 DEF Contents, ListKeys
  <2> QED  BY <2>1, <2>2
<1> QED  BY <1>2, <1>3

(* The entry that Get finds is the one of the item with that key.          *)
LEMMA EntryOfContents ==
  ASSUME NEW K, NEW E, NEW c, Coherent(K, E, c)
  PROVE  /\ \A k \in c.items : [key |-> k, entry |-> EntryOf(c, k)] \in Contents(c.order)
         /\ \A x \in Contents(c.order) : /\ x.key \in c.items /\ EntryOf(c, x.key) = x.entry
                                        /\ x.key \in K /\ x.entry \in E
<1>1. /\ c.order \in Seq(Items(K, E)) /\ Distinct(c.order)
      /\ c.items = ListKeys(c.order)
  BY DEF Coherent, CacheOf
<1>2. \A i \in DOMAIN c.order : c.order[i] \in Items(K, E)
  BY <1>1
<1>3. ASSUME NEW k \in c.items
      PROVE  [key |-> k, entry |-> EntryOf(c, k)] \in Contents(c.order)
  <2> DEFINE p == PosOf(c.order, k)
  <2>1. p \in DOMAIN c.order /\ c.order[p].key = k
    BY <1>1, PosOfFacts
  <2>2. EntryOf(c, k) = c.order[p].entry
    BY DEF EntryOf
  <2> HIDE DEF p
  <2>3. c.order[p] = [key |-> k, entry |-> EntryOf(c, k)]
    BY <2>1, <2>2, <1>2 DEF Items
  <2> QED  BY <2>1, <2>3 DEF Contents
<1>4. ASSUME NEW i \in DOMAIN c.order
      PROVE  /\ c.order[i].key \in c.items
             /\ EntryOf(c, c.order[i].key) = c.order[i].entry
             /\ c.order[i].key \in K /\ c.order[i].entry \in E
  <2> DEFINE k == c.order[i].key
             p == PosOf(c.order, k)
  <2>1. k \in ListKeys(c.order)
    BY DEF ListKeys
  <2>2. p \in DOMAIN c.order /\ c.order[p].key = k
    BY <1>1, <2>1, PosOfFacts
  <2>3. EntryOf(c, k) = c.order[p].entry
    BY DEF EntryOf
  <2> HIDE DEF p
  <2>4. p = i
    BY <2>2, <1>1 DEF Distinct
  <2>5. k \in K /\ c.order[i].entry \in E
    BY <1>2 DEF Items
  <2> QED  BY <2>1, <2>3, <2>4, <2>5, <1>1
<1> QED  BY <1>3, <1>4 DEF Contents

(* Get only changes the order.                                             *)
LEMMA AfterGetContents ==
  ASSUME NEW K, NEW E, NEW c, Coherent(K, E, c), NEW k
  PROVE  Contents(AfterGet(c, k).order) = Contents(c.order)
<1>1. /\ c \in CacheOf(K, E) /\ c.order \in Seq(Items(K, E)) /\ Distinct(c.order)
      /\ c.items = ListKeys(c.order)
  BY DEF Coherent, CacheOf
<1>2. CASE k \in c.items
  <2> DEFINE u == Unlink(c.order, k)
             e == EntryOf(c, k)
             x == [key |-> k, entry |-> e]
  <2>1. AfterGet(c, k).order = PushFront(u, k, e)
    BY <1>1, <1>2 DEF AfterGet, CacheOf
  <2>2. u \in Seq(Items(K, E))
    BY <1>1, <1>2, UnlinkFacts
  <2>3. Contents(u) = {y \in Contents(c.order) : y.key # k}
    BY <1>1, <1>2, UnlinkContents
  <2>4. k \in K /\ e \in E /\ x \in Contents(c.order)
    BY <1>1, <1>2, EntryOfContents, EntryOfType DEF CacheOf
  <2> HIDE DEF u, e
  <2>5. Contents(PushFront(u, k, e)) = Contents(u) \cup {x}
    BY <2>2, <2>4, PushFrontContents
  <2>6. \A y \in Contents(c.order) : y.key = k => y = x
    <3> SUFFICES ASSUME NEW i \in DOMAIN c.order, c.order[i].key = k
                 PROVE  c.order[i] = x
      BY DEF Contents
    <3>1. PICK j \in DOMAIN c.order : c.order[j] = x
      BY <2>4 DEF Contents
    <3>2. x.key = k
      OBVIOUS
    <3> HIDE DEF x
    <3>3. i = j
      BY <3>1, <3>2, <1>1 DEF Distinct
    <3> QED  BY <3>1, <3>3
  <2> QED  BY <2>1, <2>3, <2>4, <2>5, <2>6
<1>3. CASE k \notin c.items
  BY <1>3 DEF AfterGet
<1> QED  BY <1>2, <1>3

(* Put stores its item, in place of the one with the same key, and no      *)
(* other that was not there.                                               *)
LEMMA AfterPutContents ==
  ASSUME NEW K, NEW E, NEW c, Coherent(K, E, c), NEW k \in K, NEW e \in E
  PROVE  /\ [key |-> k, entry |-> e] \in Contents(AfterPut(c, k, e).order)
         /\ Contents(AfterPut(c, k, e).order)
              \subseteq {x \in Contents(c.order) : x.key # k} \cup {[key |-> k, entry |-> e]}
<1>1. /\ c \in CacheOf(K, E) /\ c.order \in Seq(Items(K, E)) /\ Distinct(c.order)
      /\ c.items = ListKeys(c.order)
  BY DEF Coherent, CacheOf
<1>2. CASE k \in c.items
  <2> DEFINE u == Unlink(c.order, k)
  <2>1. AfterPut(c, k, e).order = PushFront(u, k, e)
    BY <1>1, <1>2 DEF AfterPut, CacheOf
  <2>2. u \in Seq(Items(K, E))
    BY <1>1, <1>2, UnlinkFacts
  <2>3. Contents(u) = {y \in Contents(c.order) : y.key # k}
    BY <1>1, <1>2, UnlinkContents
  <2> HIDE DEF u
  <2>4. Contents(PushFront(u, k, e)) = Contents(u) \cup {[key |-> k, entry |-> e]}
    BY <2>2, PushFrontContents
  <2> QED  BY <2>1, <2>3, <2>4
<1>3. CASE k \notin c.items
  <2> DEFINE v == Evicted(c)
  <2>1. Coherent(K, E, v)
    BY EvictedCoherent
  <2>2. Contents(v.order) \subseteq Contents(c.order)
    <3>1. CASE Len(c.order) >= c.capacity /\ Len(c.order) > 0
      <4>1. v.order = SubSeq(c.order, 1, Len(c.order) - 1)
        BY <1>1, <3>1 DEF Evicted, CacheOf
      <4> HIDE DEF v
      <4>2. \A i \in DOMAIN v.order : i \in DOMAIN c.order /\ v.order[i] = c.order[i]
        BY <4>1, <1>1, <3>1
      <4> QED  BY <4>2 DEF Contents
    <3>2. CASE ~(Len(c.order) >= c.capacity /\ Len(c.order) > 0)
      BY <3>2 DEF Evicted
    <3> QED  BY <3>1, <3>2
  <2>3. AfterPut(c, k, e) = [v EXCEPT !.order = PushFront(@, k, e), !.items = @ \cup {k}]
    BY <1>3 DEF AfterPut
  <2> HIDE DEF v
  <2>4. v \in CacheOf(K, E) /\ v.order \in Seq(Items(K, E))
    BY <2>1 DEF Coherent, CacheOf
  <2>5. AfterPut(c, k, e).order = PushFront(v.order, k, e)
    BY <2>3, <2>4 DEF CacheOf
  <2>6. Contents(PushFront(v.order, k, e)) = Contents(v.order) \cup {[key |-> k, entry |-> e]}
    BY <2>4, PushFrontContents
  <2>7. \A x \in Contents(c.order) : x.key # k
    BY <1>1, <1>3 DEF Contents, ListKeys
  <2> QED  BY <2>2, <2>5, <2>6, <2>7
<1> QED  BY <1>2, <1>3
=============================================================================

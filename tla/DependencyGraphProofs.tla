------------------------ MODULE DependencyGraphProofs ------------------------
(***************************************************************************)
(* Proofs that the two edge maps agree and that Invalidate computes        *)
(* exactly the transitive dependents, for every set of files and every     *)
(* import graph.                                                           *)
(*                                                                         *)
(* The invariant of the walk has two halves.  Everything marked or about   *)
(* to be looked at lies in every closed set with the origin (WalkSound),   *)
(* and a marked node is still queued or its dependents are marked or about *)
(* to be looked at (WalkComplete).  When both loops are done, the second   *)
(* says that the visited set is closed and the first that it is least.     *)
(***************************************************************************)
EXTENDS DependencyGraph, TLAPS

Queued == {queue[i] : i \in DOMAIN queue}

WalkSound ==
  \A S \in SUBSET Uri :
    origin \in S /\ DependentClosed(S) => visited \cup todo \subseteq S

WalkComplete ==
  \A v \in visited : v \in Queued \/ reverse[v] \subseteq visited \cup todo

WalkInv ==
  walking => /\ origin \in visited
             /\ Queued \subseteq visited
             /\ WalkSound
             /\ WalkComplete

DepInv == DepTypeOK /\ EdgesMirrored /\ WalkInv

(* NewDependencyGraph establishes the invariant.                           *)
LEMMA DepInitInv == DepInit => DepInv
<1> SUFFICES ASSUME DepInit PROVE DepInv
  OBVIOUS
<1>1. walking \in BOOLEAN /\ ~walking
  BY DEF DepInit
<1>2. DepTypeOK
  BY <1>1 DEF DepInit, DepTypeOK
<1>3. EdgesMirrored
  BY DEF DepInit, EdgesMirrored
<1> QED  BY <1>1, <1>2, <1>3 DEF DepInv, WalkInv

(* AddEdge preserves the invariant: no walk is in progress.                *)
LEMMA AddEdgeInv ==
  ASSUME DepInv, NEW from \in Uri, NEW to \in Uri, AddEdge(from, to)
  PROVE  DepInv'
<1>1. /\ forward \in [Uri -> SUBSET Uri] /\ reverse \in [Uri -> SUBSET Uri]
      /\ EdgesMirrored
  BY DEF DepInv, DepTypeOK
<1>2. /\ forward' = [forward EXCEPT ![from] = @ \cup {to}]
      /\ reverse' = [reverse EXCEPT ![to] = @ \cup {from}]
  BY DEF AddEdge
<1>3. EdgesMirrored'
  BY <1>1, <1>2 DEF EdgesMirrored
<1>4. ~walking' /\ UNCHANGED walkVars
  BY DEF AddEdge, walkVars
<1>5. DepTypeOK'
  BY <1>1, <1>2, <1>4 DEF DepInv, DepTypeOK, walkVars
<1> QED  BY <1>3, <1>4, <1>5 DEF DepInv, WalkInv

(* ClearDependenciesOf preserves the invariant.                            *)
LEMMA ClearDependenciesOfInv ==
  ASSUME DepInv, NEW u \in Uri, ClearDependenciesOf(u)
  PROVE  DepInv'
<1>1. /\ forward \in [Uri -> SUBSET Uri] /\ reverse \in [Uri -> SUBSET Uri]
      /\ EdgesMirrored
  BY DEF DepInv, DepTypeOK
<1>2. /\ reverse' = [b \in Uri |-> IF b \in forward[u] THEN reverse[b] \ {u}
                                                      ELSE reverse[b]]
      /\ forward' = [forward EXCEPT ![u] = {}]
  BY DEF ClearDependenciesOf
<1>3. EdgesMirrored'
  BY <1>1, <1>2 DEF EdgesMirrored
<1>4. ~walking' /\ UNCHANGED walkVars
  BY DEF ClearDependenciesOf, walkVars
<1>5. DepTypeOK'
  BY <1>1, <1>2, <1>4 DEF DepInv, DepTypeOK, walkVars
<1> QED  BY <1>3, <1>4, <1>5 DEF DepInv, WalkInv

(* Invalidate starts with the origin, which every closed set with it has.  *)
LEMMA InvalidateInv ==
  ASSUME DepInv, NEW u \in Uri, Invalidate(u)
  PROVE  DepInv'
<1>1. /\ walking' /\ origin' = u /\ visited' = {u} /\ queue' = <<u>>
      /\ todo' = {} /\ result' = {} /\ forward' = forward /\ reverse' = reverse
  BY DEF Invalidate, graphVars
<1>2. DepTypeOK'
  <2>1. walking' \in BOOLEAN
    BY DEF Invalidate
  <2> QED  BY <1>1, <2>1 DEF DepInv, DepTypeOK
<1>3. EdgesMirrored'
  BY <1>1 DEF DepInv, EdgesMirrored
<1>4. Queued' = {u}
  BY <1>1 DEF Queued
<1>5. WalkSound' /\ WalkComplete'
  BY <1>1, <1>4 DEF WalkSound, WalkComplete
<1> QED  BY <1>1, <1>2, <1>3, <1>4, <1>5 DEF DepInv, WalkInv

(* TakeHead replaces the head of the queue by its dependents.              *)
LEMMA TakeHeadInv ==
  ASSUME DepInv, TakeHead
  PROVE  DepInv'
<1> DEFINE h == Head(queue)
<1>1. /\ walking /\ todo = {} /\ queue # << >> /\ queue \in Seq(Uri)
      /\ reverse \in [Uri -> SUBSET Uri] /\ visited \subseteq Uri
      /\ origin \in visited /\ Queued \subseteq visited
      /\ WalkSound /\ WalkComplete
  BY DEF DepInv, DepTypeOK, WalkInv, TakeHead
<1>2. /\ todo' = reverse[h] /\ queue' = Tail(queue) /\ walking'
      /\ UNCHANGED <<forward, reverse, walking, origin, visited, result>>
  BY <1>1 DEF TakeHead, graphVars
<1>3. h \in Queued /\ h \in Uri
  BY <1>1 DEF Queued
<1>4. DepTypeOK'
  BY <1>1, <1>2, <1>3 DEF DepInv, DepTypeOK
<1>5. EdgesMirrored'
  BY <1>2 DEF DepInv, EdgesMirrored
<1>6. Queued' \subseteq Queued /\ Queued \subseteq Queued' \cup {h}
  <2>1. \A i \in DOMAIN queue' : i + 1 \in DOMAIN queue /\ queue'[i] = queue[i + 1]
    BY <1>1, <1>2
  <2>2. \A i \in DOMAIN queue : i = 1 \/ (i - 1 \in DOMAIN queue' /\ queue'[i - 1] = queue[i])
    BY <1>1, <1>2
  <2>3. queue[1] = h
    BY <1>1
  <2> HIDE DEF h
  <2> QED  BY <2>1, <2>2, <2>3 DEF Queued
<1> HIDE DEF h
<1>7. WalkSound'
  BY <1>1, <1>2, <1>3 DEF WalkSound, DependentClosed
<1>8. WalkComplete'
  BY <1>1, <1>2, <1>6 DEF WalkComplete
<1> QED  BY <1>1, <1>2, <1>4, <1>5, <1>6, <1>7, <1>8 DEF DepInv, WalkInv

(* LookAt marks one dependent, and queues it unless it was marked.         *)
LEMMA LookAtInv ==
  ASSUME DepInv, NEW d \in Uri, LookAt(d)
  PROVE  DepInv'
<1>1. /\ walking /\ d \in todo /\ todo \subseteq Uri /\ queue \in Seq(Uri)
      /\ reverse \in [Uri -> SUBSET Uri] /\ visited \subseteq Uri
      /\ origin \in visited /\ Queued \subseteq visited
      /\ WalkSound /\ WalkComplete
  BY DEF DepInv, DepTypeOK, WalkInv, LookAt
<1>2. /\ todo' = todo \ {d} /\ visited' = visited \cup {d} /\ walking'
      /\ queue' = (IF d \in visited THEN queue ELSE Append(queue, d))
      /\ UNCHANGED <<forward, reverse, walking, origin, result>>
  BY <1>1 DEF LookAt, graphVars
<1>3. DepTypeOK'
  <2>1. queue' \in Seq(Uri)
    BY <1>1, <1>2
  <2> QED  BY <1>1, <1>2, <2>1 DEF DepInv, DepTypeOK
<1>4. EdgesMirrored'
  BY <1>2 DEF DepInv, EdgesMirrored
<1>5. visited' \cup todo' = visited \cup todo
  BY <1>1, <1>2
<1>6. Queued \subseteq Queued' /\ Queued' \subseteq Queued \cup {d}
        /\ (d \in visited \/ d \in Queued')
  <2>1. CASE d \in visited
    BY <2>1, <1>2 DEF Queued
  <2>2. CASE d \notin visited
    <3>1. /\ DOMAIN queue' = 1 .. Len(queue) + 1
          /\ queue'[Len(queue) + 1] = d
          /\ DOMAIN queue = 1 .. Len(queue) /\ Len(queue) \in Nat
          /\ \A i \in DOMAIN queue : queue'[i] = queue[i]
      BY <2>2, <1>1, <1>2
    <3>2. \A i \in DOMAIN queue' : i = Len(queue) + 1 \/ i \in DOMAIN queue
      BY <3>1
    <3>3. DOMAIN queue \subseteq DOMAIN queue' /\ Len(queue) + 1 \in DOMAIN queue'
      BY <3>1
    <3> QED  BY <3>1, <3>2, <3>3 DEF Queued
  <2> QED  BY <2>1, <2>2
<1>7. WalkSound'
  BY <1>2, <1>5, <1>1 DEF WalkSound, DependentClosed
<1>8. WalkComplete'
  BY <1>1, <1>2, <1>5, <1>6 DEF WalkComplete
<1> QED  BY <1>1, <1>2, <1>3, <1>4, <1>6, <1>7, <1>8 DEF DepInv, WalkInv

(* Return: nothing is queued and nothing is left to look at, so what was   *)
(* visited is the least closed set with the origin.                        *)
LEMMA ReturnExact ==
  ASSUME DepInv, Return
  PROVE  /\ DepInv'
         /\ result' = TransitiveDependents(origin) \ {origin}
<1>1. /\ walking /\ todo = {} /\ queue = << >>
      /\ reverse \in [Uri -> SUBSET Uri] /\ visited \subseteq Uri
      /\ origin \in visited /\ WalkSound /\ WalkComplete
  BY DEF DepInv, DepTypeOK, WalkInv, Return
<1>2. /\ ~walking' /\ walking' \in BOOLEAN /\ result' = visited \ {origin}
      /\ UNCHANGED <<forward, reverse, origin, visited, queue, todo>>
  BY DEF Return, graphVars
<1>3. Queued = {}
  BY <1>1 DEF Queued
<1>4. DependentClosed(visited)
  BY <1>1, <1>3 DEF WalkComplete, DependentClosed
<1>5. visited = TransitiveDependents(origin)
  BY <1>1, <1>4 DEF WalkSound, TransitiveDependents
<1>6. DepInv'
  BY <1>1, <1>2 DEF DepInv, DepTypeOK, EdgesMirrored, WalkInv
<1> QED  BY <1>2, <1>5, <1>6

-----------------------------------------------------------------------------
(* Every step of the graph preserves the invariant.                        *)
LEMMA DepNextInv == DepInv /\ [DepNext]_depVars => DepInv'
<1> SUFFICES ASSUME DepInv, [DepNext]_depVars
             PROVE  DepInv'
  OBVIOUS
<1>1. CASE \E from, to \in Uri : AddEdge(from, to)
  BY <1>1, AddEdgeInv
<1>2. CASE \E u \in Uri : ClearDependenciesOf(u)
  BY <1>2, ClearDependenciesOfInv
<1>3. CASE \E u \in Uri : Invalidate(u)
  BY <1>3, InvalidateInv
<1>4. CASE TakeHead
  BY <1>4, TakeHeadInv
<1>5. CASE \E d \in Uri : LookAt(d)
  BY <1>5, LookAtInv
<1>6. CASE Return
  BY <1>6, ReturnExact
<1>7. CASE UNCHANGED depVars
  BY <1>7 DEF DepInv, DepTypeOK, EdgesMirrored, WalkInv, WalkSound, WalkComplete,
              DependentClosed, Queued, depVars, graphVars, walkVars
<1> QED  BY <1>1, <1>2, <1>3, <1>4, <1>5, <1>6, <1>7 DEF DepNext

(* The graph and the walk keep their types; the origin is never returned.  *)
THEOREM DepTypeCorrect == DepSpec => []DepTypeOK
<1>1. DepInv => DepTypeOK
  BY DEF DepInv
<1> QED  BY <1>1, DepInitInv, DepNextInv, PTL DEF DepSpec

(* forward and reverse of depgraph.go always describe the same graph.      *)
THEOREM DepEdgesMirrored == DepSpec => []EdgesMirrored
<1>1. DepInv => EdgesMirrored
  BY DEF DepInv
<1> QED  BY <1>1, DepInitInv, DepNextInv, PTL DEF DepSpec

(* Invalidate returns exactly the transitive dependents of its argument,   *)
(* for every graph, cyclic or not, and every iteration order.              *)
THEOREM DepInvalidateExact == DepSpec => InvalidateExact
<1>1. DepInv /\ [DepNext]_depVars =>
        [walking /\ ~walking' =>
           result' = TransitiveDependents(origin) \ {origin}]_depVars
  <2> SUFFICES ASSUME DepInv, DepNext, walking, ~walking'
               PROVE  result' = TransitiveDependents(origin) \ {origin}
    BY DEF depVars
  <2>1. Return
    BY DEF DepNext, AddEdge, ClearDependenciesOf, Invalidate, TakeHead, LookAt
  <2> QED  BY <2>1, ReturnExact
<1> QED  BY <1>1, DepInitInv, DepNextInv, PTL DEF DepSpec, InvalidateExact
=============================================================================

--------------------------- MODULE DependencyGraph ---------------------------
(***************************************************************************)
(* The import graph of the v2 language server                              *)
(* (languageserver/server2/depgraph.go).                                   *)
(*                                                                         *)
(* AddEdge and ClearDependenciesOf hold the write lock and are one step    *)
(* each.  Invalidate walks the graph breadth first under the read lock; it *)
(* is taken loop turn by loop turn, and no writer runs while it walks.  Go *)
(* ranges over a map in any order, so the next dependent is any of those   *)
(* not yet looked at.  The maps of sets are total functions: a missing map *)
(* entry and an empty set are the same to every operation.                 *)
(***************************************************************************)
EXTENDS Naturals, Sequences

CONSTANTS Uri,     \* the nodes: canonical cache keys
          NoUri    \* no walk has been asked for yet

ASSUME NoUriAssumption == NoUri \notin Uri

VARIABLES
  forward,   \* forward[a]: what a imports
  reverse,   \* reverse[b]: what imports b
  walking,   \* is Invalidate running?
  origin,    \* its argument
  visited,   \* its visited set
  queue,     \* its queue
  todo,      \* the dependents of the current node not yet looked at
  result     \* what it returned last

graphVars == <<forward, reverse>>
walkVars == <<walking, origin, visited, queue, todo, result>>
depVars == <<graphVars, walkVars>>

DepInit ==
  /\ forward = [u \in Uri |-> {}]
  /\ reverse = [u \in Uri |-> {}]
  /\ walking = FALSE
  /\ origin = NoUri
  /\ visited = {}
  /\ queue = << >>
  /\ todo = {}
  /\ result = {}

-----------------------------------------------------------------------------
(* Mutant: only the importer learns of the edge.                           *)
AddEdgeForwardOnly(from, to) ==
  /\ ~walking
  /\ forward' = [forward EXCEPT ![from] = @ \cup {to}]
  /\ UNCHANGED <<reverse, walkVars>>

(* AddEdge(from, to): "from" imports "to".                                 *)
AddEdge(from, to) ==
  /\ ~walking
  /\ forward' = [forward EXCEPT ![from] = @ \cup {to}]
  /\ reverse' = [reverse EXCEPT ![to] = @ \cup {from}]
  /\ UNCHANGED walkVars

(* ClearDependenciesOf(uri): the edges that leave uri go, in both maps.    *)
ClearDependenciesOf(u) ==
  /\ ~walking
  /\ reverse' = [b \in Uri |-> IF b \in forward[u] THEN reverse[b] \ {u}
                                                   ELSE reverse[b]]
  /\ forward' = [forward EXCEPT ![u] = {}]
  /\ UNCHANGED walkVars

-----------------------------------------------------------------------------
(* Invalidate(uri): mark the origin and put it in the queue.               *)
Invalidate(u) ==
  /\ ~walking
  /\ walking' = TRUE
  /\ origin' = u
  /\ visited' = {u}
  /\ queue' = <<u>>
  /\ todo' = {}
  /\ result' = {}
  /\ UNCHANGED graphVars

(* Mutant: the head stays in the queue.                                    *)
TakeHeadKeepsIt ==
  /\ walking
  /\ todo = {}
  /\ queue # << >>
  /\ todo' = reverse[Head(queue)]
  /\ UNCHANGED <<queue, graphVars, walking, origin, visited, result>>

(* The next turn of the outer loop: the head of the queue is current.      *)
TakeHead ==
  /\ walking
  /\ todo = {}
  /\ queue # << >>
  /\ todo' = reverse[Head(queue)]
  /\ queue' = Tail(queue)
  /\ UNCHANGED <<graphVars, walking, origin, visited, result>>

(* Mutant: a dependent is marked, its own dependents are never looked at.  *)
LookAtDirectOnly(d) ==
  /\ walking
  /\ d \in todo
  /\ todo' = todo \ {d}
  /\ visited' = visited \cup {d}
  /\ UNCHANGED <<queue, graphVars, walking, origin, result>>

(* A turn of the inner loop: mark and enqueue d unless it was seen.        *)
LookAt(d) ==
  /\ walking
  /\ d \in todo
  /\ todo' = todo \ {d}
  /\ visited' = visited \cup {d}
  /\ queue' = IF d \in visited THEN queue ELSE Append(queue, d)
  /\ UNCHANGED <<graphVars, walking, origin, result>>

(* Both loops are done: everything visited except the origin.              *)
Return ==
  /\ walking
  /\ todo = {}
  /\ queue = << >>
  /\ walking' = FALSE
  /\ result' = visited \ {origin}
  /\ UNCHANGED <<graphVars, origin, visited, queue, todo>>

WalkStep == TakeHead \/ (\E d \in Uri : LookAt(d)) \/ Return

DepNext ==
  \/ \E from, to \in Uri : AddEdge(from, to)
  \/ \E u \in Uri : ClearDependenciesOf(u)
  \/ \E u \in Uri : Invalidate(u)
  \/ TakeHead
  \/ \E d \in Uri : LookAt(d)
  \/ Return

DepSpec == DepInit /\ [][DepNext]_depVars

(* Invalidate is called by a handler that runs on until it returns.        *)
DepFairSpec == DepSpec /\ WF_depVars(WalkStep)

-----------------------------------------------------------------------------
(* S holds, with each of its nodes, everything that imports it.            *)
DependentClosed(S) == \A b \in S : reverse[b] \subseteq S

(* The transitive dependents of u, and u: the least closed set with u.     *)
TransitiveDependents(u) ==
  {x \in Uri : \A S \in SUBSET Uri : u \in S /\ DependentClosed(S) => x \in S}

(* Type invariant; "The uri itself is NOT included in the result."         *)
DepTypeOK ==
  /\ forward \in [Uri -> SUBSET Uri]
  /\ reverse \in [Uri -> SUBSET Uri]
  /\ walking \in BOOLEAN
  /\ origin \in Uri \cup {NoUri}
  /\ visited \subseteq Uri
  /\ queue \in Seq(Uri)
  /\ todo \subseteq Uri
  /\ result \subseteq Uri \ {origin}

(***************************************************************************)
(* The two maps of depgraph.go describe one graph: a is among the reverse  *)
(* edges of b exactly if b is among the forward edges of a.  Otherwise a   *)
(* removed file would keep invalidating, or a dependent be forgotten.      *)
(***************************************************************************)
EdgesMirrored == \A a, b \in Uri : b \in forward[a] <=> a \in reverse[b]

(***************************************************************************)
(* What Invalidate returns is exactly the transitive dependents of its     *)
(* argument, whatever the order in which Go ranges over the maps and       *)
(* whatever cycles the imports form.                                       *)
(***************************************************************************)
InvalidateExact ==
  [][walking /\ ~walking' =>
       result' = TransitiveDependents(origin) \ {origin}]_depVars

(***************************************************************************)
(* Invalidate ends, also on cyclic imports: it is called with the lock of  *)
(* the AnalysisHost held, so otherwise every later request would hang.     *)
(***************************************************************************)
InvalidateReturns == walking ~> ~walking
=============================================================================

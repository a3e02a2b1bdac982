-------------------------- MODULE MCHostStructures --------------------------
(* The two structures of an AnalysisHost, each with a mutex of its own:     *)
(* the checker cache (four keys, two of which share a prefix; capacities    *)
(* that are clamped, reached and exceeded) and the dependency graph (every  *)
(* import graph over three files, self imports and cycles included).        *)
(* Neither operates on the other, and each property is about one of them,   *)
(* so that a behaviour only has to use one.                                 *)
EXTENDS LRUCheckerCache, DependencyGraph

CONSTANTS k1, k2, k3, k4

VARIABLE used   \* the structure this behaviour is about

MCKey == {k1, k2, k3, k4}
MCRequested == {-1, 2, 3}
MCPrefix == {"none", "pair", "all"}
MCMatching(p) ==
  CASE p = "none" -> {}
    [] p = "pair" -> {k1, k2}
    [] p = "all"  -> MCKey

HostVars == <<cacheVars, depVars, used>>

HostInit == CacheInit /\ DepInit /\ used \in {"cache", "graph"}

HostNext ==
  \/ used = "cache" /\ CacheNext /\ UNCHANGED <<depVars, used>>
  \/ used = "graph" /\ DepNext /\ UNCHANGED <<cacheVars, used>>

(* The fairness of DepFairSpec.                                             *)
HostSpec ==
  /\ HostInit /\ [][HostNext]_HostVars
  /\ WF_HostVars(used = "graph" /\ WalkStep /\ UNCHANGED <<cacheVars, used>>)
=============================================================================

----------------------------- MODULE LRURecency -----------------------------
(***************************************************************************)
(* What a least-recently-used cache promises, without a list: the entries  *)
(* it stores and, between stored keys, which was used longer ago.  Get     *)
(* answers with what the last Put stored; only Delete, or a Put of a new   *)
(* key into a full cache, removes a key, and the latter removes the one    *)
(* whose last use is the oldest.                                           *)
(***************************************************************************)
EXTENDS Integers, FiniteSets

CONSTANTS Key, Entry, NotFound

VARIABLES capacity,  \* how many keys fit; never changes
          value,   \* the stored entries, a function on the stored keys
          older,   \* pairs <<x, y>>: x was last used before y
          answer   \* what the last Get returned

recencyVars == <<capacity, value, older, answer>>

RecencyInit ==
  /\ capacity \in Nat \ {0}
  /\ value = << >>
  /\ older = {}
  /\ answer = NotFound

(* The relation among the keys other than those of S.                      *)
Forget(S) == {p \in older : p[1] \notin S /\ p[2] \notin S}

Use(k, others) == Forget({k}) \cup {<<x, k>> : x \in others \ {k}}

RecencyGet(k) ==
  /\ value' = value
  /\ \/ /\ k \in DOMAIN value
        /\ answer' = value[k]
        /\ older' = Use(k, DOMAIN value)
     \/ /\ k \notin DOMAIN value
        /\ answer' = NotFound
        /\ older' = older

RecencyPut(k, e) ==
  /\ \/ k \in DOMAIN value
     \/ Cardinality(DOMAIN value) < capacity
  /\ value' = [x \in DOMAIN value \cup {k} |-> IF x = k THEN e ELSE value[x]]
  /\ older' = Use(k, DOMAIN value)
  /\ answer' = answer

(* v is the stored key used longest ago.                                   *)
LeastRecent(v) == \A x \in DOMAIN value \ {v} : <<v, x>> \in older

RecencyEvict(k, e) ==
  /\ k \notin DOMAIN value
  /\ Cardinality(DOMAIN value) = capacity
  /\ \E v \in DOMAIN value :
       LET kept == DOMAIN value \ {v}
       IN  /\ LeastRecent(v)
           /\ value' = [x \in kept \cup {k} |-> IF x = k THEN e ELSE value[x]]
           /\ older' = Forget({v}) \cup {<<x, k>> : x \in kept}
  /\ answer' = answer

RecencyDelete(k) ==
  /\ k \in DOMAIN value
  /\ value' = [x \in DOMAIN value \ {k} |-> value[x]]
  /\ older' = Forget({k})
  /\ answer' = answer

RecencyNext ==
  /\ capacity' = capacity
  /\ \E k \in Key :
       \/ RecencyGet(k)
       \/ RecencyDelete(k)
       \/ \E e \in Entry : RecencyPut(k, e) \/ RecencyEvict(k, e)

RecencySpec == RecencyInit /\ [][RecencyNext]_recencyVars
=============================================================================

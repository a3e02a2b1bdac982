------------------------ MODULE CheckPipelineProofs ------------------------
(***************************************************************************)
(* Proofs about the debouncer, for every set of keys and every number of   *)
(* Trigger calls, and about the checks of the v2 server it is part of, for *)
(* every set of documents, every number of notifications and requests,     *)
(* every set of texts that do not parse, and every cache capacity.         *)
(*                                                                         *)
(* The debouncer: the invariant DebounceInv is the conjunction of its type *)
(* invariant, MapHoldsLatest, LatestNeverStopped and                       *)
(* OrphanedByOlderCallback.  MapHoldsLatest makes the others inductive:    *)
(* Trigger stops the timer its map entry names, and only because that      *)
(* timer is of the same key is it no longer the latest one afterwards.     *)
(*                                                                         *)
(* The server: the debouncer inside keeps DebounceInv, because the steps   *)
(* of the server take it only through its operations.  On top of it:       *)
(*                                                                         *)
(*  - the type invariant needs what main and the checks know at each of    *)
(*    their steps (MainFits, SnapFits);                                    *)
(*  - OwnerAlive is inductive, and makes OwnerCurrent so;                  *)
(*  - EditsChecked needs, in every state, somebody at work on each text    *)
(*    that was not published yet (EditsWorkedOn), and that texts only      *)
(*    grow (TextsGrow);                                                    *)
(*  - SyncShowsCurrent needs what holds in the middle of a handler         *)
(*    (SyncAlone, SyncCache, SyncShown).                                   *)
(***************************************************************************)
EXTENDS CheckPipeline, ValueLemmas

-----------------------------------------------------------------------------
(* The debouncer                                                           *)
DebounceInv ==
  /\ DebounceTypeOK
  /\ MapHoldsLatest
  /\ LatestNeverStopped
  /\ OrphanedByOlderCallback

(* StopTimers keeps the pool's length and every timer's key, and changes   *)
(* only the state of the pending timers it is given.                       *)
LEMMA StopTimersFacts ==
  ASSUME NEW p \in Seq(TimerRecord), NEW ids
  PROVE  /\ StopTimers(p, ids) \in Seq(TimerRecord)
         /\ Len(StopTimers(p, ids)) = Len(p)
         /\ DOMAIN StopTimers(p, ids) = DOMAIN p
         /\ \A i \in DOMAIN p :
              /\ StopTimers(p, ids)[i].key = p[i].key
              /\ i \in ids /\ p[i].state = "pending"
                   => StopTimers(p, ids)[i].state = "stopped"
              /\ ~(i \in ids /\ p[i].state = "pending")
                   => StopTimers(p, ids)[i] = p[i]
<1> DEFINE q == StopTimers(p, ids)
<1>1. DOMAIN p = 1 .. Len(p) /\ Len(p) \in Nat
  OBVIOUS
<1>2. \A i \in 1 .. Len(p) : p[i] \in TimerRecord
  OBVIOUS
<1>3. \A i \in 1 .. Len(p) : q[i] \in TimerRecord
  BY <1>1, <1>2 DEF StopTimers, TimerRecord, TimerState
<1>4. q = [i \in 1 .. Len(p) |-> q[i]]
  BY <1>1 DEF StopTimers
<1>5. q \in Seq(TimerRecord) /\ Len(q) = Len(p)
  <2> HIDE DEF q
  <2> QED  BY <1>1, <1>3, <1>4
<1>6. DOMAIN q = DOMAIN p
  BY <1>1 DEF StopTimers
<1>7. \A i \in DOMAIN p :
        /\ q[i].key = p[i].key
        /\ i \in ids /\ p[i].state = "pending" => q[i].state = "stopped"
        /\ ~(i \in ids /\ p[i].state = "pending") => q[i] = p[i]
  BY <1>1, <1>2 DEF StopTimers, TimerRecord
<1> QED  BY <1>5, <1>6, <1>7

(* Advancing the state of one timer keeps the pool's shape.                *)
LEMMA AdvanceFacts ==
  ASSUME NEW p \in Seq(TimerRecord), NEW i \in DOMAIN p, NEW s \in TimerState
  PROVE  /\ Advance(p, i, s) \in Seq(TimerRecord)
         /\ Len(Advance(p, i, s)) = Len(p)
         /\ DOMAIN Advance(p, i, s) = DOMAIN p
         /\ Advance(p, i, s)[i].key = p[i].key
         /\ Advance(p, i, s)[i].state = s
         /\ \A j \in DOMAIN p : j # i => Advance(p, i, s)[j] = p[j]
<1> DEFINE q == Advance(p, i, s)
<1>1. DOMAIN p = 1 .. Len(p) /\ Len(p) \in Nat
  OBVIOUS
<1>2. p[i] \in TimerRecord
  BY <1>1
<1>3. q[i] \in TimerRecord /\ q[i].key = p[i].key /\ q[i].state = s
  BY <1>1, <1>2 DEF TimerRecord, Advance
<1>4. q \in Seq(TimerRecord) /\ Len(q) = Len(p) /\ DOMAIN q = DOMAIN p
  BY <1>1, <1>3 DEF Advance
<1> QED  BY <1>1, <1>3, <1>4 DEF Advance

-----------------------------------------------------------------------------
(* NewDebouncer establishes the invariant.                                 *)
LEMMA DebounceInitInv == DebounceInit => DebounceInv
<1> SUFFICES ASSUME DebounceInit PROVE DebounceInv
  OBVIOUS
<1>1. pool \in Seq(TimerRecord) /\ Len(pool) = 0 /\ DOMAIN pool = {}
  BY DEF DebounceInit
<1>2. DebounceTypeOK
  <2>1. timers \in [Key -> 0 .. Len(pool)] /\ Len(pool) <= MaxTimers
    BY <1>1, MaxTimersAssumption DEF DebounceInit, None
  <2>2. stopCalled \in BOOLEAN
    BY DEF DebounceInit
  <2> QED  BY <1>1, <2>1, <2>2 DEF DebounceTypeOK
<1>3. MapHoldsLatest
  BY DEF MapHoldsLatest, DebounceInit
<1>4. LatestNeverStopped /\ OrphanedByOlderCallback
  BY <1>1 DEF LatestNeverStopped, OrphanedByOlderCallback
<1> QED  BY <1>2, <1>3, <1>4 DEF DebounceInv

(* Trigger preserves the invariant.                                        *)
LEMMA TriggerInv ==
  ASSUME DebounceInv, NEW k \in Key, Trigger(k)
  PROVE  DebounceInv'
<1> DEFINE old == StopTimers(pool, {timers[k]})
           n == Len(pool) + 1
<1>1. /\ pool \in Seq(TimerRecord) /\ Len(pool) \in Nat /\ n <= MaxTimers
      /\ DOMAIN pool = 1 .. Len(pool)
      /\ timers \in [Key -> 0 .. Len(pool)]
  BY MaxTimersAssumption DEF DebounceInv, DebounceTypeOK, Trigger
<1>2. /\ old \in Seq(TimerRecord) /\ Len(old) = Len(pool)
      /\ \A i \in 1 .. Len(pool) :
           /\ old[i].key = pool[i].key
           /\ i = timers[k] /\ pool[i].state = "pending" => old[i].state = "stopped"
           /\ ~(i = timers[k] /\ pool[i].state = "pending") => old[i] = pool[i]
  BY <1>1, StopTimersFacts
<1>3. [key |-> k, state |-> "pending"] \in TimerRecord
  BY DEF TimerRecord, TimerState
<1>4. /\ pool' \in Seq(TimerRecord) /\ Len(pool') = n
      /\ DOMAIN pool' = 1 .. n
      /\ pool'[n] = [key |-> k, state |-> "pending"]
      /\ \A i \in 1 .. Len(pool) : pool'[i] = old[i]
  <2> HIDE DEF old
  <2>1. pool' = Append(old, [key |-> k, state |-> "pending"])
    BY DEF Trigger, old
  <2> QED  BY <1>1, <1>2, <1>3, <2>1
<1>5. /\ timers' = [timers EXCEPT ![k] = n]
      /\ timers'[k] = n
      /\ \A x \in Key : x # k => timers'[x] = timers[x]
      /\ stopCalled' = stopCalled
  BY <1>1 DEF Trigger
<1> HIDE DEF old
<1>6. DebounceTypeOK'
  BY <1>1, <1>4, <1>5 DEF DebounceTypeOK, DebounceInv
<1>7. \A i \in 1 .. Len(pool) : pool'[i].key = pool[i].key
  BY <1>2, <1>4
<1>8. MapHoldsLatest'
  <2> SUFFICES ASSUME NEW x \in Key, timers'[x] # None
               PROVE  /\ pool'[timers'[x]].key = x
                      /\ pool'[timers'[x]].state \in {"pending", "fired"}
                      /\ Latest(timers[x])'
    BY DEF MapHoldsLatest
  <2>1. CASE x = k
    BY <2>1, <1>1, <1>4, <1>5 DEF Latest
  <2>2. CASE x # k
    <3>1. /\ timers[x] \in 1 .. Len(pool)
          /\ pool[timers[x]].key = x
          /\ pool[timers[x]].state \in {"pending", "fired"}
          /\ Latest(timers[x])
      BY <2>2, <1>1, <1>5 DEF DebounceInv, MapHoldsLatest, None
    <3>2. timers[k] \in 1 .. Len(pool) => pool[timers[k]].key = k
      BY <1>1 DEF DebounceInv, MapHoldsLatest, None
    <3>3. timers[x] # timers[k]
      BY <2>2, <3>1, <3>2
    <3>4. pool'[timers[x]] = pool[timers[x]]
      BY <3>1, <3>3, <1>2, <1>4
    <3>5. Latest(timers[x])'
      BY <2>2, <3>1, <3>4, <1>1, <1>4, <1>5, <1>7 DEF Latest
    <3> QED  BY <2>2, <3>1, <3>4, <3>5, <1>5
  <2> QED  BY <2>1, <2>2
<1>9. LatestNeverStopped'
  <2> SUFFICES ASSUME NEW i \in 1 .. n, Latest(i)', pool'[i].state = "stopped"
               PROVE  stopCalled
    BY <1>4, <1>5 DEF LatestNeverStopped
  <2>1. i \in 1 .. Len(pool)
    BY <1>1, <1>4
  <2>2. pool'[i].key # k
    BY <2>1, <1>1, <1>4 DEF Latest
  <2>3. i # timers[k]
    BY <2>1, <2>2, <1>1, <1>7 DEF DebounceInv, MapHoldsLatest, None
  <2>4. pool'[i] = pool[i]
    BY <2>1, <2>3, <1>2, <1>4
  <2>5. Latest(i)
    BY <2>1, <1>1, <1>4, <1>7 DEF Latest
  <2> QED  BY <2>1, <2>4, <2>5, <1>1 DEF DebounceInv, LatestNeverStopped
<1>10. OrphanedByOlderCallback'
  <2> SUFFICES ASSUME NEW i \in 1 .. n, pool'[i].state = "pending",
                      timers'[pool'[i].key] # i
               PROVE  \E j \in 1 .. n : /\ j < i
                                        /\ pool'[j].key = pool'[i].key
                                        /\ pool'[j].state \in {"ready", "ran"}
    BY <1>4 DEF OrphanedByOlderCallback
  <2>1. i \in 1 .. Len(pool)
    BY <1>1, <1>4, <1>5
  <2>2. pool'[i] = pool[i]
    BY <2>1, <1>2, <1>4
  <2>3. pool[i].key \in Key
    <3>1. pool[i] \in TimerRecord
      BY <2>1, <1>1
    <3> QED  BY <3>1 DEF TimerRecord
  <2>4. i # timers[k]
    BY <2>1, <2>2, <1>2, <1>4
  <2>5. timers[pool[i].key] # i
    BY <2>2, <2>3, <2>4, <1>5
  <2>6. PICK j \in 1 .. Len(pool) : /\ j < i
                                   /\ pool[j].key = pool[i].key
                                   /\ pool[j].state \in {"ready", "ran"}
    BY <2>1, <2>2, <2>5, <1>1 DEF DebounceInv, OrphanedByOlderCallback
  <2>7. pool'[j] = pool[j]
    BY <2>6, <1>2, <1>4
  <2> QED  BY <2>2, <2>6, <2>7, <1>1
<1> QED  BY <1>6, <1>8, <1>9, <1>10 DEF DebounceInv

(* The delay of a timer expires.                                           *)
LEMMA ExpireInv ==
  ASSUME DebounceInv, NEW i \in DOMAIN pool, Expire(i)
  PROVE  DebounceInv'
<1>1. /\ pool \in Seq(TimerRecord) /\ DOMAIN pool = 1 .. Len(pool)
      /\ timers \in [Key -> 0 .. Len(pool)]
  BY DEF DebounceInv, DebounceTypeOK
<1>2. /\ pool' \in Seq(TimerRecord)
      /\ Len(pool') = Len(pool) /\ DOMAIN pool' = DOMAIN pool
      /\ pool'[i].key = pool[i].key /\ pool'[i].state = "fired"
      /\ \A j \in DOMAIN pool : j # i => pool'[j] = pool[j]
      /\ timers' = timers /\ stopCalled' = stopCalled
  <2>1. "fired" \in TimerState
    BY DEF TimerState
  <2>2. pool' = Advance(pool, i, "fired")
    BY DEF Expire
  <2>3. /\ pool' \in Seq(TimerRecord)
        /\ Len(pool') = Len(pool) /\ DOMAIN pool' = DOMAIN pool
        /\ pool'[i].key = pool[i].key /\ pool'[i].state = "fired"
        /\ \A j \in DOMAIN pool : j # i => pool'[j] = pool[j]
    BY <1>1, <2>1, <2>2, AdvanceFacts
  <2> QED  BY <2>3 DEF Expire
<1>3. DebounceTypeOK'
  BY <1>1, <1>2 DEF DebounceTypeOK, DebounceInv
<1>4. ASSUME NEW j \in DOMAIN pool
      PROVE  Latest(j)' <=> Latest(j)
  BY <1>2 DEF Latest
<1>5. MapHoldsLatest'
  BY <1>1, <1>2, <1>4 DEF DebounceInv, MapHoldsLatest, None
<1>6. LatestNeverStopped'
  BY <1>1, <1>2, <1>4 DEF DebounceInv, LatestNeverStopped
<1>7. OrphanedByOlderCallback'
  <2> SUFFICES ASSUME NEW x \in DOMAIN pool, pool'[x].state = "pending",
                      timers'[pool'[x].key] # x
               PROVE  \E j \in DOMAIN pool : /\ j < x
                                             /\ pool'[j].key = pool'[x].key
                                             /\ pool'[j].state \in {"ready", "ran"}
    BY <1>2 DEF OrphanedByOlderCallback
  <2>1. PICK j \in DOMAIN pool : /\ j < x
                                 /\ pool[j].key = pool[x].key
                                 /\ pool[j].state \in {"ready", "ran"}
    BY <1>2 DEF DebounceInv, OrphanedByOlderCallback
  <2>2. j # i /\ x # i
    BY <2>1, <1>2 DEF Expire
  <2> QED  BY <2>1, <2>2, <1>2
<1> QED  BY <1>3, <1>5, <1>6, <1>7 DEF DebounceInv

(* A callback deletes the entry of its key.                                *)
LEMMA UnmapInv ==
  ASSUME DebounceInv, NEW i \in DOMAIN pool, Unmap(i)
  PROVE  DebounceInv'
<1>1. /\ pool \in Seq(TimerRecord) /\ DOMAIN pool = 1 .. Len(pool)
      /\ Len(pool) \in Nat
      /\ timers \in [Key -> 0 .. Len(pool)]
  BY DEF DebounceInv, DebounceTypeOK
<1>2. /\ pool' \in Seq(TimerRecord)
      /\ Len(pool') = Len(pool) /\ DOMAIN pool' = DOMAIN pool
      /\ pool'[i].key = pool[i].key /\ pool'[i].state = "ready"
      /\ \A j \in DOMAIN pool : j # i => pool'[j] = pool[j]
      /\ timers' = [timers EXCEPT ![pool[i].key] = None]
      /\ stopCalled' = stopCalled
  <2>1. "ready" \in TimerState
    BY DEF TimerState
  <2>2. pool' = Advance(pool, i, "ready")
    BY DEF Unmap
  <2>3. /\ pool' \in Seq(TimerRecord)
        /\ Len(pool') = Len(pool) /\ DOMAIN pool' = DOMAIN pool
        /\ pool'[i].key = pool[i].key /\ pool'[i].state = "ready"
        /\ \A j \in DOMAIN pool : j # i => pool'[j] = pool[j]
    BY <1>1, <2>1, <2>2, AdvanceFacts
  <2> QED  BY <2>3 DEF Unmap
<1>3. \A j \in DOMAIN pool : pool[j].key \in Key
  <2>1. \A j \in DOMAIN pool : pool[j] \in TimerRecord
    BY <1>1
  <2> QED  BY <2>1 DEF TimerRecord
<1>4. /\ timers'[pool[i].key] = 0
      /\ \A k \in Key : k # pool[i].key => timers'[k] = timers[k]
  BY <1>1, <1>2, <1>3 DEF None
<1>5. DebounceTypeOK'
  BY <1>1, <1>2, <1>3 DEF DebounceTypeOK, DebounceInv, None
<1>6. ASSUME NEW j \in DOMAIN pool
      PROVE  Latest(j)' <=> Latest(j)
  BY <1>2 DEF Latest
<1>7. MapHoldsLatest'
  <2> SUFFICES ASSUME NEW k \in Key, timers'[k] # None
               PROVE  /\ pool'[timers'[k]].key = k
                      /\ pool'[timers'[k]].state \in {"pending", "fired"}
                      /\ Latest(timers[k])'
    BY DEF MapHoldsLatest
  <2>1. k # pool[i].key /\ timers'[k] = timers[k]
    BY <1>4 DEF None
  <2>2. /\ timers[k] \in DOMAIN pool
        /\ pool[timers[k]].key = k
        /\ pool[timers[k]].state \in {"pending", "fired"}
        /\ Latest(timers[k])
    BY <2>1, <1>1 DEF DebounceInv, MapHoldsLatest, None
  <2>3. pool'[timers[k]] = pool[timers[k]]
    BY <2>1, <2>2, <1>2
  <2>4. Latest(timers[k])'
    BY <2>1, <2>2, <1>2 DEF Latest
  <2> QED  BY <2>1, <2>2, <2>3, <2>4
<1>8. LatestNeverStopped'
  BY <1>1, <1>2, <1>6 DEF DebounceInv, LatestNeverStopped
<1>9. OrphanedByOlderCallback'
  <2> SUFFICES ASSUME NEW x \in DOMAIN pool, pool'[x].state = "pending",
                      timers'[pool'[x].key] # x
               PROVE  \E j \in DOMAIN pool : /\ j < x
                                             /\ pool'[j].key = pool'[x].key
                                             /\ pool'[j].state \in {"ready", "ran"}
    BY <1>2 DEF OrphanedByOlderCallback
  <2>1. x # i /\ pool'[x] = pool[x]
    BY <1>2
  <2>2. CASE timers[pool[x].key] = x
    <3>1. pool[x].key = pool[i].key
      BY <2>1, <2>2, <1>3, <1>4
    <3>2. Latest(x)
      BY <2>2, <1>1, <1>3 DEF DebounceInv, MapHoldsLatest, None
    <3>3. i < x
      BY <3>1, <3>2, <2>1, <1>1 DEF Latest
    <3> QED  BY <3>1, <3>3, <2>1, <1>2
  <2>3. CASE timers[pool[x].key] # x
    <3>1. PICK j \in DOMAIN pool : /\ j < x
                                   /\ pool[j].key = pool[x].key
                                   /\ pool[j].state \in {"ready", "ran"}
      BY <2>1, <2>3 DEF DebounceInv, OrphanedByOlderCallback
    <3>2. j # i
      BY <3>1 DEF Unmap
    <3> QED  BY <3>1, <3>2, <2>1, <1>2
  <2> QED  BY <2>2, <2>3
<1> QED  BY <1>5, <1>7, <1>8, <1>9 DEF DebounceInv

(* A callback calls fn.                                                    *)
LEMMA CallFnInv ==
  ASSUME DebounceInv, NEW i \in DOMAIN pool, CallFn(i)
  PROVE  DebounceInv'
<1>1. /\ pool \in Seq(TimerRecord) /\ DOMAIN pool = 1 .. Len(pool)
      /\ timers \in [Key -> 0 .. Len(pool)]
  BY DEF DebounceInv, DebounceTypeOK
<1>2. /\ pool' \in Seq(TimerRecord)
      /\ Len(pool') = Len(pool) /\ DOMAIN pool' = DOMAIN pool
      /\ pool'[i].key = pool[i].key /\ pool'[i].state = "ran"
      /\ \A j \in DOMAIN pool : j # i => pool'[j] = pool[j]
      /\ timers' = timers /\ stopCalled' = stopCalled
      /\ pool[i].state = "ready"
  <2>1. "ran" \in TimerState
    BY DEF TimerState
  <2>2. pool' = Advance(pool, i, "ran")
    BY DEF CallFn
  <2>3. /\ pool' \in Seq(TimerRecord)
        /\ Len(pool') = Len(pool) /\ DOMAIN pool' = DOMAIN pool
        /\ pool'[i].key = pool[i].key /\ pool'[i].state = "ran"
        /\ \A j \in DOMAIN pool : j # i => pool'[j] = pool[j]
    BY <1>1, <2>1, <2>2, AdvanceFacts
  <2> QED  BY <2>3 DEF CallFn
<1>3. DebounceTypeOK'
  BY <1>1, <1>2 DEF DebounceTypeOK, DebounceInv
<1>4. ASSUME NEW j \in DOMAIN pool
      PROVE  Latest(j)' <=> Latest(j)
  BY <1>2 DEF Latest
<1>5. MapHoldsLatest'
  BY <1>1, <1>2, <1>4 DEF DebounceInv, MapHoldsLatest, None
<1>6. LatestNeverStopped'
  BY <1>1, <1>2, <1>4 DEF DebounceInv, LatestNeverStopped
<1>7. OrphanedByOlderCallback'
  BY <1>1, <1>2, SMTT(20) DEF DebounceInv, OrphanedByOlderCallback
<1> QED  BY <1>3, <1>5, <1>6, <1>7 DEF DebounceInv

(* Stop stops the timers of the map and empties it.                        *)
LEMMA StopInv ==
  ASSUME DebounceInv, Stop
  PROVE  DebounceInv'
<1> DEFINE ids == {timers[k] : k \in Key}
<1>1. /\ pool \in Seq(TimerRecord) /\ DOMAIN pool = 1 .. Len(pool)
      /\ timers \in [Key -> 0 .. Len(pool)]
  BY DEF DebounceInv, DebounceTypeOK
<1>2. /\ pool' \in Seq(TimerRecord)
      /\ Len(pool') = Len(pool) /\ DOMAIN pool' = DOMAIN pool
      /\ \A i \in DOMAIN pool :
           /\ pool'[i].key = pool[i].key
           /\ i \in ids /\ pool[i].state = "pending" => pool'[i].state = "stopped"
           /\ ~(i \in ids /\ pool[i].state = "pending") => pool'[i] = pool[i]
  <2> HIDE DEF ids
  <2>1. pool' = StopTimers(pool, ids)
    BY DEF Stop, ids
  <2> QED  BY <1>1, <2>1, StopTimersFacts
<1>3. \A k \in Key : timers'[k] = 0
  BY DEF Stop, None
<1>4. \A j \in DOMAIN pool : pool[j].key \in Key
  <2>1. \A j \in DOMAIN pool : pool[j] \in TimerRecord
    BY <1>1
  <2> QED  BY <2>1 DEF TimerRecord
<1>5. DebounceTypeOK'
  <2>1. stopCalled' \in BOOLEAN
    BY DEF Stop
  <2>2. timers' \in [Key -> 0 .. Len(pool')] /\ Len(pool') <= MaxTimers
    BY <1>1, <1>2 DEF Stop, None, DebounceInv, DebounceTypeOK
  <2> QED  BY <2>1, <2>2, <1>2 DEF DebounceTypeOK
<1>6. MapHoldsLatest'
  BY <1>3 DEF MapHoldsLatest, None
<1>7. LatestNeverStopped'
  BY DEF LatestNeverStopped, Stop
<1>8. OrphanedByOlderCallback'
  <2> SUFFICES ASSUME NEW x \in DOMAIN pool, pool'[x].state = "pending"
               PROVE  \E j \in DOMAIN pool : /\ j < x
                                             /\ pool'[j].key = pool'[x].key
                                             /\ pool'[j].state \in {"ready", "ran"}
    BY <1>2 DEF OrphanedByOlderCallback
  <2>1. pool'[x] = pool[x] /\ x \notin ids
    BY <1>2
  <2>2. timers[pool[x].key] # x
    BY <2>1, <1>4
  <2>3. PICK j \in DOMAIN pool : /\ j < x
                                 /\ pool[j].key = pool[x].key
                                 /\ pool[j].state \in {"ready", "ran"}
    BY <2>1, <2>2 DEF DebounceInv, OrphanedByOlderCallback
  <2> HIDE DEF ids
  <2>4. pool'[j] = pool[j]
    BY <2>3, <1>2
  <2> QED  BY <2>1, <2>3, <2>4
<1> QED  BY <1>5, <1>6, <1>7, <1>8 DEF DebounceInv

-----------------------------------------------------------------------------
(* Every step of the debouncer preserves the invariant.                    *)
LEMMA DebounceNextInv == DebounceInv /\ [DebounceNext]_debounceVars => DebounceInv'
<1> SUFFICES ASSUME DebounceInv, [DebounceNext]_debounceVars
             PROVE  DebounceInv'
  OBVIOUS
<1>1. CASE \E k \in Key : Trigger(k)
  BY <1>1, TriggerInv
<1>2. CASE \E i \in DOMAIN pool : Expire(i)
  BY <1>2, ExpireInv
<1>3. CASE \E i \in DOMAIN pool : Unmap(i)
  BY <1>3, UnmapInv
<1>4. CASE \E i \in DOMAIN pool : CallFn(i)
  BY <1>4, CallFnInv
<1>5. CASE Stop
  BY <1>5, StopInv
<1>6. CASE UNCHANGED debounceVars
  BY <1>6 DEF DebounceInv, DebounceTypeOK, MapHoldsLatest, LatestNeverStopped,
              OrphanedByOlderCallback, Latest, debounceVars
<1> QED  BY <1>1, <1>2, <1>3, <1>4, <1>5, <1>6 DEF DebounceNext

(* The debouncer's map and timers keep their types: every map entry names  *)
(* a timer that time.AfterFunc created.                                    *)
THEOREM DebounceTypeCorrect == DebounceSpec => []DebounceTypeOK
<1>1. DebounceInv => DebounceTypeOK
  BY DEF DebounceInv
<1> QED  BY <1>1, DebounceInitInv, DebounceNextInv, PTL DEF DebounceSpec

(* The map only ever holds the timer of a key's last Trigger, not yet run: *)
(* Trigger and Stop of debounce.go never stop anyone else's timer.         *)
THEOREM DebounceMapHoldsLatest == DebounceSpec => []MapHoldsLatest
<1>1. DebounceInv => MapHoldsLatest
  BY DEF DebounceInv
<1> QED  BY <1>1, DebounceInitInv, DebounceNextInv, PTL DEF DebounceSpec

(* Short of Stop, no interleaving of callbacks and Trigger calls stops the *)
(* timer of a key's last Trigger: the last callback is never lost.         *)
THEOREM DebounceLatestNeverStopped == DebounceSpec => []LatestNeverStopped
<1>1. DebounceInv => LatestNeverStopped
  BY DEF DebounceInv
<1> QED  BY <1>1, DebounceInitInv, DebounceNextInv, PTL DEF DebounceSpec

(* An armed timer escapes the map only through the late callback of an     *)
(* older timer of its key (debounce.go:38 deletes by key, not by timer).   *)
THEOREM DebounceOrphans == DebounceSpec => []OrphanedByOlderCallback
<1>1. DebounceInv => OrphanedByOlderCallback
  BY DEF DebounceInv
<1> QED  BY <1>1, DebounceInitInv, DebounceNextInv, PTL DEF DebounceSpec

-----------------------------------------------------------------------------
(* The server                                                              *)
(* What main knows at a step of a handler.                                 *)
MainFits ==
  /\ ~MainAt("idle") => main.uri \in Key
  /\ MainAt("remove") => revision < MaxRevision
  /\ MainAt("analyze") => docs[main.uri] # NoText
  /\ MainAt("clear") => docs[main.uri] = NoText

(* A check that got past the first look at its snapshot has a text.        *)
SnapFits ==
  \A t \in DOMAIN checks : checks[t].pc \in {"parsed", "checked", "put"} =>
    checks[t].snap # NoText

TypeInv ==
  /\ PipelineTypeOK
  /\ Coherent(Key, Text, cache)
  /\ MainFits
  /\ SnapFits

(* The texts of a document only grow: nobody has a later one than the      *)
(* document itself.                                                        *)
TextsGrow ==
  /\ \A u \in Key : docs[u] <= revision /\ checked[u] <= revision
  /\ \A t \in DOMAIN checks : checks[t].snap <= revision
  /\ \A u \in Key : docs[u] # NoText =>
       /\ checked[u] <= docs[u]
       /\ \A t \in DOMAIN checks : checks[t].uri = u => checks[t].snap <= docs[u]

(* A check that will publish the text d of document u.                     *)
WillPublish(c, u, d) ==
  /\ c.uri = u
  /\ \/ c.pc = "snapshot" /\ ~c.cancelled
     \/ c.pc \in {"start", "parsed", "checked"} /\ ~c.cancelled /\ c.snap = d
     \/ c.pc \in {"put", "publish"} /\ c.snap = d

(* Who is at work on document u: main in a handler that will schedule a    *)
(* check or remove the document, a timer, or a check.                      *)
MainWorksOn(u) == main.uri = u /\ main.pc \in {"cancel", "schedule", "remove"}
TimerWorksOn(u) ==
  \E i \in DOMAIN pool : pool[i].key = u /\ pool[i].state \in {"pending", "fired", "ready"}
CheckWorksOn(u) == \E t \in DOMAIN checks : WillPublish(checks[t], u, docs[u])

EditsWorkedOn ==
  ~exited => \A u \in Key : docs[u] # NoText /\ checked[u] # docs[u] =>
    MainWorksOn(u) \/ TimerWorksOn(u) \/ CheckWorksOn(u)

(* Without a delay nothing runs beside main: no timer, and no check but    *)
(* the one main is in, which works on the text of its document.            *)
SyncAlone ==
  sync =>
    /\ pool = << >>
    /\ main.pc \in {"cancel", "schedule", "inline"} => docs[main.uri] # NoText
    /\ \A t \in DOMAIN checks : checks[t].pc # "done" =>
         /\ MainAt("inline")
         /\ checks[t].uri = main.uri
         /\ checks[t].pc # "finish" => ~checks[t].cancelled
         /\ checks[t].pc \notin {"snapshot", "finish"} => checks[t].snap = docs[main.uri]
    /\ \A t, v \in DOMAIN checks : checks[t].pc # "done" /\ checks[v].pc # "done" => t = v

(* Then the cache never holds a stale checker, ...                         *)
SyncCache == sync => \A x \in Contents(cache.order) : x.entry = docs[x.key]

(* ... and the client sees the diagnostics of the current text, except of  *)
(* the document that main is at work on.                                   *)
Current(u) == shown[u] = IF docs[u] = NoText THEN NoDiagnostics ELSE DiagnosticsOf(docs[u])
BusyWith(u) ==
  /\ main.uri = u
  /\ \/ main.pc \in {"cancel", "schedule", "clear"}
     \/ /\ MainAt("inline")
        /\ \E t \in DOMAIN checks : checks[t].pc \notin {"finish", "done"}
SyncShown == sync => \A u \in Key : Current(u) \/ BusyWith(u)

PipelineInv ==
  /\ DebounceInv
  /\ TypeInv
  /\ OwnerAlive
  /\ OwnerCurrent
  /\ TextsGrow
  /\ EditsWorkedOn
  /\ SyncAlone
  /\ SyncCache
  /\ SyncShown

-----------------------------------------------------------------------------
(* A check moves on to its next step.                                      *)
LEMMA CheckGotoFacts ==
  ASSUME TypeInv, NEW t \in DOMAIN checks, NEW pc \in CheckPC, CheckGoto(t, pc)
  PROVE  /\ checks' \in Seq(CheckRecord)
         /\ Len(checks') = Len(checks) /\ DOMAIN checks' = DOMAIN checks
         /\ checks'[t] = [checks[t] EXCEPT !.pc = pc]
         /\ checks'[t].pc = pc /\ checks'[t].uri = checks[t].uri
         /\ checks'[t].snap = checks[t].snap /\ checks'[t].cancelled = checks[t].cancelled
         /\ \A v \in DOMAIN checks : v # t => checks'[v] = checks[v]
<1>1. checks \in Seq(CheckRecord) /\ DOMAIN checks = 1 .. Len(checks)
  BY DEF TypeInv, PipelineTypeOK
<1>2. checks[t] \in CheckRecord
  BY <1>1
<1>3. [checks[t] EXCEPT !.pc = pc] \in CheckRecord
  BY <1>2 DEF CheckRecord
<1>4. checks' = [checks EXCEPT ![t] = [checks[t] EXCEPT !.pc = pc]]
  BY DEF CheckGoto
<1>5. checks'[t] = [checks[t] EXCEPT !.pc = pc]
  BY <1>1, <1>4
<1> QED  BY <1>1, <1>2, <1>3, <1>4, <1>5 DEF CheckRecord

(* A check takes its snapshot.                                             *)
LEMMA TakeSnapshotFacts ==
  ASSUME TypeInv, NEW t \in DOMAIN checks, TakeSnapshot(t)
  PROVE  /\ checks' \in Seq(CheckRecord)
         /\ Len(checks') = Len(checks) /\ DOMAIN checks' = DOMAIN checks
         /\ checks[t].pc = "snapshot" /\ checks[t].uri \in Key
         /\ checks'[t].pc = "start" /\ checks'[t].uri = checks[t].uri
         /\ checks'[t].snap = docs[checks[t].uri]
         /\ checks'[t].cancelled = checks[t].cancelled
         /\ \A v \in DOMAIN checks : v # t => checks'[v] = checks[v]
<1> DEFINE r == [checks[t] EXCEPT !.pc = "start", !.snap = docs[checks[t].uri]]
<1>1. checks \in Seq(CheckRecord) /\ DOMAIN checks = 1 .. Len(checks)
  BY DEF TypeInv, PipelineTypeOK
<1>2. checks[t] \in CheckRecord
  BY <1>1
<1>3. docs[checks[t].uri] \in Text \cup {NoText}
  BY <1>2 DEF CheckRecord, TypeInv, PipelineTypeOK
<1>4. r \in CheckRecord
  BY <1>2, <1>3 DEF CheckRecord, CheckPC
<1>5. checks' = [checks EXCEPT ![t] = r]
  BY <1>1 DEF TakeSnapshot
<1>6. /\ r.pc = "start" /\ r.uri = checks[t].uri /\ r.snap = docs[checks[t].uri]
      /\ r.cancelled = checks[t].cancelled
  BY <1>2 DEF CheckRecord
<1>7. checks[t].pc = "snapshot" /\ checks[t].uri \in Key
  BY <1>2 DEF TakeSnapshot, CheckAt, CheckRecord
<1> HIDE DEF r
<1> QED  BY <1>1, <1>4, <1>5, <1>6, <1>7

(* A check returns.                                                        *)
LEMMA FinishFacts ==
  ASSUME TypeInv, NEW t \in DOMAIN checks, Finish(t)
  PROVE  /\ checks' \in Seq(CheckRecord)
         /\ Len(checks') = Len(checks) /\ DOMAIN checks' = DOMAIN checks
         /\ checks[t].pc = "finish" /\ checks[t].uri \in Key
         /\ checks'[t].pc = "done" /\ checks'[t].uri = checks[t].uri
         /\ checks'[t].snap = NoText /\ checks'[t].cancelled = TRUE
         /\ \A v \in DOMAIN checks : v # t => checks'[v] = checks[v]
<1> DEFINE r == [checks[t] EXCEPT !.pc = "done", !.cancelled = TRUE, !.snap = NoText]
<1>1. checks \in Seq(CheckRecord) /\ DOMAIN checks = 1 .. Len(checks)
  BY DEF TypeInv, PipelineTypeOK
<1>2. checks[t] \in CheckRecord
  BY <1>1
<1>3. r \in CheckRecord
  BY <1>2 DEF CheckRecord, CheckPC
<1>4. checks' = [checks EXCEPT ![t] = r]
  BY <1>1 DEF Finish
<1>5. r.pc = "done" /\ r.uri = checks[t].uri /\ r.snap = NoText /\ r.cancelled = TRUE
  BY <1>2 DEF CheckRecord
<1>6. checks[t].pc = "finish" /\ checks[t].uri \in Key
  BY <1>2 DEF Finish, CheckAt, CheckRecord
<1> HIDE DEF r
<1> QED  BY <1>1, <1>3, <1>4, <1>5, <1>6

(* A check registers: it is the last one, and its document's entry.        *)
LEMMA RegisterFacts ==
  ASSUME TypeInv, NEW u \in Key, Register(u)
  PROVE  /\ checks' \in Seq(CheckRecord)
         /\ Len(checks) \in Nat /\ Len(checks') = Len(checks) + 1
         /\ DOMAIN checks = 1 .. Len(checks) /\ DOMAIN checks' = 1 .. Len(checks) + 1
         /\ checks'[Len(checks) + 1].uri = u /\ checks'[Len(checks) + 1].snap = NoText
         /\ checks'[Len(checks) + 1].cancelled = FALSE
         /\ checks'[Len(checks) + 1].pc = "snapshot"
         /\ \A v \in DOMAIN checks : checks'[v] = checks[v]
         /\ cancels' \in [Key -> 0 .. Len(checks')]
         /\ cancels'[u] = Len(checks) + 1
         /\ \A x \in Key : x # u => cancels'[x] = cancels[x]
<1> DEFINE r == [uri |-> u, snap |-> NoText, cancelled |-> FALSE, pc |-> "snapshot"]
<1>1. /\ checks \in Seq(CheckRecord) /\ DOMAIN checks = 1 .. Len(checks)
      /\ Len(checks) \in Nat /\ cancels \in [Key -> 0 .. Len(checks)]
  BY DEF TypeInv, PipelineTypeOK
<1>2. r \in CheckRecord
  BY DEF CheckRecord, CheckPC
<1>3. checks' = Append(checks, r) /\ cancels' = [cancels EXCEPT ![u] = Len(checks) + 1]
  BY DEF Register
<1>5. r.uri = u /\ r.snap = NoText /\ r.cancelled = FALSE /\ r.pc = "snapshot"
  OBVIOUS
<1> HIDE DEF r
<1>4. /\ checks' \in Seq(CheckRecord) /\ Len(checks') = Len(checks) + 1
      /\ DOMAIN checks' = 1 .. Len(checks) + 1 /\ checks'[Len(checks) + 1] = r
      /\ \A v \in DOMAIN checks : checks'[v] = checks[v]
  BY <1>1, <1>2, <1>3
<1> QED  BY <1>1, <1>3, <1>4, <1>5

(* The registered check of u is cancelled.                                 *)
LEMMA CancelFacts ==
  ASSUME TypeInv, NEW u \in Key, CancelRegistered(u)
  PROVE  /\ checks' \in Seq(CheckRecord)
         /\ Len(checks') = Len(checks) /\ DOMAIN checks' = DOMAIN checks
         /\ \A v \in DOMAIN checks :
              /\ checks'[v].pc = checks[v].pc /\ checks'[v].uri = checks[v].uri
              /\ checks'[v].snap = checks[v].snap
              /\ v = cancels[u] => checks'[v].cancelled
              /\ v # cancels[u] => checks'[v] = checks[v]
<1>1. /\ checks \in Seq(CheckRecord) /\ DOMAIN checks = 1 .. Len(checks)
      /\ Len(checks) \in Nat /\ cancels[u] \in 0 .. Len(checks)
  BY DEF TypeInv, PipelineTypeOK
<1>2. CASE cancels[u] = None
  BY <1>1, <1>2 DEF CancelRegistered, None
<1>3. CASE cancels[u] # None
  <2> DEFINE t == cancels[u]
             r == [checks[t] EXCEPT !.cancelled = TRUE]
  <2>1. t \in DOMAIN checks
    BY <1>1, <1>3 DEF None
  <2>2. checks[t] \in CheckRecord
    BY <1>1, <2>1
  <2>3. /\ r \in CheckRecord /\ r.pc = checks[t].pc /\ r.uri = checks[t].uri
        /\ r.snap = checks[t].snap /\ r.cancelled = TRUE
    BY <2>2 DEF CheckRecord
  <2>4. checks' = [checks EXCEPT ![t] = r]
    BY <1>3 DEF CancelRegistered
  <2> HIDE DEF r, t
  <2> QED  BY <1>1, <2>1, <2>3, <2>4 DEF t
<1> QED  BY <1>2, <1>3

-----------------------------------------------------------------------------
(* The server uses the debouncer only through its operations.              *)
LEMMA DebounceStep ==
  ASSUME DebounceInv, TypeInv, [PipelineNext]_vars
  PROVE  DebounceInv'
<1> SUFFICES [DebounceNext]_debounceVars
  BY DebounceNextInv
<1>1. CASE ClientMessage
  BY <1>1 DEF ClientMessage, Edit, CloseCancel, QueryCache, Shutdown, DebounceNext
<1>2. CASE MainStep
  <2>1. CASE ScheduleTrigger
    BY <2>1 DEF ScheduleTrigger, MainAt, TypeInv, MainFits, DebounceNext
  <2>2. CASE ~ScheduleTrigger
    BY <1>2, <2>2 DEF MainStep, ScheduleCancel, ScheduleInline, CloseRemove, CloseClear,
                      QueryAnalyze, QueryReply
  <2> QED  BY <2>1, <2>2
<1>3. CASE \E i \in DOMAIN pool : RuntimeStep(i)
  BY <1>3 DEF RuntimeStep, TimerExpires, TimerUnmaps, TimerRunsCheck, DebounceNext
<1>4. CASE \E t \in DOMAIN checks : CheckStep(t)
  BY <1>4 DEF CheckStep, TakeSnapshot, AnalyzeStart, AnalyzeParsed, AnalyzeChecked,
              AnalyzePut, Publish, Finish
<1>5. CASE UNCHANGED vars
  BY <1>5 DEF vars
<1> QED  BY <1>1, <1>2, <1>3, <1>4, <1>5 DEF PipelineNext

(* NewServerV2 establishes the type invariant.                             *)
LEMMA TypeInvInit == PipelineInit => TypeInv
<1> SUFFICES ASSUME PipelineInit PROVE TypeInv
  OBVIOUS
<1>1. DebounceTypeOK
  BY DebounceInitInv DEF DebounceInv, PipelineInit
<1>2. /\ cache.items = {} /\ cache.order = << >> /\ cache.capacity \in Nat \ {0}
      /\ cache \in CacheOf(Key, Text)
  BY PipelineAssumption DEF PipelineInit, NewCache, CacheOf
<1>3. ListKeys(<< >>) = {} /\ Distinct(<< >>) /\ Len(<< >>) = 0
  BY DEF ListKeys, Distinct
<1>4. Coherent(Key, Text, cache)
  BY <1>2, <1>3 DEF Coherent
<1>5. cache.items = ListKeys(cache.order) /\ cache.order \in Seq([key : Key, entry : Text])
  BY <1>2, <1>3 DEF CacheOf, Items
<1>6. main \in [pc : MainPC, uri : Key \cup {None}, val : Text \cup {NoText}]
  BY DEF PipelineInit, Idle, MainPC
<1>7. checks \in Seq(CheckRecord) /\ Len(checks) = 0 /\ DOMAIN checks = {}
  BY DEF PipelineInit
<1>8. cancels \in [Key -> 0 .. Len(checks)]
  BY <1>7 DEF PipelineInit, None
<1>9. revision \in 0 .. MaxRevision /\ queries \in 0 .. MaxQueries
  BY PipelineAssumption DEF PipelineInit
<1>10. exited \in BOOLEAN
  BY DEF PipelineInit
<1>11. PipelineTypeOK
  BY <1>1, <1>5, <1>6, <1>7, <1>8, <1>9, <1>10 DEF PipelineTypeOK, PipelineInit
<1>12. MainFits /\ SnapFits
  BY <1>7 DEF PipelineInit, MainFits, SnapFits, MainAt, Idle
<1> QED  BY <1>4, <1>11, <1>12 DEF TypeInv

(* Every notification and request keeps the types.                         *)
LEMMA ClientTypes ==
  ASSUME TypeInv, DebounceTypeOK', ClientMessage
  PROVE  TypeInv'
<1> USE PipelineAssumption
<1>1. ASSUME NEW u \in Key, Edit(u) PROVE TypeInv'
  <2>1. Coherent(Key, Text, cache)'
    BY <1>1, AfterDeleteCoherent DEF TypeInv, Edit, UpdateDocument
  <2>2. /\ revision' \in 0 .. MaxRevision
        /\ docs' \in [Key -> Text \cup {NoText}]
    BY <1>1 DEF TypeInv, PipelineTypeOK, Edit, UpdateDocument, SetDocument, Text
  <2>3. /\ main' \in [pc : MainPC, uri : Key \cup {None}, val : Text \cup {NoText}]
        /\ MainFits'
    BY <1>1 DEF Edit, Goto, MainPC, MainFits, MainAt
  <2>4. SnapFits'
    BY <1>1 DEF TypeInv, SnapFits, Edit
  <2> QED  BY <1>1, <2>1, <2>2, <2>3, <2>4
           DEF TypeInv, PipelineTypeOK, Edit, Coherent, CacheOf, Items
<1>2. ASSUME NEW u \in Key, CloseCancel(u) PROVE TypeInv'
  <2>1. /\ checks' \in Seq(CheckRecord)
        /\ Len(checks') = Len(checks) /\ DOMAIN checks' = DOMAIN checks
        /\ \A v \in DOMAIN checks :
             checks'[v].pc = checks[v].pc /\ checks'[v].snap = checks[v].snap
    BY <1>2, CancelFacts DEF CloseCancel
  <2>2. cancels' \in [Key -> 0 .. Len(checks')]
    BY <1>2, <2>1 DEF CloseCancel, TypeInv, PipelineTypeOK, None
  <2>3. /\ main' \in [pc : MainPC, uri : Key \cup {None}, val : Text \cup {NoText}]
        /\ MainFits'
    BY <1>2 DEF CloseCancel, Goto, MainPC, MainFits, MainAt
  <2>4. SnapFits'
    BY <2>1 DEF TypeInv, SnapFits
  <2> QED  BY <1>2, <2>1, <2>2, <2>3, <2>4 DEF TypeInv, PipelineTypeOK, CloseCancel
<1>3. ASSUME NEW u \in Key, QueryCache(u) PROVE TypeInv'
  <2>1. Coherent(Key, Text, cache)'
    BY <1>3, AfterGetCoherent DEF TypeInv, QueryCache
  <2>2. queries' \in 0 .. MaxQueries
    BY <1>3 DEF TypeInv, PipelineTypeOK, QueryCache
  <2>3. u \in cache.items => EntryOf(cache, u) \in Text
    BY EntryOfType DEF TypeInv
  <2>4. /\ main' \in [pc : MainPC, uri : Key \cup {None}, val : Text \cup {NoText}]
        /\ MainFits'
    BY <1>3, <2>3 DEF QueryCache, Goto, MainPC, MainFits, MainAt
  <2>5. SnapFits'
    BY <1>3 DEF TypeInv, SnapFits, QueryCache
  <2> QED  BY <1>3, <2>1, <2>2, <2>4, <2>5
           DEF TypeInv, PipelineTypeOK, QueryCache, Coherent, CacheOf, Items
<1>4. CASE Shutdown
  <2>1. exited' \in BOOLEAN
    BY <1>4 DEF Shutdown
  <2> QED  BY <1>4, <2>1 DEF TypeInv, PipelineTypeOK, Shutdown, MainFits, SnapFits, MainAt
<1> QED  BY <1>1, <1>2, <1>3, <1>4 DEF ClientMessage

(* So does every later step of a handler.                                  *)
LEMMA MainTypes ==
  ASSUME TypeInv, DebounceTypeOK', MainStep
  PROVE  TypeInv'
<1> USE PipelineAssumption
<1> DEFINE MainType == [pc : MainPC, uri : Key \cup {None}, val : Text \cup {NoText}]
<1>1. main \in MainType
  BY DEF TypeInv, PipelineTypeOK
<1>2. CASE ScheduleCancel
  <2>1. main.uri \in Key
    BY <1>2 DEF ScheduleCancel, TypeInv, MainFits, MainAt
  <2>2. /\ checks' \in Seq(CheckRecord)
        /\ Len(checks') = Len(checks) /\ DOMAIN checks' = DOMAIN checks
        /\ \A v \in DOMAIN checks :
             checks'[v].pc = checks[v].pc /\ checks'[v].snap = checks[v].snap
    BY <1>2, <2>1, CancelFacts DEF ScheduleCancel
  <2>3. main' \in MainType /\ MainFits'
    BY <1>2, <2>1 DEF ScheduleCancel, Goto, MainPC, MainFits, MainAt
  <2>4. SnapFits'
    BY <2>2 DEF TypeInv, SnapFits
  <2> QED  BY <1>2, <2>2, <2>3, <2>4 DEF TypeInv, PipelineTypeOK, ScheduleCancel
<1>3. CASE ScheduleTrigger
  <2>1. main' \in MainType /\ MainFits'
    BY <1>3 DEF ScheduleTrigger, Idle, MainPC, MainFits, MainAt
  <2> QED  BY <1>3, <2>1 DEF TypeInv, PipelineTypeOK, ScheduleTrigger, SnapFits
<1>4. CASE ScheduleInline
  <2>1. main.uri \in Key
    BY <1>4 DEF ScheduleInline, TypeInv, MainFits, MainAt
  <2>2. Register(main.uri)
    BY <1>4 DEF ScheduleInline
  <2>3. /\ checks' \in Seq(CheckRecord)
        /\ DOMAIN checks = 1 .. Len(checks) /\ DOMAIN checks' = 1 .. Len(checks) + 1
        /\ checks'[Len(checks) + 1].pc = "snapshot"
        /\ \A v \in DOMAIN checks : checks'[v] = checks[v]
        /\ cancels' \in [Key -> 0 .. Len(checks')]
    BY <2>1, <2>2, RegisterFacts
  <2>4. main' \in MainType /\ MainFits'
    BY <1>4, <2>1 DEF ScheduleInline, Goto, MainPC, MainFits, MainAt
  <2>5. SnapFits'
    BY <2>3 DEF TypeInv, SnapFits
  <2> QED  BY <1>4, <2>3, <2>4, <2>5 DEF TypeInv, PipelineTypeOK, ScheduleInline
<1>5. CASE CloseRemove
  <2>1. main.uri \in Key /\ revision < MaxRevision
    BY <1>5 DEF CloseRemove, TypeInv, MainFits, MainAt
  <2>2. Coherent(Key, Text, cache)'
    BY <1>5, AfterDeleteCoherent DEF TypeInv, CloseRemove
  <2>3. revision' \in 0 .. MaxRevision /\ docs' \in [Key -> Text \cup {NoText}]
    BY <1>5, <2>1 DEF TypeInv, PipelineTypeOK, CloseRemove, DeleteDocument
  <2>4. main' \in MainType /\ MainFits'
    BY <1>5, <2>1 DEF CloseRemove, DeleteDocument, Goto, MainPC, MainFits, MainAt, TypeInv,
                     PipelineTypeOK
  <2> QED  BY <1>5, <2>2, <2>3, <2>4
           DEF TypeInv, PipelineTypeOK, CloseRemove, SnapFits, Coherent, CacheOf, Items
<1>6. CASE CloseClear
  <2>1. main' \in MainType /\ MainFits'
    BY <1>6 DEF CloseClear, Idle, MainPC, MainFits, MainAt
  <2>2. main.uri \in Key
    BY <1>6 DEF CloseClear, TypeInv, MainFits, MainAt
  <2>3. shown' \in [Key -> {DiagnosticsOf(t) : t \in Text}
                              \cup {NoDiagnostics, DocumentNotFound}]
    BY <1>6, <2>2 DEF CloseClear, TypeInv, PipelineTypeOK
  <2> QED  BY <1>6, <2>1, <2>3 DEF TypeInv, PipelineTypeOK, CloseClear, SnapFits
<1>7. CASE QueryAnalyze
  <2>1. main.uri \in Key /\ docs[main.uri] \in Text
    BY <1>7 DEF QueryAnalyze, TypeInv, PipelineTypeOK, MainFits, MainAt
  <2>2. Coherent(Key, Text, cache)'
    BY <1>7, <2>1, AfterPutCoherent DEF TypeInv, QueryAnalyze
  <2>3. main' \in MainType /\ MainFits'
    BY <1>1, <1>7, <2>1 DEF QueryAnalyze, MainPC, MainFits, MainAt
  <2> QED  BY <1>7, <2>2, <2>3
           DEF TypeInv, PipelineTypeOK, QueryAnalyze, SnapFits, Coherent, CacheOf, Items
<1>8. CASE QueryReply
  <2>1. main' \in MainType /\ MainFits'
    BY <1>8 DEF QueryReply, Idle, MainPC, MainFits, MainAt
  <2> QED  BY <1>8, <2>1 DEF TypeInv, PipelineTypeOK, QueryReply, SnapFits
<1> QED  BY <1>2, <1>3, <1>4, <1>5, <1>6, <1>7, <1>8 DEF MainStep

(* A timer has the key of a document.                                      *)
LEMMA PoolKeys ==
  ASSUME TypeInv, NEW i \in DOMAIN pool
  PROVE  pool[i].key \in Key
<1>1. pool \in Seq(TimerRecord) /\ DOMAIN pool = 1 .. Len(pool)
  BY DEF TypeInv, PipelineTypeOK, DebounceTypeOK
<1>2. pool[i] \in TimerRecord
  BY <1>1
<1> QED  BY <1>2 DEF TimerRecord

(* Timers change only the debouncer, until one runs a check.               *)
LEMMA RuntimeTypes ==
  ASSUME TypeInv, DebounceTypeOK', NEW i \in DOMAIN pool, RuntimeStep(i)
  PROVE  TypeInv'
<1>1. CASE TimerExpires(i) \/ TimerUnmaps(i)
  BY <1>1 DEF TimerExpires, TimerUnmaps, pipelineVars, TypeInv, PipelineTypeOK, MainFits,
              MainAt, SnapFits
<1>2. CASE TimerRunsCheck(i)
  <2>1. pool[i].key \in Key
    BY PoolKeys
  <2>2. Register(pool[i].key)
    BY <1>2 DEF TimerRunsCheck
  <2>3. /\ checks' \in Seq(CheckRecord)
        /\ DOMAIN checks = 1 .. Len(checks) /\ DOMAIN checks' = 1 .. Len(checks) + 1
        /\ checks'[Len(checks) + 1].pc = "snapshot"
        /\ \A v \in DOMAIN checks : checks'[v] = checks[v]
        /\ cancels' \in [Key -> 0 .. Len(checks')]
        /\ Len(checks) \in Nat
    BY <2>1, <2>2, RegisterFacts
  <2>4. SnapFits'
    BY <2>3 DEF TypeInv, SnapFits
  <2> QED  BY <1>2, <2>3, <2>4
           DEF TypeInv, PipelineTypeOK, TimerRunsCheck, MainFits, MainAt
<1> QED  BY <1>1, <1>2 DEF RuntimeStep

(* Every step of a check keeps the types.                                  *)
LEMMA CheckTypes ==
  ASSUME TypeInv, DebounceTypeOK', NEW t \in DOMAIN checks, CheckStep(t)
  PROVE  TypeInv'
<1>1. /\ checks \in Seq(CheckRecord) /\ DOMAIN checks = 1 .. Len(checks)
      /\ checks[t] \in CheckRecord
  BY DEF TypeInv, PipelineTypeOK
<1>2. /\ checks[t].uri \in Key /\ checks[t].snap \in Text \cup {NoText}
      /\ checks[t].cancelled \in BOOLEAN
  BY <1>1 DEF CheckRecord
<1>3. CASE TakeSnapshot(t)
  <2>1. /\ checks' \in Seq(CheckRecord) /\ Len(checks') = Len(checks)
        /\ DOMAIN checks' = DOMAIN checks /\ checks'[t].pc = "start"
        /\ \A v \in DOMAIN checks : v # t => checks'[v] = checks[v]
    BY <1>3, TakeSnapshotFacts
  <2>2. SnapFits'
    BY <2>1 DEF TypeInv, SnapFits
  <2> QED  BY <1>3, <2>1, <2>2 DEF TypeInv, PipelineTypeOK, TakeSnapshot, MainFits, MainAt
<1>4. ASSUME NEW pc \in CheckPC, CheckGoto(t, pc),
             pc \in {"parsed", "checked", "put"} => checks[t].snap # NoText
      PROVE  /\ checks' \in Seq(CheckRecord) /\ Len(checks') = Len(checks)
             /\ SnapFits'
  <2>1. /\ checks' \in Seq(CheckRecord) /\ Len(checks') = Len(checks)
        /\ DOMAIN checks' = DOMAIN checks
        /\ checks'[t].pc = pc /\ checks'[t].snap = checks[t].snap
        /\ \A v \in DOMAIN checks : v # t => checks'[v] = checks[v]
    BY <1>4, CheckGotoFacts
  <2> QED  BY <1>4, <2>1 DEF TypeInv, SnapFits
<1>5. CASE AnalyzeStart(t)
  <2> DEFINE pc == IF checks[t].cancelled THEN "finish"
                   ELSE IF checks[t].snap \in {NoText} \cup Broken THEN "publish"
                   ELSE "parsed"
  <2>1. /\ pc \in CheckPC /\ CheckGoto(t, pc)
        /\ pc \in {"parsed", "checked", "put"} => checks[t].snap # NoText
    BY <1>5 DEF AnalyzeStart, CheckPC
  <2> HIDE DEF pc
  <2>2. checks' \in Seq(CheckRecord) /\ Len(checks') = Len(checks) /\ SnapFits'
    BY <1>4, <2>1
  <2> QED  BY <1>5, <2>2 DEF TypeInv, PipelineTypeOK, AnalyzeStart, MainFits, MainAt
<1>6. CASE AnalyzeParsed(t)
  <2> DEFINE pc == IF checks[t].cancelled THEN "finish" ELSE "checked"
  <2>1. /\ pc \in CheckPC /\ CheckGoto(t, pc)
        /\ pc \in {"parsed", "checked", "put"} => checks[t].snap # NoText
    BY <1>6 DEF AnalyzeParsed, CheckPC, CheckAt, TypeInv, SnapFits
  <2> HIDE DEF pc
  <2>2. checks' \in Seq(CheckRecord) /\ Len(checks') = Len(checks) /\ SnapFits'
    BY <1>4, <2>1
  <2> QED  BY <1>6, <2>2 DEF TypeInv, PipelineTypeOK, AnalyzeParsed, MainFits, MainAt
<1>7. CASE AnalyzeChecked(t)
  <2> DEFINE pc == IF checks[t].cancelled THEN "finish" ELSE "put"
  <2>1. /\ pc \in CheckPC /\ CheckGoto(t, pc)
        /\ pc \in {"parsed", "checked", "put"} => checks[t].snap # NoText
    BY <1>7 DEF AnalyzeChecked, CheckPC, CheckAt, TypeInv, SnapFits
  <2> HIDE DEF pc
  <2>2. checks' \in Seq(CheckRecord) /\ Len(checks') = Len(checks) /\ SnapFits'
    BY <1>4, <2>1
  <2> QED  BY <1>7, <2>2 DEF TypeInv, PipelineTypeOK, AnalyzeChecked, MainFits, MainAt
<1>8. CASE AnalyzePut(t)
  <2>1. checks[t].snap \in Text
    BY <1>2, <1>8 DEF AnalyzePut, CheckAt, TypeInv, SnapFits
  <2>2. Coherent(Key, Text, cache)'
    BY <1>2, <1>8, <2>1, AfterPutCoherent DEF AnalyzePut, TypeInv
  <2>3. checks' \in Seq(CheckRecord) /\ Len(checks') = Len(checks) /\ SnapFits'
    BY <1>4, <1>8 DEF AnalyzePut, CheckPC
  <2> QED  BY <1>8, <2>2, <2>3
           DEF TypeInv, PipelineTypeOK, AnalyzePut, MainFits, MainAt, Coherent, CacheOf, Items
<1>9. CASE Publish(t)
  <2>1. shown' \in [Key -> {DiagnosticsOf(x) : x \in Text}
                              \cup {NoDiagnostics, DocumentNotFound}]
    BY <1>2, <1>9 DEF Publish, TypeInv, PipelineTypeOK
  <2>2. checked' \in [Key -> Text \cup {NoText}]
    BY <1>2, <1>9 DEF Publish, TypeInv, PipelineTypeOK
  <2>3. checks' \in Seq(CheckRecord) /\ Len(checks') = Len(checks) /\ SnapFits'
    BY <1>4, <1>9 DEF Publish, CheckPC
  <2> QED  BY <1>9, <2>1, <2>2, <2>3 DEF TypeInv, PipelineTypeOK, Publish, MainFits, MainAt
<1>10. CASE Finish(t)
  <2>1. /\ checks' \in Seq(CheckRecord) /\ Len(checks') = Len(checks)
        /\ DOMAIN checks' = DOMAIN checks /\ checks'[t].pc = "done"
        /\ \A v \in DOMAIN checks : v # t => checks'[v] = checks[v]
    BY <1>10, FinishFacts
  <2>2. SnapFits'
    BY <2>1 DEF TypeInv, SnapFits
  <2>3. cancels' \in [Key -> 0 .. Len(checks')]
    BY <1>2, <1>10, <2>1 DEF Finish, TypeInv, PipelineTypeOK, None
  <2>4. /\ main' \in [pc : MainPC, uri : Key \cup {None}, val : Text \cup {NoText}]
        /\ MainFits'
    BY <1>10 DEF Finish, TypeInv, PipelineTypeOK, Idle, MainPC, MainFits, MainAt
  <2> QED  BY <1>10, <2>1, <2>2, <2>3, <2>4 DEF TypeInv, PipelineTypeOK, Finish
<1> QED  BY <1>3, <1>5, <1>6, <1>7, <1>8, <1>9, <1>10 DEF CheckStep

(* Every step of the server keeps the types.                               *)
LEMMA TypeInvNext ==
  ASSUME DebounceInv, TypeInv, [PipelineNext]_vars
  PROVE  TypeInv'
<1>1. DebounceTypeOK'
  BY DebounceStep DEF DebounceInv
<1>2. CASE UNCHANGED vars
  BY <1>2 DEF vars, debounceVars, pipelineVars, TypeInv, PipelineTypeOK, DebounceTypeOK,
              MainFits, MainAt, SnapFits
<1> QED  BY <1>1, <1>2, ClientTypes, MainTypes, RuntimeTypes, CheckTypes DEF PipelineNext

-----------------------------------------------------------------------------
(* What a step of a check does, and what it leaves alone.                  *)
LEMMA CheckMoves ==
  ASSUME TypeInv, NEW t \in DOMAIN checks, CheckStep(t)
  PROVE  /\ checks[t].pc \in CheckPC \ {"done"} /\ checks[t].uri \in Key
         /\ DOMAIN checks' = DOMAIN checks /\ checks'[t].uri = checks[t].uri
         /\ \A v \in DOMAIN checks : v # t => checks'[v] = checks[v]
         /\ checks[t].pc = "snapshot" =>
              checks'[t].pc = "start" /\ checks'[t].snap = docs[checks[t].uri]
         /\ checks[t].pc = "start" =>
              checks'[t].pc \in IF checks[t].cancelled THEN {"finish"} ELSE {"publish", "parsed"}
         /\ checks[t].pc = "parsed" =>
              checks'[t].pc = IF checks[t].cancelled THEN "finish" ELSE "checked"
         /\ checks[t].pc = "checked" =>
              checks'[t].pc = IF checks[t].cancelled THEN "finish" ELSE "put"
         /\ checks[t].pc = "put" => AnalyzePut(t) /\ checks'[t].pc = "publish"
         /\ checks[t].pc = "publish" => Publish(t) /\ checks'[t].pc = "finish"
         /\ checks[t].pc = "finish" =>
              Finish(t) /\ checks'[t].pc = "done" /\ checks'[t].snap = NoText
         /\ checks[t].pc \notin {"snapshot", "finish"} => checks'[t].snap = checks[t].snap
         /\ checks[t].pc # "finish" =>
              checks'[t].cancelled = checks[t].cancelled /\ UNCHANGED <<cancels, main>>
         /\ checks[t].pc # "put" => cache' = cache
         /\ checks[t].pc # "publish" => UNCHANGED <<shown, checked>>
         /\ UNCHANGED <<sync, revision, docs, pool, timers, exited>>
<1>1. checks[t] \in CheckRecord
  BY DEF TypeInv, PipelineTypeOK
<1>2. checks[t].uri \in Key /\ checks[t].cancelled \in BOOLEAN
  BY <1>1 DEF CheckRecord
<1>3. CASE TakeSnapshot(t)
  BY <1>3, TakeSnapshotFacts DEF TakeSnapshot, CheckPC, debounceVars
<1>4. CASE AnalyzeStart(t)
  <2> DEFINE pc == IF checks[t].cancelled THEN "finish"
                   ELSE IF checks[t].snap \in {NoText} \cup Broken THEN "publish"
                   ELSE "parsed"
  <2>1. pc \in CheckPC /\ CheckGoto(t, pc)
    BY <1>4 DEF AnalyzeStart, CheckPC
  <2>2. pc \in IF checks[t].cancelled THEN {"finish"} ELSE {"publish", "parsed"}
    OBVIOUS
  <2> HIDE DEF pc
  <2> QED  BY <1>2, <1>4, <2>1, <2>2, CheckGotoFacts
           DEF AnalyzeStart, CheckAt, CheckPC, debounceVars
<1>5. CASE AnalyzeParsed(t)
  <2> DEFINE pc == IF checks[t].cancelled THEN "finish" ELSE "checked"
  <2>1. pc \in CheckPC /\ CheckGoto(t, pc)
    BY <1>5 DEF AnalyzeParsed, CheckPC
  <2> QED  BY <1>2, <1>5, <2>1, CheckGotoFacts DEF AnalyzeParsed, CheckAt, CheckPC, debounceVars
<1>6. CASE AnalyzeChecked(t)
  <2> DEFINE pc == IF checks[t].cancelled THEN "finish" ELSE "put"
  <2>1. pc \in CheckPC /\ CheckGoto(t, pc)
    BY <1>6 DEF AnalyzeChecked, CheckPC
  <2> QED  BY <1>2, <1>6, <2>1, CheckGotoFacts DEF AnalyzeChecked, CheckAt, CheckPC, debounceVars
<1>7. CASE AnalyzePut(t)
  <2>1. CheckGoto(t, "publish") /\ "publish" \in CheckPC
    BY <1>7 DEF AnalyzePut, CheckPC
  <2>2. checks[t].pc = "put" /\ UNCHANGED <<debounceVars, sync, revision, docs, main, cancels,
                                            shown, checked, queries, exited>>
    BY <1>7 DEF AnalyzePut, CheckAt
  <2> QED  BY <1>2, <1>7, <2>1, <2>2, CheckGotoFacts DEF CheckPC, debounceVars
<1>8. CASE Publish(t)
  <2>1. CheckGoto(t, "finish") /\ "finish" \in CheckPC
    BY <1>8 DEF Publish, CheckPC
  <2>2. checks[t].pc = "publish" /\ UNCHANGED <<debounceVars, sync, revision, docs, cache, main,
                                                cancels, queries, exited>>
    BY <1>8 DEF Publish, CheckAt
  <2> QED  BY <1>2, <1>8, <2>1, <2>2, CheckGotoFacts DEF CheckPC, debounceVars
<1>9. CASE Finish(t)
  <2>1. UNCHANGED <<debounceVars, sync, revision, docs, cache, shown, checked, queries, exited>>
    BY <1>9 DEF Finish
  <2> QED  BY <1>9, <2>1, FinishFacts DEF CheckPC, debounceVars
<1> QED  BY <1>3, <1>4, <1>5, <1>6, <1>7, <1>8, <1>9 DEF CheckStep

(* Without a registration, a cancellation or a step of a check, the checks *)
(* and the entries stay as they are.                                       *)
LEMMA ChecksStay ==
  ASSUME [PipelineNext]_vars,
         ~ \E u \in Key : CloseCancel(u), ~ ScheduleCancel, ~ ScheduleInline,
         ~ \E i \in DOMAIN pool : TimerRunsCheck(i),
         ~ \E t \in DOMAIN checks : CheckStep(t)
  PROVE  UNCHANGED <<checks, cancels>>
<1>1. CASE ClientMessage
  BY <1>1 DEF ClientMessage, Edit, QueryCache, Shutdown
<1>2. CASE MainStep
  BY <1>2 DEF MainStep, ScheduleTrigger, CloseRemove, CloseClear, QueryAnalyze, QueryReply
<1>3. CASE \E i \in DOMAIN pool : RuntimeStep(i)
  BY <1>3 DEF RuntimeStep, TimerExpires, TimerUnmaps, pipelineVars
<1>4. CASE UNCHANGED vars
  BY <1>4 DEF vars, pipelineVars
<1> QED  BY <1>1, <1>2, <1>3, <1>4 DEF PipelineNext

(* An entry belongs to a check of its document that has not returned: only *)
(* the check itself deletes it at its end, and only a check of the same    *)
(* document replaces it.                                                   *)
LEMMA OwnerAliveNext ==
  ASSUME TypeInv, OwnerAlive, [PipelineNext]_vars
  PROVE  OwnerAlive'
<1>1. cancels \in [Key -> 0 .. Len(checks)] /\ DOMAIN checks = 1 .. Len(checks)
  BY DEF TypeInv, PipelineTypeOK
<1>2. \A u \in Key : cancels[u] # None => cancels[u] \in DOMAIN checks
  BY <1>1 DEF None
<1>3. ASSUME NEW u \in Key, CancelRegistered(u),
             cancels' = cancels \/ cancels' = [cancels EXCEPT ![u] = None]
      PROVE  OwnerAlive'
  <2>1. \A v \in DOMAIN checks : checks'[v].pc = checks[v].pc /\ checks'[v].uri = checks[v].uri
    BY <1>3, CancelFacts
  <2>2. \A x \in Key : cancels'[x] # None => cancels'[x] = cancels[x]
    BY <1>1, <1>3
  <2> QED  BY <1>2, <2>1, <2>2 DEF OwnerAlive
<1>4. ASSUME NEW u \in Key, Register(u) PROVE OwnerAlive'
  <2>1. /\ checks'[Len(checks) + 1].uri = u /\ checks'[Len(checks) + 1].pc = "snapshot"
        /\ \A v \in DOMAIN checks : checks'[v] = checks[v]
        /\ cancels'[u] = Len(checks) + 1
        /\ \A x \in Key : x # u => cancels'[x] = cancels[x]
    BY <1>4, RegisterFacts
  <2> QED  BY <1>2, <2>1 DEF OwnerAlive
<1>5. ASSUME NEW t \in DOMAIN checks, CheckStep(t) PROVE OwnerAlive'
  <2>1. CASE checks[t].pc = "finish"
    <3>1. /\ cancels' = [cancels EXCEPT ![checks[t].uri] = IF @ = t THEN None ELSE @]
          /\ checks[t].uri \in Key
          /\ \A v \in DOMAIN checks : v # t => checks'[v] = checks[v]
      BY <1>5, <2>1, CheckMoves DEF Finish
    <3>2. \A x \in Key : cancels'[x] # None => cancels'[x] = cancels[x] /\ cancels[x] # t
      BY <1>1, <1>2, <3>1 DEF OwnerAlive
    <3> QED  BY <1>2, <3>1, <3>2 DEF OwnerAlive
  <2>2. CASE checks[t].pc # "finish"
    <3>1. /\ cancels' = cancels /\ checks'[t].uri = checks[t].uri /\ checks'[t].pc # "done"
          /\ \A v \in DOMAIN checks : v # t => checks'[v] = checks[v]
      BY <1>5, <2>2, CheckMoves DEF CheckPC
    <3> QED  BY <1>2, <3>1 DEF OwnerAlive
  <2> QED  BY <2>1, <2>2
<1>6. \A u \in Key : ~CloseCancel(u) \/ OwnerAlive'
  BY <1>3 DEF CloseCancel
<1>7. ScheduleCancel \/ ScheduleInline => main.uri \in Key
  BY DEF ScheduleCancel, ScheduleInline, TypeInv, MainFits, MainAt
<1>8. CASE ScheduleCancel
  BY <1>3, <1>7, <1>8 DEF ScheduleCancel
<1>9. CASE ScheduleInline
  BY <1>4, <1>7, <1>9 DEF ScheduleInline
<1>10. ASSUME NEW i \in DOMAIN pool, TimerRunsCheck(i) PROVE OwnerAlive'
  BY <1>4, <1>10, PoolKeys DEF TimerRunsCheck
<1>11. CASE UNCHANGED <<checks, cancels>>
  BY <1>11 DEF OwnerAlive
<1> QED  BY <1>5, <1>6, <1>8, <1>9, <1>10, <1>11, ChecksStay

(* Only an edit and the close of a document change the texts.              *)
LEMMA DocsStay ==
  ASSUME [PipelineNext]_vars, ~ \E u \in Key : Edit(u), ~ CloseRemove
  PROVE  UNCHANGED <<docs, revision>>
<1>1. CASE ClientMessage
  BY <1>1 DEF ClientMessage, CloseCancel, QueryCache, Shutdown
<1>2. CASE MainStep
  BY <1>2 DEF MainStep, ScheduleCancel, ScheduleTrigger, ScheduleInline, CloseClear,
              QueryAnalyze, QueryReply
<1>3. CASE \E i \in DOMAIN pool : RuntimeStep(i)
  BY <1>3 DEF RuntimeStep, TimerExpires, TimerUnmaps, TimerRunsCheck, pipelineVars
<1>4. CASE \E t \in DOMAIN checks : CheckStep(t)
  BY <1>4 DEF CheckStep, TakeSnapshot, AnalyzeStart, AnalyzeParsed, AnalyzeChecked, AnalyzePut,
              Publish, Finish
<1>5. CASE UNCHANGED vars
  BY <1>5 DEF vars, pipelineVars
<1> QED  BY <1>1, <1>2, <1>3, <1>4, <1>5 DEF PipelineNext

(* Only a check publishes the diagnostics of a text.                       *)
LEMMA CheckedStays ==
  ASSUME [PipelineNext]_vars, \A t \in DOMAIN checks : ~CheckStep(t)
  PROVE  UNCHANGED checked
<1>1. CASE ClientMessage
  BY <1>1 DEF ClientMessage, Edit, CloseCancel, QueryCache, Shutdown
<1>2. CASE MainStep
  BY <1>2 DEF MainStep, ScheduleCancel, ScheduleTrigger, ScheduleInline, CloseRemove, CloseClear,
              QueryAnalyze, QueryReply
<1>3. CASE \E i \in DOMAIN pool : RuntimeStep(i)
  BY <1>3 DEF RuntimeStep, TimerExpires, TimerUnmaps, TimerRunsCheck, pipelineVars
<1>4. CASE UNCHANGED vars
  BY <1>4 DEF vars, pipelineVars
<1> QED  BY <1>1, <1>2, <1>3, <1>4 DEF PipelineNext

(* Only scheduleCheck leaves the step of its cancellation.                 *)
LEMMA CancelStays ==
  ASSUME TypeInv, [PipelineNext]_vars, MainAt("cancel"), ~ ScheduleCancel
  PROVE  main' = main
<1>1. CASE ClientMessage
  BY <1>1 DEF ClientMessage, Edit, CloseCancel, QueryCache, Shutdown, MainAt
<1>2. CASE MainStep
  BY <1>2 DEF MainStep, ScheduleTrigger, ScheduleInline, CloseRemove, CloseClear, QueryAnalyze,
              QueryReply, MainAt
<1>3. CASE \E i \in DOMAIN pool : RuntimeStep(i)
  BY <1>3 DEF RuntimeStep, TimerExpires, TimerUnmaps, TimerRunsCheck, pipelineVars
<1>4. ASSUME NEW t \in DOMAIN checks, CheckStep(t) PROVE main' = main
  BY <1>4 DEF CheckStep, TakeSnapshot, AnalyzeStart, AnalyzeParsed, AnalyzeChecked, AnalyzePut,
              Publish, Finish, MainAt
<1>5. CASE UNCHANGED vars
  BY <1>5 DEF vars, pipelineVars
<1> QED  BY <1>1, <1>2, <1>3, <1>4, <1>5 DEF PipelineNext

(* The registered check works on the current text, or knows it must stop:  *)
(* an edit is followed by the cancellation before anything else of main.   *)
LEMMA OwnerCurrentNext ==
  ASSUME TypeInv, OwnerAlive, OwnerCurrent, [PipelineNext]_vars
  PROVE  OwnerCurrent'
<1> DEFINE Ok(c, u) == c.cancelled \/ c.pc = "snapshot" \/ c.snap = docs[u]
           Exempt(u) == MainAt("cancel") /\ main.uri = u
<1>1. /\ cancels \in [Key -> 0 .. Len(checks)] /\ DOMAIN checks = 1 .. Len(checks)
      /\ \A u \in Key : cancels[u] # None => cancels[u] \in DOMAIN checks
      /\ docs \in [Key -> Text \cup {NoText}]
  BY DEF TypeInv, PipelineTypeOK, None
<1>2. \A u \in Key : cancels[u] # None /\ docs[u] # NoText /\ ~Exempt(u) => Ok(checks[cancels[u]], u)
  BY DEF OwnerCurrent
<1>3. ASSUME NEW u \in Key, Edit(u) PROVE OwnerCurrent'
  <2>1. /\ checks' = checks /\ cancels' = cancels /\ main'.uri = u /\ main'.pc = "cancel"
        /\ \A x \in Key : x # u => docs'[x] = docs[x] /\ ~Exempt(x)
    BY <1>1, <1>3 DEF Edit, UpdateDocument, SetDocument, Goto, MainAt
  <2> QED  BY <1>2, <2>1 DEF OwnerCurrent, MainAt
<1>4. CASE CloseRemove
  <2>1. /\ checks' = checks /\ cancels' = cancels
        /\ \A x \in Key : (docs'[x] = docs[x] \/ docs'[x] = NoText) /\ ~Exempt(x)
    BY <1>1, <1>4 DEF CloseRemove, DeleteDocument, MainAt
  <2> QED  BY <1>2, <2>1 DEF OwnerCurrent
<1>5. ASSUME NEW u \in Key, CancelRegistered(u),
             \A x \in Key : cancels'[x] # None => cancels'[x] = cancels[x],
             \A x \in Key : Exempt(x) => x = u, docs' = docs
      PROVE  OwnerCurrent'
  <2>1. \A v \in DOMAIN checks :
          /\ checks'[v].pc = checks[v].pc /\ checks'[v].snap = checks[v].snap
          /\ v = cancels[u] => checks'[v].cancelled
          /\ v # cancels[u] => checks'[v] = checks[v]
    BY <1>5, CancelFacts
  <2> QED  BY <1>1, <1>2, <1>5, <2>1 DEF OwnerCurrent
<1>6. ASSUME NEW u \in Key, Register(u), docs' = docs, \A x \in Key : Exempt(x) => Exempt(x)'
      PROVE  OwnerCurrent'
  <2>1. /\ checks'[Len(checks) + 1].pc = "snapshot"
        /\ \A v \in DOMAIN checks : checks'[v] = checks[v]
        /\ cancels'[u] = Len(checks) + 1
        /\ \A x \in Key : x # u => cancels'[x] = cancels[x]
    BY <1>6, RegisterFacts
  <2> QED  BY <1>1, <1>2, <1>6, <2>1 DEF OwnerCurrent
<1>7. ASSUME NEW t \in DOMAIN checks, CheckStep(t) PROVE OwnerCurrent'
  <2>1. CASE checks[t].pc = "finish"
    <3>1. /\ cancels' = [cancels EXCEPT ![checks[t].uri] = IF @ = t THEN None ELSE @]
          /\ checks[t].uri \in Key /\ docs' = docs
          /\ \A v \in DOMAIN checks : v # t => checks'[v] = checks[v]
          /\ main' = IF MainAt("inline") THEN Idle ELSE main
      BY <1>7, <2>1, CheckMoves DEF Finish
    <3>2. \A x \in Key : cancels'[x] # None => cancels'[x] = cancels[x] /\ cancels[x] # t
      BY <1>1, <3>1 DEF OwnerAlive
    <3>3. \A x \in Key : Exempt(x) => Exempt(x)'
      BY <3>1 DEF MainAt
    <3> QED  BY <1>1, <1>2, <3>1, <3>2, <3>3 DEF OwnerCurrent
  <2>2. CASE checks[t].pc # "finish"
    <3>1. /\ cancels' = cancels /\ main' = main /\ docs' = docs
          /\ checks'[t].cancelled = checks[t].cancelled
          /\ checks[t].pc = "snapshot" => checks'[t].snap = docs[checks[t].uri]
          /\ checks[t].pc # "snapshot" => checks'[t].snap = checks[t].snap
          /\ \A v \in DOMAIN checks : v # t => checks'[v] = checks[v]
      BY <1>7, <2>2, CheckMoves
    <3> QED  BY <1>1, <1>2, <3>1 DEF OwnerCurrent, OwnerAlive, MainAt
  <2> QED  BY <2>1, <2>2
<1>8. ASSUME NEW u \in Key, CloseCancel(u) PROVE OwnerCurrent'
  BY <1>1, <1>5, <1>8 DEF CloseCancel, MainAt
<1>9. ScheduleCancel \/ ScheduleInline => main.uri \in Key
  BY DEF ScheduleCancel, ScheduleInline, TypeInv, MainFits, MainAt
<1>10. CASE ScheduleCancel
  BY <1>5, <1>9, <1>10 DEF ScheduleCancel, MainAt
<1>11. CASE ScheduleInline
  BY <1>6, <1>9, <1>11 DEF ScheduleInline, MainAt
<1>12. ASSUME NEW i \in DOMAIN pool, TimerRunsCheck(i) PROVE OwnerCurrent'
  BY <1>6, <1>12, PoolKeys DEF TimerRunsCheck, MainAt
<1>13. CASE UNCHANGED <<checks, cancels, docs>> /\ \A x \in Key : Exempt(x) => Exempt(x)'
  BY <1>2, <1>13 DEF OwnerCurrent
<1>14. ~ScheduleCancel => \A x \in Key : Exempt(x) => Exempt(x)'
  BY CancelStays DEF MainAt
<1> HIDE DEF Exempt
<1> QED  BY <1>3, <1>4, <1>7, <1>8, <1>10, <1>11, <1>12, <1>13, <1>14, ChecksStay, DocsStay

(* Texts only grow.                                                        *)
LEMMA TextsGrowNext ==
  ASSUME TypeInv, TextsGrow, [PipelineNext]_vars
  PROVE  TextsGrow'
<1>1. /\ revision \in Nat /\ docs \in [Key -> Nat] /\ checked \in [Key -> Nat]
      /\ \A u \in Key : docs[u] \in Nat /\ checked[u] \in Nat
      /\ DOMAIN checks = 1 .. Len(checks)
      /\ \A t \in DOMAIN checks : checks[t] \in CheckRecord
  <2>1. Text \subseteq Nat /\ Text \cup {NoText} \subseteq Nat
    BY PipelineAssumption DEF Text, NoText
  <2>2. /\ revision \in Nat /\ docs \in [Key -> Text \cup {NoText}]
        /\ checked \in [Key -> Text \cup {NoText}]
    BY PipelineAssumption DEF TypeInv, PipelineTypeOK, Text, NoText
  <2>3. checks \in Seq(CheckRecord)
    BY DEF TypeInv, PipelineTypeOK
  <2> QED  BY <2>1, <2>2, <2>3
<1>2. \A t \in DOMAIN checks : checks[t].snap \in Nat /\ checks[t].uri \in Key
  BY <1>1, PipelineAssumption DEF CheckRecord, Text, NoText
<1>3. ASSUME NEW u \in Key, Edit(u) PROVE TextsGrow'
  <2>1. /\ checks' = checks /\ checked' = checked /\ revision' = revision + 1
        /\ docs'[u] = revision + 1 /\ \A x \in Key : x # u => docs'[x] = docs[x]
    BY <1>1, <1>3 DEF Edit, UpdateDocument, SetDocument
  <2>2. \A x \in Key : docs'[x] <= revision' /\ checked'[x] <= revision'
    BY <1>1, <1>2, <2>1 DEF TextsGrow
  <2>3. ASSUME NEW v \in DOMAIN checks' PROVE checks'[v].snap <= revision'
    BY <1>1, <1>2, <2>1 DEF TextsGrow
  <2>4. ASSUME NEW x \in Key, docs'[x] # NoText PROVE checked'[x] <= docs'[x]
    BY <1>1, <1>2, <2>1, <2>4 DEF TextsGrow
  <2>5. ASSUME NEW x \in Key, docs'[x] # NoText, NEW v \in DOMAIN checks', checks'[v].uri = x
        PROVE  checks'[v].snap <= docs'[x]
    BY <1>1, <1>2, <2>1, <2>5 DEF TextsGrow
  <2> QED  BY <2>2, <2>3, <2>4, <2>5 DEF TextsGrow
<1>4. CASE CloseRemove
  <2>1. /\ checks' = checks /\ checked' = checked /\ revision' = revision + 1
        /\ \A x \in Key : docs'[x] = docs[x] \/ docs'[x] = NoText
    BY <1>1, <1>4 DEF CloseRemove, DeleteDocument
  <2> QED  BY <1>1, <1>2, <2>1 DEF TextsGrow, NoText
<1>5. ASSUME NEW u \in Key, CancelRegistered(u), UNCHANGED <<docs, revision, checked>>
      PROVE  TextsGrow'
  <2>1. /\ DOMAIN checks' = DOMAIN checks
        /\ \A v \in DOMAIN checks : checks'[v].uri = checks[v].uri /\ checks'[v].snap = checks[v].snap
    BY <1>5, CancelFacts
  <2> QED  BY <1>5, <2>1 DEF TextsGrow
<1>6. ASSUME NEW u \in Key, Register(u), UNCHANGED <<docs, revision, checked>>
      PROVE  TextsGrow'
  <2>1. /\ Len(checks) \in Nat /\ DOMAIN checks' = 1 .. Len(checks) + 1
        /\ checks'[Len(checks) + 1].snap = 0
        /\ \A v \in DOMAIN checks : checks'[v] = checks[v]
    BY <1>6, RegisterFacts DEF NoText
  <2>2. \A v \in DOMAIN checks' : v \in DOMAIN checks \/ v = Len(checks) + 1
    BY <1>1, <2>1
  <2>3. \A x \in Key : docs'[x] <= revision' /\ checked'[x] <= revision'
    BY <1>1, <1>6, <2>1, <2>2 DEF TextsGrow
  <2>4. ASSUME NEW v \in DOMAIN checks' PROVE checks'[v].snap <= revision'
    BY <1>1, <1>6, <2>1, <2>2 DEF TextsGrow
  <2>5. ASSUME NEW x \in Key, docs'[x] # NoText PROVE checked'[x] <= docs'[x]
    BY <1>1, <1>6, <2>1, <2>2, <2>5 DEF TextsGrow
  <2>6. ASSUME NEW x \in Key, docs'[x] # NoText, NEW v \in DOMAIN checks', checks'[v].uri = x
        PROVE  checks'[v].snap <= docs'[x]
    BY <1>1, <1>6, <2>1, <2>2, <2>6 DEF TextsGrow
  <2> QED  BY <2>3, <2>4, <2>5, <2>6 DEF TextsGrow
<1>7. ASSUME NEW t \in DOMAIN checks, CheckStep(t) PROVE TextsGrow'
  <2>1. /\ DOMAIN checks' = DOMAIN checks /\ checks'[t].uri = checks[t].uri
        /\ \A v \in DOMAIN checks : v # t => checks'[v] = checks[v]
        /\ docs' = docs /\ revision' = revision
        /\ \/ checks'[t].snap = docs[checks[t].uri]
           \/ checks'[t].snap = checks[t].snap
           \/ checks'[t].snap = 0
    BY <1>7, CheckMoves DEF NoText
  <2>2. \A u \in Key : checked'[u] = checked[u] \/ (u = checks[t].uri /\ checked'[u] = checks[t].snap)
    <3>1. CASE checks[t].pc = "publish"
      BY <1>1, <1>2, <1>7, <3>1, CheckMoves DEF Publish
    <3>2. CASE checks[t].pc # "publish"
      BY <1>7, <3>2, CheckMoves
    <3> QED  BY <3>1, <3>2
  <2>3. \A x \in Key : docs'[x] <= revision' /\ checked'[x] <= revision'
    BY <1>1, <1>2, <2>1, <2>2 DEF TextsGrow
  <2>4. ASSUME NEW v \in DOMAIN checks' PROVE checks'[v].snap <= revision'
    BY <1>1, <1>2, <2>1, <2>2, SMTT(20) DEF TextsGrow
  <2>5. ASSUME NEW x \in Key, docs'[x] # NoText PROVE checked'[x] <= docs'[x]
    BY <1>1, <1>2, <2>1, <2>2, <2>5 DEF TextsGrow
  <2>6. ASSUME NEW x \in Key, docs'[x] # NoText, NEW v \in DOMAIN checks', checks'[v].uri = x
        PROVE  checks'[v].snap <= docs'[x]
    BY <1>1, <1>2, <2>1, <2>2, <2>6 DEF TextsGrow
  <2> QED  BY <2>3, <2>4, <2>5, <2>6 DEF TextsGrow
<1>8. ASSUME NEW u \in Key, CloseCancel(u) PROVE TextsGrow'
  BY <1>5, <1>8 DEF CloseCancel
<1>9. ScheduleCancel \/ ScheduleInline => main.uri \in Key
  BY DEF ScheduleCancel, ScheduleInline, TypeInv, MainFits, MainAt
<1>10. CASE ScheduleCancel
  BY <1>5, <1>9, <1>10 DEF ScheduleCancel
<1>11. CASE ScheduleInline
  BY <1>6, <1>9, <1>11 DEF ScheduleInline
<1>12. ASSUME NEW i \in DOMAIN pool, TimerRunsCheck(i) PROVE TextsGrow'
  BY <1>6, <1>12, PoolKeys DEF TimerRunsCheck
<1>13. (\A t \in DOMAIN checks : ~CheckStep(t)) => checked' = checked
  BY CheckedStays
<1>14. CASE UNCHANGED <<checks, docs, revision, checked>>
  BY <1>14 DEF TextsGrow
<1> QED  BY <1>3, <1>4, <1>7, <1>8, <1>10, <1>11, <1>12, <1>13, <1>14, ChecksStay, DocsStay

(* A document that nobody edits or publishes keeps those who work on it.   *)
Unpublished(u) == docs[u] # NoText /\ checked[u] # docs[u]
WorkedOn(u) == MainWorksOn(u) \/ TimerWorksOn(u) \/ CheckWorksOn(u)

(* A cancellation for document u leaves the checks of the others at work.  *)
LEMMA CancelKeepsOthers ==
  ASSUME TypeInv, OwnerAlive, NEW u \in Key, CancelRegistered(u), docs' = docs,
         NEW x \in Key, x # u, CheckWorksOn(x)
  PROVE  CheckWorksOn(x)'
<1>1. PICK t \in DOMAIN checks : WillPublish(checks[t], x, docs[x])
  BY DEF CheckWorksOn
<1>2. cancels[u] # None => checks[cancels[u]].uri = u
  BY DEF OwnerAlive
<1>3. t # cancels[u]
  BY <1>1, <1>2 DEF WillPublish, None, TypeInv, PipelineTypeOK
<1>4. DOMAIN checks' = DOMAIN checks /\ checks'[t] = checks[t]
  BY <1>3, CancelFacts
<1> QED  BY <1>1, <1>4 DEF CheckWorksOn

(* A new check of document u works on it; the others go on.                *)
LEMMA RegisterWorks ==
  ASSUME TypeInv, NEW u \in Key, Register(u), docs' = docs
  PROVE  \A x \in Key : x = u \/ CheckWorksOn(x) => CheckWorksOn(x)'
<1>1. /\ DOMAIN checks = 1 .. Len(checks) /\ Len(checks) \in Nat
      /\ DOMAIN checks' = 1 .. Len(checks) + 1
      /\ checks'[Len(checks) + 1].uri = u /\ ~checks'[Len(checks) + 1].cancelled
      /\ checks'[Len(checks) + 1].pc = "snapshot"
      /\ \A v \in DOMAIN checks : checks'[v] = checks[v]
  BY RegisterFacts
<1>2. Len(checks) + 1 \in DOMAIN checks' /\ DOMAIN checks \subseteq DOMAIN checks'
  BY <1>1
<1>3. CheckWorksOn(u)'
  BY <1>1, <1>2 DEF CheckWorksOn, WillPublish
<1>4. ASSUME NEW x \in Key, CheckWorksOn(x) PROVE CheckWorksOn(x)'
  BY <1>1, <1>2, <1>4 DEF CheckWorksOn
<1> QED  BY <1>3, <1>4

(* A step of a timer keeps its document worked on, up to the check it runs.*)
LEMMA TimerWorks ==
  ASSUME TypeInv, NEW i \in DOMAIN pool, NEW s \in TimerState, pool' = Advance(pool, i, s),
         NEW x \in Key, TimerWorksOn(x), s \in {"fired", "ready"} \/ x # pool[i].key
  PROVE  TimerWorksOn(x)'
<1>1. PICK j \in DOMAIN pool : pool[j].key = x /\ pool[j].state \in {"pending", "fired", "ready"}
  BY DEF TimerWorksOn
<1>2. pool \in Seq(TimerRecord)
  BY DEF TypeInv, PipelineTypeOK, DebounceTypeOK
<1>3. /\ DOMAIN pool' = DOMAIN pool /\ pool'[i].key = pool[i].key /\ pool'[i].state = s
      /\ \A v \in DOMAIN pool : v # i => pool'[v] = pool[v]
  BY <1>2, AdvanceFacts
<1> QED  BY <1>1, <1>3 DEF TimerWorksOn

(* Trigger arms a timer of its document, and stops none of another.        *)
LEMMA TriggerWorks ==
  ASSUME TypeInv, MapHoldsLatest, NEW u \in Key, Trigger(u)
  PROVE  \A x \in Key : x = u \/ TimerWorksOn(x) => TimerWorksOn(x)'
<1> DEFINE old == StopTimers(pool, {timers[u]})
           r == [key |-> u, state |-> "pending"]
<1>1. /\ pool \in Seq(TimerRecord) /\ DOMAIN pool = 1 .. Len(pool) /\ Len(pool) \in Nat
      /\ timers[u] \in 0 .. Len(pool)
  BY DEF TypeInv, PipelineTypeOK, DebounceTypeOK
<1>2. /\ old \in Seq(TimerRecord) /\ Len(old) = Len(pool)
      /\ \A i \in DOMAIN pool : i # timers[u] => old[i] = pool[i]
  BY <1>1, StopTimersFacts
<1>3. r \in TimerRecord /\ r.key = u /\ r.state = "pending"
  BY DEF TimerRecord, TimerState
<1>4. pool' = Append(old, r)
  BY DEF Trigger
<1> HIDE DEF old, r
<1>5. /\ DOMAIN pool' = 1 .. Len(pool) + 1 /\ pool'[Len(pool) + 1] = r
      /\ \A i \in DOMAIN pool : pool'[i] = old[i]
  BY <1>1, <1>2, <1>3, <1>4
<1>6. TimerWorksOn(u)'
  BY <1>1, <1>3, <1>5 DEF TimerWorksOn
<1>7. ASSUME NEW x \in Key, x # u, TimerWorksOn(x) PROVE TimerWorksOn(x)'
  <2>1. PICK j \in DOMAIN pool : pool[j].key = x /\ pool[j].state \in {"pending", "fired", "ready"}
    BY <1>7 DEF TimerWorksOn
  <2>2. j # timers[u]
    BY <1>1, <1>7, <2>1 DEF MapHoldsLatest, None
  <2>3. j \in DOMAIN pool' /\ pool'[j] = pool[j]
    BY <1>1, <1>2, <1>5, <2>2
  <2> QED  BY <2>1, <2>3 DEF TimerWorksOn
<1> QED  BY <1>6, <1>7

(* A check that will publish a text goes on until it has published it.     *)
LEMMA CheckWorks ==
  ASSUME TypeInv, TextsGrow, NEW t \in DOMAIN checks, CheckStep(t), NEW x \in Key,
         Unpublished(x)', CheckWorksOn(x)
  PROVE  CheckWorksOn(x)'
<1>1. PICK v \in DOMAIN checks : WillPublish(checks[v], x, docs[x])
  BY DEF CheckWorksOn
<1>2. docs' = docs /\ DOMAIN checks' = DOMAIN checks
  BY CheckMoves
<1>3. CASE v # t
  BY <1>1, <1>2, <1>3, CheckMoves DEF CheckWorksOn
<1>4. CASE v = t
  <2>1. checks[t].pc # "finish" /\ checks[t].uri = x
    BY <1>1, <1>4 DEF WillPublish
  <2>2. CASE checks[t].pc = "publish"
    <3>1. checks[t].snap = docs[x]
      BY <1>1, <1>4, <2>2 DEF WillPublish
    <3>2. docs[x] \in Nat /\ checked[x] \in Nat /\ docs[x] # NoText
      BY <1>2, PipelineAssumption DEF Unpublished, TypeInv, PipelineTypeOK, Text, NoText
    <3>3. checked'[x] = docs[x]
      <4>1. checked[x] <= docs[x]
        BY <3>2 DEF TextsGrow
      <4>2. checked'[x] = IF checks[t].snap > checked[x] THEN checks[t].snap ELSE checked[x]
        BY <2>1, <2>2, CheckMoves DEF Publish, TypeInv, PipelineTypeOK
      <4> QED  BY <3>1, <3>2, <4>1, <4>2
    <3> QED  BY <1>2, <3>3 DEF Unpublished
  <2>3. CASE checks[t].pc # "publish"
    <3>1. WillPublish(checks'[t], x, docs[x])
      BY <1>1, <1>4, <2>1, <2>3, CheckMoves DEF WillPublish
    <3> QED  BY <1>2, <3>1 DEF CheckWorksOn
  <2> QED  BY <2>2, <2>3
<1> QED  BY <1>3, <1>4

(* Somebody is at work on every text that was not published: no text is    *)
(* lost between the handlers, the timers and the checks.                   *)
LEMMA EditsWorkedOnNext ==
  ASSUME DebounceInv, TypeInv, OwnerAlive, TextsGrow, EditsWorkedOn, [PipelineNext]_vars
  PROVE  EditsWorkedOn'
<1> SUFFICES ASSUME ~exited', NEW x \in Key, Unpublished(x)'
             PROVE  WorkedOn(x)'
  BY DEF EditsWorkedOn, Unpublished, WorkedOn
<1>1. docs \in [Key -> Text \cup {NoText}]
  BY DEF TypeInv, PipelineTypeOK
<1>2. ~exited /\ Unpublished(x) => WorkedOn(x)
  BY DEF EditsWorkedOn, Unpublished, WorkedOn
<1>3. ASSUME NEW u \in Key, Edit(u) PROVE WorkedOn(x)'
  <2>1. /\ UNCHANGED <<checks, pool, checked, exited>> /\ MainAt("idle")
        /\ x # u => docs'[x] = docs[x]
        /\ main'.uri = u /\ main'.pc = "cancel"
    BY <1>1, <1>3 DEF Edit, UpdateDocument, SetDocument, Goto, debounceVars
  <2>2. CASE x = u
    BY <2>1, <2>2 DEF WorkedOn, MainWorksOn
  <2>3. CASE x # u
    BY <1>2, <2>1, <2>3
       DEF WorkedOn, Unpublished, MainWorksOn, TimerWorksOn, CheckWorksOn, MainAt
  <2> QED  BY <2>2, <2>3
<1>4. ASSUME NEW u \in Key, CloseCancel(u) PROVE WorkedOn(x)'
  <2>1. /\ UNCHANGED <<docs, pool, checked, exited>> /\ MainAt("idle")
        /\ CancelRegistered(u) /\ main'.uri = u /\ main'.pc = "remove"
    BY <1>4 DEF CloseCancel, Goto, debounceVars
  <2>2. CASE x = u
    BY <2>1, <2>2 DEF WorkedOn, MainWorksOn
  <2>3. CASE x # u
    <3>1. TimerWorksOn(x) \/ CheckWorksOn(x)
      BY <1>2, <2>1 DEF WorkedOn, Unpublished, MainWorksOn, MainAt
    <3>2. TimerWorksOn(x) => TimerWorksOn(x)'
      BY <2>1 DEF TimerWorksOn
    <3> QED  BY <2>1, <2>3, <3>1, <3>2, CancelKeepsOthers DEF WorkedOn
  <2> QED  BY <2>2, <2>3
<1>5. CASE ScheduleCancel
  <2>1. /\ UNCHANGED <<docs, pool, checked, exited>> /\ MainAt("cancel")
        /\ CancelRegistered(main.uri) /\ main'.uri = main.uri /\ main'.pc = "schedule"
        /\ main.uri \in Key
    BY <1>5 DEF ScheduleCancel, Goto, debounceVars, TypeInv, MainFits, MainAt
  <2>2. CASE x = main.uri
    BY <2>1, <2>2 DEF WorkedOn, MainWorksOn
  <2>3. CASE x # main.uri
    <3>1. TimerWorksOn(x) \/ CheckWorksOn(x)
      BY <1>2, <2>1, <2>3 DEF WorkedOn, Unpublished, MainWorksOn
    <3>2. TimerWorksOn(x) => TimerWorksOn(x)'
      BY <2>1 DEF TimerWorksOn
    <3> QED  BY <2>1, <2>3, <3>1, <3>2, CancelKeepsOthers DEF WorkedOn
  <2> QED  BY <2>2, <2>3
<1>6. CASE ScheduleTrigger
  <2>1. /\ UNCHANGED <<docs, checks, checked, exited>> /\ Trigger(main.uri)
        /\ main.uri \in Key
    BY <1>6 DEF ScheduleTrigger, TypeInv, MainFits, MainAt
  <2>2. x = main.uri \/ TimerWorksOn(x) => TimerWorksOn(x)'
    BY <2>1, TriggerWorks DEF DebounceInv
  <2>3. x = main.uri \/ TimerWorksOn(x) \/ CheckWorksOn(x)
    BY <1>2, <2>1 DEF WorkedOn, Unpublished, MainWorksOn
  <2>4. CheckWorksOn(x) => CheckWorksOn(x)'
    BY <2>1 DEF CheckWorksOn
  <2> QED  BY <2>2, <2>3, <2>4 DEF WorkedOn
<1>7. CASE ScheduleInline
  <2>1. /\ UNCHANGED <<docs, pool, checked, exited>> /\ Register(main.uri)
        /\ main.uri \in Key
    BY <1>7 DEF ScheduleInline, debounceVars, TypeInv, MainFits, MainAt
  <2>2. x = main.uri \/ TimerWorksOn(x) \/ CheckWorksOn(x)
    BY <1>2, <2>1 DEF WorkedOn, Unpublished, MainWorksOn
  <2>3. TimerWorksOn(x) => TimerWorksOn(x)'
    BY <2>1 DEF TimerWorksOn
  <2>4. x = main.uri \/ CheckWorksOn(x) => CheckWorksOn(x)'
    BY <2>1, RegisterWorks
  <2> QED  BY <2>2, <2>3, <2>4 DEF WorkedOn
<1>8. CASE CloseRemove
  <2>1. /\ UNCHANGED <<checks, pool, checked, exited>>
        /\ x # main.uri => docs'[x] = docs[x]
        /\ x = main.uri => docs'[x] = NoText
    BY <1>1, <1>8 DEF CloseRemove, DeleteDocument, debounceVars
  <2> QED  BY <1>2, <2>1 DEF WorkedOn, Unpublished, MainWorksOn, TimerWorksOn, CheckWorksOn
<1>9. ASSUME UNCHANGED <<docs, checks, pool, checked, exited>>,
             main.pc \notin {"cancel", "schedule", "remove"} \/ main' = main
      PROVE  WorkedOn(x)'
  BY <1>2, <1>9 DEF WorkedOn, Unpublished, MainWorksOn, TimerWorksOn, CheckWorksOn
<1>10. ASSUME NEW i \in DOMAIN pool, RuntimeStep(i) PROVE WorkedOn(x)'
  <2>1. UNCHANGED <<docs, checked, exited, main>>
    BY <1>10 DEF RuntimeStep, TimerExpires, TimerUnmaps, TimerRunsCheck, pipelineVars
  <2>2. WorkedOn(x)
    BY <1>2, <2>1 DEF Unpublished
  <2>3. MainWorksOn(x) => MainWorksOn(x)'
    BY <2>1 DEF MainWorksOn
  <2>4. CASE TimerRunsCheck(i)
    <3>1. /\ pool' = Advance(pool, i, "ran") /\ Register(pool[i].key) /\ pool[i].key \in Key
          /\ "ran" \in TimerState
      BY <2>4, PoolKeys DEF TimerRunsCheck, CallFn, TimerState
    <3>2. x = pool[i].key \/ CheckWorksOn(x) => CheckWorksOn(x)'
      BY <2>1, <3>1, RegisterWorks
    <3>3. CASE x = pool[i].key
      BY <3>2, <3>3 DEF WorkedOn
    <3>4. CASE x # pool[i].key
      BY <2>2, <2>3, <3>1, <3>2, <3>4, TimerWorks DEF WorkedOn
    <3> QED  BY <3>3, <3>4
  <2>5. CASE TimerExpires(i) \/ TimerUnmaps(i)
    <3>1. \E s \in {"fired", "ready"} : pool' = Advance(pool, i, s)
      BY <2>5 DEF TimerExpires, TimerUnmaps, Expire, Unmap
    <3>2. TimerWorksOn(x) => TimerWorksOn(x)'
      BY <3>1, TimerWorks DEF TimerState
    <3>3. CheckWorksOn(x) => CheckWorksOn(x)'
      BY <2>5 DEF CheckWorksOn, TimerExpires, TimerUnmaps, pipelineVars
    <3> QED  BY <2>2, <2>3, <3>2, <3>3 DEF WorkedOn
  <2> QED  BY <1>10, <2>4, <2>5 DEF RuntimeStep
<1>11. ASSUME NEW t \in DOMAIN checks, CheckStep(t) PROVE WorkedOn(x)'
  <2>1. UNCHANGED <<docs, pool, exited>>
    BY <1>11, CheckMoves
  <2>2. Unpublished(x)
    <3>1. docs[x] \in Nat /\ checked[x] \in Nat /\ docs[x] # NoText
      BY <2>1, PipelineAssumption DEF Unpublished, TypeInv, PipelineTypeOK, Text, NoText
    <3>2. CASE checks[t].pc = "publish" /\ checks[t].uri = x
      <4>1. checked[x] <= docs[x] /\ checks[t].snap <= docs[x]
        BY <3>1, <3>2 DEF TextsGrow
      <4>2. checked'[x] = IF checks[t].snap > checked[x] THEN checks[t].snap ELSE checked[x]
        BY <1>11, <3>2, CheckMoves DEF Publish, TypeInv, PipelineTypeOK
      <4>3. checks[t] \in CheckRecord
        BY DEF TypeInv, PipelineTypeOK
      <4>4. checks[t].snap \in Nat
        BY <4>3, PipelineAssumption DEF CheckRecord, Text, NoText
      <4> QED  BY <2>1, <3>1, <4>1, <4>2, <4>4 DEF Unpublished
    <3>3. CASE ~(checks[t].pc = "publish" /\ checks[t].uri = x)
      <4>1. checked'[x] = checked[x]
        BY <1>11, <3>3, CheckMoves DEF Publish, TypeInv, PipelineTypeOK
      <4> QED  BY <2>1, <4>1 DEF Unpublished
    <3> QED  BY <3>2, <3>3
  <2>3. WorkedOn(x)
    BY <1>2, <2>1, <2>2
  <2>4. CheckWorksOn(x) => CheckWorksOn(x)'
    BY <1>11, CheckWorks
  <2>5. TimerWorksOn(x) => TimerWorksOn(x)'
    BY <2>1 DEF TimerWorksOn
  <2>6. MainWorksOn(x) => MainWorksOn(x)'
    BY <1>11, CheckMoves DEF MainWorksOn, Finish, MainAt
  <2> QED  BY <2>3, <2>4, <2>5, <2>6 DEF WorkedOn
<1>12. CASE ClientMessage
  <2>1. ASSUME NEW u \in Key, QueryCache(u) PROVE WorkedOn(x)'
    BY <1>9, <2>1 DEF QueryCache, MainAt, debounceVars
  <2>2. ~Shutdown
    BY DEF Shutdown
  <2> QED  BY <1>3, <1>4, <1>12, <2>1, <2>2 DEF ClientMessage
<1>13. CASE MainStep
  <2>1. CASE CloseClear \/ QueryAnalyze \/ QueryReply
    BY <1>9, <2>1 DEF CloseClear, QueryAnalyze, QueryReply, MainAt, debounceVars
  <2> QED  BY <1>5, <1>6, <1>7, <1>8, <1>13, <2>1 DEF MainStep
<1>14. CASE UNCHANGED vars
  BY <1>9, <1>14 DEF vars, pipelineVars, debounceVars
<1> QED  BY <1>10, <1>11, <1>12, <1>13, <1>14 DEF PipelineNext

-----------------------------------------------------------------------------
(* The delay is configured once.                                           *)
LEMMA SyncStays ==
  ASSUME [PipelineNext]_vars
  PROVE  sync' = sync
BY DEF PipelineNext, ClientMessage, Edit, CloseCancel, QueryCache, Shutdown, MainStep,
       ScheduleCancel, ScheduleTrigger, ScheduleInline, CloseRemove, CloseClear, QueryAnalyze,
       QueryReply, RuntimeStep, TimerExpires, TimerUnmaps, TimerRunsCheck, CheckStep,
       TakeSnapshot, AnalyzeStart, AnalyzeParsed, AnalyzeChecked, AnalyzePut, Publish, Finish,
       vars, pipelineVars

(* Without a delay main is inside a check or no check is running.          *)
LEMMA SyncAloneNext ==
  ASSUME TypeInv, SyncAlone, [PipelineNext]_vars
  PROVE  SyncAlone'
<1>1. sync' = sync
  BY SyncStays
<1> SUFFICES ASSUME sync PROVE SyncAlone'
  BY <1>1 DEF SyncAlone
<1>2. /\ pool = << >> /\ DOMAIN pool = {}
      /\ docs \in [Key -> Text \cup {NoText}] /\ revision \in Nat
      /\ DOMAIN checks = 1 .. Len(checks) /\ Len(checks) \in Nat
  BY PipelineAssumption DEF SyncAlone, TypeInv, PipelineTypeOK
<1>3. ~MainAt("inline") => \A t \in DOMAIN checks : checks[t].pc = "done"
  BY DEF SyncAlone
<1>4. ASSUME pool' = pool, ~MainAt("inline"), ~MainAt("inline")',
             DOMAIN checks' = DOMAIN checks,
             \A t \in DOMAIN checks : checks'[t].pc = checks[t].pc,
             main'.pc \in {"cancel", "schedule"} => docs'[main'.uri] # NoText
      PROVE  SyncAlone'
  BY <1>2, <1>3, <1>4 DEF SyncAlone, MainAt
<1>5. CASE ClientMessage
  <2>1. ASSUME NEW u \in Key, Edit(u) PROVE SyncAlone'
    <3>1. docs'[u] = revision + 1 /\ main'.uri = u /\ main'.pc = "cancel"
      BY <1>2, <2>1 DEF Edit, UpdateDocument, SetDocument, Goto
    <3>2. docs'[main'.uri] # NoText
      BY <1>2, <3>1 DEF NoText
    <3> QED  BY <1>4, <2>1, <3>1, <3>2 DEF Edit, MainAt, debounceVars
  <2>2. ASSUME NEW u \in Key, CloseCancel(u) PROVE SyncAlone'
    <3>1. /\ DOMAIN checks' = DOMAIN checks
          /\ \A t \in DOMAIN checks : checks'[t].pc = checks[t].pc
      BY <2>2, CancelFacts DEF CloseCancel
    <3> QED  BY <1>4, <2>2, <3>1 DEF CloseCancel, MainAt, Goto, debounceVars
  <2>3. ASSUME NEW u \in Key, QueryCache(u) PROVE SyncAlone'
    <3>1. main'.pc \in {"reply", "analyze"}
      BY <2>3 DEF QueryCache, Goto
    <3> QED  BY <1>4, <2>3, <3>1 DEF QueryCache, MainAt, debounceVars
  <2>4. CASE Shutdown
    BY <1>4, <2>4 DEF Shutdown, MainAt, debounceVars
  <2> QED  BY <1>5, <2>1, <2>2, <2>3, <2>4 DEF ClientMessage
<1>6. CASE MainStep
  <2>1. CASE ScheduleCancel
    <3>1. main.uri \in Key
      BY <2>1 DEF ScheduleCancel, TypeInv, MainFits, MainAt
    <3>2. /\ DOMAIN checks' = DOMAIN checks
          /\ \A t \in DOMAIN checks : checks'[t].pc = checks[t].pc
      BY <2>1, <3>1, CancelFacts DEF ScheduleCancel
    <3>3. main'.uri = main.uri /\ docs'[main.uri] # NoText
      BY <2>1 DEF ScheduleCancel, Goto, SyncAlone, MainAt
    <3> QED  BY <1>4, <2>1, <3>2, <3>3 DEF ScheduleCancel, Goto, MainAt, debounceVars
  <2>2. CASE ScheduleInline
    <3>1. main.uri \in Key /\ Register(main.uri)
      BY <2>2 DEF ScheduleInline, TypeInv, MainFits, MainAt
    <3>2. /\ DOMAIN checks' = 1 .. Len(checks) + 1
          /\ checks'[Len(checks) + 1].uri = main.uri
          /\ checks'[Len(checks) + 1].pc = "snapshot" /\ ~checks'[Len(checks) + 1].cancelled
          /\ \A v \in DOMAIN checks : checks'[v] = checks[v]
      BY <3>1, RegisterFacts
    <3>3. \A t \in DOMAIN checks : checks[t].pc = "done"
      BY <1>3, <2>2 DEF ScheduleInline, MainAt
    <3>4. \A v \in DOMAIN checks' : v # Len(checks) + 1 => checks'[v].pc = "done"
      BY <1>2, <3>2, <3>3
    <3>5. /\ pool' = << >> /\ main'.uri = main.uri /\ main'.pc = "inline"
          /\ docs' = docs /\ docs[main.uri] # NoText
      BY <1>2, <2>2 DEF ScheduleInline, Goto, debounceVars, SyncAlone, MainAt
    <3> QED  BY <3>2, <3>4, <3>5 DEF SyncAlone, MainAt
  <2>3. CASE CloseRemove
    BY <1>4, <2>3 DEF CloseRemove, Goto, MainAt, debounceVars
  <2>4. CASE CloseClear \/ QueryReply
    <3>1. /\ main' = Idle /\ main.pc # "inline"
          /\ UNCHANGED <<checks, pool, docs>>
      BY <2>4 DEF CloseClear, QueryReply, MainAt, debounceVars
    <3>2. main'.pc = "idle"
      BY <3>1 DEF Idle
    <3> QED  BY <1>4, <3>1, <3>2 DEF MainAt
  <2>5. CASE QueryAnalyze
    <3>1. main \in [pc : MainPC, uri : Key \cup {None}, val : Text \cup {NoText}]
      BY DEF TypeInv, PipelineTypeOK
    <3>2. main'.pc = "reply"
      BY <2>5, <3>1 DEF QueryAnalyze
    <3> QED  BY <1>4, <2>5, <3>2 DEF QueryAnalyze, MainAt, debounceVars
  <2> QED  BY <1>6, <2>1, <2>2, <2>3, <2>4, <2>5 DEF MainStep, ScheduleTrigger
<1>7. ASSUME NEW t \in DOMAIN checks, CheckStep(t) PROVE SyncAlone'
  <2>1. /\ MainAt("inline") /\ checks[t].uri = main.uri
        /\ \A v \in DOMAIN checks : v # t => checks[v].pc = "done"
    BY <1>7, CheckMoves DEF SyncAlone
  <2>2. /\ DOMAIN checks' = DOMAIN checks /\ pool' = << >> /\ docs' = docs
        /\ \A v \in DOMAIN checks : v # t => checks'[v].pc = "done"
    BY <1>2, <1>7, <2>1, CheckMoves, ZenonT(30)
  <2>3. CASE checks[t].pc = "finish"
    <3>1. checks'[t].pc = "done" /\ main' = Idle
      BY <1>7, <2>1, <2>3, CheckMoves DEF Finish
    <3> QED  BY <2>2, <3>1 DEF SyncAlone, Idle
  <2>4. CASE checks[t].pc # "finish"
    <3>1. /\ main' = main /\ docs[main.uri] # NoText
          /\ checks'[t].uri = main.uri /\ ~checks'[t].cancelled
          /\ checks'[t].snap = docs[main.uri]
      BY <1>7, <2>1, <2>4, CheckMoves, ZenonT(30) DEF SyncAlone, MainAt, CheckPC
    <3> QED  BY <2>1, <2>2, <3>1 DEF SyncAlone, MainAt
  <2> QED  BY <2>3, <2>4
<1>8. CASE UNCHANGED vars
  BY <1>8 DEF vars, debounceVars, pipelineVars, SyncAlone, MainAt
<1> QED  BY <1>2, <1>5, <1>6, <1>7, <1>8 DEF PipelineNext

(* Without a delay the cached checkers are those of the current texts.     *)
LEMMA SyncCacheNext ==
  ASSUME TypeInv, SyncAlone, SyncCache, [PipelineNext]_vars
  PROVE  SyncCache'
<1>1. sync' = sync
  BY SyncStays
<1> SUFFICES ASSUME sync, NEW x \in Contents(cache'.order) PROVE x.entry = docs'[x.key]
  BY <1>1 DEF SyncCache
<1>2. /\ Coherent(Key, Text, cache) /\ docs \in [Key -> Text \cup {NoText}]
      /\ \A y \in Contents(cache.order) : y.entry = docs[y.key] /\ y.key \in Key
  BY EntryOfContents DEF TypeInv, PipelineTypeOK, SyncCache
<1>3. ASSUME NEW u \in Key, cache' = AfterDelete(cache, u),
             \A k \in Key : k # u => docs'[k] = docs[k]
      PROVE  x.entry = docs'[x.key]
  BY <1>2, <1>3, AfterDeleteContents
<1>4. ASSUME NEW u \in Key, docs[u] \in Text, cache' = AfterPut(cache, u, docs[u]), docs' = docs
      PROVE  x.entry = docs'[x.key]
  <2>1. x \in {y \in Contents(cache.order) : y.key # u} \cup {[key |-> u, entry |-> docs[u]]}
    BY <1>2, <1>4, AfterPutContents
  <2> QED  BY <1>2, <1>4, <2>1
<1>5. ASSUME cache' = cache, docs' = docs PROVE x.entry = docs'[x.key]
  BY <1>2, <1>5
<1>6. CASE ClientMessage
  <2>1. ASSUME NEW u \in Key, Edit(u) PROVE x.entry = docs'[x.key]
    <3>1. \A k \in Key : k # u => docs'[k] = docs[k]
      BY <1>2, <2>1 DEF Edit, UpdateDocument, SetDocument
    <3> QED  BY <1>3, <2>1, <3>1 DEF Edit, UpdateDocument
  <2>2. ASSUME NEW u \in Key, QueryCache(u) PROVE x.entry = docs'[x.key]
    BY <1>2, <2>2, AfterGetContents DEF QueryCache
  <2> QED  BY <1>5, <1>6, <2>1, <2>2 DEF ClientMessage, CloseCancel, Shutdown
<1>7. CASE MainStep
  <2>1. CASE CloseRemove
    <3>1. main.uri \in Key /\ \A k \in Key : k # main.uri => docs'[k] = docs[k]
      BY <1>2, <2>1 DEF CloseRemove, DeleteDocument, TypeInv, MainFits, MainAt
    <3> QED  BY <1>3, <2>1, <3>1 DEF CloseRemove
  <2>2. CASE QueryAnalyze
    <3>1. main.uri \in Key /\ docs[main.uri] \in Text
      BY <1>2, <2>2 DEF QueryAnalyze, TypeInv, MainFits, MainAt
    <3> QED  BY <1>4, <1>5, <2>2, <3>1 DEF QueryAnalyze
  <2> QED  BY <1>5, <1>7, <2>1, <2>2
           DEF MainStep, ScheduleCancel, ScheduleTrigger, ScheduleInline, CloseClear, QueryReply
<1>8. ASSUME NEW t \in DOMAIN checks, CheckStep(t) PROVE x.entry = docs'[x.key]
  <2>1. docs' = docs
    BY <1>8, CheckMoves
  <2>2. CASE checks[t].pc = "put"
    <3>1. AnalyzePut(t) /\ checks[t].uri \in Key
      BY <1>8, <2>2, CheckMoves
    <3>2. checks[t].snap = docs[checks[t].uri] /\ checks[t].snap # NoText
      BY <2>2 DEF SyncAlone, TypeInv, SnapFits
    <3> QED  BY <1>2, <1>4, <2>1, <3>1, <3>2 DEF AnalyzePut
  <2>3. CASE checks[t].pc # "put"
    BY <1>5, <1>8, <2>1, <2>3, CheckMoves
  <2> QED  BY <2>2, <2>3
<1>9. CASE UNCHANGED vars
  BY <1>5, <1>9 DEF vars, pipelineVars
<1>10. DOMAIN pool = {}
  BY DEF SyncAlone
<1> QED  BY <1>6, <1>7, <1>8, <1>9, <1>10 DEF PipelineNext

(* Without a delay the client sees the diagnostics of the current texts,   *)
(* but for the document main is at work on.                                *)
LEMMA SyncShownNext ==
  ASSUME TypeInv, SyncAlone, SyncShown, [PipelineNext]_vars
  PROVE  SyncShown'
<1>1. sync' = sync
  BY SyncStays
<1> SUFFICES ASSUME sync, NEW x \in Key PROVE Current(x)' \/ BusyWith(x)'
  BY <1>1 DEF SyncShown
<1>2. /\ (Current(x) \/ BusyWith(x)) /\ DOMAIN pool = {}
      /\ docs \in [Key -> Text \cup {NoText}] /\ DOMAIN shown = Key
  BY DEF SyncShown, SyncAlone, TypeInv, PipelineTypeOK
<1>3. ASSUME docs'[x] = docs[x], shown'[x] = shown[x], Current(x) PROVE Current(x)'
  BY <1>3 DEF Current
<1>4. CASE ClientMessage
  <2>1. MainAt("idle") /\ shown' = shown
    BY <1>4 DEF ClientMessage, Edit, CloseCancel, QueryCache, Shutdown
  <2>2. Current(x)
    BY <1>2, <2>1 DEF BusyWith, MainAt
  <2>3. ASSUME NEW u \in Key, Edit(u) PROVE Current(x)' \/ BusyWith(x)'
    <3>1. main'.uri = u /\ main'.pc = "cancel" /\ (x # u => docs'[x] = docs[x])
      BY <1>2, <2>3 DEF Edit, UpdateDocument, SetDocument, Goto
    <3> QED  BY <1>3, <2>1, <2>2, <3>1 DEF BusyWith
  <2> QED  BY <1>3, <1>4, <2>1, <2>2, <2>3 DEF ClientMessage, CloseCancel, QueryCache, Shutdown
<1>5. CASE MainStep
  <2>1. CASE ScheduleCancel
    BY <1>2, <1>3, <2>1 DEF ScheduleCancel, Goto, BusyWith, MainAt
  <2>2. CASE ScheduleInline
    <3>1. main.uri \in Key /\ Register(main.uri)
      BY <2>2 DEF ScheduleInline, TypeInv, MainFits, MainAt
    <3>2. /\ Len(checks) \in Nat /\ DOMAIN checks' = 1 .. Len(checks) + 1
          /\ checks'[Len(checks) + 1].pc = "snapshot"
      BY <3>1, RegisterFacts
    <3>3. main'.uri = main.uri /\ main'.pc = "inline"
      BY <2>2 DEF ScheduleInline, Goto
    <3>4. x = main.uri => BusyWith(x)'
      BY <3>2, <3>3 DEF BusyWith, MainAt
    <3>5. x # main.uri => Current(x)'
      BY <1>2, <1>3, <2>2 DEF ScheduleInline, BusyWith
    <3> QED  BY <3>4, <3>5
  <2>3. CASE CloseRemove
    <3>1. /\ main'.uri = main.uri /\ main'.pc = "clear" /\ shown' = shown
          /\ x # main.uri => docs'[x] = docs[x]
      BY <1>2, <2>3 DEF CloseRemove, DeleteDocument, Goto
    <3> QED  BY <1>2, <1>3, <3>1 DEF BusyWith
  <2>4. CASE CloseClear
    <3>1. /\ docs' = docs /\ shown' = [shown EXCEPT ![main.uri] = NoDiagnostics]
          /\ docs[main.uri] = NoText
      BY <2>4 DEF CloseClear, TypeInv, MainFits
    <3>2. x = main.uri => Current(x)'
      BY <1>2, <3>1 DEF Current
    <3>3. x # main.uri => Current(x)'
      BY <1>2, <1>3, <3>1 DEF BusyWith
    <3> QED  BY <3>2, <3>3
  <2>5. CASE QueryAnalyze \/ QueryReply
    BY <1>2, <1>3, <2>5 DEF QueryAnalyze, QueryReply, BusyWith, MainAt
  <2> QED  BY <1>5, <2>1, <2>2, <2>3, <2>4, <2>5 DEF MainStep, ScheduleTrigger
<1>6. ASSUME NEW t \in DOMAIN checks, CheckStep(t) PROVE Current(x)' \/ BusyWith(x)'
  <2>1. /\ MainAt("inline") /\ checks[t].uri = main.uri /\ docs' = docs
        /\ \A v \in DOMAIN checks : v # t => checks[v].pc = "done"
        /\ DOMAIN checks' = DOMAIN checks
        /\ checks[t].uri \in Key
    BY <1>6, CheckMoves DEF SyncAlone
  <2>2. CASE checks[t].pc = "finish"
    <3>1. Current(x)
      BY <1>2, <2>1, <2>2 DEF BusyWith, MainAt
    <3> QED  BY <1>3, <1>6, <2>1, <2>2, <3>1, CheckMoves
  <2>3. CASE checks[t].pc = "publish"
    <3>1. Publish(t) /\ checks[t].snap = docs[main.uri] /\ docs[main.uri] # NoText
      BY <1>6, <2>1, <2>3, CheckMoves DEF SyncAlone, MainAt
    <3>2. shown' = [shown EXCEPT ![main.uri] = DiagnosticsOf(docs[main.uri])]
      BY <2>1, <3>1 DEF Publish
    <3>3. x = main.uri => Current(x)'
      BY <1>2, <2>1, <3>1, <3>2 DEF Current
    <3>4. x # main.uri => Current(x)'
      BY <1>2, <1>3, <2>1, <3>2 DEF BusyWith
    <3> QED  BY <3>3, <3>4
  <2>4. CASE checks[t].pc \notin {"finish", "publish"}
    <3>1. main' = main /\ shown' = shown /\ checks'[t].pc \notin {"finish", "done"}
      BY <1>6, <2>4, CheckMoves DEF SyncAlone, CheckPC
    <3>2. x = main.uri => BusyWith(x)'
      BY <2>1, <3>1 DEF BusyWith, MainAt
    <3>3. x # main.uri => Current(x)'
      BY <1>2, <1>3, <2>1, <3>1 DEF BusyWith
    <3> QED  BY <3>2, <3>3
  <2> QED  BY <2>2, <2>3, <2>4
<1>7. CASE UNCHANGED vars
  BY <1>2, <1>7 DEF vars, pipelineVars, Current, BusyWith, MainAt
<1> QED  BY <1>2, <1>4, <1>5, <1>6, <1>7 DEF PipelineNext

-----------------------------------------------------------------------------
(* NewServerV2 establishes the invariant.                                  *)
LEMMA PipelineInitInv == PipelineInit => PipelineInv
<1> SUFFICES ASSUME PipelineInit PROVE PipelineInv
  OBVIOUS
<1>1. DebounceInv /\ TypeInv
  BY DebounceInitInv, TypeInvInit DEF PipelineInit
<1>2. DOMAIN checks = {} /\ pool = << >>
  BY DEF PipelineInit, DebounceInit
<1>3. \A u \in Key : cancels[u] = None /\ docs[u] = NoText /\ checked[u] = NoText
                     /\ shown[u] = NoDiagnostics
  BY DEF PipelineInit
<1>4. OwnerAlive /\ OwnerCurrent /\ EditsWorkedOn
  BY <1>3 DEF OwnerAlive, OwnerCurrent, EditsWorkedOn
<1>5. TextsGrow
  BY <1>2, <1>3 DEF TextsGrow, PipelineInit, NoText
<1>6. SyncAlone
  BY <1>2 DEF SyncAlone, PipelineInit, Idle
<1>7. SyncCache
  <2>1. cache.order = << >>
    BY DEF PipelineInit, NewCache
  <2> QED  BY <2>1 DEF SyncCache, Contents
<1>8. SyncShown
  BY <1>3 DEF SyncShown, Current
<1> QED  BY <1>1, <1>4, <1>5, <1>6, <1>7, <1>8 DEF PipelineInv

(* Every step of the server preserves it.                                  *)
LEMMA PipelineNextInv == PipelineInv /\ [PipelineNext]_vars => PipelineInv'
BY DebounceStep, TypeInvNext, OwnerAliveNext, OwnerCurrentNext, TextsGrowNext,
   EditsWorkedOnNext, SyncAloneNext, SyncCacheNext, SyncShownNext DEF PipelineInv

(* PipelineInv is an invariant of the server, whatever the client sends,   *)
(* the timers do and the checks interleave.                                *)
THEOREM PipelineInvariant == PipelineSpec => []PipelineInv
BY PipelineInitInv, PipelineNextInv, PTL DEF PipelineSpec

(* The server's state has its types: every entry of s.cancels is a check   *)
(* that ran, and every cached checker one of a text the client sent.       *)
THEOREM PipelineTypeCorrect == PipelineSpec => []PipelineTypeOK
<1>1. PipelineInv => PipelineTypeOK
  BY DEF PipelineInv, TypeInv
<1> QED  BY <1>1, PipelineInvariant, PTL

(* s.cancels does not leak an entry of a check that returned, and never    *)
(* names a check of another document.                                      *)
THEOREM PipelineOwnerAlive == PipelineSpec => []OwnerAlive
<1>1. PipelineInv => OwnerAlive
  BY DEF PipelineInv
<1> QED  BY <1>1, PipelineInvariant, PTL

(* The check registered for an open document works on its current text or  *)
(* has been told to stop, except before scheduleCheck's cancellation.      *)
THEOREM PipelineOwnerCurrent == PipelineSpec => []OwnerCurrent
<1>1. PipelineInv => OwnerCurrent
  BY DEF PipelineInv
<1> QED  BY <1>1, PipelineInvariant, PTL

(* No edit is lost: when no handler, timer or check is left to run, the    *)
(* diagnostics of every open document's text have been published.          *)
THEOREM PipelineEditsChecked == PipelineSpec => []EditsChecked
<1>1. ASSUME PipelineInv, Quiet, ~exited, NEW u \in Key, docs[u] # NoText
      PROVE  checked[u] = docs[u]
  <2>1. ~MainWorksOn(u) /\ ~TimerWorksOn(u)
    BY <1>1 DEF Quiet, MainAt, MainWorksOn, TimerWorksOn
  <2>2. ~CheckWorksOn(u)
    BY <1>1 DEF Quiet, CheckWorksOn, WillPublish
  <2> QED  BY <1>1, <2>1, <2>2 DEF PipelineInv, EditsWorkedOn
<1>2. PipelineInv => EditsChecked
  BY <1>1 DEF EditsChecked
<1> QED  BY <1>2, PipelineInvariant, PTL

(* Without a debounce delay, between two messages the client shows the     *)
(* diagnostics of the current text of every document and the cache holds   *)
(* no stale checker.                                                       *)
THEOREM PipelineSyncShowsCurrent == PipelineSpec => []SyncShowsCurrent
<1>1. ASSUME PipelineInv, sync, MainAt("idle"), NEW u \in Key
      PROVE  /\ Current(u)
             /\ u \in cache.items => EntryOf(cache, u) = docs[u]
  <2>1. Current(u)
    BY <1>1 DEF PipelineInv, SyncShown, BusyWith, MainAt
  <2>2. ASSUME u \in cache.items PROVE EntryOf(cache, u) = docs[u]
    <3>1. [key |-> u, entry |-> EntryOf(cache, u)] \in Contents(cache.order)
      BY <1>1, <2>2, EntryOfContents DEF PipelineInv, TypeInv
    <3> QED  BY <1>1, <3>1 DEF PipelineInv, SyncCache
  <2> QED  BY <2>1, <2>2
<1>2. PipelineInv => SyncShowsCurrent
  BY <1>1 DEF SyncShowsCurrent, Current
<1> QED  BY <1>2, PipelineInvariant, PTL

=============================================================================

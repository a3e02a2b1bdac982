------------------------------ MODULE Debouncer ------------------------------
(***************************************************************************)
(* The per-key debouncer of the v2 language server                         *)
(* (languageserver/server2/debounce.go).                                   *)
(*                                                                         *)
(* Trigger, Stop and the first half of a timer's callback are critical     *)
(* sections of the debouncer's mutex, so each is one atomic step.  Between *)
(* them the Go runtime decides when a timer expires and when the goroutine *)
(* it starts gets the mutex; time.Timer.Stop has no effect on a timer that *)
(* has already expired.  Go gives no order between the expiry of two       *)
(* timers, so none is assumed.                                             *)
(***************************************************************************)
EXTENDS Naturals, Sequences

CONSTANTS Key,        \* the keys of Trigger: document URIs
          MaxTimers   \* bound on the timers ever created

ASSUME MaxTimersAssumption == MaxTimers \in Nat

VARIABLES
  timers,      \* the map d.timers: a key's timer, or None
  pool,        \* every time.Timer ever created, a timer is its index here
  stopCalled   \* history: has Stop been called?

debounceVars == <<timers, pool, stopCalled>>

None == 0

(***************************************************************************)
(* pending  armed: AfterFunc returned, the delay has not expired           *)
(* stopped  disarmed by time.Timer.Stop before it expired                  *)
(* fired    expired: its goroutine runs and waits for the debouncer's lock *)
(* ready    its goroutine removed the map entry, and is about to call fn   *)
(* ran      its goroutine called fn                                        *)
(***************************************************************************)
TimerState == {"pending", "stopped", "fired", "ready", "ran"}

TimerRecord == [key : Key, state : TimerState]

DebounceInit ==
  /\ timers = [k \in Key |-> None]
  /\ pool = << >>
  /\ stopCalled = FALSE

-----------------------------------------------------------------------------
(* time.Timer.Stop on the timers in ids: only a pending timer is stopped.  *)
StopTimers(p, ids) ==
  [i \in DOMAIN p |-> IF i \in ids /\ p[i].state = "pending"
                      THEN [p[i] EXCEPT !.state = "stopped"]
                      ELSE p[i]]

(* Timer i moves on to state s.                                            *)
Advance(p, i, s) == [p EXCEPT ![i].state = s]

(* Mutant: the new timer enters the map before the old one is stopped.     *)
TriggerStopsNew(k) ==
  /\ Len(pool) < MaxTimers
  /\ timers' = [timers EXCEPT ![k] = Len(pool) + 1]
  /\ pool' = StopTimers(Append(pool, [key |-> k, state |-> "pending"]),
                        {Len(pool) + 1})
  /\ UNCHANGED stopCalled

(* Trigger(key, fn): stop the timer the map holds, arm and record another. *)
Trigger(k) ==
  /\ Len(pool) < MaxTimers
  /\ timers' = [timers EXCEPT ![k] = Len(pool) + 1]
  /\ pool' = Append(StopTimers(pool, {timers[k]}),
                    [key |-> k, state |-> "pending"])
  /\ UNCHANGED stopCalled

(* The delay of timer i expires and the runtime starts its goroutine.      *)
Expire(i) ==
  /\ i \in DOMAIN pool
  /\ pool[i].state = "pending"
  /\ pool' = Advance(pool, i, "fired")
  /\ UNCHANGED <<timers, stopCalled>>

(* Mutant: the callback forgets to delete the map entry.                   *)
UnmapKeepsEntry(i) ==
  /\ i \in DOMAIN pool
  /\ pool[i].state = "fired"
  /\ pool' = Advance(pool, i, "ready")
  /\ UNCHANGED <<timers, stopCalled>>

(* The callback's critical section: it deletes the entry of its key,       *)
(* whichever timer that entry holds by now.                                *)
Unmap(i) ==
  /\ i \in DOMAIN pool
  /\ pool[i].state = "fired"
  /\ pool' = Advance(pool, i, "ready")
  /\ timers' = [timers EXCEPT ![pool[i].key] = None]
  /\ UNCHANGED stopCalled

(* The callback calls fn, outside the lock.                                *)
CallFn(i) ==
  /\ i \in DOMAIN pool
  /\ pool[i].state = "ready"
  /\ pool' = Advance(pool, i, "ran")
  /\ UNCHANGED <<timers, stopCalled>>

(* Mutant: Stop empties the map without stopping the timers.               *)
StopDropsTimers ==
  /\ timers' = [k \in Key |-> None]
  /\ stopCalled' = TRUE
  /\ UNCHANGED pool

(* Stop: stop every timer the map holds, and empty the map.                *)
Stop ==
  /\ pool' = StopTimers(pool, {timers[k] : k \in Key})
  /\ timers' = [k \in Key |-> None]
  /\ stopCalled' = TRUE

-----------------------------------------------------------------------------
TimerStep(i) == Expire(i) \/ Unmap(i) \/ CallFn(i)

DebounceNext ==
  \/ \E k \in Key : Trigger(k)
  \/ \E i \in DOMAIN pool : Expire(i)
  \/ \E i \in DOMAIN pool : Unmap(i)
  \/ \E i \in DOMAIN pool : CallFn(i)
  \/ Stop

DebounceSpec == DebounceInit /\ [][DebounceNext]_debounceVars

(* The runtime expires every armed timer and schedules every goroutine.    *)
DebounceFairSpec ==
  DebounceSpec
    /\ \A i \in 1 .. MaxTimers : WF_debounceVars(TimerStep(i))

-----------------------------------------------------------------------------
(* Type invariant of the debouncer's map and of the timers.                *)
DebounceTypeOK ==
  /\ pool \in Seq(TimerRecord)
  /\ Len(pool) <= MaxTimers
  /\ timers \in [Key -> 0 .. Len(pool)]
  /\ stopCalled \in BOOLEAN

(* i is the timer of the last Trigger of its key. *)
Latest(i) == \A j \in DOMAIN pool : pool[j].key = pool[i].key => j <= i

(***************************************************************************)
(* The map of debounce.go only ever holds, under a key, the timer of that  *)
(* key's last Trigger, still armed or waiting for the lock: Trigger and    *)
(* Stop never call time.Timer.Stop on a timer of another key, or on one    *)
(* that already ran.                                                       *)
(***************************************************************************)
MapHoldsLatest ==
  \A k \in Key : timers[k] # None =>
    /\ pool[timers[k]].key = k
    /\ pool[timers[k]].state \in {"pending", "fired"}
    /\ Latest(timers[k])

(***************************************************************************)
(* "executing only the last callback": the last callback itself is never   *)
(* lost.  Until Stop is called, the timer of a key's last Trigger is not   *)
(* stopped, whatever the callbacks of that key and the other keys do.      *)
(***************************************************************************)
LatestNeverStopped ==
  \A i \in DOMAIN pool : Latest(i) /\ pool[i].state = "stopped" => stopCalled

(***************************************************************************)
(* An armed timer can be missing from the map (out of reach of Trigger and *)
(* of Stop) for one reason only: the callback of an older timer of the key *)
(* got the lock after the newer timer was recorded, and deleted its entry. *)
(***************************************************************************)
OrphanedByOlderCallback ==
  \A i \in DOMAIN pool :
    pool[i].state = "pending" /\ timers[pool[i].key] # i =>
      \E j \in DOMAIN pool : /\ j < i
                             /\ pool[j].key = pool[i].key
                             /\ pool[j].state \in {"ready", "ran"}

(***************************************************************************)
(* Every Trigger is answered: the callback of its timer runs, or a later   *)
(* Trigger or Stop took its place.                                         *)
(***************************************************************************)
LastCallbackRuns ==
  \A i \in 1 .. MaxTimers :
    i \in DOMAIN pool
      ~> (i \in DOMAIN pool /\ (pool[i].state = "ran" \/ ~Latest(i) \/ stopCalled))

(***************************************************************************)
(* What the comment on Trigger promises: "If a previous trigger for the    *)
(* same key is still pending, it is cancelled and replaced by fn", so that *)
(* no key ever has two armed timers.                                       *)
(***************************************************************************)
OnePendingPerKey ==
  \A i, j \in DOMAIN pool :
    /\ pool[i].key = pool[j].key
    /\ pool[i].state = "pending"
    /\ pool[j].state = "pending"
    => i = j
=============================================================================

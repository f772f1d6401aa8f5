---------------------------- MODULE PacingProofs ----------------------------
(***************************************************************************)
(* Theorems about Debouncer and Throttler in module Pacing.                *)
(***************************************************************************)
EXTENDS Pacing, TLAPS

-----------------------------------------------------------------------------
(* The Throttler.                                                          *)

\* The last run is the newest reading of the calls that were allowed.
ThrottleInv ==
    /\ now \in Nat /\ now > 0
    /\ reading \in [Calls -> Int]
    /\ call \in [Calls -> {"idle", "read", "allowed", "refused", "ran"}]
    /\ lastRun \in Nat
    /\ \A c \in Calls : call[c] # "idle" => reading[c] > 0
    /\ lastRun = 0 => Allowed = {}
    /\ lastRun # 0 => \E c \in Allowed : reading[c] = lastRun
    /\ \A c \in Allowed : reading[c] <= lastRun

LEMMA ThrottleInit == Init => ThrottleInv /\ Throttled
BY DEF Init, ClockInit, ThrottlerInit, ThrottleInv, Throttled, Allowed

LEMMA ThrottleNext == ThrottleInv /\ Throttled /\ [Next]_vars => (ThrottleInv /\ Throttled)'
<1> SUFFICES ASSUME ThrottleInv, Throttled, [Next]_vars PROVE (ThrottleInv /\ Throttled)'
  OBVIOUS
<1> USE ThrottlerAssumption
<1>1. CASE Passes \/ Debounce \/ Done \/ UNCHANGED vars
  <2>1. UNCHANGED throttlerVars /\ now' \in Nat /\ now' > 0
    BY <1>1 DEF Passes, Debounce, Done, vars, Tick, Cancel, Do, Fire, ThrottleInv
  <2>. QED
    BY <2>1 DEF throttlerVars, ThrottleInv, Throttled, Allowed
<1>2. ASSUME NEW c \in Calls, Begin(c) PROVE (ThrottleInv /\ Throttled)'
  <2>1. Allowed' = Allowed
    BY <1>2 DEF Begin, ReadClock, Allowed, ThrottleInv
  <2>2. \A d \in Calls : call[d] # "idle" => reading'[d] = reading[d] /\ call'[d] = call[d]
    BY <1>2 DEF Begin, ReadClock, ThrottleInv
  <2>. QED
    BY <1>2, <2>1, <2>2 DEF Begin, ReadClock, ThrottleInv, Throttled, Allowed
<1>3. ASSUME NEW c \in Calls, Refuse(c) PROVE (ThrottleInv /\ Throttled)'
  <2>1. Allowed' = Allowed
    BY <1>3 DEF Refuse, Allowed, ThrottleInv
  <2>2. \E d \in Allowed : reading[c] < reading[d] + Interval
    BY <1>3 DEF Refuse, TooEarly, ThrottleInv, Allowed
  <2>. QED
    BY <1>3, <2>1, <2>2 DEF Refuse, ThrottleInv, Throttled, Allowed
<1>4. ASSUME NEW c \in Calls, Allow(c) PROVE (ThrottleInv /\ Throttled)'
  <2>1. Allowed' = Allowed \cup {c} /\ c \notin Allowed
    BY <1>4 DEF Allow, Allowed, ThrottleInv
  <2>2. /\ UNCHANGED <<reading, now>> /\ lastRun' = reading[c]
        /\ reading[c] > 0 /\ reading[c] \in Int
    BY <1>4 DEF Allow, ThrottleInv
  <2>3. \A d \in Allowed : reading[c] >= reading[d] + Interval
    <3>1. CASE lastRun = 0
      BY <3>1 DEF ThrottleInv
    <3>2. CASE lastRun # 0
      BY <1>4, <2>2, <3>2 DEF Allow, TooEarly, ThrottleInv, Allowed
    <3>. QED
      BY <3>1, <3>2
  <2>4. ThrottleInv'
    <3>1. \A d \in Allowed' : reading'[d] <= lastRun'
      BY <2>1, <2>2, <2>3 DEF ThrottleInv, Allowed
    <3>2. c \in Allowed' /\ reading'[c] = lastRun' /\ lastRun' # 0
      BY <2>1, <2>2
    <3>. QED
      BY <1>4, <2>1, <2>2, <3>1, <3>2 DEF Allow, ThrottleInv
  <2>5. \A d, e \in Allowed' :
           d # e => reading'[d] >= reading'[e] + Interval \/ reading'[e] >= reading'[d] + Interval
    BY <2>1, <2>2, <2>3 DEF Throttled
  <2>6. \A d \in Calls : call'[d] = "refused" => call[d] = "refused"
    BY <1>4 DEF Allow, ThrottleInv
  <2>. QED
    BY <2>1, <2>2, <2>4, <2>5, <2>6 DEF Throttled
<1>5. ASSUME NEW c \in Calls, Ran(c) PROVE (ThrottleInv /\ Throttled)'
  <2>1. Allowed' = Allowed
    BY <1>5 DEF Ran, Allowed, ThrottleInv
  <2>. QED
    BY <1>5, <2>1 DEF Ran, ThrottleInv, Throttled
<1>. QED
  BY <1>1, <1>2, <1>3, <1>4, <1>5 DEF Next, Throttle

\* The calls that the Throttler allows read clocks an Interval apart, and it
\* refuses none without such a call.
THEOREM KeepsIntervals == Spec => []Throttled
<1>. QED
  BY ThrottleInit, ThrottleNext, PTL DEF Spec

-----------------------------------------------------------------------------
(* The Debouncer.                                                          *)

States == {"none", "armed", "stopped", "fired"}

\* Only d.timer is armed; a function that was not stopped was not revoked, and
\* what is in d.timer was put there after all others were due or stopped.
DebounceInv ==
    /\ now \in Nat
    /\ timer \in [Functions -> States]
    /\ due \in [Functions -> Nat]
    /\ current \in Functions \cup {None} /\ revoked \subseteq Functions
    /\ \A f \in Functions : timer[f] = "armed" => f = current
    /\ \A f \in Functions : timer[f] = "fired" => due[f] <= now
    /\ \A f \in revoked : timer[f] = "stopped"
    /\ \A f, g \in Functions :
         timer[f] = "fired" /\ timer[g] = "armed" => due[g] >= due[f] + Delay

LEMMA DebounceInit == Init => DebounceInv /\ Debounced
BY DEF Init, ClockInit, DebouncerInit, DebounceInv, Debounced, States

LEMMA DebounceNext == DebounceInv /\ Debounced /\ [Next]_vars => (DebounceInv /\ Debounced)'
<1> SUFFICES ASSUME DebounceInv, Debounced, [Next]_vars PROVE (DebounceInv /\ Debounced)'
  OBVIOUS
<1> USE DebouncerAssumption
<1>1. CASE UNCHANGED debouncerVars /\ now' \in Nat /\ now' >= now
  BY <1>1 DEF debouncerVars, DebounceInv, Debounced
<1>2. \A f \in revoked \cup Pending : timer[f] # "fired"
  BY DEF DebounceInv, Debounced, Pending, States
<1>3. /\ Stopped \in [Functions -> States]
      /\ \A f \in Functions : Stopped[f] # "armed"
      /\ \A f \in Functions : Stopped[f] = timer[f] \/ Stopped[f] = "stopped"
      /\ \A f \in Functions : timer[f] = "none" => Stopped[f] = "none"
      /\ \A f \in Functions : Stopped[f] = "fired" => timer[f] = "fired"
  BY DEF Stopped, DebounceInv, States
<1>4. \A f \in revoked \cup Pending : Stopped[f] = "stopped" /\ f \in Functions
  BY <1>2, <1>3 DEF DebounceInv, Pending, States
<1>5. ASSUME NEW f \in Functions, Do(f) PROVE (DebounceInv /\ Debounced)'
  <2>1. /\ timer' = [Stopped EXCEPT ![f] = "armed"] /\ timer[f] = "none"
        /\ due' = [due EXCEPT ![f] = now + Delay] /\ current' = f
        /\ revoked' = revoked \cup Pending /\ now' = now
    BY <1>5 DEF Do, Armed
  <2>2. f \notin revoked \cup Pending
    BY <1>3, <1>4, <2>1
  <2>3. \A g \in Functions : timer'[g] = "fired" => g # f /\ timer[g] = "fired" /\ due'[g] = due[g]
    BY <1>3, <2>1 DEF DebounceInv
  <2>4. \A g \in Functions : timer'[g] = "armed" => g = f
    BY <1>3, <2>1 DEF DebounceInv
  <2>5. DebounceInv'
    BY <1>3, <1>4, <2>1, <2>2, <2>3, <2>4 DEF DebounceInv, States
  <2>. QED
    BY <2>3, <2>5 DEF DebounceInv, Debounced
<1>6. CASE Cancel
  <2>1. /\ timer' = Stopped /\ current' = None /\ UNCHANGED <<due, now>>
        /\ revoked' = revoked \cup Pending
    BY <1>6 DEF Cancel
  <2>. QED
    BY <1>3, <1>4, <2>1 DEF DebounceInv, Debounced
<1>7. ASSUME NEW f \in Functions, Fire(f) PROVE (DebounceInv /\ Debounced)'
  <2>1. /\ timer[f] = "armed" /\ timer' = [timer EXCEPT ![f] = "fired"] /\ due[f] <= now
        /\ UNCHANGED <<due, current, revoked, now>>
    BY <1>7 DEF Fire, DebounceInv
  <2>2. f \notin revoked /\ \A g \in Functions : timer'[g] # "armed"
    BY <2>1 DEF DebounceInv, States
  <2>3. \A g \in Functions : timer'[g] = "fired" /\ g # f => timer[g] = "fired"
    BY <2>1 DEF DebounceInv
  <2>4. DebounceInv'
    BY <2>1, <2>2, <2>3 DEF DebounceInv, States
  <2>. QED
    BY <2>1, <2>2, <2>3, <2>4 DEF DebounceInv, Debounced
<1>8. ASSUME NEW c \in Calls, Begin(c) \/ Throttle(c) PROVE UNCHANGED <<debouncerVars, now>>
  BY <1>8 DEF Begin, Throttle, ReadClock, Refuse, Allow, Ran
<1>9. CASE Passes \/ Done \/ UNCHANGED vars
  BY <1>1, <1>9 DEF Passes, Tick, Done, vars, DebounceInv
<1>. QED
  BY <1>1, <1>5, <1>6, <1>7, <1>8, <1>9 DEF Next, Debounce, DebounceInv

\* A function whose Do was followed by another Do or a Cancel within the Delay
\* never runs, and those that run were due at least a Delay apart.
THEOREM RevokedNeverRun == Spec => []Debounced
<1>. QED
  BY DebounceInit, DebounceNext, PTL DEF Spec
=============================================================================

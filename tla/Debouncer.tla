----------------------------- MODULE Debouncer -----------------------------
(***************************************************************************)
(* Debouncer of debouncer.go.  Each call of Do has a function of its own,  *)
(* and time.AfterFunc a timer for it.  A timer fires at its time or later; *)
(* from then on Stop has no effect, and the function is about to run on a  *)
(* goroutine of its own.                                                   *)
(***************************************************************************)
EXTENDS Clock

CONSTANTS
    Functions,      \* functions given to Do
    Delay,          \* d.delay, which NewDebouncer makes positive
    None

ASSUME DebouncerAssumption == Delay \in Nat \ {0} /\ None \notin Functions

VARIABLES
    timer,          \* the timer of each function
    due,            \* when it fires at the earliest
    current,        \* d.timer: the function whose timer it is, or None
    revoked         \* functions with a Do or Cancel between their Do and due

debouncerVars == <<timer, due, current, revoked>>

DebouncerInit ==
    /\ timer = [f \in Functions |-> "none"]
    /\ due = [f \in Functions |-> 0]
    /\ current = None
    /\ revoked = {}

-----------------------------------------------------------------------------
\* Mutant: the old timer is only forgotten.
NotStopped == timer

\* The timers after d.timer.Stop() of a timer that is not nil.
Stopped ==
    IF current # None /\ timer[current] = "armed"
    THEN [timer EXCEPT ![current] = "stopped"]
    ELSE timer

Pending == {f \in Functions : timer[f] # "none" /\ now < due[f]}

\* Mutant: a timer that exists is stopped and not replaced.
OnlyFirstArmed(f) == [Stopped EXCEPT ![f] = IF current = None THEN "armed" ELSE "stopped"]

\* The timers after Do has replaced the current one.
Armed(f) == [Stopped EXCEPT ![f] = "armed"]

Do(f) ==
    /\ timer[f] = "none" /\ now + Delay <= Horizon
    /\ timer' = Armed(f)
    /\ due' = [due EXCEPT ![f] = now + Delay]
    /\ current' = f
    /\ revoked' = revoked \cup Pending
    /\ UNCHANGED now

Cancel ==
    /\ current # None
    /\ timer' = Stopped
    /\ current' = None
    /\ revoked' = revoked \cup Pending
    /\ UNCHANGED <<due, now>>

Fire(f) ==
    /\ timer[f] = "armed" /\ now >= due[f]
    /\ timer' = [timer EXCEPT ![f] = "fired"]
    /\ UNCHANGED <<due, current, revoked, now>>

-----------------------------------------------------------------------------
\* "If called again before the delay expires, the pending execution is
\* canceled": a function with a Do or Cancel within the Delay after its Do never
\* runs, so that two that run were due at least Delay apart, however
\* late their timers fire and whatever Do and Cancel find in d.timer.
Debounced ==
    /\ \A f \in revoked : timer[f] # "fired"
    /\ \A f, g \in Functions :
         timer[f] = "fired" /\ timer[g] = "fired" /\ f # g
            => due[f] >= due[g] + Delay \/ due[g] >= due[f] + Delay
=============================================================================

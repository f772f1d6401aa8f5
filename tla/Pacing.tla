------------------------------- MODULE Pacing -------------------------------
(***************************************************************************)
(* A Debouncer and a Throttler on one clock: the functions given to the    *)
(* Debouncer call the Throttler, as others do directly.                    *)
(***************************************************************************)
EXTENDS Debouncer, Throttler

CONSTANT Direct     \* calls of the Throttler that are not made by a function

ASSUME PacingAssumption == Calls = Functions \cup Direct

vars == <<now, debouncerVars, throttlerVars>>

Init == ClockInit /\ DebouncerInit /\ ThrottlerInit

-----------------------------------------------------------------------------
Passes == Tick /\ UNCHANGED <<debouncerVars, throttlerVars>>

Debounce ==
    /\ Cancel \/ \E f \in Functions : Do(f) \/ Fire(f)
    /\ UNCHANGED throttlerVars

\* A function runs from the moment its timer has fired.
Begin(c) ==
    /\ c \in Functions => timer[c] = "fired"
    /\ ReadClock(c)
    /\ UNCHANGED debouncerVars

Throttle(c) == (Refuse(c) \/ Allow(c) \/ Ran(c)) /\ UNCHANGED debouncerVars

\* The end of the clock.
Done ==
    /\ now = Horizon /\ \A f \in Functions : timer[f] # "armed"
    /\ \A c \in Calls : call[c] \notin {"read", "allowed"}
    /\ UNCHANGED vars

Next == Passes \/ Debounce \/ (\E c \in Calls : Begin(c) \/ Throttle(c)) \/ Done

Spec == Init /\ [][Next]_vars

\* Time passes, timers fire and goroutines run; nobody has to call.
FairSpec ==
    /\ Spec
    /\ WF_vars(Passes)
    /\ \A f \in Functions :
         WF_vars(Fire(f) /\ UNCHANGED throttlerVars) /\ WF_vars(Begin(f))
    /\ \A c \in Calls : WF_vars(Throttle(c))

-----------------------------------------------------------------------------
(* Properties.                                                             *)

\* The function of the last Do runs if neither Do nor Cancel comes after it,
\* and gets an answer from the Throttler.
LastCallRuns ==
    \A f \in Functions : current = f ~> current # f \/ call[f] \in {"ran", "refused"}
=============================================================================

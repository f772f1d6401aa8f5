----------------------------- MODULE Throttler -----------------------------
(***************************************************************************)
(* Throttler of throttler.go.  Allow reads the clock before it takes the   *)
(* lock: calls may decide in another order than they read.                 *)
(***************************************************************************)
EXTENDS Clock

CONSTANTS
    Calls,          \* calls of Do
    Interval        \* t.interval

ASSUME ThrottlerAssumption == Interval \in Nat \ {0}

VARIABLES
    reading,        \* local variable now of Allow
    call,           \* where each call is
    lastRun         \* t.lastRun, 0 is the zero time

throttlerVars == <<reading, call, lastRun>>

ThrottlerInit ==
    /\ reading = [c \in Calls |-> 0]
    /\ call = [c \in Calls |-> "idle"]
    /\ lastRun = 0

-----------------------------------------------------------------------------
ReadClock(c) ==
    /\ call[c] = "idle"
    /\ call' = [call EXCEPT ![c] = "read"]
    /\ reading' = [reading EXCEPT ![c] = now]
    /\ UNCHANGED <<lastRun, now>>

\* Mutant: a reading before the last run is taken for a late one.
TooEarlyAfter(c) ==
    lastRun # 0 /\ reading[c] >= lastRun /\ reading[c] - lastRun < Interval

\* The interval of the last run is not over at the reading of c.
TooEarly(c) == lastRun # 0 /\ reading[c] - lastRun < Interval

\* Allow has the lock and returns false.
Refuse(c) ==
    /\ call[c] = "read" /\ TooEarly(c)
    /\ call' = [call EXCEPT ![c] = "refused"]
    /\ UNCHANGED <<reading, lastRun, now>>

\* Allow has the lock and returns true; Do goes on to its function.
Allow(c) ==
    /\ call[c] = "read" /\ ~TooEarly(c)
    /\ call' = [call EXCEPT ![c] = "allowed"]
    /\ lastRun' = reading[c]
    /\ UNCHANGED <<reading, now>>

\* The function has run, and Do returns true.
Ran(c) ==
    /\ call[c] = "allowed"
    /\ call' = [call EXCEPT ![c] = "ran"]
    /\ UNCHANGED <<reading, lastRun, now>>

-----------------------------------------------------------------------------
Allowed == {c \in Calls : call[c] \in {"allowed", "ran"}}

\* "At most one execution per interval", by the clock of the calls and in
\* whichever order they get the lock; and a call is only refused
\* because of one that was allowed, less than an interval before it or later.
Throttled ==
    /\ \A c, d \in Allowed :
         c # d => reading[c] >= reading[d] + Interval \/ reading[d] >= reading[c] + Interval
    /\ \A c \in Calls :
         call[c] = "refused" => \E d \in Allowed : reading[c] < reading[d] + Interval
=============================================================================

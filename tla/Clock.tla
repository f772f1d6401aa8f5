------------------------------- MODULE Clock -------------------------------
\* The monotonic clock that time.Now and timers read.
EXTENDS Integers

CONSTANT Horizon        \* bound of the clock

ASSUME ClockAssumption == Horizon \in Nat

VARIABLE now            \* 0 is the zero time, which is never read

ClockInit == now = 1

Tick == now < Horizon /\ now' = now + 1
=============================================================================

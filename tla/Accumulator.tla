---------------------------- MODULE Accumulator ----------------------------
(***************************************************************************)
(* Accumulator of accumulator.go: a total that is handed to a callback     *)
(* when it reaches a threshold, when a timer fires, and on Close.          *)
(*                                                                         *)
(* Every call of Add is one member of Adds.  Add, Close and the flush of   *)
(* the timer hold a.mu from start to end, callback included, so each is    *)
(* one step.  The goroutine of run is interrupted between its select and   *)
(* the lock, and there Close, or the end of its context, may come.         *)
(***************************************************************************)
EXTENDS Integers

CONSTANTS
    Adds,       \* calls of Add
    Amount,     \* the argument of each
    Threshold   \* AccumulatorOptions.Max

ASSUME AccumulatorAssumption ==
    /\ Amount \in [Adds -> Int]
    /\ Threshold \in Nat

VARIABLES
    total,      \* a.total
    closed,     \* a.closed
    canceled,   \* the context of run has ended
    timer,      \* a.timer: armed, fired with its value not received, or off
    run,        \* where the goroutine of run is
    added,      \* whether each Add was made, and whether it was taken
    taken,      \* sum of the amounts that were taken
    flushed     \* sum of the totals the callback was given

vars == <<total, closed, canceled, timer, run, added, taken, flushed>>

Init ==
    /\ total = 0
    /\ closed = FALSE
    /\ canceled = FALSE
    /\ timer = "armed"
    /\ run = "select"
    /\ added = [a \in Adds |-> "idle"]
    /\ taken = 0
    /\ flushed = 0

-----------------------------------------------------------------------------
\* The callback gets t, and the total is zero again.
Flush(t) == total' = 0 /\ flushed' = flushed + t

\* The total calls for a flush in Add.
AtThreshold(t) == Threshold > 0 /\ t >= Threshold

Add(a) ==
    /\ added[a] = "idle"
    /\ IF closed
       THEN /\ added' = [added EXCEPT ![a] = "refused"]
            /\ UNCHANGED <<total, taken, flushed>>
       ELSE /\ added' = [added EXCEPT ![a] = "taken"]
            /\ taken' = taken + Amount[a]
            /\ IF AtThreshold(total + Amount[a])
               THEN Flush(total + Amount[a])
               ELSE total' = total + Amount[a] /\ UNCHANGED flushed
    /\ UNCHANGED <<closed, canceled, timer, run>>

\* Mutant: Close hands the total over and keeps it.
FlushKeeping(t) == flushed' = flushed + t /\ UNCHANGED total

\* The flush of Close.
FlushLast(t) == Flush(t)

\* Mutant: Close takes it that the end of the context was the last flush.
LeftUnlessCanceled == total > 0 /\ ~canceled

\* There is a total for Close to hand over, whatever became of the context.
Left == total > 0

\* Mutant: Close does not end the context of run.
CancelForgotten == canceled

\* a.cancel()
Cancel == TRUE

\* Close; on a closed accumulator it changes nothing.
Close ==
    /\ ~closed
    /\ closed' = TRUE
    /\ canceled' = Cancel
    /\ timer' = "off"
    /\ IF Left THEN FlushLast(total) ELSE UNCHANGED <<total, flushed>>
    /\ UNCHANGED <<run, added, taken>>

\* The context given to NewAccumulator ends.
ParentEnd ==
    /\ ~canceled
    /\ canceled' = TRUE
    /\ UNCHANGED <<total, closed, timer, run, added, taken, flushed>>

\* The delay is over.
TimerFire ==
    /\ timer = "armed"
    /\ timer' = "fired"
    /\ UNCHANGED <<total, closed, canceled, run, added, taken, flushed>>

\* The select of run takes the value of the timer ...
RunTick ==
    /\ run = "select" /\ timer = "fired"
    /\ run' = "tick"
    /\ timer' = "off"
    /\ UNCHANGED <<total, closed, canceled, added, taken, flushed>>

\* Mutant: the timer is armed again only after a flush.
RearmAfterFlush == IF total > 0 THEN "armed" ELSE timer

\* a.timer.Reset(a.delay)
Rearm == "armed"

\* Mutant: run leaves it to flushLocked to tell whether there is a total.
DueUnlessZero == total # 0

\* There is a total for run to hand over.
Due == total > 0

\* ... and then run has a.mu, which Close may have had in between.
RunFlush ==
    /\ run = "tick"
    /\ IF Due THEN Flush(total) ELSE UNCHANGED <<total, flushed>>
    /\ timer' = Rearm
    /\ run' = "select"
    /\ UNCHANGED <<closed, canceled, added, taken>>

\* The select of run sees the end of its context; the timer is stopped.
RunExit ==
    /\ run = "select" /\ canceled
    /\ run' = "exited"
    /\ timer' = "off"
    /\ UNCHANGED <<total, closed, canceled, added, taken, flushed>>

Done == closed /\ run = "exited" /\ (\A a \in Adds : added[a] # "idle") /\ UNCHANGED vars

Next ==
    \/ \E a \in Adds : Add(a)
    \/ Close
    \/ ParentEnd
    \/ TimerFire
    \/ RunTick
    \/ RunFlush
    \/ RunExit
    \/ Done

Spec == Init /\ [][Next]_vars

\* Timers fire and goroutines run.  A select that finds both of its cases
\* ready again and again chooses the end of the context at last.
FairSpec ==
    /\ Spec
    /\ WF_vars(TimerFire)
    /\ WF_vars(RunTick \/ RunExit)
    /\ WF_vars(RunFlush)
    /\ SF_vars(RunExit)

-----------------------------------------------------------------------------
(* Properties.                                                             *)

TypeOK ==
    /\ total \in Int
    /\ closed \in BOOLEAN
    /\ canceled \in BOOLEAN
    /\ timer \in {"armed", "fired", "off"}
    /\ run \in {"select", "tick", "exited"}
    /\ added \in [Adds -> {"idle", "taken", "refused"}]
    /\ taken \in Int
    /\ flushed \in Int
    /\ Threshold > 0 => total < Threshold

\* Whatever Add, the timer, Close and the end of the context do to each other,
\* what the callback got and what is still there is what Add took; and Close
\* leaves nothing that is positive, also when the context ended before it and
\* run is gone, or when a tick is under way (Add, Close, flushLocked, run).
Conserved == taken = flushed + total /\ (closed => total <= 0)

\* After Close the callback is not called again and nothing is taken, not even
\* by a timer that fired before; and before, it gets positive totals only, also
\* after Adds of negative amounts and whoever flushes (Add, Close, run).
FlushesWarranted ==
    [][/\ closed => UNCHANGED <<flushed, total, taken>>
       /\ flushed' # flushed => flushed' > flushed]_vars

\* A positive total is flushed after some time, while the context lives.
TimelyFlush == total > 0 ~> total <= 0 \/ canceled

\* Close, or the end of the context, ends the goroutine of run and leaves no
\* timer armed, although run may arm it again after Close has stopped it.
RunStops == canceled \/ closed ~> [](run = "exited" /\ timer = "off")
=============================================================================

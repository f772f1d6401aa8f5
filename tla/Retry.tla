------------------------------- MODULE Retry -------------------------------
(***************************************************************************)
(* Retry of retry.go: one Do with the options of a NewRetry, against a ctx *)
(* that may end at any time, fn, and the timer between two calls of fn.    *)
(* Factors count halves, so backoff 1 is 0.5 and jitter 2 is 1.0.  Delays  *)
(* are integers of -Widest - 1 .. Widest, as Durations are of 64 bits.     *)
(***************************************************************************)
EXTENDS Integers

CONSTANTS
    Options,    \* RetryOptions to check
    Widest,     \* the longest Duration
    MaxCalls    \* bound of the count of calls, which stays there

ASSUME RetryAssumption ==
    /\ Options \subseteq [attempts : Int, delay : Int, backoff : Int, jitter : Int,
                          maxDelay : Int, maxDuration : BOOLEAN]
    /\ Widest \in Nat
    /\ \A o \in Options : o.attempts < MaxCalls /\ o.delay <= Widest

VARIABLES
    r,          \* the Retry
    pc,         \* "call": in fn, "wait": in the select, "next": before the next call
    calls,      \* calls of fn
    late,       \* calls of fn that began when ctx was done
    delay,      \* delay of Do
    wait,       \* duration of the timer
    ended,      \* ctx.Err(), "no" if there is none
    result      \* what Do returned: "nil", "error" of fn, or ctx.Err()

doVars == <<r, pc, calls, late, delay, wait, ended, result>>

Reasons == {"canceled", "timeout"}

\* The options that NewRetry takes.
Accepted(o) ==
    /\ o.attempts >= 0 /\ o.delay >= 0 /\ o.backoff >= 0 /\ o.maxDelay >= 0
    /\ o.jitter \in 0 .. 2
    /\ o.attempts = 0 /\ ~o.maxDuration => o.delay # 0

NewRetry(o) == [o EXCEPT !.backoff = IF @ = 0 THEN 2 ELSE @]

\* Do has called fn for the first time, perhaps with a ctx that is done.
DoInit ==
    /\ r \in {NewRetry(o) : o \in {x \in Options : Accepted(x)}}
    /\ pc = "call"
    /\ calls = 1
    /\ ended \in Reasons \cup {"no"}
    /\ late = IF ended = "no" THEN 0 ELSE 1
    /\ delay = r.delay
    /\ wait = 0
    /\ result = "none"

-----------------------------------------------------------------------------
Return(value) ==
    /\ pc' = "done"
    /\ result' = value
    /\ UNCHANGED <<r, calls, late, delay, wait, ended>>

\* Mutant: one attempt too many.
LastButOne == r.attempts > 0 /\ calls = r.attempts + 1

LastAttempt == r.attempts > 0 /\ calls = r.attempts

FnSucceeds == pc = "call" /\ Return("nil")

FnFailsLast == pc = "call" /\ LastAttempt /\ Return("error")

\* Mutant: only the select looks at ctx.
CtxSeenInSelect == FALSE

\* ctx.Err() # nil after a failed call.
CtxSeen == ended # "no"

FnFailsEnded == pc = "call" /\ ~LastAttempt /\ CtxSeen /\ Return(ended)

\* jitterDelay for a positive delay.
Jittered == (delay * (2 - r.jitter)) \div 2 .. delay

FnFails ==
    /\ pc = "call" /\ ~LastAttempt /\ ~CtxSeen
    /\ IF delay > 0
       THEN pc' = "wait" /\ wait' \in Jittered
       ELSE pc' = "next" /\ UNCHANGED wait
    /\ UNCHANGED <<r, calls, late, delay, ended, result>>

TimerFires ==
    /\ pc = "wait"
    /\ pc' = "next"
    /\ UNCHANGED <<r, calls, late, delay, wait, ended, result>>

\* Stop tells apart a timer whose value was received, so Do never hangs here.
CtxDone == pc = "wait" /\ ended # "no" /\ Return(ended)

\* The product as a Duration: what becomes of one that is too large depends on
\* the processor, which gives the least or the largest number.
Scaled ==
    LET product == (delay * r.backoff) \div 2
    IN IF delay < 0 THEN {-Widest - 1}
       ELSE IF product <= Widest THEN {product}
       ELSE {-Widest - 1, Widest}

\* Mutant: MaxDelay only holds for the next delay but one.
CappedLate(d) == IF r.maxDelay > 0 /\ delay > r.maxDelay THEN r.maxDelay ELSE d

Capped(d) == IF r.maxDelay > 0 /\ d > r.maxDelay THEN r.maxDelay ELSE d

\* The delay grows and fn is called again.
FnAgain ==
    /\ pc = "next"
    /\ pc' = "call"
    /\ delay' \in {Capped(d) : d \in Scaled}
    /\ calls' = IF calls = MaxCalls THEN calls ELSE calls + 1
    /\ late' = IF ended = "no" \/ late = 2 THEN late ELSE late + 1
    /\ UNCHANGED <<r, wait, ended, result>>

CtxEnds(reason) ==
    /\ pc # "done" /\ ended = "no"
    /\ ended' = reason
    /\ UNCHANGED <<r, pc, calls, late, delay, wait, result>>

DoDone == pc = "done" /\ UNCHANGED doVars

DoNext ==
    \/ FnSucceeds \/ FnFailsLast \/ FnFailsEnded \/ FnFails
    \/ TimerFires \/ CtxDone \/ FnAgain
    \/ \E reason \in Reasons : CtxEnds(reason)
    \/ DoDone

DoSpec == DoInit /\ [][DoNext]_doVars

\* fn returns, timers fire, and a MaxDuration passes.
DoFairSpec ==
    /\ DoSpec
    /\ WF_doVars(FnSucceeds \/ FnFailsLast \/ FnFailsEnded \/ FnFails)
    /\ WF_doVars(TimerFires \/ CtxDone)
    /\ WF_doVars(FnAgain)
    /\ WF_doVars(r.maxDuration /\ CtxEnds("timeout"))

-----------------------------------------------------------------------------
(* Properties.                                                             *)

\* What Do returns says why it gave up (doc of Do): the error of fn only when
\* all attempts were made, ctx.Err() only when ctx was done before the last one.
ResultMeans ==
    /\ r.attempts > 0 => calls <= r.attempts
    /\ result = "error" => r.attempts > 0 /\ calls = r.attempts
    /\ result \in Reasons => ended = result /\ (r.attempts = 0 \/ calls < r.attempts)

\* When ctx is done fn is called at most once more: when it ended as the timer
\* fired, right before the call, or before Do.
OneLateCall == late <= 1

\* Every wait but the first is within MaxDelay, also when the delay overflows.
LaterWaitsLimited == pc = "wait" /\ calls > 1 /\ r.maxDelay > 0 => wait <= r.maxDelay

\* Do returns if its attempts or its duration are limited, or ctx is done.
DoReturns == r.attempts > 0 \/ r.maxDuration \/ ended # "no" ~> pc = "done"
=============================================================================

---------------------------- MODULE TimerProofs ----------------------------
(***************************************************************************)
(* Proofs about the two that wait for timers.  Accumulator, for every set  *)
(* of calls, amounts and threshold: nothing that Add took is lost or       *)
(* handed over twice, and Close is the last to call the callback.  Retry,  *)
(* for every set of options and every width of a Duration: why Do gives    *)
(* up, how often fn is called when ctx is done, and how long Do waits,     *)
(* also when the product of delay and backoff is more than a Duration      *)
(* holds.                                                                  *)
(***************************************************************************)
EXTENDS Accumulator, Retry, TLAPS

-----------------------------------------------------------------------------
(* Accumulator.                                                            *)

IInv == TypeOK /\ Conserved

LEMMA IInvInit == Init => IInv
<1> SUFFICES ASSUME Init PROVE IInv
  OBVIOUS
<1>1. added \in [Adds -> {"idle", "taken", "refused"}]
  BY DEF Init
<1>2. total = 0 /\ taken = 0 /\ flushed = 0 /\ (Threshold > 0 => total < Threshold)
  BY AccumulatorAssumption DEF Init
<1>3. /\ closed \in BOOLEAN
      /\ canceled \in BOOLEAN
      /\ timer \in {"armed", "fired", "off"}
      /\ run \in {"select", "tick", "exited"}
  BY DEF Init
<1>. QED
  BY <1>1, <1>2, <1>3 DEF IInv, TypeOK, Conserved

LEMMA IInvAdd == ASSUME IInv, NEW a \in Adds, Add(a) PROVE IInv'
<1> USE AccumulatorAssumption DEF IInv, TypeOK, Conserved
<1>1. Amount[a] \in Int
  OBVIOUS
<1>2. CASE closed
  BY <1>2 DEF Add
<1>3. CASE ~closed /\ AtThreshold(total + Amount[a])
  BY <1>1, <1>3 DEF Add, Flush
<1>4. CASE ~closed /\ ~AtThreshold(total + Amount[a])
  BY <1>1, <1>4 DEF Add, AtThreshold
<1>. QED
  BY <1>2, <1>3, <1>4

LEMMA IInvNext == IInv /\ [Next]_vars => IInv'
<1> SUFFICES ASSUME IInv, [Next]_vars PROVE IInv'
  OBVIOUS
<1> USE AccumulatorAssumption DEF IInv, TypeOK, Conserved
<1>1. CASE \E a \in Adds : Add(a)
  BY <1>1, IInvAdd
<1>2. CASE Close
  BY <1>2 DEF Close, Left, FlushLast, Flush, Cancel
<1>3. CASE ParentEnd
  BY <1>3 DEF ParentEnd
<1>4. CASE TimerFire
  BY <1>4 DEF TimerFire
<1>5. CASE RunTick
  BY <1>5 DEF RunTick
<1>6. CASE RunFlush
  BY <1>6 DEF RunFlush, Due, Flush, Rearm
<1>7. CASE RunExit
  BY <1>7 DEF RunExit
<1>8. CASE UNCHANGED vars
  BY <1>8 DEF vars
<1>. QED
  BY <1>1, <1>2, <1>3, <1>4, <1>5, <1>6, <1>7, <1>8 DEF Next, Done

THEOREM Invariant == Spec => []IInv
  BY IInvInit, IInvNext, PTL DEF Spec

\* What Add took is what the callback was given and what is still there, and
\* that is not positive once Close has returned.
THEOREM NothingLost == Spec => []Conserved
<1>1. IInv => Conserved
  BY DEF IInv
<1>. QED
  BY Invariant, <1>1, PTL

\* After Close a tick of run that was under way finds nothing to flush.
LEMMA CloseIsLast ==
    ASSUME IInv, Next, closed PROVE UNCHANGED <<flushed, total, taken>>
<1>1. ~(total > 0)
  BY DEF IInv, TypeOK, Conserved
<1>2. CASE RunFlush
  BY <1>1, <1>2 DEF RunFlush, Due
<1>3. CASE \E a \in Adds : Add(a)
  BY <1>3 DEF Add
<1>. QED
  BY <1>2, <1>3 DEF Next, Close, ParentEnd, TimerFire, RunTick, RunExit, Done, vars

\* The callback is never given a negative total, nor zero.
LEMMA PositiveTotals ==
    ASSUME IInv, Next, flushed' # flushed PROVE flushed' > flushed
<1>1. flushed \in Int /\ total \in Int
  BY DEF IInv, TypeOK
<1>2. \E t \in Int : t > 0 /\ flushed' = flushed + t
  <2>1. CASE \E a \in Adds : Add(a)
    BY <1>1, <2>1, AccumulatorAssumption DEF Add, AtThreshold, Flush
  <2>2. CASE Close \/ RunFlush
    BY <1>1, <2>2 DEF Close, Left, FlushLast, RunFlush, Due, Flush
  <2>. QED
    BY <2>1, <2>2 DEF Next, ParentEnd, TimerFire, RunTick, RunExit, Done, vars
<1>. QED
  BY <1>1, <1>2

\* The callback is called for positive totals only, and not after Close.
THEOREM FlushesAreWarranted == Spec => FlushesWarranted
<1>1. IInv /\ [Next]_vars
        => [/\ closed => UNCHANGED <<flushed, total, taken>>
            /\ flushed' # flushed => flushed' > flushed]_vars
  BY CloseIsLast, PositiveTotals
<1>. QED
  BY Invariant, <1>1, PTL DEF Spec, FlushesWarranted

-----------------------------------------------------------------------------
(* Retry: numbers.                                                         *)

\* A half of a product of numbers.
LEMMA Halved ==
    ASSUME NEW m \in Nat, NEW n \in Nat
    PROVE  (m * n) \div 2 \in Nat
<1>1. m * n \in Nat
  OBVIOUS
<1>2. \A p \in Nat : p \div 2 \in Nat
  OBVIOUS
<1>. QED
  BY <1>1, <1>2

\* The delays: negative is only what a product that is too large may become.
Delays == {-Widest - 1} \cup 0 .. Widest

\* What NewRetry returns.
Retries == [attempts : Nat, delay : 0 .. Widest, backoff : Nat, jitter : 0 .. 2,
            maxDelay : Nat, maxDuration : BOOLEAN]

-----------------------------------------------------------------------------
(* The inductive invariant of Retry.                                       *)

\* Every wait is of a Duration that is not negative.
Typed ==
    /\ r \in Retries
    /\ pc \in {"call", "wait", "next", "done"}
    /\ calls \in Nat \ {0}
    /\ late \in 0 .. 1
    /\ delay \in Delays
    /\ wait \in 0 .. Widest
    /\ ended \in Reasons \cup {"no"}
    /\ result \in Reasons \cup {"none", "nil", "error"}

\* Do has no result while it is under way.
Undecided == pc # "done" => result = "none"

\* Between two calls of fn another one is left to be made.
AnotherLeft == pc \in {"wait", "next"} /\ r.attempts > 0 => calls < r.attempts

\* fn was not called late before its last call.
NotLateYet ==
    /\ pc \in {"wait", "next"} => late = 0
    /\ pc = "call" /\ ended = "no" => late = 0

\* The delay is capped once it has grown, and no wait is longer.
DelayCapped ==
    /\ calls > 1 /\ r.maxDelay > 0 => delay <= r.maxDelay
    /\ pc = "wait" => wait <= delay

DoInv == Typed /\ Undecided /\ ResultMeans /\ AnotherLeft /\ NotLateYet /\ DelayCapped

\* NewRetry takes no option that is out of range.
LEMMA NewRetryTyped ==
    ASSUME NEW o \in Options, Accepted(o)
    PROVE  NewRetry(o) \in Retries
<1>1. /\ o \in [attempts : Int, delay : Int, backoff : Int, jitter : Int,
                maxDelay : Int, maxDuration : BOOLEAN]
      /\ Widest \in Nat /\ o.delay <= Widest
  BY RetryAssumption
<1>2. o.attempts \in Nat /\ o.delay \in 0 .. Widest /\ o.backoff \in Nat /\ o.maxDelay \in Nat
  BY <1>1 DEF Accepted
<1>. QED
  BY <1>1, <1>2 DEF Accepted, NewRetry, Retries

LEMMA DoInvInit == DoInit => DoInv
<1>. SUFFICES ASSUME DoInit PROVE DoInv
  OBVIOUS
<1>1. r \in Retries
  BY NewRetryTyped DEF DoInit
<1>2. Widest \in Nat
  BY RetryAssumption
<1>3. Typed
  BY <1>1, <1>2 DEF DoInit, Typed, Retries, Delays, Reasons
<1>4. ResultMeans /\ AnotherLeft
  BY <1>1 DEF DoInit, ResultMeans, AnotherLeft, Reasons, Retries
<1>5. Undecided /\ NotLateYet /\ DelayCapped
  BY DEF DoInit, Undecided, NotLateYet, DelayCapped
<1>. QED
  BY <1>3, <1>4, <1>5 DEF DoInv

\* The wait is between the part of the delay that jitter leaves and the delay.
LEMMA JitterKeeps ==
    ASSUME Typed, delay > 0, NEW w \in Jittered
    PROVE  w \in 0 .. Widest /\ w <= delay
<1>1. delay \in Nat /\ delay <= Widest /\ Widest \in Nat /\ 2 - r.jitter \in Nat
  BY RetryAssumption DEF Typed, Delays, Retries
<1>2. (delay * (2 - r.jitter)) \div 2 \in Nat
  BY <1>1, Halved
<1>. QED
  BY <1>1, <1>2 DEF Jittered

\* The next delay is a Duration, and not longer than MaxDelay.
LEMMA CapKeeps ==
    ASSUME Typed, NEW d \in Scaled
    PROVE  /\ Capped(d) \in Delays
           /\ r.maxDelay > 0 => Capped(d) <= r.maxDelay
<1>1. Widest \in Nat /\ r.maxDelay \in Nat /\ r.backoff \in Nat /\ delay \in Int
  BY RetryAssumption DEF Typed, Delays, Retries
<1>2. d \in Delays
  <2>1. CASE delay < 0
    BY <1>1, <2>1 DEF Scaled, Delays
  <2>2. CASE delay >= 0
    <3>1. (delay * r.backoff) \div 2 \in Nat
      BY <1>1, <2>2, Halved
    <3>. QED
      BY <1>1, <2>2, <3>1 DEF Scaled, Delays
  <2>. QED
    BY <1>1, <2>1, <2>2
<1>. QED
  BY <1>1, <1>2 DEF Capped, Delays

\* What the return of Do keeps.
LEMMA ReturnKeeps ==
    ASSUME DoInv, NEW value \in Reasons \cup {"nil", "error"}, Return(value),
           value = "error" => LastAttempt,
           value \in Reasons => ended = value /\ (r.attempts = 0 \/ calls < r.attempts)
    PROVE  DoInv'
<1>1. Typed'
  BY DEF DoInv, Typed, Return, Delays
<1>2. ResultMeans'
  BY DEF DoInv, ResultMeans, Return, LastAttempt, Reasons
<1>3. Undecided' /\ AnotherLeft' /\ NotLateYet' /\ DelayCapped'
  BY DEF DoInv, Undecided, AnotherLeft, NotLateYet, DelayCapped, Return
<1>. QED
  BY <1>1, <1>2, <1>3 DEF DoInv

\* Every step keeps it.
LEMMA DoInvNext == DoInv /\ [DoNext]_doVars => DoInv'
<1>. SUFFICES ASSUME DoInv, [DoNext]_doVars PROVE DoInv'
  OBVIOUS
<1>1. r.attempts \in Nat /\ r.maxDelay \in Nat /\ calls \in Nat
  BY DEF DoInv, Typed, Retries
<1>2. CASE FnSucceeds
  BY <1>2, ReturnKeeps DEF FnSucceeds, Reasons
<1>3. CASE FnFailsLast
  BY <1>3, ReturnKeeps DEF FnFailsLast, Reasons
<1>4. CASE FnFailsEnded
  <2>1. ended \in Reasons /\ (r.attempts = 0 \/ calls < r.attempts)
    BY <1>1, <1>4 DEF FnFailsEnded, LastAttempt, CtxSeen, DoInv, Typed, ResultMeans
  <2>. QED
    BY <1>4, <2>1, ReturnKeeps DEF FnFailsEnded, Reasons
<1>5. CASE CtxDone
  <2>1. ended \in Reasons /\ (r.attempts = 0 \/ calls < r.attempts)
    BY <1>1, <1>5 DEF CtxDone, DoInv, Typed, AnotherLeft
  <2>. QED
    BY <1>5, <2>1, ReturnKeeps DEF CtxDone, Reasons
<1>6. CASE FnFails
  <2>. USE <1>6 DEF FnFails
  <2>1. UNCHANGED <<r, calls, late, delay, ended, result>> /\ pc' \in {"wait", "next"}
    OBVIOUS
  <2>2. wait' \in 0 .. Widest /\ (pc' = "wait" => wait' <= delay)
    BY JitterKeeps DEF DoInv, Typed
  <2>3. Typed' /\ DelayCapped'
    BY <2>1, <2>2 DEF DoInv, Typed, DelayCapped, Delays
  <2>4. AnotherLeft'
    BY <1>1, <2>1 DEF DoInv, ResultMeans, AnotherLeft, LastAttempt
  <2>5. Undecided' /\ NotLateYet' /\ ResultMeans'
    BY <2>1 DEF DoInv, Undecided, NotLateYet, ResultMeans, CtxSeen, Reasons
  <2>. QED
    BY <2>3, <2>4, <2>5 DEF DoInv
<1>7. CASE TimerFires
  <2>1. Typed' /\ Undecided' /\ ResultMeans'
    BY <1>7 DEF TimerFires, DoInv, Typed, Undecided, ResultMeans
  <2>2. AnotherLeft' /\ NotLateYet' /\ DelayCapped'
    BY <1>7 DEF TimerFires, DoInv, AnotherLeft, NotLateYet, DelayCapped
  <2>. QED
    BY <2>1, <2>2 DEF DoInv
<1>8. CASE FnAgain
  <2>. USE <1>8 DEF FnAgain
  <2>1. UNCHANGED <<r, wait, ended, result>> /\ pc' = "call"
    OBVIOUS
  <2>2. calls' \in {calls, calls + 1} /\ calls' \in Nat \ {0}
    BY <1>1 DEF DoInv, Typed
  <2>3. delay' \in Delays /\ (r.maxDelay > 0 => delay' <= r.maxDelay)
    BY CapKeeps DEF DoInv
  <2>4. late' = IF ended = "no" THEN 0 ELSE 1
    BY DEF DoInv, NotLateYet
  <2>5. Typed'
    BY <2>1, <2>2, <2>3, <2>4 DEF DoInv, Typed
  <2>6. Undecided' /\ ResultMeans' /\ AnotherLeft'
    <3>1. result = "none"
      BY DEF DoInv, Undecided
    <3>. QED
      BY <1>1, <2>1, <2>2, <3>1 DEF DoInv, Undecided, ResultMeans, AnotherLeft, Reasons
  <2>7. NotLateYet' /\ DelayCapped'
    BY <2>1, <2>3, <2>4 DEF NotLateYet, DelayCapped
  <2>. QED
    BY <2>5, <2>6, <2>7 DEF DoInv
<1>9. ASSUME NEW reason \in Reasons, CtxEnds(reason) PROVE DoInv'
  <2>. USE <1>9 DEF CtxEnds
  <2>1. Typed'
    BY DEF DoInv, Typed, Delays
  <2>2. ResultMeans'
    BY DEF DoInv, ResultMeans, Reasons
  <2>3. Undecided' /\ AnotherLeft' /\ NotLateYet' /\ DelayCapped'
    BY DEF DoInv, Undecided, AnotherLeft, NotLateYet, DelayCapped, Reasons
  <2>. QED
    BY <2>1, <2>2, <2>3 DEF DoInv
<1>10. CASE DoDone \/ UNCHANGED doVars
  BY <1>10 DEF DoDone, doVars, DoInv, Typed, Undecided, ResultMeans, AnotherLeft, NotLateYet, DelayCapped
<1>. QED
  BY <1>2, <1>3, <1>4, <1>5, <1>6, <1>7, <1>8, <1>9, <1>10 DEF DoNext

\* It holds in every state.
LEMMA DoInductive == DoSpec => []DoInv
BY DoInvInit, DoInvNext, PTL DEF DoSpec

-----------------------------------------------------------------------------
(* Theorems about every behaviour of Do.                                   *)

\* The types: the delay is always a Duration, and no timer has a negative one,
\* also after the product has overflowed (retry.go:120-121, 134-138, 144-153).
THEOREM WaitsAreDurations == DoSpec => []Typed
BY DoInductive, PTL DEF DoInv

\* What Do returns says why it gave up: the error of fn when all its attempts
\* were made, ctx.Err() when ctx was done before the last of them
\* (retry.go:112-128, 141).
THEOREM ResultsMean == DoSpec => []ResultMeans
BY DoInductive, PTL DEF DoInv

\* At most one call of fn begins when ctx is done: the one that Do was
\* about to make, or its first (retry.go:107, 116, 123-131).
THEOREM CalledLateOnce == DoSpec => []OneLateCall
<1>1. DoInv => OneLateCall
  BY DEF DoInv, Typed, OneLateCall
<1>. QED
  BY <1>1, DoInductive, PTL

\* No wait but the first is longer than MaxDelay, whatever becomes of a product that
\* overflows (retry.go:134-138).
THEOREM MaxDelayHolds == DoSpec => []LaterWaitsLimited
<1>1. DoInv => LaterWaitsLimited
  BY DEF DoInv, Typed, DelayCapped, LaterWaitsLimited, Retries, Delays
<1>. QED
  BY <1>1, DoInductive, PTL
=============================================================================

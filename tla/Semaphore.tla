----------------------------- MODULE Semaphore -----------------------------
(***************************************************************************)
(* Semaphore of semaphore.go: a channel with one value for every slot that *)
(* is taken.  A caller takes a slot at most once, with Acquire, and then   *)
(* gives it back.                                                          *)
(***************************************************************************)
EXTENDS Naturals, FiniteSets

CONSTANTS
    Callers,    \* goroutines that take a slot
    Ending,     \* those whose ctx may end
    Size        \* capacity of the channel

\* NewSemaphore replaces a size that is not positive by 1.
ASSUME SemaphoreAssumption == IsFiniteSet(Callers) /\ Size \in Nat \ {0}

VARIABLES
    slots,      \* number of values in the channel s.ch
    caller,     \* where each caller is
    ended       \* callers whose ctx is done

semVars == <<slots, caller, ended>>

SemInit ==
    /\ slots = 0
    /\ caller = [c \in Callers |-> "idle"]
    /\ ended = {}

\* A send on the channel does not block.
Room == slots < Size

\* Acquire reaches its select.
AcquireBegin(c) ==
    /\ caller[c] = "idle"
    /\ caller' = [caller EXCEPT ![c] = "select"]
    /\ UNCHANGED <<slots, ended>>

AcquireSlot(c) ==
    /\ caller[c] = "select" /\ Room
    /\ caller' = [caller EXCEPT ![c] = "held"]
    /\ slots' = slots + 1
    /\ UNCHANGED ended

\* Acquire gives up, which it may do although there is a slot.
AcquireCtx(c) ==
    /\ caller[c] = "select" /\ c \in ended
    /\ caller' = [caller EXCEPT ![c] = "failed"]
    /\ UNCHANGED <<slots, ended>>

\* Mutant: the slot is not given back.
ReleaseForgotten(c) ==
    /\ caller[c] = "held" /\ slots > 0
    /\ caller' = [caller EXCEPT ![c] = "released"]
    /\ UNCHANGED <<slots, ended>>

\* Release; without a value in the channel it would block.
Release(c) ==
    /\ caller[c] = "held" /\ slots > 0
    /\ caller' = [caller EXCEPT ![c] = "released"]
    /\ slots' = slots - 1
    /\ UNCHANGED ended

\* An end before or after Acquire shows in no other way.
CtxEnd(c) ==
    /\ c \in Ending \ ended /\ caller[c] = "select"
    /\ ended' = ended \cup {c}
    /\ UNCHANGED <<slots, caller>>
=============================================================================

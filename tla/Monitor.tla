------------------------------ MODULE Monitor ------------------------------
(***************************************************************************)
(* What Buffer[T] of buffer.go and Stack[T] of stack.go have in common:    *)
(* their calls, and a mutex with a condition variable.                     *)
(*                                                                         *)
(* Every call is one member of a set of calls and is made at most once; a  *)
(* Push stands for the value it carries.  An operation holds mu from its   *)
(* start to its end, so it is one step, except Next and Pop, which give mu *)
(* up in cond.Wait and take it again later, after others may have barged   *)
(* in.                                                                     *)
(***************************************************************************)
EXTENDS Naturals, FiniteSets

CONSTANTS
    Pushes,     \* calls of Push, each with a value of its own
    Takes,      \* calls of Next, of Pop
    TryTakes,   \* calls of TryNext, of TryPop
    Capacity,   \* initialCapacity of NewBuffer, of NewStack
    None,       \* the zero value of T, and no result
    Missing     \* the result of a call that returns false

Getters == Takes \cup TryTakes

\* NewBuffer and NewStack replace a capacity that is not positive by 1.
ASSUME MonitorAssumption ==
    /\ Capacity \in Nat \ {0}
    /\ Takes \cap TryTakes = {}
    /\ IsFiniteSet(Takes)
    /\ None \notin Pushes \cup {Missing}
    /\ Missing \notin Pushes

VARIABLES
    items,      \* the array of values
    len,        \* the number of values in it
    closed,     \* the field of that name
    pushed,     \* whether each Push was made, and its result
    got,        \* result of each Next, Pop, TryNext and TryPop
    sleeping,   \* calls of Next, of Pop asleep in cond.Wait
    woken       \* those woken from cond.Wait that do not have mu yet

monitorVars == <<items, len, closed, pushed, got, sleeping, woken>>

\* The state of a new Buffer or Stack, but for its array.
MonitorInit ==
    /\ len = 0
    /\ closed = FALSE
    /\ pushed = [p \in Pushes |-> "idle"]
    /\ got = [g \in Getters |-> None]
    /\ sleeping = {}
    /\ woken = {}

\* Mutant: a Signal only when there was no value.
SignalFirst ==
    IF sleeping = {} \/ len > 0 THEN UNCHANGED <<sleeping, woken>>
    ELSE \E s \in sleeping : sleeping' = sleeping \ {s} /\ woken' = woken \cup {s}

\* cond.Signal wakes one sleeper, if there is one; cond.Broadcast wakes all.
Signal ==
    IF sleeping = {} THEN UNCHANGED <<sleeping, woken>>
    ELSE \E s \in sleeping : sleeping' = sleeping \ {s} /\ woken' = woken \cup {s}

\* Mutant: no broadcast.
NoBroadcast == UNCHANGED <<sleeping, woken>>

Broadcast == sleeping' = {} /\ woken' = woken \cup sleeping

\* Close; a call on a closed buffer or stack changes nothing.
Close ==
    /\ ~closed
    /\ closed' = TRUE
    /\ Broadcast
    /\ UNCHANGED <<items, len, pushed, got>>

\* Every call has returned.
AllReturned ==
    /\ closed
    /\ \A p \in Pushes : pushed[p] # "idle"
    /\ \A g \in Getters : got[g] # None

-----------------------------------------------------------------------------
(* A property of both.                                                     *)

\* No lost wakeup: while calls of Next or Pop sleep, there is a woken one on its
\* way for every value, and none sleeps after Close.
NoLostWakeup == sleeping # {} => ~closed /\ len <= Cardinality(woken)
=============================================================================

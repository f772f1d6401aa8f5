------------------------------- MODULE Stack -------------------------------
(***************************************************************************)
(* Stack[T] of stack.go: a LIFO in an array that doubles when it is full;  *)
(* items is a sequence.                                                    *)
(***************************************************************************)
EXTENDS Monitor, Sequences

Zeros(n) == [k \in 1 .. n |-> None]

StackInit == items = Zeros(Capacity) /\ MonitorInit

-----------------------------------------------------------------------------
\* Mutant: the new array starts empty.
GrownEmpty == IF len < Len(items) THEN items ELSE Zeros(2 * Len(items))

\* The array after growLocked.
Grown == IF len < Len(items) THEN items ELSE items \o Zeros(Len(items))

PushOnTop(p) ==
    /\ pushed[p] = "idle"
    /\ IF closed
       THEN /\ pushed' = [pushed EXCEPT ![p] = "closed"]
            /\ UNCHANGED <<items, len, sleeping, woken>>
       ELSE /\ pushed' = [pushed EXCEPT ![p] = "ok"]
            /\ items' = [Grown EXCEPT ![len + 1] = p]
            /\ len' = len + 1
            /\ Signal
    /\ UNCHANGED <<closed, got>>

TopCleared == [items EXCEPT ![len] = None]

PopLocked(g) ==
    /\ got' = [got EXCEPT ![g] = items[len]]
    /\ items' = TopCleared
    /\ len' = len - 1

\* Pop, when it starts and when it has s.mu again after cond.Wait.
Pop(n) ==
    /\ got[n] = None /\ n \notin sleeping
    /\ \/ /\ len = 0 /\ ~closed
          /\ sleeping' = sleeping \cup {n}
          /\ UNCHANGED <<items, len, got>>
       \/ /\ len = 0 /\ closed
          /\ got' = [got EXCEPT ![n] = Missing]
          /\ UNCHANGED <<items, len, sleeping>>
       \/ len > 0 /\ PopLocked(n) /\ UNCHANGED sleeping
    /\ woken' = woken \ {n}
    /\ UNCHANGED <<closed, pushed>>

TryPop(t) ==
    /\ got[t] = None
    /\ \/ /\ len = 0
          /\ got' = [got EXCEPT ![t] = Missing]
          /\ UNCHANGED <<items, len>>
       \/ len > 0 /\ PopLocked(t)
    /\ UNCHANGED <<closed, pushed, sleeping, woken>>

StackDone == AllReturned /\ UNCHANGED monitorVars

StackNext ==
    \/ \E p \in Pushes : PushOnTop(p)
    \/ \E n \in Takes : Pop(n)
    \/ \E t \in TryTakes : TryPop(t)
    \/ Close
    \/ StackDone

StackSpec == StackInit /\ [][StackNext]_monitorVars

-----------------------------------------------------------------------------
(* Properties.                                                             *)

\* The stack gives the newest value to each getter, through any growth, and
\* turns none away wrongly.
Pile == INSTANCE Lifo WITH
    Values <- Pushes, Waiters <- Takes, shut <- closed,
    content <- [i \in 1 .. len |-> items[len + 1 - i]]

LifoKept == Pile!LSpec
=============================================================================

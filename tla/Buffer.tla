------------------------------- MODULE Buffer -------------------------------
(***************************************************************************)
(* Buffer[T] of buffer.go: a FIFO in a ring that doubles when it is full.  *)
(***************************************************************************)
EXTENDS Monitor, Sequences

VARIABLES
    size,       \* len(b.items), where items is a function on 0 .. size - 1
    head        \* b.head

vars == <<monitorVars, size, head>>

Init ==
    /\ items = [k \in 0 .. Capacity - 1 |-> None]
    /\ size = Capacity
    /\ head = 0
    /\ MonitorInit

-----------------------------------------------------------------------------
\* The k-th value of the buffer, counted from 0.
Slot(k) == (head + k) % size

\* Mutant: the copy forgets that the ring wraps.
CopiedStraight ==
    [k \in 0 .. 2 * size - 1 |-> IF k < len /\ head + k < size THEN items[head + k] ELSE None]

\* The copy growLocked makes of a full ring: up to its end, then from its start.
Copied ==
    [k \in 0 .. 2 * size - 1 |->
        IF head + len <= size
        THEN IF k < len THEN items[head + k] ELSE None
        ELSE IF k < size - head THEN items[head + k]
             ELSE IF k < len THEN items[k - (size - head)] ELSE None]

\* growLocked has to grow.
Full == len >= size

\* Push, with growLocked.
Push(p) ==
    /\ pushed[p] = "idle"
    /\ IF closed
       THEN /\ pushed' = [pushed EXCEPT ![p] = "closed"]
            /\ UNCHANGED <<items, size, head, len, sleeping, woken>>
       ELSE /\ pushed' = [pushed EXCEPT ![p] = "ok"]
            /\ IF Full
               THEN /\ items' = [Copied EXCEPT ![len] = p]
                    /\ size' = 2 * size
                    /\ head' = 0
               ELSE /\ items' = [items EXCEPT ![Slot(len)] = p]
                    /\ UNCHANGED <<size, head>>
            /\ len' = len + 1
            /\ Signal
    /\ UNCHANGED <<closed, got>>

\* The ring after its first value was cleared.
Cleared == [items EXCEPT ![head] = None]

\* The head after its value was removed: at 0 when that was the last one.
NextHead == IF len = 1 THEN 0 ELSE (head + 1) % size

\* nextLocked.
NextLocked(g) ==
    /\ got' = [got EXCEPT ![g] = items[head]]
    /\ items' = Cleared
    /\ head' = NextHead
    /\ len' = len - 1

\* Next of the source, when it starts and when it has b.mu again after cond.Wait.
NextCall(n) ==
    /\ got[n] = None
    /\ n \notin sleeping
    /\ \/ /\ len = 0 /\ ~closed
          /\ sleeping' = sleeping \cup {n}
          /\ UNCHANGED <<items, head, len, got>>
       \/ /\ len = 0 /\ closed
          /\ got' = [got EXCEPT ![n] = Missing]
          /\ UNCHANGED <<items, head, len, sleeping>>
       \/ /\ len > 0
          /\ NextLocked(n)
          /\ UNCHANGED sleeping
    /\ woken' = woken \ {n}
    /\ UNCHANGED <<size, closed, pushed>>

TryNext(t) ==
    /\ got[t] = None
    /\ \/ /\ len = 0
          /\ got' = [got EXCEPT ![t] = Missing]
          /\ UNCHANGED <<items, head, len>>
       \/ /\ len > 0
          /\ NextLocked(t)
    /\ UNCHANGED <<size, closed, pushed, sleeping, woken>>

Done == AllReturned /\ UNCHANGED vars

Next ==
    \/ \E p \in Pushes : Push(p)
    \/ \E n \in Takes : NextCall(n)
    \/ \E t \in TryTakes : TryNext(t)
    \/ Close /\ UNCHANGED <<size, head>>
    \/ Done

Spec == Init /\ [][Next]_vars

\* A Next that was woken gets b.mu.
Fairness == \A n \in Takes : WF_vars(n \in woken /\ NextCall(n))

FairSpec == Spec /\ Fairness

-----------------------------------------------------------------------------
(* Properties.                                                             *)

\* Every variable keeps its type; the window of len values lies in the ring.
TypeOK ==
    /\ size \in Nat \ {0}
    /\ items \in [0 .. size - 1 -> Pushes \cup {None}]
    /\ head \in 0 .. size - 1
    /\ len \in 0 .. size
    /\ closed \in BOOLEAN
    /\ pushed \in [Pushes -> {"idle", "ok", "closed"}]
    /\ got \in [Getters -> Pushes \cup {None, Missing}]
    /\ sleeping \subseteq Takes
    /\ woken \subseteq Takes

\* A slot holds a value exactly when it is in the window of the len values from
\* head on, so the buffer keeps no value alive that it has given away.
WindowOnly ==
    \A k \in 0 .. size - 1 :
        items[k] # None <=> IF head <= k THEN k < head + len ELSE k + size < head + len

\* The buffer is a queue: values leave in the order of their pushes, through
\* growth and wrapping, each to one getter, and no getter is turned away wrongly.
Content == [i \in 1 .. len |-> items[Slot(i - 1)]]

Promise == INSTANCE Fifo WITH
    Values <- Pushes, Waiters <- Takes, content <- Content, shut <- closed

PromiseKept == Promise!FSpec

\* Close releases every Next, those that sleep and those that were woken.
NextReleased ==
    \A n \in Takes : closed /\ n \in sleeping \cup woken ~> got[n] # None
=============================================================================

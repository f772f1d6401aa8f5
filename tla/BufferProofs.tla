---------------------------- MODULE BufferProofs ----------------------------
(***************************************************************************)
(* Proofs about Buffer, and about Stack, for every capacity and every      *)
(* number of calls: the values are where they should be through growth and *)
(* wrapping, no wakeup is lost, the buffer implements Fifo and the stack   *)
(* implements Lifo.                                                        *)
(***************************************************************************)
EXTENDS Buffer, Stack, TLAPS, FiniteSetTheorems, SequenceTheorems

-----------------------------------------------------------------------------
(* Indexes of the ring.                                                    *)

\* An index that goes past the end of the ring once comes back at its start.
LEMMA RingIndex ==
    \A c \in Nat \ {0}, x \in Nat : x < 2 * c => x % c = IF x < c THEN x ELSE x - c
<1>. TAKE c \in Nat \ {0}, x \in Nat
<1>1. CASE x < c
  BY <1>1
<1>2. CASE c <= x /\ x < 2 * c
  BY <1>2
<1>. QED
  BY <1>1, <1>2

\* The slot of the k-th value, and the head after one value is removed.
LEMMA Slots ==
    ASSUME TypeOK
    PROVE  /\ \A k \in 0 .. size :
                 k < size => Slot(k) = IF head + k < size THEN head + k ELSE head + k - size
           /\ len > 0 => NextHead = IF len = 1 THEN 0
                                    ELSE IF head + 1 < size THEN head + 1 ELSE 0
<1>1. \A x \in Nat : x < 2 * size => x % size = IF x < size THEN x ELSE x - size
  <2>1. size \in Nat \ {0}
    BY DEF TypeOK
  <2>. QED
    BY <2>1, RingIndex
<1>. USE DEF TypeOK
<1>2. ASSUME NEW k \in 0 .. size, k < size
      PROVE  Slot(k) = IF head + k < size THEN head + k ELSE head + k - size
  <2>1. head + k \in Nat /\ head + k < 2 * size
    BY <1>2
  <2>2. (head + k) % size = IF head + k < size THEN head + k ELSE (head + k) - size
    BY <2>1, <1>1 
  <2>. QED
    BY <2>2 DEF Slot
<1>3. ASSUME len > 0
      PROVE  NextHead = IF len = 1 THEN 0 ELSE IF head + 1 < size THEN head + 1 ELSE 0
  <2>1. CASE len = 1
    BY <2>1 DEF NextHead
  <2>2. CASE len # 1
    <3>1. head + 1 \in Nat /\ head + 1 < 2 * size /\ head + 1 <= size
      BY <1>3, <2>2
    <3>2. (head + 1) % size = IF head + 1 < size THEN head + 1 ELSE (head + 1) - size
      BY <3>1, <1>1
    <3>. QED
      BY <2>2, <3>1, <3>2 DEF NextHead
  <2>. QED
    BY <2>1, <2>2
<1>. QED
  BY <1>2, <1>3

-----------------------------------------------------------------------------
(* The ring.                                                               *)

\* The types and the window.
Ring == TypeOK /\ WindowOnly

\* A Push keeps the types and puts its value next to the window.
LEMMA RingPush ==
    ASSUME Ring, NEW p \in Pushes, Push(p)
    PROVE  Ring'
<1>. USE MonitorAssumption DEF Ring, TypeOK, WindowOnly
<1>1. CASE closed
  BY <1>1 DEF Push
<1>2. CASE ~closed /\ Full
  <2>1. /\ items' = [Copied EXCEPT ![len] = p] /\ size' = 2 * size /\ head' = 0
        /\ len' = len + 1 /\ len = size
    BY <1>2 DEF Push, Full
  <2>2. Copied \in [0 .. 2 * size - 1 -> Pushes \cup {None}]
    BY <2>1 DEF Copied
  <2>3. \A k \in 0 .. 2 * size - 1 : Copied[k] # None <=> k < len
    BY <2>1 DEF Copied
  <2>. QED
    BY <1>2, <2>1, <2>2, <2>3 DEF Push, Signal
<1>3. CASE ~closed /\ ~Full
  <2>1. /\ items' = [items EXCEPT ![Slot(len)] = p] /\ size' = size /\ head' = head
        /\ len' = len + 1 /\ len < size
    BY <1>3 DEF Push, Full
  <2>2. Slot(len) = IF head + len < size THEN head + len ELSE head + len - size
    BY <2>1, Slots
  <2>. QED
    BY <1>3, <2>1, <2>2 DEF Push, Signal
<1>. QED
  BY <1>1, <1>2, <1>3

\* nextLocked clears the first slot and moves the window past it.
LEMMA RingNext ==
    ASSUME Ring, NEW g \in Getters, len > 0, NextLocked(g),
           UNCHANGED <<size, closed, pushed>>
    PROVE  /\ items' \in [0 .. size' - 1 -> Pushes \cup {None}]
           /\ head' \in 0 .. size' - 1 /\ len' \in 0 .. size'
           /\ got' \in [Getters -> Pushes \cup {None, Missing}]
           /\ WindowOnly'
<1>. USE MonitorAssumption DEF Ring, TypeOK, WindowOnly
<1>1. head' = IF len = 1 THEN 0 ELSE IF head + 1 < size THEN head + 1 ELSE 0
  BY Slots DEF NextLocked
<1>2. items' = [items EXCEPT ![head] = None] /\ len' = len - 1
  BY DEF NextLocked, Cleared
<1>3. got' \in [Getters -> Pushes \cup {None, Missing}]
  BY DEF NextLocked
<1>. QED
  BY <1>1, <1>2, <1>3

\* Every step keeps the ring.
LEMMA RingStep == Ring /\ [Next]_vars => Ring'
<1>. SUFFICES ASSUME Ring, [Next]_vars PROVE Ring'
  OBVIOUS
<1>1. ASSUME NEW p \in Pushes, Push(p) PROVE Ring'
  BY <1>1, RingPush
<1>2. ASSUME NEW n \in Takes, NextCall(n) PROVE Ring'
  <2>1. CASE len > 0
    BY <1>2, <2>1, RingNext DEF NextCall, Getters, Ring, TypeOK
  <2>2. CASE len = 0
    BY <1>2, <2>2 DEF NextCall, Getters, Ring, TypeOK, WindowOnly
  <2>. QED
    BY <2>1, <2>2 DEF Ring, TypeOK
<1>3. ASSUME NEW t \in TryTakes, TryNext(t) PROVE Ring'
  <2>1. CASE len > 0
    BY <1>3, <2>1, RingNext DEF TryNext, Getters, Ring, TypeOK
  <2>2. CASE len = 0
    BY <1>3, <2>2 DEF TryNext, Getters, Ring, TypeOK, WindowOnly
  <2>. QED
    BY <2>1, <2>2 DEF Ring, TypeOK
<1>4. CASE Close /\ UNCHANGED <<size, head>>
  BY <1>4 DEF Close, Broadcast, Ring, TypeOK, WindowOnly
<1>5. CASE UNCHANGED vars
  BY <1>5 DEF vars, monitorVars, Ring, TypeOK, WindowOnly
<1>. QED
  BY <1>1, <1>2, <1>3, <1>4, <1>5 DEF Next, Done

-----------------------------------------------------------------------------
(* Wakeups.                                                                *)

\* A set without one of its elements.
LEMMA OneLess ==
    ASSUME NEW S, IsFiniteSet(S), NEW x
    PROVE  /\ IsFiniteSet(S \ {x}) /\ Cardinality(S \ {x}) \in Nat
           /\ Cardinality(S \ {x}) >= Cardinality(S) - 1
<1>1. /\ IsFiniteSet(S \ {x})
      /\ Cardinality(S \ {x}) = IF x \in S THEN Cardinality(S) - 1 ELSE Cardinality(S)
  BY FS_RemoveElement
<1>2. Cardinality(S) \in Nat /\ Cardinality(S \ {x}) \in Nat
  BY <1>1, FS_CardinalityType
<1>. QED
  BY <1>1, <1>2

\* A call sleeps or is awake, and while one sleeps there is a woken one for
\* every value.
WakeInv == NoLostWakeup /\ sleeping \cap woken = {}

\* What the steps of a buffer, and of a stack, do with calls that wait: a value
\* arrives and one is signaled, a call that has the mutex gets a value or none,
\* one that does not wait passes, and all are woken.
Arrives == ~closed /\ len' = len + 1 /\ Signal /\ UNCHANGED closed

HasMutex(n) ==
    /\ woken' = woken \ {n} /\ UNCHANGED closed
    /\ \/ len > 0 /\ len' = len - 1 /\ UNCHANGED sleeping
       \/ len = 0 /\ ~closed /\ sleeping' = sleeping \cup {n} /\ UNCHANGED len
       \/ len = 0 /\ UNCHANGED <<len, sleeping>>

Passes ==
    /\ UNCHANGED <<closed, sleeping, woken>>
    /\ UNCHANGED len \/ (len > 0 /\ len' = len - 1)

WakesAll == closed' = TRUE /\ Broadcast

Waits == Arrives \/ (\E n \in Takes : HasMutex(n)) \/ Passes \/ WakesAll

\* Each of them keeps the invariant.
LEMMA WakeKept ==
    ASSUME len \in Nat, woken \subseteq Takes, WakeInv, Waits
    PROVE  WakeInv'
<1>. USE DEF WakeInv, NoLostWakeup
<1>1. IsFiniteSet(woken) /\ Cardinality(woken) \in Nat
  BY MonitorAssumption, FS_Subset, FS_CardinalityType
<1>2. CASE Arrives
  <2>1. CASE sleeping = {}
    BY <1>2, <2>1 DEF Arrives, Signal
  <2>2. CASE sleeping # {}
    <3>1. PICK s \in sleeping : sleeping' = sleeping \ {s} /\ woken' = woken \cup {s}
      BY <1>2, <2>2 DEF Arrives, Signal
    <3>2. Cardinality(woken') = Cardinality(woken) + 1
      BY <1>1, <3>1, FS_AddElement
    <3>3. sleeping' \cap woken' = {}
      BY <3>1
    <3>. QED
      BY <1>1, <1>2, <2>2, <3>2, <3>3 DEF Arrives
  <2>. QED
    BY <2>1, <2>2
<1>3. ASSUME NEW n \in Takes, HasMutex(n) PROVE WakeInv'
  <2>1. /\ Cardinality(woken') >= Cardinality(woken) - 1
        /\ Cardinality(woken') \in Nat
    BY <1>1, <1>3, OneLess DEF HasMutex
  <2>2. sleeping' \cap woken' = {}
    BY <1>3 DEF HasMutex
  <2>3. CASE len > 0
    BY <1>1, <1>3, <2>1, <2>2, <2>3 DEF HasMutex
  <2>4. CASE len = 0
    BY <1>3, <2>1, <2>2, <2>4 DEF HasMutex
  <2>. QED
    BY <2>3, <2>4
<1>4. CASE Passes
  BY <1>1, <1>4 DEF Passes
<1>5. CASE WakesAll
  BY <1>5 DEF WakesAll, Broadcast
<1>. QED
  BY <1>2, <1>3, <1>4, <1>5 DEF Waits

\* Every step of the buffer keeps it.
LEMMA WakeStep == TypeOK /\ WakeInv /\ [Next]_vars => WakeInv'
<1>. SUFFICES ASSUME TypeOK, WakeInv, [Next]_vars PROVE WakeInv'
  OBVIOUS
<1>1. len \in Nat /\ closed \in BOOLEAN /\ woken \subseteq Takes
  BY DEF TypeOK
<1>2. Waits
  <2>1. ASSUME NEW p \in Pushes, Push(p) PROVE Waits
    BY <2>1 DEF Push, Waits, Arrives, Passes
  <2>2. ASSUME NEW n \in Takes, NextCall(n) PROVE HasMutex(n)
    BY <2>2 DEF NextCall, NextLocked, HasMutex
  <2>3. ASSUME NEW t \in TryTakes, TryNext(t) PROVE Passes
    BY <2>3 DEF TryNext, NextLocked, Passes
  <2>4. CASE Close /\ UNCHANGED <<size, head>>
    BY <2>4 DEF Close, Waits, WakesAll
  <2>5. CASE UNCHANGED vars
    BY <2>5 DEF vars, monitorVars, Waits, Passes
  <2>. QED
    BY <2>1, <2>2, <2>3, <2>4, <2>5 DEF Next, Done, Waits
<1>. QED
  BY <1>1, <1>2, WakeKept

-----------------------------------------------------------------------------
(* The queue of values.                                                    *)

\* A function on 1 .. n is a sequence of length n.
LEMMA FunctionIsSeq ==
    ASSUME NEW S, NEW n \in Nat, NEW f \in [1 .. n -> S]
    PROVE  f \in Seq(S) /\ Len(f) = n
OBVIOUS

\* Where the k-th value, counted from 0, is in the ring.
Place(k) == IF head + k < size THEN head + k ELSE head + k - size

\* The content is a sequence of pushed values, read from the head on.
ContentIs ==
    /\ Content \in Seq(Pushes)
    /\ Len(Content) = len
    /\ \A k \in 0 .. len - 1 : Content[k + 1] = items[Place(k)]

\* The ring gives the content.
LEMMA ContentSeq == Ring => ContentIs
<1>. SUFFICES ASSUME Ring PROVE ContentIs
  OBVIOUS
<1>1. ASSUME NEW i \in 1 .. len
      PROVE  Content[i] = items[Place(i - 1)] /\ Content[i] \in Pushes
  <2>1. i - 1 \in 0 .. size /\ i - 1 < size /\ i - 1 < len
    BY DEF Ring, TypeOK
  <2>2. Slot(i - 1) = Place(i - 1)
    BY <2>1, Slots DEF Ring, Place
  <2>3. Place(i - 1) \in 0 .. size - 1 /\ items[Place(i - 1)] # None
    BY <2>1 DEF Ring, TypeOK, WindowOnly, Place
  <2>4. items[Place(i - 1)] \in Pushes
    BY <2>3 DEF Ring, TypeOK
  <2>. QED
    BY <2>2, <2>4 DEF Content
<1>2. len \in Nat /\ Content \in [1 .. len -> Pushes]
  BY <1>1 DEF Content, Ring, TypeOK
<1>3. Content \in Seq(Pushes) /\ Len(Content) = len
  BY <1>2, FunctionIsSeq
<1>4. ASSUME NEW k \in 0 .. len - 1
      PROVE  Content[k + 1] = items[Place(k)]
  <2>1. k + 1 \in 1 .. len /\ (k + 1) - 1 = k
    BY <1>2
  <2>. QED
    BY <2>1, <1>1
<1>. QED
  BY <1>3, <1>4 DEF ContentIs

\* A Push appends its value, in a full ring as well as in one with room.
LEMMA PushPuts ==
    ASSUME Ring, Ring', NEW p \in Pushes, Push(p), ~closed
    PROVE  Content' = Append(Content, p)
<1>1. ContentIs /\ ContentIs'
  BY ContentSeq, PTL
<1>2. len \in Nat /\ len' = len + 1
  BY DEF Push, Ring, TypeOK
<1>3. ASSUME NEW k \in 0 .. len
      PROVE  items'[Place(k)'] = IF k < len THEN items[Place(k)] ELSE p
  <2>1. CASE Full
    <3>1. /\ items' = [Copied EXCEPT ![len] = p] /\ size' = 2 * size /\ head' = 0
          /\ len = size
      BY <2>1 DEF Push, Full, Ring, TypeOK
    <3>2. Place(k)' = k /\ k \in 0 .. 2 * size - 1
      BY <1>2, <3>1 DEF Place, Ring, TypeOK
    <3>3. k < len => Copied[k] = items[Place(k)]
      BY <3>1, <3>2 DEF Copied, Place, Ring, TypeOK
    <3>. QED
      BY <1>2, <3>1, <3>2, <3>3 DEF Copied, Ring, TypeOK
  <2>2. CASE ~Full
    <3>1. /\ items' = [items EXCEPT ![Slot(len)] = p] /\ size' = size /\ head' = head
          /\ len < size
      BY <2>2 DEF Push, Full, Ring, TypeOK
    <3>2. Slot(len) = Place(len)
      BY <3>1, Slots DEF Place, Ring, TypeOK
    <3>. QED
      BY <1>2, <3>1, <3>2 DEF Place, Ring, TypeOK
  <2>. QED
    BY <2>1, <2>2
<1>4. ASSUME NEW i \in 1 .. len + 1
      PROVE  Content'[i] = Append(Content, p)[i]
  <2>1. i - 1 \in 0 .. len /\ (i - 1) + 1 = i
    BY <1>2
  <2>2. Content'[i] = items'[Place(i - 1)']
    BY <1>1, <1>2, <2>1 DEF ContentIs
  <2>3. i - 1 < len => Content[i] = items[Place(i - 1)]
    BY <1>1, <1>2, <2>1 DEF ContentIs
  <2>4. Append(Content, p)[i] = IF i - 1 < len THEN Content[i] ELSE p
    BY <1>1, <1>2 DEF ContentIs
  <2>. QED
    BY <1>3, <2>1, <2>2, <2>3, <2>4
<1>5. /\ Content' \in Seq(Pushes) /\ Len(Content') = len + 1
      /\ Append(Content, p) \in Seq(Pushes) /\ Len(Append(Content, p)) = len + 1
  BY <1>1, <1>2 DEF ContentIs
<1>. QED
  BY <1>4, <1>5, SeqEqual

\* nextLocked gives the first value and leaves the others in their order.
LEMMA NextGets ==
    ASSUME Ring, Ring', NEW g \in Getters, len > 0, NextLocked(g), size' = size
    PROVE  /\ Content # << >>
           /\ got' = [got EXCEPT ![g] = Head(Content)]
           /\ Content' = Tail(Content)
<1>1. ContentIs /\ ContentIs'
  BY ContentSeq, PTL
<1>2. len \in Nat /\ len' = len - 1 /\ head \in Nat /\ size \in Nat /\ head < size
  BY DEF NextLocked, Ring, TypeOK
<1>3. Content # << >> /\ Head(Content) = items[head]
  <2>1. Place(0) = head
    BY <1>2 DEF Place
  <2>2. Content[1] = items[Place(0)]
    BY <1>1, <1>2 DEF ContentIs
  <2>. QED
    BY <1>1, <1>2, <2>1, <2>2 DEF ContentIs
<1>4. ASSUME NEW k \in 0 .. len - 2
      PROVE  items'[Place(k)'] = items[Place(k + 1)]
  <2>1. head' = IF head + 1 < size THEN head + 1 ELSE 0
    BY <1>2, Slots DEF NextLocked, Ring
  <2>2. Place(k)' = Place(k + 1)
    BY <1>2, <2>1 DEF Place, Ring, TypeOK
  <2>3. Place(k + 1) # head /\ items' = [items EXCEPT ![head] = None]
    BY <1>2 DEF Place, Ring, TypeOK, NextLocked, Cleared
  <2>. QED
    BY <2>2, <2>3 DEF Ring, TypeOK
<1>5. /\ Tail(Content) \in Seq(Pushes) /\ Len(Tail(Content)) = len - 1
      /\ \A i \in 1 .. len - 1 : Tail(Content)[i] = Content[i + 1]
  BY <1>1, <1>2, <1>3, HeadTailProperties DEF ContentIs
<1>6. ASSUME NEW i \in 1 .. len - 1
      PROVE  Content'[i] = Tail(Content)[i]
  <2>1. i - 1 \in 0 .. len - 2 /\ (i - 1) + 1 = i
    BY <1>2
  <2>2. Content'[i] = items'[Place(i - 1)']
    BY <1>1, <1>2, <2>1 DEF ContentIs
  <2>3. Content[i + 1] = items[Place(i)]
    BY <1>1, <1>2 DEF ContentIs
  <2>4. items'[Place(i - 1)'] = items[Place(i)]
    BY <1>4, <2>1
  <2>. QED
    BY <1>5, <2>2, <2>3, <2>4
<1>7. Content' \in Seq(Pushes) /\ Len(Content') = len - 1
  BY <1>1, <1>2 DEF ContentIs
<1>. QED
  BY <1>3, <1>5, <1>6, <1>7, SeqEqual DEF NextLocked

-----------------------------------------------------------------------------
(* Theorems about every behaviour of the buffer.                           *)

\* The inductive invariant.
IInv == Ring /\ WakeInv

\* It holds at first and every step keeps it.
LEMMA Inductive == Spec => []IInv
<1>1. Init => IInv
  <2>. SUFFICES ASSUME Init PROVE IInv
    OBVIOUS
  <2>1. TypeOK
    <3>1. items \in [0 .. size - 1 -> Pushes \cup {None}]
      BY DEF Init, MonitorInit
    <3>2. size \in Nat \ {0} /\ head \in 0 .. size - 1 /\ len \in 0 .. size
      BY MonitorAssumption DEF Init, MonitorInit
    <3>3. closed \in BOOLEAN
      BY DEF Init, MonitorInit
    <3>4. /\ pushed \in [Pushes -> {"idle", "ok", "closed"}]
          /\ got \in [Getters -> Pushes \cup {None, Missing}]
          /\ sleeping \subseteq Takes /\ woken \subseteq Takes
      BY DEF Init, MonitorInit
    <3>. QED
      BY <3>1, <3>2, <3>3, <3>4 DEF TypeOK
  <2>2. WindowOnly
    BY MonitorAssumption DEF Init, MonitorInit, WindowOnly
  <2>3. WakeInv
    BY DEF Init, MonitorInit, WakeInv, NoLostWakeup
  <2>. QED
    BY <2>1, <2>2, <2>3 DEF IInv, Ring
<1>2. IInv /\ [Next]_vars => IInv'
  BY RingStep, WakeStep DEF IInv, Ring
<1>. QED
  BY <1>1, <1>2, PTL DEF Spec

\* Types, with the window of values inside the ring.
THEOREM TypeCorrect == Spec => []TypeOK
<1>1. IInv => TypeOK
  BY DEF IInv, Ring
<1>. QED
  BY <1>1, Inductive, PTL

\* The ring keeps exactly the values that were pushed and not yet given away,
\* through any number of growths (buffer.go:105-141).
THEOREM KeepsOnlyWindow == Spec => []WindowOnly
<1>1. IInv => WindowOnly
  BY DEF IInv, Ring
<1>. QED
  BY <1>1, Inductive, PTL

\* No wakeup is lost, for any number of sleeping and barging calls
\* (buffer.go:41-42, 59-61, 87).
THEOREM WakeupsArrive == Spec => []NoLostWakeup
<1>1. IInv => NoLostWakeup
  BY DEF IInv, WakeInv
<1>. QED
  BY <1>1, Inductive, PTL

\* A step of the buffer is a step of the queue, or does not change it.
LEMMA StepKeepsPromise ==
    IInv /\ IInv' /\ [Next]_vars => [Promise!FNext]_(Promise!fvars)
<1>. SUFFICES ASSUME IInv, IInv', [Next]_vars PROVE [Promise!FNext]_(Promise!fvars)
  OBVIOUS
<1>. USE DEF Promise!FNext, Promise!fvars, Getters
<1>1. Ring /\ Ring' /\ ContentIs
  BY ContentSeq DEF IInv
<1>2. len = 0 => Content = << >>
  BY <1>1 DEF ContentIs
<1>3. ASSUME UNCHANGED <<items, size, head, len>>
      PROVE  Content' = Content
  BY <1>3 DEF Content, Slot
<1>4. ASSUME NEW p \in Pushes, Push(p) PROVE [Promise!FNext]_(Promise!fvars)
  <2>1. CASE closed
    BY <1>3, <1>4, <2>1 DEF Push
  <2>2. CASE ~closed
    BY <1>1, <1>4, <2>2, PushPuts DEF Push, Promise!Put
  <2>. QED
    BY <2>1, <2>2
<1>5. ASSUME NEW n \in Takes, NextCall(n) PROVE [Promise!FNext]_(Promise!fvars)
  <2>1. CASE len > 0
    <3>1. size' = size /\ closed' = closed /\ NextLocked(n) /\ got[n] = None
      BY <1>5, <2>1 DEF NextCall
    <3>2. Promise!Get(n)
      BY <1>1, <2>1, <3>1, NextGets DEF Promise!Get
    <3>. QED
      BY <3>2
  <2>2. CASE len = 0 /\ closed
    BY <1>2, <1>3, <1>5, <2>2 DEF NextCall, Promise!Miss
  <2>3. CASE len = 0 /\ ~closed
    BY <1>3, <1>5, <2>3 DEF NextCall
  <2>. QED
    BY <1>1, <2>1, <2>2, <2>3 DEF Ring, TypeOK
<1>6. ASSUME NEW t \in TryTakes, TryNext(t) PROVE [Promise!FNext]_(Promise!fvars)
  <2>1. CASE len > 0
    <3>1. size' = size /\ closed' = closed /\ NextLocked(t) /\ got[t] = None
      BY <1>6, <2>1 DEF TryNext
    <3>2. Promise!Get(t)
      BY <1>1, <2>1, <3>1, NextGets DEF Promise!Get
    <3>. QED
      BY <3>2
  <2>2. CASE len = 0
    BY MonitorAssumption, <1>2, <1>3, <1>6, <2>2 DEF TryNext, Promise!Miss
  <2>. QED
    BY <1>1, <2>1, <2>2 DEF Ring, TypeOK
<1>7. CASE Close /\ UNCHANGED <<size, head>>
  BY <1>3, <1>7 DEF Close, Promise!Shut
<1>8. CASE UNCHANGED vars
  BY <1>3, <1>8 DEF vars, monitorVars
<1>. QED
  BY <1>4, <1>5, <1>6, <1>7, <1>8 DEF Next, Done

\* The buffer implements the queue it promises to be: first in first out,
\* through growth and wrapping, for every capacity and any number of calls.
THEOREM BufferIsFifo == Spec => PromiseKept
<1>1. Init => Promise!FInit
  <2>. SUFFICES ASSUME Init PROVE Promise!FInit
    OBVIOUS
  <2>1. Content = << >>
    BY DEF Init, MonitorInit, Content
  <2>. QED
    BY <2>1 DEF Init, MonitorInit, Promise!FInit, Getters
<1>2. IInv /\ IInv' /\ [Next]_vars => [Promise!FNext]_(Promise!fvars)
  BY StepKeepsPromise
<1>. QED
  BY <1>1, <1>2, Inductive, PTL DEF Spec, PromiseKept, Promise!FSpec

-----------------------------------------------------------------------------
(* The stack.                                                              *)

\* The types of a stack.
StackTypes ==
    /\ items \in Seq(Pushes \cup {None}) /\ Len(items) > 0
    /\ len \in 0 .. Len(items)
    /\ closed \in BOOLEAN
    /\ pushed \in [Pushes -> {"idle", "ok", "closed"}]
    /\ got \in [Getters -> Pushes \cup {None, Missing}]
    /\ sleeping \subseteq Takes
    /\ woken \subseteq Takes

\* The values are at the bottom of the array, which keeps no other.
BottomOnly == \A k \in 1 .. Len(items) : items[k] # None <=> k <= len

Array == StackTypes /\ BottomOnly

\* growLocked keeps what is in the array and adds slots without a value.
LEMMA GrownKeeps ==
    ASSUME Array
    PROVE  /\ Grown \in Seq(Pushes \cup {None})
           /\ len < Len(Grown) /\ Len(items) <= Len(Grown)
           /\ \A k \in 1 .. Len(Grown) :
                Grown[k] = IF k <= Len(items) THEN items[k] ELSE None
<1>. DEFINE n == Len(items)
            zeros == Zeros(n)
<1>1. n \in Nat \ {0} /\ items \in Seq(Pushes \cup {None}) /\ len \in 0 .. n
  BY DEF Array, StackTypes
<1>2. CASE len < n
  BY <1>1, <1>2 DEF Grown
<1>3. CASE len = n
  <2>1. Grown = items \o zeros
    BY <1>3 DEF Grown
  <2>2. zeros \in Seq({None}) /\ Len(zeros) = n
    BY <1>1 DEF Zeros
  <2>3. \A k \in 1 .. n : zeros[k] = None
    BY DEF Zeros
  <2>4. zeros \in Seq(Pushes \cup {None})
    BY <2>2
  <2>. HIDE DEF zeros
  <2>. DEFINE both == items \o zeros
  <2>5. /\ both \in Seq(Pushes \cup {None})
        /\ Len(both) = n + Len(zeros)
        /\ \A k \in 1 .. n + Len(zeros) :
             both[k] = IF k <= n THEN items[k] ELSE zeros[k - n]
    BY <1>1, <2>4, ConcatProperties
  <2>. HIDE DEF both
  <2>6. ASSUME NEW k \in 1 .. n + n, ~(k <= n) PROVE zeros[k - n] = None
    <3>1. k - n \in 1 .. n
      BY <1>1, <2>6
    <3>. QED
      BY <2>3, <3>1
  <2>7. len < n + n /\ n <= n + n
    BY <1>1, <1>3
  <2>. QED
    BY <2>1, <2>2, <2>5, <2>6, <2>7 DEF both
<1>. QED
  BY <1>1, <1>2, <1>3

\* A Push writes the slot above the values.
LEMMA ArrayPush ==
    ASSUME Array, NEW p \in Pushes, PushOnTop(p)
    PROVE  Array'
<1>. USE DEF Array, StackTypes
<1>1. CASE closed
  BY <1>1 DEF PushOnTop, BottomOnly
<1>2. CASE ~closed
  <2>. DEFINE grown == Grown
  <2>1. /\ items' = [grown EXCEPT ![len + 1] = p] /\ len' = len + 1
        /\ UNCHANGED <<closed, got>> /\ pushed' = [pushed EXCEPT ![p] = "ok"] /\ Signal
    BY <1>2 DEF PushOnTop
  <2>2. /\ grown \in Seq(Pushes \cup {None}) /\ len + 1 \in 1 .. Len(grown)
        /\ \A k \in 1 .. Len(grown) : grown[k] = IF k <= Len(items) THEN items[k] ELSE None
    BY GrownKeeps
  <2>. HIDE DEF grown
  <2>3. /\ items' \in Seq(Pushes \cup {None}) /\ Len(items') = Len(grown)
        /\ \A k \in 1 .. Len(grown) : items'[k] = IF k = len + 1 THEN p ELSE grown[k]
    BY <2>1, <2>2, ExceptSeq
  <2>4. BottomOnly'
    BY MonitorAssumption, <2>1, <2>2, <2>3 DEF BottomOnly
  <2>5. sleeping' \subseteq Takes /\ woken' \subseteq Takes
    BY <2>1 DEF Signal
  <2>. QED
    BY <2>1, <2>2, <2>3, <2>4, <2>5
<1>. QED
  BY <1>1, <1>2

\* popLocked clears the top.
LEMMA ArrayPop ==
    ASSUME Array, NEW g \in Getters, len > 0, PopLocked(g)
    PROVE  /\ items' \in Seq(Pushes \cup {None}) /\ Len(items') = Len(items)
           /\ \A k \in 1 .. Len(items) : items'[k] = IF k = len THEN None ELSE items[k]
           /\ len' = len - 1 /\ len' \in 0 .. Len(items')
           /\ items[len] \in Pushes
           /\ got' = [got EXCEPT ![g] = items[len]]
           /\ got' \in [Getters -> Pushes \cup {None, Missing}]
           /\ BottomOnly'
<1>. USE DEF Array, StackTypes
<1>1. items' = [items EXCEPT ![len] = None] /\ len' = len - 1
  BY DEF PopLocked, TopCleared
<1>2. /\ items' \in Seq(Pushes \cup {None}) /\ Len(items') = Len(items)
      /\ \A k \in 1 .. Len(items) : items'[k] = IF k = len THEN None ELSE items[k]
  BY <1>1, ExceptSeq
<1>3. items[len] \in Pushes
  BY DEF BottomOnly
<1>4. /\ got' = [got EXCEPT ![g] = items[len]]
      /\ got' \in [Getters -> Pushes \cup {None, Missing}]
  BY <1>3 DEF PopLocked
<1>5. BottomOnly'
  BY <1>1, <1>2 DEF BottomOnly
<1>. QED
  BY <1>1, <1>2, <1>3, <1>4, <1>5

\* Every step keeps the array.
LEMMA ArrayStep == Array /\ [StackNext]_monitorVars => Array'
<1>. SUFFICES ASSUME Array, [StackNext]_monitorVars PROVE Array'
  OBVIOUS
<1>1. ASSUME NEW p \in Pushes, PushOnTop(p) PROVE Array'
  BY <1>1, ArrayPush
<1>2. ASSUME NEW n \in Takes, Pop(n) PROVE Array'
  <2>1. CASE len > 0
    BY <1>2, <2>1, ArrayPop DEF Pop, Getters, Array, StackTypes
  <2>2. CASE len = 0
    BY <1>2, <2>2 DEF Pop, Getters, Array, StackTypes, BottomOnly
  <2>. QED
    BY <2>1, <2>2 DEF Array, StackTypes
<1>3. ASSUME NEW t \in TryTakes, TryPop(t) PROVE Array'
  <2>1. CASE len > 0
    BY <1>3, <2>1, ArrayPop DEF TryPop, Getters, Array, StackTypes
  <2>2. CASE len = 0
    BY <1>3, <2>2 DEF TryPop, Getters, Array, StackTypes, BottomOnly
  <2>. QED
    BY <2>1, <2>2 DEF Array, StackTypes
<1>4. CASE Close
  BY <1>4 DEF Close, Broadcast, Array, StackTypes, BottomOnly
<1>5. CASE UNCHANGED monitorVars
  BY <1>5 DEF monitorVars, Array, StackTypes, BottomOnly
<1>. QED
  BY <1>1, <1>2, <1>3, <1>4, <1>5 DEF StackNext, StackDone

\* A stack does with the calls that wait what a buffer does with them.
LEMMA StackWakeStep == StackTypes /\ WakeInv /\ [StackNext]_monitorVars => WakeInv'
<1>. SUFFICES ASSUME StackTypes, WakeInv, [StackNext]_monitorVars PROVE WakeInv'
  OBVIOUS
<1>1. len \in Nat /\ closed \in BOOLEAN /\ woken \subseteq Takes
  BY DEF StackTypes
<1>2. Waits
  <2>1. ASSUME NEW p \in Pushes, PushOnTop(p) PROVE Waits
    BY <2>1 DEF PushOnTop, Signal, Waits, Arrives, Passes
  <2>2. ASSUME NEW n \in Takes, Pop(n) PROVE HasMutex(n)
    BY <2>2 DEF Pop, PopLocked, HasMutex
  <2>3. ASSUME NEW t \in TryTakes, TryPop(t) PROVE Passes
    BY <2>3 DEF TryPop, PopLocked, Passes
  <2>4. CASE Close
    BY <2>4 DEF Close, Broadcast, Waits, WakesAll
  <2>5. CASE UNCHANGED monitorVars
    BY <2>5 DEF monitorVars, Waits, Passes
  <2>. QED
    BY <2>1, <2>2, <2>3, <2>4, <2>5 DEF StackNext, StackDone, Waits
<1>. QED
  BY <1>1, <1>2, WakeKept

\* The values, the newest first.
Piled == [i \in 1 .. len |-> items[len + 1 - i]]

\* They are a sequence of pushed values.
PiledIs ==
    /\ Piled \in Seq(Pushes)
    /\ Len(Piled) = len
    /\ \A i \in 1 .. len : Piled[i] = items[len + 1 - i]

LEMMA PiledSeq == Array => PiledIs
<1>. SUFFICES ASSUME Array PROVE PiledIs
  OBVIOUS
<1>1. \A i \in 1 .. len : items[len + 1 - i] \in Pushes
  <2>. TAKE i \in 1 .. len
  <2>1. len + 1 - i \in 1 .. len /\ len + 1 - i \in 1 .. Len(items)
    BY DEF Array, StackTypes
  <2>. QED
    BY <2>1 DEF Array, StackTypes, BottomOnly
<1>2. len \in Nat /\ Piled \in [1 .. len -> Pushes]
  BY <1>1 DEF Piled, Array, StackTypes
<1>3. Piled \in Seq(Pushes) /\ Len(Piled) = len
  BY <1>2, FunctionIsSeq
<1>. QED
  BY <1>3 DEF PiledIs, Piled

\* A Push puts its value on top, in a full array as well as in one with room.
LEMMA PushPiles ==
    ASSUME Array, Array', NEW p \in Pushes, PushOnTop(p), ~closed
    PROVE  Piled' = <<p>> \o Piled
<1>1. PiledIs /\ PiledIs'
  BY PiledSeq, PTL
<1>. DEFINE grown == Grown
<1>2. items' = [grown EXCEPT ![len + 1] = p] /\ len' = len + 1 /\ len \in 0 .. Len(items)
  BY DEF PushOnTop, Array, StackTypes
<1>3. /\ grown \in Seq(Pushes \cup {None}) /\ len + 1 \in 1 .. Len(grown)
      /\ \A k \in 1 .. len : grown[k] = items[k]
  BY <1>2, GrownKeeps DEF Array, StackTypes
<1>. HIDE DEF grown
<1>4. \A k \in 1 .. len + 1 : items'[k] = IF k = len + 1 THEN p ELSE items[k]
  BY <1>2, <1>3, ExceptSeq
<1>. DEFINE piled == <<p>> \o Piled
<1>5. /\ piled \in Seq(Pushes) /\ Len(piled) = len + 1
      /\ \A i \in 1 .. len + 1 : piled[i] = IF i = 1 THEN p ELSE Piled[i - 1]
  <2>1. Piled \in Seq(Pushes) /\ Len(Piled) = len /\ len \in Nat
    BY <1>1, <1>2 DEF PiledIs
  <2>2. <<p>> \in Seq(Pushes) /\ Len(<<p>>) = 1 /\ <<p>>[1] = p
    OBVIOUS
  <2>. QED
    BY <2>1, <2>2, ConcatProperties
<1>. HIDE DEF piled
<1>6. ASSUME NEW i \in 1 .. len + 1 PROVE Piled'[i] = piled[i]
  <2>1. Piled'[i] = items'[len + 2 - i]
    BY <1>1, <1>2 DEF PiledIs
  <2>2. CASE i = 1
    BY <1>2, <1>4, <1>5, <2>1, <2>2
  <2>3. CASE i # 1
    <3>1. i - 1 \in 1 .. len /\ len + 2 - i \in 1 .. len /\ len + 1 - (i - 1) = len + 2 - i
      BY <1>2, <2>3
    <3>2. piled[i] = items[len + 2 - i]
      BY <1>1, <1>5, <2>3, <3>1 DEF PiledIs
    <3>. QED
      BY <1>2, <1>4, <2>1, <3>1, <3>2
  <2>. QED
    BY <2>2, <2>3
<1>7. Piled' \in Seq(Pushes) /\ Len(Piled') = len + 1
  BY <1>1, <1>2 DEF PiledIs
<1>8. Piled' = piled
  BY <1>5, <1>6, <1>7, SeqEqual
<1>. QED
  BY <1>8 DEF piled

\* popLocked gives the newest value and leaves the others as they are.
LEMMA PopGets ==
    ASSUME Array, Array', NEW g \in Getters, len > 0, PopLocked(g)
    PROVE  /\ Piled # << >>
           /\ got' = [got EXCEPT ![g] = Head(Piled)]
           /\ Piled' = Tail(Piled)
<1>1. PiledIs /\ PiledIs'
  BY PiledSeq, PTL
<1>2. /\ len \in Nat /\ len' = len - 1 /\ got' = [got EXCEPT ![g] = items[len]]
      /\ \A k \in 1 .. len - 1 : items'[k] = items[k]
  BY ArrayPop DEF Array, StackTypes
<1>3. Piled # << >> /\ Head(Piled) = items[len]
  <2>1. Piled[1] = items[len]
    BY <1>1, <1>2 DEF PiledIs
  <2>. QED
    BY <1>1, <1>2, <2>1 DEF PiledIs
<1>4. /\ Tail(Piled) \in Seq(Pushes) /\ Len(Tail(Piled)) = len - 1
      /\ \A i \in 1 .. len - 1 : Tail(Piled)[i] = Piled[i + 1]
  BY <1>1, <1>2, <1>3, HeadTailProperties DEF PiledIs
<1>5. ASSUME NEW i \in 1 .. len - 1 PROVE Piled'[i] = Tail(Piled)[i]
  <2>1. len - i \in 1 .. len - 1 /\ i + 1 \in 1 .. len /\ len + 1 - (i + 1) = len - i
    BY <1>2
  <2>2. Piled'[i] = items'[len - i]
    BY <1>1, <1>2 DEF PiledIs
  <2>3. Piled[i + 1] = items[len - i]
    BY <1>1, <2>1 DEF PiledIs
  <2>. QED
    BY <1>2, <1>4, <2>1, <2>2, <2>3
<1>6. Piled' \in Seq(Pushes) /\ Len(Piled') = len - 1
  BY <1>1, <1>2 DEF PiledIs
<1>7. Piled' = Tail(Piled)
  BY <1>4, <1>5, <1>6, SeqEqual
<1>. QED
  BY <1>2, <1>3, <1>7

\* The inductive invariant of the stack.
StackInv == Array /\ WakeInv

\* It holds at first and every step keeps it.
LEMMA StackInductive == StackSpec => []StackInv
<1>1. StackInit => StackInv
  <2>. SUFFICES ASSUME StackInit PROVE StackInv
    OBVIOUS
  <2>1. items = [k \in 1 .. Capacity |-> None] /\ Capacity \in Nat \ {0} /\ len = 0
    BY MonitorAssumption DEF StackInit, MonitorInit, Zeros
  <2>2. items \in Seq(Pushes \cup {None}) /\ Len(items) = Capacity
    BY <2>1, FunctionIsSeq
  <2>3. /\ closed = FALSE /\ pushed = [p \in Pushes |-> "idle"] /\ got = [g \in Getters |-> None]
        /\ sleeping = {} /\ woken = {}
    BY DEF StackInit, MonitorInit, Getters
  <2>4. StackTypes
    <3>1. Len(items) > 0 /\ len \in 0 .. Len(items)
      BY <2>1, <2>2
    <3>2. /\ pushed \in [Pushes -> {"idle", "ok", "closed"}]
          /\ got \in [Getters -> Pushes \cup {None, Missing}]
      BY <2>3
    <3>. QED
      BY <2>2, <2>3, <3>1, <3>2 DEF StackTypes
  <2>5. BottomOnly
    BY <2>1, <2>2 DEF BottomOnly
  <2>. QED
    BY <2>3, <2>4, <2>5 DEF StackInv, Array, WakeInv, NoLostWakeup
<1>2. StackInv /\ [StackNext]_monitorVars => StackInv'
  BY ArrayStep, StackWakeStep DEF StackInv, Array
<1>. QED
  BY <1>1, <1>2, PTL DEF StackSpec

-----------------------------------------------------------------------------
(* Theorems about every behaviour of the stack.                            *)

\* The types, with the values at the bottom of the array and no slot above them
\* that keeps one alive (stack.go:105-127).
THEOREM KeepsOnlyBottom == StackSpec => []Array
BY StackInductive, PTL DEF StackInv

\* No wakeup of a Pop is lost, for any number of sleeping and barging calls
\* (stack.go:40-41, 58-60, 85).
THEOREM PopsWakeUp == StackSpec => []NoLostWakeup
<1>1. StackInv => NoLostWakeup
  BY DEF StackInv, WakeInv, NoLostWakeup
<1>. QED
  BY <1>1, StackInductive, PTL

\* A step of the stack is a step of what it promises, or does not change it.
LEMMA StepKeepsStack ==
    StackInv /\ StackInv' /\ [StackNext]_monitorVars => [Pile!LNext]_(Pile!fvars)
<1>. SUFFICES ASSUME StackInv, StackInv', [StackNext]_monitorVars
              PROVE  [Pile!LNext]_(Pile!fvars)
  OBVIOUS
<1>. USE DEF Pile!LNext, Pile!fvars, Getters
<1>1. Array /\ Array' /\ PiledIs
  BY PiledSeq DEF StackInv
<1>2. len = 0 => Piled = << >>
  BY <1>1 DEF PiledIs
<1>3. ASSUME UNCHANGED <<items, len>>
      PROVE  Piled' = Piled
  BY <1>3 DEF Piled
<1>4. ASSUME NEW p \in Pushes, PushOnTop(p) PROVE [Pile!LNext]_(Pile!fvars)
  <2>1. CASE closed
    BY <1>3, <1>4, <2>1 DEF PushOnTop, Piled
  <2>2. CASE ~closed
    <3>1. Piled' = <<p>> \o Piled /\ UNCHANGED <<closed, got>>
      BY <1>1, <1>4, <2>2, PushPiles DEF PushOnTop
    <3>2. Pile!PutOnTop(p)
      BY <2>2, <3>1 DEF Pile!PutOnTop, Piled
    <3>. QED
      BY <3>2
  <2>. QED
    BY <2>1, <2>2
<1>5. ASSUME NEW n \in Takes, Pop(n) PROVE [Pile!LNext]_(Pile!fvars)
  <2>1. CASE len > 0
    <3>1. closed' = closed /\ PopLocked(n) /\ got[n] = None
      BY <1>5, <2>1 DEF Pop
    <3>2. Pile!Get(n)
      BY <1>1, <2>1, <3>1, PopGets DEF Pile!Get, Piled
    <3>. QED
      BY <3>2
  <2>2. CASE len = 0 /\ closed
    BY <1>2, <1>3, <1>5, <2>2 DEF Pop, Pile!Miss, Piled
  <2>3. CASE len = 0 /\ ~closed
    BY <1>3, <1>5, <2>3 DEF Pop, Piled
  <2>. QED
    BY <1>1, <2>1, <2>2, <2>3 DEF Array, StackTypes
<1>6. ASSUME NEW t \in TryTakes, TryPop(t) PROVE [Pile!LNext]_(Pile!fvars)
  <2>1. CASE len > 0
    <3>1. closed' = closed /\ PopLocked(t) /\ got[t] = None
      BY <1>6, <2>1 DEF TryPop
    <3>2. Pile!Get(t)
      BY <1>1, <2>1, <3>1, PopGets DEF Pile!Get, Piled
    <3>. QED
      BY <3>2
  <2>2. CASE len = 0
    BY MonitorAssumption, <1>2, <1>3, <1>6, <2>2 DEF TryPop, Pile!Miss, Piled
  <2>. QED
    BY <1>1, <2>1, <2>2 DEF Array, StackTypes
<1>7. CASE Close
  BY <1>3, <1>7 DEF Close, Pile!Shut, Piled
<1>8. CASE UNCHANGED monitorVars
  BY <1>3, <1>8 DEF monitorVars, Piled
<1>. QED
  BY <1>4, <1>5, <1>6, <1>7, <1>8 DEF StackNext, StackDone

\* The stack implements what it promises: last in first out, through growth,
\* for every capacity and any number of calls.
THEOREM StackIsLifo == StackSpec => LifoKept
<1>1. StackInit => Pile!FInit
  <2>. SUFFICES ASSUME StackInit PROVE Pile!FInit
    OBVIOUS
  <2>1. len = 0 /\ Piled = << >>
    BY DEF StackInit, MonitorInit, Piled
  <2>. QED
    BY <2>1 DEF StackInit, MonitorInit, Pile!FInit, Getters, Piled
<1>2. StackInv /\ StackInv' /\ [StackNext]_monitorVars => [Pile!LNext]_(Pile!fvars)
  BY StepKeepsStack
<1>. QED
  BY <1>1, <1>2, StackInductive, PTL DEF StackSpec, LifoKept, Pile!LSpec
=============================================================================

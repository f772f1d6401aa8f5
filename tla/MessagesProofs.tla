--------------------------- MODULE MessagesProofs ---------------------------
(***************************************************************************)
(* Theorems about the Bus and the Dispatcher: what was read of a registry  *)
(* stays what it was, whatever is registered later, and the slots of the   *)
(* bus bound the values that are handed out.                               *)
(***************************************************************************)
EXTENDS Messages, TLAPS, FiniteSetTheorems, SequenceTheorems

-----------------------------------------------------------------------------
(* A registry with the arrays a and the slice l.                           *)

Slice == [array : Nat, len : Nat]

\* The slice s lies in its array.
Lies(a, s) ==
    /\ s \in Slice /\ s.array \in 0 .. Len(a)
    /\ IF s.array = 0 THEN s.len = 0 ELSE s.len \in 0 .. Len(a[s.array])

Space(a, l) == IF l.array = 0 THEN 0 ELSE Len(a[l.array])

Read(a, s) == IF s.array = 0 THEN << >> ELSE SubSeq(a[s.array], 1, s.len)

RegistryInv(a, l, n) == a \in Seq(Seq(Nat)) /\ Lies(a, l) /\ n \in Nat

\* The slice t was taken from the registry when its content was m, and append
\* writes behind it.
Snapshot(a, l, t, m) ==
    /\ Lies(a, t)
    /\ t.array = l.array => t.len <= l.len
    /\ m \in Seq(Nat) /\ Len(m) = t.len
    /\ \A i \in 1 .. t.len : a[t.array][i] = m[i]

\* A callback is registered.
Puts(a, l, n, a2, l2, n2) ==
    /\ n2 = n + 1
    /\ l2 = [array |-> IF l.len < Space(a, l) THEN l.array ELSE Len(a) + 1,
             len   |-> l.len + 1]
    /\ a2 = IF l.len < Space(a, l)
            THEN [a EXCEPT ![l.array][l.len + 1] = n2]
            ELSE Append(a, Read(a, l) \o <<n2>>
                             \o [i \in 1 .. (IF l.len = 0 THEN 0 ELSE l.len - 1) |-> 0])

\* The callbacks are removed.
Deletes(a, l, n, a2, l2, n2) == a2 = a /\ n2 = n /\ l2 = [array |-> 0, len |-> 0]

\* The first elements of a sequence.
LEMMA SubSeqFirst ==
    ASSUME NEW S, NEW b \in Seq(S), NEW n \in Nat, n <= Len(b)
    PROVE  /\ SubSeq(b, 1, n) \in Seq(S) /\ Len(SubSeq(b, 1, n)) = n
           /\ \A i \in 1 .. n : SubSeq(b, 1, n)[i] = b[i]
<1>1. SubSeq(b, 1, n) = [i \in 1 .. n |-> b[i]]
  OBVIOUS
<1>2. \A i \in 1 .. n : b[i] \in S
  OBVIOUS
<1>. QED
  BY <1>1, <1>2

\* What a reader of a slice finds.
LEMMA ReadIs ==
    ASSUME NEW a \in Seq(Seq(Nat)), NEW s, Lies(a, s)
    PROVE  /\ Read(a, s) \in Seq(Nat) /\ Len(Read(a, s)) = s.len
           /\ \A i \in 1 .. s.len : Read(a, s)[i] = a[s.array][i]
<1>1. CASE s.array = 0
  BY <1>1 DEF Lies, Read, Slice
<1>2. CASE s.array # 0
  <2>1. a[s.array] \in Seq(Nat) /\ s.len \in Nat /\ s.len <= Len(a[s.array])
    BY <1>2 DEF Lies, Slice
  <2> DEFINE b == a[s.array]
             n == s.len
  <2>2. Read(a, s) = SubSeq(b, 1, n)
    BY <1>2 DEF Read
  <2>. HIDE DEF b, n
  <2>3. /\ SubSeq(b, 1, n) \in Seq(Nat) /\ Len(SubSeq(b, 1, n)) = n
        /\ \A i \in 1 .. n : SubSeq(b, 1, n)[i] = b[i]
    BY <2>1, SubSeqFirst DEF b, n
  <2>. QED
    BY <2>2, <2>3 DEF b, n
<1>. QED
  BY <1>1, <1>2

\* A sequence with another element.
LEMMA Replaced ==
    ASSUME NEW S, NEW s \in Seq(S), NEW k \in 1 .. Len(s), NEW v \in S,
           NEW t, t = [s EXCEPT ![k] = v]
    PROVE  /\ t \in Seq(S) /\ Len(t) = Len(s) /\ t[k] = v
           /\ \A j \in 1 .. Len(s) : j # k => t[j] = s[j]
OBVIOUS

\* append writes behind the callbacks that are there.
LEMMA PutsInPlace ==
    ASSUME NEW a, NEW l, NEW n, NEW a2, NEW l2, NEW n2,
           RegistryInv(a, l, n), Puts(a, l, n, a2, l2, n2), l.len < Space(a, l)
    PROVE  /\ RegistryInv(a2, l2, n2)
           /\ \A t, m : Snapshot(a, l, t, m) => Snapshot(a2, l2, t, m)
<1>1. a \in Seq(Seq(Nat)) /\ n2 \in Nat
  BY DEF RegistryInv, Puts
<1>2. /\ l2 = [array |-> l.array, len |-> l.len + 1]
      /\ a2 = [a EXCEPT ![l.array][l.len + 1] = n2]
  BY DEF Puts
<1>3. l.array \in 1 .. Len(a) /\ l.len \in Nat /\ l.len + 1 \in 1 .. Len(a[l.array])
  <2>1. l \in Slice /\ l.array \in 0 .. Len(a)
    BY DEF RegistryInv, Lies
  <2>2. l.array # 0 /\ l.len < Len(a[l.array])
    BY <2>1 DEF Space, Slice
  <2>3. l.array \in 1 .. Len(a)
    BY <2>1, <2>2
  <2>4. Len(a[l.array]) \in Nat
    BY <1>1, <2>3, ElementOfSeq, LenProperties
  <2>. QED
    BY <2>1, <2>2, <2>3, <2>4 DEF Slice
<1>4. a[l.array] \in Seq(Nat)
  BY <1>1, <1>3, ElementOfSeq
<1> DEFINE c == a[l.array]
           b == [c EXCEPT ![l.len + 1] = n2]
<1>5. a2 = [a EXCEPT ![l.array] = b]
  BY <1>2
<1>. HIDE DEF c
<1>6. b \in Seq(Nat) /\ Len(b) = Len(c) /\ \A j \in 1 .. Len(c) : j # l.len + 1 => b[j] = c[j]
  BY <1>1, <1>3, <1>4, Replaced DEF c
<1>. HIDE DEF b
<1>7. /\ a2 \in Seq(Seq(Nat)) /\ Len(a2) = Len(a) /\ a2[l.array] = b
      /\ \A j \in 1 .. Len(a) : j # l.array => a2[j] = a[j]
  BY <1>1, <1>3, <1>5, <1>6
<1>8. \A j \in 1 .. Len(a) :
        /\ Len(a2[j]) = Len(a[j])
        /\ \A m \in 1 .. Len(a[j]) : (j = l.array => m # l.len + 1) => a2[j][m] = a[j][m]
  BY <1>6, <1>7 DEF c
<1>9. Lies(a2, l2)
  <2>1. l2.array = l.array /\ l2.len = l.len + 1 /\ l2 \in Slice
    BY <1>2, <1>3 DEF Slice
  <2>. QED
    BY <1>3, <1>6, <1>7, <2>1 DEF Lies, c
<1>10. ASSUME NEW t, NEW m, Snapshot(a, l, t, m) PROVE Snapshot(a2, l2, t, m)
  <2>1. /\ t \in Slice /\ t.array \in 0 .. Len(a)
        /\ IF t.array = 0 THEN t.len = 0 ELSE t.len \in 0 .. Len(a[t.array])
        /\ t.array = l.array => t.len <= l.len
        /\ m \in Seq(Nat) /\ Len(m) = t.len
        /\ \A i \in 1 .. t.len : a[t.array][i] = m[i]
    BY <1>10 DEF Snapshot, Lies
  <2>2. Lies(a2, t)
    BY <1>8, <1>7, <2>1 DEF Lies, Slice
  <2>3. t.array = l2.array => t.len <= l2.len
    BY <1>2, <1>3, <2>1 DEF Slice
  <2>4. ASSUME NEW i \in 1 .. t.len PROVE a2[t.array][i] = m[i]
    <3>1. t.array \in 1 .. Len(a) /\ i \in 1 .. Len(a[t.array])
      BY <2>1 DEF Slice
    <3>2. t.array = l.array => i # l.len + 1
      BY <1>3, <2>1 DEF Slice
    <3>. QED
      BY <1>8, <2>1, <3>1, <3>2
  <2>. QED
    BY <2>1, <2>2, <2>3, <2>4 DEF Snapshot
<1>. QED
  BY <1>1, <1>9, <1>10, <1>7 DEF RegistryInv

\* A new array for the callbacks that are there and the new one.
LEMMA GrownIs ==
    ASSUME NEW c \in Seq(Nat), NEW v \in Nat, NEW z \in Seq(Nat)
    PROVE  c \o <<v>> \o z \in Seq(Nat) /\ Len(c \o <<v>> \o z) = Len(c) + 1 + Len(z)
<1>1. <<v>> \in Seq(Nat) /\ Len(<<v>>) = 1
  OBVIOUS
<1> DEFINE d == c \o <<v>>
<1>2. d \in Seq(Nat) /\ Len(d) = Len(c) + 1
  BY <1>1, ConcatProperties
<1>. HIDE DEF d
<1>3. d \o z \in Seq(Nat) /\ Len(d \o z) = Len(d) + Len(z)
  BY <1>2, ConcatProperties
<1>. QED
  BY <1>2, <1>3 DEF d

\* append makes a new array.
LEMMA PutsInNewArray ==
    ASSUME NEW a, NEW l, NEW n, NEW a2, NEW l2, NEW n2,
           RegistryInv(a, l, n), Puts(a, l, n, a2, l2, n2), ~(l.len < Space(a, l))
    PROVE  /\ RegistryInv(a2, l2, n2)
           /\ \A t, m : Snapshot(a, l, t, m) => Snapshot(a2, l2, t, m)
<1> DEFINE k == IF l.len = 0 THEN 0 ELSE l.len - 1
           z == [i \in 1 .. k |-> 0]
           b == Read(a, l) \o <<n2>> \o z
<1>1. a \in Seq(Seq(Nat)) /\ n2 \in Nat /\ Lies(a, l)
  <2>1. n2 = n + 1
    BY DEF Puts
  <2>. QED
    BY <2>1 DEF RegistryInv
<1>2. l2 = [array |-> Len(a) + 1, len |-> l.len + 1] /\ a2 = Append(a, b)
  BY DEF Puts
<1>3. l.len \in Nat /\ k \in Nat
  <2>1. l.len \in Nat
    BY <1>1 DEF Lies, Slice
  <2>. QED
    BY <2>1
<1>. HIDE DEF k
<1>4. Read(a, l) \in Seq(Nat) /\ Len(Read(a, l)) = l.len
  BY <1>1, ReadIs
<1>5. b \in Seq(Nat) /\ Len(b) = l.len + 1 + k
  <2>1. z \in Seq(Nat) /\ Len(z) = k
    BY <1>3
  <2>. HIDE DEF z
  <2>2. n2 \in Nat
    BY <1>1
  <2>3. b \in Seq(Nat) /\ Len(b) = Len(Read(a, l)) + 1 + Len(z)
    BY <1>4, <2>1, <2>2, GrownIs
  <2>. QED
    BY <1>3, <1>4, <2>1, <2>3
<1>. HIDE DEF b
<1>6. Len(a) \in Nat
  BY <1>1, LenProperties
<1>7. /\ a2 \in Seq(Seq(Nat)) /\ Len(a2) = Len(a) + 1 /\ a2[Len(a) + 1] = b
      /\ \A j \in 1 .. Len(a) : a2[j] = a[j]
  BY <1>1, <1>5, <1>2
<1>8. Lies(a2, l2)
  <2>1. Len(a) + 1 \in 0 .. Len(a2) /\ Len(a) + 1 # 0 /\ Len(a) + 1 \in Nat
    BY <1>6, <1>7
  <2>2. l.len + 1 \in 0 .. Len(b) /\ l.len + 1 \in Nat
    BY <1>3, <1>5
  <2>. QED
    BY <1>7, <1>2, <2>1, <2>2 DEF Lies, Slice
<1>9. ASSUME NEW t, NEW m, Snapshot(a, l, t, m) PROVE Snapshot(a2, l2, t, m)
  <2>1. /\ t \in Slice /\ t.array \in 0 .. Len(a)
        /\ IF t.array = 0 THEN t.len = 0 ELSE t.len \in 0 .. Len(a[t.array])
        /\ m \in Seq(Nat) /\ Len(m) = t.len
        /\ \A i \in 1 .. t.len : a[t.array][i] = m[i]
    BY <1>9 DEF Snapshot, Lies
  <2>2. t.array # 0 => t.array \in 1 .. Len(a) /\ a2[t.array] = a[t.array]
    BY <1>6, <1>7, <2>1 DEF Slice
  <2>3. Lies(a2, t)
    BY <1>6, <1>7, <2>1, <2>2 DEF Lies, Slice
  <2>4. t.array # l2.array
    BY <1>6, <1>2, <2>1
  <2>5. ASSUME NEW i \in 1 .. t.len PROVE a2[t.array][i] = m[i]
    <3>1. t.array # 0
      BY <2>1
    <3>. QED
      BY <2>1, <2>2, <3>1
  <2>. QED
    BY <2>1, <2>3, <2>4, <2>5 DEF Snapshot
<1>. QED
  BY <1>1, <1>7, <1>8, <1>9 DEF RegistryInv

\* What was taken stays what it was.
LEMMA PutsKeeps ==
    ASSUME NEW a, NEW l, NEW n, NEW a2, NEW l2, NEW n2,
           RegistryInv(a, l, n), Puts(a, l, n, a2, l2, n2)
    PROVE  /\ RegistryInv(a2, l2, n2)
           /\ \A t, m : Snapshot(a, l, t, m) => Snapshot(a2, l2, t, m)
BY PutsInPlace, PutsInNewArray

\* A deletion leaves the arrays alone.
LEMMA DeletesKeeps ==
    ASSUME NEW a, NEW l, NEW n, NEW a2, NEW l2, NEW n2,
           RegistryInv(a, l, n), Deletes(a, l, n, a2, l2, n2)
    PROVE  /\ RegistryInv(a2, l2, n2)
           /\ \A t, m : Snapshot(a, l, t, m) => Snapshot(a2, l2, t, m)
BY DEF RegistryInv, Deletes, Snapshot, Lies, Slice

\* A slice that is taken is a snapshot of what it shows.
LEMMA TakenIs ==
    ASSUME NEW a, NEW l, NEW n, RegistryInv(a, l, n)
    PROVE  Snapshot(a, l, l, Read(a, l))
BY ReadIs DEF RegistryInv, Snapshot, Lies, Slice

\* The slice of an array that was not made is a snapshot of nothing.
LEMMA NilIs ==
    ASSUME NEW a, NEW l, NEW n, RegistryInv(a, l, n)
    PROVE  Snapshot(a, l, [array |-> 0, len |-> 0], << >>)
BY DEF RegistryInv, Snapshot, Lies, Slice

\* What a reader finds later is what was taken.
LEMMA SnapshotRead ==
    ASSUME NEW a, NEW l, NEW n, NEW t, NEW m, RegistryInv(a, l, n), Snapshot(a, l, t, m),
           NEW i \in 1 .. t.len
    PROVE  Read(a, t)[i] = m[i] /\ m[i] \in Nat
<1>1. Lies(a, t) /\ a \in Seq(Seq(Nat))
  BY DEF RegistryInv, Snapshot
<1>2. Read(a, t)[i] = a[t.array][i]
  BY <1>1, ReadIs
<1>. QED
  BY <1>1, <1>2 DEF Snapshot, Lies, Slice

\* Any registry begins well.
LEMMA RegistryBegins ==
    ASSUME NEW k \in 0 .. 3
    PROVE  RegistryInv(IF k = 0 THEN << >>
                       ELSE << [i \in 1 .. (IF k = 3 THEN 4 ELSE k) |-> IF i <= k THEN i ELSE 0] >>,
                       [array |-> IF k = 0 THEN 0 ELSE 1, len |-> k], k)
<1> DEFINE b == [i \in 1 .. (IF k = 3 THEN 4 ELSE k) |-> IF i <= k THEN i ELSE 0]
<1>1. b \in Seq(Nat) /\ Len(b) = IF k = 3 THEN 4 ELSE k
  OBVIOUS
<1>. HIDE DEF b
<1>2. <<b>> \in Seq(Seq(Nat)) /\ Len(<<b>>) = 1 /\ <<b>>[1] = b
  BY <1>1
<1>3. << >> \in Seq(Seq(Nat)) /\ Len(<< >>) = 0
  OBVIOUS
<1>4. CASE k = 0
  BY <1>3, <1>4 DEF RegistryInv, Lies, Slice
<1>5. CASE k # 0
  BY <1>1, <1>2, <1>5 DEF RegistryInv, Lies, Slice, b
<1>. QED
  BY <1>4, <1>5

-----------------------------------------------------------------------------
(* The invariant.                                                          *)

Holders == {p \in Callers : caller[p] = "held"}

\* Every slot that is taken has its holder.
SlotsInv ==
    /\ caller \in [Callers -> {"idle", "select", "held", "failed", "released"}]
    /\ slots \in 0 .. Size
    /\ slots = Cardinality(Holders)

\* How far the value of p has come.
Handing(p) ==
    /\ Len(given[p]) <= taken[p].len
    /\ \A i \in 1 .. Len(given[p]) : given[p][i] = meant[p][i]
    /\ caller[p] \in {"idle", "select", "failed"} => given[p] = << >>
    /\ caller[p] = "released" => Len(given[p]) = taken[p].len

Snapshots == \A p \in Callers : Snapshot(arrays, list, taken[p], meant[p])

BusInv ==
    /\ RegistryInv(arrays, list, registered)
    /\ taken \in [Callers -> Slice] /\ meant \in [Callers -> Seq(Nat)]
    /\ given \in [Callers -> Seq(Nat)]
    /\ Snapshots
    /\ \A p \in Callers : Handing(p)

\* The answers c of handlers to a Dispatch that took t with the content m and
\* whose result is r.
Answers(c, r, t, m) ==
    /\ Len(c) <= t.len
    /\ \A i \in 1 .. Len(c) : c[i].handler = m[i]
    /\ \A i \in 1 .. Len(c) : c[i].ok \/ (i = Len(c) /\ r = "error")
    /\ r \in {"none", "no handler"} => c = << >>
    /\ r = "no handler" => t.len = 0
    /\ r = "running" => Len(c) < t.len
    /\ r = "nil" => Len(c) = t.len /\ Len(c) > 0

\* How far the Dispatch d has come.
Dispatching(d) == Answers(called[d], result[d], dispatchTaken[d], dispatchMeant[d])

DispatchSnapshots ==
    \A d \in Dispatches : Snapshot(handlerArrays, handlers, dispatchTaken[d], dispatchMeant[d])

DispatchInv ==
    /\ RegistryInv(handlerArrays, handlers, handlerCount)
    /\ dispatchTaken \in [Dispatches -> Slice] /\ dispatchMeant \in [Dispatches -> Seq(Nat)]
    /\ called \in [Dispatches -> Seq([handler : Nat, ok : BOOLEAN])]
    /\ result \in [Dispatches -> {"none", "running", "nil", "error", "no handler"}]
    /\ DispatchSnapshots
    /\ \A d \in Dispatches : Dispatching(d)

-----------------------------------------------------------------------------
(* Slots.                                                                  *)

LEMMA SlotsInit == Init => SlotsInv
<1>. SUFFICES ASSUME Init PROVE SlotsInv
  OBVIOUS
<1>1. Holders = {}
  BY DEF Init, SemInit, Holders
<1>2. Cardinality(Holders) = 0
  BY <1>1, FS_EmptySet
<1>. QED
  BY <1>2, SemaphoreAssumption DEF Init, SemInit, SlotsInv

\* Acquire and Release count the holders.
LEMMA SlotsStep ==
    ASSUME SlotsInv, [MessagesNext]_messageVars
    PROVE  SlotsInv'
<1>. USE SemaphoreAssumption DEF SlotsInv
<1>1. IsFiniteSet(Holders)
  BY FS_Subset DEF Holders
<1>2. ASSUME UNCHANGED <<slots, caller>> PROVE SlotsInv'
  BY <1>2 DEF Holders
<1>3. ASSUME NEW p \in Callers, slots' = slots, caller[p] # "held",
             \E x \in {"select", "failed"} : caller' = [caller EXCEPT ![p] = x]
      PROVE  SlotsInv'
  <2>1. Holders' = Holders
    BY <1>3 DEF Holders
  <2>. QED
    BY <1>3, <2>1
<1>4. ASSUME NEW p \in Callers, AcquireSlot(p) PROVE SlotsInv'
  <2>1. Holders' = Holders \cup {p} /\ p \notin Holders
    BY <1>4 DEF AcquireSlot, Holders
  <2>2. Cardinality(Holders') = Cardinality(Holders) + 1
    BY <1>1, <2>1, FS_AddElement
  <2>. QED
    BY <1>4, <2>2 DEF AcquireSlot, Room
<1>5. ASSUME NEW p \in Callers, Release(p) PROVE SlotsInv'
  <2>1. Holders' = Holders \ {p} /\ p \in Holders
    BY <1>5 DEF Release, Holders
  <2>2. Cardinality(Holders') = Cardinality(Holders) - 1
    BY <1>1, <2>1, FS_RemoveElement
  <2>. QED
    BY <1>5, <2>2 DEF Release
<1>6. ASSUME NEW p \in Callers, Publish(p) PROVE SlotsInv'
  <2>1. CASE list.len = 0
    BY <1>2, <1>6, <2>1 DEF Publish, semVars
  <2>2. CASE list.len # 0
    BY <1>3, <1>6, <2>2 DEF Publish, AcquireBegin
  <2>. QED
    BY <2>1, <2>2
<1>7. ASSUME NEW p \in Callers, AcquireCtx(p) PROVE SlotsInv'
  BY <1>3, <1>7 DEF AcquireCtx
<1>8. CASE PublishNext
  <2>1. CASE Subscribe \/ Unsubscribe \/ Done
    BY <1>2, <2>1 DEF Subscribe, Unsubscribe, Done, vars, semVars
  <2>2. ASSUME NEW p \in Callers, PublishCtxEnd(p) PROVE SlotsInv'
    BY <1>2, <2>2 DEF PublishCtxEnd, CtxEnd
  <2>. QED
    BY <1>4, <1>5, <1>6, <1>7, <1>8, <2>1, <2>2
       DEF PublishNext, PublishGo, PublishDrop, PublishDone
<1>9. CASE UNCHANGED <<slots, caller>>
  BY <1>2, <1>9
<1>10. CASE \E p \in Callers : SubscriberReturns(p)
  BY <1>2, <1>10 DEF SubscriberReturns, Called, semVars
<1>. QED
  BY <1>8, <1>9, <1>10
     DEF MessagesNext, messageVars, vars, semVars, MakesDispatch, HandlerStep

-----------------------------------------------------------------------------
(* Publish.                                                                *)

LEMMA BusInit == Init => BusInv
<1>. SUFFICES ASSUME Init PROVE BusInv
  OBVIOUS
<1>1. RegistryInv(arrays, list, registered)
  BY RegistryBegins, RegistryAssumption DEF Init, RegInit
<1>2. Snapshots
  BY <1>1, NilIs DEF Init, Nil, Snapshots
<1>. QED
  BY <1>1, <1>2 DEF Init, SemInit, Nil, BusInv, Handing, Slice

\* Registrations leave alone what was taken before.
LEMMA BusRegistry ==
    ASSUME BusInv, UNCHANGED <<caller, taken, meant, given>>,
           Put \/ Delete \/ UNCHANGED regVars
    PROVE  BusInv'
<1>1. RegistryInv(arrays', list', registered') /\ Snapshots'
  <2>1. CASE Put
    <3>1. Puts(arrays, list, registered, arrays', list', registered')
      BY <2>1 DEF Put, Puts, Capacity, Space, Grown, Content, Read
    <3>. QED
      BY <3>1, PutsKeeps DEF BusInv, Snapshots
  <2>2. CASE Delete
    <3>1. Deletes(arrays, list, registered, arrays', list', registered')
      BY <2>2 DEF Delete, Deletes, Nil
    <3>. QED
      BY <3>1, DeletesKeeps DEF BusInv, Snapshots
  <2>3. CASE UNCHANGED regVars
    BY <2>3 DEF BusInv, Snapshots, regVars
  <2>. QED
    BY <2>1, <2>2, <2>3
<1>. QED
  BY <1>1 DEF BusInv, Handing

\* A caller goes on.
LEMMA BusMoves ==
    ASSUME BusInv, SlotsInv, UNCHANGED busVars, NEW p \in Callers, NEW x,
           caller' = [caller EXCEPT ![p] = x],
           \/ x = "held"
           \/ x = "failed" /\ caller[p] = "select"
           \/ x = "released" /\ Len(given[p]) = taken[p].len
    PROVE  BusInv'
<1>1. RegistryInv(arrays', list', registered') /\ Snapshots'
  BY DEF BusInv, Snapshots, busVars, regVars
<1>2. ASSUME NEW q \in Callers PROVE Handing(q)'
  <2>1. CASE q = p
    BY <2>1 DEF BusInv, SlotsInv, Handing, busVars
  <2>2. CASE q # p
    BY <2>2 DEF BusInv, SlotsInv, Handing, busVars
  <2>. QED
    BY <2>1, <2>2
<1>. QED
  BY <1>1, <1>2 DEF BusInv, busVars

\* Publish takes the list.
LEMMA BusTakes ==
    ASSUME BusInv, SlotsInv, NEW p \in Callers, Publish(p)
    PROVE  BusInv'
<1>1. CASE list.len = 0
  BY <1>1, BusRegistry DEF Publish, semVars
<1>2. CASE list.len # 0
  <2>1. /\ caller[p] = "idle" /\ caller' = [caller EXCEPT ![p] = "select"]
        /\ taken' = [taken EXCEPT ![p] = list] /\ meant' = [meant EXCEPT ![p] = Read(arrays, list)]
        /\ UNCHANGED <<arrays, list, registered, given>>
    BY <1>2 DEF Publish, AcquireBegin, regVars, Content, Read
  <2>2. Snapshot(arrays, list, list, Read(arrays, list))
    BY TakenIs DEF BusInv
  <2>3. list \in Slice /\ Read(arrays, list) \in Seq(Nat)
    BY <2>2 DEF Snapshot, Lies
  <2>4. Snapshots'
    BY <2>1, <2>2 DEF BusInv, Snapshots
  <2>5. ASSUME NEW q \in Callers PROVE Handing(q)'
    <3>1. CASE q = p
      BY <2>1, <2>3, <3>1 DEF BusInv, SlotsInv, Handing, Slice
    <3>2. CASE q # p
      BY <2>1, <3>2 DEF BusInv, SlotsInv, Handing
    <3>. QED
      BY <3>1, <3>2
  <2>. QED
    BY <2>1, <2>3, <2>4, <2>5 DEF BusInv
<1>. QED
  BY <1>1, <1>2

\* A sequence with one more element.
LEMMA Appended ==
    ASSUME NEW S, NEW s \in Seq(S), NEW v \in S
    PROVE  /\ Append(s, v) \in Seq(S) /\ Len(Append(s, v)) = Len(s) + 1
           /\ Append(s, v)[Len(s) + 1] = v
           /\ \A i \in 1 .. Len(s) : Append(s, v)[i] = s[i]
OBVIOUS

\* A subscriber of p has returned: it is the next one of the snapshot.
LEMMA BusCalls ==
    ASSUME BusInv, SlotsInv, NEW p \in Callers, Called(p)
    PROVE  BusInv'
<1>1. /\ caller[p] = "held" /\ Len(given[p]) < taken[p].len
      /\ given' = [given EXCEPT ![p] = Append(@, Callee(p))]
      /\ UNCHANGED <<caller, arrays, list, registered, taken, meant>>
  BY DEF Called, Calling, semVars, regVars
<1>2. Callee(p) = meant[p][Len(given[p]) + 1] /\ Callee(p) \in Nat
  <2>1. taken[p] \in Slice /\ given[p] \in Seq(Nat)
    BY DEF BusInv
  <2>2. Len(given[p]) + 1 \in 1 .. taken[p].len
    BY <1>1, <2>1 DEF Slice
  <2>3. Callee(p) = Read(arrays, taken[p])[Len(given[p]) + 1]
    BY DEF Callee, Content, Read
  <2>4. RegistryInv(arrays, list, registered) /\ Snapshot(arrays, list, taken[p], meant[p])
    BY DEF BusInv, Snapshots
  <2>. QED
    BY <2>2, <2>3, <2>4, SnapshotRead
<1>3. given[p] \in Seq(Nat) /\ taken[p] \in Slice
  BY DEF BusInv
<1>4. given' \in [Callers -> Seq(Nat)] /\ given'[p] = Append(given[p], Callee(p))
  BY <1>1, <1>2, <1>3, Appended DEF BusInv
<1>5. ASSUME NEW q \in Callers PROVE Handing(q)'
  <2>1. CASE q = p
    <3>1. /\ Len(given'[p]) = Len(given[p]) + 1 /\ Len(given[p]) \in Nat
          /\ given'[p][Len(given[p]) + 1] = Callee(p)
          /\ \A i \in 1 .. Len(given[p]) : given'[p][i] = given[p][i]
      BY <1>2, <1>3, <1>4, Appended
    <3>2. ASSUME NEW i \in 1 .. Len(given'[p]) PROVE given'[p][i] = meant[p][i]
      <4>1. i \in 1 .. Len(given[p]) \/ i = Len(given[p]) + 1
        BY <3>1
      <4>2. \A j \in 1 .. Len(given[p]) : given[p][j] = meant[p][j]
        BY DEF BusInv, Handing
      <4>. QED
        BY <1>2, <3>1, <4>1, <4>2
    <3>. QED
      BY <1>1, <1>3, <2>1, <3>1, <3>2 DEF Handing, Slice
  <2>2. CASE q # p
    <3>1. given'[q] = given[q]
      BY <1>1, <2>2 DEF BusInv
    <3>. QED
      BY <1>1, <3>1 DEF BusInv, Handing
  <2>. QED
    BY <2>1, <2>2
<1>. QED
  BY <1>1, <1>4, <1>5 DEF BusInv, Snapshots

LEMMA BusStep ==
    ASSUME BusInv, SlotsInv, [MessagesNext]_messageVars
    PROVE  BusInv'
<1>1. ASSUME UNCHANGED <<caller, taken, meant, given>>,
             Put \/ Delete \/ UNCHANGED regVars
      PROVE  BusInv'
  BY <1>1, BusRegistry
<1>2. CASE Subscribe \/ Unsubscribe
  BY <1>1, <1>2 DEF Subscribe, Unsubscribe, semVars
<1>3. ASSUME NEW p \in Callers, Publish(p) PROVE BusInv'
  BY <1>3, BusTakes
<1>4. ASSUME NEW p \in Callers, PublishGo(p) PROVE BusInv'
  BY <1>4, BusMoves DEF PublishGo, AcquireSlot
<1>5. ASSUME NEW p \in Callers, PublishDrop(p) PROVE BusInv'
  BY <1>5, BusMoves DEF PublishDrop, AcquireCtx
<1>6. ASSUME NEW p \in Callers, PublishDone(p) PROVE BusInv'
  BY <1>6, BusMoves DEF PublishDone, Release, Finished
<1>7. ASSUME NEW p \in Callers, PublishCtxEnd(p) PROVE BusInv'
  BY <1>1, <1>7 DEF PublishCtxEnd, CtxEnd, busVars
<1>8. ASSUME NEW p \in Callers, SubscriberReturns(p) PROVE BusInv'
  BY <1>8, BusCalls DEF SubscriberReturns
<1>9. CASE UNCHANGED vars
  BY <1>1, <1>9 DEF vars, semVars, busVars
<1>. QED
  BY <1>2, <1>3, <1>4, <1>5, <1>6, <1>7, <1>8, <1>9
     DEF MessagesNext, PublishNext, Done, MakesDispatch, HandlerStep, messageVars

-----------------------------------------------------------------------------
(* Dispatch.                                                               *)

LEMMA DispatchInit == D!DispatcherInit => DispatchInv
<1>. SUFFICES ASSUME D!DispatcherInit PROVE DispatchInv
  OBVIOUS
<1>1. RegistryInv(handlerArrays, handlers, handlerCount)
  BY RegistryBegins, MessagesAssumption DEF D!DispatcherInit, D!RegInit
<1>2. DispatchSnapshots
  BY <1>1, NilIs DEF D!DispatcherInit, D!Nil, DispatchSnapshots
<1>. QED
  BY <1>1, <1>2 DEF D!DispatcherInit, D!Nil, DispatchInv, Dispatching, Answers, Slice

\* Registrations leave alone what was taken before.
LEMMA DispatchRegistry ==
    ASSUME DispatchInv, UNCHANGED <<dispatchTaken, dispatchMeant, called, result>>,
           D!Put \/ D!Delete
    PROVE  DispatchInv'
<1>1. RegistryInv(handlerArrays', handlers', handlerCount') /\ DispatchSnapshots'
  <2>1. CASE D!Put
    <3>1. Puts(handlerArrays, handlers, handlerCount, handlerArrays', handlers', handlerCount')
      BY <2>1 DEF D!Put, Puts, D!Capacity, Space, D!Grown, D!Content, Read
    <3>. QED
      BY <3>1, PutsKeeps DEF DispatchInv, DispatchSnapshots
  <2>2. CASE D!Delete
    <3>1. Deletes(handlerArrays, handlers, handlerCount, handlerArrays', handlers', handlerCount')
      BY <2>2 DEF D!Delete, Deletes, D!Nil
    <3>. QED
      BY <3>1, DeletesKeeps DEF DispatchInv, DispatchSnapshots
  <2>. QED
    BY <2>1, <2>2
<1>. QED
  BY <1>1 DEF DispatchInv, Dispatching

\* Dispatch takes the list.
LEMMA DispatchTakes ==
    ASSUME DispatchInv, NEW d \in Dispatches, D!Dispatch(d)
    PROVE  DispatchInv'
<1>1. /\ result[d] = "none"
      /\ dispatchTaken' = [dispatchTaken EXCEPT ![d] = handlers]
      /\ dispatchMeant' = [dispatchMeant EXCEPT ![d] = Read(handlerArrays, handlers)]
      /\ result' = [result EXCEPT ![d] = IF handlers.len = 0 THEN "no handler" ELSE "running"]
      /\ UNCHANGED <<handlerArrays, handlers, handlerCount, called>>
  BY DEF D!Dispatch, D!regVars, D!Content, Read
<1>2. Snapshot(handlerArrays, handlers, handlers, Read(handlerArrays, handlers))
  BY TakenIs DEF DispatchInv
<1>3. handlers \in Slice /\ Read(handlerArrays, handlers) \in Seq(Nat)
  BY <1>2 DEF Snapshot, Lies
<1>4. DispatchSnapshots'
  BY <1>1, <1>2 DEF DispatchInv, DispatchSnapshots
<1>5. ASSUME NEW e \in Dispatches PROVE Dispatching(e)'
  <2>1. CASE e = d
    <3>1. Answers(<< >>, IF handlers.len = 0 THEN "no handler" ELSE "running",
                  handlers, Read(handlerArrays, handlers))
      BY <1>3 DEF Answers, Slice
    <3>2. called[d] = << >>
      BY <1>1 DEF DispatchInv, Dispatching, Answers
    <3>. QED
      BY <1>1, <2>1, <3>1, <3>2 DEF DispatchInv, Dispatching
  <2>2. CASE e # d
    <3>1. /\ called'[e] = called[e] /\ result'[e] = result[e]
          /\ dispatchTaken'[e] = dispatchTaken[e] /\ dispatchMeant'[e] = dispatchMeant[e]
      BY <1>1, <2>2 DEF DispatchInv
    <3>. QED
      BY <3>1 DEF DispatchInv, Dispatching
  <2>. QED
    BY <2>1, <2>2
<1>. QED
  BY <1>1, <1>3, <1>4, <1>5 DEF DispatchInv

\* A handler has returned: it is the next one of the snapshot, and the last one
\* if it failed.
LEMMA DispatchCalls ==
    ASSUME DispatchInv, NEW d \in Dispatches, NEW ok \in BOOLEAN, D!HandlerReturns(d, ok)
    PROVE  DispatchInv'
<1> DEFINE n == Len(called[d])
           v == [handler |-> D!Content(dispatchTaken[d])[n + 1], ok |-> ok]
<1>1. /\ result[d] = "running"
      /\ called' = [called EXCEPT ![d] = Append(@, v)]
      /\ result' = [result EXCEPT ![d] = D!Answer(d, ok)]
      /\ UNCHANGED <<handlerArrays, handlers, handlerCount, dispatchTaken, dispatchMeant>>
  BY DEF D!HandlerReturns, D!regVars
<1>2. /\ called[d] \in Seq([handler : Nat, ok : BOOLEAN]) /\ n \in Nat
      /\ dispatchTaken[d] \in Slice /\ n < dispatchTaken[d].len
  <2>1. called[d] \in Seq([handler : Nat, ok : BOOLEAN]) /\ dispatchTaken[d] \in Slice
    BY DEF DispatchInv
  <2>2. Answers(called[d], result[d], dispatchTaken[d], dispatchMeant[d])
    BY DEF DispatchInv, Dispatching
  <2>. QED
    BY <1>1, <2>1, <2>2 DEF Answers
<1>3. v.handler = dispatchMeant[d][n + 1] /\ v \in [handler : Nat, ok : BOOLEAN] /\ v.ok = ok
  <2>1. n + 1 \in 1 .. dispatchTaken[d].len
    BY <1>2 DEF Slice
  <2>2. v.handler = Read(handlerArrays, dispatchTaken[d])[n + 1]
    BY DEF D!Content, Read
  <2>3. /\ RegistryInv(handlerArrays, handlers, handlerCount)
        /\ Snapshot(handlerArrays, handlers, dispatchTaken[d], dispatchMeant[d])
    BY DEF DispatchInv, DispatchSnapshots
  <2>4. v.handler = dispatchMeant[d][n + 1] /\ dispatchMeant[d][n + 1] \in Nat
    BY <2>1, <2>2, <2>3, SnapshotRead
  <2>. QED
    BY <2>4
<1>. HIDE DEF v
<1>4. /\ called' \in [Dispatches -> Seq([handler : Nat, ok : BOOLEAN])]
      /\ called'[d] = Append(called[d], v)
  BY <1>1, <1>2, <1>3, Appended DEF DispatchInv
<1>5. /\ result' \in [Dispatches -> {"none", "running", "nil", "error", "no handler"}]
      /\ result'[d] = IF ~ok THEN "error"
                      ELSE IF n + 1 < dispatchTaken[d].len THEN "running" ELSE "nil"
  BY <1>1 DEF DispatchInv, D!Answer
<1>6. /\ Len(called'[d]) = n + 1 /\ called'[d][n + 1] = v
      /\ \A i \in 1 .. n : called'[d][i] = called[d][i]
  BY <1>2, <1>3, <1>4, Appended
<1>7. /\ \A i \in 1 .. n : called[d][i].handler = dispatchMeant[d][i]
      /\ \A i \in 1 .. n : called[d][i].ok
  <2>1. Answers(called[d], result[d], dispatchTaken[d], dispatchMeant[d])
    BY DEF DispatchInv, Dispatching
  <2>. QED
    BY <1>1, <2>1 DEF Answers
<1>8. ASSUME NEW e \in Dispatches PROVE Dispatching(e)'
  <2>1. CASE e = d
    <3>1. \A i \in 1 .. n + 1 : i \in 1 .. n \/ i = n + 1
      BY <1>2
    <3>2. \A i \in 1 .. n + 1 : called'[d][i].handler = dispatchMeant[d][i]
      BY <1>3, <1>6, <1>7, <3>1
    <3>3. \A i \in 1 .. n + 1 : called'[d][i].ok \/ (i = n + 1 /\ result'[d] = "error")
      BY <1>3, <1>5, <1>6, <1>7, <3>1
    <3>4. Len(called'[d]) <= dispatchTaken[d].len
      BY <1>2, <1>6 DEF Slice
    <3>5. result'[d] = "nil" => n + 1 = dispatchTaken[d].len /\ n + 1 > 0
      <4>1. result'[d] = "nil" => ~(n + 1 < dispatchTaken[d].len)
        BY <1>5
      <4>. QED
        BY <1>2, <4>1 DEF Slice
    <3>6. result'[d] = "running" => n + 1 < dispatchTaken[d].len
      BY <1>5
    <3>7. result'[d] \notin {"none", "no handler"}
      BY <1>5
    <3>. QED
      BY <1>1, <1>6, <2>1, <3>2, <3>3, <3>4, <3>5, <3>6, <3>7 DEF Dispatching, Answers
  <2>2. CASE e # d
    <3>1. called'[e] = called[e] /\ result'[e] = result[e]
      BY <1>1, <2>2 DEF DispatchInv
    <3>. QED
      BY <1>1, <3>1 DEF DispatchInv, Dispatching
  <2>. QED
    BY <2>1, <2>2
<1>. QED
  BY <1>1, <1>4, <1>5, <1>8 DEF DispatchInv, DispatchSnapshots

LEMMA DispatchStep ==
    ASSUME DispatchInv, [MessagesNext]_messageVars
    PROVE  DispatchInv'
<1>1. CASE D!Register \/ D!Unregister
  BY <1>1, DispatchRegistry DEF D!Register, D!Unregister
<1>2. ASSUME NEW d \in Dispatches, D!Dispatch(d) PROVE DispatchInv'
  BY <1>2, DispatchTakes
<1>3. ASSUME NEW d \in Dispatches, NEW ok \in BOOLEAN, D!HandlerReturns(d, ok) PROVE DispatchInv'
  BY <1>3, DispatchCalls
<1>4. CASE UNCHANGED dispatchVars
  BY <1>4 DEF dispatchVars, DispatchInv, DispatchSnapshots, Dispatching
<1>. QED
  BY <1>1, <1>2, <1>3, <1>4
     DEF MessagesNext, MakesDispatch, HandlerStep, SubscriberReturns, messageVars

-----------------------------------------------------------------------------
(* Theorems.                                                               *)

LEMMA MessagesInv == Spec => [](SlotsInv /\ BusInv /\ DispatchInv)
<1>1. MessagesInit => SlotsInv /\ BusInv /\ DispatchInv
  BY SlotsInit, BusInit, DispatchInit DEF MessagesInit
<1>2. SlotsInv /\ BusInv /\ DispatchInv /\ [MessagesNext]_messageVars
        => (SlotsInv /\ BusInv /\ DispatchInv)'
  BY SlotsStep, BusStep, DispatchStep
<1>. QED
  BY <1>1, <1>2, PTL DEF Spec

\* What has been given is a prefix of what was meant, and all of it in the end.
LEMMA GivenIs ==
    ASSUME BusInv, NEW p \in Callers
    PROVE  /\ IsPrefix(given[p], meant[p])
           /\ Len(given[p]) = taken[p].len => given[p] = meant[p]
<1>1. /\ given[p] \in Seq(Nat) /\ meant[p] \in Seq(Nat) /\ Len(meant[p]) = taken[p].len
      /\ Len(given[p]) <= Len(meant[p])
      /\ \A i \in 1 .. Len(given[p]) : given[p][i] = meant[p][i]
  BY DEF BusInv, Snapshots, Snapshot, Handing
<1>. DEFINE g == given[p]
            m == meant[p]
            n == Len(given[p])
<1>2. n \in Nat /\ (\A i \in 1 .. n : g[i] \in Nat /\ m[i] \in Nat)
  BY <1>1
<1>3. /\ SubSeq(g, 1, n) \in Seq(Nat) /\ SubSeq(m, 1, n) \in Seq(Nat)
      /\ Len(SubSeq(g, 1, n)) = n /\ Len(SubSeq(m, 1, n)) = n
      /\ \A i \in 1 .. n : SubSeq(g, 1, n)[i] = g[i] /\ SubSeq(m, 1, n)[i] = m[i]
  BY <1>2, SubSeqProperties
<1>4. SubSeq(g, 1, n) = SubSeq(m, 1, n)
  BY <1>1, <1>3, SeqEqual
<1>5. n = taken[p].len => g = m
  BY <1>1, SeqEqual
<1>. QED
  BY <1>1, <1>4, <1>5 DEF IsPrefix

\* Publish gives its value to the subscribers it found, whatever is registered
\* or removed while it waits for its slot and they are called.
THEOREM DeliveredFromSnapshot == Spec => []Delivered
<1>1. BusInv => Delivered
  BY GivenIs DEF Delivered, BusInv, Handing
<1>. QED
  BY <1>1, MessagesInv, PTL

\* The goroutines of the bus hand out at most Size values at the same time.
THEOREM HandsOutBounded == Spec => []Bounded
<1>1. ASSUME SlotsInv, BusInv PROVE Bounded
  <2> DEFINE B == {p \in Callers : given[p] # meant[p] /\ caller[p] \in {"held", "released"}}
  <2>1. B \subseteq Holders
    BY <1>1, GivenIs DEF Holders, BusInv, Handing
  <2>2. IsFiniteSet(Holders)
    BY SemaphoreAssumption, FS_Subset DEF Holders
  <2>3. Cardinality(B) <= Cardinality(Holders) /\ Cardinality(B) \in Nat
    BY <2>1, <2>2, FS_Subset, FS_CardinalityType
  <2>. QED
    BY <1>1, <2>3, SemaphoreAssumption DEF Bounded, SlotsInv
<1>. QED
  BY <1>1, MessagesInv, PTL

\* Dispatch calls the handlers it found, in order and up to the first failure.
THEOREM DispatchedInOrder == Spec => []Dispatched
<1>1. DispatchInv => Dispatched
  <2>. SUFFICES ASSUME DispatchInv, NEW d \in Dispatches
                PROVE  LET n == Len(called[d])
                       IN /\ n <= Len(dispatchMeant[d])
                          /\ \A i \in 1 .. n : called[d][i].handler = dispatchMeant[d][i]
                          /\ \A i \in 1 .. n : called[d][i].ok \/ (i = n /\ result[d] = "error")
                          /\ result[d] = "nil" => n = Len(dispatchMeant[d]) /\ n > 0
                          /\ result[d] = "no handler" => dispatchMeant[d] = << >>
    BY DEF Dispatched, D!Dispatched
  <2>1. Len(dispatchMeant[d]) = dispatchTaken[d].len /\ dispatchMeant[d] \in Seq(Nat)
    BY DEF DispatchInv, DispatchSnapshots, Snapshot
  <2>2. Len(dispatchMeant[d]) = 0 => dispatchMeant[d] = << >>
    BY <2>1
  <2>. QED
    BY <2>1, <2>2 DEF DispatchInv, Dispatching, Answers
<1>. QED
  BY <1>1, MessagesInv, PTL
=============================================================================

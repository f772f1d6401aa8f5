---------------------------- MODULE SetupProofs ----------------------------
(***************************************************************************)
(* Proofs about Setup for every number of containers and registrations,    *)
(* every set of factories and of types: what is accepted is used, and      *)
(* start hooks and tasks find what was initialized.                        *)
(***************************************************************************)
EXTENDS Setup, TLAPS, SequenceTheorems

-----------------------------------------------------------------------------
(* Lists of numbers.                                                       *)

\* The numbers after one, and those from one down.
Rising(s, n) == \A i \in 1 .. Len(s) : s[i] = n + i
Falling(s, n) == \A i \in 1 .. Len(s) : s[i] = n + 1 - i

\* A list that is extended stays what it is.
LEMMA Extended ==
    ASSUME NEW s \in Seq(Nat), NEW x \in Nat
    PROVE  /\ Append(s, x) \in Seq(Nat) /\ Len(Append(s, x)) = Len(s) + 1
           /\ \A n \in Nat : Rising(s, n) /\ x = n + Len(s) + 1 => Rising(Append(s, x), n)
           /\ \A n \in Nat : Falling(s, n) /\ x = n - Len(s) => Falling(Append(s, x), n)
<1>1. /\ Append(s, x) \in Seq(Nat) /\ Len(Append(s, x)) = Len(s) + 1
      /\ \A i \in 1 .. Len(s) : Append(s, x)[i] = s[i]
      /\ Append(s, x)[Len(s) + 1] = x
  BY AppendProperties
<1>. DEFINE q == Append(s, x)
            m == Len(s)
<1>2. m \in Nat
  OBVIOUS
<1>3. /\ Len(q) = m + 1 /\ q[m + 1] = x
      /\ \A i \in 1 .. m + 1 : i # m + 1 => i \in 1 .. m /\ q[i] = s[i]
  <2>1. \A i \in 1 .. m + 1 : i # m + 1 => i \in 1 .. m
    BY <1>2
  <2>. QED
    BY <1>1, <2>1
<1>. HIDE DEF q
<1>4. ASSUME NEW n \in Nat, Rising(s, n), x = n + m + 1
      PROVE  Rising(q, n)
  <2>1. \A i \in 1 .. m : s[i] = n + i
    BY <1>4 DEF Rising
  <2>. HIDE DEF m
  <2>2. ASSUME NEW i \in 1 .. m + 1
        PROVE  q[i] = n + i
    <3>1. CASE i = m + 1
      BY <1>2, <1>3, <1>4, <3>1
    <3>2. CASE i # m + 1
      <4>1. i \in 1 .. m /\ q[i] = s[i]
        BY <1>3, <3>2
      <4>. QED
        BY <2>1, <4>1
    <3>. QED
      BY <3>1, <3>2
  <2>. QED
    BY <1>3, <2>2 DEF Rising
<1>5. ASSUME NEW n \in Nat, Falling(s, n), x = n - m
      PROVE  Falling(q, n)
  <2>1. \A i \in 1 .. m : s[i] = n + 1 - i
    BY <1>5 DEF Falling
  <2>. HIDE DEF m
  <2>2. ASSUME NEW i \in 1 .. m + 1
        PROVE  q[i] = n + 1 - i
    <3>1. CASE i = m + 1
      BY <1>2, <1>3, <1>5, <3>1
    <3>2. CASE i # m + 1
      <4>1. i \in 1 .. m /\ q[i] = s[i]
        BY <1>3, <3>2
      <4>. QED
        BY <2>1, <4>1
    <3>. QED
      BY <3>1, <3>2
  <2>. QED
    BY <1>3, <2>2 DEF Falling
<1>. QED
  BY <1>1, <1>4, <1>5 DEF q

\* No number is twice in such a list.
LEMMA Injective ==
    ASSUME NEW s \in Seq(Nat), NEW n \in Nat, Rising(s, n) \/ Falling(s, n)
    PROVE  IsInjective(s)
<1>1. DOMAIN s = 1 .. Len(s) /\ Len(s) \in Nat
  OBVIOUS
<1>. QED
  BY <1>1 DEF IsInjective, Rising, Falling

\* The numbers up to one, as a list.
LEMMA UpToIs ==
    ASSUME NEW n \in Nat
    PROVE  UpTo(n) \in Seq(Nat) /\ Len(UpTo(n)) = n /\ Rising(UpTo(n), 0)
BY DEF UpTo, Rising

\* A rising list is all the numbers.
LEMMA AllNumbers ==
    ASSUME NEW s \in Seq(Nat), Rising(s, 0)
    PROVE  s = UpTo(Len(s))
<1>1. Len(s) \in Nat
  OBVIOUS
<1>2. \A i \in 1 .. Len(s) : s[i] = UpTo(Len(s))[i]
  BY <1>1 DEF Rising, UpTo
<1>. QED
  BY <1>1, <1>2, UpToIs, SeqEqual

\* A falling list is all of them backwards.
LEMMA AllReversed ==
    ASSUME NEW s \in Seq(Nat), Falling(s, Len(s))
    PROVE  s = Reverse(UpTo(Len(s)))
<1>. DEFINE n == Len(s)
            t == Reverse(UpTo(n))
<1>1. n \in Nat
  OBVIOUS
<1>2. t = [i \in 1 .. n |-> n - i + 1]
  <2>1. t = [i \in 1 .. n |-> UpTo(n)[n - i + 1]]
    BY <1>1, UpToIs DEF Reverse
  <2>2. \A i \in 1 .. n : UpTo(n)[n - i + 1] = n - i + 1
    BY <1>1 DEF UpTo
  <2>. QED
    BY <2>1, <2>2
<1>. HIDE DEF t
<1>3. t \in Seq(Nat) /\ Len(t) = n
  BY <1>1, <1>2
<1>4. \A i \in 1 .. n : s[i] = t[i]
  BY <1>1, <1>2 DEF Falling
<1>5. s = t
  BY <1>3, <1>4, SeqEqual
<1>. QED
  BY <1>5 DEF t

\* Where a number is in the list of the launched tasks.
LEMMA PlacesDiffer ==
    ASSUME NEW m \in Nat, NEW n \in Nat, NEW i \in 1 .. m + n, NEW j \in 1 .. m + n,
           (IF i <= m THEN n + i ELSE i - m) = (IF j <= m THEN n + j ELSE j - m)
    PROVE  i = j
OBVIOUS

\* The launched tasks: those that were registered late, then the others.
LEMMA Launched ==
    ASSUME NEW s \in Seq(Nat), NEW n \in Nat, Rising(s, n)
    PROVE  /\ s \o UpTo(n) \in Seq(Nat)
           /\ IsInjective(s \o UpTo(n))
           /\ ToSet(s \o UpTo(n)) = 1 .. Len(s) + n
<1>. DEFINE t == s \o UpTo(n)
            m == Len(s)
<1>1. /\ m \in Nat /\ t \in Seq(Nat) /\ DOMAIN t = 1 .. m + n
      /\ \A i \in 1 .. m + n : t[i] = IF i <= m THEN n + i ELSE i - m
  <2>1. m \in Nat /\ UpTo(n) \in Seq(Nat) /\ Len(UpTo(n)) = n /\ Rising(UpTo(n), 0)
    BY UpToIs
  <2>2. /\ t \in Seq(Nat) /\ Len(t) = m + Len(UpTo(n))
        /\ \A i \in 1 .. m + Len(UpTo(n)) :
             t[i] = IF i <= m THEN s[i] ELSE UpTo(n)[i - m]
    BY <2>1, ConcatProperties
  <2>3. ASSUME NEW i \in 1 .. m + n
        PROVE  t[i] = IF i <= m THEN n + i ELSE i - m
    <3>1. CASE i <= m
      <4>1. t[i] = s[i] /\ i \in 1 .. m
        BY <2>1, <2>2, <3>1
      <4>2. s[i] = n + i
        BY <4>1 DEF Rising
      <4>. QED
        BY <3>1, <4>1, <4>2
    <3>2. CASE ~(i <= m)
      <4>1. t[i] = UpTo(n)[i - m] /\ i - m \in 1 .. n
        BY <2>1, <2>2, <3>2
      <4>2. UpTo(n)[i - m] = i - m
        BY <4>1 DEF UpTo
      <4>. QED
        BY <3>2, <4>1, <4>2
    <3>. QED
      BY <3>1, <3>2
  <2>. QED
    BY <2>1, <2>2, <2>3
<1>. HIDE DEF t, m
<1>2. IsInjective(t)
  <2>1. ASSUME NEW i \in 1 .. m + n, NEW j \in 1 .. m + n, t[i] = t[j]
        PROVE  i = j
    <3>1. (IF i <= m THEN n + i ELSE i - m) = (IF j <= m THEN n + j ELSE j - m)
      BY <1>1, <2>1
    <3>. QED
      BY <1>1, <3>1, PlacesDiffer
  <2>. QED
    BY <1>1, <2>1 DEF IsInjective
<1>3. ToSet(t) = 1 .. m + n
  <2>1. ASSUME NEW j \in 1 .. m + n
        PROVE  \E i \in 1 .. m + n : t[i] = j
    <3>1. CASE j <= n
      <4>1. j + m \in 1 .. m + n /\ t[j + m] = j
        BY <1>1, <3>1
      <4>. QED
        BY <4>1
    <3>2. CASE n < j
      <4>1. j - n \in 1 .. m + n /\ t[j - n] = j
        BY <1>1, <3>2
      <4>. QED
        BY <4>1
    <3>. QED
      BY <3>1, <3>2
  <2>2. ASSUME NEW i \in 1 .. m + n
        PROVE  t[i] \in 1 .. m + n
    <3>1. CASE i <= m
      BY <1>1, <3>1
    <3>2. CASE ~(i <= m)
      BY <1>1, <3>2
    <3>. QED
      BY <3>1, <3>2
  <2>. QED
    BY <1>1, <2>1, <2>2 DEF ToSet
<1>4. t \in Seq(Nat)
  BY <1>1
<1>. QED
  BY <1>2, <1>3, <1>4 DEF t, m

-----------------------------------------------------------------------------
(* The lists of one container: its state st, and for each kind the number  *)
(* n that is registered, the number m that was taken, and what ran.        *)

\* Hooks of init and start: as many as were taken when they are called, which
\* are all; none before, and all of them after it succeeded.
Hooked(st, n, m, s, before, during) ==
    /\ Rising(s, 0)
    /\ st \in before => Len(s) = 0
    /\ st = during => m = n /\ Len(s) <= n
    /\ st \notin before \cup {during, "stopping", "stopped"} => Len(s) = n

\* Tasks: those registered during start are launched first.
Launches(st, n, m, s) ==
    /\ st \in {"setup", "initializing", "initialized"} => Len(s) = 0
    /\ st = "starting" => Rising(s, m) /\ n = Len(s) + m
    /\ st = "running" => ToSet(s) = 1 .. n
    /\ IsInjective(s)

\* Stopping and stop hooks.
Halted(st, n, m, s) ==
    /\ Falling(s, n) /\ Len(s) <= n
    /\ st \notin {"stopping", "stopped"} => Len(s) = 0
    /\ st = "stopping" => m = n
    /\ st = "stopped" => Len(s) = n

ListsOf(st, f, t, r) ==
    /\ Hooked(st, f["init"], t["init"], r["init"], {"setup"}, "initializing")
    /\ Hooked(st, f["start"], t["start"], r["start"],
              {"setup", "initializing", "initialized"}, "starting")
    /\ Launches(st, f["task"], t["task"], r["task"])
    /\ Halted(st, f["stopping"], t["stopping"], r["stopping"])
    /\ Halted(st, f["stop"], t["stop"], r["stop"])

States == {"setup", "initializing", "initialized", "starting", "running", "stopping", "stopped"}

Numbers == [Kinds -> Nat]
Ran == [Kinds -> Seq(Nat)]

\* All rows but one entry are the same.
ButOne(f, g, k) == \A j \in Kinds \ {k} : g[j] = f[j]

LEMMA KindsAre == Kinds = {"init", "start", "stopping", "stop", "task"}
BY DEF Kinds

\* No list is begun.
LEMMA NothingRan ==
    ASSUME NEW f \in Numbers, NEW t \in Numbers, NEW r \in Ran,
           \A k \in Kinds : r[k] = << >>
    PROVE  ListsOf("setup", f, t, r)
<1>1. \A k \in Kinds : r[k] = << >> /\ f[k] \in Nat
  BY DEF Numbers
<1>2. Len(<< >>) = 0 /\ DOMAIN << >> = {}
  OBVIOUS
<1>3. \A n \in Nat : Rising(<< >>, 0) /\ Falling(<< >>, n)
  BY <1>2 DEF Rising, Falling
<1>4. IsInjective(<< >>)
  BY <1>2 DEF IsInjective
<1>. QED
  BY <1>1, <1>2, <1>3, <1>4, KindsAre DEF ListsOf, Hooked, Launches, Halted

\* A registration in a container that takes it.
LEMMA Registered ==
    ASSUME NEW st \in States, NEW f \in Numbers, NEW t \in Numbers, NEW r \in Ran,
           NEW k \in Kinds, NEW g \in Numbers, NEW q \in Ran,
           st \in OpenFor(k), ListsOf(st, f, t, r),
           g[k] = f[k] + 1, ButOne(f, g, k), ButOne(r, q, k),
           q[k] = IF k = "task" /\ st = "starting" THEN Append(r[k], f[k] + 1) ELSE r[k]
    PROVE  ListsOf(st, g, t, q)
<1>. DEFINE s == r[k]
            n == f[k]
<1>1. s \in Seq(Nat) /\ Len(s) \in Nat /\ n \in Nat /\ t["task"] \in Nat
  <2>1. s \in Seq(Nat)
    BY DEF Ran
  <2>2. n \in Nat /\ t["task"] \in Nat
    BY KindsAre DEF Numbers
  <2>. HIDE DEF s
  <2>. QED
    BY <2>1, <2>2
<1>2. CASE k = "init"
  <2>1. st = "setup" /\ q[k] = r[k]
    BY <1>2 DEF OpenFor
  <2>2. Hooked(st, g["init"], t["init"], q["init"], {"setup"}, "initializing")
    BY <1>2, <2>1 DEF ListsOf, Hooked
  <2>. QED
    BY <1>2, <2>2, KindsAre DEF ListsOf, ButOne
<1>3. CASE k = "start"
  <2>1. st \in {"setup", "initializing"} /\ q[k] = r[k]
    BY <1>3 DEF OpenFor
  <2>2. Hooked(st, g["start"], t["start"], q["start"],
               {"setup", "initializing", "initialized"}, "starting")
    BY <1>3, <2>1 DEF ListsOf, Hooked
  <2>. QED
    BY <1>3, <2>2, KindsAre DEF ListsOf, ButOne
<1>4. ASSUME k \in {"stopping", "stop"}
      PROVE  Halted(st, g[k], t[k], q[k])
  <2>1. st \in {"setup", "initializing"} /\ q[k] = r[k]
    BY <1>4 DEF OpenFor
  <2>2. Halted(st, f[k], t[k], r[k])
    BY <1>4 DEF ListsOf
  <2>3. g[k] = n + 1 /\ q[k] = s
    BY <1>4, <2>1
  <2>4. st \notin {"stopping", "stopped"} /\ Len(s) = 0
    BY <2>1, <2>2 DEF Halted
  <2>. HIDE DEF s, n
  <2>5. Falling(s, n + 1) /\ Len(s) <= n + 1
    BY <1>1, <2>4 DEF Falling
  <2>. QED
    BY <2>3, <2>4, <2>5 DEF Halted
<1>5. CASE k = "stopping"
  BY <1>4, <1>5, KindsAre DEF ListsOf, ButOne
<1>6. CASE k = "stop"
  BY <1>4, <1>6, KindsAre DEF ListsOf, ButOne
<1>7. CASE k = "task"
  <2>1. st \in {"setup", "initializing", "starting"}
    BY <1>7 DEF OpenFor
  <2>2. Launches(st, n, t["task"], s)
    BY <1>7 DEF ListsOf
  <2>3. Launches(st, n + 1, t["task"], q["task"])
    <3>1. CASE st = "starting"
      <4>. DEFINE m == t["task"]
                  x == Append(s, n + 1)
      <4>1. Rising(s, m) /\ n = Len(s) + m /\ q["task"] = x
        BY <1>7, <2>2, <3>1 DEF Launches
      <4>2. x \in Seq(Nat) /\ Len(x) = Len(s) + 1 /\ Rising(x, m)
        BY <1>1, <4>1, Extended
      <4>3. IsInjective(x)
        BY <1>1, <4>2, Injective
      <4>4. n + 1 = Len(x) + m
        BY <1>1, <4>1, <4>2
      <4>. QED
        BY <3>1, <4>1, <4>2, <4>3, <4>4 DEF Launches
    <3>2. CASE st # "starting"
      BY <1>7, <2>1, <2>2, <3>2 DEF Launches
    <3>. QED
      BY <3>1, <3>2
  <2>. QED
    BY <1>7, <2>3, KindsAre DEF ListsOf, ButOne
<1>. QED
  BY <1>2, <1>3, <1>5, <1>6, <1>7, KindsAre

\* Lengths are numbers.
LEMMA RanLength ==
    ASSUME NEW r \in Ran, NEW k \in Kinds
    PROVE  r[k] \in Seq(Nat) /\ Len(r[k]) \in Nat
<1>1. r[k] \in Seq(Nat)
  BY DEF Ran
<1>. QED
  BY <1>1

\* Init or start of a container begins.
LEMMA Begun ==
    ASSUME NEW p \in {"init", "start"},
           NEW f \in Numbers, NEW t \in Numbers, NEW r \in Ran, NEW u \in Numbers,
           ListsOf(Before[p], f, t, r), u[p] = f[p],
           p = "start" => u["task"] = f["task"]
    PROVE  ListsOf(During[p], f, u, r)
<1>1. \A k \in Kinds : f[k] \in Nat
  BY DEF Numbers
<1>2. CASE p = "init"
  BY <1>1, <1>2, KindsAre DEF ListsOf, Hooked, Launches, Halted, Before, During
<1>3. CASE p = "start"
  <2>. DEFINE s == r["task"]
              n == f["task"]
  <2>1. Before[p] = "initialized" /\ During[p] = "starting" /\ u["start"] = f["start"]
    BY <1>3 DEF Before, During
  <2>2. Launches("initialized", n, t["task"], s) /\ u["task"] = n /\ n \in Nat
    BY <1>1, <1>3, <2>1, KindsAre DEF ListsOf
  <2>3. Launches("starting", n, n, s)
    <3>. HIDE DEF s, n
    <3>1. Len(s) = 0 /\ IsInjective(s)
      BY <2>2 DEF Launches
    <3>2. Rising(s, n) /\ n = Len(s) + n
      BY <2>2, <3>1 DEF Rising
    <3>. QED
      BY <3>1, <3>2 DEF Launches
  <2>4. Hooked("starting", f["init"], u["init"], r["init"], {"setup"}, "initializing")
    BY <2>1 DEF ListsOf, Hooked
  <2>5. Hooked("starting", f["start"], u["start"], r["start"],
               {"setup", "initializing", "initialized"}, "starting")
    BY <1>1, <2>1, KindsAre DEF ListsOf, Hooked
  <2>6. ASSUME NEW k \in {"stopping", "stop"}
        PROVE  Halted("starting", f[k], u[k], r[k])
    BY <2>1 DEF ListsOf, Halted
  <2>. QED
    BY <2>1, <2>2, <2>3, <2>4, <2>5, <2>6 DEF ListsOf
<1>. QED
  BY <1>2, <1>3

\* The next hook of init or start is called.
LEMMA Called ==
    ASSUME NEW p \in {"init", "start"},
           NEW f \in Numbers, NEW t \in Numbers, NEW r \in Ran, NEW q \in Ran,
           ListsOf(During[p], f, t, r), Len(r[p]) < t[p],
           q[p] = Append(r[p], Len(r[p]) + 1), ButOne(r, q, p)
    PROVE  ListsOf(During[p], f, t, q)
<1>. DEFINE s == r[p]
            x == q[p]
            n == f[p]
            st == During[p]
<1>1. s \in Seq(Nat) /\ Len(s) \in Nat /\ n \in Nat
  BY RanLength, KindsAre DEF Numbers
<1>2. Rising(s, 0) /\ t[p] = n /\ st = IF p = "init" THEN "initializing" ELSE "starting"
  BY DEF ListsOf, Hooked, During
<1>3. Rising(x, 0) /\ Len(x) = Len(s) + 1
  BY <1>1, <1>2, Extended
<1>4. Len(x) <= n
  BY <1>1, <1>2, <1>3
<1>. HIDE DEF s, x, n, st
<1>5. CASE p = "init"
  <2>1. Hooked(st, n, n, x, {"setup"}, "initializing")
    BY <1>2, <1>3, <1>4, <1>5 DEF Hooked
  <2>. QED
    BY <1>2, <1>5, <2>1, KindsAre DEF ListsOf, ButOne, x, n, st
<1>6. CASE p = "start"
  <2>1. Hooked(st, n, n, x, {"setup", "initializing", "initialized"}, "starting")
    BY <1>2, <1>3, <1>4, <1>6 DEF Hooked
  <2>. QED
    BY <1>2, <1>6, <2>1, KindsAre DEF ListsOf, ButOne, x, n, st
<1>. QED
  BY <1>5, <1>6

\* All hooks of init were called.
LEMMA Initialized ==
    ASSUME NEW f \in Numbers, NEW t \in Numbers, NEW r \in Ran,
           ListsOf("initializing", f, t, r), Len(r["init"]) = t["init"]
    PROVE  ListsOf("initialized", f, t, r)
BY DEF ListsOf, Hooked, Launches, Halted

\* All hooks of start were called, and the tasks are launched.
LEMMA Started ==
    ASSUME NEW f \in Numbers, NEW t \in Numbers, NEW r \in Ran, NEW q \in Ran,
           ListsOf("starting", f, t, r), Len(r["start"]) = t["start"],
           q["task"] = r["task"] \o UpTo(t["task"]), ButOne(r, q, "task")
    PROVE  ListsOf("running", f, t, q)
<1>. DEFINE s == r["task"]
            m == t["task"]
            n == f["task"]
            x == q["task"]
<1>1. s \in Seq(Nat) /\ Len(s) \in Nat /\ m \in Nat
  BY RanLength, KindsAre DEF Numbers
<1>2. Rising(s, m) /\ n = Len(s) + m
  BY DEF ListsOf, Launches
<1>3. Launches("running", n, m, x)
  <2>1. IsInjective(x) /\ ToSet(x) = 1 .. Len(s) + m
    BY <1>1, <1>2, Launched
  <2>. HIDE DEF s, m, n, x
  <2>. QED
    BY <1>2, <2>1 DEF Launches
<1>4. \A k \in Kinds \ {"task"} : q[k] = r[k]
  BY DEF ButOne
<1>5. Hooked("running", f["init"], t["init"], q["init"], {"setup"}, "initializing")
  BY <1>4, KindsAre DEF ListsOf, Hooked
<1>6. Hooked("running", f["start"], t["start"], q["start"],
             {"setup", "initializing", "initialized"}, "starting")
  BY <1>4, KindsAre DEF ListsOf, Hooked
<1>7. ASSUME NEW k \in {"stopping", "stop"}
      PROVE  Halted("running", f[k], t[k], q[k])
  BY <1>4, KindsAre DEF ListsOf, Halted
<1>. QED
  BY <1>3, <1>5, <1>6, <1>7 DEF ListsOf

\* Shutdown of a container begins.
LEMMA StopBegun ==
    ASSUME NEW st \in States \ {"setup", "stopping", "stopped"},
           NEW f \in Numbers, NEW t \in Numbers, NEW r \in Ran, NEW u \in Numbers,
           ListsOf(st, f, t, r), u["stopping"] = f["stopping"], u["stop"] = f["stop"]
    PROVE  ListsOf("stopping", f, u, r)
BY DEF ListsOf, Hooked, Launches, Halted

\* The next hook of shutdown is called, backwards.
LEMMA StopCalled ==
    ASSUME NEW k \in {"stopping", "stop"},
           NEW f \in Numbers, NEW t \in Numbers, NEW r \in Ran, NEW q \in Ran,
           ListsOf("stopping", f, t, r), Len(r[k]) < t[k],
           q[k] = Append(r[k], t[k] - Len(r[k])), ButOne(r, q, k)
    PROVE  ListsOf("stopping", f, t, q)
<1>. DEFINE s == r[k]
            n == f[k]
            x == q[k]
<1>1. s \in Seq(Nat) /\ Len(s) \in Nat /\ n \in Nat
  BY RanLength, KindsAre DEF Numbers
<1>2. Falling(s, n) /\ t[k] = n
  BY DEF ListsOf, Halted
<1>3. Falling(x, n) /\ Len(x) = Len(s) + 1
  <2>. DEFINE y == n - Len(s)
  <2>1. y \in Nat /\ x = Append(s, y)
    BY <1>1, <1>2
  <2>2. /\ Falling(s, n) => Falling(Append(s, y), n)
        /\ Len(Append(s, y)) = Len(s) + 1
    <3>1. \A z \in Nat : z = n - Len(s) =>
            /\ Falling(s, n) => Falling(Append(s, z), n)
            /\ Len(Append(s, z)) = Len(s) + 1
      BY <1>1, Extended
    <3>. QED
      BY <2>1, <3>1
  <2>. QED
    BY <1>2, <2>1, <2>2
<1>4. Halted("stopping", n, n, x)
  <2>1. Len(x) <= n
    BY <1>1, <1>2, <1>3
  <2>. HIDE DEF s, n, x
  <2>. QED
    BY <1>3, <2>1 DEF Halted
<1>. QED
  BY <1>2, <1>4, KindsAre DEF ListsOf, ButOne

\* All of them were called.
LEMMA StopEnded ==
    ASSUME NEW f \in Numbers, NEW t \in Numbers, NEW r \in Ran,
           ListsOf("stopping", f, t, r),
           \A k \in {"stopping", "stop"} : Len(r[k]) = t[k]
    PROVE  ListsOf("stopped", f, t, r)
BY DEF ListsOf, Hooked, Launches, Halted

-----------------------------------------------------------------------------
(* The lists of all containers, under every action that changes one.       *)

Indexes == 1 .. Containers

RowTypes ==
    /\ container \in [Indexes -> States]
    /\ fns \in [Indexes -> Numbers]
    /\ taken \in [Indexes -> Numbers]
    /\ ran \in [Indexes -> Ran]

Lists == \A c \in Indexes : ListsOf(container[c], fns[c], taken[c], ran[c])

Rows == RowTypes /\ Lists

\* One of the numbers or lists of a container is replaced.
LEMMA NumberReplaced ==
    ASSUME fns \in [Indexes -> Numbers], NEW c \in Indexes, NEW k \in Kinds,
           NEW n \in Nat, fns' = [fns EXCEPT ![c][k] = n]
    PROVE  /\ fns' \in [Indexes -> Numbers]
           /\ fns'[c][k] = n /\ ButOne(fns[c], fns'[c], k)
           /\ \A d \in Indexes \ {c} : fns'[d] = fns[d]
BY DEF ButOne, Numbers

LEMMA ListReplaced ==
    ASSUME ran \in [Indexes -> Ran], NEW c \in Indexes, NEW k \in Kinds,
           NEW x \in Seq(Nat), ran' = [ran EXCEPT ![c][k] = x]
    PROVE  /\ ran' \in [Indexes -> Ran]
           /\ ran'[c][k] = x /\ ButOne(ran[c], ran'[c], k)
           /\ \A d \in Indexes \ {c} : ran'[d] = ran[d]
<1>. DEFINE S == Seq(Nat)
<1>1. ran \in [Indexes -> [Kinds -> S]] /\ x \in S
  BY DEF Ran
<1>. HIDE DEF S
<1>2. /\ ran' \in [Indexes -> [Kinds -> S]]
      /\ ran'[c][k] = x /\ ButOne(ran[c], ran'[c], k)
      /\ \A d \in Indexes \ {c} : ran'[d] = ran[d]
  BY <1>1 DEF ButOne
<1>. QED
  BY <1>2 DEF S, Ran

\* A row of a table is replaced.
LEMMA RowReplaced ==
    ASSUME NEW D, NEW S, NEW F \in [D -> S], NEW c \in D, NEW x \in S, NEW G,
           G = [F EXCEPT ![c] = x]
    PROVE  G \in [D -> S] /\ G[c] = x /\ \A d \in D \ {c} : G[d] = F[d]
OBVIOUS

\* What was taken is replaced by what is registered, for some kinds.
LEMMA Taken ==
    ASSUME RowTypes, NEW c \in Indexes, NEW kinds, taken' = Take(c, kinds)
    PROVE  /\ taken' \in [Indexes -> Numbers]
           /\ \A k \in kinds \cap Kinds : taken'[c][k] = fns[c][k]
           /\ \A d \in Indexes \ {c} : taken'[d] = taken[d]
<1>. DEFINE x == [k \in Kinds |-> IF k \in kinds THEN fns[c][k] ELSE taken[c][k]]
<1>1. fns[c] \in Numbers /\ taken[c] \in Numbers
  BY DEF RowTypes
<1>2. x \in Numbers /\ \A k \in kinds \cap Kinds : x[k] = fns[c][k]
  BY <1>1 DEF Numbers
<1>3. taken' = [taken EXCEPT ![c] = x]
  BY DEF Take
<1>. HIDE DEF x
<1>. QED
  BY <1>2, <1>3 DEF RowTypes

\* Only one row changes.
LEMMA OneRow ==
    ASSUME Rows, RowTypes', NEW c \in Indexes,
           ListsOf(container'[c], fns'[c], taken'[c], ran'[c]),
           \A d \in Indexes \ {c} : /\ container'[d] = container[d] /\ fns'[d] = fns[d]
                                    /\ taken'[d] = taken[d] /\ ran'[d] = ran[d]
    PROVE  Rows'
<1>1. ASSUME NEW d \in Indexes
      PROVE  ListsOf(container'[d], fns'[d], taken'[d], ran'[d])
  <2>1. CASE d = c
    BY <2>1
  <2>2. CASE d # c
    BY <2>2 DEF Rows, Lists
  <2>. QED
    BY <2>1, <2>2
<1>. QED
  BY <1>1 DEF Rows, Lists, Indexes

\* The types of a row.
LEMMA RowOf ==
    ASSUME Rows, NEW c \in Indexes
    PROVE  /\ container[c] \in States /\ fns[c] \in Numbers /\ taken[c] \in Numbers
           /\ ran[c] \in Ran /\ ListsOf(container[c], fns[c], taken[c], ran[c])
           /\ \A k \in Kinds : fns[c][k] \in Nat /\ taken[c][k] \in Nat
           /\ \A k \in Kinds : ran[c][k] \in Seq(Nat) /\ Len(ran[c][k]) \in Nat
<1>1. /\ container[c] \in States /\ fns[c] \in Numbers /\ taken[c] \in Numbers
      /\ ran[c] \in Ran /\ ListsOf(container[c], fns[c], taken[c], ran[c])
  BY DEF Rows, RowTypes, Lists
<1>2. \A k \in Kinds : fns[c][k] \in Nat /\ taken[c][k] \in Nat
  BY <1>1 DEF Numbers
<1>3. \A k \in Kinds : ran[c][k] \in Seq(Nat) /\ Len(ran[c][k]) \in Nat
  BY <1>1, RanLength
<1>. QED
  BY <1>1, <1>2, <1>3

LEMMA RegisterRows ==
    ASSUME Rows, NEW c \in Indexes, NEW k \in Kinds, Register(c, k)
    PROVE  Rows'
<1>. DEFINE st == container[c]
            n == fns[c][k]
            s == ran[c][k]
<1>1. /\ st \in OpenFor(k) /\ container' = container /\ taken' = taken
      /\ fns' = [fns EXCEPT ![c][k] = n + 1]
  BY DEF Register
<1>2. n \in Nat /\ s \in Seq(Nat)
  BY RowOf
<1>3. /\ fns' \in [Indexes -> Numbers] /\ fns'[c][k] = n + 1
      /\ ButOne(fns[c], fns'[c], k) /\ \A d \in Indexes \ {c} : fns'[d] = fns[d]
  <2>1. fns \in [Indexes -> Numbers] /\ n + 1 \in Nat
    BY <1>2 DEF Rows, RowTypes
  <2>. QED
    BY <1>1, <2>1, NumberReplaced
<1>. DEFINE x == IF k = "task" /\ st = "starting" THEN Append(s, n + 1) ELSE s
<1>4. ran' = [ran EXCEPT ![c][k] = x]
  <2>1. CASE k = "task" /\ st = "starting"
    <3>1. ran' = [ran EXCEPT ![c][k] = Append(s, fns'[c][k])]
      BY <2>1 DEF Register
    <3>. QED
      BY <1>3, <2>1, <3>1
  <2>2. CASE ~(k = "task" /\ st = "starting")
    <3>1. ran' = ran
      BY <2>2 DEF Register
    <3>. QED
      BY <2>2, <3>1 DEF Rows, RowTypes, Ran
  <2>. QED
    BY <2>1, <2>2
<1>5. /\ ran' \in [Indexes -> Ran] /\ ran'[c][k] = x
      /\ ButOne(ran[c], ran'[c], k) /\ \A d \in Indexes \ {c} : ran'[d] = ran[d]
  <2>1. ran \in [Indexes -> Ran] /\ x \in Seq(Nat)
    BY <1>2, Extended DEF Rows, RowTypes
  <2>. HIDE DEF x
  <2>. QED
    BY <1>4, <2>1, ListReplaced
<1>6. RowTypes'
  BY <1>1, <1>3, <1>5 DEF Rows, RowTypes
<1>7. ListsOf(st, fns'[c], taken[c], ran'[c])
  <2>1. fns'[c] \in Numbers /\ ran'[c] \in Ran
    BY <1>3, <1>5
  <2>. QED
    BY <1>1, <1>3, <1>5, <2>1, RowOf, Registered
<1>. QED
  BY <1>1, <1>3, <1>5, <1>6, <1>7, OneRow

\* Where Run is.
Progress ==
    /\ runtime \in {"setup", "initializing", "running", "stopped"}
    /\ phase \in {"idle", "init", "start", "wait", "shutdown", "returned"}
    /\ ended \in BOOLEAN
    /\ attached \in 0 .. Containers /\ at \in Nat
    /\ phase = "idle" <=> runtime = "setup"
    /\ phase = "init" => runtime = "initializing"
    /\ phase = "start" => runtime = "running"
    /\ phase \in {"init", "start"} => at \in 1 .. attached + 1
    /\ phase = "shutdown" => at <= attached
    /\ phase = "returned" <=> runtime = "stopped"
    /\ phase = "init" => \A c \in Indexes : c < at => container[c] = "initialized"

\* The container that Run is at.
LEMMA AtIsIndex ==
    ASSUME Progress,
           \/ phase \in {"init", "start"} /\ at <= attached
           \/ phase = "shutdown" /\ at > 0
    PROVE  at \in Indexes
BY SetupAssumption DEF Progress, Indexes

LEMMA ContainerBeginRows ==
    ASSUME Rows, Progress, ContainerBegin
    PROVE  Rows'
<1>. DEFINE kinds == IF phase = "init" THEN {"init"} ELSE {"start", "task"}
<1>1. /\ phase \in {"init", "start"} /\ at <= attached /\ container[at] = Before[phase]
      /\ container' = [container EXCEPT ![at] = During[phase]]
      /\ taken' = Take(at, kinds) /\ fns' = fns /\ ran' = ran
  BY DEF ContainerBegin, registered
<1>2. at \in Indexes
  BY <1>1, AtIsIndex
<1>3. /\ taken' \in [Indexes -> Numbers] /\ taken'[at] \in Numbers
      /\ \A k \in kinds \cap Kinds : taken'[at][k] = fns[at][k]
      /\ \A d \in Indexes \ {at} : taken'[d] = taken[d]
  <2>. HIDE DEF kinds
  <2>. QED
    BY <1>1, <1>2, Taken DEF Rows
<1>4. /\ container' \in [Indexes -> States] /\ container'[at] = During[phase]
      /\ \A d \in Indexes \ {at} : container'[d] = container[d]
  <2>1. container \in [Indexes -> States] /\ During[phase] \in States
    BY <1>1 DEF Rows, RowTypes, States, During
  <2>. QED
    BY <1>1, <1>2, <2>1, RowReplaced
<1>5. RowTypes'
  BY <1>1, <1>3, <1>4 DEF Rows, RowTypes
<1>6. ListsOf(During[phase], fns[at], taken'[at], ran[at])
  <2>1. /\ taken'[at][phase] = fns[at][phase]
        /\ phase = "start" => taken'[at]["task"] = fns[at]["task"]
    BY <1>1, <1>3, KindsAre
  <2>2. ListsOf(Before[phase], fns[at], taken[at], ran[at])
    BY <1>1, <1>2, RowOf
  <2>3. /\ fns[at] \in Numbers /\ taken[at] \in Numbers /\ ran[at] \in Ran
        /\ taken'[at] \in Numbers /\ phase \in {"init", "start"}
    BY <1>1, <1>2, <1>3, RowOf
  <2>. QED
    BY <2>1, <2>2, <2>3, Begun
<1>. QED
  BY <1>1, <1>2, <1>3, <1>4, <1>5, <1>6, OneRow

\* A hook of init or start is called, whether it succeeds or fails.
LEMMA HookRows ==
    ASSUME Rows, Progress, HookSucceeds \/ HookFails
    PROVE  Rows'
<1>. DEFINE s == ran[at][phase]
            x == Append(s, Len(s) + 1)
<1>1. /\ phase \in {"init", "start"} /\ at <= attached /\ container[at] = During[phase]
      /\ Len(s) < taken[at][phase]
      /\ container' = container /\ taken' = taken /\ fns' = fns
      /\ ran' = [ran EXCEPT ![at][phase] = x]
  BY DEF HookSucceeds, HookFails, InContainer, CalledOf, registered
<1>2. at \in Indexes /\ phase \in Kinds
  BY <1>1, AtIsIndex, KindsAre
<1>3. s \in Seq(Nat) /\ Len(s) + 1 \in Nat
  <2>1. s \in Seq(Nat) /\ Len(s) \in Nat
    BY <1>2, RowOf
  <2>. QED
    BY <2>1
<1>4. x \in Seq(Nat)
  BY <1>3, Extended
<1>5. /\ ran' \in [Indexes -> Ran] /\ ran'[at][phase] = x
      /\ ButOne(ran[at], ran'[at], phase) /\ \A d \in Indexes \ {at} : ran'[d] = ran[d]
  <2>1. ran \in [Indexes -> Ran]
    BY DEF Rows, RowTypes
  <2>2. ran' = [ran EXCEPT ![at][phase] = x]
    BY <1>1
  <2>. HIDE DEF x
  <2>. QED
    BY <1>2, <1>4, <2>1, <2>2, ListReplaced
<1>6. RowTypes'
  BY <1>1, <1>5 DEF Rows, RowTypes
<1>7. ListsOf(During[phase], fns[at], taken[at], ran'[at])
  <2>1. ListsOf(During[phase], fns[at], taken[at], ran[at]) /\ ran'[at] \in Ran
    BY <1>1, <1>2, <1>5, RowOf
  <2>. QED
    BY <1>1, <1>2, <1>5, <2>1, RowOf, Called
<1>. QED
  BY <1>1, <1>2, <1>5, <1>6, <1>7, OneRow

LEMMA ContainerDoneRows ==
    ASSUME Rows, Progress, ContainerDone
    PROVE  Rows'
<1>1. /\ phase \in {"init", "start"} /\ at <= attached /\ container[at] = During[phase]
      /\ Len(ran[at][phase]) = taken[at][phase]
      /\ container' = [container EXCEPT ![at] = After[phase]]
      /\ taken' = taken /\ fns' = fns
  BY DEF ContainerDone, InContainer, CalledOf, registered
<1>2. at \in Indexes
  BY <1>1, AtIsIndex
<1>3. /\ container' \in [Indexes -> States] /\ container'[at] = After[phase]
      /\ \A d \in Indexes \ {at} : container'[d] = container[d]
  <2>1. container \in [Indexes -> States] /\ After[phase] \in States
    BY <1>1 DEF Rows, RowTypes, States, After
  <2>. QED
    BY <1>1, <1>2, <2>1, RowReplaced
<1>4. ListsOf(During[phase], fns[at], taken[at], ran[at])
  BY <1>1, <1>2, RowOf
<1>5. CASE phase = "init"
  <2>1. ran' = ran
    BY <1>5 DEF ContainerDone
  <2>2. RowTypes'
    BY <1>1, <1>3, <2>1 DEF Rows, RowTypes
  <2>3. During[phase] = "initializing" /\ After[phase] = "initialized"
    BY <1>5 DEF During, After
  <2>4. ListsOf("initialized", fns[at], taken[at], ran[at])
    BY <1>1, <1>2, <1>4, <1>5, <2>3, RowOf, Initialized
  <2>. QED
    BY <1>1, <1>2, <1>3, <2>1, <2>2, <2>3, <2>4, OneRow
<1>6. CASE phase = "start"
  <2>. DEFINE s == ran[at]["task"]
              m == taken[at]["task"]
              x == s \o UpTo(m)
  <2>1. ran' = [ran EXCEPT ![at]["task"] = x]
    BY <1>6 DEF ContainerDone
  <2>2. s \in Seq(Nat) /\ m \in Nat /\ "task" \in Kinds
    BY <1>2, RowOf, KindsAre
  <2>3. x \in Seq(Nat)
    BY <2>2, UpToIs, ConcatProperties
  <2>4. /\ ran' \in [Indexes -> Ran] /\ ran'[at]["task"] = x
        /\ ButOne(ran[at], ran'[at], "task") /\ \A d \in Indexes \ {at} : ran'[d] = ran[d]
    <3>1. ran \in [Indexes -> Ran]
      BY DEF Rows, RowTypes
    <3>. HIDE DEF x
    <3>. QED
      BY <1>2, <2>1, <2>2, <2>3, <3>1, ListReplaced
  <2>5. RowTypes'
    BY <1>1, <1>3, <2>4 DEF Rows, RowTypes
  <2>6. During[phase] = "starting" /\ After[phase] = "running"
    BY <1>6 DEF During, After
  <2>7. ListsOf("running", fns[at], taken[at], ran'[at])
    <3>1. ran'[at] \in Ran
      BY <1>2, <2>4
    <3>. QED
      BY <1>1, <1>2, <1>4, <1>6, <2>4, <2>6, <3>1, RowOf, Started
  <2>. QED
    BY <1>1, <1>2, <1>3, <2>4, <2>5, <2>6, <2>7, OneRow
<1>. QED
  BY <1>1, <1>5, <1>6

LEMMA StopBeginRows ==
    ASSUME Rows, Progress, StopBegin
    PROVE  Rows'
<1>1. /\ phase = "shutdown" /\ at > 0 /\ container[at] \notin {"setup", "stopping", "stopped"}
      /\ container' = [container EXCEPT ![at] = "stopping"]
      /\ taken' = Take(at, {"stopping", "stop"}) /\ fns' = fns /\ ran' = ran
  BY DEF StopBegin, registered
<1>2. at \in Indexes
  BY <1>1, AtIsIndex
<1>3. /\ taken' \in [Indexes -> Numbers] /\ taken'[at] \in Numbers
      /\ taken'[at]["stopping"] = fns[at]["stopping"] /\ taken'[at]["stop"] = fns[at]["stop"]
      /\ \A d \in Indexes \ {at} : taken'[d] = taken[d]
  BY <1>1, <1>2, Taken, KindsAre DEF Rows
<1>4. /\ container' \in [Indexes -> States] /\ container'[at] = "stopping"
      /\ \A d \in Indexes \ {at} : container'[d] = container[d]
  <2>1. container \in [Indexes -> States] /\ "stopping" \in States
    BY DEF Rows, RowTypes, States
  <2>. QED
    BY <1>1, <1>2, <2>1, RowReplaced
<1>5. RowTypes'
  BY <1>1, <1>3, <1>4 DEF Rows, RowTypes
<1>6. ListsOf("stopping", fns[at], taken'[at], ran[at])
  BY <1>1, <1>2, <1>3, RowOf, StopBegun
<1>. QED
  BY <1>1, <1>2, <1>3, <1>4, <1>5, <1>6, OneRow

LEMMA StopHookRows ==
    ASSUME Rows, Progress, NEW k \in {"stopping", "stop"}, StopHook(k)
    PROVE  Rows'
<1>. DEFINE s == ran[at][k]
            x == Append(s, taken[at][k] - Len(s))
<1>1. /\ phase = "shutdown" /\ at > 0 /\ container[at] = "stopping"
      /\ Len(s) < taken[at][k]
      /\ container' = container /\ taken' = taken /\ fns' = fns
      /\ ran' = [ran EXCEPT ![at][k] = x]
  BY DEF StopHook, CalledOf, registered
<1>2. at \in Indexes /\ k \in Kinds
  BY <1>1, AtIsIndex, KindsAre
<1>3. s \in Seq(Nat) /\ taken[at][k] - Len(s) \in Nat
  <2>1. s \in Seq(Nat) /\ Len(s) \in Nat /\ taken[at][k] \in Nat
    BY <1>2, RowOf
  <2>. HIDE DEF s
  <2>. QED
    BY <1>1, <2>1
<1>4. x \in Seq(Nat)
  BY <1>3, Extended
<1>5. /\ ran' \in [Indexes -> Ran] /\ ran'[at][k] = x
      /\ ButOne(ran[at], ran'[at], k) /\ \A d \in Indexes \ {at} : ran'[d] = ran[d]
  <2>1. ran \in [Indexes -> Ran]
    BY DEF Rows, RowTypes
  <2>2. ran' = [ran EXCEPT ![at][k] = x]
    BY <1>1
  <2>. HIDE DEF x
  <2>. QED
    BY <1>2, <1>4, <2>1, <2>2, ListReplaced
<1>6. RowTypes'
  BY <1>1, <1>5 DEF Rows, RowTypes
<1>7. ListsOf("stopping", fns[at], taken[at], ran'[at])
  <2>1. ListsOf("stopping", fns[at], taken[at], ran[at]) /\ ran'[at] \in Ran
    BY <1>1, <1>2, <1>5, RowOf
  <2>. QED
    BY <1>1, <1>2, <1>5, <2>1, RowOf, StopCalled
<1>. QED
  BY <1>1, <1>2, <1>5, <1>6, <1>7, OneRow

LEMMA StopDoneRows ==
    ASSUME Rows, Progress, StopDone
    PROVE  Rows'
<1>1. /\ phase = "shutdown" /\ at > 0 /\ container[at] = "stopping"
      /\ \A k \in {"stopping", "stop"} : Len(ran[at][k]) = taken[at][k]
      /\ container' = [container EXCEPT ![at] = "stopped"]
      /\ taken' = taken /\ fns' = fns /\ ran' = ran
  BY DEF StopDone, CalledOf, registered
<1>2. at \in Indexes
  BY <1>1, AtIsIndex
<1>3. /\ container' \in [Indexes -> States] /\ container'[at] = "stopped"
      /\ \A d \in Indexes \ {at} : container'[d] = container[d]
  <2>1. container \in [Indexes -> States] /\ "stopped" \in States
    BY DEF Rows, RowTypes, States
  <2>. QED
    BY <1>1, <1>2, <2>1, RowReplaced
<1>4. RowTypes'
  BY <1>1, <1>3 DEF Rows, RowTypes
<1>5. ListsOf("stopped", fns[at], taken[at], ran[at])
  BY <1>1, <1>2, RowOf, StopEnded
<1>. QED
  BY <1>1, <1>2, <1>3, <1>4, <1>5, OneRow

\* The other actions change no list and no container.
Still == container' = container /\ fns' = fns /\ taken' = taken /\ ran' = ran

LEMMA RowsStep ==
    ASSUME Rows, Progress, [Next]_vars
    PROVE  Rows'
<1>1. ASSUME Still
      PROVE  Rows'
  BY <1>1 DEF Still, Rows, RowTypes, Lists
<1>2. ASSUME NEW c \in 1 .. Containers, SetLocal(c)
      PROVE  Rows'
  BY <1>1, <1>2 DEF SetLocal, Still
<1>3. ASSUME NEW c \in 1 .. Containers, NEW k \in Kinds, Register(c, k)
      PROVE  Rows'
  BY <1>3, RegisterRows DEF Indexes
<1>4. ASSUME NEW v \in Values, Set(v)
      PROVE  Rows'
  BY <1>1, <1>4 DEF Set, Still, registered
<1>5. CASE Attach \/ CtxEnds \/ RunBegin \/ InitsDone \/ StartupLeaves
  BY <1>1, <1>5
     DEF Attach, CtxEnds, RunBegin, InitsDone, StartupLeaves, Still, registered
<1>6. CASE ShutdownBegin \/ SkipContainer \/ Return \/ Done \/ UNCHANGED vars
  BY <1>1, <1>6 DEF ShutdownBegin, SkipContainer, Return, Done, vars, Still, registered
<1>7. CASE ContainerBegin \/ HookSucceeds \/ HookFails \/ ContainerDone
  BY <1>7, ContainerBeginRows, HookRows, ContainerDoneRows
<1>8. CASE StopBegin \/ StopDone
  BY <1>8, StopBeginRows, StopDoneRows
<1>9. ASSUME NEW k \in {"stopping", "stop"}, StopHook(k)
      PROVE  Rows'
  BY <1>9, StopHookRows
<1>. QED
  BY <1>2, <1>3, <1>4, <1>5, <1>6, <1>7, <1>8, <1>9 DEF Next

-----------------------------------------------------------------------------
(* Where Run is, under every action.                                       *)

LEMMA ProgressStep ==
    ASSUME Rows, Progress, [Next]_vars
    PROVE  Progress'
<1>. USE DEF Indexes
<1>1. ASSUME UNCHANGED progress, UNCHANGED container, attached' = attached
      PROVE  Progress'
  BY <1>1 DEF Progress, progress
<1>2. ASSUME NEW c \in 1 .. Containers, NEW k \in Kinds, Register(c, k)
      PROVE  Progress'
  BY <1>1, <1>2 DEF Register
<1>3. ASSUME NEW c \in 1 .. Containers, SetLocal(c)
      PROVE  Progress'
  BY <1>1, <1>3 DEF SetLocal
<1>4. ASSUME NEW v \in Values, Set(v)
      PROVE  Progress'
  BY <1>1, <1>4 DEF Set, registered
<1>5. CASE HookSucceeds \/ (\E k \in {"stopping", "stop"} : StopHook(k)) \/ Done \/ UNCHANGED vars
  BY <1>1, <1>5 DEF HookSucceeds, StopHook, Done, vars, registered
<1>6. CASE Attach
  BY <1>6, SetupAssumption DEF Attach, Progress, progress
<1>7. CASE CtxEnds \/ HookFails \/ StartupLeaves \/ ShutdownBegin \/ Return
  <2>1. CASE CtxEnds
    BY <2>1 DEF CtxEnds, Progress, registered
  <2>2. CASE HookFails
    BY <2>2 DEF HookFails, InContainer, Progress, registered
  <2>3. CASE StartupLeaves
    BY <2>3 DEF StartupLeaves, Progress, registered
  <2>4. CASE ShutdownBegin
    BY <2>4 DEF ShutdownBegin, Progress, registered
  <2>5. CASE Return
    BY <2>5 DEF Return, Progress, registered
  <2>. QED
    BY <1>7, <2>1, <2>2, <2>3, <2>4, <2>5
<1>8. CASE RunBegin \/ InitsDone
  BY <1>8 DEF RunBegin, InitsDone, Progress, registered
<1>9. CASE SkipContainer
  BY <1>9 DEF SkipContainer, Progress, registered
<1>10. CASE ContainerBegin \/ StopBegin
  <2>1. /\ UNCHANGED progress /\ attached' = attached
        /\ \A c \in Indexes : container[c] = "initialized" /\ phase = "init"
                                => container'[c] = "initialized"
    <3>1. UNCHANGED progress /\ attached' = attached
      BY <1>10 DEF ContainerBegin, StopBegin, registered
    <3>2. CASE StopBegin
      BY <3>1, <3>2 DEF StopBegin
    <3>3. CASE ContainerBegin /\ phase = "init"
      <4>1. container[at] = "setup" /\ container' = [container EXCEPT ![at] = During[phase]]
        BY <3>3 DEF ContainerBegin, Before
      <4>. QED
        BY <3>1, <4>1 DEF Rows, RowTypes
    <3>. QED
      BY <1>10, <3>1, <3>2, <3>3
  <2>. QED
    BY <2>1 DEF Progress, progress
<1>11. CASE ContainerDone
  <2>1. /\ at <= attached /\ phase \in {"init", "start"} /\ attached' = attached
        /\ at' = at + 1 /\ phase' = phase /\ runtime' = runtime /\ ended' = ended
        /\ container' = [container EXCEPT ![at] = After[phase]]
    BY <1>11 DEF ContainerDone, InContainer, registered
  <2>2. at \in Indexes
    BY <2>1, AtIsIndex
  <2>3. phase = "init" => \A c \in Indexes : c < at + 1 => container'[c] = "initialized"
    BY <2>1, <2>2 DEF After, Rows, RowTypes, Progress
  <2>. QED
    BY <2>1, <2>3 DEF Progress
<1>12. CASE StopDone
  <2>1. /\ phase = "shutdown" /\ at > 0 /\ at' = at - 1 /\ attached' = attached
        /\ phase' = phase /\ runtime' = runtime /\ ended' = ended
    BY <1>12 DEF StopDone, registered
  <2>. QED
    BY <2>1 DEF Progress
<1>. QED
  BY <1>2, <1>3, <1>4, <1>5, <1>6, <1>7, <1>8, <1>9, <1>10, <1>11, <1>12 DEF Next

-----------------------------------------------------------------------------
(* Dependencies.                                                           *)

\* A factory whose hook succeeded has set its value.
FactoriesSet ==
    phase \in {"idle", "init"} =>
        \A c \in Factories : Len(ran[c]["init"]) > 0 => c \in globals

LEMMA FactoriesSetStep ==
    ASSUME Rows, Progress, FactoriesSet, [Next]_vars
    PROVE  FactoriesSet'
<1>1. SUFFICES ASSUME phase' \in {"idle", "init"}, NEW c \in Factories,
                      Len(ran'[c]["init"]) > 0
               PROVE  c \in globals'
  BY DEF FactoriesSet
<1>2. c \in Indexes /\ "init" \in Kinds
  BY KindsAre, SetupAssumption DEF Indexes
<1>3. ASSUME phase \in {"idle", "init"}, Len(ran[c]["init"]) > 0, globals \subseteq globals'
      PROVE  c \in globals'
  BY <1>3 DEF FactoriesSet
<1>4. ASSUME NEW d \in 1 .. Containers, NEW k \in Kinds, Register(d, k)
      PROVE  c \in globals'
  <2>1. phase' = phase /\ globals' = globals
    BY <1>4 DEF Register, progress
  <2>2. ran'[c]["init"] = ran[c]["init"]
    BY <1>4 DEF Register, Rows, RowTypes, Ran
  <2>. QED
    BY <1>1, <1>3, <2>1, <2>2
<1>5. CASE HookSucceeds
  <2>1. /\ phase \in {"init", "start"} /\ at <= attached /\ phase' = phase
        /\ ran' = [ran EXCEPT ![at][phase] = Append(@, Len(ran[at][phase]) + 1)]
        /\ globals' = IF IsFactory THEN globals \cup {at} ELSE globals
    BY <1>5 DEF HookSucceeds, InContainer, CalledOf, progress
  <2>2. phase = "init"
    BY <1>1, <2>1
  <2>3. CASE c = at /\ Len(ran[c]["init"]) = 0
    BY <2>1, <2>2, <2>3 DEF IsFactory, CalledOf
  <2>4. CASE c = at /\ Len(ran[c]["init"]) # 0
    <3>1. Len(ran[c]["init"]) \in Nat
      BY <1>2, RowOf
    <3>. QED
      BY <1>3, <2>1, <2>2, <2>4, <3>1
  <2>5. CASE c # at
    <3>1. ran'[c] = ran[c]
      BY <1>2, <2>1, <2>5 DEF Rows, RowTypes
    <3>. QED
      BY <1>1, <1>3, <2>1, <2>2, <3>1
  <2>. QED
    BY <2>3, <2>4, <2>5
<1>6. ASSUME NEW d \in 1 .. Containers, SetLocal(d)
      PROVE  c \in globals'
  BY <1>1, <1>3, <1>6 DEF SetLocal, progress
<1>7. ASSUME NEW v \in Values, Set(v)
      PROVE  c \in globals'
  BY <1>1, <1>3, <1>7 DEF Set, progress
<1>8. CASE Attach \/ CtxEnds \/ RunBegin \/ ContainerBegin
  BY <1>1, <1>3, <1>8 DEF Attach, CtxEnds, RunBegin, ContainerBegin, Progress, progress
<1>9. CASE ContainerDone
  <2>1. phase = "init" /\ phase' = phase /\ globals' = globals /\ ran' = ran
    BY <1>1, <1>9 DEF ContainerDone, InContainer
  <2>. QED
    BY <1>1, <1>3, <2>1
<1>10. CASE Done \/ UNCHANGED vars
  BY <1>1, <1>3, <1>10 DEF Done, vars, progress
<1>11. CASE \/ HookFails \/ InitsDone \/ StartupLeaves \/ ShutdownBegin \/ SkipContainer
            \/ StopBegin \/ StopDone \/ Return \/ \E k \in {"stopping", "stop"} : StopHook(k)
  <2>1. phase' \in {"wait", "start", "shutdown", "returned"}
    BY <1>11 DEF HookFails, InitsDone, StartupLeaves, ShutdownBegin, SkipContainer,
                 StopBegin, StopDone, Return, StopHook, progress
  <2>. QED
    BY <1>1, <2>1
<1>. QED
  BY <1>4, <1>5, <1>6, <1>7, <1>8, <1>9, <1>10, <1>11 DEF Next

\* The values of a container that runs are those it had when it began to.
LocalsKept ==
    \A c \in Indexes :
        /\ c \in kept => container[c] \in {"running", "stopping", "stopped"}
        /\ container[c] = "running" => (c \in locals <=> c \in kept)

LEMMA LocalsKeptStep ==
    ASSUME Rows, Progress, LocalsKept, [Next]_vars
    PROVE  LocalsKept'
<1>. SUFFICES ASSUME NEW c \in Indexes
              PROVE  /\ c \in kept' => container'[c] \in {"running", "stopping", "stopped"}
                     /\ container'[c] = "running" => (c \in locals' <=> c \in kept')
  BY DEF LocalsKept, Indexes
<1>. DEFINE Goal == /\ c \in kept' => container'[c] \in {"running", "stopping", "stopped"}
                    /\ container'[c] = "running" => (c \in locals' <=> c \in kept')
<1>1. /\ c \in kept => container[c] \in {"running", "stopping", "stopped"}
      /\ container[c] = "running" => (c \in locals <=> c \in kept)
  BY DEF LocalsKept
<1>2. ASSUME UNCHANGED <<container, locals, kept>>
      PROVE  Goal
  BY <1>1, <1>2
<1>3. ASSUME NEW d \in 1 .. Containers, SetLocal(d)
      PROVE  Goal
  BY <1>1, <1>3 DEF SetLocal, history
<1>4. ASSUME NEW d \in 1 .. Containers, NEW k \in Kinds, Register(d, k)
      PROVE  Goal
  BY <1>2, <1>4 DEF Register, history
<1>5. ASSUME NEW v \in Values, Set(v)
      PROVE  Goal
  BY <1>2, <1>5 DEF Set, registered, history
<1>6. CASE Attach \/ CtxEnds \/ RunBegin \/ InitsDone \/ StartupLeaves
  BY <1>2, <1>6
     DEF Attach, CtxEnds, RunBegin, InitsDone, StartupLeaves, registered, history
<1>7. CASE ShutdownBegin \/ SkipContainer \/ Return \/ Done \/ UNCHANGED vars
  BY <1>2, <1>7
     DEF ShutdownBegin, SkipContainer, Return, Done, vars, registered, history
<1>8. CASE HookSucceeds \/ HookFails \/ \E k \in {"stopping", "stop"} : StopHook(k)
  BY <1>2, <1>8 DEF HookSucceeds, HookFails, InContainer, StopHook, registered, history
<1>9. CASE ContainerBegin
  <2>1. /\ phase \in {"init", "start"} /\ container[at] = Before[phase]
        /\ container' = [container EXCEPT ![at] = During[phase]]
        /\ locals' = locals /\ kept' = kept
    BY <1>9 DEF ContainerBegin, registered, history
  <2>2. /\ container'[c] = IF c = at THEN During[phase] ELSE container[c]
        /\ Before[phase] \in {"setup", "initialized"}
        /\ During[phase] \in {"initializing", "starting"}
    BY <2>1 DEF Before, During, Rows, RowTypes
  <2>. QED
    BY <1>1, <2>1, <2>2
<1>10. CASE ContainerDone
  <2>1. /\ phase \in {"init", "start"} /\ container[at] = During[phase]
        /\ container' = [container EXCEPT ![at] = After[phase]]
        /\ locals' = locals
        /\ kept' = IF phase = "start" /\ at \in locals THEN kept \cup {at} ELSE kept
    BY <1>10 DEF ContainerDone, InContainer, registered
  <2>2. /\ container'[c] = IF c = at THEN After[phase] ELSE container[c]
        /\ During[phase] \in {"initializing", "starting"}
        /\ After[phase] = IF phase = "start" THEN "running" ELSE "initialized"
    BY <2>1 DEF During, After, Rows, RowTypes
  <2>. QED
    BY <1>1, <2>1, <2>2
<1>11. CASE StopBegin \/ StopDone
  <2>1. /\ \/ container' = [container EXCEPT ![at] = "stopping"]
           \/ container' = [container EXCEPT ![at] = "stopped"]
        /\ locals' = locals /\ kept' = kept
    BY <1>11 DEF StopBegin, StopDone, registered, history
  <2>2. container'[c] = container[c] \/ container'[c] \in {"stopping", "stopped"}
    BY <2>1 DEF Rows, RowTypes
  <2>. QED
    BY <1>1, <2>1, <2>2
<1>. QED
  BY <1>3, <1>4, <1>5, <1>6, <1>7, <1>8, <1>9, <1>10, <1>11 DEF Next

-----------------------------------------------------------------------------
(* Start hooks and tasks only run when all is ready.                       *)

\* The container has come to its start: hooks of it are called, tasks launched.
Works(c) == \/ container[c] \in {"starting", "running"}
            \/ Len(ran[c]["start"]) > 0 \/ Len(ran[c]["task"]) > 0

Opened == runtime = "running" \/ \E c \in Indexes : Works(c)

Ready ==
    /\ runtime \notin {"setup", "initializing"}
    /\ globals = frozen
    /\ \A c \in 1 .. attached : container[c] \notin {"setup", "initializing"}
    /\ \A c \in Factories : c <= attached /\ fns[c]["init"] > 0 => c \in globals

\* What is ready stays it.
LEMMA ReadyStays ==
    ASSUME Rows, Progress, Ready, [Next]_vars
    PROVE  Ready'
<1>1. 1 .. attached \subseteq Indexes /\ phase \notin {"idle", "init"}
  BY SetupAssumption DEF Progress, Indexes, Ready
<1>2. ASSUME UNCHANGED <<container, fns, attached, globals, frozen>>,
             runtime' \notin {"setup", "initializing"}
      PROVE  Ready'
  BY <1>2 DEF Ready
<1>3. ASSUME UNCHANGED <<fns, attached, globals, frozen, runtime>>, NEW st,
             st \notin {"setup", "initializing"}, container' = [container EXCEPT ![at] = st]
      PROVE  Ready'
  <2>1. ASSUME NEW c \in 1 .. attached
        PROVE  container'[c] = container[c] \/ container'[c] = st
    BY <1>1, <1>3, <2>1 DEF Rows, RowTypes
  <2>. QED
    BY <1>3, <2>1 DEF Ready
<1>4. ASSUME NEW d \in 1 .. Containers, SetLocal(d)
      PROVE  Ready'
  BY <1>2, <1>4 DEF SetLocal, history, progress, Ready
<1>5. ASSUME NEW d \in 1 .. Containers, NEW k \in Kinds, Register(d, k)
      PROVE  Ready'
  <2>1. /\ d <= attached /\ container[d] \in OpenFor(k) /\ fns' = [fns EXCEPT ![d][k] = @ + 1]
        /\ UNCHANGED <<container, attached, globals, frozen, runtime>>
    BY <1>5 DEF Register, progress, history
  <2>2. k = "task"
    BY <2>1 DEF OpenFor, Ready, Progress
  <2>3. \A c \in Indexes : fns'[c]["init"] = fns[c]["init"]
    BY <2>1, <2>2, KindsAre DEF Rows, RowTypes, Numbers
  <2>. QED
    BY <2>1, <2>3, SetupAssumption DEF Ready, Indexes
<1>6. ASSUME NEW v \in Values, Set(v)
      PROVE  Ready'
  BY <1>6 DEF Set, Settable, Ready
<1>7. CASE Attach \/ RunBegin \/ InitsDone
  BY <1>1, <1>7 DEF Attach, RunBegin, InitsDone, Ready
<1>8. CASE CtxEnds \/ StartupLeaves \/ ShutdownBegin \/ SkipContainer \/ Done \/ UNCHANGED vars
  BY <1>2, <1>8
     DEF CtxEnds, StartupLeaves, ShutdownBegin, SkipContainer, Done, vars, registered,
         history, progress, Ready
<1>9. CASE HookFails \/ Return \/ \E k \in {"stopping", "stop"} : StopHook(k)
  BY <1>2, <1>9 DEF HookFails, Return, StopHook, registered, history, progress, Ready
<1>10. CASE HookSucceeds
  BY <1>1, <1>2, <1>10 DEF HookSucceeds, IsFactory, registered, history, progress, Ready
<1>11. CASE ContainerBegin \/ ContainerDone
  <2>1. phase = "start"
    BY <1>1, <1>11 DEF ContainerBegin, ContainerDone, InContainer
  <2>2. CASE ContainerBegin
    BY <1>3, <2>1, <2>2 DEF ContainerBegin, During, registered, history, progress
  <2>3. CASE ContainerDone
    BY <1>3, <2>1, <2>3 DEF ContainerDone, After, registered
  <2>. QED
    BY <1>11, <2>2, <2>3
<1>12. CASE StopBegin \/ StopDone
  <2>1. CASE StopBegin
    BY <1>3, <2>1 DEF StopBegin, registered, history, progress
  <2>2. CASE StopDone
    BY <1>3, <2>2 DEF StopDone, registered, history, progress
  <2>. QED
    BY <1>12, <2>1, <2>2
<1>. QED
  BY <1>4, <1>5, <1>6, <1>7, <1>8, <1>9, <1>10, <1>11, <1>12 DEF Next

\* Nothing but the end of the first phase opens the second.
LEMMA OpensOnce ==
    ASSUME Rows, Progress, ~Opened, [Next]_vars, ~InitsDone
    PROVE  ~Opened'
<1>1. runtime # "running" /\ phase # "start" /\ \A c \in Indexes : ~Works(c)
  BY DEF Opened, Progress
<1>2. ASSUME runtime' # "running", container' = container, ran' = ran
      PROVE  ~Opened'
  BY <1>1, <1>2 DEF Opened, Works, Indexes
<1>3. ASSUME runtime' = runtime, NEW st, st \notin {"starting", "running"},
             container' = [container EXCEPT ![at] = st], ran' = ran
      PROVE  ~Opened'
  <2>1. ASSUME NEW c \in Indexes
        PROVE  container'[c] = container[c] \/ container'[c] = st
    BY <1>3, <2>1 DEF Rows, RowTypes
  <2>. QED
    BY <1>1, <1>3, <2>1 DEF Opened, Works, Indexes
<1>4. ASSUME runtime' = runtime, container' = container, NEW e \in Indexes,
             NEW k \in Kinds \ {"start", "task"}, NEW x, ran' = [ran EXCEPT ![e][k] = x]
      PROVE  ~Opened'
  <2>1. ASSUME NEW c \in Indexes
        PROVE  ran'[c]["start"] = ran[c]["start"] /\ ran'[c]["task"] = ran[c]["task"]
    BY <1>4, <2>1, KindsAre DEF Rows, RowTypes, Ran
  <2>. QED
    BY <1>1, <1>4, <2>1 DEF Opened, Works, Indexes
<1>5. ASSUME NEW d \in 1 .. Containers, SetLocal(d)
      PROVE  ~Opened'
  BY <1>1, <1>2, <1>5 DEF SetLocal, progress
<1>6. ASSUME NEW d \in 1 .. Containers, NEW k \in Kinds, Register(d, k)
      PROVE  ~Opened'
  <2>1. container[d] # "starting"
    BY <1>1 DEF Works, Indexes
  <2>2. runtime' = runtime /\ container' = container /\ ran' = ran
    BY <1>6, <2>1 DEF Register, progress
  <2>. QED
    BY <1>1, <1>2, <2>2
<1>7. ASSUME NEW v \in Values, Set(v)
      PROVE  ~Opened'
  BY <1>1, <1>2, <1>7 DEF Set, progress
<1>8. CASE Attach \/ RunBegin \/ CtxEnds \/ StartupLeaves
  BY <1>1, <1>2, <1>8 DEF Attach, RunBegin, CtxEnds, StartupLeaves, progress
<1>9. CASE ShutdownBegin \/ SkipContainer \/ Return \/ Done \/ UNCHANGED vars
  BY <1>1, <1>2, <1>9 DEF ShutdownBegin, SkipContainer, Return, Done, vars, progress
<1>10. CASE HookSucceeds \/ HookFails
  <2>1. /\ phase = "init" /\ at <= attached /\ runtime' = runtime /\ container' = container
        /\ ran' = [ran EXCEPT ![at]["init"] = Append(@, Len(ran[at]["init"]) + 1)]
    BY <1>1, <1>10 DEF HookSucceeds, HookFails, InContainer, CalledOf, progress
  <2>2. at \in Indexes /\ "init" \in Kinds \ {"start", "task"}
    BY <2>1, AtIsIndex, KindsAre
  <2>. QED
    BY <1>4, <2>1, <2>2
<1>11. ASSUME NEW k \in {"stopping", "stop"}, StopHook(k)
       PROVE  ~Opened'
  <2>1. /\ phase = "shutdown" /\ at > 0 /\ runtime' = runtime /\ container' = container
        /\ ran' = [ran EXCEPT ![at][k] = Append(@, taken[at][k] - CalledOf(k))]
    BY <1>11 DEF StopHook, progress
  <2>2. at \in Indexes /\ k \in Kinds \ {"start", "task"}
    BY <2>1, AtIsIndex, KindsAre
  <2>. QED
    BY <1>4, <2>1, <2>2
<1>12. CASE ContainerBegin
  <2>1. /\ phase = "init" /\ runtime' = runtime /\ ran' = ran
        /\ container' = [container EXCEPT ![at] = During[phase]]
    BY <1>1, <1>12 DEF ContainerBegin, progress
  <2>. QED
    BY <1>3, <2>1 DEF During
<1>13. CASE ContainerDone
  <2>1. /\ phase = "init" /\ runtime' = runtime /\ ran' = ran
        /\ container' = [container EXCEPT ![at] = After[phase]]
    BY <1>1, <1>13 DEF ContainerDone, InContainer
  <2>. QED
    BY <1>3, <2>1 DEF After
<1>14. CASE StopBegin
  BY <1>3, <1>14 DEF StopBegin, progress
<1>15. CASE StopDone
  BY <1>3, <1>15 DEF StopDone
<1>. QED
  BY <1>5, <1>6, <1>7, <1>8, <1>9, <1>10, <1>11, <1>12, <1>13, <1>14, <1>15 DEF Next

\* And at its end all is ready.
LEMMA ReadyFirst ==
    ASSUME Rows, Progress, FactoriesSet, InitsDone
    PROVE  Ready'
<1>1. /\ phase = "init" /\ at > attached /\ runtime' = "running" /\ frozen' = globals
      /\ UNCHANGED <<fns, attached, container, globals>>
  BY DEF InitsDone, registered
<1>2. \A c \in 1 .. attached : c \in Indexes /\ container[c] = "initialized"
  BY <1>1, SetupAssumption DEF Progress, Indexes
<1>3. ASSUME NEW c \in Factories, c <= attached, fns[c]["init"] > 0
      PROVE  c \in globals
  <2>1. c \in 1 .. attached
    BY <1>3, SetupAssumption DEF Progress
  <2>2. ListsOf("initialized", fns[c], taken[c], ran[c])
    BY <1>2, <2>1, RowOf
  <2>3. Len(ran[c]["init"]) = fns[c]["init"]
    BY <2>2 DEF ListsOf, Hooked
  <2>. QED
    BY <1>1, <1>3, <2>3 DEF FactoriesSet
<1>. QED
  BY <1>1, <1>2, <1>3 DEF Ready

-----------------------------------------------------------------------------
(* The inductive invariant and what it says.                               *)

IInv == Rows /\ Progress /\ FactoriesSet /\ LocalsKept /\ (Opened => Ready)

LEMMA IInvInit == Init => IInv
<1>. SUFFICES ASSUME Init PROVE IInv
  OBVIOUS
<1>1. /\ runtime = "setup" /\ phase = "idle" /\ at = 0 /\ ended = FALSE /\ attached = 0
      /\ container = [c \in Indexes |-> "setup"] /\ kept = {}
      /\ fns = [c \in Indexes |-> [k \in Kinds |-> 0]]
      /\ taken = [c \in Indexes |-> [k \in Kinds |-> 0]]
      /\ ran = [c \in Indexes |-> [k \in Kinds |-> << >>]]
  BY DEF Init, PerContainer, Indexes
<1>2. RowTypes
  <2>1. << >> \in Seq(Nat) /\ "setup" \in States
    BY DEF States
  <2>2. [k \in Kinds |-> << >>] \in Ran
    BY <2>1 DEF Ran
  <2>. QED
    BY <1>1, <2>1, <2>2 DEF RowTypes, Numbers
<1>3. Lists
  <2>. SUFFICES ASSUME NEW c \in Indexes
                PROVE  ListsOf(container[c], fns[c], taken[c], ran[c])
    BY DEF Lists
  <2>1. /\ fns[c] \in Numbers /\ taken[c] \in Numbers /\ ran[c] \in Ran /\ container[c] = "setup"
    BY <1>1, <1>2 DEF RowTypes
  <2>2. \A k \in Kinds : ran[c][k] = << >>
    BY <1>1
  <2>. QED
    BY <2>1, <2>2, NothingRan
<1>4. Progress /\ LocalsKept
  <2>1. \A c \in Indexes : container[c] = "setup"
    BY <1>1
  <2>2. Containers \in Nat
    BY SetupAssumption
  <2>3. Progress
    <3>1. runtime = "setup" /\ phase = "idle" /\ at = 0 /\ ended = FALSE /\ attached = 0
      BY <1>1
    <3>2. attached \in 0 .. Containers /\ at \in Nat
      BY <2>2, <3>1
    <3>. QED
      BY <3>1, <3>2 DEF Progress
  <2>4. LocalsKept
    BY <1>1, <2>1 DEF LocalsKept
  <2>. QED
    BY <2>3, <2>4
<1>5. FactoriesSet /\ ~Opened
  <2>1. \A c \in Indexes : Len(ran[c]["init"]) = 0 /\ Len(ran[c]["start"]) = 0
                             /\ Len(ran[c]["task"]) = 0
    BY <1>1, KindsAre
  <2>. QED
    <3>1. Factories \subseteq Indexes
      BY SetupAssumption DEF Indexes
    <3>2. \A c \in Indexes : container[c] = "setup"
      BY <1>1
    <3>3. FactoriesSet
      BY <2>1, <3>1 DEF FactoriesSet
    <3>4. ~Opened
      BY <1>1, <2>1, <3>2 DEF Opened, Works
    <3>. QED
      BY <3>3, <3>4
<1>. QED
  BY <1>2, <1>3, <1>4, <1>5 DEF IInv, Rows

LEMMA IInvStep == IInv /\ [Next]_vars => IInv'
<1>. SUFFICES ASSUME IInv, [Next]_vars PROVE IInv'
  OBVIOUS
<1>1. Rows' /\ Progress'
  BY RowsStep, ProgressStep DEF IInv
<1>2. FactoriesSet' /\ LocalsKept'
  BY FactoriesSetStep, LocalsKeptStep DEF IInv
<1>3. Opened' => Ready'
  <2>1. CASE Opened
    BY <2>1, ReadyStays DEF IInv
  <2>2. CASE InitsDone
    BY <2>2, ReadyFirst DEF IInv
  <2>3. CASE ~Opened /\ ~InitsDone
    BY <2>3, OpensOnce DEF IInv
  <2>. QED
    BY <2>1, <2>2, <2>3
<1>. QED
  BY <1>1, <1>2, <1>3 DEF IInv

\* What a container accepted is used: see AcceptedIsUsed in Setup.
LEMMA UsedByInv == IInv => AcceptedIsUsed
<1>. SUFFICES ASSUME IInv PROVE AcceptedIsUsed
  OBVIOUS
<1>1. runtime = "running" =>
        \A c \in 1 .. attached : container[c] \notin {"setup", "initializing"}
  BY DEF IInv, Opened, Ready
<1>2. ASSUME NEW c \in 1 .. Containers
      PROVE  /\ container[c] \in {"initialized", "starting", "running"}
                  => ran[c]["init"] = UpTo(fns[c]["init"])
             /\ container[c] = "running"
                  => /\ ran[c]["start"] = UpTo(fns[c]["start"])
                     /\ ToSet(ran[c]["task"]) = 1 .. fns[c]["task"]
             /\ container[c] = "stopped"
                  => \A k \in {"stopping", "stop"} : ran[c][k] = Reverse(UpTo(fns[c][k]))
             /\ \A k \in Kinds : IsInjective(ran[c][k])
  <2>1. /\ ListsOf(container[c], fns[c], taken[c], ran[c])
        /\ \A k \in Kinds : fns[c][k] \in Nat /\ ran[c][k] \in Seq(Nat)
    BY RowOf DEF IInv, Indexes
  <2>2. ASSUME NEW k \in {"init", "start"}, container[c] = "running" \/
                 (k = "init" /\ container[c] \in {"initialized", "starting"})
        PROVE  ran[c][k] = UpTo(fns[c][k])
    <3>1. Rising(ran[c][k], 0) /\ Len(ran[c][k]) = fns[c][k]
      BY <2>1, <2>2 DEF ListsOf, Hooked
    <3>. QED
      BY <2>1, <3>1, AllNumbers, KindsAre
  <2>3. container[c] = "running" => ToSet(ran[c]["task"]) = 1 .. fns[c]["task"]
    BY <2>1 DEF ListsOf, Launches
  <2>4. ASSUME NEW k \in {"stopping", "stop"}, container[c] = "stopped"
        PROVE  ran[c][k] = Reverse(UpTo(fns[c][k]))
    <3>1. Falling(ran[c][k], fns[c][k]) /\ Len(ran[c][k]) = fns[c][k]
      BY <2>1, <2>4 DEF ListsOf, Halted
    <3>. QED
      BY <2>1, <3>1, AllReversed, KindsAre
  <2>5. ASSUME NEW k \in Kinds
        PROVE  IsInjective(ran[c][k])
    <3>1. CASE k \in {"init", "start"}
      <4>1. Rising(ran[c][k], 0)
        BY <2>1, <3>1 DEF ListsOf, Hooked
      <4>. QED
        BY <2>1, <4>1, Injective
    <3>2. CASE k = "task"
      BY <2>1, <3>2 DEF ListsOf, Launches
    <3>3. CASE k \in {"stopping", "stop"}
      <4>1. Falling(ran[c][k], fns[c][k])
        BY <2>1, <3>3 DEF ListsOf, Halted
      <4>. QED
        BY <2>1, <4>1, Injective
    <3>. QED
      BY <3>1, <3>2, <3>3, KindsAre
  <2>. QED
    BY <2>2, <2>3, <2>4, <2>5
<1>. QED
  BY <1>1, <1>2 DEF AcceptedIsUsed

LEMMA ReadyByInv == IInv => DependenciesReady
<1>. SUFFICES ASSUME IInv PROVE DependenciesReady
  OBVIOUS
<1>1. ASSUME NEW c \in 1 .. Containers, ran[c]["start"] # << >> \/ ran[c]["task"] # << >>
      PROVE  Ready
  <2>1. Len(ran[c]["start"]) > 0 \/ Len(ran[c]["task"]) > 0
    <3>1. \A k \in Kinds : ran[c][k] \in Seq(Nat)
      BY RowOf DEF IInv, Indexes
    <3>. QED
      BY <1>1, <3>1, EmptySeq, KindsAre
  <2>. QED
    BY <2>1 DEF IInv, Opened, Works, Indexes
<1>2. \A c \in 1 .. Containers : container[c] = "running" => (c \in locals <=> c \in kept)
  BY DEF IInv, LocalsKept, Indexes
<1>. QED
  BY <1>1, <1>2 DEF DependenciesReady, Ready

\* Whatever is registered with a container while Run is under way, by hooks or
\* by others, is refused or used: each list is called in its order, once, and
\* completely when its phase succeeded (runtime.go:559-692, 726-770, 799-860, 865-919).
THEOREM RegistrationsAreUsed == Spec => []AcceptedIsUsed
BY IInvInit, IInvStep, UsedByInv, PTL DEF Spec

\* No start hook is called and no task is launched before the value of every
\* factory is in the store, and then the global values, and the values of a
\* container that runs, do not change any more (runtime.go:134-151, 248-262, 376-382,
\* 698-714, 865-919).
THEOREM StartsFindValues == Spec => []DependenciesReady
BY IInvInit, IInvStep, ReadyByInv, PTL DEF Spec
=============================================================================

---------------------------- MODULE QueueProofs ----------------------------
(***************************************************************************)
(* Proofs about Queue for every number of calls, runs and workers and every *)
(* capacity.  IInv, at the end, is the inductive invariant: the types, what *)
(* the two locks and the once keep apart (CloseInv), what q.running stands  *)
(* for (RunInv), FailureDelivered, which is inductive beside them, where    *)
(* each item is (ItemsInv), what a worker saw before it exited (DrainedInv),*)
(* what has happened before a Close returns (BarrierInv), and why runs are  *)
(* canceled (ReasonsInv).                                                   *)
(***************************************************************************)
EXTENDS Queue, TLAPS

-----------------------------------------------------------------------------
(* Types.                                                                  *)

\* A worker function that is running was called with an item.
WorkerHolds == \A g \in Runs \X Workers : worker[g] = "work" => held[g] \in Items

Typed == TypeOK /\ WorkerHolds

\* Every step keeps the types.
LEMMA TypedNext == Typed /\ [Next]_vars => Typed'
<1>. SUFFICES ASSUME Typed, [Next]_vars PROVE Typed'
  OBVIOUS
<1>. USE CallsAssumption, OptionsAssumption
         DEF Typed, TypeOK, WorkerHolds, PushState, PushWaitState, CloserState,
             RunState, Failure, ParentState, Cause, Result, WorkerState, vars,
             callVars, chanVars, runVars, Items, Closers
<1>1. CASE \E p \in Pushes : PushBegin(p)
  <2>1. PICK p \in Pushes : PushBegin(p)
    BY <1>1
  <2>. QED
    BY <2>1 DEF PushBegin
<1>2. CASE \E p \in Pushes : PushSend(p)
  <2>1. PICK p \in Pushes : PushSend(p)
    BY <1>2
  <2>2. CASE Room
    <3>1. queue' = Append(queue, p) /\ push' = [push EXCEPT ![p] = "ok"]
      BY <2>1, <2>2 DEF PushSend
    <3>2. queue' \in Seq(Items) /\ Len(queue') <= Size
      BY <3>1, <2>2 DEF Room
    <3>3. push' \in [Pushes -> PushState]
      BY <3>1
    <3>. QED
      BY <2>1, <3>2, <3>3 DEF PushSend
  <2>3. CASE ~Room
    BY <2>1, <2>3 DEF PushSend
  <2>. QED
    BY <2>2, <2>3
<1>3. CASE \E p \in Pushes : PushFail(p)
  <2>1. PICK p \in Pushes : PushFail(p)
    BY <1>3
  <2>2. CASE failure # "none" \/ running = None
    <3>1. push' = [push EXCEPT ![p] = "full"]
      BY <2>1, <2>2 DEF PushFail
    <3>2. push' \in [Pushes -> PushState]
      BY <3>1
    <3>. QED
      BY <2>1, <2>2, <3>2 DEF PushFail
  <2>3. CASE ~(failure # "none" \/ running = None)
    <3>1. push' = [push EXCEPT ![p] = "cancel"] /\ target' = [target EXCEPT ![p] = running]
      BY <2>1, <2>3 DEF PushFail
    <3>2. push' \in [Pushes -> PushState]
      BY <3>1
    <3>3. target' \in [Pushes -> Runs \cup {None}]
      BY <3>1
    <3>. QED
      BY <2>1, <3>2, <3>3 DEF PushFail
  <2>. QED
    BY <2>2, <2>3
<1>4. CASE \E p \in Pushes : PushCancel(p)
  <2>1. PICK p \in Pushes : PushCancel(p)
    BY <1>4
  <2>. QED
    BY <2>1 DEF PushCancel, CancelRun
<1>5. CASE \E p \in PushWaits : PushWaitEnter(p)
  BY <1>5 DEF PushWaitEnter, PushWaitStep
<1>6. CASE \E p \in PushWaits : PushWaitLock(p)
  BY <1>6 DEF PushWaitLock, PushWaitStep
<1>7. CASE \E p \in PushWaits : PushWaitCheck(p)
  BY <1>7 DEF PushWaitCheck, PushWaitStep
<1>8. CASE \E p \in PushWaits : PushWaitSend(p)
  BY <1>8 DEF PushWaitSend, PushWaitStep, Room
<1>9. CASE \E p \in PushWaits : PushWaitCtx(p)
  BY <1>9 DEF PushWaitCtx, PushWaitStep
<1>10. CASE \E p \in PushWaits : PushWaitWoken(p)
  BY <1>10 DEF PushWaitWoken, PushWaitStep
<1>11. CASE \E c \in Closers : CloseEnter(c)
  BY <1>11 DEF CloseEnter, CloserStep, AfterClose
<1>12. CASE \E c \in Closers : CloseMark(c)
  BY <1>12 DEF CloseMark, CloserStep
<1>13. CASE \E c \in Closers : CloseWake(c)
  BY <1>13 DEF CloseWake, CloserStep
<1>14. CASE \E c \in Closers : CloseLock(c)
  BY <1>14 DEF CloseLock, CloserStep
<1>15. CASE \E c \in Closers : CloseSeal(c)
  BY <1>15 DEF CloseSeal, CloserStep, AfterClose
<1>16. CASE \E d \in Drains : DrainSnapshot(d)
  BY <1>16 DEF DrainSnapshot, CloserStep
<1>17. CASE \E d \in Drains : DrainDone(d)
  BY <1>17 DEF DrainDone, CloserStep
<1>18. CASE \E d \in Drains : DrainExpire(d)
  <2>1. PICK d \in Drains : DrainExpire(d)
    BY <1>18
  <2>2. closer' \in [Closers -> CloserState]
    BY <2>1 DEF DrainExpire, CloserStep
  <2>3. cause' \in [Runs -> Cause]
    BY <2>1 DEF DrainExpire, CancelRun
  <2>. QED
    BY <2>1, <2>2, <2>3 DEF DrainExpire, CloserStep
<1>19. CASE \E r \in Runs : RunBegin(r)
  <2>1. PICK r \in Runs : RunBegin(r)
    BY <1>19
  <2>2. run' \in [Runs -> RunState]
    <3>1. PICK to \in {"serve", "returned"} : run' = [run EXCEPT ![r] = to]
      BY <2>1 DEF RunBegin
    <3>. QED
      BY <3>1
  <2>3. CASE Refusal = "none"
    <3>1. cause' \in [Runs -> Cause]
      <4>1. parent[r] # "live" => ParentCause(r) \in Cause
        BY DEF ParentCause
      <4>2. cause' = IF parent[r] = "live" THEN cause ELSE [cause EXCEPT ![r] = ParentCause(r)]
        BY <2>1, <2>3 DEF RunBegin
      <4>. QED
        BY <4>1, <4>2
    <3>2. /\ worker' \in [Runs \X Workers -> WorkerState]
          /\ \A g \in Runs \X Workers : worker'[g] = "work" => worker[g] = "work"
      <4>1. worker' = [g \in Runs \X Workers |-> IF g[1] = r THEN "loop" ELSE worker[g]]
        BY <2>1, <2>3 DEF RunBegin
      <4>. QED
        BY <4>1
    <3>. QED
      BY <2>1, <2>2, <2>3, <3>1, <3>2 DEF RunBegin
  <2>4. CASE Refusal # "none"
    <3>1. Refusal \in Result
      BY <2>4 DEF Refusal
    <3>2. result' \in [Runs -> Result]
      BY <2>1, <2>4, <3>1 DEF RunBegin
    <3>. QED
      BY <2>1, <2>2, <2>4, <3>2 DEF RunBegin
  <2>. QED
    BY <2>3, <2>4
<1>20. CASE \E r \in Runs : RunJoin(r)
  <2>1. PICK r \in Runs : RunJoin(r)
    BY <1>20
  <2>2. run' \in [Runs -> RunState]
    <3>1. PICK to \in {"cause", "exit"} : run' = [run EXCEPT ![r] = to]
      BY <2>1 DEF RunJoin
    <3>. QED
      BY <3>1
  <2>3. result' \in [Runs -> Result]
    BY <2>1 DEF RunJoin
  <2>. QED
    BY <2>1, <2>2, <2>3 DEF RunJoin
<1>21. CASE \E r \in Runs : RunCause(r)
  <2>1. PICK r \in Runs : RunCause(r)
    BY <1>21
  <2>2. Outcome(r) \in Result
    BY <2>1 DEF RunCause, Outcome
  <2>3. run' \in [Runs -> RunState] /\ result' \in [Runs -> Result]
    BY <2>1, <2>2 DEF RunCause
  <2>. QED
    BY <2>1, <2>3 DEF RunCause
<1>22. CASE \E r \in Runs : RunExit(r)
  BY <1>22 DEF RunExit, CancelRun
<1>23. CASE \E r \in Runs : Propagate(r)
  BY <1>23 DEF Propagate, CancelRun, ParentCause
<1>24. CASE \E g \in Runs \X Workers : WorkerStop(g)
  BY <1>24 DEF WorkerStop, WorkerStep
<1>25. CASE \E g \in Runs \X Workers : WorkerTake(g)
  BY <1>25 DEF WorkerTake, WorkerStep, Received
<1>26. CASE \E g \in Runs \X Workers : WorkerClosed(g)
  BY <1>26 DEF WorkerClosed, WorkerStep
<1>27. CASE \E g \in Runs \X Workers, err \in {"none", "worker", "workerCanceled"} :
              WorkerReturn(g, err)
  BY <1>27 DEF WorkerReturn, WorkerStep, CancelRun
<1>28. CASE \E x \in PushWaits \cup Drains : CtxEnd(x)
  BY <1>28 DEF CtxEnd
<1>29. CASE \E r \in Runs, how \in {"canceled", "custom", "deadline"} : ParentEnd(r, how)
  <2>1. PICK r \in Runs, how \in {"canceled", "custom", "deadline"} : ParentEnd(r, how)
    BY <1>29
  <2>2. parent' \in [Runs -> ParentState]
    BY <2>1 DEF ParentEnd
  <2>. QED
    BY <2>1, <2>2 DEF ParentEnd
<1>30. CASE UNCHANGED vars
  BY <1>30
<1>. QED
  BY <1>1, <1>2, <1>3, <1>4, <1>5, <1>6, <1>7, <1>8, <1>9, <1>10, <1>11, <1>12, <1>13,
     <1>14, <1>15, <1>16, <1>17, <1>18, <1>19, <1>20, <1>21, <1>22, <1>23, <1>24,
     <1>25, <1>26, <1>27, <1>28, <1>29, <1>30
  DEF Next, PushNext, PushWaitNext, CloserNext, DrainNext, RunNext, WorkerNext,
      Environment, Done

-----------------------------------------------------------------------------
(* Close and the two locks.                                                *)

\* What makes NoPanic inductive.  Whoever saw q.closed unset holds q.mu until it
\* has sent, one call at most is inside q.closeOnce, and the channel is closed
\* after q.closed is set and with no reader of q.pushWaitMu left at its select.
CloseInv ==
    /\ closed => MuFree
    /\ queueClosed => closed /\ closeOnce = "done"
    /\ queueClosed => \A p \in PushWaits : pushWait[p] # "select"
    /\ \A c \in Closing : closeOnce = "busy"
    /\ \A c, d \in Closing : c = d
    /\ \A c \in Closers : closer[c] \in {"wake", "lock", "pending"} => closed

\* Runs and their workers do not touch what CloseInv is about.
LEMMA RunsLeaveClose ==
    \/ \E r \in Runs : RunNext(r) \/ Propagate(r)
    \/ \E g \in Runs \X Workers : WorkerNext(g)
    \/ Environment
    \/ UNCHANGED vars
    => UNCHANGED <<push, pushWait, closer, closed, queueClosed, closeOnce>>
BY DEF RunNext, RunBegin, RunJoin, RunCause, RunExit, Propagate, WorkerNext, WorkerStep,
       WorkerStop, WorkerTake, WorkerClosed, WorkerReturn, Environment, CtxEnd, ParentEnd,
       vars, callVars, chanVars

\* Every step keeps CloseInv.
LEMMA CloseInvNext == Typed /\ CloseInv /\ [Next]_vars => CloseInv'
<1>. SUFFICES ASSUME Typed, CloseInv, [Next]_vars PROVE CloseInv'
  OBVIOUS
<1>. USE DEF CloseInv, Closing, MuFree, Typed, TypeOK
<1>1. CASE UNCHANGED <<push, pushWait, closer, closed, queueClosed, closeOnce>>
  BY <1>1
<1>2. ASSUME NEW p \in Pushes, PushNext(p) PROVE CloseInv'
  BY <1>2 DEF PushNext, PushBegin, PushSend, PushFail, PushCancel, chanVars
<1>3. ASSUME NEW p \in PushWaits, PushWaitNext(p) PROVE CloseInv'
  BY <1>3 DEF PushWaitNext, PushWaitStep, PushWaitEnter, PushWaitLock, PushWaitCheck,
              PushWaitSend, PushWaitCtx, PushWaitWoken
<1>4. ASSUME NEW c \in Closers, CloserNext(c) PROVE CloseInv'
  <2>1. CASE CloseEnter(c)
    BY <2>1 DEF CloseEnter, CloserStep, AfterClose, OncePassed
  <2>2. CASE CloseMark(c)
    BY <2>2 DEF CloseMark, CloserStep
  <2>3. CASE CloseWake(c)
    BY <2>3 DEF CloseWake, CloserStep
  <2>4. CASE CloseLock(c)
    BY <2>4 DEF CloseLock, CloserStep
  <2>5. CASE CloseSeal(c)
    BY <2>5 DEF CloseSeal, CloserStep, AfterClose, PushWaitMuFree, PushWaitReaders
  <2>. QED
    BY <1>4, <2>1, <2>2, <2>3, <2>4, <2>5 DEF CloserNext
<1>5. ASSUME NEW d \in Drains, DrainNext(d) PROVE CloseInv'
  BY <1>5 DEF DrainNext, CloserStep, DrainSnapshot, DrainDone, DrainExpire, Closers
<1>. QED
  BY <1>1, <1>2, <1>3, <1>4, <1>5, RunsLeaveClose DEF Next, Done

-----------------------------------------------------------------------------
(* One run at a time.                                                      *)

\* What makes ExclusiveRun inductive: a run is between its prologue and its
\* epilogue exactly while q.running stands for it, and has workers on the queue
\* only before wg.Wait() has returned.
RunInv ==
    /\ \A r \in Runs : run[r] \in {"serve", "cause", "exit"} <=> running = r
    /\ \A r \in Runs, w \in Workers :
          worker[<<r, w>>] \in {"loop", "work"} => run[r] = "serve"

\* Pushes, closers and contexts do not touch what RunInv is about.
LEMMA CallsLeaveRuns ==
    \/ \E p \in Pushes : PushNext(p)
    \/ \E p \in PushWaits : PushWaitNext(p)
    \/ \E c \in Closers : CloserNext(c)
    \/ \E d \in Drains : DrainNext(d)
    \/ \E r \in Runs : Propagate(r)
    \/ Environment
    \/ UNCHANGED vars
    => UNCHANGED <<running, run, worker>>
BY DEF PushNext, PushBegin, PushSend, PushFail, PushCancel, PushWaitNext, PushWaitStep,
       PushWaitEnter, PushWaitLock, PushWaitCheck, PushWaitSend, PushWaitCtx,
       PushWaitWoken, CloserNext, CloserStep, CloseEnter, CloseMark, CloseWake, CloseLock,
       CloseSeal, DrainNext, DrainSnapshot, DrainDone, DrainExpire, Propagate,
       Environment, CtxEnd, ParentEnd, vars, runVars

\* Every step keeps RunInv.
LEMMA RunInvNext == Typed /\ RunInv /\ [Next]_vars => RunInv'
<1>. SUFFICES ASSUME Typed, RunInv, [Next]_vars PROVE RunInv'
  OBVIOUS
<1>. USE CallsAssumption DEF RunInv, Typed, TypeOK
<1>1. CASE UNCHANGED <<running, run, worker>>
  BY <1>1
<1>2. ASSUME NEW r \in Runs, RunBegin(r) PROVE RunInv'
  BY <1>2 DEF RunBegin, Refusal
<1>3. ASSUME NEW r \in Runs, RunJoin(r) PROVE RunInv'
  BY <1>3 DEF RunJoin, WorkersGone
<1>4. ASSUME NEW r \in Runs, RunCause(r) PROVE RunInv'
  BY <1>4 DEF RunCause
<1>5. ASSUME NEW r \in Runs, RunExit(r) PROVE RunInv'
  BY <1>5 DEF RunExit
<1>6. ASSUME NEW g \in Runs \X Workers, WorkerNext(g) PROVE RunInv'
  BY <1>6 DEF WorkerNext, WorkerStep, WorkerStop, WorkerTake, WorkerClosed, WorkerReturn
<1>. QED
  BY <1>1, <1>2, <1>3, <1>4, <1>5, <1>6, CallsLeaveRuns DEF Next, RunNext, Done

-----------------------------------------------------------------------------
(* The failure of a full queue.                                            *)

\* Steps other than those of fail and run leave alone what FailureDelivered is
\* about, except that they may give a run a cause.
LEMMA CausesStay ==
    ASSUME TypeOK,
           \/ \E p \in PushWaits : PushWaitNext(p)
           \/ \E c \in Closers : CloserNext(c)
           \/ \E d \in Drains : DrainNext(d)
           \/ \E r \in Runs : Propagate(r) \/ RunJoin(r) \/ RunCause(r)
           \/ \E g \in Runs \X Workers : WorkerNext(g)
           \/ Environment
           \/ UNCHANGED vars
    PROVE  /\ UNCHANGED <<failure, running, push, target>>
           /\ \A r \in Runs : cause[r] # "none" => cause'[r] # "none"
<1>. DEFINE Goal == /\ UNCHANGED <<failure, running, push, target>>
                    /\ \A r \in Runs : cause[r] # "none" => cause'[r] # "none"
<1>. USE DEF TypeOK
<1>1. ASSUME NEW p \in PushWaits, PushWaitNext(p) PROVE Goal
  BY <1>1 DEF PushWaitNext, PushWaitStep, PushWaitEnter, PushWaitLock, PushWaitCheck,
       PushWaitSend, PushWaitCtx, PushWaitWoken, runVars
<1>2. ASSUME NEW c \in Closers, CloserNext(c) PROVE Goal
  BY <1>2 DEF CloserNext, CloserStep, CloseEnter, CloseMark, CloseWake, CloseLock, CloseSeal
<1>3. ASSUME NEW d \in Drains, DrainNext(d) PROVE Goal
  <2>1. CASE DrainSnapshot(d)
    BY <2>1 DEF DrainSnapshot, CloserStep
  <2>2. CASE DrainDone(d)
    BY <2>2 DEF DrainDone, CloserStep
  <2>3. CASE DrainExpire(d)
    BY <2>3 DEF DrainExpire, Found, CloserStep, CancelRun
  <2>. QED
    BY <1>3, <2>1, <2>2, <2>3 DEF DrainNext
<1>4. ASSUME NEW r \in Runs, Propagate(r) \/ RunJoin(r) \/ RunCause(r) PROVE Goal
  BY <1>4 DEF Propagate, CancelRun, ParentCause, RunJoin, RunCause, TypeOK, ParentState,
       callVars
<1>5. ASSUME NEW g \in Runs \X Workers, WorkerNext(g) PROVE Goal
  BY <1>5 DEF WorkerNext, WorkerStep, WorkerStop, WorkerTake, WorkerClosed, WorkerReturn,
       CancelRun, callVars
<1>6. CASE Environment
  BY <1>6 DEF Environment, CtxEnd, ParentEnd, callVars, runVars
<1>7. CASE UNCHANGED vars
  BY <1>7 DEF vars, callVars, runVars
<1>. QED
  BY <1>1, <1>2, <1>3, <1>4, <1>5, <1>6, <1>7

\* Every step keeps FailureDelivered: only fail records a failure, only run
\* makes another run active, and neither forgets the other.
LEMMA FailureDeliveredNext ==
    Typed /\ RunInv /\ FailureDelivered /\ [Next]_vars => FailureDelivered'
<1>. SUFFICES ASSUME Typed, RunInv, FailureDelivered, [Next]_vars PROVE FailureDelivered'
  OBVIOUS
<1>. USE CallsAssumption DEF FailureDelivered, Typed, TypeOK
<1>1. ASSUME UNCHANGED <<failure, running, push, target>>,
             \A r \in Runs : cause[r] # "none" => cause'[r] # "none"
      PROVE  FailureDelivered'
  BY <1>1
<1>2. ASSUME NEW p \in Pushes, PushBegin(p) PROVE FailureDelivered'
  BY <1>2 DEF PushBegin, runVars
<1>3. ASSUME NEW p \in Pushes, PushSend(p) PROVE FailureDelivered'
  BY <1>3 DEF PushSend, runVars
<1>4. ASSUME NEW p \in Pushes, PushFail(p) PROVE FailureDelivered'
  BY <1>4 DEF PushFail, runVars, Failure
<1>5. ASSUME NEW p \in Pushes, PushCancel(p) PROVE FailureDelivered'
  BY <1>5 DEF PushCancel, CancelRun
<1>6. ASSUME NEW r \in Runs, RunBegin(r) PROVE FailureDelivered'
  BY <1>6 DEF RunBegin, Refusal, callVars
<1>7. ASSUME NEW r \in Runs, RunExit(r) PROVE FailureDelivered'
  BY <1>7 DEF RunExit, callVars
<1>. QED
  BY <1>1, <1>2, <1>3, <1>4, <1>5, <1>6, <1>7, CausesStay DEF Next, PushNext, RunNext, Done

-----------------------------------------------------------------------------
(* Where the items are.                                                    *)

Elements(s) == {s[i] : i \in 1 .. Len(s)}

Distinct(s) == \A i, j \in 1 .. Len(s) : s[i] = s[j] => i = j

\* No two worker functions are called with the same item.
OneHolder(h) == \A f, g \in Runs \X Workers : h[f] = h[g] /\ h[f] # None => f = g

\* The items in the channel, with worker functions and behind them are three
\* sets, together the items that were accepted, and each is in one place.
ItemsInv ==
    /\ \A g \in Runs \X Workers : held[g] # None <=> worker[g] = "work"
    /\ OneHolder(held)
    /\ Distinct(queue)
    /\ Elements(queue) \cap Working = {}
    /\ Elements(queue) \cap handled = {}
    /\ Working \cap handled = {}
    /\ Accepted = Elements(queue) \cup Working \cup handled

\* An item joins the queue.
LEMMA Joined ==
    ASSUME NEW S, NEW s \in Seq(S), Distinct(s), NEW x \in S, x \notin Elements(s),
           NEW t, t = Append(s, x)
    PROVE  Distinct(t) /\ Elements(t) = Elements(s) \cup {x}
<1>1. /\ Len(t) = Len(s) + 1 /\ Len(s) \in Nat /\ t[Len(s) + 1] = x
      /\ \A i \in 1 .. Len(s) : t[i] = s[i]
  OBVIOUS
<1>2. \A i : i \in 1 .. Len(t) <=> i \in 1 .. Len(s) \/ i = Len(s) + 1
  BY <1>1
<1>3. \A i \in 1 .. Len(s) : s[i] # x
  BY DEF Elements
<1>. QED
  BY <1>1, <1>2, <1>3 DEF Distinct, Elements

\* The first item leaves the queue.
LEMMA Left ==
    ASSUME NEW S, NEW s \in Seq(S), Distinct(s), s # << >>
    PROVE  /\ Distinct(Tail(s)) /\ Head(s) \in Elements(s)
           /\ Elements(Tail(s)) = Elements(s) \ {Head(s)}
<1> DEFINE t == Tail(s)
<1>1. /\ Len(s) \in Nat /\ Len(s) # 0 /\ Len(t) = Len(s) - 1 /\ Head(s) = s[1]
      /\ \A i \in 1 .. Len(t) : t[i] = s[i + 1]
  OBVIOUS
<1>. HIDE DEF t
<1>2. 1 \in 1 .. Len(s) /\ \A i \in 1 .. Len(t) : i + 1 \in 1 .. Len(s) /\ i + 1 # 1
  BY <1>1
<1>3. \A j \in 1 .. Len(s) : j = 1 \/ (j - 1 \in 1 .. Len(t) /\ t[j - 1] = s[j])
  BY <1>1
<1>4. Distinct(t)
  <2>. SUFFICES ASSUME NEW i \in 1 .. Len(t), NEW j \in 1 .. Len(t), t[i] = t[j] PROVE i = j
    BY DEF Distinct
  <2>1. i + 1 = j + 1
    BY <1>1, <1>2 DEF Distinct
  <2>. QED
    BY <2>1
<1>5. Head(s) \in Elements(s)
  BY <1>1, <1>2 DEF Elements
<1>6. Elements(t) \subseteq Elements(s) \ {Head(s)}
  <2>. SUFFICES ASSUME NEW i \in 1 .. Len(t) PROVE t[i] \in Elements(s) \ {Head(s)}
    BY DEF Elements
  <2>1. i + 1 \in 1 .. Len(s) /\ i + 1 # 1 /\ t[i] = s[i + 1]
    BY <1>1, <1>2
  <2>2. s[i + 1] # s[1]
    BY <1>2, <2>1 DEF Distinct
  <2>. QED
    BY <1>1, <2>1, <2>2 DEF Elements
<1>7. Elements(s) \ {Head(s)} \subseteq Elements(t)
  <2>. SUFFICES ASSUME NEW j \in 1 .. Len(s), s[j] # Head(s) PROVE s[j] \in Elements(t)
    BY DEF Elements
  <2>1. j - 1 \in 1 .. Len(t) /\ t[j - 1] = s[j]
    BY <1>1, <1>3
  <2>. QED
    BY <2>1 DEF Elements
<1>. QED
  BY <1>4, <1>5, <1>6, <1>7 DEF t

Holding(h) == {h[g] : g \in Runs \X Workers} \ {None}

\* A worker function is called with an item.
LEMMA Given ==
    ASSUME NEW h, OneHolder(h), NEW g \in Runs \X Workers, h[g] = None,
           NEW x \in Items, x \notin Holding(h), NEW k, k[g] = x,
           \A f \in Runs \X Workers : f # g => k[f] = h[f]
    PROVE  OneHolder(k) /\ Holding(k) = Holding(h) \cup {x}
<1>1. x # None /\ \A f \in Runs \X Workers : h[f] # x
  BY CallsAssumption DEF Holding
<1>2. OneHolder(k)
  BY <1>1 DEF OneHolder
<1>3. Holding(k) = Holding(h) \cup {x}
  BY <1>1 DEF Holding
<1>. QED
  BY <1>2, <1>3

\* A worker function has returned.
LEMMA GivenBack ==
    ASSUME NEW h, OneHolder(h), NEW g \in Runs \X Workers, h[g] # None, NEW k, k[g] = None,
           \A f \in Runs \X Workers : f # g => k[f] = h[f]
    PROVE  OneHolder(k) /\ Holding(k) = Holding(h) \ {h[g]} /\ h[g] \in Holding(h)
<1>1. \A f \in Runs \X Workers : f # g => h[f] # h[g]
  BY DEF OneHolder
<1>2. OneHolder(k)
  BY DEF OneHolder
<1>3. Holding(k) = Holding(h) \ {h[g]}
  BY <1>1 DEF Holding
<1>4. h[g] \in Holding(h)
  BY DEF Holding
<1>. QED
  BY <1>2, <1>3, <1>4

\* The steps as they look from the items.
ItemsStay ==
    /\ UNCHANGED <<queueClosed, queue, held, handled>>
    /\ Accepted' = Accepted
    /\ \A g \in Runs \X Workers : worker'[g] = "work" <=> worker[g] = "work"

Joins(x) ==
    /\ x \in Items \ Accepted
    /\ ~queueClosed /\ Room
    /\ queue' = Append(queue, x)
    /\ Accepted' = Accepted \cup {x}
    /\ UNCHANGED <<queueClosed, held, handled, worker>>

TakenBy(g) ==
    /\ worker[g] = "loop" /\ queue # << >>
    /\ queue' = Tail(queue)
    /\ held' = [held EXCEPT ![g] = Head(queue)]
    /\ worker' = [worker EXCEPT ![g] = "work"]
    /\ Accepted' = Accepted
    /\ UNCHANGED <<queueClosed, handled>>

LeftBy(g) ==
    /\ worker[g] = "work"
    /\ handled' = handled \cup {held[g]}
    /\ held' = [held EXCEPT ![g] = None]
    /\ \E to \in {"loop", "exited"} : worker' = [worker EXCEPT ![g] = to]
    /\ Accepted' = Accepted
    /\ UNCHANGED <<queueClosed, queue>>

Seals ==
    /\ ~queueClosed /\ queueClosed'
    /\ Accepted' = Accepted
    /\ UNCHANGED <<queue, held, handled, worker>>

ItemStep ==
    \/ ItemsStay \/ Seals
    \/ \E x \in Items : Joins(x)
    \/ \E g \in Runs \X Workers : TakenBy(g) \/ LeftBy(g)

\* Every step is one of these.  A Push or a PushWait at its send has a channel
\* that is open (CloseInv), and the workers that a run starts hold nothing.
LEMMA StepsOfItems == Typed /\ CloseInv /\ RunInv /\ [Next]_vars => ItemStep
<1> SUFFICES ASSUME Typed, CloseInv, RunInv, [Next]_vars PROVE ItemStep
  OBVIOUS
<1>1. ASSUME UNCHANGED <<push, pushWait>> PROVE Accepted' = Accepted
  BY <1>1 DEF Accepted
<1>2. ASSUME UNCHANGED <<queueClosed, queue, held, handled, worker, push, pushWait>>
      PROVE  ItemStep
  BY <1>1, <1>2 DEF ItemStep, ItemsStay
<1>3. ASSUME NEW p \in Pushes, PushNext(p) PROVE ItemStep
  <2>1. UNCHANGED <<queueClosed, held, handled, worker, pushWait>>
    BY <1>3 DEF PushNext, PushBegin, PushSend, PushFail, PushCancel, chanVars, runVars
  <2>2. CASE push[p] = "send" /\ Room
    <3>1. queue' = Append(queue, p) /\ push' = [push EXCEPT ![p] = "ok"]
      BY <1>3, <2>2 DEF PushNext, PushBegin, PushSend, PushFail, PushCancel
    <3>2. ~queueClosed
      BY <2>2 DEF CloseInv, MuFree
    <3>3. p \in Items \ Accepted
      BY <2>2, CallsAssumption DEF Accepted, Items
    <3>4. Accepted' = Accepted \cup {p}
      BY <2>1, <3>1 DEF Accepted, Typed, TypeOK
    <3>. QED
      BY <2>1, <2>2, <3>1, <3>2, <3>3, <3>4 DEF ItemStep, Joins
  <2>3. CASE ~(push[p] = "send" /\ Room)
    <3>1. queue' = queue
      BY <1>3, <2>3 DEF PushNext, PushBegin, PushSend, PushFail, PushCancel, chanVars
    <3>2. PICK to \in PushState \ {"ok"} : push[p] # "ok" /\ push' = [push EXCEPT ![p] = to]
      BY <1>3, <2>3 DEF PushNext, PushBegin, PushSend, PushFail, PushCancel, PushState
    <3>3. Accepted' = Accepted
      BY <2>1, <3>2 DEF Accepted, Typed, TypeOK
    <3>. QED
      BY <2>1, <3>1, <3>3 DEF ItemStep, ItemsStay
  <2>. QED
    BY <2>2, <2>3
<1>4. ASSUME NEW p \in PushWaits, PushWaitNext(p) PROVE ItemStep
  <2>1. UNCHANGED <<queueClosed, held, handled, worker, push>>
    BY <1>4 DEF PushWaitNext, PushWaitStep, PushWaitEnter, PushWaitLock, PushWaitCheck,
       PushWaitSend, PushWaitCtx, PushWaitWoken, runVars
  <2>2. CASE PushWaitSend(p)
    <3>1. /\ queue' = Append(queue, p) /\ Room
          /\ pushWait[p] = "select" /\ pushWait' = [pushWait EXCEPT ![p] = "ok"]
      BY <2>2 DEF PushWaitSend, PushWaitStep
    <3>2. ~queueClosed
      BY <3>1 DEF CloseInv
    <3>3. p \in Items \ Accepted
      BY <3>1, CallsAssumption DEF Accepted, Items
    <3>4. Accepted' = Accepted \cup {p}
      BY <2>1, <3>1 DEF Accepted, Typed, TypeOK
    <3>. QED
      BY <2>1, <3>1, <3>2, <3>3, <3>4 DEF ItemStep, Joins
  <2>3. CASE ~PushWaitSend(p)
    <3>1. queue' = queue
      BY <1>4, <2>3 DEF PushWaitNext, PushWaitEnter, PushWaitLock, PushWaitCheck,
         PushWaitCtx, PushWaitWoken
    <3>2. PICK to \in PushWaitState \ {"ok"} :
             pushWait[p] # "ok" /\ pushWait' = [pushWait EXCEPT ![p] = to]
      BY <1>4, <2>3 DEF PushWaitNext, PushWaitStep, PushWaitEnter, PushWaitLock, PushWaitCheck,
         PushWaitCtx, PushWaitWoken, PushWaitState
    <3>3. Accepted' = Accepted
      BY <2>1, <3>2 DEF Accepted, Typed, TypeOK
    <3>. QED
      BY <2>1, <3>1, <3>3 DEF ItemStep, ItemsStay
  <2>. QED
    BY <2>2, <2>3
<1>5. ASSUME NEW c \in Closers, CloserNext(c) PROVE ItemStep
  <2>1. UNCHANGED <<queue, held, handled, worker, push, pushWait>>
    BY <1>5 DEF CloserNext, CloserStep, CloseEnter, CloseMark, CloseWake, CloseLock, CloseSeal
  <2>2. CASE CloseSeal(c)
    <3>1. closer[c] = "pending" /\ queueClosed' = TRUE
      BY <2>2 DEF CloseSeal, CloserStep
    <3>2. closeOnce = "busy"
      BY <3>1 DEF CloseInv, Closing
    <3>3. ~queueClosed
      BY <3>2 DEF CloseInv
    <3>. QED
      BY <1>1, <2>1, <3>1, <3>3 DEF ItemStep, Seals
  <2>3. CASE ~CloseSeal(c)
    <3>1. queueClosed' = queueClosed
      BY <1>5, <2>3 DEF CloserNext, CloseEnter, CloseMark, CloseWake, CloseLock
    <3>. QED
      BY <1>2, <2>1, <3>1
  <2>. QED
    BY <2>2, <2>3
<1>6. ASSUME NEW d \in Drains, DrainNext(d) PROVE ItemStep
  BY <1>2, <1>6 DEF DrainNext, CloserStep, DrainSnapshot, DrainDone, DrainExpire
<1>7. ASSUME NEW r \in Runs, RunBegin(r) PROVE ItemStep
  <2>1. UNCHANGED <<queueClosed, queue, held, handled, push, pushWait>>
    BY <1>7 DEF RunBegin, callVars, chanVars
  <2>2. \A g \in Runs \X Workers : worker'[g] = "work" <=> worker[g] = "work"
    <3>1. \A w \in Workers : worker[<<r, w>>] # "work"
      BY <1>7 DEF RunBegin, RunInv
    <3>2. CASE Refusal = "none"
      <4>1. worker' = [g \in Runs \X Workers |-> IF g[1] = r THEN "loop" ELSE worker[g]]
        BY <1>7, <3>2 DEF RunBegin
      <4>. QED
        BY <3>1, <4>1
    <3>3. CASE Refusal # "none"
      BY <1>7, <3>3 DEF RunBegin
    <3>. QED
      BY <3>2, <3>3
  <2>. QED
    BY <1>1, <2>1, <2>2 DEF ItemStep, ItemsStay
<1>8. ASSUME NEW r \in Runs, RunJoin(r) \/ RunCause(r) \/ RunExit(r) \/ Propagate(r) PROVE ItemStep
  BY <1>2, <1>8 DEF RunJoin, RunCause, RunExit, Propagate, callVars, chanVars
<1>9. ASSUME NEW g \in Runs \X Workers, WorkerNext(g) PROVE ItemStep
  <2>1. UNCHANGED <<queueClosed, push, pushWait>>
    BY <1>9 DEF WorkerNext, WorkerStep, WorkerStop, WorkerTake, WorkerClosed, WorkerReturn,
       callVars
  <2>2. CASE WorkerStop(g) \/ WorkerClosed(g)
    <3>1. UNCHANGED <<queue, held, handled>>
      BY <2>2 DEF WorkerStop, WorkerClosed
    <3>2. worker[g] = "loop" /\ worker' = [worker EXCEPT ![g] = "exited"]
      BY <2>2 DEF WorkerStop, WorkerClosed, WorkerStep
    <3>3. \A f \in Runs \X Workers : worker'[f] = "work" <=> worker[f] = "work"
      BY <3>2 DEF Typed, TypeOK
    <3>. QED
      BY <1>1, <2>1, <3>1, <3>3 DEF ItemStep, ItemsStay
  <2>3. CASE WorkerTake(g)
    <3>1. TakenBy(g)
      BY <1>1, <2>1, <2>3 DEF WorkerTake, WorkerStep, Received, TakenBy
    <3>. QED
      BY <3>1 DEF ItemStep
  <2>4. ASSUME NEW err \in {"none", "worker", "workerCanceled"}, WorkerReturn(g, err) PROVE ItemStep
    <3>1. LeftBy(g)
      BY <1>1, <2>1, <2>4 DEF WorkerReturn, WorkerStep, LeftBy
    <3>. QED
      BY <3>1 DEF ItemStep
  <2>. QED
    BY <1>9, <2>2, <2>3, <2>4 DEF WorkerNext
<1>10. CASE Environment
  BY <1>2, <1>10 DEF Environment, CtxEnd, ParentEnd, callVars, chanVars, runVars
<1>11. CASE UNCHANGED vars
  BY <1>2, <1>11 DEF vars, callVars, chanVars, runVars
<1>. QED
  BY <1>3, <1>4, <1>5, <1>6, <1>7, <1>8, <1>9, <1>10, <1>11 DEF Next, RunNext, Done

\* The item that a worker takes was with nobody, and is with this worker then.
LEMMA TakenIs ==
    ASSUME Typed, ItemsInv, NEW g \in Runs \X Workers, TakenBy(g)
    PROVE  /\ Head(queue) \in Items /\ Head(queue) \in Elements(queue)
           /\ Distinct(queue') /\ Elements(queue') = Elements(queue) \ {Head(queue)}
           /\ OneHolder(held') /\ Holding(held') = Holding(held) \cup {Head(queue)}
<1>1. Distinct(queue) /\ queue \in Seq(Items) /\ queue # << >> /\ queue' = Tail(queue)
  BY DEF TakenBy, ItemsInv, Typed, TypeOK
<1>2. /\ Distinct(queue') /\ Head(queue) \in Elements(queue)
      /\ Elements(queue') = Elements(queue) \ {Head(queue)}
  BY <1>1, Left
<1>3. Head(queue) \in Items
  BY <1>1
<1> DEFINE x == Head(queue)
<1>4. held' = [held EXCEPT ![g] = x] /\ held \in [Runs \X Workers -> Items \cup {None}]
  BY DEF TakenBy, Typed, TypeOK
<1>5. OneHolder(held) /\ held[g] = None /\ x \notin Working
  BY <1>2 DEF ItemsInv, TakenBy
<1>6. x \notin Holding(held)
  BY <1>5 DEF Working, Holding
<1>. HIDE DEF x
<1>7. held'[g] = x /\ \A f \in Runs \X Workers : f # g => held'[f] = held[f]
  BY <1>4
<1>8. OneHolder(held') /\ Holding(held') = Holding(held) \cup {x}
  BY <1>3, <1>5, <1>6, <1>7, Given DEF x
<1>. QED
  BY <1>2, <1>3, <1>8 DEF x

\* The item that a worker function returns from is with nobody then.
LEMMA LeftIs ==
    ASSUME Typed, ItemsInv, NEW g \in Runs \X Workers, LeftBy(g)
    PROVE  /\ held[g] \in Items /\ held[g] \in Holding(held)
           /\ OneHolder(held') /\ Holding(held') = Holding(held) \ {held[g]}
<1>1. held' = [held EXCEPT ![g] = None] /\ held \in [Runs \X Workers -> Items \cup {None}]
  BY DEF LeftBy, Typed, TypeOK
<1>2. OneHolder(held) /\ held[g] # None
  BY DEF ItemsInv, LeftBy
<1>3. held'[g] = None /\ \A f \in Runs \X Workers : f # g => held'[f] = held[f]
  BY <1>1
<1>4. held[g] \in Items
  BY <1>1, <1>2
<1>5. held[g] \in Holding(held) /\ OneHolder(held') /\ Holding(held') = Holding(held) \ {held[g]}
  BY <1>2, <1>3, GivenBack
<1>. QED
  BY <1>4, <1>5

\* Every step keeps ItemsInv.
LEMMA ItemsInvNext ==
    ASSUME Typed, Typed', ItemsInv, ItemStep PROVE ItemsInv'
<1>1. /\ queue \in Seq(Items) /\ worker \in [Runs \X Workers -> WorkerState]
      /\ held \in [Runs \X Workers -> Items \cup {None}]
  BY DEF Typed, TypeOK
<1>2. Working = Holding(held) /\ Working' = Holding(held')
  BY DEF Working, Holding
<1>3. CASE ItemsStay
  BY <1>2, <1>3 DEF ItemsStay, ItemsInv, OneHolder, Distinct, Elements
<1>4. CASE Seals
  BY <1>2, <1>4 DEF Seals, ItemsInv, OneHolder, Distinct, Elements
<1>5. ASSUME NEW x \in Items, Joins(x) PROVE ItemsInv'
  <2>1. x \notin Elements(queue) /\ x \notin Working /\ x \notin handled
    BY <1>5 DEF Joins, ItemsInv
  <2>2. Distinct(queue') /\ Elements(queue') = Elements(queue) \cup {x}
    <3>1. Distinct(queue) /\ queue' = Append(queue, x)
      BY <1>5 DEF Joins, ItemsInv
    <3>. QED
      BY <1>1, <2>1, <3>1, Joined
  <2>3. Distinct(queue)' /\ Elements(queue)' = Elements(queue) \cup {x}
    BY <2>2 DEF Distinct, Elements
  <2>4. UNCHANGED <<held, worker, handled>> /\ Working' = Working /\ Accepted' = Accepted \cup {x}
    BY <1>2, <1>5 DEF Joins
  <2>. QED
    BY <2>1, <2>3, <2>4 DEF ItemsInv, OneHolder
<1>6. ASSUME NEW g \in Runs \X Workers, TakenBy(g) PROVE ItemsInv'
  <2> DEFINE x == Head(queue)
  <2>1. /\ x \in Items /\ x \in Elements(queue)
        /\ Distinct(queue') /\ Elements(queue') = Elements(queue) \ {x}
        /\ OneHolder(held') /\ Holding(held') = Holding(held) \cup {x}
    BY <1>6, TakenIs
  <2>2. Distinct(queue)' /\ Elements(queue)' = Elements(queue) \ {x}
    BY <2>1 DEF Distinct, Elements
  <2>3. OneHolder(held)' /\ Working' = Working \cup {x}
    BY <1>2, <2>1 DEF OneHolder
  <2>4. \A f \in Runs \X Workers : held'[f] # None <=> worker'[f] = "work"
    <3>1. held' = [held EXCEPT ![g] = x] /\ worker' = [worker EXCEPT ![g] = "work"]
      BY <1>6 DEF TakenBy
    <3>. HIDE DEF x
    <3>2. x # None
      BY <2>1, CallsAssumption
    <3>. QED
      BY <1>1, <3>1, <3>2 DEF ItemsInv
  <2>5. handled' = handled /\ Accepted' = Accepted
    BY <1>6 DEF TakenBy
  <2>. HIDE DEF x
  <2>. QED
    BY <2>1, <2>2, <2>3, <2>4, <2>5 DEF ItemsInv
<1>7. ASSUME NEW g \in Runs \X Workers, LeftBy(g) PROVE ItemsInv'
  <2> DEFINE x == held[g]
  <2>1. x \in Holding(held) /\ OneHolder(held') /\ Holding(held') = Holding(held) \ {x}
    BY <1>7, LeftIs
  <2>2. OneHolder(held)' /\ Working' = Working \ {x} /\ x \in Working
    BY <1>2, <2>1 DEF OneHolder
  <2>3. \A f \in Runs \X Workers : held'[f] # None <=> worker'[f] = "work"
    BY <1>1, <1>7 DEF LeftBy, ItemsInv
  <2>4. /\ queue' = queue /\ Accepted' = Accepted /\ handled' = handled \cup {x}
        /\ Distinct(queue)' /\ Elements(queue)' = Elements(queue)
    BY <1>7 DEF LeftBy, ItemsInv, Distinct, Elements
  <2>. HIDE DEF x
  <2>. QED
    BY <2>2, <2>3, <2>4 DEF ItemsInv
<1>. QED
  BY <1>3, <1>4, <1>5, <1>6, <1>7 DEF ItemStep

-----------------------------------------------------------------------------
(* The end of a run and of Close.                                          *)

\* A worker that exited without a cause saw the channel closed and empty, and
\* a run goes on behind wg.Wait() only when all have exited.
DrainedInv ==
    /\ \A r \in Runs, w \in Workers :
          worker[<<r, w>>] = "exited" /\ cause[r] = "none" => queueClosed /\ queue = << >>
    /\ \A r \in Runs : run[r] \in {"cause", "exit"} => WorkersGone(r)

\* Only the Close that q.closeOnce let in completes it, after it has closed the
\* channel, and every call of Close returns after that.
BarrierInv ==
    /\ closeOnce = "done" => queueClosed
    /\ \A c \in Closers : closer[c] \in {"closed", "snapshot", "wait", "nil", "ctx"}
          => closeOnce = "done"

\* A closed channel that is empty stays empty.
LEMMA EmptyStays ==
    ASSUME ItemStep, queueClosed, queue = << >>
    PROVE  queueClosed' /\ queue' = << >>
BY DEF ItemStep, ItemsStay, Seals, Joins, TakenBy, LeftBy

\* Every step keeps BarrierInv.
LEMMA BarrierInvNext == Typed /\ BarrierInv /\ [Next]_vars => BarrierInv'
<1> SUFFICES ASSUME Typed, BarrierInv, [Next]_vars PROVE BarrierInv'
  OBVIOUS
<1>1. CASE UNCHANGED <<closer, queueClosed, closeOnce>>
  BY <1>1 DEF BarrierInv
<1>2. CASE \/ \E p \in Pushes : PushNext(p)
           \/ \E p \in PushWaits : PushWaitNext(p)
  BY <1>1, <1>2 DEF PushNext, PushBegin, PushSend, PushFail, PushCancel, PushWaitNext,
     PushWaitStep, PushWaitEnter, PushWaitLock, PushWaitCheck, PushWaitSend, PushWaitCtx,
     PushWaitWoken, chanVars
<1>3. ASSUME NEW c \in Closers, CloserNext(c) PROVE BarrierInv'
  <2>. USE DEF BarrierInv, Typed, TypeOK, CloserState
  <2>1. CASE CloseEnter(c)
    BY <2>1 DEF CloseEnter, CloserStep, AfterClose, OncePassed
  <2>2. CASE CloseMark(c)
    BY <2>2 DEF CloseMark, CloserStep
  <2>3. CASE CloseWake(c)
    BY <2>3 DEF CloseWake, CloserStep
  <2>4. CASE CloseLock(c)
    BY <2>4 DEF CloseLock, CloserStep
  <2>5. CASE CloseSeal(c)
    BY <2>5 DEF CloseSeal, CloserStep
  <2>. QED
    BY <1>3, <2>1, <2>2, <2>3, <2>4, <2>5 DEF CloserNext
<1>4. ASSUME NEW d \in Drains, DrainNext(d) PROVE BarrierInv'
  <2>1. UNCHANGED <<queueClosed, closeOnce>>
    BY <1>4 DEF DrainNext, DrainSnapshot, DrainDone, DrainExpire
  <2>2. PICK to : /\ closer[d] \in {"snapshot", "wait"} /\ to \in CloserState
                  /\ closer' = [closer EXCEPT ![d] = to]
    BY <1>4 DEF DrainNext, CloserStep, DrainSnapshot, DrainDone, DrainExpire, CloserState
  <2>. QED
    BY <2>1, <2>2 DEF BarrierInv, Typed, TypeOK, Closers
<1>. QED
  BY <1>1, <1>2, <1>3, <1>4, RunsLeaveClose DEF Next, Done

\* A cause stays.
LEMMA CausesLast ==
    ASSUME Typed, RunInv, [Next]_vars, NEW r \in Runs, cause'[r] = "none"
    PROVE  cause[r] = "none"
<1>1. ASSUME NEW p \in Pushes, PushNext(p) PROVE cause[r] = "none"
  BY <1>1 DEF PushNext, PushBegin, PushSend, PushFail, PushCancel, CancelRun, runVars, Typed, TypeOK
<1>2. ASSUME NEW c \in Closers, CloserNext(c) PROVE cause[r] = "none"
  BY <1>2 DEF CloserNext, CloseEnter, CloseMark, CloseWake, CloseLock, CloseSeal
<1>3. ASSUME NEW s \in Runs, RunBegin(s) PROVE cause[r] = "none"
  <2>1. cause' = cause \/ (parent[s] # "live" /\ cause' = [cause EXCEPT ![s] = ParentCause(s)])
    BY <1>3 DEF RunBegin
  <2>2. parent[s] # "live" => ParentCause(s) # "none"
    BY DEF ParentCause, Typed, TypeOK, ParentState
  <2>. QED
    BY <2>1, <2>2 DEF Typed, TypeOK
<1>4. ASSUME NEW s \in Runs, RunExit(s) PROVE cause[r] = "none"
  BY <1>4 DEF RunExit, CancelRun, Typed, TypeOK
<1>5. CASE \/ \E p \in PushWaits : PushWaitNext(p)
           \/ \E d \in Drains : DrainNext(d)
           \/ \E s \in Runs : Propagate(s) \/ RunJoin(s) \/ RunCause(s)
           \/ \E g \in Runs \X Workers : WorkerNext(g)
           \/ Environment
           \/ UNCHANGED vars
  BY <1>5, CausesStay DEF Typed
<1>. QED
  BY <1>1, <1>2, <1>3, <1>4, <1>5 DEF Next, RunNext, Done

\* What a step does to the workers that exit and to the runs that go on.
LEMMA ExitsOfWorkers ==
    ASSUME Typed, [Next]_vars, NEW r \in Runs, NEW w \in Workers,
           worker'[<<r, w>>] = "exited", worker[<<r, w>>] # "exited"
    PROVE  cause'[r] # "none" \/ (queueClosed /\ queue = << >>)
<1> DEFINE g == <<r, w>>
<1>1. worker' # worker
  OBVIOUS
<1>2. ASSUME NEW s \in Runs, RunBegin(s) PROVE FALSE
  <2>1. worker' = [f \in Runs \X Workers |-> IF f[1] = s THEN "loop" ELSE worker[f]]
    BY <1>1, <1>2 DEF RunBegin
  <2>. QED
    BY <2>1
<1>3. ASSUME NEW f \in Runs \X Workers, WorkerNext(f)
      PROVE  cause'[r] # "none" \/ (queueClosed /\ queue = << >>)
  <2>1. f = g
    BY <1>3 DEF WorkerNext, WorkerStop, WorkerTake, WorkerClosed, WorkerReturn, WorkerStep, Typed, TypeOK
  <2>2. f[1] = r /\ g \in Runs \X Workers
    BY <2>1
  <2>3. CASE WorkerStop(f)
    BY <2>2, <2>3 DEF WorkerStop
  <2>4. CASE WorkerTake(f)
    BY <2>1, <2>2, <2>4 DEF WorkerTake, WorkerStep, Typed, TypeOK
  <2>5. CASE WorkerClosed(f)
    BY <2>5 DEF WorkerClosed
  <2>6. ASSUME NEW err \in {"none", "worker", "workerCanceled"}, WorkerReturn(f, err)
        PROVE  cause'[r] # "none"
    <3>1. err # "none"
      BY <2>1, <2>2, <2>6 DEF WorkerReturn, WorkerStep, Typed, TypeOK
    <3>. QED
      BY <2>2, <2>6, <3>1 DEF WorkerReturn, CancelRun, Typed, TypeOK
  <2>. QED
    BY <1>3, <2>3, <2>4, <2>5, <2>6 DEF WorkerNext
<1>4. CASE \E s \in Runs : RunJoin(s) \/ RunCause(s) \/ RunExit(s)
  BY <1>1, <1>4 DEF RunJoin, RunCause, RunExit
<1>. QED
  BY <1>1, <1>2, <1>3, <1>4, CallsLeaveRuns DEF Next, RunNext, Done

\* Every step keeps DrainedInv.
LEMMA DrainedInvNext ==
    ASSUME Typed, RunInv, DrainedInv, ItemStep, [Next]_vars PROVE DrainedInv'
<1>1. ASSUME NEW r \in Runs, NEW w \in Workers,
             worker'[<<r, w>>] = "exited", cause'[r] = "none"
      PROVE  queueClosed' /\ queue' = << >>
  <2>1. cause[r] = "none"
    BY <1>1, CausesLast
  <2>2. queueClosed /\ queue = << >>
    <3>1. CASE worker[<<r, w>>] = "exited"
      BY <2>1, <3>1 DEF DrainedInv
    <3>2. CASE worker[<<r, w>>] # "exited"
      BY <1>1, <3>2, ExitsOfWorkers
    <3>. QED
      BY <3>1, <3>2
  <2>. QED
    BY <2>2, EmptyStays
<1>2. ASSUME NEW r \in Runs, run'[r] \in {"cause", "exit"} PROVE WorkersGone(r)'
  <2>1. CASE UNCHANGED <<running, run, worker>>
    BY <1>2, <2>1 DEF DrainedInv, WorkersGone
  <2>2. ASSUME NEW s \in Runs, RunBegin(s) PROVE WorkersGone(r)'
    <3>1. r # s /\ run'[r] = run[r]
      BY <1>2, <2>2 DEF RunBegin, Typed, TypeOK
    <3>2. WorkersGone(r)
      BY <1>2, <3>1 DEF DrainedInv
    <3>3. \A w \in Workers : worker'[<<r, w>>] = worker[<<r, w>>]
      BY <2>2, <3>1 DEF RunBegin
    <3>. QED
      BY <3>2, <3>3 DEF WorkersGone
  <2>3. ASSUME NEW s \in Runs, RunJoin(s) \/ RunCause(s) \/ RunExit(s) PROVE WorkersGone(r)'
    <3>1. worker' = worker
      BY <2>3 DEF RunJoin, RunCause, RunExit
    <3>2. WorkersGone(r)
      BY <1>2, <2>3 DEF RunJoin, RunCause, RunExit, DrainedInv, Typed, TypeOK
    <3>. QED
      BY <3>1, <3>2 DEF WorkersGone
  <2>4. ASSUME NEW g \in Runs \X Workers, WorkerNext(g) PROVE WorkersGone(r)'
    <3>1. run' = run /\ worker[g] \in {"loop", "work"}
      BY <2>4 DEF WorkerNext, WorkerStop, WorkerTake, WorkerClosed, WorkerReturn, WorkerStep
    <3>2. WorkersGone(r)
      BY <1>2, <3>1 DEF DrainedInv
    <3>3. \A w \in Workers : worker'[<<r, w>>] = worker[<<r, w>>]
      <4>1. \A w \in Workers : <<r, w>> # g
        BY <3>1, <3>2 DEF WorkersGone
      <4>. QED
        BY <2>4, <4>1 DEF WorkerNext, WorkerStop, WorkerTake, WorkerClosed, WorkerReturn,
           WorkerStep, Typed, TypeOK
    <3>. QED
      BY <3>2, <3>3 DEF WorkersGone
  <2>. QED
    BY <2>1, <2>2, <2>3, <2>4, CallsLeaveRuns DEF Next, RunNext, Done
<1>. QED
  BY <1>1, <1>2 DEF DrainedInv

-----------------------------------------------------------------------------
(* What a nil of Run means.                                                *)

\* A run whose workers have exited without a cause leaves nothing.
LEMMA RunDrains ==
    ASSUME RunInv, ItemsInv, DrainedInv,
           NEW r \in Runs, run[r] \in {"cause", "exit"}, cause[r] = "none"
    PROVE  Drained
<1>1. \A w \in Workers : worker[<<r, w>>] = "exited"
  BY DEF DrainedInv, WorkersGone
<1>2. queueClosed /\ queue = << >>
  BY <1>1, OptionsAssumption DEF DrainedInv
<1>3. running = r
  BY DEF RunInv
<1>4. \A s \in Runs, w \in Workers : worker[<<s, w>>] # "work"
  BY <1>1, <1>3 DEF RunInv
<1>5. Working = {}
  <2>1. \A g \in Runs \X Workers : worker[g] # "work"
    BY <1>4
  <2>2. \A g \in Runs \X Workers : held[g] = None
    BY <2>1 DEF ItemsInv
  <2>. QED
    BY <2>2 DEF Working
<1>6. Elements(queue) = {}
  BY <1>2 DEF Elements
<1>. QED
  BY <1>2, <1>5, <1>6 DEF ItemsInv, Drained

\* Somebody canceled run r, and no other.
Meant(r) == ParentCanceled(r) \/ GaveUp(r)

\* Cancellations that are not errors of workers were meant for the run; the
\* epilogue cancels too, when nobody looks any more.
ReasonsInv ==
    /\ \A r \in Runs : cause[r] = "canceled" => Meant(r) \/ run[r] = "returned"
    /\ NilExplained

\* A closed queue that was drained stays so.
LEMMA DrainedLasts == ItemStep /\ Drained => Drained'
BY DEF ItemStep, ItemsStay, Seals, Joins, TakenBy, LeftBy, Drained

\* A parent stays canceled, and a Drain that gave up has returned.
LEMMA MeantLasts ==
    ASSUME Typed, [Next]_vars, NEW r \in Runs, Meant(r)
    PROVE  Meant(r)'
<1>. USE DEF Typed, TypeOK
<1>1. CASE UNCHANGED <<parent, seen, closer>>
  BY <1>1 DEF Meant, ParentCanceled, GaveUp
<1>2. ASSUME NEW s \in Runs, NEW how, ParentEnd(s, how) PROVE Meant(r)'
  <2>1. parent' = [parent EXCEPT ![s] = how] /\ parent[s] = "live" /\ UNCHANGED <<seen, closer>>
    BY <1>2 DEF ParentEnd, callVars
  <2>. QED
    BY <2>1 DEF Meant, ParentCanceled, GaveUp
<1>3. ASSUME NEW c \in Closers, NEW to, closer[c] # "ctx", closer' = [closer EXCEPT ![c] = to],
             \A d \in Drains : d # c => seen'[d] = seen[d], parent' = parent
      PROVE  Meant(r)'
  <2>1. ASSUME NEW d \in Drains, closer[d] = "ctx" PROVE closer'[d] = "ctx" /\ seen'[d] = seen[d]
    BY <1>3, <2>1 DEF Closers
  <2>. QED
    BY <1>3, <2>1 DEF Meant, ParentCanceled, GaveUp
<1>4. ASSUME NEW c \in Closers, CloserNext(c) PROVE Meant(r)'
  <2>1. seen' = seen /\ parent' = parent
    BY <1>4 DEF CloserNext, CloserStep, CloseEnter, CloseMark, CloseWake, CloseLock, CloseSeal
  <2>2. PICK to : closer[c] # "ctx" /\ closer' = [closer EXCEPT ![c] = to]
    BY <1>4 DEF CloserNext, CloserStep, CloseEnter, CloseMark, CloseWake, CloseLock, CloseSeal
  <2>. QED
    BY <1>3, <2>1, <2>2
<1>5. ASSUME NEW d \in Drains, DrainNext(d) PROVE Meant(r)'
  <2>1. parent' = parent /\ \A e \in Drains : e # d => seen'[e] = seen[e]
    BY <1>5 DEF DrainNext, CloserStep, DrainSnapshot, DrainDone, DrainExpire
  <2>2. PICK to : closer[d] # "ctx" /\ closer' = [closer EXCEPT ![d] = to]
    BY <1>5 DEF DrainNext, CloserStep, DrainSnapshot, DrainDone, DrainExpire
  <2>. QED
    BY <1>3, <2>1, <2>2 DEF Closers
<1>6. CASE \/ \E p \in Pushes : PushNext(p)
           \/ \E p \in PushWaits : PushWaitNext(p)
  BY <1>1, <1>6 DEF PushNext, PushBegin, PushSend, PushFail, PushCancel, PushWaitNext,
     PushWaitStep, PushWaitEnter, PushWaitLock, PushWaitCheck, PushWaitSend, PushWaitCtx,
     PushWaitWoken, runVars
<1>7. CASE \/ \E s \in Runs : RunNext(s) \/ Propagate(s)
           \/ \E g \in Runs \X Workers : WorkerNext(g)
           \/ \E x \in PushWaits \cup Drains : CtxEnd(x)
           \/ UNCHANGED vars
  BY <1>1, <1>7 DEF RunNext, RunBegin, RunJoin, RunCause, RunExit, Propagate, WorkerNext,
     WorkerStep, WorkerStop, WorkerTake, WorkerClosed, WorkerReturn, CtxEnd, vars, callVars, runVars
<1>. QED
  BY <1>2, <1>4, <1>5, <1>6, <1>7 DEF Next, Environment, Done

\* Where a cause comes from: the first one stays, and "canceled" is given by the
\* parent, by a Drain that found this run, or by the epilogue.
LEMMA CauseFrom ==
    ASSUME Typed, [Next]_vars, NEW r \in Runs, cause'[r] # cause[r]
    PROVE  /\ cause[r] = "none" \/ run[r] = "idle"
           /\ cause'[r] = "canceled" => Meant(r)' \/ run'[r] = "returned"
<1>. DEFINE Goal == /\ cause[r] = "none" \/ run[r] = "idle"
                    /\ cause'[r] = "canceled" => Meant(r)' \/ run'[r] = "returned"
<1>. USE DEF Typed, TypeOK
<1>1. ASSUME NEW p \in Pushes, PushNext(p) PROVE Goal
  BY <1>1 DEF PushNext, PushBegin, PushSend, PushFail, PushCancel, CancelRun, runVars
<1>2. ASSUME NEW d \in Drains, DrainExpire(d) PROVE Goal
  <2>1. seen[d] = r /\ cause[r] = "none" /\ seen' = seen
    BY <1>2 DEF DrainExpire, Found, CancelRun
  <2>2. closer'[d] = "ctx"
    BY <1>2 DEF DrainExpire, CloserStep, Closers
  <2>. QED
    BY <2>1, <2>2 DEF Meant, GaveUp
<1>3. ASSUME NEW s \in Runs, RunBegin(s) PROVE Goal
  <2>1. s = r /\ cause'[r] = parent[r] /\ parent' = parent /\ run[r] = "idle"
    BY <1>3 DEF RunBegin, ParentCause
  <2>. QED
    BY <2>1 DEF Meant, ParentCanceled
<1>4. ASSUME NEW s \in Runs, RunExit(s) PROVE Goal
  BY <1>4 DEF RunExit, CancelRun
<1>5. ASSUME NEW s \in Runs, Propagate(s) PROVE Goal
  <2>1. s = r /\ cause'[r] = parent[r] /\ parent' = parent /\ cause[r] = "none"
    BY <1>5 DEF Propagate, CancelRun, ParentCause
  <2>. QED
    BY <2>1 DEF Meant, ParentCanceled
<1>6. ASSUME NEW g \in Runs \X Workers, WorkerNext(g) PROVE Goal
  BY <1>6 DEF WorkerNext, WorkerStop, WorkerTake, WorkerClosed, WorkerReturn, CancelRun
<1>7. CASE \/ \E p \in PushWaits : PushWaitNext(p)
           \/ \E c \in Closers : CloserNext(c)
           \/ \E d \in Drains : DrainSnapshot(d) \/ DrainDone(d)
           \/ \E s \in Runs : RunJoin(s) \/ RunCause(s)
           \/ Environment
           \/ UNCHANGED vars
  BY <1>7 DEF PushWaitNext, PushWaitStep, PushWaitEnter, PushWaitLock, PushWaitCheck,
     PushWaitSend, PushWaitCtx, PushWaitWoken, CloserNext, CloseEnter, CloseMark, CloseWake,
     CloseLock, CloseSeal, DrainSnapshot, DrainDone, RunJoin, RunCause, Environment, CtxEnd,
     ParentEnd, vars, runVars
<1>. QED
  BY <1>1, <1>2, <1>3, <1>4, <1>5, <1>6, <1>7 DEF Next, DrainNext, RunNext, Done

\* How a run comes to its result.
LEMMA ResultFrom ==
    ASSUME Typed, [Next]_vars, NEW r \in Runs,
           run'[r] \in {"exit", "returned"}, result'[r] = "nil"
    PROVE  \/ run[r] \in {"exit", "returned"} /\ result[r] = "nil"
           \/ ParentCanceled(r)
           \/ run[r] = "cause" /\ cause[r] \in {"none", "canceled", "workerCanceled"}
<1>. USE DEF Typed, TypeOK
<1>1. ASSUME NEW s \in Runs, RunBegin(s) PROVE run[r] \in {"exit", "returned"} /\ result[r] = "nil"
  <2>1. s # r
    BY <1>1 DEF RunBegin, Refusal, Failure
  <2>2. run'[r] = run[r] /\ result'[r] = result[r]
    BY <1>1, <2>1 DEF RunBegin
  <2>. QED
    BY <2>2
<1>2. ASSUME NEW s \in Runs, RunJoin(s)
      PROVE  (run[r] \in {"exit", "returned"} /\ result[r] = "nil") \/ ParentCanceled(r)
  BY <1>2 DEF RunJoin
<1>3. ASSUME NEW s \in Runs, RunCause(s)
      PROVE  \/ run[r] \in {"exit", "returned"} /\ result[r] = "nil"
             \/ run[r] = "cause" /\ cause[r] \in {"none", "canceled", "workerCanceled"}
  <2>1. CASE s = r
    <3>1. run[r] = "cause" /\ Outcome(r) = "nil"
      BY <1>3, <2>1 DEF RunCause
    <3>2. cause[r] # "nil"
      BY DEF Cause
    <3>. QED
      BY <3>1, <3>2 DEF Outcome
  <2>2. CASE s # r
    BY <1>3, <2>2 DEF RunCause
  <2>. QED
    BY <2>1, <2>2
<1>4. ASSUME NEW s \in Runs, RunExit(s) PROVE run[r] \in {"exit", "returned"} /\ result[r] = "nil"
  BY <1>4 DEF RunExit
<1>5. CASE UNCHANGED <<run, result>>
  BY <1>5
<1>6. CASE \/ \E p \in Pushes : PushNext(p)
           \/ \E p \in PushWaits : PushWaitNext(p)
           \/ \E c \in Closers : CloserNext(c)
           \/ \E d \in Drains : DrainNext(d)
  BY <1>5, <1>6 DEF PushNext, PushBegin, PushSend, PushFail, PushCancel, PushWaitNext,
     PushWaitStep, PushWaitEnter, PushWaitLock, PushWaitCheck, PushWaitSend, PushWaitCtx,
     PushWaitWoken, CloserNext, CloserStep, CloseEnter, CloseMark, CloseWake, CloseLock,
     CloseSeal, DrainNext, DrainSnapshot, DrainDone, DrainExpire, runVars
<1>7. CASE \/ \E s \in Runs : Propagate(s)
           \/ \E g \in Runs \X Workers : WorkerNext(g)
           \/ Environment
           \/ UNCHANGED vars
  BY <1>5, <1>7 DEF Propagate, WorkerNext, WorkerStep, WorkerStop, WorkerTake, WorkerClosed,
     WorkerReturn, Environment, CtxEnd, ParentEnd, vars, runVars
<1>. QED
  BY <1>1, <1>2, <1>3, <1>4, <1>6, <1>7 DEF Next, RunNext, Done

\* A run that has returned has returned for good.
LEMMA ReturnedLasts ==
    ASSUME Typed, [Next]_vars, NEW r \in Runs, run[r] = "returned"
    PROVE  run'[r] = "returned"
<1>1. CASE UNCHANGED <<running, run, worker>>
  BY <1>1
<1>2. ASSUME NEW s \in Runs, RunNext(s) PROVE run'[r] = "returned"
  BY <1>2 DEF RunNext, RunBegin, RunJoin, RunCause, RunExit, Typed, TypeOK
<1>3. ASSUME NEW g \in Runs \X Workers, WorkerNext(g) PROVE run'[r] = "returned"
  BY <1>3 DEF WorkerNext, WorkerStop, WorkerTake, WorkerClosed, WorkerReturn, WorkerStep
<1>. QED
  BY <1>1, <1>2, <1>3, CallsLeaveRuns DEF Next, Done

\* Every step keeps ReasonsInv.
LEMMA ReasonsInvNext ==
    ASSUME Typed, RunInv, ItemsInv, DrainedInv, ReasonsInv, ItemStep, [Next]_vars
    PROVE  ReasonsInv'
<1>1. ASSUME NEW r \in Runs, cause'[r] = "canceled" PROVE Meant(r)' \/ run'[r] = "returned"
  <2>1. CASE cause'[r] = cause[r]
    BY <1>1, <2>1, MeantLasts, ReturnedLasts DEF ReasonsInv
  <2>2. CASE cause'[r] # cause[r]
    BY <1>1, <2>2, CauseFrom
  <2>. QED
    BY <2>1, <2>2
<1>2. ASSUME NEW r \in Runs, run'[r] \in {"exit", "returned"}, result'[r] = "nil"
      PROVE  Meant(r)' \/ cause'[r] = "workerCanceled" \/ Drained'
  <2>1. Meant(r) \/ (run[r] # "idle" /\ cause[r] = "workerCanceled") \/ Drained
    <3>1. CASE run[r] \in {"exit", "returned"} /\ result[r] = "nil"
      BY <3>1 DEF ReasonsInv, NilExplained, Meant
    <3>2. CASE ParentCanceled(r)
      BY <3>2 DEF Meant
    <3>3. CASE run[r] = "cause" /\ cause[r] \in {"none", "canceled", "workerCanceled"}
      BY <3>3, RunDrains DEF ReasonsInv
    <3>. QED
      BY <1>2, <3>1, <3>2, <3>3, ResultFrom
  <2>. QED
    BY <2>1, MeantLasts, CauseFrom, DrainedLasts
<1>. QED
  BY <1>1, <1>2 DEF ReasonsInv, NilExplained, Meant

-----------------------------------------------------------------------------
(* Theorems about every behaviour of the queue.                            *)

\* The inductive invariant.
IInv ==
    /\ Typed /\ CloseInv /\ RunInv /\ FailureDelivered
    /\ ItemsInv /\ DrainedInv /\ BarrierInv /\ ReasonsInv

\* It holds at first and every step keeps it.
LEMMA Inductive == Spec => []IInv
<1>1. Init => IInv
  <2>. SUFFICES ASSUME Init PROVE IInv
    OBVIOUS
  <2>1. Typed
    <3>1. queue \in Seq(Items) /\ Len(queue) <= Size
      BY OptionsAssumption DEF Init
    <3>. QED
      BY <3>1 DEF Init, Typed, TypeOK, WorkerHolds, PushState, PushWaitState, CloserState,
        RunState, Failure, ParentState, Cause, Result, WorkerState
  <2>2. CloseInv
    BY DEF Init, CloseInv, Closing, MuFree
  <2>3. RunInv
    BY CallsAssumption DEF Init, RunInv
  <2>4. FailureDelivered
    BY DEF Init, FailureDelivered
  <2>5. ItemsInv
    <3>1. Accepted = {} /\ Working = {} /\ Elements(queue) = {}
      BY DEF Init, Accepted, Working, Elements
    <3>2. Distinct(queue) /\ OneHolder(held)
      BY DEF Init, Distinct, OneHolder
    <3>. QED
      BY <3>1, <3>2 DEF Init, ItemsInv
  <2>6. DrainedInv
    BY DEF Init, DrainedInv
  <2>7. BarrierInv
    BY DEF Init, BarrierInv
  <2>8. ReasonsInv
    BY DEF Init, ReasonsInv, NilExplained
  <2>. QED
    BY <2>1, <2>2, <2>3, <2>4, <2>5, <2>6, <2>7, <2>8 DEF IInv
<1>2. IInv /\ [Next]_vars => IInv'
  <2>. SUFFICES ASSUME IInv, [Next]_vars PROVE IInv'
    OBVIOUS
  <2>1. Typed' /\ CloseInv' /\ RunInv' /\ FailureDelivered' /\ BarrierInv'
    BY TypedNext, CloseInvNext, RunInvNext, FailureDeliveredNext, BarrierInvNext DEF IInv
  <2>2. ItemStep
    BY StepsOfItems DEF IInv
  <2>3. ItemsInv' /\ DrainedInv' /\ ReasonsInv'
    BY <2>1, <2>2, ItemsInvNext, DrainedInvNext, ReasonsInvNext DEF IInv
  <2>. QED
    BY <2>1, <2>3 DEF IInv
<1>. QED
  BY <1>1, <1>2, PTL DEF Spec

\* Every variable keeps its type, and the channel its capacity.
THEOREM TypeCorrect == Spec => []TypeOK
<1>1. IInv => TypeOK
  BY DEF IInv, Typed
<1>. QED
  BY <1>1, Inductive, PTL

\* No send on, and no second close of, the closed channel, for any number of
\* pushes and closers (queue.go:84-95, 134-142, 165-176).
THEOREM NeverPanics == Spec => []NoPanic
<1>1. IInv => NoPanic
  BY DEF IInv, CloseInv, NoPanic, MuFree
<1>. QED
  BY <1>1, Inductive, PTL

\* Two runs never serve the queue at the same time (queue.go:229-250).
THEOREM RunsAlone == Spec => []ExclusiveRun
<1>1. IInv => ExclusiveRun
  BY DEF IInv, RunInv, ExclusiveRun
<1>. QED
  BY <1>1, Inductive, PTL

\* A recorded failure has canceled the active run or is about to, for any
\* number of runs that start and end around it (queue.go:204-216, 235-241).
THEOREM FailureReachesRun == Spec => []FailureDelivered
<1>1. IInv => FailureDelivered
  BY DEF IInv
<1>. QED
  BY <1>1, Inductive, PTL

\* A run that nothing canceled has drained the closed queue: a worker function
\* has returned from every item that was accepted, by any push, and no item will
\* be accepted any more (queue.go:257-289).
THEOREM CleanRunsDrain == Spec => []CleanRunDrained
<1>1. IInv => CleanRunDrained
  <2>1. IInv => RunInv /\ ItemsInv /\ DrainedInv
    BY DEF IInv
  <2>. QED
    BY <2>1, RunDrains DEF CleanRunDrained
<1>. QED
  BY <1>1, Inductive, PTL

\* A nil of Run is explained for any number of runs, workers and Drains: it
\* never comes from a Drain that waited for another run, and when nobody
\* canceled the run nothing is left (queue.go:111-129, 269-289).
THEOREM NilsExplained == Spec => []NilExplained
<1>1. IInv => NilExplained
  BY DEF IInv, ReasonsInv
<1>. QED
  BY <1>1, Inductive, PTL

\* The two together: no run ends without a reason, or for one of another run.
THEOREM RunsExplained == Spec => []RunExplained
<1>1. CleanRunDrained /\ NilExplained => RunExplained
  BY DEF RunExplained
<1>. QED
  BY <1>1, CleanRunsDrain, NilsExplained, PTL

\* No item is accepted after a Close has returned, whichever of the calls that
\* race it sealed the channel (queue.go:83-97).
THEOREM ClosesAreBarriers == Spec => CloseIsBarrier
<1>1. ASSUME IInv, [Next]_vars,
             \E c \in Closers : closer[c] \in {"closed", "snapshot", "wait", "nil", "ctx"}
      PROVE  Accepted' = Accepted
  <2>1. queueClosed
    BY <1>1 DEF IInv, BarrierInv
  <2>2. ItemStep
    BY <1>1, StepsOfItems DEF IInv
  <2>. QED
    BY <2>1, <2>2 DEF ItemStep, ItemsStay, Seals, Joins, TakenBy, LeftBy
<1>2. IInv /\ [Next]_vars
        => [(\E c \in Closers : closer[c] \in {"closed", "snapshot", "wait", "nil", "ctx"})
              => Accepted' = Accepted]_vars
  BY <1>1
<1>. QED
  BY <1>2, Inductive, PTL DEF Spec, CloseIsBarrier

\* The queue implements WorkQueue, whose backlog is the buffer of the channel
\* and which is sealed when the channel is closed: no item is lost, doubled or
\* overtaken, or accepted behind the seal.
THEOREM QueueKeepsPromise == Spec => PromiseKept
<1>1. Init => Promise!WInit
  BY DEF Init, Promise!WInit, Working
<1>2. ASSUME IInv, IInv', [Next]_vars PROVE [Promise!WNext]_(Promise!wvars)
  <2>1. ItemStep /\ ItemsInv /\ Typed
    BY <1>2, StepsOfItems DEF IInv
  <2>2. Working = Holding(held) /\ Working' = Holding(held')
    BY DEF Working, Holding
  <2>3. CASE ItemsStay
    BY <2>2, <2>3 DEF ItemsStay, Promise!wvars
  <2>4. CASE Seals
    <3>1. Promise!Seal
      BY <2>1, <2>2, <2>4 DEF Seals, Promise!Seal
    <3>. QED
      BY <3>1 DEF Promise!WNext
  <2>5. ASSUME NEW x \in Items, Joins(x) PROVE Promise!Accept(x)
    <3>1. x \notin Elements(queue) \cup Working \cup handled
      BY <2>1, <2>5 DEF Joins, ItemsInv
    <3>2. Promise!Waiting = Elements(queue)
      BY DEF Promise!Waiting, Elements
    <3>. QED
      BY <2>2, <2>5, <3>1, <3>2 DEF Joins, Room, Promise!Accept
  <2>6. ASSUME NEW g \in Runs \X Workers, TakenBy(g) PROVE Promise!Take
    <3>1. Working' = Working \cup {Head(queue)}
      BY <2>1, <2>2, <2>6, TakenIs
    <3>. QED
      BY <2>6, <3>1 DEF TakenBy, Promise!Take
  <2>7. ASSUME NEW g \in Runs \X Workers, LeftBy(g) PROVE held[g] \in Items /\ Promise!Finish(held[g])
    <3>1. held[g] \in Items /\ held[g] \in Working /\ Working' = Working \ {held[g]}
      BY <2>1, <2>2, <2>7, LeftIs
    <3>. QED
      BY <2>7, <3>1 DEF LeftBy, Promise!Finish
  <2>. QED
    BY <2>1, <2>3, <2>4, <2>5, <2>6, <2>7 DEF ItemStep, Promise!WNext
<1>. QED
  BY <1>1, <1>2, Inductive, PTL DEF Spec, PromiseKept, Promise!WSpec
=============================================================================

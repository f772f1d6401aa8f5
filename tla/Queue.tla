------------------------------- MODULE Queue -------------------------------
(***************************************************************************)
(* Queue[T] of queue.go: a bounded channel served by a pool of workers.    *)
(*                                                                         *)
(* Every call of the API is one member of a set of calls and is made at    *)
(* most once: a Push and a PushWait stand for the item they carry, a Close *)
(* and a Drain for the call, a run for one call of Run (or, when it is in  *)
(* Detached, of RunUntilClosed).  The bound on a behaviour is therefore    *)
(* the size of these sets.  A step is what the code does between two       *)
(* points at which another goroutine can interfere: the ends of critical   *)
(* sections, channel operations and reads of a context.                    *)
(***************************************************************************)
EXTENDS Naturals, Sequences, FiniteSets

CONSTANTS
    Pushes,         \* calls of Push, each with an item of its own
    PushWaits,      \* calls of PushWait, each with an item of its own
    Closes,         \* calls of Close
    Drains,         \* calls of Drain
    Runs,           \* calls of Run and of RunUntilClosed
    Detached,       \* the runs that are calls of RunUntilClosed
    Workers,        \* the worker goroutines of a run (QueueOptions.Workers)
    Size,           \* capacity of the channel (QueueOptions.Size)
    FailOnFull,     \* QueueOptions.FailOnFull
    None            \* no run, no item

Items == Pushes \cup PushWaits
Closers == Closes \cup Drains

ASSUME CallsAssumption ==
    /\ Pushes \cap PushWaits = {}
    /\ Closes \cap Drains = {}
    /\ Detached \subseteq Runs
    /\ None \notin Items \cup Runs

\* NewQueue replaces a size and a number of workers that are not positive.
ASSUME OptionsAssumption ==
    /\ Size \in Nat \ {0}
    /\ Workers # {}
    /\ FailOnFull \in BOOLEAN

VARIABLES
    closed,         \* q.closed
    pushWaitDone,   \* channel q.pushWaitDone is closed
    queueClosed,    \* channel q.queue is closed
    closeOnce,      \* state of q.closeOnce
    queue,          \* buffer of channel q.queue
    failure,        \* q.failure
    running,        \* run that q.running, q.cancel and q.done belong to
    push,           \* where each Push is, and in the end its result
    pushWait,       \* where each PushWait is, and in the end its result
    closer,         \* where each Close and Drain is
    run,            \* where each run is
    result,         \* error returned by a run
    ended,          \* PushWait and Drain calls whose ctx has ended
    parent,         \* state of the ctx given to each run
    cause,          \* context.Cause of the run's own context
    seen,           \* run a Drain found active
    target,         \* run a failing Push is about to cancel
    worker,         \* where each worker goroutine of a run is
    held,           \* item a worker function is called with
    handled         \* items whose worker function has returned

callVars == <<push, pushWait, closer, seen, target>>
chanVars == <<closed, pushWaitDone, queueClosed, closeOnce, queue>>
runVars  == <<running, run, result, parent, cause, worker, held, handled>>
vars == <<callVars, chanVars, runVars, failure, ended>>

-----------------------------------------------------------------------------
PushState == {"idle", "send", "fail", "cancel", "ok", "full", "closed"}
PushWaitState == {"idle", "lock", "check", "select", "ok", "closed", "ctx"}
CloserState == {"idle", "mark", "wake", "lock", "pending",
                "snapshot", "wait", "closed", "nil", "ctx"}
RunState == {"idle", "serve", "cause", "exit", "returned"}
Failure == {"none", "full"}
ParentState == {"live", "canceled", "custom", "deadline"}
Cause == {"none", "full", "worker", "workerCanceled", "canceled", "custom", "deadline"}
Result == {"none", "nil", "already", "full", "worker", "custom", "deadline"}
WorkerState == {"off", "loop", "work", "exited"}

Init ==
    /\ closed = FALSE
    /\ pushWaitDone = FALSE
    /\ queueClosed = FALSE
    /\ closeOnce = "new"
    /\ queue = << >>
    /\ failure = "none"
    /\ running = None
    /\ push = [p \in Pushes |-> "idle"]
    /\ pushWait = [p \in PushWaits |-> "idle"]
    /\ closer = [c \in Closers |-> "idle"]
    /\ run = [r \in Runs |-> "idle"]
    /\ result = [r \in Runs |-> "none"]
    /\ ended = {}
    /\ parent = [r \in Runs |-> "live"]
    /\ cause = [r \in Runs |-> "none"]
    /\ seen = [d \in Drains |-> None]
    /\ target = [p \in Pushes |-> None]
    /\ worker = [g \in Runs \X Workers |-> "off"]
    /\ held = [g \in Runs \X Workers |-> None]
    /\ handled = {}

-----------------------------------------------------------------------------
(* Locks, channels and contexts.                                           *)

\* Mutant: Push gives q.mu back before it sends.
MuAlwaysFree == TRUE

\* q.mu can be locked: no Push holds it for reading around its send.
MuFree == \A p \in Pushes : push[p] # "send"

\* PushWait calls that hold q.pushWaitMu for reading.
PushWaitReaders == {p \in PushWaits : pushWait[p] \in {"check", "select"}}

\* Mutant: Close closes the channel without q.pushWaitMu.
PushWaitMuIgnored == TRUE

\* q.pushWaitMu can be locked by the Close that waits for it.
PushWaitMuFree == PushWaitReaders = {}

\* A waiting writer keeps new readers of q.pushWaitMu out.
PushWaitMuOpen == \A c \in Closers : closer[c] # "pending"

\* The buffer of the channel has room for one more item.
Room == Len(queue) < Size

\* cancel(err) of a run's context: the first cause stays.
CancelRun(r, err) ==
    cause' = IF cause[r] = "none" THEN [cause EXCEPT ![r] = err] ELSE cause

\* context.Cause of a run's parent that has ended.
ParentCause(r) == parent[r]

\* parentCtx.Err() is context.Canceled, whatever the cause given.
ParentCanceled(r) == parent[r] \in {"canceled", "custom"}

-----------------------------------------------------------------------------
(* Push.                                                                   *)

\* A Push takes q.mu for reading and looks at q.closed.
PushBegin(p) ==
    /\ push[p] = "idle"
    /\ push' = [push EXCEPT ![p] = IF closed THEN "closed" ELSE "send"]
    /\ UNCHANGED <<pushWait, closer, seen, target, chanVars, runVars, failure, ended>>

\* The send that does not block, and the release of q.mu.
PushSend(p) ==
    /\ push[p] = "send"
    /\ \/ /\ Room
          /\ queue' = Append(queue, p)
          /\ push' = [push EXCEPT ![p] = "ok"]
       \/ /\ ~Room
          /\ queue' = queue
          /\ push' = [push EXCEPT ![p] = IF FailOnFull THEN "fail" ELSE "full"]
    /\ UNCHANGED <<pushWait, closer, seen, target, closed, pushWaitDone, queueClosed,
                   closeOnce, runVars, failure, ended>>

\* fail(ErrQueueFull): record the first failure and read q.cancel, under q.mu.
PushFail(p) ==
    /\ push[p] = "fail"
    /\ MuFree
    /\ IF failure # "none" \/ running = None
       THEN push' = [push EXCEPT ![p] = "full"] /\ target' = target
       ELSE /\ push' = [push EXCEPT ![p] = "cancel"]
            /\ target' = [target EXCEPT ![p] = running]
    /\ failure' = "full"
    /\ UNCHANGED <<pushWait, closer, seen, chanVars, runVars, ended>>

\* The rest of fail: cancel the run that was active, after q.mu is released.
PushCancel(p) ==
    /\ push[p] = "cancel"
    /\ CancelRun(target[p], "full")
    /\ push' = [push EXCEPT ![p] = "full"]
    /\ UNCHANGED <<pushWait, closer, seen, target, chanVars, running, run, result,
                   parent, worker, held, handled, failure, ended>>

-----------------------------------------------------------------------------
(* PushWait.                                                               *)

PushWaitStep(p, from, to) ==
    /\ pushWait[p] = from
    /\ pushWait' = [pushWait EXCEPT ![p] = to]
    /\ UNCHANGED <<push, closer, seen, target, closed, pushWaitDone, queueClosed,
                   closeOnce, runVars, failure, ended>>

\* A PushWait looks at ctx.Err() before it takes any lock.
PushWaitEnter(p) ==
    /\ PushWaitStep(p, "idle", IF p \in ended THEN "ctx" ELSE "lock")
    /\ UNCHANGED queue

\* It takes q.pushWaitMu for reading.
PushWaitLock(p) ==
    /\ PushWaitMuOpen
    /\ PushWaitStep(p, "lock", "check")
    /\ UNCHANGED queue

\* It reads q.closed under q.mu, which it gives back before the select.
PushWaitCheck(p) ==
    /\ PushWaitStep(p, "check", IF closed THEN "closed" ELSE "select")
    /\ UNCHANGED queue

\* Mutants: a select without the case for ctx, or for q.pushWaitDone.
PushWaitNoCase(p) == FALSE

\* The three cases of its select.
PushWaitSend(p) ==
    /\ Room
    /\ PushWaitStep(p, "select", "ok")
    /\ queue' = Append(queue, p)

PushWaitCtx(p) ==
    /\ p \in ended
    /\ PushWaitStep(p, "select", "ctx")
    /\ UNCHANGED queue

PushWaitWoken(p) ==
    /\ pushWaitDone
    /\ PushWaitStep(p, "select", "closed")
    /\ UNCHANGED queue

-----------------------------------------------------------------------------
(* Close, and Drain which begins with a Close.                             *)

\* What a call does once its Close is over.
AfterClose(c) == IF c \in Drains THEN "snapshot" ELSE "closed"

CloserStep(c, from, to) ==
    /\ closer[c] = from
    /\ closer' = [closer EXCEPT ![c] = to]
    /\ UNCHANGED <<push, pushWait, target, queue, running, run, result, parent,
                   worker, held, handled, failure, ended>>

\* Mutant: a flag instead of sync.Once, a second call does not wait.
OncePassedWhenBusy == TRUE

\* sync.Once lets the first call in, and the others when the first is done.
OncePassed == closeOnce \in {"new", "done"}

\* q.closeOnce: the first call closes, others wait until it has.
CloseEnter(c) ==
    /\ OncePassed
    /\ CloserStep(c, "idle", IF closeOnce = "new" THEN "mark" ELSE AfterClose(c))
    /\ closeOnce' = IF closeOnce = "new" THEN "busy" ELSE closeOnce
    /\ UNCHANGED <<closed, pushWaitDone, queueClosed, seen, cause>>

\* q.closed is set under q.mu, so after every Push that saw it unset has sent.
CloseMark(c) ==
    /\ MuFree
    /\ CloserStep(c, "mark", "wake")
    /\ closed' = TRUE
    /\ UNCHANGED <<pushWaitDone, queueClosed, closeOnce, seen, cause>>

\* close(q.pushWaitDone) wakes the PushWait calls that block in their select.
CloseWake(c) ==
    /\ CloserStep(c, "wake", "lock")
    /\ pushWaitDone' = TRUE
    /\ UNCHANGED <<closed, queueClosed, closeOnce, seen, cause>>

\* It asks for q.pushWaitMu, from then on new readers stay out.
CloseLock(c) ==
    /\ CloserStep(c, "lock", "pending")
    /\ UNCHANGED <<closed, pushWaitDone, queueClosed, closeOnce, seen, cause>>

\* It has q.pushWaitMu, closes the channel and completes q.closeOnce.
CloseSeal(c) ==
    /\ PushWaitMuFree
    /\ CloserStep(c, "pending", AfterClose(c))
    /\ queueClosed' = TRUE
    /\ closeOnce' = "done"
    /\ UNCHANGED <<closed, pushWaitDone, seen, cause>>

\* Drain reads the active run under q.mu, none means there is nothing to wait for.
DrainSnapshot(d) ==
    /\ MuFree
    /\ CloserStep(d, "snapshot", IF running = None THEN "nil" ELSE "wait")
    /\ seen' = [seen EXCEPT ![d] = running]
    /\ UNCHANGED <<closed, pushWaitDone, queueClosed, closeOnce, cause>>

\* The done channel of a run is closed.
DoneClosed(r) == run[r] = "returned"

\* The done channel of the run it found is closed.
DrainDone(d) ==
    /\ closer[d] = "wait"
    /\ DoneClosed(seen[d])
    /\ CloserStep(d, "wait", "nil")
    /\ UNCHANGED <<closed, pushWaitDone, queueClosed, closeOnce, seen, cause>>

\* Mutant: Drain reads q.cancel only when its ctx has ended.
FoundLate(d) == IF running = None THEN seen[d] ELSE running

\* The run that a Drain cancels.
Found(d) == seen[d]

\* Its ctx ended first: it cancels that run and does not wait for it.
DrainExpire(d) ==
    /\ d \in ended
    /\ closer[d] = "wait"
    /\ CloserStep(d, "wait", "ctx")
    /\ CancelRun(Found(d), "canceled")
    /\ UNCHANGED <<closed, pushWaitDone, queueClosed, closeOnce, seen>>

-----------------------------------------------------------------------------
(* Run and RunUntilClosed.                                                 *)

\* Mutants: run does not look at q.running, or at q.failure.
RefusalIfFailed == failure
RefusalIfRunning == IF running # None THEN "already" ELSE "none"

\* Why a run may not serve the queue ("none" when it may), read under q.mu.
Refusal == IF running # None THEN "already"
           ELSE IF failure # "none" THEN failure
           ELSE "none"

\* The prologue under q.mu, and the start of the worker goroutines.
RunBegin(r) ==
    /\ run[r] = "idle"
    /\ MuFree
    /\ IF Refusal = "none"
       THEN /\ running' = r
            /\ run' = [run EXCEPT ![r] = "serve"]
            /\ cause' = IF parent[r] = "live" THEN cause
                        ELSE [cause EXCEPT ![r] = ParentCause(r)]
            /\ worker' = [g \in Runs \X Workers |->
                             IF g[1] = r THEN "loop" ELSE worker[g]]
            /\ UNCHANGED result
       ELSE /\ run' = [run EXCEPT ![r] = "returned"]
            /\ result' = [result EXCEPT ![r] = Refusal]
            /\ UNCHANGED <<running, cause, worker>>
    /\ UNCHANGED <<callVars, chanVars, failure, ended, parent, held, handled>>

WorkerStep(g, from, to) ==
    /\ worker[g] = from
    /\ worker' = [worker EXCEPT ![g] = to]
    /\ UNCHANGED <<callVars, closed, pushWaitDone, queueClosed, closeOnce, running,
                   run, result, parent, failure, ended>>

\* Mutant: a select without the case for ctx.Done().
WorkerNoCase(g) == FALSE

\* The item a worker receives and gives to the worker function.
Received(g) == Head(queue)

\* The cases of the worker's select; several may be ready, any may be chosen.
WorkerStop(g) ==
    /\ cause[g[1]] # "none"
    /\ WorkerStep(g, "loop", "exited")
    /\ UNCHANGED <<queue, held, handled, cause>>

WorkerTake(g) ==
    /\ queue # << >>
    /\ WorkerStep(g, "loop", "work")
    /\ queue' = Tail(queue)
    /\ held' = [held EXCEPT ![g] = Received(g)]
    /\ UNCHANGED <<handled, cause>>

WorkerClosed(g) ==
    /\ queueClosed
    /\ queue = << >>
    /\ WorkerStep(g, "loop", "exited")
    /\ UNCHANGED <<queue, held, handled, cause>>

\* The worker function returns: with nil, or with an error that cancels the
\* run ("workerCanceled" is one for which errors.Is(err, context.Canceled) holds).
WorkerReturn(g, err) ==
    /\ WorkerStep(g, "work", IF err = "none" THEN "loop" ELSE "exited")
    /\ handled' = handled \cup {held[g]}
    /\ held' = [held EXCEPT ![g] = None]
    /\ IF err = "none" THEN cause' = cause ELSE CancelRun(g[1], err)
    /\ UNCHANGED queue

\* Mutant: the run waits for one worker only.
OneWorkerGone(r) == \E w \in Workers : worker[<<r, w>>] = "exited"

\* wg.Wait() returns.
WorkersGone(r) == \A w \in Workers : worker[<<r, w>>] = "exited"

\* wg.Wait() is over: a canceled parent means nil, or else the cause decides.
RunJoin(r) ==
    /\ run[r] = "serve"
    /\ WorkersGone(r)
    /\ IF ParentCanceled(r)
       THEN /\ run' = [run EXCEPT ![r] = "exit"]
            /\ result' = [result EXCEPT ![r] = "nil"]
       ELSE /\ run' = [run EXCEPT ![r] = "cause"]
            /\ result' = result
    /\ UNCHANGED <<callVars, chanVars, failure, ended, running, parent, cause,
                   worker, held, handled>>

\* What context.Cause says a run ends with.
Outcome(r) ==
    IF cause[r] \in {"none", "canceled", "workerCanceled"} THEN "nil" ELSE cause[r]

\* The cause is read after the parent was looked at.
RunCause(r) ==
    /\ run[r] = "cause"
    /\ run' = [run EXCEPT ![r] = "exit"]
    /\ result' = [result EXCEPT ![r] = Outcome(r)]
    /\ UNCHANGED <<callVars, chanVars, failure, ended, running, parent, cause,
                   worker, held, handled>>

\* The deferred epilogue: under q.mu the run stops being the active one and
\* its done channel is closed, then its context is canceled.
RunExit(r) ==
    /\ run[r] = "exit"
    /\ MuFree
    /\ running' = None
    /\ run' = [run EXCEPT ![r] = "returned"]
    /\ CancelRun(r, "canceled")
    /\ UNCHANGED <<callVars, chanVars, failure, ended, result, parent, worker, held,
                   handled>>

-----------------------------------------------------------------------------
(* The contexts the callers give.                                          *)

\* The ctx of a PushWait or of a Drain ends while the call can still see it.
CtxEnd(x) ==
    /\ x \notin ended
    /\ IF x \in PushWaits THEN pushWait[x] \notin {"ok", "closed", "ctx"}
                          ELSE closer[x] \notin {"nil", "ctx"}
    /\ ended' = ended \cup {x}
    /\ UNCHANGED <<callVars, chanVars, runVars, failure>>

\* The ctx of a Run ends: canceled, canceled with a cause, or at its deadline.
\* RunUntilClosed runs under context.WithoutCancel.
ParentEnd(r, how) ==
    /\ r \notin Detached
    /\ parent[r] = "live"
    /\ run[r] # "returned"
    /\ parent' = [parent EXCEPT ![r] = how]
    /\ UNCHANGED <<callVars, chanVars, failure, ended, running, run, result, cause,
                   worker, held, handled>>

\* The end of the parent reaches the run's context after it shows in parent.Err().
Propagate(r) ==
    /\ run[r] \in {"serve", "cause", "exit"}
    /\ parent[r] # "live"
    /\ cause[r] = "none"
    /\ CancelRun(r, ParentCause(r))
    /\ UNCHANGED <<callVars, chanVars, failure, ended, running, run, result, parent,
                   worker, held, handled>>

-----------------------------------------------------------------------------
PushNext(p) == PushBegin(p) \/ PushSend(p) \/ PushFail(p) \/ PushCancel(p)

PushWaitNext(p) ==
    \/ PushWaitEnter(p) \/ PushWaitLock(p) \/ PushWaitCheck(p)
    \/ PushWaitSend(p) \/ PushWaitCtx(p) \/ PushWaitWoken(p)

CloserNext(c) ==
    \/ CloseEnter(c) \/ CloseMark(c) \/ CloseWake(c) \/ CloseLock(c) \/ CloseSeal(c)

DrainNext(d) == DrainSnapshot(d) \/ DrainDone(d) \/ DrainExpire(d)

RunNext(r) == RunBegin(r) \/ RunJoin(r) \/ RunCause(r) \/ RunExit(r)

WorkerNext(g) ==
    \/ WorkerStop(g) \/ WorkerTake(g) \/ WorkerClosed(g)
    \/ \E err \in {"none", "worker", "workerCanceled"} : WorkerReturn(g, err)

Environment ==
    \/ \E x \in PushWaits \cup Drains : CtxEnd(x)
    \/ \E r \in Runs, how \in {"canceled", "custom", "deadline"} : ParentEnd(r, how)

\* Every call has returned and no context is left to end.
Quiescent ==
    /\ \A p \in Pushes : push[p] \in {"ok", "full", "closed"}
    /\ \A p \in PushWaits : pushWait[p] \in {"ok", "closed", "ctx"}
    /\ \A c \in Closers : closer[c] \in {"closed", "nil", "ctx"}
    /\ \A r \in Runs : run[r] = "returned"

Done == Quiescent /\ UNCHANGED vars

Next ==
    \/ \E p \in Pushes : PushNext(p)
    \/ \E p \in PushWaits : PushWaitNext(p)
    \/ \E c \in Closers : CloserNext(c)
    \/ \E d \in Drains : DrainNext(d)
    \/ \E r \in Runs : RunNext(r) \/ Propagate(r)
    \/ \E g \in Runs \X Workers : WorkerNext(g)
    \/ Environment
    \/ Done

Spec == Init /\ [][Next]_vars

\* A call that has begun goes on, a goroutine that can take a step takes one,
\* and worker functions return.  Nothing makes a caller call or a ctx end.
Fairness ==
    /\ \A p \in Pushes : WF_vars(PushSend(p) \/ PushFail(p) \/ PushCancel(p))
    /\ \A p \in PushWaits : WF_vars(PushWaitNext(p) /\ pushWait[p] # "idle")
    /\ \A c \in Closers : WF_vars(CloserNext(c) /\ closer[c] # "idle")
    /\ \A d \in Drains : WF_vars(DrainNext(d))
    /\ \A r \in Runs : WF_vars(RunJoin(r) \/ RunCause(r) \/ RunExit(r))
    /\ \A r \in Runs : WF_vars(Propagate(r))
    /\ \A g \in Runs \X Workers : WF_vars(WorkerNext(g))

FairSpec == Spec /\ Fairness

-----------------------------------------------------------------------------
(* Properties.                                                             *)

Accepted == {p \in Pushes : push[p] = "ok"} \cup {p \in PushWaits : pushWait[p] = "ok"}
Working == {held[g] : g \in Runs \X Workers} \ {None}

\* Calls of Close and Drain that are inside the function of q.closeOnce.
Closing == {c \in Closers : closer[c] \in {"mark", "wake", "lock", "pending"}}

\* Every variable keeps its type and the channel never exceeds its capacity
\* (make(chan T, opts.Size)).
TypeOK ==
    /\ {closed, pushWaitDone, queueClosed} \subseteq BOOLEAN
    /\ closeOnce \in {"new", "busy", "done"}
    /\ queue \in Seq(Items) /\ Len(queue) <= Size
    /\ failure \in Failure
    /\ running \in Runs \cup {None}
    /\ push \in [Pushes -> PushState]
    /\ pushWait \in [PushWaits -> PushWaitState]
    /\ closer \in [Closers -> CloserState]
    /\ run \in [Runs -> RunState]
    /\ result \in [Runs -> Result]
    /\ ended \subseteq PushWaits \cup Drains
    /\ parent \in [Runs -> ParentState]
    /\ cause \in [Runs -> Cause]
    /\ seen \in [Drains -> Runs \cup {None}]
    /\ target \in [Pushes -> Runs \cup {None}]
    /\ worker \in [Runs \X Workers -> WorkerState]
    /\ held \in [Runs \X Workers -> Items \cup {None}]
    /\ handled \subseteq Items

\* No panic on q.queue: once Close has closed the channel no Push and no
\* PushWait is at its send, and no other Close is on its way to close it again.
NoPanic ==
    queueClosed =>
        /\ \A p \in Pushes : push[p] # "send"
        /\ \A p \in PushWaits : pushWait[p] # "select"
        /\ Closing = {}

\* Only the run that q.running stands for has workers on the queue: Run refuses
\* to start beside another one, and gives way only when its workers are gone.
ExclusiveRun ==
    \A r \in Runs : (\E w \in Workers : worker[<<r, w>>] \in {"loop", "work"}) => running = r

\* The failure a full queue records is never lost between fail, which cancels
\* after it has released q.mu, and run, which looks at q.failure when it starts:
\* an active run is canceled or a Push is about to cancel exactly this run.
FailureDelivered ==
    failure # "none" /\ running # None =>
        \/ cause[running] # "none"
        \/ \E p \in Pushes : push[p] = "cancel" /\ target[p] = running

\* Every item that a Push or a PushWait was told is in the queue has been
\* through a worker function, and no other will be.
Drained == queueClosed /\ Accepted \subseteq handled

\* A run whose workers have exited although nothing canceled it (no parent, no
\* failure, no worker error, no Drain whose ctx ended) has drained a closed queue.
CleanRunDrained ==
    \A r \in Runs : run[r] \in {"cause", "exit"} /\ cause[r] = "none" => Drained

\* A Drain whose ctx ended while it waited for run r.
GaveUp(r) == \E d \in Drains : seen[d] = r /\ closer[d] = "ctx"

\* Run returns nil for four reasons only: its parent was canceled, a Drain that
\* found this run (and not an earlier one) gave up, a worker function returned an
\* error that is context.Canceled, or the closed queue is drained.
NilExplained ==
    \A r \in Runs :
        run[r] \in {"exit", "returned"} /\ result[r] = "nil" =>
            ParentCanceled(r) \/ GaveUp(r) \/ cause[r] = "workerCanceled" \/ Drained

\* No run ends without a reason, or for one that is another run's: a run whose
\* end nothing else explains leaves no item behind (run, fail, Drain).
RunExplained == CleanRunDrained /\ NilExplained

\* The queue does to its items what WorkQueue allows, whatever runs, workers
\* and closers do: none is lost, doubled, overtaken, or accepted after the seal.
Promise == INSTANCE WorkQueue WITH
    sealed <- queueClosed, backlog <- queue, working <- Working, done <- handled

PromiseKept == Promise!WSpec

\* Close is a barrier: after one call of Close has returned, or one Drain has
\* gone past its Close, no item is accepted any more, not even by a PushWait
\* that blocked before.
CloseIsBarrier ==
    [][ (\E c \in Closers : closer[c] \in {"closed", "snapshot", "wait", "nil", "ctx"})
        => Accepted' = Accepted ]_vars

\* Close and Drain return although PushWait calls are blocked on the full
\* channel, and Drain although its ctx never ends; and a PushWait does not stay
\* blocked after Close, nor after the end of its ctx, nor while a run serves.
CallsReturn ==
    /\ \A c \in Closers : closer[c] # "idle" ~> closer[c] \in {"closed", "nil", "ctx"}
    /\ \A p \in PushWaits :
         pushWait[p] \in {"lock", "check", "select"} /\ (closed \/ p \in ended)
            ~> pushWait[p] \in {"ok", "closed", "ctx"}
    /\ \A p \in PushWaits :
         pushWait[p] = "select" /\ running # None
            ~> pushWait[p] # "select" \/ running = None

\* A run ends after Close, after its context is canceled, and after a failure.
RunEnds ==
    \A r \in Runs :
        run[r] = "serve" /\ (queueClosed \/ cause[r] # "none" \/ failure # "none")
            ~> run[r] = "returned"
=============================================================================

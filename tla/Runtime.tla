------------------------------ MODULE Runtime ------------------------------
(***************************************************************************)
(* Runtime.Run of runtime.go with the Runner of runner.go: containers are  *)
(* initialized and then started in attachment order, their tasks run, and  *)
(* they are shut down in reverse order once the runtime's context ends.    *)
(*                                                                         *)
(* Four kinds of goroutines act: the one that called Run (main), the one   *)
(* that runs shutdown (shut), the tasks, and the callbacks of              *)
(* context.AfterFunc that carry the end of one context to another.  These  *)
(* callbacks are steps of their own, so that a context may have ended      *)
(* while the one that mirrors it is still live.                            *)
(***************************************************************************)
EXTENDS Naturals, Sequences

CONSTANTS
    N,              \* number of containers, numbered in attachment order
    Hooks,          \* how many hooks of each kind every container has
    Queued,         \* tasks registered during construction or by OnInit
    Immediate,      \* tasks registered once the container is starting
    Home,           \* container of each task
    HasDeadline,    \* the context given to Run has a deadline
    None            \* no error

Tasks == Queued \cup Immediate
Containers == 1..N
HookKind == {"init", "start", "stopping", "stop"}

ASSUME ContainersAssumption ==
    /\ N \in Nat \ {0}
    /\ Hooks \in [HookKind -> [Containers -> Nat]]

ASSUME TasksAssumption ==
    /\ Queued \cap Immediate = {}
    /\ Home \in [Tasks -> Containers]
    /\ HasDeadline \in BOOLEAN

\* An error says which hook (kind, container, number) or which task it is of.
HookErrors == HookKind \X Containers \X Nat
TaskErrors == {"task"} \X Tasks
WorkErrors == HookErrors \cup TaskErrors

ASSUME NoneAssumption == None \notin WorkErrors

VARIABLES
    parent,         \* ctx.Err() of the context given to Run
    late,           \* its deadline has passed
    ctx,            \* r.ctx.Err(), the context tasks and hooks see
    runnerDone,     \* the Runner has canceled its own context
    err,            \* Runner.err
    stopErr,        \* r.stopErr
    main,           \* where the goroutine of Run is
    phase,          \* which loop of Runtime.start it is in
    at,             \* container of that loop
    hook,           \* next hook of that container
    cstate,         \* Container.state of each container
    shut,           \* where Runtime.shutdown is
    down,           \* container it is at
    left,           \* hooks of the current kind it has yet to run
    first,          \* firstErr of Container.shutdown
    task,           \* where each task is
    failures,       \* errors of hooks and tasks that the Runner is given
    stopFailures,   \* errors of stopping and stop hooks, in order
    result          \* what Run returned

ctxVars  == <<parent, late, ctx, runnerDone>>
mainVars == <<main, phase, at, hook>>
shutVars == <<shut, down, left, first, stopErr, stopFailures>>
workVars == <<err, task, failures>>
vars == <<ctxVars, mainVars, shutVars, workVars, cstate, result>>

ContextState == {"live", "canceled", "deadline"}
Starting == {"idle", "loop", "hook", "work", "error", "cancel"}
MainState == Starting \cup {"wait", "shutdown", "returned", "panic"}
ShutState == {"new", "next", "stopping", "stop", "done"}
TaskState == {"idle", "running", "failing", "done"}
ContainerState == {"setup", "initializing", "initialized", "starting",
                   "running", "stopping", "stopped"}

Init ==
    /\ parent = "live"
    /\ late = FALSE
    /\ ctx = "live"
    /\ runnerDone = FALSE
    /\ err = None
    /\ stopErr = None
    /\ main = "idle"
    /\ phase = "init"
    /\ at = 1
    /\ hook = 1
    /\ cstate = [c \in Containers |-> "setup"]
    /\ shut = "new"
    /\ down = N
    /\ left = 0
    /\ first = None
    /\ task = [t \in Tasks |-> "idle"]
    /\ failures = {}
    /\ stopFailures = << >>
    /\ result = None

-----------------------------------------------------------------------------
(* The contexts.                                                           *)

\* The context given to Run is canceled, by its owner or by a signal.
ParentCancel ==
    /\ parent = "live"
    /\ parent' = "canceled"
    /\ UNCHANGED <<late, ctx, runnerDone, mainVars, shutVars, workVars, cstate, result>>

\* Its deadline passes ...
DeadlinePasses ==
    /\ HasDeadline /\ ~late
    /\ late' = TRUE
    /\ UNCHANGED <<parent, ctx, runnerDone, mainVars, shutVars, workVars, cstate, result>>

\* ... and the timers of the two contexts that have it fire in any order.
ParentDeadline ==
    /\ late /\ parent = "live"
    /\ parent' = "deadline"
    /\ UNCHANGED <<late, ctx, runnerDone, mainVars, shutVars, workVars, cstate, result>>

OwnDeadline ==
    /\ late /\ ctx = "live" /\ main # "idle"
    /\ ctx' = "deadline"
    /\ UNCHANGED <<parent, late, runnerDone, mainVars, shutVars, workVars, cstate, result>>

\* cancelTasks(): an end that came before stays.
Ended == IF ctx = "live" THEN "canceled" ELSE ctx

\* Mutant: r.ctx does not follow the Runner's context.
ParentOnly == parent # "live"

\* The Runner's context, a child of Run's, has ended.
RunnerEnded == runnerDone \/ parent # "live"

\* The callback of newRuntimeTaskContext on a parent that is canceled.
MirrorParent ==
    /\ main # "idle" /\ ctx = "live"
    /\ parent = "canceled"
    /\ ctx' = Ended
    /\ UNCHANGED <<parent, late, runnerDone, mainVars, shutVars, workVars, cstate, result>>

\* The callback of Run on the Runner's context.
MirrorRunner ==
    /\ main # "idle" /\ ctx = "live"
    /\ RunnerEnded
    /\ ctx' = Ended
    /\ UNCHANGED <<parent, late, runnerDone, mainVars, shutVars, workVars, cstate, result>>

-----------------------------------------------------------------------------
(* Startup: Runtime.start with Container.init and Container.start.         *)

\* Run makes its contexts; one whose deadline has passed has ended at once.
RunBegin ==
    /\ main = "idle"
    /\ main' = "loop"
    /\ ctx' = IF late THEN "deadline" ELSE "live"
    /\ UNCHANGED <<parent, late, runnerDone, phase, at, hook, shutVars, workVars, cstate, result>>

\* The state a container must be in for the phase, the one it has during
\* it, and the one it has after.
Before == IF phase = "init" THEN "setup" ELSE "initialized"
During == IF phase = "init" THEN "initializing" ELSE "starting"
After  == IF phase = "init" THEN "initialized" ELSE "running"

\* Mutant: the loops go on whatever became of r.ctx.
GoOnAlways == TRUE

\* r.ctx.Err() == nil, where the loops over the containers look at it.
GoOn == ctx = "live"

\* The loop enters init or start of the next container.
ContainerBegin ==
    /\ main = "loop" /\ at <= N /\ GoOn
    /\ IF cstate[at] = Before
         THEN /\ main' = "hook"
              /\ hook' = 1
              /\ cstate' = [cstate EXCEPT ![at] = During]
         ELSE /\ main' = "panic"
              /\ UNCHANGED <<hook, cstate>>
    /\ UNCHANGED <<phase, at, ctxVars, shutVars, workVars, result>>

\* All containers are initialized: the second loop begins.
InitsDone ==
    /\ main = "loop" /\ at = N + 1 /\ phase = "init" /\ GoOn
    /\ phase' = "start"
    /\ at' = 1
    /\ UNCHANGED <<main, hook, ctxVars, shutVars, workVars, cstate, result>>

\* Runtime.start returns and closes startupDone.
StartLeaves ==
    /\ main = "loop"
    /\ ~GoOn \/ (phase = "start" /\ at = N + 1)
    /\ main' = "wait"
    /\ UNCHANGED <<phase, at, hook, ctxVars, shutVars, workVars, cstate, result>>

\* init and start return nil when r.ctx has ended: on to the next container.
ContainerLeaves ==
    /\ main = "hook" /\ ctx # "live"
    /\ main' = "loop"
    /\ at' = at + 1
    /\ UNCHANGED <<phase, hook, ctxVars, shutVars, workVars, cstate, result>>

\* A hook begins ...
HookBegin ==
    /\ main = "hook" /\ ctx = "live" /\ hook <= Hooks[phase][at]
    /\ main' = "work"
    /\ UNCHANGED <<phase, at, hook, ctxVars, shutVars, workVars, cstate, result>>

\* ... and returns, with an error or without.
HookReturn(ok) ==
    /\ main = "work"
    /\ IF ok THEN main' = "hook" /\ hook' = hook + 1
             ELSE main' = "error" /\ UNCHANGED hook
    /\ UNCHANGED <<phase, at, ctxVars, shutVars, workVars, cstate, result>>

\* After the last hook the container is initialized, or running with the
\* tasks that were registered before.
ContainerDone ==
    /\ main = "hook" /\ ctx = "live" /\ hook > Hooks[phase][at]
    /\ main' = "loop"
    /\ at' = at + 1
    /\ cstate' = [cstate EXCEPT ![at] = After]
    /\ task' = [t \in Tasks |->
                  IF phase = "start" /\ t \in Queued /\ Home[t] = at
                    THEN "running" ELSE task[t]]
    /\ UNCHANGED <<phase, hook, ctxVars, shutVars, err, failures, result>>

\* A startup error counts only while r.ctx is live.
StartupError ==
    /\ main = "error"
    /\ main' = IF ctx = "live" THEN "cancel" ELSE "wait"
    /\ UNCHANGED <<phase, at, hook, ctxVars, shutVars, workVars, cstate, result>>

\* errOnce.Do of the Runner: the first error stays.
Record(e) == err' = IF err = None THEN e ELSE err

\* Runner.Cancel with that error, after which Runtime.start returns.
StartupCancel ==
    /\ main = "cancel"
    /\ LET e == <<phase, at, hook>>
       IN /\ Record(e)
          /\ failures' = failures \cup {e}
    /\ runnerDone' = TRUE
    /\ main' = "wait"
    /\ UNCHANGED <<parent, late, ctx, phase, at, hook, shutVars, task, cstate, result>>

-----------------------------------------------------------------------------
(* Tasks: Container.Run, startTaskLocked and Runner.Run.                   *)

\* Container.Run launches a task and does not panic.
Open(c) == cstate[c] = "starting"

\* A start hook, or a task that runs already, registers a task with a
\* container that is starting; it is launched at once.
Launch(t) ==
    /\ task[t] = "idle"
    /\ Open(Home[t])
    /\ (main = "work" /\ at = Home[t]) \/ \E u \in Tasks : task[u] = "running"
    /\ task' = [task EXCEPT ![t] = "running"]
    /\ UNCHANGED <<ctxVars, mainVars, shutVars, err, failures, cstate, result>>

\* What a task can return: context.Canceled is an error of its own kind.
Outcome == {"nil", "canceled", "fail"}

\* context.Canceled counts as an error only while r.ctx is live.
Counts(o) == o = "fail" \/ (o = "canceled" /\ ctx = "live")

\* The task returns: stopTask, wg.Done of the container, and, when there is
\* no error, the end of the Runner's goroutine.
TaskReturn(t, o) ==
    /\ task[t] = "running"
    /\ task' = [task EXCEPT ![t] = IF Counts(o) THEN "failing" ELSE "done"]
    /\ failures' = IF Counts(o) THEN failures \cup {<<"task", t>>} ELSE failures
    /\ UNCHANGED <<err, ctxVars, mainVars, shutVars, cstate, result>>

\* The Runner records the error and cancels its context.
TaskRecord(t) ==
    /\ task[t] = "failing"
    /\ task' = [task EXCEPT ![t] = "done"]
    /\ Record(<<"task", t>>)
    /\ runnerDone' = TRUE
    /\ UNCHANGED <<parent, late, ctx, mainVars, shutVars, failures, cstate, result>>

\* Mutant: Wait looks at the containers' wait groups.
AllReturned == \A t \in Tasks : task[t] # "running"

\* The Runner's wait group is at zero.
AllDone == \A t \in Tasks : task[t] \in {"idle", "done"}

\* Runner.Wait returns, which ends the Runner's context, and then Run calls
\* cancelTasks.
Wait ==
    /\ main = "wait" /\ AllDone
    /\ main' = "shutdown"
    /\ runnerDone' = TRUE
    /\ ctx' = Ended
    /\ UNCHANGED <<parent, late, phase, at, hook, shutVars, workVars, cstate, result>>

-----------------------------------------------------------------------------
(* Shutdown: Runtime.shutdown, once, with Container.shutdown.              *)

\* Mutant: shutdown does not wait for startup.
StartupIgnored == main # "idle"

\* startupDone is closed.
StartupDone == main \in {"wait", "shutdown", "returned"}

\* r.ctx has ended, so that its callback, or else Run itself, calls shutdown.
ShutdownBegin ==
    /\ shut = "new" /\ ctx # "live" /\ StartupDone
    /\ shut' = "next"
    /\ UNCHANGED <<down, left, first, stopErr, stopFailures,
                   ctxVars, mainVars, workVars, cstate, result>>

\* Mutant: a container that is not running is passed over.
PassOverUnstarted(c) == cstate[c] \notin {"running", "starting"}

\* Container.shutdown returns at once.
PassOver(c) == cstate[c] \in {"setup", "stopped"}

SkipContainer ==
    /\ shut = "next" /\ down > 0 /\ PassOver(down)
    /\ down' = down - 1
    /\ UNCHANGED <<shut, left, first, stopErr, stopFailures,
                   ctxVars, mainVars, workVars, cstate, result>>

ContainerStopping ==
    /\ shut = "next" /\ down > 0 /\ ~PassOver(down)
    /\ shut' = "stopping"
    /\ left' = Hooks["stopping"][down]
    /\ first' = None
    /\ cstate' = [cstate EXCEPT ![down] = "stopping"]
    /\ UNCHANGED <<down, stopErr, stopFailures, ctxVars, mainVars, workVars, result>>

\* The loop over the hooks has one to run.
HookLeft == left > 0

\* A stopping or stop hook runs, the last one first; after an error the
\* others run all the same.
StopHook(ok) ==
    /\ shut \in {"stopping", "stop"} /\ HookLeft
    /\ left' = left - 1
    /\ LET e == <<shut, down, left>>
       IN IF ok THEN UNCHANGED <<first, stopFailures>>
          ELSE /\ first' = IF first = None THEN e ELSE first
               /\ stopFailures' = Append(stopFailures, e)
    /\ UNCHANGED <<shut, down, stopErr, ctxVars, mainVars, workVars, cstate, result>>

\* Mutant: the stop hooks do not wait for the tasks.
TasksIgnored(c) == c = down

\* The container's wait group is at zero.
TasksGone(c) == \A t \in Tasks : Home[t] = c => task[t] # "running"

\* c.wg.Wait() returns.
TasksExited ==
    /\ shut = "stopping" /\ left = 0 /\ TasksGone(down)
    /\ shut' = "stop"
    /\ left' = Hooks["stop"][down]
    /\ UNCHANGED <<down, first, stopErr, stopFailures,
                   ctxVars, mainVars, workVars, cstate, result>>

\* The container is stopped, and its error kept if it is the first.
ContainerStopped ==
    /\ shut = "stop" /\ left = 0
    /\ shut' = "next"
    /\ down' = down - 1
    /\ cstate' = [cstate EXCEPT ![down] = "stopped"]
    /\ stopErr' = IF stopErr = None THEN first ELSE stopErr
    /\ UNCHANGED <<left, first, stopFailures, ctxVars, mainVars, workVars, result>>

ShutdownDone ==
    /\ shut = "next" /\ down = 0
    /\ shut' = "done"
    /\ UNCHANGED <<down, left, first, stopErr, stopFailures,
                   ctxVars, mainVars, workVars, cstate, result>>

\* shutdownOnce.Do has returned, and Run returns: an error of startup or of a task goes before one of a stop hook.
Return ==
    /\ main = "shutdown" /\ shut = "done"
    /\ main' = "returned"
    /\ result' = IF err # None THEN err ELSE stopErr
    /\ UNCHANGED <<phase, at, hook, ctxVars, shutVars, workVars, cstate>>

-----------------------------------------------------------------------------
Startup ==
    \/ RunBegin
    \/ ContainerBegin
    \/ InitsDone
    \/ StartLeaves
    \/ ContainerLeaves
    \/ HookBegin
    \/ \E ok \in BOOLEAN : HookReturn(ok)
    \/ ContainerDone
    \/ StartupError
    \/ StartupCancel

Main == Startup \/ Wait \/ Return

Shutdown ==
    \/ ShutdownBegin
    \/ SkipContainer
    \/ ContainerStopping
    \/ \E ok \in BOOLEAN : StopHook(ok)
    \/ TasksExited
    \/ ContainerStopped
    \/ ShutdownDone

Environment == ParentCancel \/ DeadlinePasses

Finished == main = "returned" /\ UNCHANGED vars

Next ==
    \/ Main
    \/ Shutdown
    \/ Environment
    \/ ParentDeadline
    \/ OwnDeadline
    \/ MirrorParent
    \/ MirrorRunner
    \/ \E t \in Immediate : Launch(t)
    \/ \E t \in Tasks, o \in Outcome : TaskReturn(t, o)
    \/ \E t \in Tasks : TaskRecord(t)
    \/ Finished

Spec == Init /\ [][Next]_vars

\* The tasks of the container are told by its stopping hooks, and wait for
\* nothing else.
Told(t) == shut = "stopping" /\ left = 0 /\ down = Home[t]

\* Hooks return, callbacks and timers fire, and a task returns once its
\* container's stopping hooks have run.
FairSpec ==
    /\ Spec
    /\ WF_vars(Startup /\ main # "idle")
    /\ WF_vars(Wait)
    /\ WF_vars(Return)
    /\ WF_vars(Shutdown)
    /\ WF_vars(MirrorRunner)
    /\ \A t \in Tasks :
         /\ WF_vars(Told(t) /\ \E o \in Outcome : TaskReturn(t, o))
         /\ WF_vars(TaskRecord(t))

-----------------------------------------------------------------------------
(* Properties.                                                             *)

TypeOK ==
    /\ parent \in ContextState
    /\ late \in BOOLEAN
    /\ ctx \in ContextState
    /\ runnerDone \in BOOLEAN
    /\ err \in WorkErrors \cup {None}
    /\ stopErr \in HookErrors \cup {None}
    /\ main \in MainState
    /\ phase \in {"init", "start"}
    /\ at \in 1..(N + 1)
    /\ hook \in Nat
    /\ cstate \in [Containers -> ContainerState]
    /\ shut \in ShutState
    /\ down \in 0..N
    /\ left \in Nat
    /\ first \in HookErrors \cup {None}
    /\ task \in [Tasks -> TaskState]
    /\ failures \subseteq WorkErrors
    /\ stopFailures \in Seq(HookErrors)
    /\ result \in WorkErrors \cup {None}

\* The panics of Container.init and Container.start on a container in the
\* wrong state cannot happen in Run, however its contexts end.
NeverPanics == main # "panic"

\* No container is being stopped while a startup hook of any container may
\* still be running (the comment in Runtime.shutdown).
StartupBeforeStop ==
    main \in Starting => \A c \in Containers : cstate[c] \notin {"stopping", "stopped"}

\* A container is started after all are initialized, and after the ones
\* attached before it are running (Runtime.start).
StartOrder ==
    shut = "new" =>
        \A c \in Containers : cstate[c] \in {"starting", "running"} =>
            \A d \in Containers :
                /\ cstate[d] \notin {"setup", "initializing"}
                /\ d < c => cstate[d] = "running"

\* While a container is up or one of its tasks runs, the containers attached
\* before it, on which it may depend, are not being stopped.
StopOrder ==
    \A c, d \in Containers :
        d < c /\ cstate[d] \in {"stopping", "stopped"} =>
            /\ cstate[c] \in {"setup", "stopped"}
            /\ \A t \in Tasks : Home[t] = c => task[t] # "running"

\* The stop hooks of a container run when its tasks have exited, and none
\* starts later ("state is safe to finalize").
TasksBeforeStop ==
    \A t \in Tasks :
        (shut = "stop" /\ down = Home[t]) \/ cstate[Home[t]] = "stopped"
            => task[t] # "running"

\* The order that the comment of Run promises, at every moment of the life of
\* the containers and their tasks.
InOrder == StartOrder /\ StopOrder /\ TasksBeforeStop

\* Run returns an error of startup or of a task if there was any, else the
\* first error of a stopping or stop hook, else nil.
ReportsFirst ==
    main = "returned" =>
        /\ failures # {} => result \in failures
        /\ failures = {} /\ stopFailures # << >> => result = stopFailures[1]
        /\ failures = {} /\ stopFailures = << >> => result = None

\* When Run returns, nothing it launched is left and every container it
\* touched is stopped.
CleanReturn ==
    main = "returned" =>
        /\ \A t \in Tasks : task[t] \in {"idle", "done"}
        /\ \A c \in Containers : cstate[c] \in {"setup", "stopped"}

\* Run returns once its context, a failure, or the end of all its work asks
\* it to, if tasks return when they are told to stop.
RunReturns ==
    (main # "idle" /\ (\/ parent # "live" \/ ctx # "live" \/ err # None
                       \/ main = "wait" /\ \A t \in Tasks : task[t] = "done"))
        ~> main = "returned"

\* What the comment in Runtime.start says: an error of startup does not count
\* once the parent context has caused cancellation.
ParentCauseKept ==
    [][main = "error" /\ main' = "cancel" => parent = "live"]_vars
=============================================================================

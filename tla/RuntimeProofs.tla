--------------------------- MODULE RuntimeProofs ---------------------------
(***************************************************************************)
(* The safety properties of Runtime, for every number of containers, hooks *)
(* and tasks.  The types need one fact more (Bounds), the other properties *)
(* the invariant IInv, whose parts say where the two loops of startup are  *)
(* (Progress), where shutdown is (Unwound), which tasks can run            *)
(* (TasksHoused) and which error is on its way (Reported).                 *)
(***************************************************************************)
EXTENDS Runtime, TLAPS

\* The indices point at a container where the code uses them.
Bounds ==
    /\ main \in {"hook", "work", "error", "cancel"} => at \in Containers
    /\ shut \in {"stopping", "stop"} => down \in Containers

Typed == TypeOK /\ Bounds

LEMMA TypedInit == Init => Typed
<1> SUFFICES ASSUME Init PROVE Typed
  OBVIOUS
<1> USE DEF Init
<1>1. /\ cstate \in [Containers -> ContainerState]
      /\ task \in [Tasks -> TaskState]
  BY DEF ContainerState, TaskState
<1>2. at \in 1..(N + 1) /\ down \in 0..N /\ hook \in Nat /\ left \in Nat
  BY ContainersAssumption
<1>3. stopFailures \in Seq(HookErrors)
  OBVIOUS
<1>. QED
  BY <1>1, <1>2, <1>3
  DEF Typed, TypeOK, Bounds, ContextState, MainState, Starting, ShutState

USE DEF ContextState, MainState, Starting, ShutState, TaskState, ContainerState

LEMMA TypedStartup == Typed /\ Startup => Typed'
<1> SUFFICES ASSUME Typed, Startup PROVE Typed'
  OBVIOUS
<1> USE ContainersAssumption, TasksAssumption
    DEF Typed, TypeOK, Bounds, vars, ctxVars, mainVars, shutVars, workVars
<1>1. CASE RunBegin
  BY <1>1 DEF RunBegin
<1>2. CASE ContainerBegin
  BY <1>2 DEF ContainerBegin, During, Before, GoOn, Containers
<1>3. CASE InitsDone
  BY <1>3 DEF InitsDone
<1>4. CASE StartLeaves
  BY <1>4 DEF StartLeaves
<1>5. CASE ContainerLeaves
  BY <1>5 DEF ContainerLeaves, Containers
<1>6. CASE HookBegin
  BY <1>6 DEF HookBegin
<1>7. CASE \E ok \in BOOLEAN : HookReturn(ok)
  BY <1>7 DEF HookReturn
<1>8. CASE ContainerDone
  BY <1>8 DEF ContainerDone, After, Containers
<1>9. CASE StartupError
  BY <1>9 DEF StartupError
<1>10. CASE StartupCancel
  <2>1. <<phase, at, hook>> \in HookErrors
    BY <1>10 DEF StartupCancel, HookErrors, HookKind
  <2>2. <<phase, at, hook>> \in WorkErrors
    BY <2>1 DEF WorkErrors
  <2>3. failures' \subseteq WorkErrors
    BY <1>10, <2>2 DEF StartupCancel, Record
  <2>. QED
    BY <1>10, <2>3 DEF StartupCancel, Record
<1>. QED
  BY <1>1, <1>2, <1>3, <1>4, <1>5, <1>6, <1>7, <1>8, <1>9, <1>10 DEF Startup

LEMMA TypedShutdown == Typed /\ Shutdown => Typed'
<1> SUFFICES ASSUME Typed, Shutdown PROVE Typed'
  OBVIOUS
<1> USE ContainersAssumption, TasksAssumption
    DEF Typed, TypeOK, Bounds, vars, ctxVars, mainVars, shutVars, workVars
<1>1. CASE ShutdownBegin
  BY <1>1 DEF ShutdownBegin
<1>2. CASE SkipContainer
  BY <1>2 DEF SkipContainer
<1>3. CASE ContainerStopping
  <2>1. down \in Containers
    BY <1>3 DEF ContainerStopping, Containers
  <2>2. Hooks["stopping"][down] \in Nat
    BY <2>1 DEF HookKind
  <2>. QED
    BY <1>3, <2>1, <2>2 DEF ContainerStopping
<1>4. CASE \E ok \in BOOLEAN : StopHook(ok)
  <2>1. PICK ok \in BOOLEAN : StopHook(ok)
    BY <1>4
  <2>2. <<shut, down, left>> \in HookErrors
    BY <2>1 DEF StopHook, HookErrors, HookKind
  <2>3. Append(stopFailures, <<shut, down, left>>) \in Seq(HookErrors)
    BY <2>2
  <2>4. stopFailures' \in Seq(HookErrors) /\ first' \in HookErrors \cup {None}
    BY <2>1, <2>2, <2>3 DEF StopHook
  <2>. QED
    BY <2>1, <2>4 DEF StopHook, HookLeft
<1>5. CASE TasksExited
  BY <1>5 DEF TasksExited, HookKind
<1>6. CASE ContainerStopped
  BY <1>6 DEF ContainerStopped, Containers
<1>7. CASE ShutdownDone
  BY <1>7 DEF ShutdownDone
<1>. QED
  BY <1>1, <1>2, <1>3, <1>4, <1>5, <1>6, <1>7 DEF Shutdown

LEMMA TypedTasks ==
    ASSUME Typed, NEW t \in Tasks,
           Launch(t) \/ (\E o \in Outcome : TaskReturn(t, o)) \/ TaskRecord(t)
    PROVE  Typed'
<1> USE ContainersAssumption, TasksAssumption
    DEF Typed, TypeOK, Bounds, vars, ctxVars, mainVars, shutVars, workVars
<1>1. <<"task", t>> \in WorkErrors
  BY DEF WorkErrors, TaskErrors
<1>2. CASE Launch(t)
  BY <1>2 DEF Launch
<1>3. CASE \E o \in Outcome : TaskReturn(t, o)
  <2>1. PICK o \in Outcome : TaskReturn(t, o)
    BY <1>3
  <2>2. failures' \subseteq WorkErrors
    BY <1>1, <2>1 DEF TaskReturn
  <2>3. task' \in [Tasks -> TaskState]
    BY <2>1 DEF TaskReturn
  <2>. QED
    BY <2>1, <2>2, <2>3 DEF TaskReturn
<1>4. CASE TaskRecord(t)
  BY <1>1, <1>4 DEF TaskRecord, Record
<1>. QED
  BY <1>2, <1>3, <1>4

\* The steps that end or mirror a context.
Contexts ==
    ParentCancel \/ DeadlinePasses \/ ParentDeadline \/ OwnDeadline
    \/ MirrorParent \/ MirrorRunner

LEMMA TypedRest == Typed /\ (Contexts \/ Wait \/ Return \/ UNCHANGED vars) => Typed'
<1> SUFFICES ASSUME Typed, Contexts \/ Wait \/ Return \/ UNCHANGED vars PROVE Typed'
  OBVIOUS
<1> USE DEF Typed, TypeOK, Bounds, vars, ctxVars, mainVars, shutVars, workVars
<1>1. CASE Contexts
  <2>1. /\ parent' \in ContextState
        /\ late' \in BOOLEAN
        /\ ctx' \in ContextState
    BY <1>1 DEF Contexts, ParentCancel, DeadlinePasses, ParentDeadline, OwnDeadline,
                MirrorParent, MirrorRunner, Ended
  <2>2. UNCHANGED <<runnerDone, mainVars, shutVars, workVars, cstate, result>>
    BY <1>1 DEF Contexts, ParentCancel, DeadlinePasses, ParentDeadline, OwnDeadline,
                MirrorParent, MirrorRunner
  <2>. QED
    BY <2>1, <2>2
<1>2. CASE Wait
  BY <1>2 DEF Wait, Ended
<1>3. CASE Return
  BY <1>3 DEF Return, WorkErrors
<1>4. CASE UNCHANGED vars
  BY <1>4
<1>. QED
  BY <1>1, <1>2, <1>3, <1>4

\* Next, grouped as the lemmas of this module treat it.
LEMMA NextCases ==
    Next => \/ Startup
            \/ Shutdown
            \/ Contexts \/ Wait \/ Return \/ UNCHANGED vars
            \/ \E t \in Tasks : \/ t \in Immediate /\ Launch(t)
                                \/ \E o \in Outcome : TaskReturn(t, o)
                                \/ TaskRecord(t)
  BY DEF Next, Main, Environment, Finished, Contexts, Tasks

LEMMA TypedNext == Typed /\ [Next]_vars => Typed'
  BY NextCases, TypedStartup, TypedShutdown, TypedTasks, TypedRest

\* Every variable keeps its type (the state of runtime.go).
THEOREM TypeCorrect == Spec => []TypeOK
<1>1. Spec => []Typed
  BY TypedInit, TypedNext, PTL DEF Spec
<1>2. Typed => TypeOK
  BY DEF Typed
<1>. QED
  BY <1>1, <1>2, PTL

-----------------------------------------------------------------------------
(* The invariant.                                                          *)

Down(c) == cstate[c] \in {"stopping", "stopped"}
Gone(c) == cstate[c] \in {"setup", "stopped"}

\* While r.ctx is live the loops of startup have done the containers before
\* at, and not touched the ones after it.
Progress ==
    /\ main = "idle" =>
         ctx = "live" /\ phase = "init" /\ at = 1 /\ \A c \in Containers : cstate[c] = "setup"
    /\ ctx = "live" /\ main \in {"loop", "hook", "work"} =>
         \A c \in Containers :
            /\ c < at => cstate[c] = After
            /\ c > at => cstate[c] = Before
            /\ c = at => cstate[c] = IF main = "loop" THEN Before ELSE During

\* Shutdown comes after startup and has stopped the containers above down.
Unwound ==
    /\ shut # "new" => ctx # "live" /\ main \notin Starting \cup {"panic"}
    /\ shut = "new" => down = N /\ \A c \in Containers : ~Down(c)
    /\ shut # "new" => \A c \in Containers : (c > down => Gone(c)) /\ (c < down => ~Down(c))
    /\ shut = "next" => \A c \in Containers : c = down => ~Down(c)
    /\ shut \in {"stopping", "stop"} => cstate[down] = "stopping"
    /\ shut = "done" => down = 0

\* A task runs in a container that has begun to start, and not beside its
\* stop hooks.
TasksHoused ==
    \A t \in Tasks : task[t] = "running" =>
        /\ cstate[Home[t]] \in {"starting", "running", "stopping"}
        /\ ~(shut = "stop" /\ down = Home[t])

\* A task is launched once its container starts, a queued one when the
\* container is running.
Unlaunched ==
    \A t \in Tasks :
        /\ cstate[Home[t]] \in {"setup", "initializing", "initialized"} => task[t] = "idle"
        /\ cstate[Home[t]] = "starting" /\ t \in Queued => task[t] = "idle"

\* An error that counts is recorded, or its task is about to record it.
Reported ==
    /\ err # None => err \in failures
    /\ failures # {} /\ err = None => \E t \in Tasks : task[t] = "failing"
    /\ \A t \in Tasks : task[t] = "failing" => <<"task", t>> \in failures

\* The first error of the hooks of shutdown is recorded, or is the one of the
\* container that is being stopped.
StopReported ==
    /\ stopFailures = << >> => stopErr = None /\ first = None
    /\ stopFailures # << >> =>
         \/ stopErr = stopFailures[1]
         \/ stopErr = None /\ first = stopFailures[1] /\ shut \in {"stopping", "stop"}

\* What Run has waited for when it returns.
Waited ==
    /\ main \in {"shutdown", "returned"} => \A t \in Tasks : task[t] \in {"idle", "done"}
    /\ main = "returned" => shut = "done" /\ result = IF err # None THEN err ELSE stopErr

IInv ==
    Typed /\ NeverPanics /\ Progress /\ Unwound /\ StartOrder /\ TasksHoused
    /\ Unlaunched /\ Reported /\ StopReported /\ Waited

LEMMA IInvInit == Init => IInv
<1> SUFFICES ASSUME Init PROVE IInv
  OBVIOUS
<1>1. Typed
  BY TypedInit
<1>2. NeverPanics /\ Progress /\ Unwound /\ StartOrder
  BY DEF Init, NeverPanics, Progress, Unwound, StartOrder, Down, Containers
<1>3. TasksHoused /\ Unlaunched /\ Reported /\ StopReported /\ Waited
  BY DEF Init, TasksHoused, Unlaunched, Reported, StopReported, Waited
<1>. QED
  BY <1>1, <1>2, <1>3 DEF IInv

\* What a step of each group leaves alone.
LEMMA ContextsFrame ==
    Contexts => /\ UNCHANGED <<runnerDone, mainVars, shutVars, workVars, cstate, result>>
                /\ ctx # "live" => ctx' = ctx
                /\ main = "idle" => ctx' = ctx
  BY DEF Contexts, ParentCancel, DeadlinePasses, ParentDeadline, OwnDeadline,
         MirrorParent, MirrorRunner, Ended

LEMMA StartupFrame ==
    Startup => /\ main \in Starting
               /\ UNCHANGED <<parent, late, shutVars, result>>
               /\ main # "idle" => UNCHANGED ctx
  BY DEF Startup, RunBegin, ContainerBegin, InitsDone, StartLeaves, ContainerLeaves,
         HookBegin, HookReturn, ContainerDone, StartupError, StartupCancel,
         ctxVars, mainVars, shutVars, workVars

LEMMA ShutdownFrame ==
    Shutdown => /\ UNCHANGED <<ctxVars, mainVars, workVars, result>>
                /\ shut = "new" => main \notin Starting \cup {"panic"}
                /\ shut' # "new"
  BY DEF Shutdown, ShutdownBegin, SkipContainer, ContainerStopping, StopHook,
         TasksExited, ContainerStopped, ShutdownDone, StartupDone,
         ctxVars, mainVars, shutVars, workVars

\* A step of a task.
TaskStep(t) ==
    (t \in Immediate /\ Launch(t)) \/ (\E o \in Outcome : TaskReturn(t, o)) \/ TaskRecord(t)

LEMMA TaskFrame ==
    ASSUME NEW t \in Tasks, TaskStep(t)
    PROVE  UNCHANGED <<parent, late, ctx, mainVars, shutVars, cstate, result>>
  BY DEF TaskStep, Launch, TaskReturn, TaskRecord, ctxVars, mainVars, shutVars, workVars

-----------------------------------------------------------------------------
(* Its parts are preserved.                                                *)

LEMMA ProgressStartup == IInv /\ Startup => (NeverPanics /\ Progress /\ StartOrder)'
<1> SUFFICES ASSUME IInv, Startup PROVE (NeverPanics /\ Progress /\ StartOrder)'
  OBVIOUS
<1>0. Typed /\ shut = "new" /\ shut' = shut
  BY StartupFrame DEF IInv, Unwound, shutVars
<1> USE <1>0, ContainersAssumption
    DEF IInv, Typed, TypeOK, Bounds, NeverPanics, Progress, StartOrder, Containers,
        Before, During, After, ctxVars, mainVars, shutVars, workVars
<1>1. CASE RunBegin
  BY <1>1 DEF RunBegin
<1>2. CASE ContainerBegin
  BY <1>2 DEF ContainerBegin, GoOn
<1>3. CASE InitsDone
  BY <1>3 DEF InitsDone, GoOn
<1>4. CASE StartLeaves
  BY <1>4 DEF StartLeaves
<1>5. CASE ContainerLeaves
  BY <1>5 DEF ContainerLeaves
<1>6. CASE HookBegin
  BY <1>6 DEF HookBegin
<1>7. CASE \E ok \in BOOLEAN : HookReturn(ok)
  BY <1>7 DEF HookReturn
<1>8. CASE ContainerDone
  BY <1>8 DEF ContainerDone
<1>9. CASE StartupError
  BY <1>9 DEF StartupError
<1>10. CASE StartupCancel
  BY <1>10 DEF StartupCancel
<1>. QED
  BY <1>1, <1>2, <1>3, <1>4, <1>5, <1>6, <1>7, <1>8, <1>9, <1>10 DEF Startup

LEMMA ProgressNext == IInv /\ [Next]_vars => (NeverPanics /\ Progress /\ StartOrder)'
<1> SUFFICES ASSUME IInv, [Next]_vars PROVE (NeverPanics /\ Progress /\ StartOrder)'
  OBVIOUS
<1> USE DEF IInv, NeverPanics, Progress, StartOrder, Before, During, After,
            ctxVars, mainVars, shutVars, workVars, vars
<1>1. CASE Startup
  BY <1>1, ProgressStartup
<1>2. CASE Shutdown
  BY <1>2, ShutdownFrame DEF Unwound, Starting
<1>3. CASE Contexts
  BY <1>3, ContextsFrame DEF Typed, TypeOK
<1>4. CASE Wait \/ Return \/ UNCHANGED vars
  BY <1>4 DEF Wait, Return
<1>5. CASE \E t \in Tasks : TaskStep(t)
  BY <1>5, TaskFrame
<1>. QED
  BY <1>1, <1>2, <1>3, <1>4, <1>5, NextCases DEF TaskStep

LEMMA UnwoundShutdown == IInv /\ Shutdown => Unwound'
<1> SUFFICES ASSUME IInv, Shutdown PROVE Unwound'
  OBVIOUS
<1>0. /\ Typed /\ UNCHANGED <<ctx, main>> /\ shut' # "new"
      /\ shut = "new" => main \notin Starting \cup {"panic"}
  BY ShutdownFrame DEF IInv, ctxVars, mainVars
<1> USE <1>0, ContainersAssumption
    DEF IInv, Typed, TypeOK, Bounds, Unwound, Containers, Down, Gone
<1>1. CASE ShutdownBegin
  BY <1>1 DEF ShutdownBegin
<1>2. CASE SkipContainer
  BY <1>2 DEF SkipContainer, PassOver
<1>3. CASE ContainerStopping
  BY <1>3 DEF ContainerStopping
<1>4. CASE \E ok \in BOOLEAN : StopHook(ok)
  BY <1>4 DEF StopHook
<1>5. CASE TasksExited
  BY <1>5 DEF TasksExited
<1>6. CASE ContainerStopped
  BY <1>6 DEF ContainerStopped
<1>7. CASE ShutdownDone
  BY <1>7 DEF ShutdownDone
<1>. QED
  BY <1>1, <1>2, <1>3, <1>4, <1>5, <1>6, <1>7 DEF Shutdown

LEMMA UnwoundNext == IInv /\ [Next]_vars => Unwound'
<1> SUFFICES ASSUME IInv, [Next]_vars PROVE Unwound'
  OBVIOUS
<1> USE DEF IInv, Unwound, Down, Gone, ctxVars, mainVars, shutVars, workVars, vars
<1>1. CASE Startup
  <2>1. shut = "new" /\ shut' = "new" /\ down' = down
    BY <1>1, StartupFrame
  <2>2. \A c \in Containers : cstate'[c] = cstate[c] \/ cstate'[c] \in {During, After}
    BY <1>1 DEF Typed, TypeOK, Startup, RunBegin, ContainerBegin, InitsDone, StartLeaves,
       ContainerLeaves, HookBegin, HookReturn, ContainerDone, StartupError, StartupCancel
  <2>. QED
    BY <2>1, <2>2 DEF During, After
<1>2. CASE Shutdown
  BY <1>2, UnwoundShutdown
<1>3. CASE Contexts
  BY <1>3, ContextsFrame
<1>4. CASE Wait \/ Return \/ UNCHANGED vars
  BY <1>4 DEF Wait, Return, Ended
<1>5. CASE \E t \in Tasks : TaskStep(t)
  BY <1>5, TaskFrame
<1>. QED
  BY <1>1, <1>2, <1>3, <1>4, <1>5, NextCases DEF TaskStep

LEMMA TasksHousedNext == IInv /\ [Next]_vars => TasksHoused'
<1> SUFFICES ASSUME IInv, [Next]_vars PROVE TasksHoused'
  OBVIOUS
<1> USE TasksAssumption
    DEF IInv, Typed, TypeOK, TasksHoused, ctxVars, mainVars, shutVars, workVars, vars
<1>1. CASE ContainerBegin
  BY <1>1 DEF ContainerBegin, Before, During
<1>2. CASE ContainerDone
  <2>1. at \in Containers /\ cstate[at] = During /\ shut = "new"
    BY <1>2 DEF ContainerDone, Bounds, Progress, Unwound, Starting, Containers
  <2>. QED
    BY <1>2, <2>1 DEF ContainerDone, During, After
<1>3. CASE Startup /\ ~ContainerBegin /\ ~ContainerDone
  BY <1>3 DEF Startup, RunBegin, InitsDone, StartLeaves, ContainerLeaves,
              HookBegin, HookReturn, StartupError, StartupCancel
<1>4. CASE Shutdown
  BY <1>4 DEF Shutdown, ShutdownBegin, SkipContainer, ContainerStopping, StopHook,
              TasksExited, TasksGone, ContainerStopped, ShutdownDone, PassOver, Unwound, Bounds
<1>5. CASE Contexts
  BY <1>5, ContextsFrame
<1>6. CASE Wait \/ Return \/ UNCHANGED vars
  BY <1>6 DEF Wait, Return
<1>7. CASE \E t \in Tasks : TaskStep(t)
  <2>1. PICK t \in Tasks : TaskStep(t)
    BY <1>7
  <2>2. UNCHANGED <<shut, down, cstate>>
    BY <2>1, TaskFrame
  <2>3. CASE Launch(t)
    BY <2>2, <2>3 DEF Launch, Open, Unwound
  <2>4. CASE (\E o \in Outcome : TaskReturn(t, o)) \/ TaskRecord(t)
    BY <2>2, <2>4 DEF TaskReturn, TaskRecord
  <2>. QED
    BY <2>1, <2>3, <2>4 DEF TaskStep
<1>. QED
  BY <1>1, <1>2, <1>3, <1>4, <1>5, <1>6, <1>7, NextCases DEF TaskStep

LEMMA UnlaunchedNext == IInv /\ [Next]_vars => Unlaunched'
<1> SUFFICES ASSUME IInv, [Next]_vars PROVE Unlaunched'
  OBVIOUS
<1> USE TasksAssumption
    DEF IInv, Typed, TypeOK, Unlaunched, ctxVars, mainVars, shutVars, workVars, vars
<1>1. CASE ContainerBegin
  <2>1. UNCHANGED task
    BY <1>1 DEF ContainerBegin
  <2>2. \A c \in Containers :
          \/ cstate'[c] = cstate[c]
          \/ cstate[c] = "setup" /\ cstate'[c] = "initializing"
          \/ cstate[c] = "initialized" /\ cstate'[c] = "starting"
    BY <1>1 DEF ContainerBegin, Before, During
  <2>. QED
    BY <2>1, <2>2
<1>2. CASE ContainerDone
  <2>1. at \in Containers /\ cstate[at] = During
    BY <1>2 DEF ContainerDone, Bounds, Progress, Containers
  <2>. QED
    BY <1>2, <2>1 DEF ContainerDone, During, After
<1>3. CASE Startup /\ ~ContainerBegin /\ ~ContainerDone
  BY <1>3 DEF Startup, RunBegin, InitsDone, StartLeaves, ContainerLeaves,
              HookBegin, HookReturn, StartupError, StartupCancel
<1>4. CASE Shutdown
  BY <1>4 DEF Shutdown, ShutdownBegin, SkipContainer, ContainerStopping, StopHook,
              TasksExited, ContainerStopped, ShutdownDone
<1>5. CASE Contexts
  BY <1>5, ContextsFrame
<1>6. CASE Wait \/ Return \/ UNCHANGED vars
  BY <1>6 DEF Wait, Return
<1>7. CASE \E t \in Tasks : TaskStep(t)
  BY <1>7, TaskFrame DEF TaskStep, Launch, Open, TaskReturn, TaskRecord
<1>. QED
  BY <1>1, <1>2, <1>3, <1>4, <1>5, <1>6, <1>7, NextCases DEF TaskStep

LEMMA ReportedNext == IInv /\ [Next]_vars => Reported'
<1> SUFFICES ASSUME IInv, [Next]_vars PROVE Reported'
  OBVIOUS
<1> USE NoneAssumption
    DEF IInv, Typed, TypeOK, Reported, ctxVars, mainVars, shutVars, workVars, vars
<1>1. CASE StartupCancel
  <2>1. <<phase, at, hook>> \in WorkErrors
    BY <1>1 DEF StartupCancel, Bounds, WorkErrors, HookErrors, HookKind
  <2>2. /\ err' = IF err = None THEN <<phase, at, hook>> ELSE err
        /\ failures' = failures \cup {<<phase, at, hook>>}
        /\ task' = task
    BY <1>1 DEF StartupCancel, Record
  <2>. QED
    BY <2>1, <2>2
<1>2. CASE ContainerDone
  <2>1. UNCHANGED <<err, failures>>
    BY <1>2 DEF ContainerDone
  <2>2. \A t \in Tasks : task[t] = "failing" => task'[t] = "failing"
    <3>1. at \in Containers /\ cstate[at] = During
      BY <1>2 DEF ContainerDone, Bounds, Progress, Containers
    <3>. QED
      BY <1>2, <3>1 DEF ContainerDone, Unlaunched, During
  <2>3. \A t \in Tasks : task'[t] = "failing" => task[t] = "failing"
    BY <1>2 DEF ContainerDone
  <2>. QED
    BY <2>1, <2>2, <2>3
<1>3. CASE Startup /\ ~StartupCancel /\ ~ContainerDone
  BY <1>3 DEF Startup, RunBegin, ContainerBegin, InitsDone, StartLeaves, ContainerLeaves,
              HookBegin, HookReturn, StartupError
<1>4. CASE Shutdown
  BY <1>4, ShutdownFrame
<1>5. CASE Contexts
  BY <1>5, ContextsFrame
<1>6. CASE Wait \/ Return \/ UNCHANGED vars
  BY <1>6 DEF Wait, Return
<1>7. CASE \E t \in Tasks : TaskStep(t)
  <2>1. PICK t \in Tasks : TaskStep(t)
    BY <1>7
  <2>2. CASE Launch(t)
    BY <2>2 DEF Launch
  <2>3. CASE \E o \in Outcome : TaskReturn(t, o)
    <3>1. PICK o \in Outcome : TaskReturn(t, o)
      BY <2>3
    <3>2. CASE Counts(o)
      BY <3>1, <3>2 DEF TaskReturn
    <3>3. CASE ~Counts(o)
      BY <3>1, <3>3 DEF TaskReturn
    <3>. QED
      BY <3>2, <3>3
  <2>4. CASE TaskRecord(t)
    <3>1. <<"task", t>> \in failures /\ <<"task", t>> # None
      BY <2>4 DEF TaskRecord, WorkErrors, TaskErrors
    <3>. QED
      BY <2>4, <3>1 DEF TaskRecord, Record
  <2>. QED
    BY <2>1, <2>2, <2>3, <2>4 DEF TaskStep
<1>. QED
  BY <1>1, <1>2, <1>3, <1>4, <1>5, <1>6, <1>7, NextCases DEF TaskStep

LEMMA StopReportedNext == IInv /\ [Next]_vars => StopReported'
<1> SUFFICES ASSUME IInv, [Next]_vars PROVE StopReported'
  OBVIOUS
<1> USE DEF IInv, Typed, TypeOK, StopReported, ctxVars, mainVars, shutVars, workVars, vars
<1>1. CASE Shutdown
  <2>1. CASE ShutdownBegin
    BY <2>1 DEF ShutdownBegin
  <2>2. CASE SkipContainer
    BY <2>2 DEF SkipContainer
  <2>3. CASE ContainerStopping
    BY <2>3 DEF ContainerStopping
  <2>4. CASE \E ok \in BOOLEAN : StopHook(ok)
    <3>1. PICK ok \in BOOLEAN : StopHook(ok)
      BY <2>4
    <3> DEFINE e == <<shut, down, left>>
    <3>2. UNCHANGED <<stopErr, shut>> /\ shut \in {"stopping", "stop"}
      BY <3>1 DEF StopHook
    <3>3. CASE ok
      BY <3>1, <3>2, <3>3 DEF StopHook
    <3>4. CASE ~ok
      <4>1. /\ stopFailures' = Append(stopFailures, e)
            /\ first' = IF first = None THEN e ELSE first
        BY <3>1, <3>4 DEF StopHook
      <4>2. e \in HookErrors /\ e # None
        BY <3>2, NoneAssumption DEF Bounds, HookErrors, HookKind, WorkErrors
      <4>3. stopFailures' # << >>
        BY <4>1, <4>2
      <4>4. CASE stopFailures = << >>
        <5>1. stopFailures'[1] = e /\ first' = e /\ stopErr' = None
          BY <4>1, <4>2, <4>4, <3>2
        <5>. QED
          BY <5>1, <4>3, <3>2
      <4>5. CASE stopFailures # << >>
        <5>1. stopFailures'[1] = stopFailures[1] /\ stopFailures[1] \in HookErrors
          BY <4>1, <4>2, <4>5
        <5>2. stopFailures[1] # None
          BY <5>1, NoneAssumption DEF WorkErrors
        <5>. QED
          BY <5>1, <5>2, <4>1, <4>3, <4>5, <3>2
      <4>. QED
        BY <4>4, <4>5
    <3>. QED
      BY <3>3, <3>4
  <2>5. CASE TasksExited
    BY <2>5 DEF TasksExited
  <2>6. CASE ContainerStopped
    <3>1. stopFailures # << >> => stopFailures[1] \in HookErrors
      OBVIOUS
    <3>2. stopFailures # << >> => stopFailures[1] # None
      BY <3>1, NoneAssumption DEF WorkErrors
    <3>. QED
      BY <2>6, <3>2 DEF ContainerStopped
  <2>7. CASE ShutdownDone
    BY <2>7 DEF ShutdownDone
  <2>. QED
    BY <1>1, <2>1, <2>2, <2>3, <2>4, <2>5, <2>6, <2>7 DEF Shutdown
<1>2. CASE Startup
  BY <1>2, StartupFrame
<1>3. CASE Contexts
  BY <1>3, ContextsFrame
<1>4. CASE Wait \/ Return \/ UNCHANGED vars
  BY <1>4 DEF Wait, Return
<1>5. CASE \E t \in Tasks : TaskStep(t)
  BY <1>5, TaskFrame
<1>. QED
  BY <1>1, <1>2, <1>3, <1>4, <1>5, NextCases DEF TaskStep

LEMMA WaitedNext == IInv /\ [Next]_vars => Waited'
<1> SUFFICES ASSUME IInv, [Next]_vars PROVE Waited'
  OBVIOUS
<1> USE DEF IInv, Typed, TypeOK, Waited, ctxVars, mainVars, shutVars, workVars, vars
<1>1. CASE Startup
  BY <1>1 DEF Startup, RunBegin, ContainerBegin, InitsDone, StartLeaves, ContainerLeaves,
              HookBegin, HookReturn, ContainerDone, StartupError, StartupCancel
<1>2. CASE Shutdown
  BY <1>2, ShutdownFrame
  DEF Shutdown, ShutdownBegin, SkipContainer, ContainerStopping, StopHook,
      TasksExited, ContainerStopped, ShutdownDone
<1>3. CASE Contexts
  BY <1>3, ContextsFrame
<1>4. CASE Wait
  BY <1>4 DEF Wait, AllDone
<1>5. CASE Return \/ UNCHANGED vars
  BY <1>5 DEF Return
<1>6. CASE \E t \in Tasks : TaskStep(t)
  BY <1>6 DEF TaskStep, Launch, TaskReturn, TaskRecord
<1>. QED
  BY <1>1, <1>2, <1>3, <1>4, <1>5, <1>6, NextCases DEF TaskStep

THEOREM Invariant == Spec => []IInv
<1>1. IInv /\ [Next]_vars => IInv'
  BY TypedNext, ProgressNext, UnwoundNext, TasksHousedNext, UnlaunchedNext,
     ReportedNext, StopReportedNext, WaitedNext DEF IInv
<1>. QED
  BY IInvInit, <1>1, PTL DEF Spec

-----------------------------------------------------------------------------
(* The properties.                                                         *)

\* Container.init and Container.start never meet a container in the wrong state.
THEOREM InitAndStartNeverPanic == Spec => []NeverPanics
<1>1. IInv => NeverPanics
  BY DEF IInv
<1>. QED
  BY Invariant, <1>1, PTL

\* Runtime.shutdown stops no container while Runtime.start may run a hook.
THEOREM StartupEndsFirst == Spec => []StartupBeforeStop
<1>1. IInv => StartupBeforeStop
  BY DEF IInv, Unwound, Down, StartupBeforeStop
<1>. QED
  BY Invariant, <1>1, PTL

\* Runtime.start starts the containers in attachment order, all initialized.
THEOREM StartsInOrder == Spec => []StartOrder
<1>1. IInv => StartOrder
  BY DEF IInv
<1>. QED
  BY Invariant, <1>1, PTL

\* Runtime.shutdown stops a container when the ones attached after it, and
\* their tasks, are gone.
THEOREM StopsInReverse == Spec => []StopOrder
<1>1. IInv => StopOrder
  <2> SUFFICES ASSUME IInv, NEW c \in Containers, NEW d \in Containers,
                      d < c, cstate[d] \in {"stopping", "stopped"}
               PROVE  /\ Gone(c)
                      /\ \A t \in Tasks : Home[t] = c => task[t] # "running"
    BY DEF StopOrder, Gone
  <2>1. shut # "new" /\ ~(d < down) /\ down \in Nat
    BY DEF IInv, Unwound, Down, Typed, TypeOK
  <2>2. c > down
    BY <2>1 DEF Containers
  <2>3. Gone(c)
    BY <2>1, <2>2 DEF IInv, Unwound
  <2>. QED
    BY <2>3 DEF IInv, TasksHoused, Gone
<1>. QED
  BY Invariant, <1>1, PTL

\* Container.shutdown runs the stop hooks when no task of the container is left.
THEOREM StopHooksRunAlone == Spec => []TasksBeforeStop
<1>1. IInv => TasksBeforeStop
  BY DEF IInv, TasksHoused, TasksBeforeStop
<1>. QED
  BY Invariant, <1>1, PTL

\* Startup and shutdown keep to the order of attachment, and tasks to their
\* container's time.
THEOREM KeepsOrder == Spec => []InOrder
<1>1. StartOrder /\ StopOrder /\ TasksBeforeStop => InOrder
  BY DEF InOrder
<1>. QED
  BY StartsInOrder, StopsInReverse, StopHooksRunAlone, <1>1, PTL

\* Run returns an error that counted, or the first one of its stop hooks.
THEOREM RunReports == Spec => []ReportsFirst
<1>1. IInv => ReportsFirst
  <2> SUFFICES ASSUME IInv, main = "returned" PROVE ReportsFirst
    BY DEF ReportsFirst
  <2>1. shut = "done" /\ result = IF err # None THEN err ELSE stopErr
    BY DEF IInv, Waited
  <2>2. \A t \in Tasks : task[t] # "failing"
    BY DEF IInv, Waited
  <2>3. failures # {} => err # None
    BY <2>2 DEF IInv, Reported
  <2>4. err # None => err \in failures
    BY DEF IInv, Reported
  <2>5. /\ stopFailures = << >> => stopErr = None
        /\ stopFailures # << >> => stopErr = stopFailures[1]
    BY <2>1 DEF IInv, StopReported
  <2>. QED
    BY <2>1, <2>3, <2>4, <2>5 DEF ReportsFirst
<1>. QED
  BY Invariant, <1>1, PTL

\* Run leaves no task behind, and no container that it touched running.
THEOREM RunCleansUp == Spec => []CleanReturn
<1>1. IInv => CleanReturn
  BY ContainersAssumption DEF IInv, Waited, Unwound, Gone, CleanReturn, Containers
<1>. QED
  BY Invariant, <1>1, PTL
=============================================================================

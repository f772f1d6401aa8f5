------------------------------- MODULE Setup -------------------------------
(***************************************************************************)
(* What a program registers with the Runtime of runtime.go and its         *)
(* containers, while Run may be under way: hooks, tasks, containers and    *)
(* values of the stores, each refused by a panic when its time is over.    *)
(*                                                                         *)
(* Containers, and the hooks and tasks of a container, are numbered in the *)
(* order of registration.  The lifecycle is the one of module Runtime,     *)
(* with hooks that are one step and tasks that are only launched.          *)
(***************************************************************************)
EXTENDS Naturals, Sequences, SequencesExt

CONSTANTS
    Factories,      \* containers that Create attaches
    Values,         \* types that Set registers, beside those of factories
    Containers,     \* bound of the number of containers
    Registrations   \* bound of the number of hooks and tasks

ASSUME SetupAssumption ==
    /\ Containers \in Nat /\ Registrations \in Nat
    /\ Factories \subseteq 1 .. Containers /\ Values \cap Nat = {}

Kinds == {"init", "start", "stopping", "stop", "task"}

VARIABLES
    runtime,        \* r.state
    attached,       \* number of containers
    container,      \* c.state
    fns,            \* length of initFns, startFns, stoppingFns, stopFns, tasks
    taken,          \* length of the clone of each that is executed, and of c.tasks
    ran,            \* hooks that were called and tasks that were launched
    locals,         \* containers with a value in their store
    globals,        \* types with a value in r.store, a factory's is its container
    frozen,         \* globals when the runtime began to run
    kept,           \* locals of each container when it began to run
    ended,          \* r.ctx is done
    phase,          \* what Run does
    at              \* the container it does it with

progress == <<runtime, ended, phase, at>>
registered == <<attached, fns, locals>>
history == <<frozen, kept>>
vars == <<progress, registered, container, taken, ran, globals, history>>

PerContainer(x) == [c \in 1 .. Containers |-> [k \in Kinds |-> x]]

Init ==
    /\ runtime = "setup" /\ phase = "idle" /\ at = 0 /\ ended = FALSE
    /\ attached = 0
    /\ container = [c \in 1 .. Containers |-> "setup"]
    /\ fns = PerContainer(0) /\ taken = PerContainer(0) /\ ran = PerContainer(<< >>)
    /\ locals = {} /\ globals = {} /\ frozen = {} /\ kept = {}

-----------------------------------------------------------------------------
(* Registrations, by hooks or any other goroutine.                         *)

Attach ==
    /\ runtime = "setup" /\ attached < Containers
    /\ attached' = attached + 1
    /\ UNCHANGED <<progress, container, fns, taken, ran, locals, globals, history>>

\* Mutant: start hooks may be registered by start hooks.
OpenForLate(k) ==
    {"setup"} \cup (IF k = "init" THEN {} ELSE {"initializing"})
              \cup (IF k \in {"task", "start"} THEN {"starting"} ELSE {})

\* The states of a container in which it takes hooks of a kind, and tasks.
OpenFor(k) ==
    {"setup"} \cup (IF k = "init" THEN {} ELSE {"initializing"})
              \cup (IF k = "task" THEN {"starting"} ELSE {})

Total == LET Count(c) == fns[c]["init"] + fns[c]["start"] + fns[c]["stopping"]
                            + fns[c]["stop"] + fns[c]["task"]
         IN FoldLeft(LAMBDA n, c : n + Count(c), 0, [c \in 1 .. Containers |-> c])

\* Nobody has the container of a factory before it is called, and Create only
\* registers its hook.
Given(c) == c \in Factories => container[c] # "setup"

\* OnInit, OnStart, OnStopping, OnStop and Container.Run.
Register(c, k) ==
    /\ c <= attached /\ container[c] \in OpenFor(k) /\ Total < Registrations
    /\ Given(c) \/ (k = "init" /\ fns[c][k] = 0)
    /\ fns' = [fns EXCEPT ![c][k] = @ + 1]
    /\ ran' = IF k = "task" /\ container[c] = "starting"
              THEN [ran EXCEPT ![c][k] = Append(@, fns'[c][k])]
              ELSE ran
    /\ UNCHANGED <<progress, attached, container, taken, locals, globals, history>>

\* A store takes the first value of a type only.
Free(t, store) == t \notin store

\* Set of a container, which has one type of values here.
SetLocal(c) ==
    /\ c <= attached /\ Given(c)
    /\ container[c] \in {"setup", "initializing", "starting"}
    /\ Free(c, locals)
    /\ locals' = locals \cup {c}
    /\ UNCHANGED <<progress, attached, container, fns, taken, ran, globals, history>>

\* Mutant: the state is not looked at.
SettableAlways == TRUE

\* Set takes a global value.
Settable == runtime \in {"setup", "initializing"}

\* Set and SetGlobal.
Set(v) ==
    /\ Settable /\ Free(v, globals)
    /\ globals' = globals \cup {v}
    /\ UNCHANGED <<progress, registered, container, taken, ran, history>>

-----------------------------------------------------------------------------
(* Run.                                                                    *)

\* The context ends by itself, or because a task failed.
CtxEnds ==
    /\ phase # "idle" /\ ~ended
    /\ ended' = TRUE
    /\ UNCHANGED <<runtime, phase, at, registered, container, taken, ran, globals, history>>

RunBegin ==
    /\ runtime = "setup"
    /\ runtime' = "initializing" /\ phase' = "init" /\ at' = 1
    /\ UNCHANGED <<ended, registered, container, taken, ran, globals, history>>

\* The state that a container has in a phase, before it and after it.
Before == [init |-> "setup", start |-> "initialized"]
During == [init |-> "initializing", start |-> "starting"]
After  == [init |-> "initialized", start |-> "running"]

\* The lists of some kinds are cloned; the one of tasks is closed.
Take(c, kinds) ==
    [taken EXCEPT ![c] = [k \in Kinds |-> IF k \in kinds THEN fns[c][k] ELSE taken[c][k]]]

\* init or start of the next container begins.
ContainerBegin ==
    /\ phase \in {"init", "start"} /\ at <= attached /\ ~ended
    /\ container[at] = Before[phase]
    /\ container' = [container EXCEPT ![at] = During[phase]]
    /\ taken' = Take(at, IF phase = "init" THEN {"init"} ELSE {"start", "task"})
    /\ UNCHANGED <<progress, registered, ran, globals, history>>

\* The number of hooks of the list that have been called.
CalledOf(k) == Len(ran[at][k])

InContainer == phase \in {"init", "start"} /\ at <= attached /\ container[at] = During[phase]

\* A factory is the first hook of the container that Create attached.
IsFactory == phase = "init" /\ at \in Factories /\ CalledOf("init") = 0

\* The next hook is called and succeeds.
HookSucceeds ==
    /\ InContainer /\ ~ended /\ CalledOf(phase) < taken[at][phase]
    /\ ran' = [ran EXCEPT ![at][phase] = Append(@, CalledOf(phase) + 1)]
    /\ globals' = IF IsFactory THEN globals \cup {at} ELSE globals
    /\ UNCHANGED <<progress, registered, container, taken, history>>

\* It fails, which cancels the run.
HookFails ==
    /\ InContainer /\ ~ended /\ CalledOf(phase) < taken[at][phase]
    /\ ran' = [ran EXCEPT ![at][phase] = Append(@, CalledOf(phase) + 1)]
    /\ ended' = TRUE /\ phase' = "wait"
    /\ UNCHANGED <<runtime, at, registered, container, taken, globals, history>>

UpTo(n) == [i \in 1 .. n |-> i]

\* All hooks have succeeded; start launches the tasks that were registered before it.
ContainerDone ==
    /\ InContainer /\ ~ended /\ CalledOf(phase) = taken[at][phase]
    /\ container' = [container EXCEPT ![at] = After[phase]]
    /\ ran' = IF phase = "init" THEN ran
              ELSE [ran EXCEPT ![at]["task"] = @ \o UpTo(taken[at]["task"])]
    /\ kept' = IF phase = "start" /\ at \in locals THEN kept \cup {at} ELSE kept
    /\ at' = at + 1
    /\ UNCHANGED <<runtime, ended, phase, registered, taken, globals, frozen>>

InitsDone ==
    /\ phase = "init" /\ at > attached /\ ~ended
    /\ runtime' = "running" /\ phase' = "start" /\ at' = 1
    /\ frozen' = globals
    /\ UNCHANGED <<ended, registered, container, taken, ran, globals, kept>>

\* Startup is over, or cut off.
StartupLeaves ==
    /\ phase \in {"init", "start"} /\ (ended \/ (phase = "start" /\ at > attached))
    /\ phase' = "wait"
    /\ UNCHANGED <<runtime, at, ended, registered, container, taken, ran, globals, history>>

\* shutdown, when the tasks have ended or the context is done.
ShutdownBegin ==
    /\ phase = "wait"
    /\ phase' = "shutdown" /\ at' = attached
    /\ UNCHANGED <<runtime, ended, registered, container, taken, ran, globals, history>>

SkipContainer ==
    /\ phase = "shutdown" /\ at > 0 /\ container[at] = "setup"
    /\ at' = at - 1
    /\ UNCHANGED <<runtime, ended, phase, registered, container, taken, ran, globals, history>>

StopBegin ==
    /\ phase = "shutdown" /\ at > 0 /\ container[at] \notin {"setup", "stopping", "stopped"}
    /\ container' = [container EXCEPT ![at] = "stopping"]
    /\ taken' = Take(at, {"stopping", "stop"})
    /\ UNCHANGED <<progress, registered, ran, globals, history>>

\* The next stopping or stop hook, in reverse order, whether it fails or not.
StopHook(k) ==
    /\ phase = "shutdown" /\ at > 0 /\ container[at] = "stopping"
    /\ k = "stop" => CalledOf("stopping") = taken[at]["stopping"]
    /\ CalledOf(k) < taken[at][k]
    /\ ran' = [ran EXCEPT ![at][k] = Append(@, taken[at][k] - CalledOf(k))]
    /\ UNCHANGED <<progress, registered, container, taken, globals, history>>

StopDone ==
    /\ phase = "shutdown" /\ at > 0 /\ container[at] = "stopping"
    /\ \A k \in {"stopping", "stop"} : CalledOf(k) = taken[at][k]
    /\ container' = [container EXCEPT ![at] = "stopped"]
    /\ at' = at - 1
    /\ UNCHANGED <<runtime, ended, phase, registered, taken, ran, globals, history>>

Return ==
    /\ phase = "shutdown" /\ at = 0
    /\ runtime' = "stopped" /\ phase' = "returned"
    /\ UNCHANGED <<ended, at, registered, container, taken, ran, globals, history>>

Done == phase = "returned" /\ UNCHANGED vars

Next ==
    \/ Attach
    \/ \E c \in 1 .. Containers : SetLocal(c) \/ \E k \in Kinds : Register(c, k)
    \/ \E v \in Values : Set(v)
    \/ RunBegin \/ CtxEnds
    \/ ContainerBegin \/ HookSucceeds \/ HookFails \/ ContainerDone \/ InitsDone \/ StartupLeaves
    \/ ShutdownBegin \/ SkipContainer \/ StopBegin \/ StopDone \/ Return
    \/ \E k \in {"stopping", "stop"} : StopHook(k)
    \/ Done

Spec == Init /\ [][Next]_vars

-----------------------------------------------------------------------------
(* Properties.                                                             *)

\* What is registered while Run is under way is refused or used: no hook or
\* task is accepted after the list it belongs in was taken, and each is called
\* once and in its order when its phase has succeeded, of every container.
AcceptedIsUsed ==
    /\ runtime = "running" => \A c \in 1 .. attached : container[c] \notin {"setup", "initializing"}
    /\ \A c \in 1 .. Containers :
        LET all(k) == UpTo(fns[c][k])
        IN /\ container[c] \in {"initialized", "starting", "running"}
                => ran[c]["init"] = all("init")
           /\ container[c] = "running"
                => /\ ran[c]["start"] = all("start")
                   /\ ToSet(ran[c]["task"]) = 1 .. fns[c]["task"]
           /\ container[c] = "stopped"
                => \A k \in {"stopping", "stop"} : ran[c][k] = Reverse(all(k))
           /\ \A k \in Kinds : IsInjective(ran[c][k])

\* Start hooks and tasks find the value of every factory in the store, whatever
\* ended the initialization of some container; and from then on the globals, as
\* the values of a container that runs, do not change any more.
DependenciesReady ==
    /\ (\E c \in 1 .. Containers : ran[c]["start"] # << >> \/ ran[c]["task"] # << >>)
        => /\ \A c \in Factories : c <= attached /\ fns[c]["init"] > 0 => c \in globals
           /\ globals = frozen
    /\ \A c \in 1 .. Containers : container[c] = "running" => (c \in locals <=> c \in kept)
=============================================================================

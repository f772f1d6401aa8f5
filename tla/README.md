# A TLA+ development of gx

gx is a Go library of small concurrency tools (package `gx`), an HTTP server wrapper (`web`), a loader of
environment variables (`env`) and test helpers (`test`, `assert`). This directory models the concurrent parts of
the library and the request handling of `web` in TLA+, checks the models with TLC on small instances and proves their main invariants with TLAPS for
every instance. Line numbers below and in `PROJECT.json` refer to the files of the repository.

## Inventory

| Component | State | Operations | What is hard | What makes it correct |
|---|---|---|---|---|
| Queue (`queue.go`) | a bounded channel, `closed`, `failure`, the active run (`running`, `cancel`, `done`), two RW mutexes, a `sync.Once`, `pushWaitDone` | `Push`, `PushWait`, `Close`, `Drain`, `Run`, `RunUntilClosed`, `Closed` | senders race with the close of the channel; `fail` cancels after its unlock; `run` reads two contexts one after the other; a writer waits behind blocked readers | no send on a closed channel; one run at a time; no accepted item lost, doubled or overtaken; a failure reaches the active run; Close, Drain, PushWait and Run return |
| Runtime and Container (`runtime.go`) | state of the runtime and of each container, hooks, queued tasks, contexts, `shutdownOnce`, `startupDone`, `stopErr` | `Run`, `Container.Run`, the hooks `OnInit`, `OnStart`, `OnStopping`, `OnStop` | startup races with shutdown; cancellation spreads through callbacks over four contexts; tasks outlive their container's start; several errors compete | hooks and tasks are in order whatever ends the run; the reported error has the right precedence; Run returns and leaves nothing behind |
| Runner (`runner.go`) | wait group, first error, cancel function | `Run`, `Cancel`, `Wait` | several errors | the first error cancels and is returned |
| Registration (`runtime.go`) | containers, lists of hooks and tasks, type-keyed stores of the runtime and its containers | `Attach`, `Create`, `OnInit`, `OnStart`, `OnStopping`, `OnStop`, `Container.Run`, `Set`, `SetGlobal`, `Get` | hooks register while the lists they belong in are cloned and executed; `Set` against the change to running; a start that is cut off | what is accepted is used, in order; start hooks and tasks find what was initialized, and it does not change |
| Buffer (`buffer.go`) | ring of `items`, `head`, `len`, `closed`, a condition variable | `Push`, `Next`, `TryNext`, `Close`, `Len` | growth while the ring wraps; a signal whose value is taken by a goroutine that barges in | FIFO; no lost wakeup; Next returns after Close |
| Stack (`stack.go`) | slice, `len`, `closed`, a condition variable | `Push`, `Pop`, `TryPop`, `Close`, `Len` | as Buffer | LIFO; no lost wakeup |
| Semaphore (`semaphore.go`) | a buffered channel | `Acquire`, `TryAcquire`, `Release` | a slot or the end of ctx | no slot leaks |
| Bus (`bus.go`) | subscribers by type, a Semaphore | `Subscribe`, `Unsubscribe`, `Publish` | a snapshot of the registry that is used later, in another goroutine; publishes inside of publishes | each value to the subscribers of its moment; at most `maxConcurrency` values at a time; Publish returns |
| Accumulator (`accumulator.go`) | `total`, `closed`, a timer, a goroutine with its context | `Add`, `Close` | the timer fires into Add and Close; the context ends | nothing lost or flushed twice; silence after Close; the goroutine ends |
| Retry (`retry.go`) | attempt, delay, a context with a deadline, a timer | `NewRetry`, `Do` | timer against context; arithmetic of delays | the result is true; a bounded number of late calls; bounded waits; Do returns |
| Debouncer (`debouncer.go`) | a timer | `Do`, `Cancel` | a timer that has fired cannot be stopped | a function that was replaced in time never runs; the last one does |
| Throttler (`throttler.go`) | time of the last call that was allowed | `Allow`, `Do` | the clock is read before the lock | two allowed calls are an interval apart |
| Dispatcher (`dispatcher.go`) | handlers by type | `Register`, `Unregister`, `Dispatch` | handlers are called after the lock is released, from an array that `append` may still write to | each value to the handlers of its moment, in order, up to the first error |
| Map, Set (`map.go`, `set.go`) | a Go map under a mutex | point operations, `GetOrSet`, `GetAndRemove`, snapshots | compound operations | each is one atomic step |
| web (`web/*.go`) | `headerWritten` of a response, the Contexts of middleware and route, `stopping`, the `http.Server` | `Start`, `Stop`, `Serve`, the answers of `Context`, `Flush`, `Hijack` | several writers of one response; errors after it has begun; Stop before or during Start; handlers that never return | one header per response, errors answered before it only; Start and Stop tell the truth and return |
| env, assert, test | none | parsing, assertions | nothing concurrent | |

How they interact: Run of the Runtime creates a Runner and registers every task of every container with it, and
contexts link the two with callbacks of `context.AfterFunc`. Bus takes its slots from a Semaphore. Programs put
components together with callbacks: a subscriber of a Bus dispatches with a Dispatcher, a debounced function
asks a Throttler (modules `Messages` and `Pacing`). The other components do not call each other; the goroutines of a program share them, and callbacks (worker functions,
flush functions, subscribers, hooks) run on goroutines of the library, some of them with its locks held.

## Modules

| Module | Models | Kind |
|---|---|---|
| `Queue` | `queue.go` | component |
| `WorkQueue` | what a Queue promises about its items | abstract specification of `Queue` |
| `Monitor` | the calls of `buffer.go` and `stack.go` with their mutex and condition variable | state and actions for `Buffer` and `Stack` |
| `Buffer` | `buffer.go` on top of `Monitor` | component |
| `Fifo` | what a Buffer promises | abstract specification of `Buffer` |
| `Runtime` | `runtime.go` (lifecycle) and `runner.go` | two components composed |
| `Accumulator` | `accumulator.go` | component |
| `Semaphore` | `semaphore.go` | component, state and actions for `Bus` |
| `Setup` | `runtime.go` (registration and stores, against its lifecycle) | component |
| `Registry` | the lists of callbacks of `bus.go` and `dispatcher.go`, as Go slices | state and actions for `Bus` and `Dispatcher` |
| `Bus` | `bus.go` on top of `Semaphore` and `Registry` | component, composed with `Semaphore` |
| `Dispatcher` | `dispatcher.go` on top of `Registry` | component |
| `Messages` | a Bus whose subscribers use a Dispatcher | composition |
| `Clock` | the clock of `Debouncer` and `Throttler` | environment |
| `Debouncer`, `Throttler` | `debouncer.go`, `throttler.go` | components |
| `Pacing` | a Debouncer whose functions ask a Throttler | composition |
| `Response` | `web/context.go` and `HandlerFunc.Serve`: one response and its writers | component |
| `Server` | `Start` and `Stop` of `web/server.go`, with requests of `Response` | component, composed with `Response` |
| `Stack` | `stack.go` on top of `Monitor` | component |
| `Lifo` | what a Stack promises, a variant of `Fifo` | abstract specification of `Stack` |
| `Retry` | `retry.go` | component |
| `QueueProofs`, `RuntimeProofs`, `SetupProofs`, `PacingProofs`, `ServerProofs`, `MessagesProofs` | theorems about the module named | proofs |
| `BufferProofs` | theorems about `Buffer` and `Stack` | proofs |
| `TimerProofs` | theorems about `Accumulator` and `Retry` | proofs |
| `MC...` | constants and symmetry for TLC | model checking |

`TypeOK` of the modules that have proofs is proved, and not a property of a run.

Common conventions. A call of the API is a member of a constant set and is made at most once, so the sizes of
these sets bound a behaviour and no counter has to be cut off. A step is what the code does between two points at
which another goroutine can interfere: a critical section, a channel operation, a read of a context. A critical
section is one step when nothing in it blocks and nobody reads its state without the lock. A context that is derived from
another ends in a step of its own when Go's callbacks or timers make it end, so one may have ended while the other
has not. A definition whose comment begins with "Mutant" is a plausible bug in the definition that follows it; it
is not used by the model, and `PROJECT.json` says which property it breaks.

### Queue

Items stand for the calls that push them. `MuFree` and `PushWaitMuFree` say when the write locks `q.mu` and
`q.pushWaitMu` can be had: `Push` holds the first for reading around its non-blocking send (`push[p] = "send"`),
`PushWait` the second from its look at `q.closed` to the end of its `select`. `PushWaitMuOpen` is the Go rule
that a waiting writer keeps new readers out. `closeOnce` is the `sync.Once` of `Close`; `closer` takes a Close, or the
Close at the start of a Drain, through the marks of lines 84-97. A run goes from `serve` (workers active) over
`cause` (between the reads of lines 280 and 284) and `exit` (the deferred function) to `returned`; `running` is
`q.running`, `q.cancel` and `q.done` together, which the code always sets together under `q.mu`.
`Propagate` is the end of a parent context reaching the derived one. `PushFail` and `PushCancel` are the two halves of
`fail`, with its unlock in between. `seen[d]` is the run that a Drain found and `Found` the one it cancels. A worker function returns
nil, an error, or an error that is `context.Canceled` (`workerCanceled`), which `run` turns into nil (queue.go:285).

`NilExplained` lists when Run returns nil: its parent was canceled, a Drain that found this run gave up, a worker function returned
`context.Canceled`, or the queue is closed and drained. Only the last promises that no item is left; `CleanRunDrained` says that it is what remains for a
run that nothing canceled. `RunExplained` is both.

`WorkQueue` has four variables (sealed, backlog, working, done) and the steps put, take, finish and seal. `Queue`
implements it with the channel as the backlog.

### Buffer and Stack

An operation holds the mutex from its start to its end and is one step; `Next` and `Pop` (the calls `Takes`) give it up in `cond.Wait`
and are two or more steps. `sleeping` are the goroutines in `Wait`, `woken` those that were signaled and have not got
the mutex yet: other calls may barge in between, which is what `NoLostWakeup` is about. `Monitor` has what the two files share:
the variables of the calls, `Signal`, `Broadcast` and `Close`. In `Buffer` the
growth copies the two halves of a wrapped ring as the code does. `Fifo` and `Lifo` are the abstract containers;
`Content` of `Buffer` and `Pile` of `Stack` are the refinement mappings.

### Runtime

Four kinds of goroutines act: the caller of `Run` (`main`, with the loop it is in: `phase`, `at`, `hook`), the one that
executes `shutdown` (`shut`, `down`, `left`), the tasks, and callbacks. `parent` is the context given to Run,
`ctx` is `r.ctx` that hooks and tasks see, `runnerDone` the Runner's own cancellation. `MirrorParent` is the callback of
`newRuntimeTaskContext`, `MirrorRunner` the one on the Runner's context, `OwnDeadline` and `ParentDeadline` two
timers with one deadline. An error is the hook or the task it comes from. A task that is registered before its
container starts is launched by `ContainerDone`; one registered by a start hook, or by a running task,
by `Launch`. `TaskReturn` is the return of the task with the release of its container's wait group; `TaskRecord` is
the Runner's half, which comes later, and shutdown may be faster.

### Setup

The same lifecycle, seen from the registrations: a hook is one step here, and what ends a run is a hook that fails or `CtxEnds`.
Hooks and tasks of a container are numbered as they are registered; `fns` counts those that were accepted, `taken` is the
length of the clone that `init`, `start` and `shutdown` make (runtime.go:734, 871, 800-802), or, for tasks, that of `c.tasks` when
the container begins to start and further tasks are launched at once (runtime.go:870, 912); `ran` records the numbers in
the order in which they were called. `Register`, `SetLocal`, `Set` and `Attach` may come at any moment and from anybody, which
includes the hook that is being called; a call that panics does nothing and is no step. A container of `Factories` is one that
`Create` attached: its only init hook sets a global value, and nobody has the container before that hook is called.
`frozen` and `kept` remember what the stores held when the runtime, and the container, began to run.

### Accumulator

`timer` is armed, fired with its value still in the channel, or off. The goroutine of `run` is interrupted between its receive
(`RunTick`) and the lock (`RunFlush`), which is where Close can come. `taken` and `flushed` sum up what went in and
what came out. The callback runs in the step that holds the lock; one that calls back into the accumulator would wait for
itself and is not modelled.

### Semaphore, Registry, Bus, Dispatcher and Messages

`slots` is the number of values in the semaphore's channel. The callers of the semaphore are the calls of `Publish`:
`Publish` takes the snapshot and reaches the `select`, `PublishGo` and `PublishDrop` are its outcomes, `Called` is the return of
one subscriber, `PublishDone` the deferred Release. `Inside` says which calls of Publish a subscriber makes while it
handles another value, `Within` which calls of Dispatch. `TryAcquire` is not modelled: no other code of the library calls it.

A snapshot of `Publish` and `Dispatch` is not a copy: it is a Go slice, that is a length and a reference to an array, and
`append` of a later registration writes into that array if it has room. `Registry` keeps the arrays and the slices for
this reason; `meant` is the content of a snapshot at its moment, `Delivered` and `Dispatched` say that what is read from the
array later, without the lock, is the same. A registry begins with up to three callbacks, because three are in an array
with room for a fourth. `Messages` is the composition; a handler of the Dispatcher succeeds or fails.

With one slot, a subscriber that publishes with a context that never ends waits for the slot that its own value
holds, and with n slots so do n publishes inside each other. No text of the repository forbids or promises anything about this; the
instance checked has one slot more than the publishes inside each other, and `PublishReturns` says nothing of fewer.

### Debouncer, Throttler and Pacing

One clock of natural numbers serves both. A timer fires at its time or any time later, as a loaded machine would have it, and from then
on `Stop` has no effect. `revoked` are the functions that were followed by a Do or a Cancel before they were due. The
Debouncer promises nothing about a function that is due and has not been fired, and the model lets it go either way.
`Allow` reads the clock (`ReadClock`) before it takes the lock (`Refuse`, `Allow`), and calls may overtake each other
in between.

### Response and Server

`response[r]` is what one `responseWriter` knows (`written`) and what net/http knows (`status`, `late`), with what was asked of them.
`written` is a set of contexts: `newContext` keeps a `responseWriter` that it is given, so that the Context of the middleware and
the one of the route share the flag (`Sharing`). Middleware, the handler and a custom error handler are arbitrary sequences of
`Status`, `Respond` (`HTML`, `JSON`, `String`, `Redirect`), `Flush` and `Hijack`, and end with nil or with an error; the middleware may
call next any number of times. `Answer` is `Serve` with an error. `HandOn` is net/http: the first final header is sent. Status 101 is
a final header here as in the code. Bodies and the error of a write to a closed connection are left out.

`Server` is `Start` and `Stop` over an `http.Server`, whose part is modelled from its documented behaviour: `ListenAndServe` looks at the shutdown
flag before and after it opens the socket, `Shutdown` sets it, closes the sockets, which accept connections until then, and waits for the connections
in use or its context. `Shutdown` neither closes nor waits for a connection that was hijacked (`InProgress` leaves these out), so a
`Stop` may return nil while a handler that has called `Hijack` runs; `StopTells` makes that exception and no other. A `Start` that begins while `Stop` is between its flag and `Shutdown`, and a `Stop` that comes before any `Start`, are in
the model. Several calls of each may overlap.

### Retry

The options are chosen in the first state among all those that `NewRetry` accepts. Factors count halves, so that
backoff 0.5, 1, and 2.5 and jitter 0, 0.5 and 1 are integers, and a Duration has a few bits, so that the
multiplication overflows within a few calls. The conversion of a float64 beyond the range of int64 depends on the
processor: the least integer on amd64, the largest on arm64; `Scaled` allows both. The race of timer and
context in the `select`, and the moment between the timer and the next call of fn, are steps of their own.

## Runs

| Run | Instance | Shows |
|---|---|---|
| `queue` | 2 Push, 1 PushWait, 1 Close, 1 Drain, a Run and a RunUntilClosed with 2 workers each, size 1, FailOnFull; 3.3 million states | safety of the queue (below) |
| `queue_live` | 1 Push, 1 PushWait, 1 Close, 1 Drain, 1 Run, 1 worker, size 1, FailOnFull; 99 thousand | Close, Drain, PushWait and Run return |
| `buffer` | 5 Push, 3 Next, 1 TryNext, 1 Close, ring of 2 | FIFO, wakeups, release by Close |
| `stack` | 4 Push, 3 Pop, 2 TryPop, 1 Close, array of 1 | LIFO, wakeups |
| `runtime` | 2 containers with a hook of each kind, 2 queued tasks, 1 launched later, a deadline; 128 thousand | order, reports, clean return, Run returns |
| `runtime_parent_cause` | 1 container, 1 task | violated: see Findings |
| `setup` | 2 containers, the first of a factory, up to 4 hooks and tasks, 1 global value; 971 thousand | what is registered is used or refused, dependencies are ready and stay |
| `accumulator` | Adds of 1, 2, 3 and -2, threshold 4 | conservation, positive totals only, nothing left by Close and silence after it, flushes, end of the goroutine |
| `messages` | 3 publishes, one inside another, a dispatch inside, 2 slots, up to 2 subscribers and 4 handlers; 212 thousand | delivery from snapshots, bound, return; no deadlock |
| `pacing` | 3 debounced functions and a direct call, delay and interval 2, 6 ticks; 393 thousand | replaced functions never run, the last one does, intervals are kept |
| `server` | 1 request, statuses 101, 103, 201, errors with 200, 404, 700, 2 Starts, 2 Stops; 108 thousand | one header, errors answered in time, Start and Stop tell the truth and return |
| `retry` | 1377 combinations of options and context, durations of 4 bits | result, late calls, waits, return |

Why the bounds are enough. In `queue` two pushes and one PushWait fill a channel of one item and leave a sender in each
place where Close can meet it; two runs show a failure between and during runs, and a Drain that waits for the first and gives up while the second is active; two workers show a run that ends while
one still works; Close and Drain together show two callers of the once. `queue_live` has one run:
what a late Drain does to a second run is safety, and checked in `queue`. In `buffer` five values
make a ring of two grow twice, the first time while it wraps, and three sleeping Next calls with fewer
values show a wakeup lost to a barging call. In `runtime` two containers show every order that mentions
"before" and "after" a container, one hook of each kind fails or succeeds in each, and the tasks live in
different containers; more hooks repeat the same loop. In `setup` four registrations put two hooks of a kind in one list,
or a hook and tasks of both origins in one container, and two containers show one that never started beside one that did. The four Adds go below zero, to the threshold, and past it. In `messages`
the third publish competes for the slot that the nested one needs; one subscriber can be joined by another, in an array of its own, and
three handlers by a fourth in the same array, before or after a removal. In `pacing` three functions show a timer that is replaced,
one that fires late, and one after a Cancel, and six ticks hold three intervals. In `server` one request is enough, since requests share nothing but the
server's flags; the statuses are an informational one, the exception among these (101) and a final one, the errors one of each side of
the range 400 to 599 and one inside. In `retry` the three attempts see the first delay, a delay
multiplied once, and a delay that went through the cap or the overflow. Deadlock is checked in every passing run; a `Done` step stands
for the end of all calls.

### Fairness

Fairness is assumed of the library's goroutines and of Go's runtime, never of callers: nobody has to call Close, end a
context or push an item. A goroutine that can run does so (weak fairness of its steps). Worker functions, hooks and
subscribers return, timers fire, callbacks of `AfterFunc` run, and a woken goroutine gets the mutex (Go's mutex is
starvation free). A `select` whose two cases are ready time and again picks each at last, as Go picks at random, and
a channel serves its blocked senders in order; these two are strong fairness (`RunExit` of Accumulator and `PublishGo`
of Bus). Handlers of the Dispatcher return, time passes, and a debounced function runs when its timer has fired. In `Server`
handlers of requests need not return and clients need not send: `ServerStops` relies on the timeout of `Stop` alone. A task of the Runtime is only assumed to return once the stopping hooks of its own container have run, so
that `RunReturns` does not rely on tasks that watch their context.

## Findings

`runtime_parent_cause` is a run that TLC refutes: `start` looks at `r.ctx` (runtime.go:369), which follows the parent only
after a callback has run. A start hook that fails because the parent was canceled counts as a startup error,
against runtime.go:366-368.

Others can be followed in the models, where a reader may check them, and have no run of their own.

- Queue: `fail` records the failure under `q.mu` and cancels the run after the unlock (queue.go:212). A run that drains its closed queue
  in between returns nil, although queue.go:28 says that Run returns ErrQueueFull when Push finds a full queue.
- Queue: a worker error is dropped if the parent is canceled before Run reads its error (queue.go:280, and queue.go:110 says
  worker errors are returned by Run). A parent canceled with a cause between lines 280 and 284 makes Run return this cause, where
  queue_test.go:560 expects nil of a Run whose parent is canceled with a cause.
- Accumulator: Close drops a negative remainder (accumulator.go:105), against accumulator.go:85. `Conserved` therefore asks only that no
  positive one is left.
- Retry: the first wait is not limited by MaxDelay (retry.go:136), against retry.go:31. A backoff below one shrinks the delay of
  unbounded retries to zero (retry.go:134), although NewRetry refuses those without a delay (retry.go:73).
- Throttler: with an interval of zero a call whose reading of the clock is older than that of the last call is refused
  (throttler.go:30), although throttler.go:17 says that such an interval disables throttling.
- Setup: after an initialization that failed or was cut off the state stays `initializing`, so that SetGlobal is accepted during
  shutdown, against runtime.go:718.

## Proofs

Every safety property that a run checks, refinements and action properties included, is also proved, except the one that
`runtime_parent_cause` refutes: for every value of the constants that satisfies the named assumptions of the module (disjoint
sets of calls, positive capacities, finite sets of waiters, factories among the containers, options that are not wider
than a Duration). In each module an invariant `IInv`, stronger than the property, holds at first and is kept by every action.

- `QueueProofs`: `TypeCorrect`, `NeverPanics`, `RunsAlone`, `FailureReachesRun`, `CleanRunsDrain`, `NilsExplained` (together `RunsExplained`), `ClosesAreBarriers`, and
  `QueueKeepsPromise`, the refinement of `WorkQueue`. `NoPanic` is not inductive: a Push at its send
  must be excluded when the channel is closed, which follows from the order of Close. `CloseInv` says for each stage of the once which of
  `q.closed`, `q.pushWaitDone` and the channel are closed, that a sender past its check excludes the later stages, and that at most one
  closer is inside; `RunInv` ties `running` to the run that has workers. `FailureDelivered` is inductive beside them. `ItemsInv` says where
  each item is: not accepted, at one place of the channel, in one worker's hands, or handled; with it each step that moves an
  item is a step of `WorkQueue`, and all others are stutters. `DrainedInv` says that
  a worker that has left a run without error and without an end of its context saw the channel closed and empty, which it stays;
  `ReasonsInv` extends it to all causes, each of which stays true once it was, and gives `NilsExplained`;
  `BarrierInv` what has to be over before a Close returns.
- `BufferProofs`, Buffer: `TypeCorrect`, `KeepsOnlyWindow`, `WakeupsArrive`, and `BufferIsFifo`, the refinement of `Fifo`. The lemmas on ring
  indexes replace `%` by a case distinction, and every step of the ring is mapped to a step of the
  sequence `Content` or to a stutter. `WakeupsArrive` counts: a Signal adds one to `woken` whenever a value is added and someone sleeps, and
  each value that leaves takes at most one away. Stack: `KeepsOnlyBottom`, `PopsWakeUp`, by the same lemmas about `Monitor`, and `StackIsLifo`,
  the refinement of `Lifo`.
- `RuntimeProofs`: the five safety properties of the run `runtime`, and the types. The inductive invariant has parts for where startup is
  (`Progress`), where shutdown is and what that says of every container (`Unwound`), which tasks can
  run (`TasksHoused`, `Unlaunched`), and which errors are on their way (`Reported`, `StopReported`, `Waited`).
- `SetupProofs`: `RegistrationsAreUsed` and `StartsFindValues`. `ListsOf` says for a state of a container and each kind how what was
  registered, taken and called are related: init and start hooks are the numbers from 1 up, those of shutdown
  from the last one down, and tasks are those after the ones in `c.tasks`, in order, until `c.tasks` follows them. Each step changes
  the lists of one container, and a lemma without states speaks of these lists alone. `Ready` is the rest: it becomes true when the
  first phase ends, before any start hook, and no step ends it, since whatever could is refused by then.
- `TimerProofs`, Accumulator: `NothingLost` and `FlushesAreWarranted`; the latter needs that a closed accumulator has no positive total,
  which `Conserved` says.
  Retry: `WaitsAreDurations`, `ResultsMean`, `CalledLateOnce`, `MaxDelayHolds`. Between two calls of fn another one must be left
  (`AnotherLeft`) and none was late yet (`NotLateYet`); a delay that has overflowed is the least Duration or one that is within MaxDelay
  (`DelayCapped`), so no wait is ever negative or too long.
- `PacingProofs`: `KeepsIntervals` and `RevokedNeverRun`. The first needs that `lastRun` is the latest reading among the calls that were
  allowed, although readings come in any order; the second that a timer that is armed is the current one, so that Do and Cancel
  stop whatever could still fire.
- `ServerProofs`: `HeaderSentOnce`, `ErrorsAnsweredInTime`, `StopIsTold`. The inductive invariant says that all contexts share one flag and
  that the flag is set exactly when net/http has a final header, or the response was hijacked; for Stop, that no Start serves once the
  sockets are closed, and that a connection once hijacked stays so, so that no request comes back that a returned Stop had to wait for.
- `MessagesProofs`: `DeliveredFromSnapshot`, `HandsOutBounded`, `DispatchedInOrder`. The lemmas about registries speak of any arrays
  and slices, and hold for both registries. The invariant is `Snapshot`: a slice that was taken lies in its array, has the content
  it had, and is not longer than the current slice if that is in the same array, so that `append`, which writes behind the
  current slice, writes behind every snapshot too; a deletion is safe because the next registration makes a new array.
  The bound counts the holders of slots.

Only model-checked is liveness (`CallsReturn`, `RunEnds`, `NextReleased`, `RunReturns`, `TimelyFlush`, `RunStops`,
`PublishReturns`, `DoReturns`, `LastCallRuns`, `ServerStops`), and the absence of deadlocks: TLAPS does not handle fairness and `ENABLED`.

## Not modelled

Logging, the watchdog that logs a slow shutdown with its list of running tasks, and signal delivery (a signal is a cancellation of the parent
context). Panics on wrong arguments (nil functions, empty or duplicate names, a second value of a type). Reads without an
effect: `Len`, `Closed`, `Get` of the stores. `TryAcquire`, which nothing in the library calls. Callbacks that call back into the component while it holds its
lock (they wait for themselves). A Throttler with an interval that is not positive. In `web`: bodies, `Bind`, JSON, timeouts of
connections, and the registration of routes and middleware, which has to be over before requests come; a panic of a handler. `Map` and `Set`: each method
is one critical section around one operation of a Go map, so that a model would only restate it. `env` parses strings and has no
state. The examples call the library and the test helpers have no state.

## Plan

The order was the weight of the concurrency: Queue, Buffer, Runtime with Runner, Accumulator, Bus with Semaphore, Stack, Retry; then
Dispatcher with Bus, Debouncer and Throttler, the responses and the end of the server, and the registrations. To come:

1. Proofs of what the liveness properties rest on: that a call which waits has, in every state, someone who can release it.
2. A Server and a Queue as tasks of a Runtime, whose stopping hooks call `Stop` and `Drain` as the examples do.

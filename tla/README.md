# TLA+ models of Ladybird's threads, event loop, IPC, services and streams

Ladybird is a multi-process browser. A user interface process starts helper
processes (WebContent, RequestServer, ImageDecoder, WebWorker) and talks to
them over IPC connections. Every process runs an event loop on its main thread,
and a few more threads: one that sends IPC messages, a background thread for
long computations, worker threads of the media code. This directory models that
machinery and the protocols built on it, the part of the program in which several
actors meet, and one part of LibWeb in which script and callbacks interleave, its
streams. It leaves the other engines (the rest of LibWeb, LibJS, LibGfx, ...) alone.

Paths below are relative to the repository. Every module is a translation of
the source files it names; `PROJECT.json` maps each definition to its lines.

## Inventory

| Component | State | Operations | What is hard | What makes it correct |
|---|---|---|---|---|
| `LibThreading/Thread` | `m_state`, `m_tid`, the reference count | `start`, `detach`, `join`, the destructor, the exit of the thread | `detach()` races the exit; the last reference is dropped on either side | no VERIFY fails, nobody destroys a running thread, a pthread is reaped but for one case |
| `LibCore` event loop: `EventLoop`, `ThreadEventQueue`, `EventLoopImplementationUnix` | the queue, the wake pipe, the stack of loops, `m_exit_requested` | `post_event`, `wake`, `wait_for_events`, `process`, `spin_until`, `quit`, signals | posting between the look at the queue and `poll()`; nested loops that share one queue; signals in the wake pipe | no lost wakeup; each event once and in order; every loop ends after a quit |
| `LibCore` timers: `Timer`, `EventReceiver`, `TimeoutSet` | the flags of a `Timer`, relative timeouts, the heap, indices into both | `start`, `stop`, `restart`, `set_interval`, `fire_expired`, the `TimerEvent` | a timer is changed between its expiry and its event; swap-removal; zero intervals | indices agree with the containers, started timers fire, `fire_expired` ends, no timeout is early |
| `LibThreading/WorkerThread` | `m_state` (idle, a task, working, an error, stopped), `m_stop` | `start_task`, `wait_until_task_is_finished`, the destructor | one condition variable for three kinds of waiters; `m_stop` while a task runs | one task at a time, errors are neither lost nor reported twice, everybody who waits is woken |
| `LibIPC`: `ConnectionBase`, `TransportSocket` | the send queue, unprocessed bytes and messages, deferred calls, the socket | `post_message`, `send_sync`, the read hook, `handle_messages`, `shutdown` | messages arrive in parts; a synchronous call reads what others should handle; the peer dies | once and in order; the caller gets its own response; the death of the peer is noticed |
| `LibThreading/BackgroundAction` | the queue of actions, the thread, `m_canceled`, the promise | the constructor, `cancel`, `quit_background_thread`, `quit()` of the loop | cancellation, failure, completion and the end of the loop in any order | a callback is called once, a cancellation sticks, every action settles |
| ImageDecoder (client and service) | pending promises, jobs, the process | `decode_image`, `did_decode_image`, `die`, the restart of the process | the promise is entered after a synchronous call; jobs are cancelled on another thread; a new process before the end of the old connection is seen | every promise is settled once, and settled, with its own image |
| RequestServer, LibRequests, `ResourceLoader` | active requests on both sides, the response pipe, the loader's pending loads | `load`, `start_request`, the pipe, `request_finished`, `stop`, timeouts, `ensure_connection` | two channels (messages and a pipe) with no order between them; `stop()` at any time; a full pipe; the death of the process | a load ends once, with the whole response, and ends |
| LibWeb `WritableStream` | the stream's state and requests, the controller's queue, the writer's promises | `write`, `close`, `abort`, `error`, `getWriter`, `releaseLock`, the sink's promises | script runs inside `size()`, the abort signal and the sink, and calls the stream again | no assertion fails, the sink does one thing at a time, closed means written, promises are settled |
| LibWeb `ReadableStream` (default controller) | state, read requests, the queue, `pulling` and `pull_again` | `read`, `cancel`, `enqueue`, `close`, `error`, `getReader`, `releaseLock`, the source's promises | the same, in `size()`, `pull()` and `cancel()` | chunks once and in order, close waits for the queue, the source hears of every read |
| LibWeb `TransformStream` | backpressure, the algorithms, the finish promise, both streams | `enqueue`, `terminate`, `error`, and all of both streams | backpressure is handed over by promises; two sides end independently of each other | backpressure is the absence of demand, and both sides end together |
| Notifiers, locks, ThreadedPromise, PlaybackManager | see *Not modelled* | | | |

How they interact. A connection lives on an event loop: its read hook is a
notifier of that loop and its deferred calls are events of it, so `Connection`
uses what `EventLoop` shows of the order of events. `BackgroundAction` posts its
completions to the loop it was constructed on, and `quit()` of that loop rejects
the promises of its pending actions. Background and worker threads are
`Thread` objects. `RequestProtocol` and `ImageDecoding` use connections by what
`MessageChannel` promises (order, and responses that overtake), and the service of
`ImageDecoding` uses background actions. `TransformStream` is composed of the
modules of the two streams.

`PROJECT.json` lists every component, the ones that are not modelled with the
reason, and under `hazards` the places at which this code is hard to test.

## Modules

| Module | Models | Extends or instantiates |
|---|---|---|
| `Thread` | `LibThreading/Thread.{h,cpp}` | |
| `OrderedDelivery` | abstract: what a loop promises to those who post events | |
| `EventLoop` | `LibCore/EventLoop.cpp`, `ThreadEventQueue.cpp`, `EventLoopImplementationUnix.cpp` | implements `OrderedDelivery` |
| `Timer` | `LibCore/Timer.cpp`, `EventReceiver.cpp`, the `TimeoutSet` | |
| `WorkerThread` | `LibThreading/WorkerThread.h` | |
| `MessageChannel` | abstract: what the two ends of a connection may rely on | |
| `Connection` | `LibIPC/Connection.{h,cpp}`, `TransportSocket.cpp`, `ConnectionFromClient.h` | implements `MessageChannel` |
| `BackgroundAction` | `LibThreading/BackgroundAction.{h,cpp}`, parts of `LibCore/Promise.h` | |
| `RequestProtocol` | `RequestServer/ConnectionFromClient.cpp`, `LibRequests/Request.cpp`, `RequestClient.cpp`, network requests of `LibWeb/Loader/ResourceLoader.cpp` | relies on `MessageChannel` |
| `ImageDecoding` | `LibImageDecoderClient/Client.cpp`, `ImageDecoder/ConnectionFromClient.cpp`, the restart in `LibWebView` and `WebContent/main.cpp` | relies on `MessageChannel` and on `BackgroundAction` |
| `WritableStream` | `LibWeb/Streams`: the writable part of `AbstractOperations.cpp`, `WritableStream*.cpp` | |
| `ReadableStream` | `LibWeb/Streams`: the readable part with a default controller, `ReadableStreamDefault*.cpp` | |
| `TransformStream` | `LibWeb/Streams`: the transform part of `AbstractOperations.cpp`, `TransformStream*.cpp` | instantiates `WritableStream` and `ReadableStream` |
| `ThreadLoopProofs` | theorems about `Thread`, `EventLoop`, `Timer` | extends the three |
| `ThreadingProofs` | theorems about `WorkerThread`, `BackgroundAction` | extends the two |
| `ConnectionProofs`, `RequestProtocolProofs`, `ImageDecodingProofs`, `ReadableStreamProofs`, `WritableStreamProofs` | theorems | each extends its module |
| `TransformStreamProofs` | theorems | extends `TransformStream`, instantiates the proofs of the two streams |

Conventions. Variables and actions have the source's names where there is one.
What a thread does between two points at which another can interfere is one
action: a critical section, a compare-exchange, a system call, a handler.
Variables marked *history* record what happened and are never read by a guard.
Definitions marked *mutated form* are plausible errors; no specification uses
them, and each makes some property fail when it replaces the definition after it.

**Thread.** Per thread, `owner` and `worker` are the places of the two sides that
hold a reference, `tid` the state of the pthread. `start()`, `detach()` and
`join()` are split at their atomic accesses and pthread calls: `StartSetRunning`
and `StartCreate`; `DetachWins` or `DetachLoses` and `PthreadDetach`; `JoinCall`
and `JoinReturn`. The thread's lambda is `WorkerExit` (or `WorkerDetachedExit`),
`WorkerRelease` and `WorkerReturn`, and whoever drops the last reference destroys.

**EventLoop.** `depth` frames share one `queue`; frame `d` has the local vector
`batch[d]`. The innermost one is at `place`: it looks at the exit flag and its
condition (`Iterate`, `ExecReturns`, `SpinReturns`), looks at the queue
(`ComputeTimeout`), polls (`PollWake`, `PollOther`), takes the queue (`Take`) and
handles it event by event (`Handle`, `HandleQuit`, `HandleDestroy`, `HandleSpin`,
`DropEvent`, `BatchDone`). A post from another thread is an append and a write
to the pipe (`PostAppend`, `PostWake`). `WakeRead` is the eight integers the code
reads from the pipe at once. Expired timers and notifiers are an event that
`poll()` adds. `OrderedDelivery` says that the oldest event is delivered next,
except for those that the handlers of outer frames have set aside.

**Timer.** Times are relative to now and bounded by the longest interval. The heap
is the set of the timers with index `InHeap`; relative timeouts are the sequence
`m_scheduled_timeouts` with the negative indices of the code, in which -1 is the
first. An expired timer is rescheduled and gets a `TimerEvent`, and the
event calls `on_timeout`: the two are separate actions. `stale` (history) holds the
events that were queued for an earlier run of their timer.

**WorkerThread.** A client is inside `wait_until_task_is_finished()` or not; the
owner destroys the object when nobody is, whatever the worker does at that time.
The worker's loop is split at the mutex. Condition variables may wake spuriously.

**Connection.** Each end has a main thread (`place`), a send thread (`sending`) and
the parts of messages its socket holds (`wire`). A message is `MessageParts`
writes, so a read can end within one: `Bytes`, `Whole` and `IndexAfter` are the
stash and the parser. The event queue of the end holds the activation of the
notifier ("hook") and the deferred calls ("handle", "shutdown"), in the order of
the code. A process may die at any step. `MessageChannel` says that messages
arrive once and in order, that a response may overtake, and that a failure loses
only the last ones; `Pending` maps the queue, the threads, the socket, the
stash and the two vectors to the messages on their way.

**BackgroundAction.** The background thread's loop (`LoopCheck`, `WaitForActions`,
`TakeActions`, `RunAction` or `SkipAction`, `BatchDone`), the end of an action
(`ActionReturns`, which looks at the cancellation, then `FinishComplete`,
`FinishError` or `FinishCanceled`), the constructing thread and its loop
(`Construct`, `cancel`, `RunComplete`, `RunError`, `ForgetSettled`, `QuitLoop`, `DestroyLoop`) and
`quit_background_thread()` (`QuitStore`, `QuitBroadcast`, `QuitJoin`).
`m_canceled` is a plain `bool` written by two threads. A `cancel()` lost in that
race is a step that changes nothing. `origin_event_loop` is a raw pointer: an action
whose callback is deferred to a loop that is gone is entered in `dangling` (history),
and nothing more is said of what that call does.

**RequestProtocol.** One record per request and side: `request[r]` is the `Request`
of LibRequests and what the loader does with it, `server[r]` the `ActiveRequest`.
`toServer` and `toClient` are the connection, `written - read` is what the pipe
holds. Handlers of messages are named after them; the thread of WebContent is
blocked while `waiting` names a request whose `stop()` waits, that of RequestServer
while `writing` names one whose pipe is full. A failed VERIFY is `crash`. The callback
given to `load()` may run a nested event loop, so it begins with `Complete` and ends with
`CallbackReturns`, and everything else goes on in between; callbacks of several loads
may return in any order, which allows more than a stack of nested loops does.
`load_unbuffered()` has one user, fetching, whose callback does not spin. Whether a
response has a status of 400 to 599 is chosen when its transfer starts and is told
with the headers (`refused`).

**ImageDecoding.** `client[g]` is WebContent's `Client` for the g-th ImageDecoder
process, `current` the one the plugin uses, `service` the process that runs now and
`background` its background thread. `decode_image` blocks WebContent until
`CallReturns` or `CallFails`; in the service the job is made (`make_decode_image_job`)
and then entered in `m_pending_jobs` (`EnterJob`), and the background thread may be done
with it in between. `die()` is three steps (`DieBegins`, `DieCancels`, `DieClears`). A job
that it has cancelled removes itself from `m_pending_jobs` on the background thread
(`RemoveHere`), also while `die()` iterates over that table: then `raced` holds, and the
iteration may miss any of the jobs or crash. `ServiceDies`,
`Relaunch` and `connect_to_image_decoder` are the crash and the restart.

**The streams.** The functions of `AbstractOperations.cpp` call each other in depth,
so each is an operator from the record of the stream to the record it leaves, under
its own name where TLA+ allows it. A function that calls script does so last: it pushes a frame,
and the action for the return of the script pops it and does what the code does
after the call. In between, script may call every operation of the stream. The
reactions to promises of the sink or the source are actions that need an empty
stack, as microtasks do. `Verify` records a failed assertion, and the use of a
cleared algorithm. In `ReadableStream`, `heard` and `reentered` are history.

**TransformStream.** `r` and `w` are the two streams, `t` the transform stream and its
controller. The modules of the streams are used as they are: what is script to
them is an algorithm here, which runs before anything else (`AlgorithmRuns`).
`sink_write`, `sink_close`, `sink_abort`, `source_pull` and `source_cancel` are those
algorithms; the transformer's `transform()`, `flush()` and `cancel()` are frames of
`t.stack` during which the page may call everything. After a failed assertion
nothing more happens.

## Runs

| Run | Bounds | Distinct states | Shows |
|---|---|---|---|
| `thread` | 2 threads | 3 249 | no VERIFY fails, the destructor never meets a running action, a pthread leaks only if its own thread drops the last reference without having been detached; `join()` returns |
| `event_loop` | 2 posters, 3 events, 2 signals, 3 frames, reads of 2 | 56 650 | no lost wakeup; `OrderedDelivery`; all events are handled in the end; quits and spins end |
| `timer` | a single shot and a repeating timer, intervals 0 to 2 | 255 680 | indices agree, started timers are scheduled and fire, `fire_expired` ends, a timeout is early only by a stale event |
| `worker_thread` | 2 clients, 3 tasks, destroyed at any time | 2 948 | one task at a time, errors accounted for, waits are sound and end, the destructor returns unless a task runs when it stops the worker |
| `connection` | 2 messages per end and 2 parts each, either end dies at any step | 145 373 | `MessageChannel`, own responses, all messages arrive unless an end fails, deaths are noticed, synchronous calls return unless the peer dies within a message |
| `background_action` | 3 actions, 2 with a completion callback, one quit of the thread and one of the loop | 232 537 | callbacks once, cancellations stick, actions settle, `quit_background_thread()` returns |
| `requests` | a buffered request with a timeout and an unbuffered one of 2 chunks, a pipe of 1 chunk, responses of 400 to 599, one preconnection, the death of RequestServer | 678 134 | a load ends once, with the whole response and the right one of its two callbacks, the loader counts its loads, every load ends but for the named exceptions |
| `requests_stop` | the same without deaths and malformed URLs | (violation) | a stop during a download makes an assertion of RequestServer fail |
| `image_decoding` | 3 images, 2 processes | 193 017 | promises are settled once, each with its own image, and all but those of a client that `set_client()` destroys; `m_pending_jobs` is what the service works on, and `die()` cancels all of it unless the table changes under it |
| `writable_stream` | 4 writes, 2 writers, script nested 3 deep, high water mark 2 | 48 111 | no assertion fails, one sink call at a time and no new one once the stream is in error, the two queues agree, closed means written, promises settle |
| `readable_stream` | 3 chunks, 3 reads, 2 readers, script nested 3 deep, high water mark 1 | 184 760 | no assertion fails, chunks in order, close drains, one `pull()` at a time and none missed |
| `transform_stream` | 2 writes, 2 reads, 2 chunks, script nested 2 deep, high water marks 1 | 323 593 | backpressure is the absence of demand, both sides end together, assertions fail only in the cases below |

Why the bounds are enough. The races are between two parties and one object, so
two of each kind make every pair meet, and a third event, task or action shows
what the second one leaves behind. `event_loop` needs two signals to fill a read
of two, the case in which the loop starts over, and three frames to have one that
is neither the first nor the last. Interval 0 is a case of its own in
`fire_expired`, and 2 is the shortest that an event can cut short by more than the
grain of the clock. Two parts are one that arrives and one that does not. A pipe of
one chunk is full and empty in turn. Two ImageDecoder processes are the old and the
new one. Script nested twice is a call from within a callback of a callback, the
first depth at which a frame returns to script that is itself inside the stream. With high water mark 2 the
fourth write of `writable_stream` is one that waits behind a full queue; with 1,
`readable_stream` pulls both for its queue and for reads that wait. What
does not depend on the number is proved below, where a proof exists.

Each run checks the properties that its line in `PROJECT.json` names. An invariant
is a conjunction of named parts (`StreamConsistent` of `WritableStream` is the type
invariant, `AssertionsHold`, `SinkOneAtATime` and `RequestsMatchQueue`), so that a
counterexample can be traced to one of them, and the liveness properties of a
component that rest on the same fairness are one property.

Deadlock checking is off where the system may rest: a loop nobody posts to, a
connection nobody uses, a thread that was joined.

### Disagreements with comments, assertions, tests and documents

`requests_stop` is the one that has a run of its own: `on_data_received()` says with
`VERIFY_NOT_REACHED()` that a write to the pipe cannot fail, but `Request::stop()`
closes the read end before RequestServer has handled `stop_request`.

The others are exceptions that a property of a passing run names, so that nothing
but the exception is possible. The first of `Thread` is listed as a finding as well,
and so are the two of `TransformStream`, since a page can cause them; that both are
reached is seen by checking `t.crash # "verify"` and `t.crash # "algorithm"` as
invariants, which TLC refutes in 11 and in 6 states.

- `TransformStream.FailuresNamed`, `AssertionsHold`: `transform_stream_default_controller_enqueue`
  asserts `VERIFY(backpressure)` (`AbstractOperations.cpp:4915`). After a chunk has
  met the demand of a `pull()`, and before the reaction to that `pull()` runs, two
  calls of `read()` and one of `enqueue()` in the same turn make it fail.
- `TransformStream.FailuresNamed`, `NullAlgorithmOnlyWhenEndsMeet`: algorithms are called
  after they were cleared, so `ASSERT(m_ptr)` of `GC::Ptr::operator->`
  (`LibGC/Ptr.h:168`) fails, or a release build uses the null pointer: a write or a close
  while the transformer's `cancel()`, called for the readable side, is pending; a cancel
  of the readable side after `flush()` or after `terminate()` with chunks left; an abort
  that waits for `start()` or a transform while the stream fails
  (`AbstractOperations.cpp:4995`, `:5161`).
- `Timer.EarlyOnlyByStaleEvent`: a timer stopped and started between its expiry and
  its event takes the old event for its own (`EventReceiver.cpp:45`).
- `WorkerThread.CallsReturn`: destroyed while its task runs, the worker waits
  for a second broadcast and the destructor for the worker (`WorkerThread.h:70`).
- `Connection.NobodyWaitsForever`: when the peer dies within a message, the stashed
  part makes every read a success and a synchronous caller spins
  (`Connection.cpp:153`). And with `SyncEnds = {"client", "server"}` two synchronous
  calls that cross wait for each other.
- `Thread.DestroyedAfterExit`: "Dropping a running thread crashes because of the
  Function destructor" (FIXME at `TestThread.cpp:58`), and `~Thread` logs "while it is
  still running undetached" (`Thread.cpp:23`). Neither can be: the lambda of `start()`
  holds a reference until its action has returned and `m_state` is final, so the
  destructor, and with it that of the action, never meets a running thread.
- `Thread.LeakedOnlyBySelfJoin`: what a dropped running thread does instead. Its own
  lambda drops the last reference, `~Thread` runs on the thread itself, its `join()` fails
  with EDEADLK, which is ignored, and the pthread is never reaped. The same happens after
  a `detach()` that finds the thread `Exited` but still holding its reference: it returns
  without detaching, although `TestThread.cpp:56` expects of a detached thread that it
  need not be joined. When the owner's reference is the last, its destructor joins.
- `RequestProtocol.LoadsEnd`: a request that RequestServer drops because curl or the
  pipe cannot be set up, or that is active when RequestServer dies, never ends.
- `RequestProtocol.LoadsEnd`: the note at `ResourceLoader.cpp:430` says that
  a nested event loop inside a callback must not destroy the function that is being
  called. The timer of the request can: `stop()` in that loop clears
  `m_internal_stream_data`, whose `on_finish` is being executed, and the VERIFY of
  `Function::clear()` fails (`TimeOutInCallback`). No caller sets a timeout today.
- `ImageDecoding.JobsTracked`: after a cancelled job has removed itself while `die()` iterates,
  jobs may be left that were not cancelled, or the process may crash. The client is gone
  by then, so no promise depends on it (`ConnectionFromClient.cpp:28`, `:145`).

Two are not expressed by a property. `EventLoop.md:21` says that pending events go
back to the queue when an exit was requested, but `ThreadEventQueue::process`
handles all of them. And `BackgroundAction` says that an action without
completion callback does not need its event loop, but defers its error to it
(`CallbackOnce` shows that no action cancelled in time uses a loop that is gone; one that
fails without a completion callback, or had returned before the quit, may).

A property that names an exception does not catch that exception: `CallsReturn` does not
show that the destructor of a worker with a running task returns, `LoadsEnd` nothing of
requests dropped, of a dead server, of the deadlock of a full pipe with a stop, or after a
crash, `PromisesSettle` of images nothing of a client that `set_client()` has destroyed,
`EndsTogether` nothing after a failed assertion or of an abort behind a write that never ends.
And `ReadsAccounted` shows that a read made within `size()` fails no assertion and is not
lost, not that it gets the chunk whose size is being computed.

### Hazards without a property

`PROJECT.json` lists the hazards that properties are about. These were seen and are
beyond the models: a wake pipe that is full blocks a poster; a handler that spins
for an event in the vector of an outer frame waits for ever; `m_canceled` is a plain
`bool` written by two threads; a connection is destroyed while its send thread
writes; a read hook defers the shutdown before it handles the last messages; a
notifier is unregistered while its activation is queued.

## Fairness

Threads that can run do run (weak fairness of the steps of each thread); handlers,
tasks and actions return. Nobody has to post, start, cancel, quit, die or send a
signal, `poll()` need not see a notifier, and no spurious wakeup has to come.
Weak fairness is not enough in two modules, which interleave work at a finer grain
than the code does it. In `Connection` the loop polls between two batches of
events, however many are deferred, so `Poll` is strongly fair. In `Timer` the
batch of events is finite and each of its events is handled before the loop
polls again, so the event of a timer, the start of an iteration and the passing
of time are strongly fair; without this, calls that start timers again and again
could keep the loop from polling, which the code's loop does not let them do.
`EventsHandled` assumes that nested loops return to the outermost one: a handler
that spins for ever keeps the events of its batch for ever. `CallsReturn` of the
worker thread relies on boundedly many tasks: a client that starts one after the
other can keep another one waiting.

In `RequestProtocol` and `ImageDecoding` each process goes on, transfers of curl end
and decoders end (curl and the codecs are external); nobody has to die, to
time out or to be restarted. In the streams script returns and the page's sink,
source or transformer settles the promises it gave; nobody has to read, write or
close. `WritableStream` and `TransformStream` write weak fairness out, with a state
predicate `Runnable` in the place of ENABLED, because TLC evaluates ENABLED of
deeply nested operators too slowly; that the two are equal was checked as an
invariant of both instances.

## Theorems

All proofs are checked by TLAPS, for every value of the constants.

- `ThreadLoopProofs`, threads: `ThreadTypeCorrect`, `ThreadSafety`
  (`NoVerifyFailure`), `DestructionSafe`
  (`DestroyedAfterExit`), `Reaping` (`LeakedOnlyBySelfJoin`), for any set of threads. None
  of these is inductive: that the compare-exchange of an exiting thread finds
  `Running` or `Detached` depends on who still holds a reference, and that
  `pthread_detach` may be called on who won the race for `m_state`. `WorkerInv`,
  `OwnerInv` and `TidInv` relate the two places, `m_state` and the pthread. `Reaping` says for
  which ends of the two sides the pthread is left, in both directions.
- `ThreadLoopProofs`, the loop: `TypeCorrect`, `Wakeup` (`NoLostWakeup`) and `Implements`
  (`EventLoop` implements `OrderedDelivery`), for any posters, number of events and
  signals, depth of nesting and size of reads (`BoundsAssumption`: these are
  natural numbers, depth and size positive). `Ordered` is the heart: the vectors of
  the frames from the outermost one inwards, followed by the queue, hold the events
  that are not done, each once and in ascending order. Then the head of the
  innermost vector is the oldest event not set aside (`HeadIsOldest`), a handler
  that nests sets aside events older than those of the queue (`SpinDelivers`), and
  a return gives back the youngest of those (`SpinReturnUnnests`).
- `ThreadLoopProofs`, timers: `Consistent` (`TimersConsistent`) and `NotEarly`
  (`EarlyOnlyByStaleEvent`), for any set of timers and longest interval.
  `TimersConsistent` is inductive; the work is in `Unscheduled`, the swap-removal of
  a relative timeout, which may remove the last element itself. That a timeout is
  not early needs `DueInv` (what is left and what has passed make up the interval)
  and `EventInv` (the timer of an event that is not stale has run for its interval).
- `ThreadingProofs`, the worker thread: `WTTypeCorrect`, `OneTask` (`OneTaskAtATime`), `Errors`
  (`ErrorAccounted`) and `WaitSound` (`WaitMeansDone`), for any set of clients and
  number of tasks (`WorkerAssumption`). The invariant adds that a client's ticket is
  that of a started task and that the object is destroyed only when no client is in
  a member function.
- `ThreadingProofs`, background actions: `CallbacksOnce` (`CallbackOnce`), for any number of
  actions and of calls that quit the thread. An action in the queue twice would
  be called twice only steps later, so the invariant says that the queue and the
  batch are in the order of construction (`QueueInv`), that an action has one event
  at most (`EventInv`), and what an action cancelled in time can still do (`CancelInv`).
- `ConnectionProofs`: `OwnResp` (`OwnResponse`) and `Refinement` (`Connection`
  implements `MessageChannel`, the property `MessagesInOrder`), for any number of
  messages and of parts of a message, whichever ends make synchronous calls and may
  die (`ConnectionAssumption`). The mapping `Pending` takes the bytes of the stash
  apart, which works because the stream to a live end ends with a whole message
  (`Aligned`). `Called` says that a synchronous call is in exactly one place: a request
  on its way or being handled (`Asking`), or a response on its way back (`Answering`);
  then what a caller finds is its own answer (`Found`). `Placed` adds what the main
  thread still holds at each place. The refinement is shown action by action: reads,
  writes and hooks move messages within `Pending` and stutter, handlers and callers
  deliver, calls post, and a shutdown or a death makes the channel fail.
- `RequestProtocolProofs`: `Accounted` (`LoadsAccounted`) and `Released`
  (`StopReleases`), for any finite set of requests, bodies of any length and any size
  of the pipes (`RequestAssumption`). Messages and the pipe have no common order and
  there are records on both sides, so the invariant goes by the phases of a request:
  `Fresh`, `Starting`, `Serving`, `Ending`, `Answered`, `Finishing`, `Settled` and
  `Cleaning` say of each which messages can still be on their way and what the
  records on both sides then hold; in particular, when the end of the pipe is seen,
  the server writes no more and all it wrote was read. The messages of a request keep the
  order of its life in each channel (`Ordered`), so that none is there twice. That a stop releases the
  transfer rests on `Stopping`: when the response to `stop_request` is there, the
  server has no transfer for that request and no `start_request` ahead of it. That the
  right callback is called rests on `RefusedInv`: what the client was told of the
  response code, or will be by the headers on their way, is what the server knows; and a
  load ends only when all that was written has been read, so an empty payload is an
  empty body.
- `ImageDecodingProofs`: `Tracked` (`PromisesTracked`) and `TableTracksJobs`
  (`JobsTracked`), for any set of images and number of processes. A
  promise is settled once because it has one owner (`OneOwner`), and with its own image
  because everything a process has still to say under an id is about the image
  that WebContent has under it (`Matching`), which needs the ids of a process to be
  new (`Fresh`) and nothing to be known of processes to come (`Later`). That the table is
  right needs a job to be in one place only (`JobsOnce`: the removal of its id must not
  hide another), and that nothing is cancelled before `die()` (`Table`).
- `ReadableStreamProofs`: `NoReadLost` (`ReadsAccounted`), `InOrder` (`ChunksInOrder`)
  and `ReadsAnnounced` (`NoReadUnheard`), for any number of chunks, reads and readers, any
  nesting of script and any high water mark. The functions of the stream hand a
  state to each other in the middle of their work, so the invariant is a predicate on
  any such state: `Safe(s, held, chunk)`, where `held` and `chunk` are the read and the
  chunk that a function has taken out of the stream and not yet delivered. There is
  one lemma per function, and an action composes a few of them.
- `WritableStreamProofs`: `Consistent` (`StreamConsistent`), `Informed`
  (`WriterInformed`) and `SinkStopped` (`ErrorStopsSink`), for any number of writes and
  writers, any nesting and any high water mark. `Safe(s)` is again a predicate on any state. Its
  heart is `Lined`: the requests are numbered in order, and the queue holds the chunk
  in flight, the chunks of the next requests and the close sentinel. A write whose
  size is invalid is a request without a chunk, so the two agree only while the
  stream is writable, and what the functions that put it in error start from is weaker
  (`Failing`, `Erring`). `Asserted` says for how long the algorithms are needed: until
  the close is in flight, or the abort that waits has been made. `SinkStopped` compares
  the request in flight before and after a step, so a chunk handed to the sink in the
  step that ends the write before it counts as a new one; `LastWrite` says that none is.
- `TransformStreamProofs`: `Sides` (each step is a step of `ReadableStream` and one
  of `WritableStream`, or leaves that side alone), `Demand`
  (`BackpressureFollowsDemand`) and `Failing` (`FailuresNamed`), for any number of
  writes, reads and chunks, any nesting of script and any high water marks
  (`TransformBounds`). `Demand` is about the moments at which no algorithm runs; the invariant
  says what holds in between: during `pull()` the demand is there and the
  backpressure not yet gone, while a chunk is enqueued the demand is gone and the
  backpressure not yet back (`Held`, `Pulled`, `Demanded`, `Finishing`).
  `Failing` uses the inductive invariants of the two streams, which `Sides` carries
  over to their instances, so that no VERIFY of theirs fails whatever the
  transformer does. What is new relates the sides: how the frames of the three
  nest (`Flat`), which algorithm a side waits for and what the transform stream then has
  promised (`Served`, `Promised`, `Canceling`), and who can have cleared the
  algorithms (`Cleared`, `Flushed`). The named failures are what is left: every
  other call of an algorithm finds it.

Assumptions. The proofs use the named assumptions of the modules on their constants
(that bounds are natural numbers, sets of threads and timers as declared) and no
others. The inductive invariants were checked by TLC on the instances of the runs
before they were proved.

What the proofs changed. `CASE` with guards that overlap leaves the choice of the
arm open, which TLC does not show, since it takes the first one; four functions of the
streams are now written with `IF`, as the source does. `RequestsMatchQueue` compares
the queue without its sentinel with the requests directly. The ids of `ImageDecoding` are
natural numbers without a bound, and `ImageAssumption` asks of `None` that it be none of the values
it stands beside. `RequestProtocol` states the types of its records
and the assumption on its constants, and `CallbacksInOrder` compares the
callbacks by their indices. `Connection` names what a live end
is and what is on its way to it (`Live`, `Incoming`). `TransformBounds` asks for script
nested once at least: without it the transformer cannot be called. Names of
`WorkerThread`, `Thread` and `Timer` that others also use have a prefix, so that
modules can be extended together.

Only model-checked:

- all liveness properties (`ThreadsReaped`, `EventsHandled`, `LoopsReturn`, `TimersFire`,
  `CallsReturn`, `NobodyWaitsForever`, `ActionsSettle`, `LoadsEnd`, `EndsTogether`, `ReadsHeard`,
  both `PromisesSettle`): the prover has no rules for fairness.

Every invariant that a run checks is also proved, and so are the action properties and
the two refinements. None of the modules uses RECURSIVE, so all can be proved about.

## Plan

1. Proofs: the safety properties of the runs are proved. What is worth adding are
   lemmas on which liveness rests (`Runnable` is the ENABLED of `Step`), once the prover
   has rules for it.
2. An abstract specification of a background action (queued, run, settled once),
   implemented by `BackgroundAction`, to be used by `ImageDecoding`.
3. Notifiers (registration, swap-removal, activations queued when a notifier is
   disabled), PlaybackManager with SharedCircularQueue and ThreadedPromise, the task
   queues of `LibWeb/HTML/EventLoop`, byte streams, `tee()` and `pipeTo()`.

## Not modelled

- Connections: the file descriptors passed along, the responsiveness timer, the
  destruction of a connection object, non-blocking sockets, messages that do not
  parse. The sockets of the services block, so a send is not given up; only
  `MessagePort` of LibWeb uses another kind.
- The event loop: a wake pipe that is full, `deferred_invoke` as something other
  than an event, and the backends for Windows, Qt, macOS and Android.
- Timers: the layout of the heap, timers that fire only when their owner is
  visible, the destruction of an owner, nested loops in timer handlers.
- Thread priorities and names; `Promise::map` and `Promise::await` as such
  (`await` is a nested loop of `EventLoop`).
- Requests: web sockets, which forward each message under its id, certificate
  requests, which RequestServer never makes, file and data URLs, the resource cache.
- Images: `cancel_decoding`, which nobody sends, and the decoding itself.
- Streams: byte streams and BYOB readers, `tee()`, `pipeTo()` (its implementation
  reads all chunks and then writes them), transfer, async iteration, and script that
  runs because a chunk or a promise has a `then` of its own. Sizes of chunks are 1 or
  invalid. In `TransformStream` the strategies have no `size()` of the page.
- Notifiers, RWLock, ThreadedPromise, SharedCircularQueue, PlaybackManager, the HTML
  event loop: candidates, see the plan.
- LibJS, LibWasm, LibGfx, LibCrypto, LibTLS, LibUnicode, the rest of LibWeb (parsers,
  DOM, CSS, layout, painting), the user interfaces and AK: sequential code, numerical
  code or transliterations of standards, for which TLC is the wrong tool.

The last group is nearly all of the repository, more than 600 000 lines. The map
therefore covers well under one percent of it, and about a third of the files of the
components that are modelled; a large share of the whole is out of reach of models that stay
faithful to the code.

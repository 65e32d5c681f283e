------------------------------ MODULE EventLoop ------------------------------
(***************************************************************************)
(* One thread that runs Core::EventLoop (EventLoop.cpp, ThreadEventQueue.  *)
(* cpp and EventLoopImplementationUnix.cpp of Libraries/LibCore) and the   *)
(* threads that post events to it.                                         *)
(*                                                                         *)
(* The loop repeats: look whether events are pending, poll, read the wake  *)
(* pipe, queue events for timers and notifiers, move the whole queue into  *)
(* a local vector and handle it in order.  A handler may run the loop      *)
(* again (EventLoop::spin_until, Promise::await): the frames of the nested *)
(* loops form a stack and all of them share the queue of the thread.       *)
(*                                                                         *)
(* Events are numbered in the order in which they enter the queue.         *)
(***************************************************************************)
EXTENDS Naturals, Sequences

CONSTANTS
    Posters,        \* the threads that post to the loop
    MaxEvents,      \* bound: events posted in a behaviour
    MaxDepth,       \* bound: frames on the stack; 1 means no nested loop
    MaxSignals,     \* bound: POSIX signals received in a behaviour
    WakeRead        \* the number of integers read from the wake pipe at once

ASSUME BoundsAssumption ==
    /\ MaxEvents \in Nat
    /\ MaxDepth \in Nat \ {0}
    /\ MaxSignals \in Nat
    /\ WakeRead \in Nat \ {0}

VARIABLES
    posted,         \* number of events posted so far
    queue,          \* ThreadEventQueue::Private::queued_events
    place,          \* where the innermost frame is in its loop
    depth,          \* number of frames on the stack
    batch,          \* batch[d]: the part of the local vector of frame d to do
    goal,           \* goal[d]: the event the spin_until of frame d waits for
    forever,        \* wait_for_events: should_wait_forever
    pipe,           \* the wake pipe
    poster,         \* poster[p]: "appended" between the two halves of post_event
    signals,        \* number of signals received so far
    gone,           \* the events whose receiver was destroyed
    handled,        \* the events whose handler was called
    dropped,        \* the events dropped because the receiver was gone
    m_exit_requested

loopVars == <<place, depth, batch, goal, forever, gone, handled, dropped,
              m_exit_requested>>
vars == <<posted, queue, place, depth, batch, goal, forever, pipe, poster,
          signals, gone, handled, dropped, m_exit_requested>>

Depths == 1 .. MaxDepth
Events == 1 .. MaxEvents
Places == {"check", "pending", "poll", "take", "handle", "returned"}

Init ==
    /\ posted = 0
    /\ queue = <<>>
    /\ place = "check"
    /\ depth = 1
    /\ batch = [d \in Depths |-> <<>>]
    /\ goal = [d \in Depths |-> 0]
    /\ forever = FALSE
    /\ pipe = <<>>
    /\ poster = [p \in Posters |-> "idle"]
    /\ signals = 0
    /\ gone = {}
    /\ handled = {}
    /\ dropped = {}
    /\ m_exit_requested = FALSE

done == handled \union dropped

(* ThreadEventQueue::post_event, under the mutex of the queue: n new events. *)
Enqueue(n) ==
    /\ posted + n <= MaxEvents
    /\ posted' = posted + n
    /\ queue' = IF n = 0 THEN queue ELSE Append(queue, posted + 1)

-----------------------------------------------------------------------------
(***************************************************************************)
(* Mutated forms of the definitions below: leaving the loop over the       *)
(* vector when the exit was requested, copying the queue instead of moving *)
(* it, waiting although events are pending, and dropping each half of the  *)
(* condition of spin_until.                                                *)
(***************************************************************************)

BreakOnExit ==
    /\ place = "handle"
    /\ batch[depth] = <<>> \/ m_exit_requested
    /\ place' = "check"
    /\ UNCHANGED <<posted, queue, depth, batch, goal, forever, pipe, poster,
                   signals, gone, handled, dropped, m_exit_requested>>

CopyQueue ==
    /\ place = "take"
    /\ batch' = [batch EXCEPT ![depth] = queue]
    /\ place' = "handle"
    /\ UNCHANGED <<posted, queue, depth, goal, forever, pipe, poster, signals,
                   gone, handled, dropped, m_exit_requested>>

IgnorePending(timer) ==
    /\ place = "pending"
    /\ forever' = ~timer
    /\ place' = "poll"
    /\ UNCHANGED <<posted, queue, depth, batch, goal, pipe, poster, signals,
                   gone, handled, dropped, m_exit_requested>>

SpinIgnoresExit ==
    IF depth = 1 THEN m_exit_requested ELSE goal[depth] \in handled

-----------------------------------------------------------------------------
(***************************************************************************)
(* Other threads.  EventLoopImplementationUnix::post_event appends to the  *)
(* queue, then wake() writes a zero to the pipe; handle_signal writes the  *)
(* signal number.                                                          *)
(***************************************************************************)

PostAppend(p) ==
    /\ poster[p] = "idle"
    /\ Enqueue(1)
    /\ poster' = [poster EXCEPT ![p] = "appended"]
    /\ UNCHANGED <<loopVars, pipe, signals>>

PostWake(p) ==
    /\ poster[p] = "appended"
    /\ pipe' = Append(pipe, "wake")
    /\ poster' = [poster EXCEPT ![p] = "idle"]
    /\ UNCHANGED <<loopVars, posted, queue, signals>>

handle_signal ==
    /\ signals < MaxSignals
    /\ signals' = signals + 1
    /\ pipe' = Append(pipe, "signal")
    /\ UNCHANGED <<loopVars, posted, queue, poster>>

-----------------------------------------------------------------------------
(***************************************************************************)
(* The loop thread.                                                        *)
(***************************************************************************)

(* exec() returns when the exit was requested; spin_until() also when its  *)
(* condition, the delivery of an event, holds.                             *)
MustReturn ==
    m_exit_requested \/ (depth > 1 /\ goal[depth] \in handled)

Iterate ==
    /\ place = "check"
    /\ ~MustReturn
    /\ place' = "pending"
    /\ UNCHANGED <<posted, queue, depth, batch, goal, forever, pipe, poster,
                   signals, gone, handled, dropped, m_exit_requested>>

ExecReturns ==
    /\ place = "check"
    /\ MustReturn
    /\ depth = 1
    /\ place' = "returned"
    /\ UNCHANGED <<posted, queue, depth, batch, goal, forever, pipe, poster,
                   signals, gone, handled, dropped, m_exit_requested>>

(* The handler that called spin_until goes on, and so does its frame. *)
SpinReturns ==
    /\ place = "check"
    /\ MustReturn
    /\ depth > 1
    /\ depth' = depth - 1
    /\ goal' = [goal EXCEPT ![depth] = 0]
    /\ place' = "handle"
    /\ UNCHANGED <<posted, queue, batch, forever, pipe, poster, signals, gone,
                   handled, dropped, m_exit_requested>>

(* has_pending_events and the timeout; timer says whether any timer runs. *)
ComputeTimeout(timer) ==
    /\ place = "pending"
    /\ forever' = (queue = <<>> /\ ~timer)
    /\ place' = "poll"
    /\ UNCHANGED <<posted, queue, depth, batch, goal, pipe, poster, signals,
                   gone, handled, dropped, m_exit_requested>>

(* What one read of the wake pipe returns. *)
WakeEvents ==
    SubSeq(pipe, 1, IF Len(pipe) < WakeRead THEN Len(pipe) ELSE WakeRead)

WakeRequested == \E i \in DOMAIN WakeEvents : WakeEvents[i] = "wake"

(* Mutated form of PollWake: "goto try_select_again" for "goto retry". *)
SelectAgain(n) ==
    /\ place = "poll"
    /\ pipe # <<>>
    /\ Enqueue(n)
    /\ pipe' = SubSeq(pipe, Len(WakeEvents) + 1, Len(pipe))
    /\ place' = IF ~WakeRequested /\ Len(WakeEvents) = WakeRead
                  THEN "poll" ELSE "take"
    /\ UNCHANGED <<depth, batch, goal, forever, poster, signals, gone, handled,
                   dropped, m_exit_requested>>

(* poll() finds the wake pipe readable.  dispatch_signal calls the signal  *)
(* handlers at once, and they may post to this loop without waking it, as  *)
(* may notifiers and timers.  A read full of signals starts over.          *)
PollWake(n) ==
    /\ place = "poll"
    /\ pipe # <<>>
    /\ Enqueue(n)
    /\ pipe' = SubSeq(pipe, Len(WakeEvents) + 1, Len(pipe))
    /\ place' = IF ~WakeRequested /\ Len(WakeEvents) = WakeRead
                  THEN "pending" ELSE "take"
    /\ UNCHANGED <<depth, batch, goal, forever, poster, signals, gone, handled,
                   dropped, m_exit_requested>>

(* poll() returns for a notifier or because of its timeout, and an event   *)
(* is queued for the notifier or the expired timer; nothing need be ready  *)
(* when a timeout ends.                                                    *)
PollOther(n) ==
    /\ place = "poll"
    /\ pipe = <<>>
    /\ n = 1 \/ ~forever
    /\ Enqueue(n)
    /\ place' = "take"
    /\ UNCHANGED <<depth, batch, goal, forever, pipe, poster, signals, gone,
                   handled, dropped, m_exit_requested>>

(* ThreadEventQueue::process moves the queue into its local vector. *)
Take ==
    /\ place = "take"
    /\ batch' = [batch EXCEPT ![depth] = queue]
    /\ queue' = <<>>
    /\ place' = "handle"
    /\ UNCHANGED <<posted, depth, goal, forever, pipe, poster, signals, gone,
                   handled, dropped, m_exit_requested>>

BatchDone ==
    /\ place = "handle"
    /\ batch[depth] = <<>>
    /\ place' = "check"
    /\ UNCHANGED <<posted, queue, depth, batch, goal, forever, pipe, poster,
                   signals, gone, handled, dropped, m_exit_requested>>

(* The next event of the vector, whose receiver is still there. *)
HandleNext(e) ==
    /\ place = "handle"
    /\ batch[depth] # <<>>
    /\ e = Head(batch[depth])
    /\ e \notin gone
    /\ handled' = handled \union {e}

(* A handler that may post to its own loop, which needs no wake(). *)
Handle(e, n) ==
    /\ HandleNext(e)
    /\ Enqueue(n)
    /\ batch' = [batch EXCEPT ![depth] = Tail(@)]
    /\ UNCHANGED <<place, depth, goal, forever, pipe, poster, signals, gone,
                   dropped, m_exit_requested>>

(* A handler that calls EventLoop::quit. *)
HandleQuit(e) ==
    /\ HandleNext(e)
    /\ batch' = [batch EXCEPT ![depth] = Tail(@)]
    /\ m_exit_requested' = TRUE
    /\ UNCHANGED <<posted, queue, place, depth, goal, forever, pipe, poster,
                   signals, gone, dropped>>

(* A handler that destroys the receiver of another event. *)
HandleDestroy(e, f) ==
    /\ HandleNext(e)
    /\ f \in 1 .. posted /\ f # e
    /\ f \notin done \union gone
    /\ gone' = gone \union {f}
    /\ batch' = [batch EXCEPT ![depth] = Tail(@)]
    /\ UNCHANGED <<posted, queue, place, depth, goal, forever, pipe, poster,
                   signals, dropped, m_exit_requested>>

(* A handler that calls spin_until and waits for another event, which may  *)
(* not have been posted yet.                                               *)
HandleSpin(e, g) ==
    /\ HandleNext(e)
    /\ depth < MaxDepth
    /\ g # e /\ g \notin done
    /\ batch' = [batch EXCEPT ![depth] = Tail(@)]
    /\ depth' = depth + 1
    /\ goal' = [goal EXCEPT ![depth + 1] = g]
    /\ place' = "check"
    /\ UNCHANGED <<posted, queue, forever, pipe, poster, signals, gone, dropped,
                   m_exit_requested>>

(* "Receiver disappeared, drop the event on the floor." *)
DropEvent(e) ==
    /\ place = "handle"
    /\ batch[depth] # <<>>
    /\ e = Head(batch[depth])
    /\ e \in gone
    /\ dropped' = dropped \union {e}
    /\ batch' = [batch EXCEPT ![depth] = Tail(@)]
    /\ UNCHANGED <<posted, queue, place, depth, goal, forever, pipe, poster,
                   signals, gone, handled, m_exit_requested>>

-----------------------------------------------------------------------------

LoopStep ==
    \/ Iterate \/ ExecReturns \/ SpinReturns
    \/ \E timer \in BOOLEAN : ComputeTimeout(timer)
    \/ \E n \in {0, 1} : PollWake(n) \/ PollOther(n)
    \/ Take \/ BatchDone
    \/ \E e \in Events :
         \/ \E n \in {0, 1} : Handle(e, n)
         \/ HandleQuit(e)
         \/ \E f \in Events : HandleDestroy(e, f) \/ HandleSpin(e, f)
         \/ DropEvent(e)

PosterStep(p) == PostAppend(p) \/ PostWake(p)

Next == LoopStep \/ handle_signal \/ \E p \in Posters : PosterStep(p)

(***************************************************************************)
(* The scheduler runs the loop thread whenever it is not blocked, and a    *)
(* poster that has appended an event goes on to wake the loop.  Nobody is  *)
(* obliged to post, and poll() is not obliged to see a timer or notifier.  *)
(***************************************************************************)
LoopProgress ==
    \/ Iterate \/ ExecReturns \/ SpinReturns
    \/ \E timer \in BOOLEAN : ComputeTimeout(timer)
    \/ PollWake(0)
    \/ ~forever /\ PollOther(0)
    \/ Take \/ BatchDone
    \/ \E e \in Events : Handle(e, 0) \/ DropEvent(e)

Fairness ==
    /\ WF_vars(LoopProgress)
    /\ \A p \in Posters : WF_vars(PostWake(p))

Spec == Init /\ [][Next]_vars /\ Fairness

-----------------------------------------------------------------------------

QueueTypes ==
    /\ posted \in Nat
    /\ queue \in Seq(Nat)
    /\ batch \in [Depths -> Seq(Nat)]
    /\ pipe \in Seq({"wake", "signal"})
    /\ poster \in [Posters -> {"idle", "appended"}]
    /\ signals \in Nat

FrameTypes ==
    /\ place \in Places
    /\ depth \in Depths
    /\ goal \in [Depths -> Nat]
    /\ forever \in BOOLEAN
    /\ m_exit_requested \in BOOLEAN

EventTypes == gone \subseteq Nat /\ handled \subseteq Nat /\ dropped \subseteq Nat

IdleFrames == \A d \in Depths : d > depth => batch[d] = <<>>

(* Every variable has its type, and a frame that has returned has handled  *)
(* the whole of its vector.                                                *)
TypeOK == QueueTypes /\ FrameTypes /\ EventTypes /\ IdleFrames

(* No lost wakeup: a loop that sleeps in poll() without a timeout although *)
(* its queue is not empty is about to be woken, because the pipe has       *)
(* something to read or the poster is between append and wake().           *)
NoLostWakeup ==
    place = "poll" /\ forever /\ queue # <<>> =>
        pipe # <<>> \/ \E p \in Posters : poster[p] = "appended"

(* The events that the frames below the innermost one have still to do. *)
Aside ==
    UNION {{batch[d][i] : i \in DOMAIN batch[d]} : d \in 1 .. (depth - 1)}

Delivery == INSTANCE OrderedDelivery WITH aside <- Aside

(* Every event that enters the queue is delivered or dropped at most once  *)
(* and in the order of posting, except for those in the local vector of a  *)
(* frame whose handler runs a nested loop; whatever threads post and       *)
(* whenever signals arrive, no event disappears between queue and vector.  *)
DeliversInOrder == Delivery!Spec

(* If nested loops always return to the outermost one, every posted event  *)
(* is handled or dropped, unless the loop is told to exit.                 *)
EventsHandled ==
    []<>(depth = 1) =>
        \A e \in Events : posted >= e ~> (e \in done \/ m_exit_requested)

(* A quit() ends every loop of the stack: each spin_until returns after    *)
(* the rest of its vector, and in the end exec() returns.  The innermost   *)
(* spin_until also returns once its condition holds.                       *)
LoopsReturn ==
    /\ m_exit_requested ~> place = "returned"
    /\ (depth = MaxDepth /\ goal[depth] \in handled) ~> depth < MaxDepth

=============================================================================

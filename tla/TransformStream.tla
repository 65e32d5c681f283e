--------------------------- MODULE TransformStream ---------------------------
(***************************************************************************)
(* A TransformStream of LibWeb: a WritableStream whose sink and a          *)
(* ReadableStream whose source are the two sides of one transformer        *)
(* (LibWeb/Streams/AbstractOperations.cpp, TransformStream.cpp).           *)
(*                                                                         *)
(* The two streams are the modules WritableStream and ReadableStream.      *)
(* What they call script there is code of the transform stream here: when  *)
(* one of them has pushed a frame, the algorithm of that callback runs     *)
(* before anything else does.  An algorithm that calls the transformer     *)
(* (transform(), flush() or cancel()) pushes a frame on t.stack, and the   *)
(* page may call both streams and the controller before the transformer    *)
(* returns.  Reactions to promises run when no script does.                *)
(*                                                                         *)
(* The page has taken a writer and a reader.  The sink's abort signal has  *)
(* no listeners, since the page cannot reach the writable's controller.    *)
(***************************************************************************)
EXTENDS Integers, Sequences, SequencesExt

CONSTANTS
    MaxWrites,                  \* bound: calls of write()
    MaxReads,                   \* bound: calls of read()
    MaxChunks,                  \* bound: chunks that the transformer enqueues
    MaxDepth,                   \* bound: script called within script
    WritableHighWaterMark,      \* of the two strategies; a chunk has size 1
    ReadableHighWaterMark

ASSUME TransformBounds ==
    /\ MaxWrites \in Nat /\ MaxReads \in Nat /\ MaxChunks \in Nat /\ MaxDepth \in Nat \ {0}
    /\ WritableHighWaterMark \in Nat /\ ReadableHighWaterMark \in Nat

VARIABLES r, w, t

R == INSTANCE ReadableStream WITH
        MaxReaders <- 1, MaxDepth <- MaxDepth + 2, HighWaterMark <- ReadableHighWaterMark
W == INSTANCE WritableStream WITH
        MaxWriters <- 1, MaxDepth <- MaxDepth + 2, HighWaterMark <- WritableHighWaterMark

vars == <<r, w, t>>

----------------------------------------------------------------------------

\* t is the state of the transform stream and of its controller.  write, pull
\* and flush are the promises given to the two streams: a write is blocked
\* until backpressure changes, then released, and transforming while the
\* promise of transform() is pending.  finish is the finish promise, canceling
\* the side whose end has called cancel() of the transformer.
Init ==
    /\ r = [R!InitialStream EXCEPT !.reader = 1, !.readers = 1, !.closed = "pending"]
    /\ w = [W!InitialStream EXCEPT !.writer = 1, !.writers = 1, !.closed = "pending",
               !.ready = IF W!InitialStream.backpressure THEN "pending" ELSE "fulfilled"]
    /\ t = [backpressure |-> TRUE, algorithms |-> TRUE, start |-> "pending",
            write |-> "none", pull |-> "none", flush |-> "none", finish |-> "none",
            canceling |-> "none", stack |-> <<>>, crash |-> "none"]

Verify(s, condition) == [s EXCEPT !.crash = IF @ = "none" /\ ~condition THEN "verify" ELSE @]

\* The algorithms are null once they were cleared.
CallTransformer(s, callback) ==
    [s EXCEPT !.stack = Append(@, callback),
              !.crash = IF @ = "none" /\ ~s.algorithms THEN "algorithm" ELSE @]

Pop(s) == [s EXCEPT !.stack = Front(@)]

clear_algorithms(s) == [s EXCEPT !.algorithms = FALSE]

\* Whoever waits for backpressure_change_promise is released.
transform_stream_set_backpressure(s, backpressure) ==
    [Verify(s, s.backpressure # backpressure) EXCEPT
        !.backpressure = backpressure,
        !.write = IF @ = "blocked" THEN "released" ELSE @,
        !.pull = IF @ = "waiting" THEN "released" ELSE @]

transform_stream_unblock_write(s) ==
    IF s.backpressure THEN transform_stream_set_backpressure(s, FALSE) ELSE s

error_writable_and_unblock_write(s) ==
    /\ w' = W!controller_error_if_needed(w)
    /\ t' = transform_stream_unblock_write(clear_algorithms(s))

transform_stream_error(s) ==
    /\ r' = R!controller_error(r)
    /\ error_writable_and_unblock_write(s)

----------------------------------------------------------------------------
(* Who runs. *)

\* A stream has called an algorithm, which has not called the transformer yet.
SinkCalled(callback) ==
    /\ t.crash = "none" /\ w.stack # <<>> /\ Last(w.stack).callback = callback
    /\ callback \notin Range(t.stack)

SourceCalled(callback) ==
    /\ t.crash = "none" /\ r.stack # <<>> /\ Last(r.stack).callback = callback
    /\ callback \notin Range(t.stack)

AlgorithmRuns ==
    \/ \E callback \in W!SinkCallback \cup {"size", "signal"} : SinkCalled(callback)
    \/ \E callback \in {"size", "pull", "cancel"} : SourceCalled(callback)

Returns(callback) ==
    t.crash = "none" /\ ~AlgorithmRuns /\ t.stack # <<>> /\ Last(t.stack) = callback

ScriptRuns ==
    /\ t.crash = "none" /\ ~AlgorithmRuns /\ Len(t.stack) < MaxDepth
    /\ "enqueue" \notin Range(t.stack)

Microtask == t.crash = "none" /\ ~AlgorithmRuns /\ t.stack = <<>>

----------------------------------------------------------------------------
(* What the page may call. *)

write == ScriptRuns /\ W!write /\ UNCHANGED <<r, t>>
close == ScriptRuns /\ W!close /\ UNCHANGED <<r, t>>
abort == ScriptRuns /\ W!abort /\ UNCHANGED <<r, t>>
read == ScriptRuns /\ R!read /\ UNCHANGED <<w, t>>
cancel == ScriptRuns /\ R!cancel /\ UNCHANGED <<w, t>>

\* enqueue() of the controller; it throws if the readable side has ended.
enqueue ==
    /\ ScriptRuns /\ R!enqueue
    /\ t' = [t EXCEPT !.stack = Append(@, "enqueue")] /\ UNCHANGED w

\* Mutated form: nobody notices that the chunk has met the demand.
EnqueuedForgets ==
    /\ Returns("enqueue") /\ UNCHANGED r
    /\ IF r.state = "errored" THEN error_writable_and_unblock_write(Pop(t))
       ELSE UNCHANGED w /\ t' = Pop(t)

\* The chunk is in the queue or with a read, or its size was invalid.
Enqueued ==
    /\ Returns("enqueue") /\ UNCHANGED r
    /\ IF r.state = "errored" THEN error_writable_and_unblock_write(Pop(t))
       ELSE LET has_backpressure == ~R!should_call_pull(r)
            IN  /\ UNCHANGED w
                /\ t' = IF has_backpressure = t.backpressure THEN Pop(t)
                        ELSE transform_stream_set_backpressure(
                                 Verify(Pop(t), has_backpressure), TRUE)

error == ScriptRuns /\ transform_stream_error(t)

terminate ==
    /\ ScriptRuns /\ r' = R!controller_close(r)
    /\ error_writable_and_unblock_write(t)

----------------------------------------------------------------------------
(* The algorithms of the sink and of the source. *)

\* The strategies' size(), and the abort signal that nobody listens to.
PlainCall ==
    \/ SinkCalled("size") /\ W!SizeReturns("valid") /\ UNCHANGED <<r, t>>
    \/ SinkCalled("signal") /\ W!SignalReturns /\ UNCHANGED <<r, t>>
    \/ SourceCalled("size") /\ (R!SizeReturns \/ R!SizeFails) /\ UNCHANGED <<w, t>>

\* A write waits while there is backpressure.
sink_write ==
    /\ SinkCalled("write") /\ UNCHANGED r
    /\ LET s == Verify(t, w.state = "writable")
       IN  IF t.backpressure
           THEN W!SinkReturns /\ t' = [s EXCEPT !.write = "blocked"]
           ELSE UNCHANGED w /\ t' = CallTransformer(s, "write")

\* Mutated form: the stream may have failed while the write waited.
WriteReleasedUnchecked ==
    /\ Microtask /\ t.write = "released" /\ UNCHANGED <<r, w>>
    /\ t' = CallTransformer(t, "transform")

\* The reaction to the change of backpressure.
WriteReleased ==
    /\ Microtask /\ t.write = "released" /\ UNCHANGED <<r, w>>
    /\ t' = IF w.state = "erroring" THEN [t EXCEPT !.write = "rejected"]
            ELSE CallTransformer(Verify(t, w.state = "writable"), "transform")

sink_close ==
    SinkCalled("close") /\ t' = CallTransformer(t, "close") /\ UNCHANGED <<r, w>>

\* cancel() of the transformer is called by the first side that gives up.
sink_abort ==
    /\ SinkCalled("abort") /\ UNCHANGED r
    /\ IF t.finish # "none" THEN W!SinkReturns /\ UNCHANGED t
       ELSE UNCHANGED w /\ t' = CallTransformer([t EXCEPT !.finish = "pending"], "abort")

source_cancel ==
    /\ SourceCalled("cancel") /\ UNCHANGED w
    /\ IF t.finish # "none" THEN R!CancelReturns /\ UNCHANGED t
       ELSE UNCHANGED r /\ t' = CallTransformer([t EXCEPT !.finish = "pending"], "cancel")

\* Reading ends the backpressure; the promise is that of its next change.
source_pull ==
    /\ SourceCalled("pull") /\ R!PullReturns /\ UNCHANGED w
    /\ t' = [transform_stream_set_backpressure(Verify(t, t.backpressure), FALSE)
                EXCEPT !.pull = "waiting"]

----------------------------------------------------------------------------
(* The transformer returns a promise. *)

TransformReturns ==
    \/ /\ Returns("write") /\ W!SinkReturns /\ UNCHANGED r
       /\ t' = [Pop(t) EXCEPT !.write = "transforming"]
    \/ /\ Returns("transform") /\ UNCHANGED <<r, w>>
       /\ t' = [Pop(t) EXCEPT !.write = "transforming"]

FlushReturns ==
    /\ Returns("close") /\ W!SinkReturns /\ UNCHANGED r
    /\ t' = [clear_algorithms(Pop(t)) EXCEPT !.flush = "pending"]

CancelReturns ==
    \/ /\ Returns("abort") /\ W!SinkReturns /\ UNCHANGED r
       /\ t' = [clear_algorithms(Pop(t)) EXCEPT !.canceling = "abort"]
    \/ /\ Returns("cancel") /\ R!CancelReturns /\ UNCHANGED w
       /\ t' = [clear_algorithms(Pop(t)) EXCEPT !.canceling = "cancel"]

----------------------------------------------------------------------------
(* Reactions to the promises of the transformer. *)

TransformSettled(outcome) ==
    /\ Microtask /\ t.write = "transforming"
    /\ LET s == [t EXCEPT !.write = outcome]
       IN  IF outcome = "rejected" THEN transform_stream_error(s)
           ELSE t' = s /\ UNCHANGED <<r, w>>

FlushSettled(outcome) ==
    /\ Microtask /\ t.flush = "pending"
    /\ IF outcome = "rejected" THEN transform_stream_error([t EXCEPT !.flush = "rejected"])
       ELSE /\ t' = [t EXCEPT !.flush = IF r.state = "errored" THEN "rejected" ELSE "fulfilled"]
            /\ r' = R!controller_close(r) /\ UNCHANGED w

\* Mutated form: the readable side is not told.
AbortCancelAlone(outcome) ==
    /\ Microtask /\ t.canceling = "abort" /\ UNCHANGED <<r, w>>
    /\ t' = [t EXCEPT !.canceling = "none",
                      !.finish = IF r.state = "errored" THEN "rejected" ELSE outcome]

\* The side that called cancel() takes the other side with it.
AbortCancelSettled(outcome) ==
    /\ Microtask /\ t.canceling = "abort" /\ UNCHANGED w
    /\ t' = [t EXCEPT !.canceling = "none",
                      !.finish = IF r.state = "errored" THEN "rejected" ELSE outcome]
    /\ r' = R!controller_error(r)

SourceCancelSettled(outcome) ==
    /\ Microtask /\ t.canceling = "cancel" /\ UNCHANGED r
    /\ LET s == [t EXCEPT !.canceling = "none"]
       IN  IF w.state = "errored" /\ outcome = "fulfilled"
           THEN t' = [s EXCEPT !.finish = "rejected"] /\ UNCHANGED w
           ELSE /\ w' = W!controller_error_if_needed(w)
                /\ t' = [transform_stream_unblock_write(s) EXCEPT !.finish = outcome]

----------------------------------------------------------------------------
(* Reactions of the two streams to the promises of the algorithms. *)

\* The writable stream was made first and hears first that start() is over.
WritableStarts(outcome) ==
    /\ Microtask /\ t.start = "pending" /\ UNCHANGED r
    /\ IF outcome = "fulfilled" THEN W!StartFulfilled ELSE W!StartRejected
    /\ t' = [t EXCEPT !.start = outcome]

ReadableStarts ==
    /\ Microtask /\ t.start # "pending" /\ UNCHANGED <<w, t>>
    /\ IF t.start = "fulfilled" THEN R!StartFulfilled ELSE R!SourceRejects("start")

WriteSettled ==
    /\ Microtask /\ t.write \in {"fulfilled", "rejected"} /\ UNCHANGED r
    /\ IF t.write = "fulfilled" THEN W!WriteFulfilled ELSE W!WriteRejected
    /\ t' = [t EXCEPT !.write = "none"]

CloseSettled ==
    /\ Microtask /\ t.flush \in {"fulfilled", "rejected"} /\ UNCHANGED <<r, t>>
    /\ IF t.flush = "fulfilled" THEN W!CloseFulfilled ELSE W!CloseRejected

AbortSettled ==
    Microtask /\ t.finish # "pending" /\ W!AbortSettled(t.finish) /\ UNCHANGED <<r, t>>

CancelSettled ==
    Microtask /\ t.finish # "pending" /\ R!CancelSettled(t.finish) /\ UNCHANGED <<w, t>>

PullFulfilled ==
    /\ Microtask /\ t.pull = "released" /\ R!PullFulfilled /\ UNCHANGED w
    /\ t' = [t EXCEPT !.pull = "none"]

----------------------------------------------------------------------------

Script == write \/ close \/ abort \/ read \/ cancel \/ enqueue \/ error \/ terminate

Algorithm ==
    PlainCall \/ Enqueued \/ sink_write \/ sink_close \/ sink_abort \/ source_cancel \/ source_pull

TransformerReturns == TransformReturns \/ FlushReturns \/ CancelReturns

Reaction ==
    \/ WriteReleased \/ ReadableStarts \/ WriteSettled \/ CloseSettled
    \/ AbortSettled \/ CancelSettled \/ PullFulfilled

\* The transformer settles a promise that it gave.
Settles ==
    \E outcome \in {"fulfilled", "rejected"} :
        \/ TransformSettled(outcome) \/ FlushSettled(outcome) \/ AbortCancelSettled(outcome)
        \/ SourceCancelSettled(outcome) \/ WritableStarts(outcome)

Next == Script \/ Algorithm \/ TransformerReturns \/ Reaction \/ Settles

\* Code runs on, and the transformer returns and settles what it promised: weak
\* fairness of these, with Runnable in place of the ENABLED that it equals.
Step == Algorithm \/ TransformerReturns \/ Reaction \/ Settles
Runnable ==
    t.crash = "none" /\
        \/ AlgorithmRuns \/ t.stack # <<>>
        \/ "start" \in r.source \/ t.pull = "released" \/ t.write \notin {"none", "blocked"}
        \/ "close" \in w.sink \/ t.canceling # "none"
        \/ t.finish # "pending" /\ ("abort" \in w.sink \/ "cancel" \in r.source)
Fairness == []<>~Runnable \/ []<><<Step>>_vars

Spec == Init /\ [][Next]_vars /\ Fairness

----------------------------------------------------------------------------
(* Properties. *)

Crashed == t.crash # "none"

TypeOK ==
    /\ R!TypeOK /\ W!TypeOK
    /\ t.write \in {"none", "blocked", "released", "transforming", "fulfilled", "rejected"}
    /\ t.pull \in {"none", "waiting", "released"}
    /\ {t.flush, t.finish} \subseteq W!PromiseState
    /\ (t.write = "none") => "write" \notin w.sink
    /\ (t.pull = "none") <=> "pull" \notin r.source
    /\ (t.canceling # "none") => t.finish = "pending"
    /\ Len(t.stack) <= MaxDepth

\* No VERIFY of the two streams fails.  One of the transform stream does:
\* enqueue() asserts that backpressure can only have begun, but a read made
\* after backpressure began and before the reaction to the last pull() asks
\* for more without ending the backpressure.
AssertionsHold ==
    /\ ~r.failed /\ ~w.failed
    /\ t.crash = "verify" => t.pull = "released" /\ R!should_call_pull(r)

\* An algorithm that was cleared is called only when two ends meet: a write or
\* a close while the transformer's cancel() for the readable side is not over,
\* a cancel of the readable side after flush() or terminate(), and an abort
\* that had to wait while the transform stream failed or was terminated.
NullAlgorithmOnlyWhenEndsMeet ==
    t.crash = "algorithm" =>
        CASE Last(t.stack) = "cancel" -> r.close_requested \/ t.flush # "none"
          [] Last(t.stack) = "abort" -> r.close_requested \/ r.state # "readable"
          [] OTHER -> r.canceled = "pending"

\* The two streams and the transform stream agree, and fail only in the ways
\* that are named here.
FailuresNamed == TypeOK /\ AssertionsHold /\ NullAlgorithmOnlyWhenEndsMeet

\* Backpressure is the absence of demand: a write waits only under backpressure,
\* an open stream lets writes through only while a pull() is outstanding and the
\* readable side wants a chunk, and when it wants one there is no backpressure,
\* or a reaction is about to end it.
BackpressureFollowsDemand ==
    ~AlgorithmRuns /\ "enqueue" \notin Range(t.stack) =>
        /\ t.write = "blocked" => t.backpressure
        /\ ~t.backpressure /\ w.state = "writable" =>
              t.pull = "waiting" /\ (R!can_close_or_enqueue(r) => R!should_call_pull(r))
        /\ R!should_call_pull(r) /\ t.backpressure => t.pull = "released" /\ r.pull_again

\* When the writer learns that its stream is closed, everything was flushed and
\* the readable side ends after what it still holds.
ClosedMeansFlushed ==
    w.state = "closed" =>
        t.flush = "fulfilled" /\ (r.close_requested \/ r.state # "readable")

\* The ends find each other: a side that closes has flushed, and neither side is
\* left open when the other one has failed or was cancelled.  A read and a write
\* never wait for each other.  The promise of cancel() is settled, whichever
\* side called the transformer, and that of abort(), unless a write waits for a
\* reader.
EndsTogether ==
    /\ []ClosedMeansFlushed
    /\ (w.state = "errored") ~> (r.state # "readable" \/ r.close_requested \/ Crashed)
    /\ (r.state = "errored" \/ r.canceled # "none")
           ~> (w.state \in {"closed", "errored"} \/ Crashed)
    /\ (t.write = "blocked" /\ R!HasReadRequest(r))
           ~> (t.write # "blocked" \/ ~R!HasReadRequest(r) \/ Crashed)
    /\ (r.canceled = "pending") ~> (r.canceled # "pending" \/ Crashed)
    /\ (w.promises[W!Abort] = "pending")
           ~> (w.promises[W!Abort] # "pending" \/ t.write = "blocked" \/ Crashed)

=============================================================================

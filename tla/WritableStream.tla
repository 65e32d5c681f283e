--------------------------- MODULE WritableStream ---------------------------
(***************************************************************************)
(* A WritableStream of LibWeb with its controller, its writers and the     *)
(* sink of the page (LibWeb/Streams/AbstractOperations.cpp and             *)
(* WritableStream*.cpp).                                                   *)
(*                                                                         *)
(* The functions of the source call each other in depth, so each of them   *)
(* is an operator from the state w of the stream to the state it leaves.   *)
(* A function that runs script (the strategy's size(), the listeners of    *)
(* the abort signal, write(), close() and abort() of the sink) ends by     *)
(* pushing a frame on w.stack.  The script may then call the stream again; *)
(* what the function does when the script returns is an action that pops   *)
(* the frame.  Reactions to the sink's promises are microtasks: they run   *)
(* when the stack is empty.                                                *)
(***************************************************************************)
EXTENDS Integers, Sequences, FiniteSets, SequencesExt

CONSTANTS
    MaxWrites,      \* bound: calls of write()
    MaxWriters,     \* bound: writers made by getWriter()
    MaxDepth,       \* bound: script called within script
    HighWaterMark   \* strategyHWM; a chunk has size 1

ASSUME StreamBounds ==
    /\ MaxWrites \in Nat /\ MaxWriters \in Nat
    /\ MaxDepth \in Nat /\ HighWaterMark \in Nat

VARIABLE w

----------------------------------------------------------------------------

Close == 0              \* the close request and the close sentinel
Abort == -1             \* the abort request
Requests == Abort .. MaxWrites
PromiseState == {"none", "pending", "fulfilled", "rejected"}
SinkCallback == {"write", "close", "abort"}

Frame(callback, writer) == [callback |-> callback, writer |-> writer]

\* The stream once its constructor has run the sink's start().  The state of
\* the controller is in the same record; algorithms is FALSE after they were
\* cleared, and sink holds the calls whose promises are not settled.
InitialStream == [
    state |-> "writable", stored_error |-> FALSE,
    backpressure |-> HighWaterMark <= 0, started |-> FALSE,
    close_request |-> FALSE, in_flight_close_request |-> FALSE,
    in_flight_write_request |-> 0, write_requests |-> <<>>,
    pending_abort_request |-> "none", queue |-> <<>>, algorithms |-> TRUE,
    signalled |-> FALSE, writer |-> 0, ready |-> "none", closed |-> "none",
    promises |-> [r \in Requests |-> "none"], sink |-> {"start"}, stack |-> <<>>,
    writes |-> 0, calls |-> 0, writers |-> 0, failed |-> FALSE]

Init == w = InitialStream

\* VERIFY, and the use of an algorithm that was cleared.
Verify(s, condition) == [s EXCEPT !.failed = @ \/ ~condition]

\* A settled promise does not change.
Settle(s, request, outcome) ==
    [s EXCEPT !.promises[request] = IF @ = "pending" THEN outcome ELSE @]

SettleClosed(s, outcome) ==
    [s EXCEPT !.closed = IF @ = "pending" THEN outcome ELSE @]

CallScript(s, callback) ==
    [s EXCEPT !.stack = Append(@, Frame(callback, s.writer))]

writable_stream_close_queued_or_in_flight(s) ==
    s.close_request \/ s.in_flight_close_request

writable_stream_has_operation_marked_in_flight(s) ==
    s.in_flight_write_request # 0 \/ s.in_flight_close_request

get_desired_size(s) == HighWaterMark - Len(SelectSeq(s.queue, LAMBDA c : c # Close))

get_backpressure(s) == get_desired_size(s) <= 0

dequeue_value(s) == [Verify(s, s.queue # <<>>) EXCEPT !.queue = Tail(@)]

clear_algorithms(s) == [s EXCEPT !.algorithms = FALSE]

----------------------------------------------------------------------------
(* Errors. *)

reject_close_and_closed_promise_if_needed(s0) ==
    LET s1 == Verify(s0, s0.state = "errored"
                          /\ (s0.close_request => ~s0.in_flight_close_request))
        s2 == IF s1.close_request
              THEN [Settle(s1, Close, "rejected") EXCEPT !.close_request = FALSE]
              ELSE s1
    IN  IF s2.writer # 0 THEN SettleClosed(s2, "rejected") ELSE s2

\* Mutated form: the writes that wait are forgotten, not rejected.
FinishErroringForgets(s0) ==
    LET s1 == [s0 EXCEPT !.state = "errored", !.queue = <<>>, !.write_requests = <<>>,
                         !.pending_abort_request = "none"]
    IN  CASE s0.pending_abort_request = "none" -> reject_close_and_closed_promise_if_needed(s1)
          [] s0.pending_abort_request = "was_already_erroring" ->
                reject_close_and_closed_promise_if_needed(Settle(s1, Abort, "rejected"))
          [] OTHER -> CallScript(Verify(s1, s1.algorithms), "abort")

writable_stream_finish_erroring(s0) ==
    LET s1 == Verify(s0, s0.state = "erroring"
                          /\ ~writable_stream_has_operation_marked_in_flight(s0))
        s2 == [s1 EXCEPT !.state = "errored", !.queue = <<>>, !.write_requests = <<>>,
                         !.pending_abort_request = "none",
                         !.promises = [r \in Requests |->
                             IF r \in Range(s1.write_requests) THEN "rejected" ELSE @[r]]]
    IN  CASE s1.pending_abort_request = "none" -> reject_close_and_closed_promise_if_needed(s2)
          [] s1.pending_abort_request = "was_already_erroring" ->
                reject_close_and_closed_promise_if_needed(Settle(s2, Abort, "rejected"))
          [] OTHER -> CallScript(Verify(s2, s2.algorithms), "abort")

writable_stream_start_erroring(s0) ==
    LET s1 == Verify(s0, ~s0.stored_error /\ s0.state = "writable")
        s2 == [s1 EXCEPT !.state = "erroring", !.stored_error = TRUE,
                         !.ready = IF s1.writer # 0 THEN "rejected" ELSE @]
    IN  IF ~writable_stream_has_operation_marked_in_flight(s2) /\ s2.started
        THEN writable_stream_finish_erroring(s2) ELSE s2

writable_stream_deal_with_rejection(s) ==
    IF s.state = "writable" THEN writable_stream_start_erroring(s)
                            ELSE writable_stream_finish_erroring(s)

controller_error_if_needed(s) ==
    IF s.state = "writable" THEN writable_stream_start_erroring(clear_algorithms(s)) ELSE s

----------------------------------------------------------------------------
(* The queue of the controller. *)

writable_stream_update_backpressure(s0, backpressure) ==
    LET s1 == Verify(s0, s0.state = "writable"
                          /\ ~writable_stream_close_queued_or_in_flight(s0))
    IN  [s1 EXCEPT !.backpressure = backpressure,
                   !.ready = IF s1.writer # 0 /\ backpressure # s1.backpressure
                             THEN IF backpressure THEN "pending"
                                  ELSE IF @ = "pending" THEN "fulfilled" ELSE @
                             ELSE @]

UpdateBackpressureIfOpen(s) ==
    IF ~writable_stream_close_queued_or_in_flight(s) /\ s.state = "writable"
    THEN writable_stream_update_backpressure(s, get_backpressure(s)) ELSE s

writable_stream_mark_close_request_in_flight(s) ==
    [Verify(s, ~s.in_flight_close_request /\ s.close_request) EXCEPT
        !.in_flight_close_request = TRUE, !.close_request = FALSE]

writable_stream_mark_first_write_request_in_flight(s) ==
    [Verify(s, s.in_flight_write_request = 0 /\ s.write_requests # <<>>) EXCEPT
        !.in_flight_write_request = Head(s.write_requests), !.write_requests = Tail(@)]

process_close(s0) ==
    LET s1 == dequeue_value(writable_stream_mark_close_request_in_flight(s0))
    IN  CallScript(Verify(s1, s1.queue = <<>> /\ s1.algorithms), "close")

\* Mutated form: the chunk leaves the queue when its write begins.
ProcessWriteDequeues(s0) ==
    LET s1 == dequeue_value(writable_stream_mark_first_write_request_in_flight(s0))
    IN  CallScript(Verify(s1, s1.algorithms), "write")

process_write(s0) ==
    LET s1 == writable_stream_mark_first_write_request_in_flight(s0)
    IN  CallScript(Verify(s1, s1.algorithms), "write")

\* Mutated form: a stream that is in error still advances.
AdvanceThoughErroring(s) ==
    IF ~s.started \/ s.in_flight_write_request # 0 THEN s
    ELSE LET s1 == Verify(s, s.state \notin {"closed", "errored"})
         IN  IF s1.queue = <<>> THEN s1
             ELSE IF Head(s1.queue) = Close THEN process_close(s1) ELSE process_write(s1)

advance_queue_if_needed(s) ==
    IF ~s.started \/ s.in_flight_write_request # 0 THEN s
    ELSE LET s1 == Verify(s, s.state \notin {"closed", "errored"})
         IN  IF s1.state = "erroring" THEN writable_stream_finish_erroring(s1)
             ELSE IF s1.queue = <<>> THEN s1
             ELSE IF Head(s1.queue) = Close THEN process_close(s1) ELSE process_write(s1)

\* Writes that cannot be enqueued (a size that is negative, NaN or infinite)
\* put the stream in error.
controller_write(s, valid) ==
    IF valid
    THEN advance_queue_if_needed(UpdateBackpressureIfOpen(
             [s EXCEPT !.queue = Append(@, s.writes)]))
    ELSE controller_error_if_needed(s)

writable_stream_add_write_request(s) ==
    LET n == s.writes + 1
    IN  [Verify(s, s.writer # 0 /\ s.state = "writable") EXCEPT
            !.writes = n, !.promises[n] = "pending", !.write_requests = Append(@, n)]

\* writable_stream_default_writer_write after size() has returned.
WriteAfterSize(s, valid) ==
    IF s.state # "writable" \/ writable_stream_close_queued_or_in_flight(s) THEN s
    ELSE controller_write(writable_stream_add_write_request(s), valid)

\* writable_stream_abort after the signal's listeners have run.
AbortAfterSignal(s) ==
    IF s.state \in {"closed", "errored"} \/ s.pending_abort_request # "none" THEN s
    ELSE LET s1 == [s EXCEPT !.promises[Abort] = "pending",
                             !.pending_abort_request =
                                 IF s.state = "erroring" THEN "was_already_erroring" ELSE "abort"]
         IN  IF s.state = "erroring" THEN s1 ELSE writable_stream_start_erroring(s1)

----------------------------------------------------------------------------
(* What script may call: WritableStream, WritableStreamDefaultWriter and   *)
(* WritableStreamDefaultController.                                        *)

MayCallScript == Len(w.stack) < MaxDepth

\* getWriter() of a stream that is not locked; it throws if it is.
get_writer ==
    /\ w.writer = 0 /\ w.writers < MaxWriters
    /\ w' = [w EXCEPT !.writers = @ + 1, !.writer = w.writers + 1,
           !.ready = CASE w.state = "writable" ->
                            IF ~writable_stream_close_queued_or_in_flight(w) /\ w.backpressure
                            THEN "pending" ELSE "fulfilled"
                       [] w.state = "closed" -> "fulfilled"
                       [] OTHER -> "rejected",
           !.closed = CASE w.state \in {"writable", "erroring"} -> "pending"
                        [] w.state = "closed" -> "fulfilled"
                        [] OTHER -> "rejected"]

\* The released writer keeps two rejected promises.
release_lock ==
    /\ w.writer # 0
    /\ w' = [w EXCEPT !.writer = 0, !.ready = "none", !.closed = "none"]

write ==
    /\ w.writer # 0 /\ w.calls < MaxWrites
    /\ LET s == [w EXCEPT !.calls = @ + 1]
       IN  IF s.algorithms THEN MayCallScript /\ w' = CallScript(s, "size")
                           ELSE w' = WriteAfterSize(s, TRUE)

\* size() returns a size, a value that is not one, or throws.
SizeReturns(outcome) ==
    /\ w.stack # <<>> /\ Last(w.stack).callback = "size"
    /\ LET s == [w EXCEPT !.stack = Front(@)]
           s1 == IF outcome = "throws" THEN controller_error_if_needed(s) ELSE s
       IN  w' = IF w.writer # Last(w.stack).writer THEN s1
                ELSE WriteAfterSize(s1, outcome # "invalid")

\* Mutated form: writers who wait for room are not told that the stream closes.
CloseKeepsReady ==
    /\ w.state \in {"writable", "erroring"} /\ MayCallScript
    /\ ~writable_stream_close_queued_or_in_flight(w)
    /\ LET s == [w EXCEPT !.close_request = TRUE, !.promises[Close] = "pending",
                         !.queue = Append(@, Close)]
       IN  w' = advance_queue_if_needed(s)

\* close() of the stream or of its writer.
close ==
    /\ w.state \in {"writable", "erroring"} /\ MayCallScript
    /\ ~writable_stream_close_queued_or_in_flight(w)
    /\ LET s == [w EXCEPT !.close_request = TRUE, !.promises[Close] = "pending",
                         !.queue = Append(@, Close),
                         !.ready = IF w.writer # 0 /\ w.backpressure /\ w.state = "writable"
                                   THEN "fulfilled" ELSE @]
       IN  w' = advance_queue_if_needed(s)

\* abort() of the stream or of its writer; the signal fires once.
abort ==
    /\ w.state \in {"writable", "erroring"} /\ MayCallScript
    /\ w' = IF w.signalled THEN AbortAfterSignal(w)
            ELSE CallScript([w EXCEPT !.signalled = TRUE], "signal")

SignalReturns ==
    /\ w.stack # <<>> /\ Last(w.stack).callback = "signal"
    /\ w' = AbortAfterSignal([w EXCEPT !.stack = Front(@)])

\* error() of the controller.
error ==
    /\ w.state = "writable"
    /\ w' = writable_stream_start_erroring(clear_algorithms(w))

----------------------------------------------------------------------------
(* The sink.  Its functions return promises, and the reactions to those    *)
(* run as microtasks.                                                      *)

SinkReturns ==
    /\ w.stack # <<>> /\ Last(w.stack).callback \in SinkCallback
    /\ LET callback == Last(w.stack).callback
           s == [w EXCEPT !.stack = Front(@), !.sink = @ \cup {callback}]
       IN  w' = IF callback = "write" THEN s ELSE clear_algorithms(s)

\* The promise of a call is settled and nothing else runs.
Settled(call) == w.stack = <<>> /\ call \in w.sink
Done(call) == [w EXCEPT !.sink = @ \ {call}]
CheckOpen(s) == Verify(s, s.state \in {"writable", "erroring"})

StartFulfilled ==
    /\ Settled("start")
    /\ w' = advance_queue_if_needed([CheckOpen(Done("start")) EXCEPT !.started = TRUE])

StartRejected ==
    /\ Settled("start")
    /\ w' = writable_stream_deal_with_rejection(
               [CheckOpen(Done("start")) EXCEPT !.started = TRUE])

writable_stream_finish_in_flight_write(s) ==
    [Settle(Verify(s, s.in_flight_write_request # 0), s.in_flight_write_request, "fulfilled")
        EXCEPT !.in_flight_write_request = 0]

WriteFulfilled ==
    /\ Settled("write")
    /\ w' = advance_queue_if_needed(UpdateBackpressureIfOpen(dequeue_value(
               CheckOpen(writable_stream_finish_in_flight_write(Done("write"))))))

writable_stream_finish_in_flight_write_with_error(s) ==
    LET s1 == Settle(Verify(s, s.in_flight_write_request # 0),
                     s.in_flight_write_request, "rejected")
    IN  writable_stream_deal_with_rejection(
            CheckOpen([s1 EXCEPT !.in_flight_write_request = 0]))

WriteRejected ==
    /\ Settled("write")
    /\ LET s == Done("write")
       IN  w' = writable_stream_finish_in_flight_write_with_error(
                    IF s.state = "writable" THEN clear_algorithms(s) ELSE s)

\* A close that succeeds outdoes an abort that came after it.
writable_stream_finish_in_flight_close(s) ==
    LET s1 == Settle(CheckOpen(Verify(s, s.in_flight_close_request)), Close, "fulfilled")
        s2 == IF s1.state = "erroring"
              THEN [Settle(s1, Abort, "fulfilled") EXCEPT !.stored_error = FALSE,
                                                   !.pending_abort_request = "none"]
              ELSE s1
        s3 == [s2 EXCEPT !.in_flight_close_request = FALSE, !.state = "closed"]
        s4 == IF s3.writer # 0 THEN SettleClosed(s3, "fulfilled") ELSE s3
    IN  Verify(s4, s4.pending_abort_request = "none" /\ ~s4.stored_error)

CloseFulfilled ==
    /\ Settled("close")
    /\ w' = writable_stream_finish_in_flight_close(Done("close"))

writable_stream_finish_in_flight_close_with_error(s) ==
    LET s1 == Settle(CheckOpen(Verify(s, s.in_flight_close_request)), Close, "rejected")
    IN  writable_stream_deal_with_rejection(
            [Settle(s1, Abort, "rejected") EXCEPT !.in_flight_close_request = FALSE,
                                                  !.pending_abort_request = "none"])

CloseRejected ==
    /\ Settled("close")
    /\ w' = writable_stream_finish_in_flight_close_with_error(Done("close"))

AbortSettled(outcome) ==
    /\ Settled("abort")
    /\ w' = reject_close_and_closed_promise_if_needed(Settle(Done("abort"), Abort, outcome))

----------------------------------------------------------------------------

ScriptReturns ==
    \/ \E outcome \in {"valid", "invalid", "throws"} : SizeReturns(outcome)
    \/ SignalReturns
    \/ SinkReturns

Reaction ==
    \/ StartFulfilled \/ StartRejected
    \/ WriteFulfilled \/ WriteRejected
    \/ CloseFulfilled \/ CloseRejected
    \/ \E outcome \in {"fulfilled", "rejected"} : AbortSettled(outcome)

Script == get_writer \/ release_lock \/ write \/ close \/ abort \/ error

Next == Script \/ ScriptReturns \/ Reaction

\* The script that the stream calls returns, and the sink settles its promises:
\* weak fairness of both, with Runnable in place of the ENABLED that it equals.
Step == ScriptReturns \/ Reaction
Runnable == w.stack # <<>> \/ w.sink # {}
Fairness == []<>~Runnable \/ []<><<Step>>_w

Spec == Init /\ [][Next]_w /\ Fairness

----------------------------------------------------------------------------
(* Properties. *)

TypeOK ==
    /\ w.state \in {"writable", "erroring", "closed", "errored"}
    /\ w.stored_error <=> w.state \in {"erroring", "errored"}
    /\ w.pending_abort_request \in {"none", "abort", "was_already_erroring"}
    /\ w.in_flight_write_request \in 0 .. MaxWrites
    /\ w.write_requests \in Seq(1 .. MaxWrites) /\ w.queue \in Seq(0 .. MaxWrites)
    /\ w.writer \in 0 .. MaxWriters /\ w.promises \in [Requests -> PromiseState]
    /\ {w.ready, w.closed} \subseteq PromiseState
    /\ w.sink \subseteq SinkCallback \cup {"start"}
    /\ \A i \in DOMAIN w.stack : w.stack[i].callback \in SinkCallback \cup {"size", "signal"}

\* No VERIFY of the stream fails, and no algorithm is called after it was
\* cleared, in whatever order script calls the stream, also from within size(),
\* the abort listeners and the sink's own functions.
AssertionsHold == ~w.failed

Calls == w.sink \cup {w.stack[i].callback : i \in {j \in DOMAIN w.stack :
                                             w.stack[j].callback \in SinkCallback}}

\* The sink does one thing at a time: neither close() nor abort() starts before
\* the write in flight is over, nothing before start() is, and what the stream
\* believes to be in flight is what the sink does.
SinkOneAtATime ==
    /\ Cardinality(w.sink) + Cardinality({i \in DOMAIN w.stack :
                                       w.stack[i].callback \in SinkCallback}) <= 1
    /\ (w.in_flight_write_request # 0) <=> ("write" \in Calls)
    /\ w.in_flight_close_request <=> ("close" \in Calls)
    /\ ~w.started <=> ("start" \in Calls)

\* The controller's queue of chunks and the stream's list of write requests are
\* kept apart but advance together: the promise that is settled is that of the
\* chunk the sink has written.  The close sentinel is last.
RequestsMatchQueue ==
    LET closing == w.queue # <<>> /\ Last(w.queue) = Close
        chunks == IF closing THEN Front(w.queue) ELSE w.queue
        inFlight == IF w.in_flight_write_request = 0 THEN <<>> ELSE <<w.in_flight_write_request>>
        requests == inFlight \o w.write_requests
    IN  /\ IsPrefix(chunks, requests)
        /\ w.state # "erroring" => chunks = requests
        /\ w.state # "errored" => (closing <=> w.close_request)

\* What script is told of its writes is true: fulfilled writes are the first
\* ones, and all of them if the stream is closed.
ClosedMeansWritten ==
    /\ \A i, j \in 1 .. w.writes :
          i < j /\ w.promises[j] = "fulfilled" => w.promises[i] = "fulfilled"
    /\ w.state = "closed" => \A i \in 1 .. w.writes : w.promises[i] = "fulfilled"

\* The stream, its controller and the sink agree on what is queued and what is
\* in flight, so that no VERIFY can fail.
StreamConsistent == TypeOK /\ AssertionsHold /\ SinkOneAtATime /\ RequestsMatchQueue

\* What a writer is told agrees with the stream: ready is pending exactly while
\* an open stream has backpressure, and rejected once it is in error; closed is
\* settled when the stream is, or when the sink's abort() is over.
WriterTracksStream ==
    w.writer # 0 =>
      /\ w.state = "writable" =>
           (w.ready = IF w.backpressure /\ ~writable_stream_close_queued_or_in_flight(w)
                      THEN "pending" ELSE "fulfilled")
      /\ w.state \in {"erroring", "errored"} => w.ready = "rejected"
      /\ w.state \in {"writable", "erroring"} => w.closed = "pending"
      /\ w.state = "closed" => w.closed = "fulfilled"
      /\ w.state = "errored" /\ w.closed # "rejected" => "abort" \in Calls

\* The promises that script holds tell it what has become of its writes and of
\* the stream.
WriterInformed == ClosedMeansWritten /\ WriterTracksStream

\* Once the stream is in error the sink gets no further chunk and no close():
\* what is in flight may end, but neither the next write() nor close() begins,
\* not even in the step in which the write before it ends.
ErrorStopsSink ==
    [][w.state # "writable" =>
          /\ w'.in_flight_write_request \in {0, w.in_flight_write_request}
          /\ w'.in_flight_close_request => w.in_flight_close_request]_w

\* Every promise that write(), close() or abort() returned is settled; and a
\* stream in error comes to rest, and its writer learns of it.
PromisesSettle ==
    /\ \A r \in Requests : (w.promises[r] = "pending") ~> (w.promises[r] # "pending")
    /\ (w.state = "erroring") ~>
          (w.state = "closed" \/ (w.state = "errored" /\ w.closed # "pending"))

=============================================================================

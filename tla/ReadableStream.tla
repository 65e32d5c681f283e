--------------------------- MODULE ReadableStream ---------------------------
(***************************************************************************)
(* A ReadableStream of LibWeb with a default controller, its readers and   *)
(* the underlying source of the page (LibWeb/Streams/AbstractOperations.cpp*)
(* and ReadableStream*.cpp).                                               *)
(*                                                                         *)
(* As in WritableStream, a function of the source is an operator on the    *)
(* state r of the stream, and a function that runs script (size() of the   *)
(* strategy, pull() and cancel() of the source) ends by pushing a frame.   *)
(* The script may call the stream again before it returns; the reactions   *)
(* to promises run when the stack is empty.                                *)
(***************************************************************************)
EXTENDS Integers, Sequences, FiniteSets, SequencesExt

CONSTANTS
    MaxChunks,      \* bound: chunks that the source enqueues
    MaxReads,       \* bound: calls of read()
    MaxReaders,     \* bound: readers made by getReader()
    MaxDepth,       \* bound: script called within script
    HighWaterMark   \* strategyHWM; a chunk has size 1

ASSUME ReadableBounds ==
    /\ MaxChunks \in Nat /\ MaxReads \in Nat /\ MaxReaders \in Nat
    /\ MaxDepth \in Nat /\ HighWaterMark \in Nat

VARIABLE r

----------------------------------------------------------------------------

\* What a read() has come to: it waits, got the chunk with a positive number,
\* or learned of the end or of an error.
Waiting == 0
Ended == -1
Failed == -2

\* A frame of pull() keeps the read that took a chunk before pull() was called.
Frame(callback, read, chunk) == [callback |-> callback, read |-> read, chunk |-> chunk]

\* The stream once its constructor has run the source's start().
\* heard and reentered are history: the reads made when pull() was last called,
\* and whether size() has changed the stream under enqueue().
InitialStream == [
    state |-> "readable", reader |-> 0, closed |-> "none", read_requests |-> <<>>,
    queue |-> <<>>, close_requested |-> FALSE, started |-> FALSE, pulling |-> FALSE,
    pull_again |-> FALSE, algorithms |-> TRUE, source |-> {"start"}, canceled |-> "none",
    reads |-> <<>>, stack |-> <<>>, chunks |-> 0, calls |-> 0, readers |-> 0,
    heard |-> 0, reentered |-> FALSE, failed |-> FALSE]

Init == r = InitialStream

\* VERIFY, and the use of an algorithm that was cleared.
Verify(s, condition) == [s EXCEPT !.failed = @ \/ ~condition]

CallScript(s, callback, read, chunk) ==
    [Verify(s, s.algorithms) EXCEPT !.stack = Append(@, Frame(callback, read, chunk))]

clear_algorithms(s) == [s EXCEPT !.algorithms = FALSE]

can_close_or_enqueue(s) == ~s.close_requested /\ s.state = "readable"

get_desired_size(s) == HighWaterMark - Len(s.queue)

\* A locked stream with a read that waits.
HasReadRequest(s) == s.reader # 0 /\ s.read_requests # <<>>

should_call_pull(s) ==
    /\ can_close_or_enqueue(s) /\ s.started
    /\ HasReadRequest(s) \/ get_desired_size(s) > 0

\* For the youngest read, which begins to wait.
readable_stream_add_read_request(s) ==
    [Verify(s, s.reader # 0 /\ s.state = "readable") EXCEPT
        !.read_requests = Append(@, Len(s.reads))]

\* The chunk steps of a read request; read 0 is none.
OnChunk(s, read, chunk) == IF read = 0 THEN s ELSE [s EXCEPT !.reads[read] = chunk]

readable_stream_fulfill_read_request(s) ==
    [OnChunk(s, Head(s.read_requests), s.chunks + 1) EXCEPT
        !.chunks = @ + 1, !.read_requests = Tail(@)]

\* The close or error steps of all read requests.
SettleReads(s, result) ==
    [s EXCEPT !.read_requests = <<>>,
              !.reads = [i \in DOMAIN @ |->
                            IF i \in Range(s.read_requests) THEN result ELSE @[i]]]

readable_stream_close(s0) ==
    LET s == Verify(s0, s0.state = "readable")
    IN  SettleReads([s EXCEPT !.state = "closed",
                              !.closed = IF s.reader = 0 THEN @ ELSE "fulfilled"], Ended)

readable_stream_error(s0) ==
    LET s == Verify(s0, s0.state = "readable")
    IN  SettleReads([s EXCEPT !.state = "errored",
                              !.closed = IF s.reader = 0 THEN @ ELSE "rejected"], Failed)

controller_error(s) ==
    IF s.state # "readable" THEN s
    ELSE readable_stream_error([clear_algorithms(s) EXCEPT !.queue = <<>>])

\* Chunks in the queue are read before the stream is closed.
controller_close(s) ==
    LET s1 == [s EXCEPT !.close_requested = TRUE]
    IN  IF ~can_close_or_enqueue(s) THEN s
        ELSE IF s.queue = <<>> THEN readable_stream_close(clear_algorithms(s1))
        ELSE s1

\* readable_stream_default_controller_can_pull_if_needed, and then the chunk
\* steps of the read that has taken a chunk from the queue.
call_pull_if_needed(s, read, chunk) ==
    IF ~should_call_pull(s) THEN OnChunk(s, read, chunk)
    ELSE IF s.pulling THEN OnChunk([s EXCEPT !.pull_again = TRUE], read, chunk)
    ELSE CallScript([Verify(s, ~s.pull_again) EXCEPT
                        !.pulling = TRUE, !.heard = Len(s.reads)], "pull", read, chunk)

\* Mutated form: the stream is closed although chunks are left in the queue.
PullStepsCloses(s) ==
    IF s.queue = <<>>
    THEN call_pull_if_needed(readable_stream_add_read_request(s), 0, 0)
    ELSE LET chunk == Head(s.queue)
             s1 == [s EXCEPT !.queue = Tail(@)]
         IN  IF s1.close_requested
             THEN OnChunk(readable_stream_close(clear_algorithms(s1)), Len(s.reads), chunk)
             ELSE call_pull_if_needed(s1, Len(s.reads), chunk)

\* ReadableStreamDefaultController::pull_steps for the youngest read.
pull_steps(s) ==
    IF s.queue = <<>>
    THEN call_pull_if_needed(readable_stream_add_read_request(s), 0, 0)
    ELSE LET chunk == Head(s.queue)
             s1 == [s EXCEPT !.queue = Tail(@)]
         IN  IF s1.close_requested /\ s1.queue = <<>>
             THEN OnChunk(readable_stream_close(clear_algorithms(s1)), Len(s.reads), chunk)
             ELSE call_pull_if_needed(s1, Len(s.reads), chunk)

----------------------------------------------------------------------------
(* What script may call: the stream, its reader and its controller.        *)

MayCallScript == Len(r.stack) < MaxDepth

\* getReader() of a stream that is not locked; it throws if it is.
get_reader ==
    /\ r.reader = 0 /\ r.readers < MaxReaders
    /\ r' = [r EXCEPT !.readers = @ + 1, !.reader = r.readers + 1,
           !.closed = CASE r.state = "readable" -> "pending"
                        [] r.state = "closed" -> "fulfilled"
                        [] OTHER -> "rejected"]

\* Mutated form: the released reader takes its read requests with it.
ReleaseForgets ==
    /\ r.reader # 0
    /\ r' = [r EXCEPT !.reader = 0, !.closed = "none", !.read_requests = <<>>]

release_lock ==
    /\ r.reader # 0
    /\ r' = SettleReads([r EXCEPT !.reader = 0, !.closed = "none"], Failed)

read ==
    /\ r.reader # 0 /\ Len(r.reads) < MaxReads /\ MayCallScript
    /\ LET Reading(result) == [r EXCEPT !.reads = Append(@, result)]
       IN  r' = CASE r.state = "closed" -> Reading(Ended)
                  [] r.state = "errored" -> Reading(Failed)
                  [] OTHER -> pull_steps(Reading(Waiting))

\* cancel() of the stream or of its reader; at once if the stream has ended.
cancel ==
    /\ r.state = "readable" /\ MayCallScript
    /\ LET s == [readable_stream_close(r) EXCEPT !.queue = <<>>, !.canceled = "pending"]
       IN  r' = CallScript(s, "cancel", 0, 0)

\* enqueue() gives the chunk to the first read that waits, or has its size taken.
enqueue ==
    /\ can_close_or_enqueue(r) /\ r.calls < MaxChunks /\ MayCallScript
    /\ LET s == [r EXCEPT !.calls = @ + 1]
       IN  r' = IF HasReadRequest(s)
                THEN call_pull_if_needed(readable_stream_fulfill_read_request(s), 0, 0)
                ELSE CallScript(s, "size", 0, 0)

close == can_close_or_enqueue(r) /\ r' = controller_close(r)

error == r.state = "readable" /\ r' = controller_error(r)

----------------------------------------------------------------------------
(* Script returns to the stream. *)

Top(callback) == r.stack # <<>> /\ Last(r.stack).callback = callback
Popped == [r EXCEPT !.stack = Front(@)]

\* The size is valid.  size() may have closed the stream or made a read wait.
SizeReturns ==
    /\ Top("size")
    /\ r' = call_pull_if_needed(
               [Popped EXCEPT !.chunks = @ + 1, !.queue = Append(@, r.chunks + 1),
                   !.reentered = @ \/ ~can_close_or_enqueue(r) \/ r.read_requests # <<>>], 0, 0)

\* size() throws or returns a value that is not a size.
SizeFails ==
    /\ Top("size")
    /\ r' = controller_error(Popped)

\* The read whose chunk left the queue before pull() was called gets it now.
PullReturns ==
    /\ Top("pull")
    /\ r' = [OnChunk(Popped, Last(r.stack).read, Last(r.stack).chunk) EXCEPT
                !.source = @ \cup {"pull"}]

CancelReturns ==
    /\ Top("cancel")
    /\ r' = [clear_algorithms(Popped) EXCEPT !.source = @ \cup {"cancel"}]

----------------------------------------------------------------------------
(* Reactions to the promises of the source. *)

Settled(call) == r.stack = <<>> /\ call \in r.source
Done(call) == [r EXCEPT !.source = @ \ {call}]

\* Mutated form: reads made before the source has started are not announced.
StartFulfilledIdle ==
    /\ Settled("start")
    /\ r' = [Done("start") EXCEPT !.started = TRUE]

StartFulfilled ==
    /\ Settled("start")
    /\ r' = call_pull_if_needed([Verify(Done("start"), ~r.pulling /\ ~r.pull_again) EXCEPT
                                    !.started = TRUE], 0, 0)

\* Mutated form: what was asked for during a pull is forgotten.
PullFulfilledForgets ==
    /\ Settled("pull")
    /\ r' = [Done("pull") EXCEPT !.pulling = FALSE, !.pull_again = FALSE]

PullFulfilled ==
    /\ Settled("pull")
    /\ LET s == [Done("pull") EXCEPT !.pulling = FALSE, !.pull_again = FALSE]
       IN  r' = IF r.pull_again THEN call_pull_if_needed(s, 0, 0) ELSE s

\* start() or pull() was rejected.
SourceRejects(call) ==
    /\ Settled(call)
    /\ r' = controller_error(Done(call))

CancelSettled(outcome) ==
    /\ Settled("cancel")
    /\ r' = [Done("cancel") EXCEPT !.canceled = outcome]

----------------------------------------------------------------------------

Script == get_reader \/ release_lock \/ read \/ cancel \/ enqueue \/ close \/ error

ScriptReturns == SizeReturns \/ SizeFails \/ PullReturns \/ CancelReturns

Reaction ==
    \/ StartFulfilled \/ PullFulfilled
    \/ \E call \in {"start", "pull"} : SourceRejects(call)
    \/ \E outcome \in {"fulfilled", "rejected"} : CancelSettled(outcome)

Next == Script \/ ScriptReturns \/ Reaction

\* Script returns, and the source settles its promises.
Spec == Init /\ [][Next]_r /\ WF_r(ScriptReturns) /\ WF_r(Reaction)

----------------------------------------------------------------------------
(* Properties. *)

\* Reads wait only at an open stream that has a reader.
TypeOK ==
    /\ r.state \in {"readable", "closed", "errored"}
    /\ r.reader \in 0 .. MaxReaders /\ r.source \subseteq {"start", "pull", "cancel"}
    /\ r.queue \in Seq(1 .. MaxChunks) /\ r.reads \in Seq(Failed .. MaxChunks)
    /\ r.read_requests \in Seq(1 .. MaxReads)
    /\ r.read_requests # <<>> => r.state = "readable" /\ r.reader # 0

\* No VERIFY of the stream fails, and no algorithm is called after it was
\* cleared, whatever script calls the stream from where.
AssertionsHold == ~r.failed

InFlight == {r.stack[i].read : i \in {j \in DOMAIN r.stack : r.stack[j].callback = "pull"}}
Taken == {r.stack[i].chunk : i \in DOMAIN r.stack} \cup Range(r.queue) \cup Range(r.reads)

\* Every read that was promised a result is known to somebody who will give it:
\* it waits in the list or the frame of a pull() holds its chunk.  The reader's
\* closed promise agrees with the stream.
ReadsAccounted ==
    /\ TypeOK /\ AssertionsHold
    /\ \A i \in DOMAIN r.reads :
          r.reads[i] = Waiting <=> i \in Range(r.read_requests) \cup InFlight
    /\ r.reader # 0 => r.closed = CASE r.state = "readable" -> "pending"
                                    [] r.state = "closed" -> "fulfilled"
                                    [] OTHER -> "rejected"

\* Chunks are read in the order in which they were enqueued, and a read never
\* waits while there are chunks; close() waits for the queue, so a stream that
\* was closed but not cancelled has delivered every chunk, and an open one has
\* lost none.  A size() that has itself called read() breaks all of this.
ChunksInOrder ==
    ~r.reentered =>
        /\ r.queue = <<>> \/ r.read_requests = <<>>
        /\ \A i, j \in DOMAIN r.reads :
              i < j /\ r.reads[i] > 0 /\ r.reads[j] > 0 => r.reads[i] < r.reads[j]
        /\ r.state # "errored" /\ r.canceled = "none" =>
              /\ 1 .. r.chunks \subseteq Taken
              /\ r.state = "closed" => r.queue = <<>>

\* The source is asked to pull() again only when its last answer is in, and it
\* cannot miss that somebody reads: a read that waits was made before the last
\* pull(), or pull() is outstanding and will be repeated.
NoReadUnheard ==
    /\ Cardinality({i \in DOMAIN r.stack : r.stack[i].callback = "pull"})
          + Cardinality(r.source \cap {"pull"}) <= 1
    /\ r.started /\ can_close_or_enqueue(r) /\ r.read_requests # <<>> =>
          Last(r.read_requests) <= r.heard \/ (r.pulling /\ r.pull_again)

Waits(i) == i \in DOMAIN r.reads /\ r.reads[i] = Waiting

\* Every read that waits is announced to the source in the end, also one made
\* before start() is over or during a pull(), unless the stream ends first.
ReadsHeard ==
    \A i \in 1 .. MaxReads : Waits(i) ~> (~Waits(i) \/ r.heard >= i \/ r.close_requested)

=============================================================================

------------------------ MODULE WritableStreamProofs ------------------------
(***************************************************************************)
(* Proofs about WritableStream: whatever script calls the stream from      *)
(* where, no VERIFY fails, the sink does one thing at a time, the promises *)
(* that are settled are those of the chunks that were written, and a       *)
(* stream in error gives the sink nothing more.                            *)
(*                                                                         *)
(* The functions of the stream call each other, so the inductive invariant *)
(* is a predicate Safe on any state s of the stream, and each lemma says   *)
(* what one function makes of the state it is given.  Between the moment   *)
(* an operation fails and the moment the stream is in error the queue and  *)
(* the list of requests need not agree; what those functions rely on is    *)
(* the weaker Erring.                                                      *)
(***************************************************************************)
EXTENDS WritableStream, FiniteSetTheorems, TLAPS

Frames == [callback : SinkCallback \cup {"size", "signal"}, writer : Nat]

\* What the fields of a stream are, without the bounds.
Shape == [
    state : {"writable", "erroring", "closed", "errored"}, stored_error : BOOLEAN,
    backpressure : BOOLEAN, started : BOOLEAN, close_request : BOOLEAN,
    in_flight_close_request : BOOLEAN, in_flight_write_request : Nat,
    write_requests : Seq(Nat),
    pending_abort_request : {"none", "abort", "was_already_erroring"}, queue : Seq(Nat),
    algorithms : BOOLEAN, signalled : BOOLEAN, writer : Nat, ready : PromiseState,
    closed : PromiseState, promises : [Requests -> PromiseState],
    sink : SUBSET (SinkCallback \cup {"start"}), stack : Seq(Frames), writes : Nat,
    calls : Nat, writers : Nat, failed : BOOLEAN]

Fields == {
    "state", "stored_error", "backpressure", "started", "close_request",
    "in_flight_close_request", "in_flight_write_request", "write_requests",
    "pending_abort_request", "queue", "algorithms", "signalled", "writer", "ready", "closed",
    "promises", "sink", "stack", "writes", "calls", "writers", "failed"}

\* A state t that differs from s in some fields at most.
Same(t, s, changed) == t \in Shape /\ \A f \in Fields \ changed : t[f] = s[f]

SizeFrames(s) == {i \in DOMAIN s.stack : s.stack[i].callback = "size"}
SinkFrames(s) == {i \in DOMAIN s.stack : s.stack[i].callback \in SinkCallback}

\* What the sink does: the calls that run and those whose promise is pending.
CallsOf(s) == s.sink \cup {s.stack[i].callback : i \in SinkFrames(s)}

\* Every call of write() has made its request, was refused or waits for size().
Bounded(s) ==
    /\ s.writer <= s.writers /\ s.writers <= MaxWriters
    /\ s.calls <= MaxWrites /\ s.writes + Cardinality(SizeFrames(s)) <= s.calls
    /\ \A i \in SizeFrames(s) : s.stack[i].writer # 0

\* The sink does one thing at a time, and what the stream believes to be in
\* flight is what it does.
OneAtATime(s) ==
    /\ \A i, j \in SinkFrames(s) : i = j
    /\ SinkFrames(s) # {} => s.sink = {}
    /\ \A c, d \in s.sink : c = d
    /\ (s.in_flight_write_request # 0) <=> ("write" \in CallsOf(s))
    /\ s.in_flight_close_request <=> ("close" \in CallsOf(s))
    /\ ~s.started <=> ("start" \in CallsOf(s))
    /\ "abort" \in CallsOf(s) => s.state = "errored"

\* What the assertions of the stream rest on.  The algorithms are there as long
\* as something may call them: an open stream that does not close yet, or one
\* whose abort() waits for the write in flight.
Asserted(s) ==
    /\ ~s.failed
    /\ s.stored_error <=> s.state \in {"erroring", "errored"}
    /\ ~(s.close_request /\ s.in_flight_close_request)
    /\ s.pending_abort_request # "none" => s.state = "erroring"
    /\ ~s.in_flight_close_request /\ (s.state = "writable" \/ s.pending_abort_request = "abort")
          => s.algorithms
    /\ s.state \in {"closed", "errored"} =>
          s.in_flight_write_request = 0 /\ ~s.in_flight_close_request /\ s.started
    /\ s.state = "closed" => ~s.close_request

InFlight(s) == IF s.in_flight_write_request = 0 THEN 0 ELSE 1
Sentinel(s) == IF s.close_request THEN 1 ELSE 0

\* The writes that are over; the requests are the others, in order.
Over(s) == s.writes - Len(s.write_requests) - InFlight(s)

\* The requests are numbered in order, and the queue holds the chunk in flight
\* and the next ones.  A chunk that has no size is a request and is not queued,
\* but then the stream is in error.
Lined(s) ==
    /\ Over(s) >= 0
    /\ \A i \in DOMAIN s.write_requests :
          s.write_requests[i] = s.writes - Len(s.write_requests) + i
    /\ s.in_flight_write_request # 0 =>
          s.in_flight_write_request = s.writes - Len(s.write_requests)
    /\ Len(s.queue) >= InFlight(s) + Sentinel(s)
    /\ Len(s.queue) <= Len(s.write_requests) + InFlight(s) + Sentinel(s)
    /\ \A i \in DOMAIN s.queue : i <= Len(s.queue) - Sentinel(s) => s.queue[i] = Over(s) + i
    /\ s.close_request => s.queue[Len(s.queue)] = Close
    /\ s.in_flight_close_request \/ s.state = "closed" =>
          s.queue = <<>> /\ s.write_requests = <<>> /\ s.in_flight_write_request = 0

\* The promises of the writes say which are over.
Promised(s) ==
    \A i \in 1 .. s.writes :
        s.promises[i] = IF i <= Over(s) THEN "fulfilled" ELSE "pending"

\* The fulfilled writes are the first ones, and none of those that wait.
Ordered(s) ==
    /\ \A i, j \in 1 .. s.writes :
          i < j /\ s.promises[j] = "fulfilled" => s.promises[i] = "fulfilled"
    /\ \A k \in DOMAIN s.write_requests, j \in 1 .. s.writes :
          s.write_requests[k] <= j => s.promises[j] # "fulfilled"

\* The queue, the requests and the promises agree, or the stream is in error.
Matched(s) ==
    IF s.state = "errored"
    THEN s.queue = <<>> /\ s.write_requests = <<>> /\ Ordered(s)
    ELSE /\ Lined(s) /\ Promised(s)
         /\ s.state # "erroring" =>
               Len(s.queue) = Len(s.write_requests) + InFlight(s) + Sentinel(s)

\* What the writer knows of the stream.
Told(s) ==
    s.writer # 0 =>
      /\ s.state = "writable" =>
           (s.ready = IF s.backpressure /\ ~writable_stream_close_queued_or_in_flight(s)
                      THEN "pending" ELSE "fulfilled")
      /\ s.state \in {"erroring", "errored"} => s.ready = "rejected"
      /\ s.state \in {"writable", "erroring"} => s.closed = "pending"
      /\ s.state = "closed" => s.closed = "fulfilled"
      /\ s.state = "errored" => s.closed \in {"pending", "rejected"}

\* The writer of a stream in error knows of it, or will when abort() is over.
ErrorTold(s) ==
    s.writer # 0 /\ s.state = "errored" /\ s.closed # "rejected" => "abort" \in CallsOf(s)

Sound(s) ==
    /\ s \in Shape /\ Bounded(s) /\ OneAtATime(s) /\ Asserted(s) /\ Matched(s)
    /\ Told(s) /\ ErrorTold(s)

\* A stream that is erroring waits for something that is in flight.
Parked(s) ==
    s.state = "erroring" => ~s.started \/ writable_stream_has_operation_marked_in_flight(s)

\* The inductive invariant.
Safe(s) == Sound(s) /\ Parked(s)

IInv == Safe(w)

----------------------------------------------------------------------------
(***************************************************************************)
(* The operators that the functions of the stream are made of.             *)
(***************************************************************************)

\* A VERIFY of what holds changes nothing.
LEMMA Verified ==
    ASSUME NEW s \in Shape, ~s.failed, NEW condition \in BOOLEAN, condition
    PROVE  Verify(s, condition) = s
<1>1. s.failed = FALSE
  BY DEF Shape
<1>2. Verify(s, condition) = [s EXCEPT !.failed = FALSE]
  BY <1>1 DEF Verify
<1>3. [s EXCEPT !.failed = FALSE] = s
  <2>1. DOMAIN [s EXCEPT !.failed = FALSE] = DOMAIN s
    BY DEF Shape
  <2>2. \A x \in DOMAIN s : [s EXCEPT !.failed = FALSE][x] = s[x]
    BY <1>1 DEF Shape
  <2>3. QED
    BY <2>1, <2>2, Zenon DEF Shape
<1>4. QED
  BY <1>2, <1>3

\* A promise is settled once.
LEMMA SettleFields ==
    ASSUME NEW s \in Shape, NEW request \in Requests, NEW outcome \in PromiseState, NEW t,
           t = Settle(s, request, outcome)
    PROVE  /\ Same(t, s, {"promises"})
           /\ \A i \in Requests : i # request => t.promises[i] = s.promises[i]
           /\ t.promises[request] = IF s.promises[request] = "pending" THEN outcome
                                    ELSE s.promises[request]
<1>1. t \in Shape
  BY DEF Settle, Shape, PromiseState
<1>2. \A f \in Fields \ {"promises"} : t[f] = s[f]
  BY DEF Settle, Shape, Fields
<1>3. QED
  BY <1>1, <1>2 DEF Settle, Shape, Same

\* What a sequence holds after a value was appended.
LEMMA Appended ==
    ASSUME NEW S, NEW q \in Seq(S), NEW x \in S
    PROVE  /\ Append(q, x) \in Seq(S) /\ Len(q) \in Nat /\ Len(Append(q, x)) = Len(q) + 1
           /\ DOMAIN q = 1 .. Len(q) /\ DOMAIN Append(q, x) = 1 .. Len(q) + 1
           /\ \A i \in 1 .. Len(q) : Append(q, x)[i] = q[i]
           /\ Append(q, x)[Len(q) + 1] = x
  OBVIOUS

\* A sequence of length 0 is empty.
LEMMA EmptySeq == ASSUME NEW S, NEW q \in Seq(S), Len(q) = 0 PROVE q = <<>>
  OBVIOUS

\* What a sequence holds after its head was taken.
LEMMA Shortened ==
    ASSUME NEW S, NEW q \in Seq(S), q # <<>>
    PROVE  /\ Tail(q) \in Seq(S) /\ Len(Tail(q)) = Len(q) - 1 /\ Len(q) >= 1 /\ Len(q) \in Nat
           /\ DOMAIN q = 1 .. Len(q) /\ DOMAIN Tail(q) = 1 .. Len(q) - 1
           /\ \A i \in 1 .. Len(q) - 1 : Tail(q)[i] = q[i + 1]
           /\ Head(q) = q[1] /\ Head(q) \in S
  OBVIOUS

\* What a sequence holds after its last element was taken.
LEMMA FrontOf ==
    ASSUME NEW S, NEW q \in Seq(S), q # <<>>
    PROVE  /\ Front(q) \in Seq(S) /\ Len(Front(q)) = Len(q) - 1 /\ Len(q) >= 1 /\ Len(q) \in Nat
           /\ DOMAIN q = 1 .. Len(q) /\ DOMAIN Front(q) = 1 .. Len(q) - 1
           /\ \A i \in 1 .. Len(q) - 1 : Front(q)[i] = q[i]
           /\ Last(q) = q[Len(q)] /\ Last(q) \in S
<1>1. Len(q) \in Nat /\ Len(q) >= 1 /\ DOMAIN q = 1 .. Len(q) /\ q[Len(q)] \in S
  OBVIOUS
<1>2. Last(q) = q[Len(q)] /\ Front(q) = SubSeq(q, 1, Len(q) - 1)
  BY DEF Last, Front
<1>3. /\ SubSeq(q, 1, Len(q) - 1) \in Seq(S) /\ Len(SubSeq(q, 1, Len(q) - 1)) = Len(q) - 1
      /\ \A i \in 1 .. Len(q) - 1 : SubSeq(q, 1, Len(q) - 1)[i] = q[i]
  BY <1>1
<1>4. QED
  BY <1>1, <1>2, <1>3

\* The number of calls that wait for size() is a number.
LEMMA FramesFinite ==
    ASSUME NEW s, s.stack \in Seq(Frames)
    PROVE  IsFiniteSet(SizeFrames(s)) /\ Cardinality(SizeFrames(s)) \in Nat
<1>1. Len(s.stack) \in Nat /\ DOMAIN s.stack = 1 .. Len(s.stack)
  OBVIOUS
<1>2. IsFiniteSet(1 .. Len(s.stack)) /\ SizeFrames(s) \subseteq 1 .. Len(s.stack)
  BY <1>1, FS_Interval DEF SizeFrames
<1>3. IsFiniteSet(SizeFrames(s))
  BY <1>2, FS_Subset
<1>4. QED
  BY <1>3, FS_CardinalityType

\* Every write() has a promise of its own.
LEMMA WritesBounded ==
    ASSUME NEW s, s \in Shape, Bounded(s)
    PROVE  s.writes \in Nat /\ s.writes <= MaxWrites
           /\ \A i \in 1 .. s.writes : i \in Requests /\ i # Close /\ i # Abort
<1>1. s.stack \in Seq(Frames) /\ s.writes \in Nat /\ s.calls \in Nat
  BY DEF Shape
<1>2. Cardinality(SizeFrames(s)) \in Nat
  BY <1>1, FramesFinite
<1>3. s.writes <= MaxWrites
  BY <1>1, <1>2, StreamBounds DEF Bounded
<1>4. QED
  BY <1>1, <1>3, StreamBounds DEF Requests, Abort, Close

\* size() or the listeners return.
LEMMA ScriptPopped ==
    ASSUME NEW s, NEW t, s.stack \in Seq(Frames), s.stack # <<>>,
           t.stack = Front(s.stack), t.sink = s.sink, Last(s.stack).callback \notin SinkCallback
    PROVE  /\ t.stack \in Seq(Frames) /\ Last(s.stack) \in Frames
           /\ SinkFrames(t) = SinkFrames(s) /\ CallsOf(t) = CallsOf(s)
           /\ SizeFrames(t) = SizeFrames(s) \ {Len(s.stack)}
           /\ Cardinality(SizeFrames(t)) \in Nat
           /\ Last(s.stack).callback = "size" =>
                 Cardinality(SizeFrames(s)) = Cardinality(SizeFrames(t)) + 1
           /\ Last(s.stack).callback # "size" => SizeFrames(t) = SizeFrames(s)
           /\ \A i \in SizeFrames(t) : t.stack[i] = s.stack[i]
           /\ Last(s.stack).callback = "size" => Last(s.stack) = s.stack[Len(s.stack)]
                                                 /\ Len(s.stack) \in SizeFrames(s)
<1>1. /\ Len(s.stack) \in Nat /\ Len(s.stack) >= 1 /\ DOMAIN s.stack = 1 .. Len(s.stack)
      /\ DOMAIN t.stack = 1 .. Len(s.stack) - 1 /\ t.stack \in Seq(Frames)
      /\ \A i \in 1 .. Len(s.stack) - 1 : t.stack[i] = s.stack[i]
      /\ Last(s.stack) = s.stack[Len(s.stack)] /\ Last(s.stack) \in Frames
  BY FrontOf
<1>2. SinkFrames(t) = SinkFrames(s) /\ \A i \in SinkFrames(s) : t.stack[i] = s.stack[i]
  BY <1>1, SMTT(30) DEF SinkFrames
<1>3. CallsOf(t) = CallsOf(s)
  BY <1>2 DEF CallsOf
<1>4. /\ SizeFrames(t) = SizeFrames(s) \ {Len(s.stack)}
      /\ Len(s.stack) \notin SizeFrames(t)
      /\ \A i \in SizeFrames(t) : t.stack[i] = s.stack[i]
      /\ (Last(s.stack).callback = "size") <=> (Len(s.stack) \in SizeFrames(s))
  <2>1. (Last(s.stack).callback = "size") <=> (Len(s.stack) \in SizeFrames(s))
    BY <1>1 DEF SizeFrames
  <2>2. SizeFrames(t) = SizeFrames(s) \ {Len(s.stack)} /\ Len(s.stack) \notin SizeFrames(t)
    <3>1. \A i : i \in 1 .. Len(s.stack) - 1 <=> i \in 1 .. Len(s.stack) /\ i # Len(s.stack)
      BY <1>1
    <3>2. QED
      BY <1>1, <3>1 DEF SizeFrames
  <2>3. \A i \in SizeFrames(t) : t.stack[i] = s.stack[i]
    BY <1>1 DEF SizeFrames
  <2>4. QED
    BY <2>1, <2>2, <2>3
<1>5. IsFiniteSet(SizeFrames(t)) /\ Cardinality(SizeFrames(t)) \in Nat
  BY <1>1, FramesFinite
<1>6. /\ Last(s.stack).callback = "size" =>
            Cardinality(SizeFrames(s)) = Cardinality(SizeFrames(t)) + 1
      /\ Last(s.stack).callback # "size" => SizeFrames(t) = SizeFrames(s)
  <2>1. CASE Last(s.stack).callback = "size"
    <3>1. SizeFrames(s) = SizeFrames(t) \cup {Len(s.stack)}
      BY <1>4, <2>1
    <3>2. Cardinality(SizeFrames(t) \cup {Len(s.stack)}) = Cardinality(SizeFrames(t)) + 1
      BY <1>4, <1>5, FS_AddElement
    <3>3. QED
      BY <2>1, <3>1, <3>2
  <2>2. CASE Last(s.stack).callback # "size"
    <3>1. SizeFrames(s) = SizeFrames(t)
      BY <1>4, <2>2
    <3>2. QED
      BY <1>5, <2>2, <3>1
  <2>3. QED
    BY <2>1, <2>2
<1>7. QED
  BY <1>1, <1>2, <1>3, <1>4, <1>5, <1>6

\* A function of the sink returns its promise.
LEMMA SinkPopped ==
    ASSUME NEW s, NEW t, s.stack \in Seq(Frames), s.stack # <<>>, OneAtATime(s),
           t.stack = Front(s.stack), Last(s.stack).callback \in SinkCallback,
           t.sink = s.sink \cup {Last(s.stack).callback}
    PROVE  /\ t.stack \in Seq(Frames) /\ SinkFrames(t) = {} /\ CallsOf(t) = CallsOf(s)
           /\ t.sink = {Last(s.stack).callback}
           /\ SizeFrames(t) = SizeFrames(s)
           /\ \A i \in SizeFrames(t) : t.stack[i] = s.stack[i]
<1>1. /\ Len(s.stack) \in Nat /\ Len(s.stack) >= 1 /\ DOMAIN s.stack = 1 .. Len(s.stack)
      /\ DOMAIN t.stack = 1 .. Len(s.stack) - 1 /\ t.stack \in Seq(Frames)
      /\ \A i \in 1 .. Len(s.stack) - 1 : t.stack[i] = s.stack[i]
      /\ Last(s.stack) = s.stack[Len(s.stack)] /\ Last(s.stack) \in Frames
  BY FrontOf
<1>2. Len(s.stack) \in SinkFrames(s) /\ SinkFrames(t) = SinkFrames(s) \ {Len(s.stack)}
  BY <1>1 DEF SinkFrames
<1>3. SinkFrames(s) = {Len(s.stack)} /\ s.sink = {}
  BY <1>2 DEF OneAtATime
<1>4. CallsOf(t) = {Last(s.stack).callback} /\ CallsOf(s) = {Last(s.stack).callback}
  BY <1>1, <1>2, <1>3 DEF CallsOf
<1>5. SizeFrames(t) = SizeFrames(s) /\ \A i \in SizeFrames(t) : t.stack[i] = s.stack[i]
  BY <1>1, SMTT(30) DEF SizeFrames, SinkCallback
<1>6. QED
  BY <1>1, <1>2, <1>3, <1>4, <1>5

----------------------------------------------------------------------------
(***************************************************************************)
(* Errors.                                                                 *)
(***************************************************************************)

\* A stream that gives up: nothing is in flight any more, and the chunks and
\* requests it still has will be dropped, whether they agree or not.
Erring(s) ==
    /\ s \in Shape /\ Bounded(s) /\ OneAtATime(s) /\ Ordered(s)
    /\ ~s.failed /\ s.stored_error /\ s.state = "erroring" /\ s.started
    /\ ~writable_stream_has_operation_marked_in_flight(s)
    /\ s.pending_abort_request = "abort" => s.algorithms
    /\ s.writer # 0 => s.ready = "rejected" /\ s.closed = "pending"

\* All that Sound says but that the writer has learned of the error.
Untold(s) ==
    /\ s \in Shape /\ Bounded(s) /\ OneAtATime(s) /\ Asserted(s) /\ Matched(s) /\ Told(s)

\* reject_close_and_closed_promise_if_needed() tells the writer of the error.
LEMMA RejectSafe ==
    ASSUME NEW s, Untold(s), s.state = "errored", NEW t,
           t = reject_close_and_closed_promise_if_needed(s)
    PROVE  Safe(t) /\ t.state = "errored" /\ CallsOf(t) = CallsOf(s)
<1> DEFINE s1 == Verify(s, s.state = "errored"
                           /\ (s.close_request => ~s.in_flight_close_request))
           u == Settle(s1, Close, "rejected")
           s2 == IF s1.close_request THEN [u EXCEPT !.close_request = FALSE] ELSE s1
<1>1. /\ s \in Shape /\ ~s.failed /\ ~(s.close_request /\ s.in_flight_close_request)
      /\ Close \in Requests /\ "rejected" \in PromiseState
  BY StreamBounds DEF Untold, Shape, Asserted, Close, Requests, Abort, PromiseState
<1>2. t = IF s2.writer # 0 THEN SettleClosed(s2, "rejected") ELSE s2
  BY Zenon DEF reject_close_and_closed_promise_if_needed
<1>3. s1 = s
  BY <1>1, Verified
<1> HIDE DEF s1
<1>4. /\ Same(u, s, {"promises"})
      /\ \A i \in Requests : i # Close => u.promises[i] = s.promises[i]
  BY <1>1, <1>3, SettleFields
<1> HIDE DEF u
<1>5. /\ Same(s2, s, {"close_request", "promises"}) /\ ~s2.close_request
      /\ \A i \in Requests : i # Close => s2.promises[i] = s.promises[i]
  <2>1. CASE s.close_request
    <3> HIDE DEF s2
    <3>1. s2 = [u EXCEPT !.close_request = FALSE]
      BY <1>3, <2>1 DEF s2
    <3>2. Same(s2, u, {"close_request"}) /\ ~s2.close_request /\ s2.promises = u.promises
      BY <1>4, <3>1 DEF Same, Shape, Fields
    <3>3. QED
      BY <1>4, <3>2 DEF Same
  <2>2. CASE ~s.close_request
    BY <1>1, <1>3, <2>2 DEF Same
  <2>3. QED
    BY <2>1, <2>2
<1> HIDE DEF s2
<1>6. /\ Same(t, s2, {"closed"})
      /\ t.closed = IF s2.writer # 0 /\ s2.closed = "pending" THEN "rejected" ELSE s2.closed
  <2>1. CASE s2.writer # 0
    <3>1. t = [s2 EXCEPT !.closed = IF s2.closed = "pending" THEN "rejected" ELSE s2.closed]
      BY <1>2, <2>1 DEF SettleClosed
    <3>2. QED
      BY <1>5, <2>1, <3>1, ZenonT(40) DEF Same, Shape, Fields, PromiseState
  <2>2. CASE ~(s2.writer # 0)
    BY <1>2, <1>5, <2>2 DEF Same
  <2>3. QED
    BY <2>1, <2>2
<1>7. /\ Same(t, s, {"close_request", "closed", "promises"}) /\ ~t.close_request
      /\ t.closed = IF s.writer # 0 /\ s.closed = "pending" THEN "rejected" ELSE s.closed
      /\ \A i \in Requests : i # Close => t.promises[i] = s.promises[i]
  BY <1>5, <1>6 DEF Same, Fields
<1>8. SizeFrames(t) = SizeFrames(s) /\ SinkFrames(t) = SinkFrames(s) /\ CallsOf(t) = CallsOf(s)
  BY <1>7 DEF Same, Fields, SizeFrames, SinkFrames, CallsOf
<1>9. Bounded(t) /\ OneAtATime(t)
  BY <1>7, <1>8 DEF Same, Fields, Untold, Bounded, OneAtATime
<1>10. Asserted(t)
  BY <1>7 DEF Same, Fields, Untold, Asserted
<1>11. Matched(t)
  <2>1. \A i \in 1 .. s.writes : i \in Requests /\ i # Close
    BY WritesBounded DEF Untold
  <2>2. QED
    BY <1>7, <2>1 DEF Same, Fields, Untold, Matched, Ordered
<1>12. Told(t) /\ ErrorTold(t)
  BY <1>7 DEF Same, Fields, Untold, Told, ErrorTold
<1>13. t.state = "errored" /\ t \in Shape
  BY <1>7 DEF Same, Fields
<1>14. QED
  BY <1>8, <1>9, <1>10, <1>11, <1>12, <1>13 DEF Safe, Sound, Parked

\* The sink does nothing when nothing is in flight.
LEMMA SinkIdle ==
    ASSUME NEW s, s \in Shape, OneAtATime(s), s.started, s.state # "errored",
           ~writable_stream_has_operation_marked_in_flight(s)
    PROVE  CallsOf(s) = {} /\ s.sink = {} /\ SinkFrames(s) = {}
<1>1. CallsOf(s) \subseteq SinkCallback \cup {"start"}
  <2>1. s.sink \subseteq SinkCallback \cup {"start"}
    BY DEF Shape
  <2>2. \A i \in SinkFrames(s) : s.stack[i].callback \in SinkCallback
    BY DEF SinkFrames
  <2>3. QED
    BY <2>1, <2>2 DEF CallsOf
<1>2. /\ "write" \notin CallsOf(s) /\ "close" \notin CallsOf(s)
      /\ "start" \notin CallsOf(s) /\ "abort" \notin CallsOf(s)
  BY DEF OneAtATime, writable_stream_has_operation_marked_in_flight
<1>3. CallsOf(s) = {}
  BY <1>1, <1>2 DEF SinkCallback
<1>4. QED
  BY <1>3 DEF CallsOf

\* The stream calls a function of the sink, which did nothing.
LEMMA SinkCalled ==
    ASSUME NEW s, s \in Shape, NEW callback \in SinkCallback, NEW t, t = CallScript(s, callback),
           CallsOf(s) = {}, s.sink = {}, SinkFrames(s) = {}
    PROVE  /\ Same(t, s, {"stack"}) /\ CallsOf(t) = {callback}
           /\ \A i, j \in SinkFrames(t) : i = j
           /\ Bounded(s) => Bounded(t)
<1> DEFINE f == Frame(callback, s.writer)
<1>1. s.stack \in Seq(Frames) /\ f \in Frames /\ f.callback = callback
  BY DEF Shape, Frame, Frames
<1>2. t = [s EXCEPT !.stack = Append(s.stack, f)]
  BY DEF CallScript
<1> HIDE DEF f
<1>3. /\ Len(s.stack) \in Nat /\ DOMAIN s.stack = 1 .. Len(s.stack)
      /\ Append(s.stack, f) \in Seq(Frames)
      /\ DOMAIN Append(s.stack, f) = 1 .. Len(s.stack) + 1
      /\ \A i \in 1 .. Len(s.stack) : Append(s.stack, f)[i] = s.stack[i]
      /\ Append(s.stack, f)[Len(s.stack) + 1] = f
  BY <1>1, Appended
<1>4. Same(t, s, {"stack"}) /\ t.stack = Append(s.stack, f)
  BY <1>2, <1>3, ZenonT(40) DEF Same, Shape, Fields
<1>5. SinkFrames(t) = {Len(s.stack) + 1}
  BY <1>1, <1>3, <1>4 DEF SinkFrames
<1>6. CallsOf(t) = {callback}
  BY <1>1, <1>3, <1>4, <1>5 DEF CallsOf, Same, Fields
<1>7. SizeFrames(t) = SizeFrames(s) /\ \A i \in SizeFrames(s) : t.stack[i] = s.stack[i]
  BY <1>1, <1>3, <1>4 DEF SizeFrames, SinkCallback
<1>8. ASSUME Bounded(s) PROVE Bounded(t)
  BY <1>4, <1>7, <1>8 DEF Same, Fields, Bounded
<1>9. QED
  BY <1>4, <1>5, <1>6, <1>8

\* writable_stream_finish_erroring(): the stream is in error, and no write that
\* waits stays unanswered.
LEMMA FinishSafe ==
    ASSUME NEW s, Erring(s), NEW t, t = writable_stream_finish_erroring(s)
    PROVE  Safe(t) /\ t.state = "errored" /\ CallsOf(t) \subseteq CallsOf(s) \cup {"abort"}
<1> DEFINE s1 == Verify(s, s.state = "erroring"
                           /\ ~writable_stream_has_operation_marked_in_flight(s))
           q == [r \in Requests |->
                   IF r \in Range(s1.write_requests) THEN "rejected" ELSE s1.promises[r]]
           s2 == [s1 EXCEPT !.state = "errored", !.queue = <<>>, !.write_requests = <<>>,
                            !.pending_abort_request = "none", !.promises = q]
           s3 == Settle(s2, Abort, "rejected")
<1>1. s1 = s
  BY Verified DEF Erring
<1>2. t = CASE s1.pending_abort_request = "none" -> reject_close_and_closed_promise_if_needed(s2)
            [] s1.pending_abort_request = "was_already_erroring" ->
                  reject_close_and_closed_promise_if_needed(s3)
            [] OTHER -> CallScript(Verify(s2, s2.algorithms), "abort")
  BY Zenon DEF writable_stream_finish_erroring
<1> HIDE DEF s1, s3
<1>3. s \in Shape /\ s.promises \in [Requests -> PromiseState] /\ <<>> \in Seq(Nat)
  BY DEF Erring, Shape
<1>4. /\ q \in [Requests -> PromiseState]
      /\ \A i \in Requests : q[i] = IF i \in Range(s.write_requests) THEN "rejected" ELSE s.promises[i]
  BY <1>1, <1>3 DEF PromiseState
<1> HIDE DEF q
<1>5. s2 = [s EXCEPT !.state = "errored", !.queue = <<>>, !.write_requests = <<>>,
                     !.pending_abort_request = "none", !.promises = q]
  BY <1>1
<1> HIDE DEF s2
<1>6. /\ s2 \in Shape /\ s2.state = "errored" /\ s2.queue = <<>> /\ s2.write_requests = <<>>
      /\ s2.pending_abort_request = "none" /\ s2.promises = q
  BY <1>3, <1>4, <1>5 DEF Shape
<1>7. Same(s2, s, {"state", "queue", "write_requests", "pending_abort_request", "promises"})
  BY <1>3, <1>5, <1>6 DEF Same, Shape, Fields
<1>8. SizeFrames(s2) = SizeFrames(s) /\ SinkFrames(s2) = SinkFrames(s) /\ CallsOf(s2) = CallsOf(s)
  BY <1>7 DEF Same, Fields, SizeFrames, SinkFrames, CallsOf
<1>9. Untold(s2)
  <2>1. Bounded(s2)
    BY <1>7, <1>8 DEF Same, Fields, Erring, Bounded
  <2>2. OneAtATime(s2)
    BY <1>6, <1>7, <1>8 DEF Same, Fields, Erring, OneAtATime
  <2>3. Asserted(s2)
    BY <1>6, <1>7 DEF Same, Fields, Erring, Asserted, writable_stream_has_operation_marked_in_flight
  <2>4. Told(s2)
    BY <1>6, <1>7 DEF Same, Fields, Erring, Told
  <2>5. Ordered(s2)
    <3>1. \A i \in 1 .. s.writes : i \in Requests
      BY <1>3, WritesBounded DEF Erring
    <3>2. s2.writes = s.writes
      BY <1>7 DEF Same, Fields
    <3>3. ASSUME NEW i \in 1 .. s.writes, NEW j \in 1 .. s.writes, i < j, q[j] = "fulfilled"
          PROVE  q[i] = "fulfilled"
      <4>1. i \in Requests /\ j \in Requests
        BY <3>1
      <4>2. s.promises[j] = "fulfilled"
        BY <1>4, <3>3, <4>1
      <4>3. s.promises[i] = "fulfilled"
        BY <3>3, <4>2 DEF Erring, Ordered
      <4>4. i \notin Range(s.write_requests)
        BY <3>3, <4>2 DEF Erring, Ordered, Range
      <4>5. QED
        BY <1>4, <4>1, <4>3, <4>4
    <3>4. DOMAIN s2.write_requests = {}
      BY <1>6
    <3>5. QED
      BY <1>6, <3>2, <3>3, <3>4 DEF Ordered
  <2>6. Matched(s2)
    BY <1>6, <2>5 DEF Matched
  <2>7. QED
    BY <1>6, <2>1, <2>2, <2>3, <2>4, <2>6 DEF Untold
<1>10. CASE s.pending_abort_request = "none"
  <2>1. t = reject_close_and_closed_promise_if_needed(s2)
    BY <1>1, <1>2, <1>10
  <2>2. QED
    BY <1>6, <1>8, <1>9, <2>1, RejectSafe
<1>11. CASE s.pending_abort_request = "was_already_erroring"
  <2>1. t = reject_close_and_closed_promise_if_needed(s3)
    BY <1>1, <1>2, <1>11
  <2>2. Abort \in Requests /\ "rejected" \in PromiseState
    BY StreamBounds DEF Abort, Requests, PromiseState
  <2>3. /\ Same(s3, s2, {"promises"})
        /\ \A i \in Requests : i # Abort => s3.promises[i] = s2.promises[i]
    BY <1>6, <2>2, SettleFields DEF s3
  <2>4. SizeFrames(s3) = SizeFrames(s2) /\ SinkFrames(s3) = SinkFrames(s2) /\ CallsOf(s3) = CallsOf(s2)
    BY <2>3 DEF Same, Fields, SizeFrames, SinkFrames, CallsOf
  <2>5. Bounded(s3) /\ OneAtATime(s3)
    BY <1>9, <2>3, <2>4 DEF Same, Fields, Untold, Bounded, OneAtATime
  <2>6. Asserted(s3) /\ Told(s3) /\ s3 \in Shape /\ s3.state = "errored"
    BY <1>6, <1>9, <2>3 DEF Same, Fields, Untold, Asserted, Told
  <2>7. Matched(s3)
    <3>1. \A i \in 1 .. s2.writes : i \in Requests /\ i # Abort
      BY <1>9, WritesBounded DEF Untold
    <3>2. QED
      BY <1>6, <1>9, <2>3, <3>1 DEF Same, Fields, Untold, Matched, Ordered
  <2>8. Untold(s3)
    BY <2>5, <2>6, <2>7 DEF Untold
  <2>9. QED
    BY <1>8, <2>1, <2>4, <2>6, <2>8, RejectSafe
<1>12. CASE s.pending_abort_request = "abort"
  <2>1. t = CallScript(Verify(s2, s2.algorithms), "abort")
    BY <1>1, <1>2, <1>12
  <2>2. s2.algorithms /\ s2.algorithms \in BOOLEAN /\ ~s2.failed
    BY <1>6, <1>7, <1>12 DEF Same, Fields, Erring, Shape
  <2>3. Verify(s2, s2.algorithms) = s2
    BY <1>6, <2>2, Verified
  <2>4. CallsOf(s2) = {} /\ s2.sink = {} /\ SinkFrames(s2) = {}
    <3>1. CallsOf(s) = {} /\ s.sink = {} /\ SinkFrames(s) = {}
      BY SinkIdle DEF Erring
    <3>2. QED
      BY <1>7, <1>8, <3>1 DEF Same, Fields
  <2>5. t = CallScript(s2, "abort")
    BY <2>1, <2>3
  <2>6. /\ Same(t, s2, {"stack"}) /\ CallsOf(t) = {"abort"} /\ Bounded(t)
        /\ \A i, j \in SinkFrames(t) : i = j
    BY <1>6, <1>9, <2>4, <2>5, SinkCalled DEF Untold, SinkCallback
  <2>7. OneAtATime(t)
    BY <1>6, <1>9, <2>4, <2>6 DEF Same, Fields, Untold, OneAtATime
  <2>8. Asserted(t) /\ Told(t) /\ ErrorTold(t) /\ Parked(t) /\ t \in Shape /\ t.state = "errored"
    BY <1>6, <1>9, <2>6 DEF Same, Fields, Untold, Asserted, Told, ErrorTold, Parked
  <2>9. Matched(t)
    BY <1>6, <1>9, <2>6 DEF Same, Fields, Untold, Matched, Ordered
  <2>10. QED
    BY <2>6, <2>7, <2>8, <2>9 DEF Safe, Sound
<1>13. QED
  BY <1>3, <1>10, <1>11, <1>12 DEF Shape

\* The promises are ordered as long as they agree with the requests.
LEMMA PromisedOrdered ==
    ASSUME NEW s, s \in Shape, Lined(s), Promised(s)
    PROVE  Ordered(s) /\ Over(s) \in Nat
<1>1. /\ s.writes \in Nat /\ Len(s.write_requests) \in Nat /\ InFlight(s) \in {0, 1}
      /\ Over(s) = s.writes - Len(s.write_requests) - InFlight(s) /\ Over(s) >= 0
      /\ DOMAIN s.write_requests = 1 .. Len(s.write_requests)
  BY DEF Shape, InFlight, Over, Lined
<1>2. Over(s) \in Nat
  BY <1>1
<1>3. \A i \in 1 .. s.writes : s.promises[i] = "fulfilled" <=> i <= Over(s)
  BY <1>2 DEF Promised
<1>4. \A k \in DOMAIN s.write_requests : s.write_requests[k] > Over(s) /\ s.write_requests[k] \in Int
  BY <1>1 DEF Lined
<1>5. ASSUME NEW i \in 1 .. s.writes, NEW j \in 1 .. s.writes, i < j, s.promises[j] = "fulfilled"
      PROVE  s.promises[i] = "fulfilled"
  BY <1>1, <1>2, <1>3, <1>5
<1>6. ASSUME NEW k \in DOMAIN s.write_requests, NEW j \in 1 .. s.writes, s.write_requests[k] <= j
      PROVE  s.promises[j] # "fulfilled"
  BY <1>1, <1>2, <1>3, <1>4, <1>6
<1>7. QED
  BY <1>2, <1>5, <1>6 DEF Ordered

\* An open stream in which something has failed.  It may have an abort() that
\* waits; if it has to wait for what is in flight the queue must still agree.
Failing(s) ==
    /\ s \in Shape /\ Bounded(s) /\ OneAtATime(s) /\ Ordered(s)
    /\ ~s.failed /\ ~s.stored_error /\ s.state = "writable"
    /\ ~(s.close_request /\ s.in_flight_close_request)
    /\ s.pending_abort_request = "abort" /\ ~s.in_flight_close_request => s.algorithms
    /\ s.writer # 0 => s.closed = "pending"
    /\ ~s.started \/ writable_stream_has_operation_marked_in_flight(s) => Lined(s) /\ Promised(s)

\* writable_stream_start_erroring()
LEMMA StartErroringSafe ==
    ASSUME NEW s, Failing(s), NEW t, t = writable_stream_start_erroring(s)
    PROVE  /\ Safe(t) /\ t.state \in {"erroring", "errored"}
           /\ CallsOf(t) \subseteq CallsOf(s) \cup {"abort"}
<1> DEFINE s1 == Verify(s, ~s.stored_error /\ s.state = "writable")
           s2 == [s1 EXCEPT !.state = "erroring", !.stored_error = TRUE,
                            !.ready = IF s1.writer # 0 THEN "rejected" ELSE s1.ready]
<1>1. s1 = s
  BY Verified DEF Failing
<1>2. t = IF ~writable_stream_has_operation_marked_in_flight(s2) /\ s2.started
          THEN writable_stream_finish_erroring(s2) ELSE s2
  BY Zenon DEF writable_stream_start_erroring
<1> HIDE DEF s1
<1>3. s2 = [s EXCEPT !.state = "erroring", !.stored_error = TRUE,
                     !.ready = IF s.writer # 0 THEN "rejected" ELSE s.ready]
  BY <1>1
<1> HIDE DEF s2
<1>4. s \in Shape
  BY DEF Failing
<1>5. /\ s2 \in Shape /\ s2.state = "erroring" /\ s2.stored_error
      /\ s2.ready = IF s.writer # 0 THEN "rejected" ELSE s.ready
  BY <1>3, <1>4 DEF Shape, PromiseState
<1>6. Same(s2, s, {"state", "stored_error", "ready"})
  BY <1>3, <1>4, <1>5 DEF Same, Shape, Fields
<1>7. SizeFrames(s2) = SizeFrames(s) /\ SinkFrames(s2) = SinkFrames(s) /\ CallsOf(s2) = CallsOf(s)
  BY <1>6 DEF Same, Fields, SizeFrames, SinkFrames, CallsOf
<1>8. Bounded(s2)
  BY <1>6, <1>7 DEF Same, Fields, Failing, Bounded
<1>9. OneAtATime(s2)
  BY <1>6, <1>7 DEF Same, Fields, Failing, OneAtATime
<1>10. Ordered(s2)
  BY <1>6 DEF Same, Fields, Failing, Ordered
<1>11. CASE ~writable_stream_has_operation_marked_in_flight(s2) /\ s2.started
  <2>1. s2.pending_abort_request = "abort" => s2.algorithms
    BY <1>6, <1>11 DEF Same, Fields, Failing, writable_stream_has_operation_marked_in_flight
  <2>2. ~s2.failed /\ (s2.writer # 0 => s2.ready = "rejected" /\ s2.closed = "pending")
    BY <1>5, <1>6 DEF Same, Fields, Failing
  <2>3. Erring(s2)
    BY <1>5, <1>8, <1>9, <1>10, <1>11, <2>1, <2>2 DEF Erring
  <2>4. QED
    BY <1>2, <1>7, <1>11, <2>3, FinishSafe
<1>12. CASE ~(~writable_stream_has_operation_marked_in_flight(s2) /\ s2.started)
  <2>1. t = s2
    BY <1>2, <1>12
  <2>2. Lined(s) /\ Promised(s)
    BY <1>6, <1>12 DEF Same, Fields, Failing, writable_stream_has_operation_marked_in_flight
  <2>3. Matched(s2)
    <3>1. Over(s2) = Over(s) /\ InFlight(s2) = InFlight(s) /\ Sentinel(s2) = Sentinel(s)
      BY <1>6 DEF Same, Fields, Over, InFlight, Sentinel
    <3>2. Promised(s2)
      BY <1>6, <2>2, <3>1 DEF Same, Fields, Promised
    <3>3. Lined(s2)
      BY <1>5, <1>6, <2>2, <3>1 DEF Same, Fields, Lined
    <3>4. QED
      BY <1>5, <3>2, <3>3 DEF Matched
  <2>4. Asserted(s2)
    BY <1>5, <1>6 DEF Same, Fields, Failing, Asserted
  <2>5. Told(s2) /\ ErrorTold(s2) /\ Parked(s2)
    BY <1>5, <1>6, <1>12 DEF Same, Fields, Failing, Told, ErrorTold, Parked
  <2>6. QED
    BY <1>5, <1>7, <1>8, <1>9, <2>1, <2>3, <2>4, <2>5 DEF Safe, Sound
<1>13. QED
  BY <1>11, <1>12

\* A stream that is open may fail at any time, also when abort() is called.
LEMMA OpenFails ==
    ASSUME NEW s, Sound(s), s.state = "writable", NEW t,
           Same(t, s, {"algorithms", "pending_abort_request", "promises"}),
           \A i \in Requests : i # Abort => t.promises[i] = s.promises[i],
           t.pending_abort_request = "abort" => t.algorithms = s.algorithms
    PROVE  Failing(t) /\ CallsOf(t) = CallsOf(s)
<1>1. SizeFrames(t) = SizeFrames(s) /\ SinkFrames(t) = SinkFrames(s) /\ CallsOf(t) = CallsOf(s)
  BY DEF Same, Fields, SizeFrames, SinkFrames, CallsOf
<1>2. Bounded(t) /\ OneAtATime(t)
  BY <1>1 DEF Same, Fields, Sound, Bounded, OneAtATime
<1>3. Lined(s) /\ Promised(s)
  BY DEF Sound, Matched
<1>4. Lined(t) /\ Over(t) = Over(s)
  BY <1>3, ZenonT(40) DEF Same, Fields, Lined, Over, InFlight, Sentinel
<1>5. Promised(t)
  <2>1. \A i \in 1 .. s.writes : i \in Requests /\ i # Abort
    BY WritesBounded DEF Sound
  <2>2. t.writes = s.writes
    BY DEF Same, Fields
  <2>3. QED
    BY <1>3, <1>4, <2>1, <2>2 DEF Promised
<1>6. t \in Shape /\ Ordered(t)
  BY <1>4, <1>5, PromisedOrdered DEF Same
<1>7. /\ ~t.failed /\ ~t.stored_error /\ t.state = "writable"
      /\ ~(t.close_request /\ t.in_flight_close_request)
      /\ t.writer # 0 => t.closed = "pending"
  BY DEF Same, Fields, Sound, Asserted, Told
<1>8. t.pending_abort_request = "abort" /\ ~t.in_flight_close_request => t.algorithms
  BY DEF Same, Fields, Sound, Asserted
<1>9. QED
  BY <1>1, <1>2, <1>4, <1>5, <1>6, <1>7, <1>8 DEF Failing

\* controller_error_if_needed() after script has thrown, and error().
LEMMA ErrorSafe ==
    ASSUME NEW s, Safe(s), NEW t,
           t = IF s.state = "writable" THEN writable_stream_start_erroring(clear_algorithms(s)) ELSE s
    PROVE  Safe(t) /\ t.state # "writable" /\ CallsOf(t) \subseteq CallsOf(s) \cup {"abort"}
<1> DEFINE u == clear_algorithms(s)
<1>1. CASE s.state = "writable"
  <2>1. s \in Shape /\ s.pending_abort_request = "none"
    BY <1>1 DEF Safe, Sound, Asserted
  <2>2. u = [s EXCEPT !.algorithms = FALSE]
    BY DEF clear_algorithms
  <2> HIDE DEF u
  <2>3. Same(u, s, {"algorithms"})
    BY <2>1, <2>2 DEF Same, Shape, Fields
  <2>4. /\ Same(u, s, {"algorithms", "pending_abort_request", "promises"})
        /\ u.promises = s.promises /\ u.pending_abort_request = "none"
    BY <2>1, <2>3 DEF Same, Fields
  <2>5. Failing(u) /\ CallsOf(u) = CallsOf(s)
    BY <1>1, <2>4, OpenFails DEF Safe
  <2>6. t = writable_stream_start_erroring(u)
    BY <1>1 DEF u
  <2>7. QED
    BY <2>5, <2>6, StartErroringSafe
<1>2. CASE s.state # "writable"
  BY <1>2
<1>3. QED
  BY <1>1, <1>2

\* writable_stream_deal_with_rejection()
LEMMA DealSafe ==
    ASSUME NEW s, s.state = "writable" => Failing(s), s.state # "writable" => Erring(s),
           NEW t, t = writable_stream_deal_with_rejection(s)
    PROVE  Safe(t) /\ CallsOf(t) \subseteq CallsOf(s) \cup {"abort"}
<1>1. CASE s.state = "writable"
  <2>1. t = writable_stream_start_erroring(s)
    BY <1>1 DEF writable_stream_deal_with_rejection
  <2>2. QED
    BY <1>1, <2>1, StartErroringSafe
<1>2. CASE s.state # "writable"
  <2>1. t = writable_stream_finish_erroring(s)
    BY <1>2 DEF writable_stream_deal_with_rejection
  <2>2. QED
    BY <1>2, <2>1, FinishSafe
<1>3. QED
  BY <1>1, <1>2

----------------------------------------------------------------------------
(***************************************************************************)
(* The queue of the controller.                                            *)
(***************************************************************************)

\* The numbers that Lined speaks of.
LEMMA Counts ==
    ASSUME NEW s, s \in Shape
    PROVE  /\ s.writes \in Nat /\ Len(s.write_requests) \in Nat /\ Len(s.queue) \in Nat
           /\ s.in_flight_write_request \in Nat
           /\ InFlight(s) \in {0, 1} /\ (s.in_flight_write_request = 0 <=> InFlight(s) = 0)
           /\ Sentinel(s) \in {0, 1} /\ (s.close_request <=> Sentinel(s) = 1)
           /\ Over(s) = s.writes - Len(s.write_requests) - InFlight(s)
           /\ s.write_requests \in Seq(Nat) /\ s.queue \in Seq(Nat)
           /\ DOMAIN s.write_requests = 1 .. Len(s.write_requests)
           /\ DOMAIN s.queue = 1 .. Len(s.queue)
<1>1. /\ s.writes \in Nat /\ s.write_requests \in Seq(Nat) /\ s.queue \in Seq(Nat)
      /\ s.in_flight_write_request \in Nat
  BY DEF Shape
<1>2. QED
  BY <1>1 DEF InFlight, Sentinel, Over

\* process_close(): the sentinel is all that is left in the queue.
LEMMA ProcessCloseSafe ==
    ASSUME NEW s, Sound(s), s.state = "writable", s.started, s.in_flight_write_request = 0,
           s.queue # <<>>, Head(s.queue) = Close, NEW t, t = process_close(s)
    PROVE  Safe(t)
<1>0. /\ s.writes \in Nat /\ Len(s.write_requests) \in Nat /\ Len(s.queue) \in Nat
      /\ s.in_flight_write_request \in Nat /\ InFlight(s) = 0
      /\ Sentinel(s) \in {0, 1} /\ (s.close_request <=> Sentinel(s) = 1)
      /\ Over(s) = s.writes - Len(s.write_requests) /\ Over(s) >= 0
      /\ s.write_requests \in Seq(Nat) /\ s.queue \in Seq(Nat)
      /\ DOMAIN s.write_requests = 1 .. Len(s.write_requests)
      /\ DOMAIN s.queue = 1 .. Len(s.queue)
      /\ Len(s.queue) = Len(s.write_requests) + Sentinel(s)
      /\ \A i \in DOMAIN s.queue : i <= Len(s.queue) - Sentinel(s) => s.queue[i] = Over(s) + i
  <2>1. s \in Shape /\ Lined(s)
        /\ Len(s.queue) = Len(s.write_requests) + InFlight(s) + Sentinel(s)
    BY DEF Sound, Matched
  <2>2. /\ s.writes \in Nat /\ Len(s.write_requests) \in Nat /\ Len(s.queue) \in Nat
        /\ s.in_flight_write_request \in Nat /\ InFlight(s) = 0
        /\ Sentinel(s) \in {0, 1} /\ (s.close_request <=> Sentinel(s) = 1)
        /\ Over(s) = s.writes - Len(s.write_requests) - InFlight(s)
        /\ s.write_requests \in Seq(Nat) /\ s.queue \in Seq(Nat)
        /\ DOMAIN s.write_requests = 1 .. Len(s.write_requests)
        /\ DOMAIN s.queue = 1 .. Len(s.queue)
    BY <2>1, Counts
  <2>3. /\ Over(s) >= 0
        /\ \A i \in DOMAIN s.queue : i <= Len(s.queue) - Sentinel(s) => s.queue[i] = Over(s) + i
    BY <2>1 DEF Lined
  <2>4. /\ Over(s) = s.writes - Len(s.write_requests)
        /\ Len(s.queue) = Len(s.write_requests) + Sentinel(s)
    BY <2>1, <2>2
  <2>5. QED
    BY <2>2, <2>3, <2>4
<1>1. s \in Shape /\ Lined(s) /\ Promised(s)
      /\ Len(s.queue) = Len(s.write_requests) + InFlight(s) + Sentinel(s)
  BY DEF Sound, Matched
<1>2. ~s.in_flight_close_request
  BY <1>1 DEF Lined
<1>3. s.close_request /\ Len(s.queue) = 1 /\ Len(s.write_requests) = 0 /\ Over(s) = s.writes
  <2>1. Len(s.queue) >= 1 /\ s.queue[1] = 0 /\ 1 \in DOMAIN s.queue
    BY <1>0 DEF Close
  <2>2. ~(1 <= Len(s.queue) - Sentinel(s))
    <3>1. ASSUME 1 <= Len(s.queue) - Sentinel(s) PROVE s.queue[1] = Over(s) + 1
      BY <1>0, <2>1, <3>1
    <3>2. Over(s) + 1 # 0
      BY <1>0
    <3>3. QED
      BY <2>1, <3>1, <3>2
  <2>3. s.close_request
    BY <1>0, <2>1, <2>2
  <2>4. Len(s.queue) = 1
    BY <1>0, <2>1, <2>2, <2>3
  <2>5. QED
    BY <1>0, <2>3, <2>4, SMTT(30)
<1>4. Tail(s.queue) = <<>> /\ s.write_requests = <<>>
  <2>1. s.queue # <<>> /\ s.queue \in Seq(Nat) /\ s.write_requests \in Seq(Nat)
    BY <1>0
  <2>2. Tail(s.queue) \in Seq(Nat) /\ Len(Tail(s.queue)) = 0
    BY <1>3, <2>1, Shortened
  <2>3. QED
    BY <1>3, <2>1, <2>2, EmptySeq
<1> DEFINE m == [Verify(s, ~s.in_flight_close_request /\ s.close_request) EXCEPT
                    !.in_flight_close_request = TRUE, !.close_request = FALSE]
           v == [Verify(m, m.queue # <<>>) EXCEPT !.queue = Tail(@)]
<1>5. ~s.failed /\ s.algorithms /\ s.pending_abort_request = "none"
  BY <1>2 DEF Sound, Asserted
<1>6. t = CallScript(Verify(v, v.queue = <<>> /\ v.algorithms), "close")
  BY Zenon DEF process_close, dequeue_value, writable_stream_mark_close_request_in_flight
<1>7. Verify(s, ~s.in_flight_close_request /\ s.close_request) = s
  BY <1>1, <1>2, <1>3, <1>5, Verified
<1>8. /\ Same(m, s, {"in_flight_close_request", "close_request"})
      /\ m.in_flight_close_request /\ ~m.close_request
  <2>1. m = [s EXCEPT !.in_flight_close_request = TRUE, !.close_request = FALSE]
    BY <1>7
  <2> HIDE DEF m
  <2>2. m \in Shape /\ m.in_flight_close_request /\ ~m.close_request
    BY <1>1, <2>1 DEF Shape
  <2>3. QED
    BY <1>1, <2>1, <2>2, ZenonT(40) DEF Same, Shape, Fields
<1> HIDE DEF m
<1>9. m \in Shape /\ ~m.failed /\ m.queue = s.queue
  BY <1>5, <1>8 DEF Same, Fields
<1>10. Verify(m, m.queue # <<>>) = m
  BY <1>9, Verified
<1>11. Same(v, m, {"queue"}) /\ v.queue = <<>>
  <2>1. v = [m EXCEPT !.queue = <<>>] /\ <<>> \in Seq(Nat)
    BY <1>4, <1>9, <1>10, SMTT(30)
  <2> HIDE DEF v
  <2>2. QED
    BY <1>9, <2>1 DEF Same, Shape, Fields
<1> HIDE DEF v
<1>12. /\ Same(v, s, {"in_flight_close_request", "close_request", "queue"})
       /\ v.in_flight_close_request /\ ~v.close_request /\ v.queue = <<>>
  BY <1>8, <1>11 DEF Same, Fields
<1>13. v \in Shape /\ ~v.failed /\ v.algorithms /\ v.algorithms \in BOOLEAN
  BY <1>5, <1>12 DEF Same, Fields, Shape
<1>14. t = CallScript(v, "close")
  <2>1. Verify(v, v.queue = <<>> /\ v.algorithms) = v
    BY <1>12, <1>13, Verified
  <2>2. QED
    BY <1>6, <2>1
<1>15. CallsOf(s) = {} /\ s.sink = {} /\ SinkFrames(s) = {}
  BY <1>1, <1>2, SinkIdle DEF Sound, writable_stream_has_operation_marked_in_flight
<1>16. /\ CallsOf(v) = {} /\ v.sink = {} /\ SinkFrames(v) = {} /\ SizeFrames(v) = SizeFrames(s)
  BY <1>12, <1>15 DEF Same, Fields, CallsOf, SinkFrames, SizeFrames
<1>17. Bounded(v)
  BY <1>12, <1>16 DEF Same, Fields, Sound, Bounded
<1>18. /\ Same(t, v, {"stack"}) /\ CallsOf(t) = {"close"} /\ Bounded(t)
       /\ \A i, j \in SinkFrames(t) : i = j
  BY <1>13, <1>14, <1>16, <1>17, SinkCalled DEF SinkCallback
<1>19. /\ Same(t, s, {"in_flight_close_request", "close_request", "queue", "stack"})
       /\ t.in_flight_close_request /\ ~t.close_request /\ t.queue = <<>> /\ t.sink = {}
  BY <1>12, <1>16, <1>18 DEF Same, Fields
<1>20. OneAtATime(t)
  BY <1>18, <1>19 DEF Same, Fields, OneAtATime
<1>21. Asserted(t)
  BY <1>19 DEF Same, Fields, Sound, Asserted
<1>22. Told(t) /\ ErrorTold(t) /\ Parked(t)
  BY <1>3, <1>19
     DEF Same, Fields, Sound, Told, ErrorTold, Parked, writable_stream_close_queued_or_in_flight
<1>23. Matched(t)
  <2>1. t \in Shape /\ t.write_requests = <<>> /\ t.in_flight_write_request = 0
        /\ t.writes = s.writes /\ t.promises = s.promises /\ t.state = "writable"
    BY <1>4, <1>19 DEF Same, Fields
  <2>2. /\ Len(t.queue) = 0 /\ Len(t.write_requests) = 0 /\ InFlight(t) = 0 /\ Sentinel(t) = 0
        /\ Over(t) = s.writes /\ s.writes \in Nat
        /\ DOMAIN t.queue = {} /\ DOMAIN t.write_requests = {}
    BY <1>1, <1>19, <2>1, Counts
  <2>3. Lined(t)
    BY <1>19, <2>1, <2>2 DEF Lined
  <2>4. Promised(t)
    BY <1>1, <1>3, <2>1, <2>2 DEF Promised
  <2>5. QED
    BY <2>1, <2>2, <2>3, <2>4 DEF Matched
<1>24. QED
  BY <1>18, <1>19, <1>20, <1>21, <1>22, <1>23 DEF Safe, Sound, Same

\* process_write(): the first chunk of the queue is that of the first request.
LEMMA ProcessWriteSafe ==
    ASSUME NEW s, Sound(s), s.state = "writable", s.started, s.in_flight_write_request = 0,
           s.queue # <<>>, Head(s.queue) # Close, NEW t, t = process_write(s)
    PROVE  Safe(t)
<1>0. /\ s.writes \in Nat /\ Len(s.write_requests) \in Nat /\ Len(s.queue) \in Nat
      /\ s.in_flight_write_request \in Nat /\ InFlight(s) = 0
      /\ Sentinel(s) \in {0, 1} /\ (s.close_request <=> Sentinel(s) = 1)
      /\ Over(s) = s.writes - Len(s.write_requests) /\ Over(s) >= 0
      /\ s.write_requests \in Seq(Nat) /\ s.queue \in Seq(Nat)
      /\ DOMAIN s.write_requests = 1 .. Len(s.write_requests)
      /\ DOMAIN s.queue = 1 .. Len(s.queue)
      /\ Len(s.queue) = Len(s.write_requests) + Sentinel(s)
      /\ \A i \in DOMAIN s.queue : i <= Len(s.queue) - Sentinel(s) => s.queue[i] = Over(s) + i
  <2>1. s \in Shape /\ Lined(s)
        /\ Len(s.queue) = Len(s.write_requests) + InFlight(s) + Sentinel(s)
    BY DEF Sound, Matched
  <2>2. /\ s.writes \in Nat /\ Len(s.write_requests) \in Nat /\ Len(s.queue) \in Nat
        /\ s.in_flight_write_request \in Nat /\ InFlight(s) = 0
        /\ Sentinel(s) \in {0, 1} /\ (s.close_request <=> Sentinel(s) = 1)
        /\ Over(s) = s.writes - Len(s.write_requests) - InFlight(s)
        /\ s.write_requests \in Seq(Nat) /\ s.queue \in Seq(Nat)
        /\ DOMAIN s.write_requests = 1 .. Len(s.write_requests)
        /\ DOMAIN s.queue = 1 .. Len(s.queue)
    BY <2>1, Counts
  <2>3. /\ Over(s) >= 0
        /\ \A i \in DOMAIN s.queue : i <= Len(s.queue) - Sentinel(s) => s.queue[i] = Over(s) + i
    BY <2>1 DEF Lined
  <2>4. /\ Over(s) = s.writes - Len(s.write_requests)
        /\ Len(s.queue) = Len(s.write_requests) + Sentinel(s)
    BY <2>1, <2>2
  <2>5. QED
    BY <2>2, <2>3, <2>4
<1>1. s \in Shape /\ Lined(s) /\ Promised(s)
      /\ Len(s.queue) = Len(s.write_requests) + InFlight(s) + Sentinel(s)
  BY DEF Sound, Matched
<1>2. ~s.in_flight_close_request
  BY <1>1 DEF Lined
<1>3. s.write_requests # <<>>
  <2>1. Len(s.queue) >= 1 /\ s.queue[1] # Close
    BY <1>1, Counts
  <2>2. ASSUME s.write_requests = <<>> PROVE FALSE
    <3>1. Len(s.write_requests) = 0
      BY <2>2
    <3>2. s.close_request /\ Len(s.queue) = 1
      BY <1>0, <2>1, <3>1
    <3>3. QED
      BY <1>1, <2>1, <3>2 DEF Lined
  <2>3. QED
    BY <2>2
<1>4. /\ Head(s.write_requests) = s.writes - Len(s.write_requests) + 1
      /\ Len(s.write_requests) >= 1 /\ Len(s.write_requests) <= s.writes
      /\ Tail(s.write_requests) \in Seq(Nat)
      /\ Len(Tail(s.write_requests)) = Len(s.write_requests) - 1
      /\ DOMAIN Tail(s.write_requests) = 1 .. Len(s.write_requests) - 1
      /\ \A i \in DOMAIN Tail(s.write_requests) :
            Tail(s.write_requests)[i] = s.writes - (Len(s.write_requests) - 1) + i
  <2>1. s.write_requests \in Seq(Nat) /\ s.writes \in Nat /\ Len(s.write_requests) \in Nat
        /\ DOMAIN s.write_requests = 1 .. Len(s.write_requests)
    BY <1>0
  <2>2. Len(s.write_requests) <= s.writes
    BY <1>0
  <2>3. /\ Len(s.write_requests) >= 1 /\ Tail(s.write_requests) \in Seq(Nat)
        /\ Len(Tail(s.write_requests)) = Len(s.write_requests) - 1
        /\ DOMAIN Tail(s.write_requests) = 1 .. Len(s.write_requests) - 1
        /\ \A i \in 1 .. Len(s.write_requests) - 1 :
              Tail(s.write_requests)[i] = s.write_requests[i + 1]
        /\ Head(s.write_requests) = s.write_requests[1]
    BY <1>3, <2>1, Shortened
  <2>4. Head(s.write_requests) = s.writes - Len(s.write_requests) + 1
    BY <1>1, <2>1, <2>3 DEF Lined
  <2>5. ASSUME NEW i \in 1 .. Len(s.write_requests) - 1
        PROVE  Tail(s.write_requests)[i] = s.writes - (Len(s.write_requests) - 1) + i
    <3>1. i + 1 \in DOMAIN s.write_requests /\ i \in Nat
      BY <2>1, <2>5
    <3>2. s.write_requests[i + 1] = s.writes - Len(s.write_requests) + (i + 1)
      BY <1>1, <3>1 DEF Lined
    <3>3. Tail(s.write_requests)[i] = s.writes - Len(s.write_requests) + (i + 1)
      BY <2>3, <2>5, <3>2
    <3>4. QED
      BY <2>1, <3>1, <3>3, SMTT(30)
  <2>6. QED
    BY <2>2, <2>3, <2>4, <2>5
<1> DEFINE h == Head(s.write_requests)
           m == [Verify(s, s.in_flight_write_request = 0 /\ s.write_requests # <<>>) EXCEPT
                    !.in_flight_write_request = h, !.write_requests = Tail(@)]
<1>5. ~s.failed /\ s.algorithms /\ s.pending_abort_request = "none"
  BY <1>2 DEF Sound, Asserted
<1>6. t = CallScript(Verify(m, m.algorithms), "write")
  BY Zenon DEF process_write, writable_stream_mark_first_write_request_in_flight
<1>7. Verify(s, s.in_flight_write_request = 0 /\ s.write_requests # <<>>) = s
  BY <1>1, <1>3, <1>5, Verified
<1>8. /\ Same(m, s, {"in_flight_write_request", "write_requests"})
      /\ m.in_flight_write_request = h /\ m.write_requests = Tail(s.write_requests)
  <2>1. m = [s EXCEPT !.in_flight_write_request = h, !.write_requests = Tail(s.write_requests)]
    BY <1>7
  <2>2. h \in Nat
    BY <1>1, <1>4, Counts, SMTT(30)
  <2> HIDE DEF m, h
  <2>3. /\ m \in Shape /\ m.in_flight_write_request = h
        /\ m.write_requests = Tail(s.write_requests)
    BY <1>1, <1>4, <2>1, <2>2 DEF Shape
  <2>4. QED
    BY <1>1, <2>1, <2>3, ZenonT(40) DEF Same, Shape, Fields
<1> HIDE DEF m
<1>9. m \in Shape /\ ~m.failed /\ m.algorithms /\ m.algorithms \in BOOLEAN
  BY <1>5, <1>8 DEF Same, Fields, Shape
<1>10. t = CallScript(m, "write")
  <2>1. Verify(m, m.algorithms) = m
    BY <1>9, Verified
  <2>2. QED
    BY <1>6, <2>1
<1>11. CallsOf(s) = {} /\ s.sink = {} /\ SinkFrames(s) = {}
  BY <1>1, <1>2, SinkIdle DEF Sound, writable_stream_has_operation_marked_in_flight
<1>12. /\ CallsOf(m) = {} /\ m.sink = {} /\ SinkFrames(m) = {} /\ SizeFrames(m) = SizeFrames(s)
  BY <1>8, <1>11 DEF Same, Fields, CallsOf, SinkFrames, SizeFrames
<1>13. Bounded(m)
  BY <1>8, <1>12 DEF Same, Fields, Sound, Bounded
<1>14. /\ Same(t, m, {"stack"}) /\ CallsOf(t) = {"write"} /\ Bounded(t)
       /\ \A i, j \in SinkFrames(t) : i = j
  BY <1>9, <1>10, <1>12, <1>13, SinkCalled DEF SinkCallback
<1>15. /\ Same(t, s, {"in_flight_write_request", "write_requests", "stack"}) /\ t.sink = {}
       /\ t.in_flight_write_request = h /\ t.write_requests = Tail(s.write_requests)
  BY <1>8, <1>12, <1>14 DEF Same, Fields
<1>16. h \in Nat /\ h # 0
  BY <1>1, <1>4, Counts, SMTT(30)
<1> HIDE DEF h
<1>17. OneAtATime(t)
  BY <1>2, <1>14, <1>15, <1>16 DEF Same, Fields, OneAtATime
<1>18. Asserted(t)
  BY <1>15 DEF Same, Fields, Sound, Asserted
<1>19. Told(t) /\ ErrorTold(t) /\ Parked(t)
  BY <1>15
     DEF Same, Fields, Sound, Told, ErrorTold, Parked, writable_stream_close_queued_or_in_flight
<1>20. Matched(t)
  <2>1. /\ t \in Shape /\ t.writes = s.writes /\ t.promises = s.promises
        /\ t.state = "writable" /\ t.queue = s.queue /\ t.close_request = s.close_request
        /\ ~t.in_flight_close_request
    BY <1>2, <1>15 DEF Same, Fields
  <2>2. /\ Len(t.write_requests) = Len(s.write_requests) - 1
        /\ InFlight(t) = 1 /\ Sentinel(t) = Sentinel(s) /\ Sentinel(t) \in {0, 1}
        /\ Over(t) = Over(s) /\ Len(t.queue) = Len(t.write_requests) + 1 + Sentinel(t)
        /\ Len(t.write_requests) \in Nat
    <3>1. Len(t.write_requests) = Len(s.write_requests) - 1
      BY <1>4, <1>15
    <3>2. InFlight(t) = 1 /\ Sentinel(t) = Sentinel(s) /\ Sentinel(t) \in {0, 1}
      BY <1>15, <1>16, <2>1 DEF InFlight, Sentinel
    <3>3. Over(t) = s.writes - (Len(s.write_requests) - 1) - 1
      BY <2>1, <3>1, <3>2 DEF Over
    <3>4. QED
      BY <1>0, <1>4, <2>1, <3>1, <3>2, <3>3
  <2>3. /\ \A i \in DOMAIN t.write_requests :
              t.write_requests[i] = t.writes - Len(t.write_requests) + i
        /\ t.in_flight_write_request = t.writes - Len(t.write_requests)
    <3>1. /\ DOMAIN t.write_requests = DOMAIN Tail(s.write_requests)
          /\ Len(t.write_requests) = Len(s.write_requests) - 1
          /\ t.in_flight_write_request = s.writes - Len(s.write_requests) + 1
      BY <1>4, <1>15, <2>2 DEF h
    <3>2. \A i \in DOMAIN t.write_requests :
              t.write_requests[i] = s.writes - (Len(s.write_requests) - 1) + i
      BY <1>4, <1>15, <3>1
    <3>3. t.in_flight_write_request = t.writes - Len(t.write_requests)
      BY <1>0, <2>1, <3>1
    <3>4. QED
      BY <2>1, <3>1, <3>2, <3>3
  <2>4. /\ \A i \in DOMAIN t.queue : i <= Len(t.queue) - Sentinel(t) => t.queue[i] = Over(t) + i
        /\ t.close_request => t.queue[Len(t.queue)] = Close
        /\ Over(t) >= 0
    BY <1>1, <2>1, <2>2 DEF Lined
  <2>5. Lined(t)
    BY <2>1, <2>2, <2>3, <2>4 DEF Lined
  <2>6. Promised(t)
    BY <1>1, <2>1, <2>2 DEF Promised
  <2>7. QED
    BY <2>1, <2>2, <2>5, <2>6 DEF Matched
<1>21. QED
  BY <1>14, <1>15, <1>17, <1>18, <1>19, <1>20 DEF Safe, Sound, Same

\* advance_queue_if_needed(): a stream in error gets no further than its end.
LEMMA AdvanceSafe ==
    ASSUME NEW s, Sound(s), s.state \in {"writable", "erroring"}, ~s.in_flight_close_request,
           NEW t, t = advance_queue_if_needed(s)
    PROVE  /\ Safe(t)
           /\ s.state # "writable" => CallsOf(t) \subseteq CallsOf(s) \cup {"abort"}
<1> DEFINE s1 == Verify(s, s.state \notin {"closed", "errored"})
<1>1. s \in Shape /\ ~s.failed
  BY DEF Sound, Asserted
<1>2. s1 = s
  BY <1>1, Verified
<1>3. t = IF ~s.started \/ s.in_flight_write_request # 0 THEN s
          ELSE IF s1.state = "erroring" THEN writable_stream_finish_erroring(s1)
          ELSE IF s1.queue = <<>> THEN s1
          ELSE IF Head(s1.queue) = Close THEN process_close(s1) ELSE process_write(s1)
  BY Zenon DEF advance_queue_if_needed
<1> HIDE DEF s1
<1>4. CASE ~s.started \/ s.in_flight_write_request # 0
  <2>1. t = s
    BY <1>3, <1>4
  <2>2. Parked(s)
    BY <1>4 DEF Parked, writable_stream_has_operation_marked_in_flight
  <2>3. QED
    BY <2>1, <2>2 DEF Safe
<1>5. CASE s.started /\ s.in_flight_write_request = 0
  <2>1. CASE s.state = "erroring"
    <3>1. t = writable_stream_finish_erroring(s)
      BY <1>2, <1>3, <1>5, <2>1
    <3>2. Ordered(s)
      BY <1>1, <2>1, PromisedOrdered DEF Sound, Matched
    <3>3. ~writable_stream_has_operation_marked_in_flight(s)
      BY <1>5 DEF writable_stream_has_operation_marked_in_flight
    <3>4. /\ s.stored_error /\ s.pending_abort_request = "abort" => s.algorithms
          /\ s.writer # 0 => s.ready = "rejected" /\ s.closed = "pending"
      BY <2>1 DEF Sound, Asserted, Told
    <3>5. s.stored_error
      BY <2>1 DEF Sound, Asserted
    <3>6. Erring(s)
      BY <1>1, <1>5, <2>1, <3>2, <3>3, <3>4, <3>5 DEF Erring, Sound
    <3>7. QED
      BY <3>1, <3>6, FinishSafe
  <2>2. CASE s.state = "writable" /\ s.queue = <<>>
    <3>1. t = s
      BY <1>2, <1>3, <1>5, <2>2
    <3>2. Parked(s)
      BY <2>2 DEF Parked
    <3>3. QED
      BY <3>1, <3>2 DEF Safe
  <2>3. CASE s.state = "writable" /\ s.queue # <<>> /\ Head(s.queue) = Close
    <3>1. t = process_close(s)
      BY <1>2, <1>3, <1>5, <2>3
    <3>2. QED
      BY <1>5, <2>3, <3>1, ProcessCloseSafe
  <2>4. CASE s.state = "writable" /\ s.queue # <<>> /\ Head(s.queue) # Close
    <3>1. t = process_write(s)
      BY <1>2, <1>3, <1>5, <2>4
    <3>2. QED
      BY <1>5, <2>4, <3>1, ProcessWriteSafe
  <2>5. QED
    BY <2>1, <2>2, <2>3, <2>4
<1>6. QED
  BY <1>4, <1>5

\* writable_stream_update_backpressure() tells the writer if it changes.
LEMMA BackpressureSafe ==
    ASSUME NEW s, Sound(s), NEW t, t = UpdateBackpressureIfOpen(s)
    PROVE  Sound(t) /\ Same(t, s, {"backpressure", "ready"}) /\ CallsOf(t) = CallsOf(s)
<1>1. s \in Shape /\ ~s.failed
  BY DEF Sound, Asserted
<1>2. CASE ~(~writable_stream_close_queued_or_in_flight(s) /\ s.state = "writable")
  BY <1>1, <1>2 DEF UpdateBackpressureIfOpen, Same
<1>3. CASE ~writable_stream_close_queued_or_in_flight(s) /\ s.state = "writable"
  <2> DEFINE b == get_backpressure(s)
             s1 == Verify(s, s.state = "writable"
                             /\ ~writable_stream_close_queued_or_in_flight(s))
             ready == IF s1.writer # 0 /\ b # s1.backpressure
                      THEN IF b THEN "pending"
                           ELSE IF s1.ready = "pending" THEN "fulfilled" ELSE s1.ready
                      ELSE s1.ready
  <2>1. b \in BOOLEAN
    BY DEF get_backpressure
  <2>2. t = [s1 EXCEPT !.backpressure = b, !.ready = ready]
    BY <1>3 DEF UpdateBackpressureIfOpen, writable_stream_update_backpressure
  <2>3. s1 = s
    BY <1>1, <1>3, Verified
  <2> HIDE DEF b, s1
  <2>4. /\ ready \in PromiseState
        /\ ready = IF s.writer # 0 /\ b # s.backpressure
                   THEN IF b THEN "pending"
                        ELSE IF s.ready = "pending" THEN "fulfilled" ELSE s.ready
                   ELSE s.ready
    BY <1>1, <2>3 DEF Shape, PromiseState
  <2> HIDE DEF ready
  <2>5. t \in Shape /\ t.backpressure = b /\ t.ready = ready
        /\ Same(t, s, {"backpressure", "ready"})
    <3>1. t = [s EXCEPT !.backpressure = b, !.ready = ready]
      BY <2>2, <2>3
    <3>2. t \in Shape /\ t.backpressure = b /\ t.ready = ready
      BY <1>1, <2>1, <2>4, <3>1, ZenonT(40) DEF Shape
    <3>3. QED
      BY <1>1, <3>1, <3>2 DEF Same, Shape, Fields
  <2>6. Same(t, s, {"backpressure", "ready"})
    BY <2>5
  <2>7. SizeFrames(t) = SizeFrames(s) /\ SinkFrames(t) = SinkFrames(s) /\ CallsOf(t) = CallsOf(s)
    BY <2>6 DEF Same, Fields, SizeFrames, SinkFrames, CallsOf
  <2>8. Bounded(t) /\ OneAtATime(t)
    BY <2>6, <2>7 DEF Same, Fields, Sound, Bounded, OneAtATime
  <2>9. Asserted(t)
    BY <2>6 DEF Same, Fields, Sound, Asserted
  <2>10. Over(t) = Over(s) /\ InFlight(t) = InFlight(s) /\ Sentinel(t) = Sentinel(s)
    BY <2>6 DEF Same, Fields, Over, InFlight, Sentinel
  <2>11. Matched(t)
    <3>1. Lined(s) /\ Promised(s)
          /\ Len(s.queue) = Len(s.write_requests) + InFlight(s) + Sentinel(s)
      BY <1>3 DEF Sound, Matched
    <3>2. Lined(t)
      BY <2>6, <2>10, <3>1 DEF Same, Fields, Lined
    <3>3. Promised(t)
      BY <2>6, <2>10, <3>1 DEF Same, Fields, Promised
    <3>4. t.state = "writable" /\ Len(t.queue) = Len(t.write_requests) + InFlight(t) + Sentinel(t)
      BY <1>3, <2>6, <2>10, <3>1 DEF Same, Fields
    <3>5. QED
      BY <3>2, <3>3, <3>4 DEF Matched
  <2>12. Told(t) /\ ErrorTold(t)
    <3>1. s.writer # 0 => s.ready = IF s.backpressure THEN "pending" ELSE "fulfilled"
      BY <1>3 DEF Sound, Told
    <3>2. s.writer # 0 => ready = IF b THEN "pending" ELSE "fulfilled"
      <4>1. s.backpressure \in BOOLEAN
        BY <1>1 DEF Shape
      <4>2. QED
        BY <2>1, <2>4, <3>1, <4>1
    <3>3. /\ t.state = "writable" /\ t.writer = s.writer /\ t.closed = s.closed
          /\ ~writable_stream_close_queued_or_in_flight(t)
      BY <1>3, <2>6 DEF Same, Fields, writable_stream_close_queued_or_in_flight
    <3>4. s.writer # 0 => s.closed = "pending"
      BY <1>3 DEF Sound, Told
    <3>5. QED
      BY <2>5, <3>2, <3>3, <3>4 DEF Told, ErrorTold
  <2>13. QED
    BY <2>5, <2>6, <2>7, <2>8, <2>9, <2>11, <2>12 DEF Sound
<1>4. QED
  BY <1>2, <1>3

\* writable_stream_add_write_request() in an open stream: a request more, whose
\* chunk is not yet in the queue.
LEMMA RequestAdded ==
    ASSUME NEW s, Sound(s), s.state = "writable", s.writer # 0, s.writes < MaxWrites,
           ~writable_stream_close_queued_or_in_flight(s),
           NEW u, u = writable_stream_add_write_request(s)
    PROVE  /\ Same(u, s, {"writes", "promises", "write_requests"})
           /\ u.writes = s.writes + 1 /\ Lined(u) /\ Promised(u)
           /\ Over(u) = Over(s) /\ Len(u.write_requests) = Len(s.write_requests) + 1
<1> DEFINE n == s.writes + 1
           p == [s.promises EXCEPT ![n] = "pending"]
           q == Append(s.write_requests, n)
<1>1. s \in Shape /\ ~s.failed
  BY DEF Sound, Asserted
<1>2. /\ s.writes \in Nat /\ n \in Nat /\ n \in Requests /\ "pending" \in PromiseState
      /\ s.write_requests \in Seq(Nat) /\ s.promises \in [Requests -> PromiseState]
  BY <1>1, StreamBounds DEF Shape, Requests, Abort, PromiseState
<1>3. Verify(s, s.writer # 0 /\ s.state = "writable") = s
  BY <1>1, Verified
<1>4. u = [s EXCEPT !.writes = n, !.promises = p, !.write_requests = q]
  <2>1. u = [Verify(s, s.writer # 0 /\ s.state = "writable") EXCEPT
                !.writes = n, !.promises[n] = "pending", !.write_requests = Append(@, n)]
    BY DEF writable_stream_add_write_request
  <2>2. u = [s EXCEPT !.writes = n, !.promises[n] = "pending", !.write_requests = Append(@, n)]
    BY <1>3, <2>1
  <2>3. QED
    BY <2>2
<1>5. p \in [Requests -> PromiseState] /\ p[n] = "pending"
      /\ \A i \in Requests : i # n => p[i] = s.promises[i]
  BY <1>2
<1>6. /\ q \in Seq(Nat) /\ Len(s.write_requests) \in Nat /\ Len(q) = Len(s.write_requests) + 1
      /\ DOMAIN s.write_requests = 1 .. Len(s.write_requests)
      /\ DOMAIN q = 1 .. Len(s.write_requests) + 1
      /\ \A i \in 1 .. Len(s.write_requests) : q[i] = s.write_requests[i]
      /\ q[Len(s.write_requests) + 1] = n
  BY <1>2, Appended
<1> HIDE DEF p, q
<1>7. u \in Shape /\ u.writes = n /\ u.promises = p /\ u.write_requests = q
  <2> HIDE DEF n
  <2>1. QED
    BY <1>1, <1>2, <1>4, <1>5, <1>6, ZenonT(40) DEF Shape
<1>8. Same(u, s, {"writes", "promises", "write_requests"})
  <2> HIDE DEF n
  <2>1. QED
    BY <1>1, <1>4, <1>7 DEF Same, Shape, Fields
<1>9. /\ InFlight(u) = InFlight(s) /\ Sentinel(u) = Sentinel(s)
      /\ InFlight(s) \in {0, 1} /\ Sentinel(s) = 0 /\ Len(s.queue) \in Nat
      /\ Over(s) = s.writes - Len(s.write_requests) - InFlight(s)
      /\ Over(u) = u.writes - Len(u.write_requests) - InFlight(u)
  <2>1. InFlight(u) = InFlight(s) /\ Sentinel(u) = Sentinel(s) /\ Sentinel(s) = 0
    BY <1>8 DEF Same, Fields, InFlight, Sentinel, writable_stream_close_queued_or_in_flight
  <2>2. QED
    BY <1>1, <2>1, Counts DEF Over
<1>10. /\ Over(u) = Over(s) /\ Len(u.write_requests) = Len(s.write_requests) + 1
       /\ u.writes - Len(u.write_requests) = s.writes - Len(s.write_requests)
  <2>1. Len(u.write_requests) = Len(s.write_requests) + 1 /\ u.writes = s.writes + 1
    BY <1>6, <1>7
  <2>2. u.writes - Len(u.write_requests) = s.writes - Len(s.write_requests)
    BY <1>2, <1>6, <2>1
  <2>3. QED
    BY <1>9, <2>1, <2>2
<1>11. /\ Lined(s) /\ Promised(s)
       /\ Len(s.queue) = Len(s.write_requests) + InFlight(s) + Sentinel(s)
  BY DEF Sound, Matched
<1>12. Lined(u)
  <2>1. /\ u.queue = s.queue /\ u.in_flight_write_request = s.in_flight_write_request
        /\ ~u.close_request /\ ~u.in_flight_close_request /\ u.state = "writable"
    BY <1>8 DEF Same, Fields, writable_stream_close_queued_or_in_flight
  <2>2. \A i \in DOMAIN u.write_requests : u.write_requests[i] = u.writes - Len(u.write_requests) + i
    <3> TAKE i \in DOMAIN u.write_requests
    <3>1. i \in 1 .. Len(s.write_requests) + 1
      BY <1>6, <1>7
    <3>2. CASE i \in 1 .. Len(s.write_requests)
      <4>1. s.write_requests[i] = s.writes - Len(s.write_requests) + i
        BY <1>6, <1>11, <3>2 DEF Lined
      <4>2. u.write_requests[i] = s.write_requests[i]
        BY <1>6, <1>7, <3>2
      <4>3. QED
        BY <1>10, <4>1, <4>2
    <3>3. CASE i = Len(s.write_requests) + 1
      <4>1. u.write_requests[i] = n
        BY <1>6, <1>7, <3>3
      <4>2. QED
        BY <1>2, <1>6, <1>7, <1>10, <3>3, <4>1, SMTT(30)
    <3>4. QED
      BY <1>6, <3>1, <3>2, <3>3
  <2>3. s.in_flight_write_request # 0 => u.in_flight_write_request = u.writes - Len(u.write_requests)
    BY <1>2, <1>6, <1>7, <1>10, <1>11, <2>1 DEF Lined
  <2>4. Len(u.queue) >= InFlight(u) + Sentinel(u)
        /\ Len(u.queue) <= Len(u.write_requests) + InFlight(u) + Sentinel(u)
    BY <1>6, <1>9, <1>10, <1>11, <2>1
  <2>5. \A i \in DOMAIN u.queue : i <= Len(u.queue) - Sentinel(u) => u.queue[i] = Over(u) + i
    BY <1>9, <1>10, <1>11, <2>1 DEF Lined
  <2>6. Over(u) >= 0
    BY <1>10, <1>11 DEF Lined
  <2>7. QED
    BY <2>1, <2>2, <2>3, <2>4, <2>5, <2>6 DEF Lined
<1>13. Promised(u)
  <2>1. SUFFICES ASSUME NEW i \in 1 .. n
                 PROVE  p[i] = IF i <= Over(s) THEN "fulfilled" ELSE "pending"
    BY <1>7, <1>10 DEF Promised
  <2>2. CASE i = n
    <3>1. ~(i <= Over(s))
      BY <1>2, <1>6, <1>9, <2>2
    <3>2. QED
      BY <1>5, <2>2, <3>1
  <2>3. CASE i # n
    <3>1. i \in 1 .. s.writes
      BY <1>2, <2>1, <2>3
    <3>2. i \in Requests
      BY <1>1, <3>1, WritesBounded DEF Sound
    <3>3. QED
      BY <1>5, <1>11, <2>3, <3>1, <3>2 DEF Promised
  <2>4. QED
    BY <2>2, <2>3
<1>14. QED
  BY <1>7, <1>8, <1>10, <1>12, <1>13

\* writable_stream_default_writer_write() after size(): a chunk with a size is
\* queued with its request, one without puts the stream in error.
LEMMA WriteSafe ==
    ASSUME NEW s, Safe(s), s.writer # 0, s.writes + Cardinality(SizeFrames(s)) < s.calls,
           NEW valid \in BOOLEAN, NEW t, t = WriteAfterSize(s, valid)
    PROVE  Safe(t) /\ (s.state # "writable" => t = s)
<1>1. s \in Shape /\ Sound(s) /\ ~s.failed
  BY DEF Safe, Sound, Asserted
<1>2. CASE s.state # "writable" \/ writable_stream_close_queued_or_in_flight(s)
  BY <1>2 DEF WriteAfterSize
<1>3. CASE s.state = "writable" /\ ~writable_stream_close_queued_or_in_flight(s)
  <2> DEFINE u == writable_stream_add_write_request(s)
  <2>1. t = controller_write(u, valid)
    BY <1>3 DEF WriteAfterSize
  <2>2. /\ s.writes \in Nat /\ s.calls \in Nat /\ Cardinality(SizeFrames(s)) \in Nat
        /\ s.calls <= MaxWrites
    <3>1. s.stack \in Seq(Frames) /\ s.writes \in Nat /\ s.calls \in Nat
      BY <1>1 DEF Shape
    <3>2. QED
      BY <1>1, <3>1, FramesFinite DEF Sound, Bounded
  <2>3. s.writes < MaxWrites
    BY <2>2, StreamBounds
  <2>4. /\ Same(u, s, {"writes", "promises", "write_requests"})
        /\ u.writes = s.writes + 1 /\ Lined(u) /\ Promised(u)
        /\ Over(u) = Over(s) /\ Len(u.write_requests) = Len(s.write_requests) + 1
    BY <1>1, <1>3, <2>3, RequestAdded
  <2> HIDE DEF u
  <2>5. SizeFrames(u) = SizeFrames(s) /\ SinkFrames(u) = SinkFrames(s) /\ CallsOf(u) = CallsOf(s)
    BY <2>4 DEF Same, Fields, SizeFrames, SinkFrames, CallsOf
  <2>6. Bounded(u)
    <3>1. u.writes + Cardinality(SizeFrames(u)) <= u.calls
      BY <2>2, <2>4, <2>5 DEF Same, Fields
    <3>2. QED
      BY <1>1, <2>4, <2>5, <3>1 DEF Same, Fields, Sound, Bounded
  <2>7. OneAtATime(u)
    BY <1>1, <2>4, <2>5 DEF Same, Fields, Sound, OneAtATime
  <2>8. /\ u \in Shape /\ ~u.failed /\ ~u.stored_error /\ u.state = "writable"
        /\ ~u.close_request /\ ~u.in_flight_close_request /\ u.pending_abort_request = "none"
        /\ u.algorithms
        /\ u.writer # 0 => u.closed = "pending"
    BY <1>1, <1>3, <2>4
       DEF Same, Fields, Sound, Asserted, Told, writable_stream_close_queued_or_in_flight
  <2>9. CASE valid
    <3> DEFINE v == [u EXCEPT !.queue = Append(@, u.writes)]
               x == UpdateBackpressureIfOpen(v)
    <3>1. t = advance_queue_if_needed(x)
      BY <2>1, <2>9 DEF controller_write
    <3>2. /\ u.queue \in Seq(Nat) /\ u.writes \in Nat /\ Len(u.queue) \in Nat
          /\ DOMAIN u.queue = 1 .. Len(u.queue) /\ Len(u.write_requests) \in Nat
          /\ InFlight(u) \in {0, 1} /\ Sentinel(u) = 0
          /\ Over(u) = u.writes - Len(u.write_requests) - InFlight(u)
      BY <2>8, Counts DEF Sentinel
    <3>3. /\ Append(u.queue, u.writes) \in Seq(Nat)
          /\ Len(Append(u.queue, u.writes)) = Len(u.queue) + 1
          /\ DOMAIN Append(u.queue, u.writes) = 1 .. Len(u.queue) + 1
          /\ \A i \in 1 .. Len(u.queue) : Append(u.queue, u.writes)[i] = u.queue[i]
          /\ Append(u.queue, u.writes)[Len(u.queue) + 1] = u.writes
      BY <3>2, Appended
    <3>4. Same(v, u, {"queue"}) /\ v.queue = Append(u.queue, u.writes)
      BY <2>8, <3>3 DEF Same, Shape, Fields
    <3> HIDE DEF v
    <3>5. SizeFrames(v) = SizeFrames(u) /\ SinkFrames(v) = SinkFrames(u) /\ CallsOf(v) = CallsOf(u)
      BY <3>4 DEF Same, Fields, SizeFrames, SinkFrames, CallsOf
    <3>6. Bounded(v) /\ OneAtATime(v)
      BY <2>6, <2>7, <3>4, <3>5 DEF Same, Fields, Bounded, OneAtATime
    <3>7. Asserted(v) /\ v \in Shape /\ v.state = "writable" /\ ~v.in_flight_close_request
      BY <2>8, <3>4 DEF Same, Fields, Asserted
    <3>8. Told(v) /\ ErrorTold(v)
      BY <1>1, <1>3, <2>4, <3>4
         DEF Same, Fields, Sound, Told, ErrorTold, writable_stream_close_queued_or_in_flight
    <3>9. Matched(v)
      <4>1. /\ v.writes = u.writes /\ v.promises = u.promises /\ v.write_requests = u.write_requests
            /\ v.in_flight_write_request = u.in_flight_write_request
            /\ ~v.close_request /\ ~v.in_flight_close_request
            /\ InFlight(v) = InFlight(u) /\ Sentinel(v) = 0 /\ Over(v) = Over(u)
        BY <2>8, <3>2, <3>4 DEF Same, Fields, InFlight, Sentinel, Over
      <4>2. Len(s.queue) = Len(s.write_requests) + InFlight(s) + Sentinel(s)
        BY <1>1, <1>3 DEF Sound, Matched
      <4>3. s.queue = u.queue /\ InFlight(s) = InFlight(u) /\ Sentinel(s) = 0
            /\ Len(s.write_requests) \in Nat
        BY <1>1, <1>3, <2>4, Counts
           DEF Same, Fields, InFlight, Sentinel, writable_stream_close_queued_or_in_flight
      <4>4. Len(u.queue) + 1 = Len(u.write_requests) + InFlight(u)
        BY <2>4, <3>2, <4>2, <4>3
      <4>5. u.writes = Over(u) + (Len(u.queue) + 1)
        BY <3>2, <4>4
      <4>6. ASSUME NEW i \in DOMAIN v.queue PROVE v.queue[i] = Over(v) + i
        <5>1. i \in 1 .. Len(u.queue) + 1
          BY <3>3, <3>4, <4>6
        <5>2. CASE i \in 1 .. Len(u.queue)
          <6>1. i <= Len(u.queue) - Sentinel(u) /\ i \in DOMAIN u.queue
            BY <3>2, <5>2
          <6>2. u.queue[i] = Over(u) + i
            BY <2>4, <6>1 DEF Lined
          <6>3. QED
            BY <3>3, <3>4, <4>1, <5>2, <6>2
        <5>3. CASE i = Len(u.queue) + 1
          BY <3>3, <3>4, <4>1, <4>5, <5>3
        <5>4. QED
          BY <3>2, <5>1, <5>2, <5>3, SMTT(30)
      <4>7. /\ Len(v.queue) >= InFlight(v) + Sentinel(v)
            /\ Len(v.queue) <= Len(v.write_requests) + InFlight(v) + Sentinel(v)
            /\ Len(v.queue) = Len(v.write_requests) + InFlight(v) + Sentinel(v)
        BY <3>2, <3>3, <3>4, <4>1, <4>4
      <4>8. /\ Over(v) >= 0
            /\ \A i \in DOMAIN v.write_requests :
                  v.write_requests[i] = v.writes - Len(v.write_requests) + i
            /\ v.in_flight_write_request # 0 =>
                  v.in_flight_write_request = v.writes - Len(v.write_requests)
        BY <2>4, <4>1 DEF Lined
      <4>9. Lined(v)
        BY <3>7, <4>1, <4>6, <4>7, <4>8 DEF Lined
      <4>10. Promised(v)
        BY <2>4, <4>1 DEF Promised
      <4>11. QED
        BY <3>7, <4>7, <4>9, <4>10 DEF Matched
    <3>10. Sound(v)
      BY <3>6, <3>7, <3>8, <3>9 DEF Sound
    <3>11. Sound(x) /\ Same(x, v, {"backpressure", "ready"})
      BY <3>10, BackpressureSafe
    <3> HIDE DEF x
    <3>12. x.state = "writable" /\ ~x.in_flight_close_request
      BY <3>7, <3>11 DEF Same, Fields
    <3>13. QED
      BY <1>3, <3>1, <3>11, <3>12, AdvanceSafe
  <2>10. CASE ~valid
    <3> DEFINE v == clear_algorithms(u)
    <3>1. t = writable_stream_start_erroring(v)
      BY <2>1, <2>8, <2>10 DEF controller_write, controller_error_if_needed
    <3>2. v = [u EXCEPT !.algorithms = FALSE]
      BY DEF clear_algorithms
    <3> HIDE DEF v
    <3>3. Same(v, u, {"algorithms"})
      BY <2>8, <3>2 DEF Same, Shape, Fields
    <3>4. SizeFrames(v) = SizeFrames(u) /\ SinkFrames(v) = SinkFrames(u) /\ CallsOf(v) = CallsOf(u)
      BY <3>3 DEF Same, Fields, SizeFrames, SinkFrames, CallsOf
    <3>5. Bounded(v) /\ OneAtATime(v)
      BY <2>6, <2>7, <3>3, <3>4 DEF Same, Fields, Bounded, OneAtATime
    <3>6. InFlight(v) = InFlight(u) /\ Sentinel(v) = Sentinel(u) /\ Over(v) = Over(u)
      BY <3>3 DEF Same, Fields, InFlight, Sentinel, Over
    <3>7. Lined(v)
      BY <2>4, <3>3, <3>6 DEF Same, Fields, Lined
    <3>8. Promised(v)
      BY <2>4, <3>3, <3>6 DEF Same, Fields, Promised
    <3>9. /\ v \in Shape /\ ~v.failed /\ ~v.stored_error /\ v.state = "writable"
          /\ ~(v.close_request /\ v.in_flight_close_request) /\ v.pending_abort_request = "none"
          /\ v.writer # 0 => v.closed = "pending"
      BY <2>8, <3>3 DEF Same, Fields
    <3>10. Failing(v)
      BY <3>5, <3>7, <3>8, <3>9, PromisedOrdered DEF Failing
    <3>11. QED
      BY <1>3, <3>1, <3>10, StartErroringSafe
  <2>11. QED
    BY <2>9, <2>10
<1>4. QED
  BY <1>2, <1>3

\* writable_stream_abort() after the listeners of the signal have run.
LEMMA AbortSafe ==
    ASSUME NEW s, Safe(s), NEW t, t = AbortAfterSignal(s)
    PROVE  /\ Safe(t)
           /\ CallsOf(t) \subseteq CallsOf(s) \cup {"abort"}
<1>1. s \in Shape /\ Sound(s)
  BY DEF Safe, Sound
<1>2. CASE s.state \in {"closed", "errored"} \/ s.pending_abort_request # "none"
  BY <1>2 DEF AbortAfterSignal
<1>3. CASE s.state \in {"writable", "erroring"} /\ s.pending_abort_request = "none"
  <2> DEFINE p == [s.promises EXCEPT ![Abort] = "pending"]
             a == IF s.state = "erroring" THEN "was_already_erroring" ELSE "abort"
             u == [s EXCEPT !.promises = p, !.pending_abort_request = a]
  <2>1. t = IF s.state = "erroring" THEN u ELSE writable_stream_start_erroring(u)
    BY <1>3 DEF AbortAfterSignal
  <2>2. Abort \in Requests /\ s.promises \in [Requests -> PromiseState] /\ "pending" \in PromiseState
    BY <1>1, StreamBounds DEF Shape, Requests, Abort, PromiseState
  <2>3. p \in [Requests -> PromiseState] /\ \A i \in Requests : i # Abort => p[i] = s.promises[i]
    BY <2>2
  <2>4. a \in {"abort", "was_already_erroring"} /\ (a = "abort" <=> s.state # "erroring")
    OBVIOUS
  <2> HIDE DEF p, a
  <2>5. u \in Shape /\ u.promises = p /\ u.pending_abort_request = a
    <3> DEFINE v == [s EXCEPT !.promises = p]
    <3>1. v \in Shape /\ v.promises = p
      BY <1>1, <2>3 DEF Shape
    <3>2. u = [v EXCEPT !.pending_abort_request = a]
      OBVIOUS
    <3> HIDE DEF v, u
    <3> QED
      BY <3>1, <3>2, <2>4 DEF Shape
  <2>6. Same(u, s, {"promises", "pending_abort_request"})
    BY <1>1, <2>5 DEF Same, Shape, Fields
  <2> HIDE DEF u
  <2>7. CASE s.state = "writable"
    <3>1. /\ Same(u, s, {"algorithms", "pending_abort_request", "promises"})
          /\ u.algorithms = s.algorithms
          /\ \A i \in Requests : i # Abort => u.promises[i] = s.promises[i]
      BY <2>3, <2>5, <2>6 DEF Same, Fields
    <3>2. Failing(u) /\ CallsOf(u) = CallsOf(s)
      BY <1>1, <2>7, <3>1, OpenFails
    <3>3. t = writable_stream_start_erroring(u)
      BY <2>1, <2>7
    <3>4. QED
      BY <3>2, <3>3, StartErroringSafe
  <2>8. CASE s.state = "erroring"
    <3>1. t = u
      BY <2>1, <2>8
    <3>2. SizeFrames(u) = SizeFrames(s) /\ SinkFrames(u) = SinkFrames(s) /\ CallsOf(u) = CallsOf(s)
      BY <2>6 DEF Same, Fields, SizeFrames, SinkFrames, CallsOf
    <3>3. Bounded(u) /\ OneAtATime(u)
      BY <1>1, <2>6, <3>2 DEF Same, Fields, Sound, Bounded, OneAtATime
    <3>4. Asserted(u)
      BY <1>1, <2>4, <2>5, <2>6, <2>8 DEF Same, Fields, Sound, Asserted
    <3>5. Told(u) /\ ErrorTold(u) /\ Parked(u) /\ u.state = "erroring"
      BY <1>1, <2>6, <2>8
         DEF Same, Fields, Safe, Sound, Told, ErrorTold, Parked,
             writable_stream_has_operation_marked_in_flight
    <3>6. InFlight(u) = InFlight(s) /\ Sentinel(u) = Sentinel(s) /\ Over(u) = Over(s)
      BY <2>6 DEF Same, Fields, InFlight, Sentinel, Over
    <3>7. Lined(s) /\ Promised(s)
      BY <1>1, <2>8 DEF Sound, Matched
    <3>8. Lined(u)
      BY <2>6, <3>6, <3>7 DEF Same, Fields, Lined
    <3>9. Promised(u)
      <4>1. u.writes = s.writes /\ \A i \in 1 .. s.writes : i \in Requests /\ i # Abort
        BY <1>1, <2>6, WritesBounded DEF Same, Fields, Sound
      <4>2. QED
        BY <2>3, <2>5, <3>6, <3>7, <4>1 DEF Promised
    <3>10. Matched(u)
      BY <3>5, <3>8, <3>9 DEF Matched
    <3>11. QED
      BY <2>5, <3>1, <3>2, <3>3, <3>4, <3>5, <3>10 DEF Safe, Sound
  <2>9. QED
    BY <1>3, <2>7, <2>8
<1>4. QED
  BY <1>1, <1>2, <1>3 DEF Shape

----------------------------------------------------------------------------
(***************************************************************************)
(* The actions.  Each leaves a safe stream, and gives the sink nothing to  *)
(* write or close if the stream was not writable.                          *)
(***************************************************************************)

Kept(s, t) == s.state # "writable" => {"write", "close"} \cap (CallsOf(t) \ CallsOf(s)) = {}

\* The fields that the queue, the requests and their promises are not in.
Apart == {"stored_error", "backpressure", "started", "pending_abort_request", "algorithms",
          "signalled", "writer", "ready", "closed", "promises", "sink", "stack", "calls",
          "writers", "failed"}

\* They agree as long as none of them changes.
LEMMA SameMatched ==
    ASSUME NEW s, NEW t, Same(t, s, Apart), Matched(s),
           \A i \in 1 .. s.writes : t.promises[i] = s.promises[i]
    PROVE  Matched(t)
<1>1. /\ t.state = s.state /\ t.queue = s.queue /\ t.write_requests = s.write_requests
      /\ t.in_flight_write_request = s.in_flight_write_request
      /\ t.close_request = s.close_request /\ t.writes = s.writes
      /\ t.in_flight_close_request = s.in_flight_close_request
  BY DEF Same, Fields, Apart
<1>2. InFlight(t) = InFlight(s) /\ Sentinel(t) = Sentinel(s) /\ Over(t) = Over(s)
  BY <1>1 DEF InFlight, Sentinel, Over
<1>3. CASE s.state = "errored"
  BY <1>1, <1>3 DEF Matched, Ordered
<1>4. CASE s.state # "errored"
  <2>1. Lined(s) /\ Promised(s)
    BY <1>4 DEF Matched
  <2>2. Lined(t)
    BY <1>1, <1>2, <2>1 DEF Lined
  <2>3. Promised(t)
    BY <1>1, <1>2, <2>1 DEF Promised
  <2>4. QED
    BY <1>1, <1>2, <1>4, <2>2, <2>3 DEF Matched
<1>5. QED
  BY <1>3, <1>4

\* getWriter() and releaseLock(): the new writer is told how the stream is.
LEMMA WriterSteps ==
    ASSUME IInv, get_writer \/ release_lock
    PROVE  IInv' /\ Kept(w, w')
<1>1. w \in Shape /\ Sound(w) /\ Parked(w)
  BY DEF IInv, Safe, Sound
<1>2. CASE get_writer
  <2> DEFINE n == w.writers + 1
             ready == CASE w.state = "writable" ->
                              IF ~writable_stream_close_queued_or_in_flight(w) /\ w.backpressure
                              THEN "pending" ELSE "fulfilled"
                        [] w.state = "closed" -> "fulfilled"
                        [] OTHER -> "rejected"
             closed == CASE w.state \in {"writable", "erroring"} -> "pending"
                         [] w.state = "closed" -> "fulfilled"
                         [] OTHER -> "rejected"
  <2>1. /\ n \in Nat /\ n <= MaxWriters /\ w.writers < MaxWriters
        /\ ready \in PromiseState /\ closed \in PromiseState
    <3>1. n \in Nat /\ n <= MaxWriters /\ w.writers < MaxWriters
      BY <1>1, <1>2, StreamBounds DEF get_writer, Shape
    <3>2. w.state \in {"writable", "erroring", "closed", "errored"}
      BY <1>1 DEF Shape
    <3>3. QED
      BY <3>1, <3>2 DEF PromiseState
  <2>2. w' = [w EXCEPT !.writers = n, !.writer = n, !.ready = ready, !.closed = closed]
    BY <1>2 DEF get_writer
  <2>3. /\ w.state = "writable" =>
             ready = IF w.backpressure /\ ~writable_stream_close_queued_or_in_flight(w)
                     THEN "pending" ELSE "fulfilled"
        /\ w.state \in {"erroring", "errored"} => ready = "rejected"
        /\ w.state \in {"writable", "erroring"} => closed = "pending"
        /\ w.state = "closed" => closed = "fulfilled"
        /\ w.state = "errored" => closed = "rejected"
    OBVIOUS
  <2> HIDE DEF n, ready, closed
  <2>4. w' \in Shape /\ w'.writers = n /\ w'.writer = n /\ w'.ready = ready /\ w'.closed = closed
    BY <1>1, <2>1, <2>2 DEF Shape
  <2>5. Same(w', w, {"writers", "writer", "ready", "closed"})
    BY <1>1, <2>2, <2>4 DEF Same, Shape, Fields
  <2>6. SizeFrames(w') = SizeFrames(w) /\ SinkFrames(w') = SinkFrames(w) /\ CallsOf(w') = CallsOf(w)
    BY <2>5 DEF Same, Fields, SizeFrames, SinkFrames, CallsOf
  <2>7. Bounded(w')
    BY <1>1, <2>1, <2>4, <2>5, <2>6 DEF Same, Fields, Sound, Bounded
  <2>8. OneAtATime(w')
    BY <1>1, <2>5, <2>6 DEF Same, Fields, Sound, OneAtATime
  <2>9. Asserted(w')
    BY <1>1, <2>5 DEF Same, Fields, Sound, Asserted
  <2>10. Told(w') /\ ErrorTold(w')
    BY <2>3, <2>4, <2>5
       DEF Same, Fields, Told, ErrorTold, writable_stream_close_queued_or_in_flight
  <2>11. Matched(w')
    BY <1>1, <2>5, SameMatched DEF Same, Fields, Apart, Sound
  <2>12. Parked(w')
    BY <1>1, <2>5 DEF Same, Fields, Parked, writable_stream_has_operation_marked_in_flight
  <2>13. QED
    BY <2>4, <2>6, <2>7, <2>8, <2>9, <2>10, <2>11, <2>12 DEF IInv, Safe, Sound, Kept
<1>3. CASE release_lock
  <2>1. w' = [w EXCEPT !.writer = 0, !.ready = "none", !.closed = "none"]
    BY <1>3 DEF release_lock
  <2>2. w' \in Shape /\ w'.writer = 0
    BY <1>1, <2>1 DEF Shape, PromiseState
  <2>3. Same(w', w, {"writer", "ready", "closed"})
    BY <1>1, <2>1, <2>2 DEF Same, Shape, Fields
  <2>4. SizeFrames(w') = SizeFrames(w) /\ SinkFrames(w') = SinkFrames(w) /\ CallsOf(w') = CallsOf(w)
    BY <2>3 DEF Same, Fields, SizeFrames, SinkFrames, CallsOf
  <2>5. Bounded(w')
    <3>1. w.writers \in Nat
      BY <1>1 DEF Shape
    <3>2. QED
      BY <1>1, <2>2, <2>3, <2>4, <3>1 DEF Same, Fields, Sound, Bounded
  <2>6. OneAtATime(w')
    BY <1>1, <2>3, <2>4 DEF Same, Fields, Sound, OneAtATime
  <2>7. Asserted(w')
    BY <1>1, <2>3 DEF Same, Fields, Sound, Asserted
  <2>8. Told(w') /\ ErrorTold(w')
    BY <2>2 DEF Told, ErrorTold
  <2>9. Matched(w')
    BY <1>1, <2>3, SameMatched DEF Same, Fields, Apart, Sound
  <2>10. Parked(w')
    BY <1>1, <2>3 DEF Same, Fields, Parked, writable_stream_has_operation_marked_in_flight
  <2>11. QED
    BY <2>2, <2>4, <2>5, <2>6, <2>7, <2>8, <2>9, <2>10 DEF IInv, Safe, Sound, Kept
<1>4. QED
  BY <1>2, <1>3

\* Script is called that is not the sink's: size() for one more write(), or the
\* listeners of the abort signal.
LEMMA ScriptCalled ==
    ASSUME NEW s, Safe(s), NEW u, Same(u, s, {"calls", "signalled"}), NEW callback,
           \/ /\ callback = "size" /\ u.calls = s.calls + 1 /\ u.calls <= MaxWrites
              /\ s.writer # 0
           \/ callback = "signal" /\ u.calls = s.calls,
           NEW t, t = CallScript(u, callback)
    PROVE  Safe(t) /\ CallsOf(t) = CallsOf(s)
<1> DEFINE f == Frame(callback, u.writer)
<1>1. s \in Shape /\ Sound(s) /\ Parked(s) /\ u \in Shape
  BY DEF Safe, Sound, Same
<1>2. /\ u.stack = s.stack /\ u.sink = s.sink /\ u.writer = s.writer /\ u.writer \in Nat
      /\ s.stack \in Seq(Frames) /\ f \in Frames
      /\ f.callback = callback /\ f.writer = s.writer /\ callback \notin SinkCallback
  BY <1>1 DEF Same, Shape, Fields, Frame, Frames, SinkCallback
<1>3. t = [u EXCEPT !.stack = Append(u.stack, f)]
  BY DEF CallScript
<1> HIDE DEF f
<1>4. /\ Len(s.stack) \in Nat /\ DOMAIN s.stack = 1 .. Len(s.stack)
      /\ Append(s.stack, f) \in Seq(Frames)
      /\ DOMAIN Append(s.stack, f) = 1 .. Len(s.stack) + 1
      /\ \A i \in 1 .. Len(s.stack) : Append(s.stack, f)[i] = s.stack[i]
      /\ Append(s.stack, f)[Len(s.stack) + 1] = f
  BY <1>2, Appended
<1>5. Same(t, u, {"stack"}) /\ t.stack = Append(s.stack, f)
  <2>1. t = [u EXCEPT !.stack = Append(s.stack, f)]
    BY <1>2, <1>3
  <2>2. QED
    BY <1>1, <1>4, <2>1, ZenonT(40) DEF Same, Shape, Fields
<1>6. Same(t, s, {"calls", "signalled", "stack"}) /\ t.calls = u.calls
  BY <1>5 DEF Same, Fields
<1>7. SinkFrames(t) = SinkFrames(s) /\ \A i \in SinkFrames(s) : t.stack[i] = s.stack[i]
  BY <1>2, <1>4, <1>5 DEF SinkFrames
<1>8. CallsOf(t) = CallsOf(s)
  BY <1>6, <1>7 DEF CallsOf, Same, Fields
<1>9. Bounded(t)
  <2>1. /\ t.calls <= MaxWrites /\ t.writes + Cardinality(SizeFrames(t)) <= t.calls
        /\ \A i \in SizeFrames(t) : t.stack[i].writer # 0
    <3>1. /\ s.writes \in Nat /\ s.calls \in Nat /\ s.calls <= MaxWrites
          /\ s.writes + Cardinality(SizeFrames(s)) <= s.calls /\ t.writes = s.writes
          /\ \A i \in SizeFrames(s) : s.stack[i].writer # 0
      BY <1>1, <1>6 DEF Same, Fields, Shape, Sound, Bounded
    <3>2. IsFiniteSet(SizeFrames(s)) /\ Cardinality(SizeFrames(s)) \in Nat
      BY <1>2, FramesFinite
    <3>3. CASE callback = "size" /\ t.calls = s.calls + 1 /\ t.calls <= MaxWrites /\ s.writer # 0
      <4>1. /\ SizeFrames(t) = SizeFrames(s) \cup {Len(s.stack) + 1}
            /\ Len(s.stack) + 1 \notin SizeFrames(s)
            /\ \A i \in SizeFrames(s) : t.stack[i] = s.stack[i]
            /\ t.stack[Len(s.stack) + 1] = f
        BY <1>2, <1>4, <1>5, <3>3 DEF SizeFrames
      <4>2. Cardinality(SizeFrames(t)) = Cardinality(SizeFrames(s)) + 1
        BY <3>2, <4>1, FS_AddElement
      <4>3. t.writes + Cardinality(SizeFrames(t)) <= t.calls
        BY <3>1, <3>2, <3>3, <4>2
      <4>4. QED
        BY <1>2, <3>1, <3>3, <4>1, <4>3
    <3>4. CASE callback = "signal" /\ t.calls = s.calls
      <4>1. SizeFrames(t) = SizeFrames(s) /\ \A i \in SizeFrames(s) : t.stack[i] = s.stack[i]
        BY <1>2, <1>4, <1>5, <3>4 DEF SizeFrames
      <4>2. QED
        BY <3>1, <3>4, <4>1
    <3>5. QED
      BY <1>6, <3>3, <3>4
  <2>2. QED
    BY <1>1, <1>6, <2>1 DEF Same, Fields, Sound, Bounded
<1>10. OneAtATime(t)
  BY <1>1, <1>6, <1>7, <1>8 DEF Same, Fields, Sound, OneAtATime
<1>11. Asserted(t)
  BY <1>1, <1>6 DEF Same, Fields, Sound, Asserted
<1>12. Told(t)
  BY <1>1, <1>6 DEF Same, Fields, Sound, Told, writable_stream_close_queued_or_in_flight
<1>13. ErrorTold(t)
  BY <1>1, <1>6, <1>8 DEF Same, Fields, Sound, ErrorTold
<1>14. Matched(t)
  BY <1>1, <1>6, SameMatched DEF Same, Fields, Apart, Sound
<1>15. Parked(t)
  BY <1>1, <1>6 DEF Same, Fields, Parked, writable_stream_has_operation_marked_in_flight
<1>16. QED
  BY <1>6, <1>8, <1>9, <1>10, <1>11, <1>12, <1>13, <1>14, <1>15 DEF Safe, Sound, Same

\* write() before its size() is called.
LEMMA WriteStep ==
    ASSUME IInv, write
    PROVE  IInv' /\ Kept(w, w')
<1> DEFINE s == [w EXCEPT !.calls = @ + 1]
<1>1. w \in Shape /\ Sound(w) /\ Parked(w) /\ w.writer # 0 /\ w.calls < MaxWrites
  BY DEF IInv, Safe, Sound, write
<1>2. w.calls \in Nat /\ w.writes \in Nat /\ w.stack \in Seq(Frames) /\ w.calls + 1 \in Nat
  BY <1>1 DEF Shape
<1>3. IF s.algorithms THEN w' = CallScript(s, "size") ELSE w' = WriteAfterSize(s, TRUE)
  BY DEF write
<1>4. Same(s, w, {"calls"}) /\ s.calls = w.calls + 1
  BY <1>1, <1>2 DEF Same, Shape, Fields
<1> HIDE DEF s
<1>5. s.calls <= MaxWrites
  BY <1>1, <1>2, <1>4, StreamBounds
<1>6. CASE s.algorithms
  <2>1. w' = CallScript(s, "size") /\ Same(s, w, {"calls", "signalled"})
    BY <1>3, <1>4, <1>6 DEF Same
  <2>2. Safe(w') /\ CallsOf(w') = CallsOf(w)
    BY <1>1, <1>4, <1>5, <2>1, ScriptCalled DEF IInv
  <2>3. QED
    BY <2>2 DEF IInv, Kept
<1>7. CASE ~s.algorithms
  <2>1. SizeFrames(s) = SizeFrames(w) /\ SinkFrames(s) = SinkFrames(w) /\ CallsOf(s) = CallsOf(w)
    BY <1>4 DEF Same, Fields, SizeFrames, SinkFrames, CallsOf
  <2>2. /\ w.writes + Cardinality(SizeFrames(w)) <= w.calls
        /\ Cardinality(SizeFrames(w)) \in Nat /\ s.writes = w.writes
    BY <1>1, <1>2, <1>4, FramesFinite DEF Same, Fields, Sound, Bounded
  <2>3. s.writes + Cardinality(SizeFrames(s)) < s.calls
    BY <1>2, <1>4, <2>1, <2>2
  <2>4. s.writes + Cardinality(SizeFrames(s)) <= s.calls
    BY <1>2, <1>4, <2>1, <2>2
  <2>5. Bounded(s)
    BY <1>1, <1>4, <1>5, <2>1, <2>4 DEF Same, Fields, Sound, Bounded
  <2>6. OneAtATime(s)
    BY <1>1, <1>4, <2>1 DEF Same, Fields, Sound, OneAtATime
  <2>7. Asserted(s)
    BY <1>1, <1>4 DEF Same, Fields, Sound, Asserted
  <2>8. Told(s)
    BY <1>1, <1>4 DEF Same, Fields, Sound, Told, writable_stream_close_queued_or_in_flight
  <2>9. ErrorTold(s)
    BY <1>1, <1>4, <2>1 DEF Same, Fields, Sound, ErrorTold
  <2>10. Matched(s)
    BY <1>1, <1>4, SameMatched DEF Same, Fields, Apart, Sound
  <2>11. Parked(s)
    BY <1>1, <1>4 DEF Same, Fields, Parked, writable_stream_has_operation_marked_in_flight
  <2>12. Safe(s)
    BY <1>4, <2>5, <2>6, <2>7, <2>8, <2>9, <2>10, <2>11 DEF Safe, Sound, Same
  <2>13. w' = WriteAfterSize(s, TRUE) /\ s.writer # 0 /\ s.state = w.state
    BY <1>1, <1>3, <1>4, <1>7 DEF Same, Fields
  <2>14. Safe(w') /\ (s.state # "writable" => w' = s)
    BY <2>3, <2>12, <2>13, WriteSafe
  <2>15. QED
    BY <2>1, <2>13, <2>14 DEF IInv, Kept
<1>8. QED
  BY <1>6, <1>7

\* close() queues its sentinel behind the chunks.
LEMMA CloseStep ==
    ASSUME IInv, close
    PROVE  IInv' /\ Kept(w, w')
<1> DEFINE p == [w.promises EXCEPT ![Close] = "pending"]
           q == Append(w.queue, Close)
           ready == IF w.writer # 0 /\ w.backpressure /\ w.state = "writable"
                    THEN "fulfilled" ELSE w.ready
           s == [w EXCEPT !.close_request = TRUE, !.promises = p, !.queue = q, !.ready = ready]
<1>1. /\ w \in Shape /\ Sound(w) /\ Parked(w) /\ w.state \in {"writable", "erroring"}
      /\ ~writable_stream_close_queued_or_in_flight(w)
  BY DEF IInv, Safe, Sound, close
<1>2. w' = advance_queue_if_needed(s)
  BY DEF close
<1>3. /\ w.promises \in [Requests -> PromiseState] /\ Close \in Requests /\ "pending" \in PromiseState
      /\ w.queue \in Seq(Nat) /\ Close \in Nat /\ ready \in PromiseState
  BY <1>1, StreamBounds DEF Shape, PromiseState, Requests, Abort, Close
<1>4. p \in [Requests -> PromiseState] /\ \A i \in Requests : i # Close => p[i] = w.promises[i]
  BY <1>3
<1>5. /\ q \in Seq(Nat) /\ Len(w.queue) \in Nat /\ Len(q) = Len(w.queue) + 1
      /\ DOMAIN w.queue = 1 .. Len(w.queue) /\ DOMAIN q = 1 .. Len(w.queue) + 1
      /\ \A i \in 1 .. Len(w.queue) : q[i] = w.queue[i]
      /\ q[Len(w.queue) + 1] = Close
  BY <1>3, Appended
<1>6. w.state = "writable" /\ w.writer # 0 => ready = "fulfilled"
  BY <1>1 DEF Sound, Told
<1>7. w.state = "erroring" => ready = w.ready
  OBVIOUS
<1> HIDE DEF p, q, ready
<1>8. s \in Shape /\ s.close_request /\ s.promises = p /\ s.queue = q /\ s.ready = ready
  BY <1>1, <1>3, <1>4, <1>5 DEF Shape
<1>9. Same(s, w, {"close_request", "promises", "queue", "ready"})
  BY <1>1, <1>8 DEF Same, Shape, Fields
<1> HIDE DEF s
<1>10. SizeFrames(s) = SizeFrames(w) /\ SinkFrames(s) = SinkFrames(w) /\ CallsOf(s) = CallsOf(w)
  BY <1>9 DEF Same, Fields, SizeFrames, SinkFrames, CallsOf
<1>11. Bounded(s) /\ OneAtATime(s)
  BY <1>1, <1>9, <1>10 DEF Same, Fields, Sound, Bounded, OneAtATime
<1>12. /\ ~w.close_request /\ ~w.in_flight_close_request /\ ~s.in_flight_close_request
       /\ s.state = w.state
  BY <1>1, <1>9 DEF Same, Fields, writable_stream_close_queued_or_in_flight
<1>13. Asserted(s)
  BY <1>1, <1>9, <1>12 DEF Same, Fields, Sound, Asserted
<1>14. Told(s) /\ ErrorTold(s)
  BY <1>1, <1>6, <1>7, <1>8, <1>9
     DEF Same, Fields, Sound, Told, ErrorTold, writable_stream_close_queued_or_in_flight
<1>15. Matched(s)
  <2>1. /\ s.writes = w.writes /\ s.write_requests = w.write_requests
        /\ s.in_flight_write_request = w.in_flight_write_request
        /\ InFlight(s) = InFlight(w) /\ Sentinel(w) = 0 /\ Sentinel(s) = 1 /\ Over(s) = Over(w)
    BY <1>8, <1>9, <1>12 DEF Same, Fields, InFlight, Sentinel, Over
  <2>2. /\ Lined(w) /\ Promised(w)
        /\ w.state # "erroring" =>
              Len(w.queue) = Len(w.write_requests) + InFlight(w) + Sentinel(w)
    BY <1>1 DEF Sound, Matched
  <2>3. Len(w.write_requests) \in Nat /\ InFlight(w) \in {0, 1}
    BY <1>1, Counts
  <2>4. Len(s.queue) = Len(w.queue) + 1
    BY <1>5, <1>8
  <2>5. /\ Len(w.queue) >= InFlight(w) + Sentinel(w)
        /\ Len(w.queue) <= Len(w.write_requests) + InFlight(w) + Sentinel(w)
    BY <2>2 DEF Lined
  <2>6. /\ Len(s.queue) >= InFlight(s) + Sentinel(s)
        /\ Len(s.queue) <= Len(s.write_requests) + InFlight(s) + Sentinel(s)
        /\ s.state # "erroring" =>
              Len(s.queue) = Len(s.write_requests) + InFlight(s) + Sentinel(s)
    BY <1>5, <1>12, <2>1, <2>2, <2>3, <2>4, <2>5
  <2>7. ASSUME NEW i \in DOMAIN s.queue, i <= Len(s.queue) - Sentinel(s)
        PROVE  s.queue[i] = Over(s) + i
    <3>1. i \in 1 .. Len(w.queue)
      BY <1>5, <1>8, <2>1, <2>4, <2>7
    <3>2. i <= Len(w.queue) - Sentinel(w) /\ i \in DOMAIN w.queue
      BY <1>5, <2>1, <3>1
    <3>3. w.queue[i] = Over(w) + i
      BY <2>2, <3>2 DEF Lined
    <3>4. QED
      BY <1>5, <1>8, <2>1, <3>1, <3>3
  <2>8. s.queue[Len(s.queue)] = Close
    BY <1>5, <1>8, <2>4
  <2>9. Lined(s)
    BY <1>1, <1>12, <2>1, <2>2, <2>6, <2>7, <2>8 DEF Lined
  <2>10. Promised(s)
    <3>1. \A i \in 1 .. w.writes : i \in Requests /\ i # Close
      BY <1>1, WritesBounded DEF Sound
    <3>2. QED
      BY <1>4, <1>8, <2>1, <2>2, <3>1 DEF Promised
  <2>11. QED
    BY <1>1, <1>12, <2>6, <2>9, <2>10 DEF Matched
<1>16. Sound(s)
  BY <1>8, <1>11, <1>13, <1>14, <1>15 DEF Sound
<1>17. /\ Safe(w')
       /\ s.state # "writable" => CallsOf(w') \subseteq CallsOf(s) \cup {"abort"}
  BY <1>1, <1>2, <1>12, <1>16, AdvanceSafe
<1>18. QED
  BY <1>10, <1>12, <1>17 DEF IInv, Kept

\* abort(), which first fires the signal, and error() of the controller.
LEMMA FailureSteps ==
    ASSUME IInv, abort \/ error
    PROVE  IInv' /\ Kept(w, w')
<1>1. Safe(w) /\ w \in Shape
  BY DEF IInv, Safe, Sound
<1>2. CASE abort /\ w.signalled
  <2>1. w' = AbortAfterSignal(w)
    BY <1>2 DEF abort
  <2>2. Safe(w') /\ CallsOf(w') \subseteq CallsOf(w) \cup {"abort"}
    BY <1>1, <2>1, AbortSafe
  <2>3. QED
    BY <2>2 DEF IInv, Kept
<1>3. CASE abort /\ ~w.signalled
  <2> DEFINE s == [w EXCEPT !.signalled = TRUE]
  <2>1. w' = CallScript(s, "signal")
    BY <1>3 DEF abort
  <2>2. Same(s, w, {"calls", "signalled"}) /\ s.calls = w.calls
    BY <1>1 DEF Same, Shape, Fields
  <2> HIDE DEF s
  <2>3. Safe(w') /\ CallsOf(w') = CallsOf(w)
    BY <1>1, <2>1, <2>2, ScriptCalled
  <2>4. QED
    BY <2>3 DEF IInv, Kept
<1>4. CASE error
  <2>1. w' = IF w.state = "writable" THEN writable_stream_start_erroring(clear_algorithms(w)) ELSE w
    BY <1>4 DEF error
  <2>2. Safe(w') /\ CallsOf(w') \subseteq CallsOf(w) \cup {"abort"}
    BY <1>1, <2>1, ErrorSafe
  <2>3. QED
    BY <2>2 DEF IInv, Kept
<1>5. QED
  BY <1>2, <1>3, <1>4

\* size() or the listeners of the signal return to the stream.
LEMMA ScriptReturned ==
    ASSUME NEW s, Safe(s), s.stack # <<>>, Last(s.stack).callback \notin SinkCallback,
           NEW t, t = [s EXCEPT !.stack = Front(@)]
    PROVE  /\ Safe(t) /\ CallsOf(t) = CallsOf(s) /\ t.writer = s.writer /\ t.state = s.state
           /\ Last(s.stack).callback = "size" =>
                 /\ Last(s.stack).writer # 0
                 /\ t.writes + Cardinality(SizeFrames(t)) < t.calls
<1>1. s \in Shape /\ Sound(s) /\ Parked(s) /\ s.stack \in Seq(Frames)
  BY DEF Safe, Sound, Shape
<1>2. Front(s.stack) \in Seq(Frames)
  BY <1>1, FrontOf
<1>3. Same(t, s, {"stack"}) /\ t.stack = Front(s.stack)
  BY <1>1, <1>2 DEF Same, Shape, Fields
<1>4. t.sink = s.sink
  BY <1>3 DEF Same, Fields
<1>5. /\ SinkFrames(t) = SinkFrames(s) /\ CallsOf(t) = CallsOf(s)
      /\ SizeFrames(t) = SizeFrames(s) \ {Len(s.stack)}
      /\ Cardinality(SizeFrames(t)) \in Nat
      /\ Last(s.stack).callback = "size" =>
            Cardinality(SizeFrames(s)) = Cardinality(SizeFrames(t)) + 1
      /\ Last(s.stack).callback # "size" => SizeFrames(t) = SizeFrames(s)
      /\ \A i \in SizeFrames(t) : t.stack[i] = s.stack[i]
      /\ Last(s.stack).callback = "size" => Last(s.stack) = s.stack[Len(s.stack)]
                                            /\ Len(s.stack) \in SizeFrames(s)
  BY <1>1, <1>3, <1>4, ScriptPopped, ZenonT(30)
<1>6. /\ s.writes \in Nat /\ s.calls \in Nat /\ t.writes = s.writes /\ t.calls = s.calls
      /\ s.writes + Cardinality(SizeFrames(s)) <= s.calls
      /\ \A i \in SizeFrames(s) : s.stack[i].writer # 0
  BY <1>1, <1>3 DEF Same, Fields, Shape, Sound, Bounded
<1>7. ASSUME Last(s.stack).callback = "size"
      PROVE  Last(s.stack).writer # 0 /\ t.writes + Cardinality(SizeFrames(t)) < t.calls
  <2>1. Cardinality(SizeFrames(s)) = Cardinality(SizeFrames(t)) + 1
    BY <1>5, <1>7
  <2>2. QED
    BY <1>5, <1>6, <1>7, <2>1
<1>8. Bounded(t)
  <2>1. t.writes + Cardinality(SizeFrames(t)) <= t.calls
    <3>1. CASE Last(s.stack).callback = "size"
      <4>1. Cardinality(SizeFrames(s)) = Cardinality(SizeFrames(t)) + 1
        BY <1>5, <3>1
      <4>2. QED
        BY <1>5, <1>6, <4>1
    <3>2. CASE Last(s.stack).callback # "size"
      <4>1. SizeFrames(t) = SizeFrames(s)
        BY <1>5, <3>2
      <4>2. QED
        BY <1>6, <4>1
    <3>3. QED
      BY <3>1, <3>2
  <2>2. \A i \in SizeFrames(t) : t.stack[i].writer # 0
    BY <1>5, <1>6
  <2>3. QED
    BY <1>1, <1>3, <2>1, <2>2 DEF Same, Fields, Sound, Bounded
<1>9. OneAtATime(t)
  BY <1>1, <1>3, <1>5 DEF Same, Fields, Sound, OneAtATime
<1>10. Asserted(t)
  BY <1>1, <1>3 DEF Same, Fields, Sound, Asserted
<1>11. Told(t)
  BY <1>1, <1>3 DEF Same, Fields, Sound, Told, writable_stream_close_queued_or_in_flight
<1>12. ErrorTold(t)
  BY <1>1, <1>3, <1>5 DEF Same, Fields, Sound, ErrorTold
<1>13. Matched(t)
  BY <1>1, <1>3, SameMatched DEF Same, Fields, Apart, Sound
<1>14. Parked(t)
  BY <1>1, <1>3 DEF Same, Fields, Parked, writable_stream_has_operation_marked_in_flight
<1>15. Safe(t)
  BY <1>3, <1>8, <1>9, <1>10, <1>11, <1>12, <1>13, <1>14 DEF Safe, Sound, Same
<1>16. QED
  BY <1>3, <1>5, <1>7, <1>15 DEF Same, Fields

\* size() returns to write(), which then looks at the stream again.
LEMMA SizeStep ==
    ASSUME IInv, NEW outcome \in {"valid", "invalid", "throws"}, SizeReturns(outcome)
    PROVE  IInv' /\ Kept(w, w')
<1> DEFINE s == [w EXCEPT !.stack = Front(@)]
           s1 == IF outcome = "throws" THEN controller_error_if_needed(s) ELSE s
           valid == outcome # "invalid"
<1>1. /\ Safe(w) /\ w.stack # <<>> /\ Last(w.stack).callback = "size"
      /\ Last(w.stack).callback \notin SinkCallback
  BY DEF IInv, SizeReturns, SinkCallback
<1>2. w' = IF w.writer # Last(w.stack).writer THEN s1 ELSE WriteAfterSize(s1, valid)
  BY DEF SizeReturns
<1>3. /\ Safe(s) /\ CallsOf(s) = CallsOf(w) /\ s.writer = w.writer /\ s.state = w.state
      /\ Last(w.stack).writer # 0 /\ s.writes + Cardinality(SizeFrames(s)) < s.calls
  BY <1>1, ScriptReturned
<1> HIDE DEF s
<1>4. CASE outcome = "throws"
  <2>1. s1 = IF s.state = "writable" THEN writable_stream_start_erroring(clear_algorithms(s)) ELSE s
    BY <1>4 DEF controller_error_if_needed
  <2>2. Safe(s1) /\ s1.state # "writable" /\ CallsOf(s1) \subseteq CallsOf(s) \cup {"abort"}
    BY <1>3, <2>1, ErrorSafe
  <2>3. w' = s1
    BY <1>2, <2>2 DEF WriteAfterSize
  <2>4. QED
    BY <1>3, <2>2, <2>3 DEF IInv, Kept
<1>5. CASE outcome # "throws" /\ w.writer # Last(w.stack).writer
  <2>1. w' = s
    BY <1>2, <1>5
  <2>2. QED
    BY <1>3, <2>1 DEF IInv, Kept
<1>6. CASE outcome # "throws" /\ w.writer = Last(w.stack).writer
  <2>1. w' = WriteAfterSize(s, valid) /\ valid \in BOOLEAN /\ s.writer # 0
    BY <1>2, <1>3, <1>6
  <2>2. Safe(w') /\ (s.state # "writable" => w' = s)
    BY <1>3, <2>1, WriteSafe
  <2>3. QED
    BY <1>3, <2>2 DEF IInv, Kept
<1>7. QED
  BY <1>4, <1>5, <1>6

\* The listeners of the signal return to abort().
LEMMA SignalStep ==
    ASSUME IInv, SignalReturns
    PROVE  IInv' /\ Kept(w, w')
<1> DEFINE s == [w EXCEPT !.stack = Front(@)]
<1>1. /\ Safe(w) /\ w.stack # <<>> /\ Last(w.stack).callback \notin SinkCallback
      /\ w' = AbortAfterSignal(s)
  BY DEF IInv, SignalReturns, SinkCallback
<1>2. Safe(s) /\ CallsOf(s) = CallsOf(w)
  BY <1>1, ScriptReturned
<1> HIDE DEF s
<1>3. Safe(w') /\ CallsOf(w') \subseteq CallsOf(s) \cup {"abort"}
  BY <1>1, <1>2, AbortSafe
<1>4. QED
  BY <1>2, <1>3 DEF IInv, Kept

\* A function of the sink returns its promise.  Nothing calls the algorithms
\* after close() or abort().
LEMMA SinkStep ==
    ASSUME IInv, SinkReturns
    PROVE  IInv' /\ Kept(w, w')
<1> DEFINE callback == Last(w.stack).callback
           t == w'
<1>1. /\ w \in Shape /\ Sound(w) /\ Parked(w) /\ w.stack \in Seq(Frames) /\ w.stack # <<>>
      /\ callback \in SinkCallback /\ OneAtATime(w)
  BY DEF IInv, Safe, Sound, Shape, SinkReturns
<1>2. w' = IF callback = "write"
           THEN [w EXCEPT !.stack = Front(@), !.sink = @ \cup {callback}]
           ELSE [[w EXCEPT !.stack = Front(@), !.sink = @ \cup {callback}] EXCEPT !.algorithms = FALSE]
  BY DEF SinkReturns, clear_algorithms
<1>3. Front(w.stack) \in Seq(Frames) /\ w.sink \cup {callback} \in SUBSET (SinkCallback \cup {"start"})
  BY <1>1, FrontOf DEF Shape
<1> HIDE DEF callback
<1>4. t \in Shape /\ t.stack = Front(w.stack) /\ t.sink = w.sink \cup {callback}
  BY <1>1, <1>2, <1>3 DEF Shape
<1>5. Same(t, w, {"stack", "sink", "algorithms"}) /\ (callback = "write" => t.algorithms = w.algorithms)
  <2>1. CASE callback = "write"
    BY <1>1, <1>2, <1>4, <2>1 DEF Same, Shape, Fields
  <2>2. CASE callback # "write"
    BY <1>1, <1>2, <1>4, <2>2 DEF Same, Shape, Fields
  <2>3. QED
    BY <2>1, <2>2
<1> HIDE DEF t
<1>6. /\ SinkFrames(t) = {} /\ CallsOf(t) = CallsOf(w) /\ t.sink = {callback}
      /\ SizeFrames(t) = SizeFrames(w) /\ \A i \in SizeFrames(t) : t.stack[i] = w.stack[i]
  BY <1>1, <1>4, SinkPopped DEF callback
<1>7. callback \in CallsOf(w)
  BY <1>6 DEF CallsOf
<1>8. Bounded(t)
  BY <1>1, <1>5, <1>6 DEF Same, Fields, Sound, Bounded
<1>9. OneAtATime(t)
  BY <1>1, <1>5, <1>6 DEF Same, Fields, OneAtATime
<1>10. Asserted(t)
  <2>1. callback # "write" => w.in_flight_close_request \/ w.state = "errored"
    BY <1>1, <1>7 DEF OneAtATime, SinkCallback
  <2>2. QED
    BY <1>1, <1>5, <2>1 DEF Same, Fields, Sound, Asserted
<1>11. Told(t) /\ ErrorTold(t)
  BY <1>1, <1>5, <1>6 DEF Same, Fields, Sound, Told, ErrorTold, writable_stream_close_queued_or_in_flight
<1>12. Matched(t)
  BY <1>1, <1>5, SameMatched DEF Same, Fields, Apart, Sound
<1>13. Parked(t)
  BY <1>1, <1>5 DEF Same, Fields, Parked, writable_stream_has_operation_marked_in_flight
<1>14. Safe(t)
  BY <1>4, <1>8, <1>9, <1>10, <1>11, <1>12, <1>13 DEF Safe, Sound
<1>15. QED
  BY <1>6, <1>14 DEF IInv, Kept, t

----------------------------------------------------------------------------
(***************************************************************************)
(* The reactions to the promises of the sink.                              *)
(***************************************************************************)

\* When a call of the sink is over, the sink does nothing.
LEMMA SinkDone ==
    ASSUME IInv, NEW call, Settled(call), NEW t, t.stack = w.stack, t.sink = w.sink \ {call}
    PROVE  /\ CallsOf(w) = {call} /\ CallsOf(t) = {} /\ SinkFrames(t) = {} /\ t.sink = {}
           /\ SizeFrames(t) = SizeFrames(w)
<1>1. w.stack = <<>> /\ call \in w.sink /\ OneAtATime(w)
  BY DEF Settled, IInv, Safe, Sound
<1>2. SinkFrames(w) = {} /\ SinkFrames(t) = {} /\ SizeFrames(t) = SizeFrames(w)
  BY <1>1 DEF SinkFrames, SizeFrames
<1>3. w.sink = {call}
  BY <1>1 DEF OneAtATime
<1>4. QED
  BY <1>2, <1>3 DEF CallsOf

\* start() is over.
LEMMA Started ==
    ASSUME IInv, Settled("start"), NEW s, s = [CheckOpen(Done("start")) EXCEPT !.started = TRUE]
    PROVE  /\ Same(s, w, {"sink", "started"}) /\ s.started /\ CallsOf(w) = {"start"}
           /\ CallsOf(s) = {} /\ Sound(s) /\ w.state \in {"writable", "erroring"}
           /\ ~s.in_flight_close_request /\ s.in_flight_write_request = 0
<1> DEFINE d == [w EXCEPT !.sink = @ \ {"start"}]
<1>1. /\ w \in Shape /\ Sound(w) /\ OneAtATime(w) /\ Asserted(w) /\ Matched(w)
  BY DEF IInv, Safe, Sound
<1>2. /\ Same(d, w, {"sink"}) /\ d.sink = w.sink \ {"start"}
  BY <1>1 DEF Same, Shape, Fields
<1>3. d.stack = w.stack
  BY <1>2 DEF Same, Fields
<1>4. Done("start") = d
  BY DEF Done
<1> HIDE DEF d
<1>5. CallsOf(w) = {"start"}
  BY <1>2, <1>3, SinkDone
<1>6. /\ ~w.started /\ w.in_flight_write_request = 0 /\ ~w.in_flight_close_request
      /\ w.state \in {"writable", "erroring"}
  BY <1>1, <1>5 DEF Shape, OneAtATime, Asserted
<1>7. d.state \in {"writable", "erroring"} /\ d \in Shape /\ ~d.failed
  BY <1>1, <1>2, <1>6 DEF Same, Fields, Asserted
<1>8. CheckOpen(d) = d
  BY <1>7, Verified DEF CheckOpen
<1>9. s = [d EXCEPT !.started = TRUE]
  BY <1>4, <1>8
<1>10. s \in Shape /\ s.started /\ s.sink = d.sink
  BY <1>7, <1>9 DEF Shape
<1>11. Same(s, d, {"started"})
  BY <1>7, <1>9, <1>10 DEF Same, Shape, Fields
<1>12. Same(s, w, {"sink", "started"}) /\ s.sink = w.sink \ {"start"} /\ s.stack = w.stack
  BY <1>2, <1>10, <1>11 DEF Same, Fields
<1>13. CallsOf(s) = {} /\ SinkFrames(s) = {} /\ s.sink = {} /\ SizeFrames(s) = SizeFrames(w)
  BY <1>12, SinkDone
<1>14. Bounded(s) /\ Told(s) /\ ErrorTold(s)
  BY <1>1, <1>6, <1>12, <1>13 DEF Same, Fields, Sound, Bounded, Told, ErrorTold,
                                  writable_stream_close_queued_or_in_flight
<1>15. OneAtATime(s)
  BY <1>6, <1>10, <1>12, <1>13 DEF Same, Fields, OneAtATime
<1>16. Asserted(s)
  BY <1>1, <1>6, <1>12 DEF Same, Fields, Asserted
<1>17. Matched(s)
  <2>1. Same(s, w, Apart) /\ s.promises = w.promises
    BY <1>12 DEF Same, Fields, Apart
  <2>2. QED
    BY <1>1, <2>1, SameMatched, Zenon
<1>18. QED
  BY <1>5, <1>6, <1>10, <1>12, <1>13, <1>14, <1>15, <1>16, <1>17 DEF Sound, Same, Fields

\* A state in which nothing is in flight and the writes are known to be in
\* order may fail.
LEMMA IdleFails ==
    ASSUME NEW s, s \in Shape, Bounded(s), OneAtATime(s), Ordered(s), ~s.failed, s.started,
           s.in_flight_write_request = 0, ~s.in_flight_close_request,
           s.state \in {"writable", "erroring"}, s.stored_error <=> s.state = "erroring",
           s.pending_abort_request = "abort" => s.state = "erroring" /\ s.algorithms,
           s.writer # 0 => s.closed = "pending" /\ (s.state = "erroring" => s.ready = "rejected"),
           NEW t, t = writable_stream_deal_with_rejection(s)
    PROVE  Safe(t) /\ CallsOf(t) \subseteq CallsOf(s) \cup {"abort"}
<1>1. ASSUME s.state = "writable" PROVE Failing(s)
  BY <1>1 DEF Failing, writable_stream_has_operation_marked_in_flight
<1>2. ASSUME s.state # "writable" PROVE Erring(s)
  BY <1>2 DEF Erring, writable_stream_has_operation_marked_in_flight
<1>3. QED
  BY <1>1, <1>2, DealSafe

\* The reactions to start().
LEMMA StartSteps ==
    ASSUME IInv, StartFulfilled \/ StartRejected
    PROVE  IInv' /\ Kept(w, w')
<1> DEFINE s == [CheckOpen(Done("start")) EXCEPT !.started = TRUE]
<1>1. Settled("start")
  BY DEF StartFulfilled, StartRejected
<1>2. \/ w' = advance_queue_if_needed(s)
      \/ w' = writable_stream_deal_with_rejection(s)
  BY DEF StartFulfilled, StartRejected
<1>3. /\ Same(s, w, {"sink", "started"}) /\ s.started /\ CallsOf(w) = {"start"}
      /\ CallsOf(s) = {} /\ Sound(s) /\ w.state \in {"writable", "erroring"}
      /\ ~s.in_flight_close_request /\ s.in_flight_write_request = 0
  BY <1>1, Started
<1> HIDE DEF s
<1>4. s.state = w.state
  BY <1>3 DEF Same, Fields
<1>5. CASE w' = advance_queue_if_needed(s)
  <2>1. Safe(w') /\ (s.state # "writable" => CallsOf(w') \subseteq CallsOf(s) \cup {"abort"})
    BY <1>3, <1>4, <1>5, AdvanceSafe
  <2>2. QED
    BY <1>3, <1>4, <2>1 DEF IInv, Kept
<1>6. CASE w' = writable_stream_deal_with_rejection(s)
  <2>1. s \in Shape /\ Bounded(s) /\ OneAtATime(s) /\ Asserted(s) /\ Matched(s) /\ Told(s)
    BY <1>3 DEF Sound
  <2>2. Ordered(s)
    BY <1>3, <1>4, <2>1, PromisedOrdered DEF Matched
  <2>3. /\ ~s.failed /\ (s.stored_error <=> s.state = "erroring")
        /\ s.pending_abort_request = "abort" => s.state = "erroring" /\ s.algorithms
    BY <1>3, <1>4, <2>1 DEF Asserted
  <2>4. s.writer # 0 => s.closed = "pending" /\ (s.state = "erroring" => s.ready = "rejected")
    BY <1>3, <1>4, <2>1 DEF Told
  <2>5. Safe(w') /\ CallsOf(w') \subseteq CallsOf(s) \cup {"abort"}
    BY <1>3, <1>4, <1>6, <2>1, <2>2, <2>3, <2>4, IdleFails
  <2>6. QED
    BY <1>3, <2>5 DEF IInv, Kept
<1>7. QED
  BY <1>2, <1>5, <1>6

\* What holds once the promise of the write in flight is settled.
WriteAnswered(s, outcome) ==
    /\ Same(s, w, {"sink", "algorithms", "promises", "in_flight_write_request"})
    /\ s.in_flight_write_request = 0 /\ ~s.in_flight_close_request /\ s.started
    /\ s.state \in {"writable", "erroring"}
    /\ Bounded(s) /\ OneAtATime(s) /\ ~s.failed /\ CallsOf(s) = {}
    /\ CallsOf(w) = {"write"} /\ CheckOpen(s) = s
    /\ w.in_flight_write_request # 0 /\ Lined(w) /\ Promised(w)
    /\ w.in_flight_write_request \in 1 .. w.writes
    /\ \A i \in 1 .. w.writes :
          s.promises[i] = IF i = w.in_flight_write_request THEN outcome ELSE w.promises[i]

\* The write in flight is over: its promise is settled and nothing is in flight.
LEMMA WriteOver ==
    ASSUME IInv, Settled("write"), NEW d, Same(d, w, {"sink", "algorithms"}),
           d.sink = w.sink \ {"write"}, NEW outcome \in {"fulfilled", "rejected"}, NEW s,
           s = [Settle(Verify(d, d.in_flight_write_request # 0), d.in_flight_write_request, outcome)
                  EXCEPT !.in_flight_write_request = 0]
    PROVE  WriteAnswered(s, outcome) /\ s.algorithms = d.algorithms
<1> DEFINE n == w.in_flight_write_request
           u == Settle(d, n, outcome)
<1>1. w \in Shape /\ Sound(w) /\ OneAtATime(w) /\ Asserted(w) /\ Matched(w) /\ Bounded(w)
  BY DEF IInv, Safe, Sound
<1>2. d.stack = w.stack /\ d \in Shape /\ d.failed = w.failed /\ d.in_flight_write_request = n
      /\ d.promises = w.promises
  BY DEF Same, Fields
<1>3. CallsOf(w) = {"write"}
  BY <1>2, SinkDone
<1>4. /\ w.started /\ n # 0 /\ ~w.in_flight_close_request /\ ~w.failed
      /\ w.state \in {"writable", "erroring"} /\ Lined(w) /\ Promised(w)
  BY <1>1, <1>3 DEF Shape, OneAtATime, Asserted, Matched
<1>5. n \in 1 .. w.writes /\ w.promises[n] = "pending" /\ n \in Requests
  <2>1. /\ w.writes \in Nat /\ Len(w.write_requests) \in Nat /\ n \in Nat
        /\ InFlight(w) = 1 /\ Over(w) = w.writes - Len(w.write_requests) - InFlight(w)
    BY <1>1, <1>4, Counts
  <2>2. n = w.writes - Len(w.write_requests) /\ Over(w) >= 0
    BY <1>4 DEF Lined
  <2>3. n \in 1 .. w.writes /\ ~(n <= Over(w))
    BY <2>1, <2>2
  <2>4. QED
    BY <1>1, <1>4, <2>3, WritesBounded DEF Promised
<1>6. Verify(d, d.in_flight_write_request # 0) = d
  BY <1>2, <1>4, Verified
<1>7. s = [u EXCEPT !.in_flight_write_request = 0]
  BY <1>2, <1>6
<1>8. outcome \in PromiseState
  BY DEF PromiseState
<1>9. /\ Same(u, d, {"promises"})
      /\ \A i \in Requests : i # n => u.promises[i] = d.promises[i]
      /\ u.promises[n] = outcome
  BY <1>2, <1>5, <1>8, SettleFields
<1> HIDE DEF u, n
<1>10. s \in Shape /\ s.in_flight_write_request = 0
  <2>1. u \in Shape /\ 0 \in Nat
    BY <1>9 DEF Same
  <2>2. QED
    BY <1>7, <2>1, ZenonT(40) DEF Shape
<1>11. Same(s, u, {"in_flight_write_request"})
  BY <1>7, <1>9, <1>10 DEF Same, Shape, Fields
<1>12. /\ Same(s, w, {"sink", "algorithms", "promises", "in_flight_write_request"})
       /\ s.algorithms = d.algorithms /\ s.sink = w.sink \ {"write"} /\ s.stack = w.stack
       /\ s.promises = u.promises
  BY <1>9, <1>10, <1>11 DEF Same, Fields
<1>13. /\ CallsOf(s) = {} /\ SinkFrames(s) = {} /\ s.sink = {} /\ SizeFrames(s) = SizeFrames(w)
  BY <1>12, SinkDone
<1>14. /\ ~s.in_flight_close_request /\ s.started /\ s.state \in {"writable", "erroring"}
       /\ ~s.failed
  BY <1>4, <1>12 DEF Same, Fields
<1>15. Bounded(s)
  BY <1>1, <1>12, <1>13 DEF Same, Fields, Bounded
<1>16. OneAtATime(s)
  BY <1>10, <1>13, <1>14 DEF OneAtATime
<1>17. CheckOpen(s) = s
  BY <1>10, <1>14, Verified DEF CheckOpen
<1>18. \A i \in 1 .. w.writes : s.promises[i] = IF i = n THEN outcome ELSE w.promises[i]
  BY <1>1, <1>2, <1>9, <1>12, WritesBounded
<1>19. QED
  BY <1>3, <1>4, <1>5, <1>10, <1>12, <1>13, <1>14, <1>15, <1>16, <1>17, <1>18 DEF n, WriteAnswered

\* A write succeeds: its chunk leaves the queue, and the next one goes to the
\* sink unless the stream is in error.
LEMMA WriteFulfilledStep ==
    ASSUME IInv, WriteFulfilled
    PROVE  IInv' /\ Kept(w, w') /\ (w.state # "writable" => w'.in_flight_write_request = 0)
<1> DEFINE d == [w EXCEPT !.sink = @ \ {"write"}]
           n == w.in_flight_write_request
           s == [Settle(Verify(d, d.in_flight_write_request # 0), d.in_flight_write_request,
                        "fulfilled") EXCEPT !.in_flight_write_request = 0]
           t == [s EXCEPT !.queue = Tail(@)]
           v == UpdateBackpressureIfOpen(t)
<1>1. /\ Settled("write") /\ w \in Shape /\ Sound(w)
      /\ w' = advance_queue_if_needed(UpdateBackpressureIfOpen(dequeue_value(CheckOpen(s))))
  BY DEF WriteFulfilled, IInv, Safe, Sound, Done, writable_stream_finish_in_flight_write
<1>2. Same(d, w, {"sink"}) /\ d.sink = w.sink \ {"write"}
  BY <1>1 DEF Same, Shape, Fields
<1>3. Same(d, w, {"sink", "algorithms"}) /\ d.algorithms = w.algorithms
  BY <1>2 DEF Same, Fields
<1> HIDE DEF d
<1>0. /\ "fulfilled" \in {"fulfilled", "rejected"}
      /\ s = [Settle(Verify(d, d.in_flight_write_request # 0), d.in_flight_write_request,
                     "fulfilled") EXCEPT !.in_flight_write_request = 0]
  OBVIOUS
<1> HIDE DEF s
<1>4. /\ Same(s, w, {"sink", "algorithms", "promises", "in_flight_write_request"})
      /\ s.algorithms = d.algorithms
      /\ s.in_flight_write_request = 0 /\ ~s.in_flight_close_request /\ s.started
      /\ s.state \in {"writable", "erroring"}
      /\ Bounded(s) /\ OneAtATime(s) /\ ~s.failed /\ CallsOf(s) = {}
      /\ CallsOf(w) = {"write"} /\ CheckOpen(s) = s
      /\ w.in_flight_write_request # 0 /\ Lined(w) /\ Promised(w)
      /\ w.in_flight_write_request \in 1 .. w.writes
      /\ \A i \in 1 .. w.writes :
            s.promises[i] = IF i = w.in_flight_write_request THEN "fulfilled" ELSE w.promises[i]
  <2>1. WriteAnswered(s, "fulfilled") /\ s.algorithms = d.algorithms
    BY <1>0, <1>1, <1>2, <1>3, WriteOver, Zenon
  <2>2. QED
    BY <2>1, Zenon DEF WriteAnswered
<1>5. /\ w.writes \in Nat /\ Len(w.write_requests) \in Nat /\ Len(w.queue) \in Nat
      /\ InFlight(w) = 1 /\ Sentinel(w) \in {0, 1} /\ w.queue \in Seq(Nat)
      /\ Over(w) = w.writes - Len(w.write_requests) - 1
  BY <1>1, <1>4, Counts
<1>6. /\ Over(w) >= 0 /\ Len(w.queue) >= 1 + Sentinel(w)
      /\ Len(w.queue) <= Len(w.write_requests) + 1 + Sentinel(w)
      /\ \A i \in DOMAIN w.queue : i <= Len(w.queue) - Sentinel(w) => w.queue[i] = Over(w) + i
      /\ n = w.writes - Len(w.write_requests)
  BY <1>4, <1>5 DEF Lined
<1>7. w.queue # <<>> /\ s.queue = w.queue /\ s \in Shape
  BY <1>4, <1>5, <1>6 DEF Same, Fields
<1>8. Verify(s, s.queue # <<>>) = s
  BY <1>4, <1>7, Verified
<1>9. dequeue_value(s) = t
  BY <1>8 DEF dequeue_value
<1>10. /\ Tail(w.queue) \in Seq(Nat) /\ Len(Tail(w.queue)) = Len(w.queue) - 1
       /\ DOMAIN w.queue = 1 .. Len(w.queue) /\ DOMAIN Tail(w.queue) = 1 .. Len(w.queue) - 1
       /\ \A i \in 1 .. Len(w.queue) - 1 : Tail(w.queue)[i] = w.queue[i + 1]
  BY <1>5, <1>7, Shortened
<1>11. t \in Shape /\ t.queue = Tail(w.queue)
  BY <1>7, <1>10 DEF Shape
<1>12. Same(t, s, {"queue"})
  BY <1>7, <1>11 DEF Same, Shape, Fields
<1> HIDE DEF t
<1>13. /\ Same(t, w, {"sink", "algorithms", "promises", "in_flight_write_request", "queue"})
       /\ t.algorithms = w.algorithms /\ t.in_flight_write_request = 0
       /\ ~t.in_flight_close_request /\ t.started /\ t.state \in {"writable", "erroring"}
       /\ t.promises = s.promises /\ ~t.failed
  BY <1>3, <1>4, <1>11, <1>12 DEF Same, Fields
<1>14. SinkFrames(t) = SinkFrames(s) /\ SizeFrames(t) = SizeFrames(s) /\ CallsOf(t) = {}
  BY <1>4, <1>12 DEF Same, Fields, SinkFrames, SizeFrames, CallsOf
<1>15. Bounded(t) /\ OneAtATime(t)
  BY <1>4, <1>12, <1>14 DEF Same, Fields, Bounded, OneAtATime
<1>16. Asserted(t)
  BY <1>1, <1>4, <1>13 DEF Same, Fields, Sound, Asserted
<1>17. Told(t) /\ ErrorTold(t)
  BY <1>1, <1>13 DEF Same, Fields, Sound, Told, ErrorTold, writable_stream_close_queued_or_in_flight
<1>18. /\ t.writes = w.writes /\ t.write_requests = w.write_requests /\ t.state = w.state
       /\ t.close_request = w.close_request
  BY <1>13 DEF Same, Fields
<1>19. InFlight(t) = 0 /\ Sentinel(t) = Sentinel(w) /\ Over(t) = Over(w) + 1
  BY <1>5, <1>13, <1>18 DEF InFlight, Sentinel, Over
<1>20. Lined(t)
  <2>1. \A i \in DOMAIN t.queue : i <= Len(t.queue) - Sentinel(t) => t.queue[i] = Over(t) + i
    <3>1. SUFFICES ASSUME NEW i \in 1 .. Len(w.queue) - 1, i <= Len(t.queue) - Sentinel(t)
                   PROVE  t.queue[i] = Over(t) + i
      BY <1>10, <1>11
    <3>2. Len(t.queue) = Len(w.queue) - 1 /\ t.queue[i] = w.queue[i + 1]
      BY <1>10, <1>11
    <3>3. i + 1 \in DOMAIN w.queue /\ i + 1 <= Len(w.queue) - Sentinel(w)
      BY <1>5, <1>10, <1>19, <3>1, <3>2
    <3>4. w.queue[i + 1] = Over(w) + (i + 1) /\ Over(w) \in Int
      BY <1>5, <1>6, <3>3
    <3>5. QED
      BY <1>19, <3>2, <3>4
  <2>2. t.close_request => t.queue[Len(t.queue)] = Close
    <3>1. SUFFICES ASSUME t.close_request PROVE t.queue[Len(t.queue)] = Close
      OBVIOUS
    <3>2. w.close_request /\ Sentinel(w) = 1 /\ w.queue[Len(w.queue)] = Close
      BY <1>4, <1>18, <3>1 DEF Lined, Sentinel
    <3>3. Len(w.queue) >= 2
      BY <1>5, <1>6, <3>2
    <3>4. Len(w.queue) - 1 \in 1 .. Len(w.queue) - 1 /\ (Len(w.queue) - 1) + 1 = Len(w.queue)
      BY <1>5, <3>3
    <3>5. QED
      BY <1>10, <1>11, <3>2, <3>4
  <2>3. /\ Over(t) >= 0 /\ Len(t.queue) >= InFlight(t) + Sentinel(t)
        /\ Len(t.queue) <= Len(t.write_requests) + InFlight(t) + Sentinel(t)
    BY <1>5, <1>6, <1>10, <1>11, <1>18, <1>19, SMTT(30)
  <2>4. \A i \in DOMAIN t.write_requests :
           t.write_requests[i] = t.writes - Len(t.write_requests) + i
    BY <1>4, <1>18 DEF Lined
  <2>5. QED
    BY <1>13, <2>1, <2>2, <2>3, <2>4 DEF Lined
<1>21. Promised(t)
  <2>1. SUFFICES ASSUME NEW i \in 1 .. w.writes
                 PROVE  t.promises[i] = IF i <= Over(w) + 1 THEN "fulfilled" ELSE "pending"
    BY <1>18, <1>19 DEF Promised
  <2>2. w.promises[i] = IF i <= Over(w) THEN "fulfilled" ELSE "pending"
    BY <1>4 DEF Promised
  <2>3. n = Over(w) + 1 /\ t.promises[i] = IF i = n THEN "fulfilled" ELSE w.promises[i]
    BY <1>4, <1>5, <1>6, <1>13
  <2>4. QED
    BY <1>5, <2>2, <2>3
<1>22. t.state # "erroring" => Len(t.queue) = Len(t.write_requests) + InFlight(t) + Sentinel(t)
  BY <1>1, <1>4, <1>5, <1>10, <1>11, <1>13, <1>18, <1>19 DEF Sound, Matched
<1>23. Sound(t)
  BY <1>11, <1>13, <1>15, <1>16, <1>17, <1>20, <1>21, <1>22 DEF Sound, Matched
<1>24. Sound(v) /\ Same(v, t, {"backpressure", "ready"}) /\ CallsOf(v) = {}
  BY <1>14, <1>23, BackpressureSafe
<1>25. w' = advance_queue_if_needed(v)
  BY <1>1, <1>4, <1>9
<1> HIDE DEF v
<1>26. v.state = w.state /\ v.state \in {"writable", "erroring"} /\ ~v.in_flight_close_request
  BY <1>13, <1>18, <1>24 DEF Same, Fields
<1>27. Safe(w') /\ (v.state # "writable" => CallsOf(w') \subseteq CallsOf(v) \cup {"abort"})
  BY <1>24, <1>25, <1>26, AdvanceSafe
<1>28. w.state # "writable" => w'.in_flight_write_request = 0
  BY <1>24, <1>26, <1>27 DEF Safe, Sound, OneAtATime
<1>29. QED
  BY <1>24, <1>26, <1>27, <1>28 DEF IInv, Kept

\* A write fails, and with it the stream.
LEMMA WriteRejectedStep ==
    ASSUME IInv, WriteRejected
    PROVE  IInv' /\ Kept(w, w') /\ (w.state # "writable" => w'.in_flight_write_request = 0)
<1> DEFINE d == IF w.state = "writable" THEN [w EXCEPT !.sink = @ \ {"write"}, !.algorithms = FALSE]
                ELSE [w EXCEPT !.sink = @ \ {"write"}]
           s == [Settle(Verify(d, d.in_flight_write_request # 0), d.in_flight_write_request,
                        "rejected") EXCEPT !.in_flight_write_request = 0]
<1>1. Settled("write") /\ w \in Shape /\ Sound(w)
  BY DEF WriteRejected, IInv, Safe, Sound
<1>2. (IF Done("write").state = "writable" THEN clear_algorithms(Done("write")) ELSE Done("write")) = d
  BY <1>1 DEF Done, clear_algorithms, Shape
<1>3. w' = writable_stream_finish_in_flight_write_with_error(d)
  BY <1>2, Zenon DEF WriteRejected
<1>4. w' = writable_stream_deal_with_rejection(CheckOpen(s))
  BY <1>3 DEF writable_stream_finish_in_flight_write_with_error
<1>5. /\ Same(d, w, {"sink", "algorithms"}) /\ d.sink = w.sink \ {"write"}
      /\ w.state = "erroring" => d.algorithms = w.algorithms
  BY <1>1 DEF Same, Shape, Fields
<1> HIDE DEF d
<1>0. /\ "rejected" \in {"fulfilled", "rejected"}
      /\ s = [Settle(Verify(d, d.in_flight_write_request # 0), d.in_flight_write_request,
                     "rejected") EXCEPT !.in_flight_write_request = 0]
  OBVIOUS
<1> HIDE DEF s
<1>6. /\ Same(s, w, {"sink", "algorithms", "promises", "in_flight_write_request"})
      /\ s.algorithms = d.algorithms
      /\ s.in_flight_write_request = 0 /\ ~s.in_flight_close_request /\ s.started
      /\ s.state \in {"writable", "erroring"}
      /\ Bounded(s) /\ OneAtATime(s) /\ ~s.failed /\ CallsOf(s) = {}
      /\ CallsOf(w) = {"write"} /\ CheckOpen(s) = s
      /\ w.in_flight_write_request # 0 /\ Lined(w) /\ Promised(w)
      /\ w.in_flight_write_request \in 1 .. w.writes
      /\ \A i \in 1 .. w.writes :
            s.promises[i] = IF i = w.in_flight_write_request THEN "rejected" ELSE w.promises[i]
  <2>1. WriteAnswered(s, "rejected") /\ s.algorithms = d.algorithms
    BY <1>0, <1>1, <1>5, WriteOver, Zenon
  <2>2. QED
    BY <2>1, Zenon DEF WriteAnswered
<1>7. /\ s \in Shape /\ s.writes = w.writes /\ s.write_requests = w.write_requests
      /\ s.state = w.state
  BY <1>6 DEF Same, Fields
<1>8. Ordered(s)
  <2>1. Ordered(w) /\ Over(w) \in Nat
    BY <1>1, <1>6, PromisedOrdered
  <2>2. \A j \in 1 .. w.writes : s.promises[j] = "fulfilled" => w.promises[j] = "fulfilled"
    BY <1>6
  <2>3. \A i, j \in 1 .. w.writes :
           i < j /\ s.promises[j] = "fulfilled" => s.promises[i] = "fulfilled"
    <3>1. SUFFICES ASSUME NEW i \in 1 .. w.writes, NEW j \in 1 .. w.writes, i < j,
                          s.promises[j] = "fulfilled"
                   PROVE  s.promises[i] = "fulfilled"
      OBVIOUS
    <3>2. /\ w.writes \in Nat /\ Len(w.write_requests) \in Nat /\ InFlight(w) = 1
          /\ Over(w) = w.writes - Len(w.write_requests) - InFlight(w)
      BY <1>1, <1>6, Counts
    <3>3. w.in_flight_write_request = Over(w) + 1
      BY <1>6, <3>2 DEF Lined
    <3>4. w.promises[j] = "fulfilled" /\ j <= Over(w)
      BY <1>6, <2>2, <3>1 DEF Promised
    <3>5. i <= Over(w) /\ i # w.in_flight_write_request
      BY <2>1, <3>1, <3>2, <3>3, <3>4
    <3>6. QED
      BY <1>6, <3>5 DEF Promised
  <2>4. QED
    BY <1>7, <2>1, <2>2, <2>3 DEF Ordered
<1>9. /\ s.stored_error <=> s.state = "erroring"
      /\ s.pending_abort_request = "abort" => s.state = "erroring" /\ s.algorithms
  BY <1>1, <1>5, <1>6 DEF Same, Fields, Sound, Asserted
<1>10. s.writer # 0 => s.closed = "pending" /\ (s.state = "erroring" => s.ready = "rejected")
  BY <1>1, <1>6 DEF Same, Fields, Sound, Told
<1>11. w' = writable_stream_deal_with_rejection(s)
  BY <1>4, <1>6
<1>12. Safe(w') /\ CallsOf(w') \subseteq CallsOf(s) \cup {"abort"}
  BY <1>6, <1>7, <1>8, <1>9, <1>10, <1>11, IdleFails
<1>13. w'.in_flight_write_request = 0
  BY <1>6, <1>12 DEF Safe, Sound, OneAtATime
<1>14. QED
  BY <1>6, <1>12, <1>13 DEF IInv, Kept

\* The close in flight is over: its promise is settled.
LEMMA CloseOver ==
    ASSUME IInv, Settled("close"), NEW outcome \in {"fulfilled", "rejected"}, NEW s,
           s = Settle(CheckOpen(Verify(Done("close"), Done("close").in_flight_close_request)),
                      Close, outcome)
    PROVE  /\ Same(s, w, {"sink", "promises"}) /\ s.sink = w.sink \ {"close"}
           /\ CallsOf(w) = {"close"} /\ w.state \in {"writable", "erroring"} /\ w.started
           /\ w.in_flight_close_request /\ w.in_flight_write_request = 0
           /\ Lined(w) /\ Promised(w)
           /\ \A i \in 1 .. w.writes : s.promises[i] = w.promises[i]
<1> DEFINE d == [w EXCEPT !.sink = @ \ {"close"}]
<1>1. /\ w \in Shape /\ Sound(w) /\ OneAtATime(w) /\ Asserted(w) /\ Matched(w) /\ Bounded(w)
  BY DEF IInv, Safe, Sound
<1>2. /\ Same(d, w, {"sink"}) /\ d.sink = w.sink \ {"close"}
  BY <1>1 DEF Same, Shape, Fields
<1>3. s = Settle(CheckOpen(Verify(d, d.in_flight_close_request)), Close, outcome)
  BY DEF Done
<1> HIDE DEF d
<1>4. d \in Shape /\ d.stack = w.stack
  BY <1>2 DEF Same, Fields
<1>5. CallsOf(w) = {"close"}
  BY <1>2, <1>4, SinkDone
<1>6. /\ w.started /\ w.in_flight_write_request = 0 /\ w.in_flight_close_request /\ ~w.failed
      /\ w.state \in {"writable", "erroring"} /\ Lined(w) /\ Promised(w)
  BY <1>1, <1>5 DEF Shape, OneAtATime, Asserted, Matched
<1>7. d.in_flight_close_request /\ d.state \in {"writable", "erroring"} /\ ~d.failed
  BY <1>2, <1>6 DEF Same, Fields
<1>8. Verify(d, d.in_flight_close_request) = d
  <2>1. d.in_flight_close_request \in BOOLEAN
    BY <1>4 DEF Shape
  <2>2. QED
    BY <1>4, <1>7, <2>1, Verified
<1>9. CheckOpen(d) = d
  BY <1>4, <1>7, Verified DEF CheckOpen
<1>10. Close \in Requests /\ outcome \in PromiseState /\ s = Settle(d, Close, outcome)
  BY <1>3, <1>8, <1>9, StreamBounds DEF Close, Requests, Abort, PromiseState
<1>11. /\ Same(s, d, {"promises"})
       /\ \A i \in Requests : i # Close => s.promises[i] = d.promises[i]
  BY <1>4, <1>10, SettleFields
<1>12. \A i \in 1 .. w.writes : s.promises[i] = w.promises[i]
  BY <1>1, <1>2, <1>11, WritesBounded DEF Same, Fields
<1>13. Same(s, w, {"sink", "promises"}) /\ s.sink = w.sink \ {"close"}
  BY <1>2, <1>11 DEF Same, Fields
<1>14. QED
  BY <1>5, <1>6, <1>12, <1>13

\* Settling the abort request leaves the promises of the writes alone.
LEMMA AbortSettles ==
    ASSUME NEW s \in Shape, Bounded(s), NEW outcome \in {"fulfilled", "rejected"}, NEW t,
           t = Settle(s, Abort, outcome)
    PROVE  Same(t, s, {"promises"}) /\ \A i \in 1 .. s.writes : t.promises[i] = s.promises[i]
<1>1. Abort \in Requests /\ outcome \in PromiseState
  BY StreamBounds DEF Abort, Requests, PromiseState
<1>2. Same(t, s, {"promises"}) /\ \A i \in Requests : i # Abort => t.promises[i] = s.promises[i]
  BY <1>1, SettleFields
<1>3. QED
  BY <1>2, WritesBounded

\* close() of the sink fails, and with it the stream.
LEMMA CloseRejectedStep ==
    ASSUME IInv, CloseRejected
    PROVE  IInv' /\ Kept(w, w')
<1> DEFINE s == Settle(CheckOpen(Verify(Done("close"), Done("close").in_flight_close_request)),
                       Close, "rejected")
           u == Settle(s, Abort, "rejected")
           t == [u EXCEPT !.in_flight_close_request = FALSE, !.pending_abort_request = "none"]
<1>1. Settled("close") /\ w' = writable_stream_deal_with_rejection(t)
  BY DEF CloseRejected, writable_stream_finish_in_flight_close_with_error
<1>2. w \in Shape /\ Sound(w) /\ Bounded(w)
  BY DEF IInv, Safe, Sound
<1>3. /\ Same(s, w, {"sink", "promises"}) /\ s.sink = w.sink \ {"close"}
      /\ CallsOf(w) = {"close"} /\ w.state \in {"writable", "erroring"} /\ w.started
      /\ w.in_flight_close_request /\ w.in_flight_write_request = 0
      /\ Lined(w) /\ Promised(w)
      /\ \A i \in 1 .. w.writes : s.promises[i] = w.promises[i]
  BY <1>1, CloseOver
<1> HIDE DEF s
<1>4. s \in Shape /\ s.writes = w.writes /\ s.stack = w.stack /\ SizeFrames(s) = SizeFrames(w)
  BY <1>3 DEF Same, Fields, SizeFrames
<1>5. Bounded(s)
  BY <1>2, <1>3, <1>4 DEF Same, Fields, Bounded
<1>6. Same(u, s, {"promises"}) /\ \A i \in 1 .. w.writes : u.promises[i] = w.promises[i]
  BY <1>3, <1>4, <1>5, AbortSettles
<1> HIDE DEF u
<1>7. /\ t \in Shape /\ ~t.in_flight_close_request /\ t.pending_abort_request = "none"
      /\ t.promises = u.promises
  BY <1>6 DEF Same, Shape
<1>8. Same(t, u, {"in_flight_close_request", "pending_abort_request"})
  BY <1>6, <1>7 DEF Same, Shape, Fields
<1> HIDE DEF t
<1>9. /\ Same(t, w, {"sink", "promises", "in_flight_close_request", "pending_abort_request"})
      /\ t.sink = w.sink \ {"close"} /\ t.stack = w.stack
  BY <1>3, <1>6, <1>7, <1>8 DEF Same, Fields
<1>10. CallsOf(t) = {} /\ SinkFrames(t) = {} /\ t.sink = {} /\ SizeFrames(t) = SizeFrames(w)
  BY <1>1, <1>9, SinkDone
<1>11. Bounded(t)
  BY <1>2, <1>9, <1>10 DEF Same, Fields, Bounded
<1>12. t.started /\ t.in_flight_write_request = 0 /\ t.state \in {"writable", "erroring"} /\ ~t.failed
  BY <1>2, <1>3, <1>9 DEF Same, Fields, Sound, Asserted
<1>13. OneAtATime(t)
  BY <1>7, <1>10, <1>12 DEF OneAtATime
<1>14. Ordered(t)
  <2>1. Ordered(w)
    BY <1>2, <1>3, PromisedOrdered
  <2>2. t.writes = w.writes /\ t.write_requests = w.write_requests
        /\ \A i \in 1 .. w.writes : t.promises[i] = w.promises[i]
    BY <1>6, <1>7, <1>9 DEF Same, Fields
  <2>3. QED
    BY <2>1, <2>2 DEF Ordered
<1>15. t.stored_error <=> t.state = "erroring"
  BY <1>2, <1>3, <1>9 DEF Same, Fields, Sound, Asserted
<1>16. t.writer # 0 => t.closed = "pending" /\ (t.state = "erroring" => t.ready = "rejected")
  BY <1>2, <1>3, <1>9 DEF Same, Fields, Sound, Told
<1>17. Safe(w') /\ CallsOf(w') \subseteq CallsOf(t) \cup {"abort"}
  BY <1>1, <1>7, <1>11, <1>12, <1>13, <1>14, <1>15, <1>16, IdleFails
<1>18. QED
  BY <1>10, <1>17 DEF IInv, Kept

\* abort() of the sink is over: the writer is told that the stream is in error.
LEMMA AbortStep ==
    ASSUME IInv, NEW outcome \in {"fulfilled", "rejected"}, AbortSettled(outcome)
    PROVE  IInv' /\ Kept(w, w')
<1> DEFINE d == [w EXCEPT !.sink = @ \ {"abort"}]
           s == Settle(d, Abort, outcome)
<1>1. Settled("abort") /\ w' = reject_close_and_closed_promise_if_needed(s)
  BY DEF AbortSettled, Done
<1>2. w \in Shape /\ Sound(w) /\ Bounded(w) /\ OneAtATime(w)
  BY DEF IInv, Safe, Sound
<1>3. Same(d, w, {"sink"}) /\ d.sink = w.sink \ {"abort"}
  BY <1>2 DEF Same, Shape, Fields
<1> HIDE DEF d
<1>4. d \in Shape /\ d.writes = w.writes /\ d.stack = w.stack /\ d.promises = w.promises
      /\ SizeFrames(d) = SizeFrames(w)
  BY <1>3 DEF Same, Fields, SizeFrames
<1>5. CallsOf(w) = {"abort"}
  BY <1>1, <1>3, <1>4, SinkDone
<1>6. w.state = "errored" /\ w.started /\ w.in_flight_write_request = 0 /\ ~w.in_flight_close_request
  BY <1>2, <1>5 DEF OneAtATime
<1>7. Bounded(d)
  BY <1>2, <1>3, <1>4 DEF Same, Fields, Bounded
<1>8. Same(s, d, {"promises"}) /\ \A i \in 1 .. w.writes : s.promises[i] = w.promises[i]
  BY <1>4, <1>7, AbortSettles
<1> HIDE DEF s
<1>9. /\ Same(s, w, {"sink", "promises"}) /\ s.sink = w.sink \ {"abort"} /\ s.stack = w.stack
      /\ s.state = "errored" /\ s.started /\ s.in_flight_write_request = 0
      /\ ~s.in_flight_close_request /\ s \in Shape
  BY <1>3, <1>6, <1>8 DEF Same, Fields
<1>10. CallsOf(s) = {} /\ SinkFrames(s) = {} /\ s.sink = {} /\ SizeFrames(s) = SizeFrames(w)
  BY <1>1, <1>9, SinkDone
<1>11. Bounded(s)
  BY <1>2, <1>9, <1>10 DEF Same, Fields, Bounded
<1>12. OneAtATime(s)
  BY <1>9, <1>10 DEF OneAtATime
<1>13. Asserted(s) /\ Told(s)
  BY <1>2, <1>9 DEF Same, Fields, Sound, Asserted, Told, writable_stream_close_queued_or_in_flight
<1>14. Matched(s)
  <2>1. Same(s, w, Apart)
    BY <1>9 DEF Same, Apart
  <2>2. QED
    BY <1>2, <1>8, <2>1, SameMatched DEF Sound
<1>15. Untold(s)
  BY <1>9, <1>11, <1>12, <1>13, <1>14 DEF Untold
<1>16. Safe(w') /\ CallsOf(w') = CallsOf(s)
  BY <1>1, <1>9, <1>15, RejectSafe
<1>17. QED
  BY <1>10, <1>16 DEF IInv, Kept

\* close() of the sink succeeds: the stream is closed, whatever went wrong since.
LEMMA CloseFulfilledStep ==
    ASSUME IInv, CloseFulfilled
    PROVE  IInv' /\ Kept(w, w')
<1> DEFINE s == Settle(CheckOpen(Verify(Done("close"), Done("close").in_flight_close_request)),
                       Close, "fulfilled")
           u == Settle(s, Abort, "fulfilled")
           v == IF s.state = "erroring"
                THEN [u EXCEPT !.stored_error = FALSE, !.pending_abort_request = "none"] ELSE s
           x == [v EXCEPT !.in_flight_close_request = FALSE, !.state = "closed"]
           t == IF x.writer # 0
                THEN [x EXCEPT !.closed = IF @ = "pending" THEN "fulfilled" ELSE @] ELSE x
<1>1. /\ Settled("close")
      /\ w' = Verify(t, t.pending_abort_request = "none" /\ ~t.stored_error)
  BY Zenon DEF CloseFulfilled, writable_stream_finish_in_flight_close, SettleClosed
<1>2. /\ w \in Shape /\ Sound(w) /\ Bounded(w) /\ Asserted(w) /\ Told(w)
  BY DEF IInv, Safe, Sound
<1>3. /\ Same(s, w, {"sink", "promises"}) /\ s.sink = w.sink \ {"close"}
      /\ CallsOf(w) = {"close"} /\ w.state \in {"writable", "erroring"} /\ w.started
      /\ w.in_flight_close_request /\ w.in_flight_write_request = 0
      /\ Lined(w) /\ Promised(w)
      /\ \A i \in 1 .. w.writes : s.promises[i] = w.promises[i]
  BY <1>1, CloseOver
<1> HIDE DEF s
<1>4. s \in Shape /\ s.writes = w.writes /\ s.stack = w.stack /\ SizeFrames(s) = SizeFrames(w)
  BY <1>3 DEF Same, Fields, SizeFrames
<1>5. Bounded(s)
  BY <1>2, <1>3, <1>4 DEF Same, Fields, Bounded
<1>6. Same(u, s, {"promises"}) /\ \A i \in 1 .. w.writes : u.promises[i] = w.promises[i]
  BY <1>3, <1>4, <1>5, AbortSettles
<1> HIDE DEF u
<1>7. /\ s.state = w.state /\ ~w.close_request
      /\ w.state = "writable" => ~s.stored_error /\ s.pending_abort_request = "none"
  BY <1>2, <1>3 DEF Same, Fields, Asserted
<1>8. /\ Same(v, w, {"sink", "promises", "stored_error", "pending_abort_request"})
      /\ v.sink = w.sink \ {"close"} /\ v.pending_abort_request = "none" /\ ~v.stored_error
      /\ \A i \in 1 .. w.writes : v.promises[i] = w.promises[i]
  <2>1. CASE w.state = "writable"
    <3>1. v = s
      BY <1>7, <2>1
    <3>2. QED
      BY <1>3, <1>7, <2>1, <3>1 DEF Same, Fields
  <2>2. CASE w.state = "erroring"
    <3>1. v = [u EXCEPT !.stored_error = FALSE, !.pending_abort_request = "none"]
      BY <1>7, <2>2
    <3> HIDE DEF v
    <3>2. v \in Shape /\ v.pending_abort_request = "none" /\ ~v.stored_error
      BY <1>6, <3>1 DEF Same, Shape
    <3>3. Same(v, u, {"stored_error", "pending_abort_request"})
      BY <1>6, <3>1, <3>2 DEF Same, Shape, Fields
    <3>4. QED
      BY <1>3, <1>6, <3>2, <3>3 DEF Same, Fields
  <2>3. QED
    BY <1>3, <2>1, <2>2
<1> HIDE DEF v
<1>9. x \in Shape /\ x.state = "closed" /\ ~x.in_flight_close_request
  BY <1>8 DEF Same, Shape
<1>10. Same(x, v, {"in_flight_close_request", "state"})
  BY <1>8, <1>9 DEF Same, Shape, Fields
<1> HIDE DEF x
<1>11. x.closed = w.closed /\ x.writer = w.writer /\ w.closed \in PromiseState
  BY <1>2, <1>8, <1>10 DEF Same, Fields, Shape
<1>12. (w.writer # 0 => w.closed = "pending") /\ "fulfilled" \in PromiseState
  BY <1>2, <1>3 DEF Told, PromiseState
<1>13. t = IF w.writer # 0 THEN [x EXCEPT !.closed = "fulfilled"] ELSE x
  BY <1>11, <1>12
<1> HIDE DEF t
<1>14. Same(t, x, {"closed"}) /\ (w.writer # 0 => t.closed = "fulfilled")
  BY <1>9, <1>12, <1>13 DEF Same, Shape, Fields
<1> DEFINE changed == {"sink", "promises", "stored_error", "pending_abort_request",
                       "in_flight_close_request", "state", "closed"}
<1>15. /\ Same(t, w, changed) /\ t.sink = w.sink \ {"close"} /\ t.stack = w.stack
       /\ t.state = "closed" /\ ~t.in_flight_close_request
       /\ t.pending_abort_request = "none" /\ ~t.stored_error
       /\ \A i \in 1 .. w.writes : t.promises[i] = w.promises[i]
  BY <1>8, <1>9, <1>10, <1>14 DEF Same, Fields
<1>16. /\ t \in Shape /\ t.writes = w.writes /\ t.queue = w.queue
       /\ t.write_requests = w.write_requests /\ t.in_flight_write_request = 0
       /\ t.close_request = w.close_request /\ t.started /\ t.failed = w.failed
       /\ t.writer = w.writer
  BY <1>3, <1>15 DEF Same, Fields
<1>17. w' = t
  BY <1>1, <1>2, <1>15, <1>16, Verified DEF Asserted
<1>18. CallsOf(t) = {} /\ SinkFrames(t) = {} /\ t.sink = {} /\ SizeFrames(t) = SizeFrames(w)
  BY <1>1, <1>15, SinkDone
<1>19. Bounded(t)
  BY <1>2, <1>15, <1>18 DEF Same, Fields, Bounded
<1>20. OneAtATime(t)
  BY <1>15, <1>16, <1>18 DEF OneAtATime
<1>21. Asserted(t)
  BY <1>2, <1>7, <1>15, <1>16 DEF Asserted
<1>22. Told(t) /\ ErrorTold(t) /\ Parked(t)
  BY <1>14, <1>15, <1>16 DEF Told, ErrorTold, Parked
<1>23. Matched(t)
  <2>1. InFlight(t) = InFlight(w) /\ Sentinel(t) = Sentinel(w) /\ Over(t) = Over(w)
    BY <1>3, <1>16 DEF InFlight, Sentinel, Over
  <2>2. Lined(t)
    BY <1>3, <1>16, <2>1 DEF Lined
  <2>3. Promised(t)
    BY <1>3, <1>15, <1>16, <2>1 DEF Promised
  <2>4. t.queue = <<>> /\ t.write_requests = <<>>
    BY <1>3, <1>16 DEF Lined
  <2>5. InFlight(t) = 0 /\ Sentinel(t) = 0
    BY <1>7, <1>16 DEF InFlight, Sentinel
  <2>6. QED
    BY <1>15, <2>2, <2>3, <2>4, <2>5 DEF Matched
<1>24. Safe(t)
  BY <1>16, <1>19, <1>20, <1>21, <1>22, <1>23 DEF Safe, Sound
<1>25. QED
  BY <1>17, <1>18, <1>24 DEF IInv, Kept

----------------------------------------------------------------------------
(***************************************************************************)
(* The theorems.                                                           *)
(***************************************************************************)

\* A new stream is safe, whether or not it is locked.
LEMMA Begins ==
    ASSUME NEW n \in Nat, n <= MaxWriters, NEW s,
           NEW y, y = IF InitialStream.backpressure THEN "pending" ELSE "fulfilled",
           \/ n = 0 /\ s = InitialStream
           \/ s = [InitialStream EXCEPT !.writer = n, !.writers = n, !.closed = "pending",
                                        !.ready = y]
    PROVE  Safe(s)
<1>1. /\ <<>> \in Seq(Nat) /\ <<>> \in Seq(Frames) /\ 0 \in Nat
      /\ [r \in Requests |-> "none"] \in [Requests -> PromiseState]
      /\ (HighWaterMark <= 0) \in BOOLEAN
  BY StreamBounds DEF PromiseState
<1>2. y \in {"pending", "fulfilled"}
  OBVIOUS
<1>3. /\ s \in Shape /\ s.state = "writable" /\ ~s.stored_error /\ ~s.started
      /\ ~s.close_request
      /\ ~s.in_flight_close_request /\ s.in_flight_write_request = 0
      /\ s.write_requests = <<>> /\ s.pending_abort_request = "none" /\ s.queue = <<>>
      /\ s.algorithms /\ s.writer = n /\ s.sink = {"start"} /\ s.stack = <<>>
      /\ s.writes = 0 /\ s.calls = 0 /\ s.writers = n /\ ~s.failed
      /\ s.backpressure = InitialStream.backpressure
      /\ n # 0 => s.closed = "pending" /\ s.ready = y
  <2>1. CASE n = 0 /\ s = InitialStream
    BY <1>1, <2>1 DEF InitialStream, Shape, PromiseState, SinkCallback
  <2>2. CASE s = [InitialStream EXCEPT !.writer = n, !.writers = n, !.closed = "pending",
                                       !.ready = y]
    BY <1>1, <1>2, <2>2 DEF InitialStream, Shape, PromiseState, SinkCallback
  <2>3. QED
    BY <2>1, <2>2
<1>4. SinkFrames(s) = {} /\ SizeFrames(s) = {} /\ CallsOf(s) = {"start"}
  BY <1>3 DEF SinkFrames, SizeFrames, CallsOf
<1>5. Cardinality(SizeFrames(s)) = 0
  BY <1>4, FS_EmptySet
<1>6. Bounded(s)
  BY <1>3, <1>4, <1>5, StreamBounds DEF Bounded
<1>7. OneAtATime(s)
  BY <1>3, <1>4 DEF OneAtATime
<1>8. Asserted(s) /\ Told(s) /\ ErrorTold(s) /\ Parked(s)
  BY <1>3 DEF Asserted, Told, ErrorTold, Parked, writable_stream_close_queued_or_in_flight
<1>9. Len(s.queue) = 0 /\ Len(s.write_requests) = 0 /\ InFlight(s) = 0 /\ Sentinel(s) = 0
  BY <1>3 DEF InFlight, Sentinel
<1>10. Over(s) = 0
  <2>1. Over(s) = s.writes - Len(s.write_requests) - InFlight(s)
    BY DEF Over
  <2>2. QED
    BY <1>3, <1>9, <2>1
<1>11. Lined(s) /\ Promised(s)
  BY <1>3, <1>9, <1>10 DEF Lined, Promised
<1>12. Matched(s)
  BY <1>3, <1>9, <1>11 DEF Matched
<1>13. QED
  BY <1>3, <1>6, <1>7, <1>8, <1>12 DEF Safe, Sound

\* Every step keeps the invariant, and a stream in error gives the sink nothing.
LEMMA Continues == ASSUME IInv, [Next]_w PROVE IInv' /\ Kept(w, w')
<1>1. CASE get_writer \/ release_lock
  BY <1>1, WriterSteps
<1>2. CASE write
  BY <1>2, WriteStep
<1>3. CASE close
  BY <1>3, CloseStep
<1>4. CASE abort \/ error
  BY <1>4, FailureSteps
<1>5. ASSUME NEW outcome \in {"valid", "invalid", "throws"}, SizeReturns(outcome)
      PROVE  IInv' /\ Kept(w, w')
  BY <1>5, SizeStep
<1>6. CASE SignalReturns
  BY <1>6, SignalStep
<1>7. CASE SinkReturns
  BY <1>7, SinkStep
<1>8. CASE StartFulfilled \/ StartRejected
  BY <1>8, StartSteps
<1>9. CASE WriteFulfilled
  BY <1>9, WriteFulfilledStep
<1>10. CASE WriteRejected
  BY <1>10, WriteRejectedStep
<1>11. CASE CloseFulfilled
  BY <1>11, CloseFulfilledStep
<1>12. CASE CloseRejected
  BY <1>12, CloseRejectedStep
<1>13. ASSUME NEW outcome \in {"fulfilled", "rejected"}, AbortSettled(outcome)
       PROVE  IInv' /\ Kept(w, w')
  BY <1>13, AbortStep
<1>14. CASE UNCHANGED w
  BY <1>14 DEF IInv, Kept
<1>15. QED
  BY <1>1, <1>2, <1>3, <1>4, <1>5, <1>6, <1>7, <1>8, <1>9, <1>10, <1>11, <1>12, <1>13, <1>14
     DEF Next, Script, ScriptReturns, Reaction

\* IInv is an invariant of the stream.
LEMMA Invariance == Spec => []IInv
<1>1. Init => IInv
  <2>1. 0 \in Nat /\ 0 <= MaxWriters
    BY StreamBounds
  <2>2. QED
    BY <2>1, Begins DEF Init, IInv
<1>2. IInv /\ [Next]_w => IInv'
  BY Continues
<1>3. QED
  BY <1>1, <1>2, PTL DEF Spec

\* A sequence is one of the values it holds.
LEMMA SequenceIn ==
    ASSUME NEW q \in Seq(Nat), NEW S, \A i \in 1 .. Len(q) : q[i] \in S
    PROVE  q \in Seq(S)
  OBVIOUS

\* Of two sequences that count from the same number the shorter is a prefix.
LEMMA Counting ==
    ASSUME NEW a \in Seq(Nat), NEW b \in Seq(Nat), NEW k \in Int,
           \A i \in 1 .. Len(a) : a[i] = k + i, \A i \in 1 .. Len(b) : b[i] = k + i,
           Len(a) <= Len(b)
    PROVE  IsPrefix(a, b) /\ (Len(a) = Len(b) => a = b)
<1>1. Len(a) \in Nat /\ Len(b) \in Nat
  OBVIOUS
<1>2. /\ SubSeq(a, 1, Len(a)) \in Seq(Nat) /\ SubSeq(b, 1, Len(a)) \in Seq(Nat)
      /\ Len(SubSeq(a, 1, Len(a))) = Len(a) /\ Len(SubSeq(b, 1, Len(a))) = Len(a)
  <2>1. \A i \in 1 .. Len(a) : a[i] \in Nat /\ b[i] \in Nat
    BY <1>1
  <2>2. SubSeq(a, 1, Len(a)) = [i \in 1 .. Len(a) |-> a[i]]
    BY <1>1
  <2>3. SubSeq(b, 1, Len(a)) = [i \in 1 .. Len(a) |-> b[i]]
    BY <1>1
  <2>4. QED
    BY <1>1, <2>1, <2>2, <2>3
<1>3. \A i \in 1 .. Len(a) : SubSeq(a, 1, Len(a))[i] = SubSeq(b, 1, Len(a))[i]
  BY <1>1
<1>4. SubSeq(a, 1, Len(a)) = SubSeq(b, 1, Len(a))
  BY <1>2, <1>3
<1>5. Len(a) = Len(b) => a = b
  OBVIOUS
<1>6. QED
  BY <1>4, <1>5 DEF IsPrefix

\* The types and the numbers of the requests.
LEMMA Typed == ASSUME IInv PROVE TypeOK
<1>1. w \in Shape /\ Bounded(w) /\ Asserted(w) /\ Matched(w)
  BY DEF IInv, Safe, Sound
<1>2. /\ w.writes \in Nat /\ w.writes <= MaxWrites /\ MaxWrites \in Nat /\ MaxWriters \in Nat
  BY <1>1, WritesBounded, StreamBounds
<1>3. /\ Len(w.write_requests) \in Nat /\ Len(w.queue) \in Nat
      /\ w.in_flight_write_request \in Nat
      /\ InFlight(w) \in {0, 1} /\ (w.in_flight_write_request = 0 <=> InFlight(w) = 0)
      /\ Sentinel(w) \in {0, 1} /\ (w.close_request <=> Sentinel(w) = 1)
      /\ Over(w) = w.writes - Len(w.write_requests) - InFlight(w)
      /\ w.write_requests \in Seq(Nat) /\ w.queue \in Seq(Nat)
      /\ DOMAIN w.write_requests = 1 .. Len(w.write_requests)
      /\ DOMAIN w.queue = 1 .. Len(w.queue)
  BY <1>1, Counts
<1>4. /\ w.in_flight_write_request \in 0 .. MaxWrites
      /\ \A i \in 1 .. Len(w.write_requests) : w.write_requests[i] \in 1 .. MaxWrites
      /\ \A i \in 1 .. Len(w.queue) : w.queue[i] \in 0 .. MaxWrites
  <2>1. CASE w.state = "errored"
    BY <1>1, <1>2, <2>1 DEF Matched, Asserted
  <2>2. CASE w.state # "errored"
    <3>1. Lined(w)
      BY <1>1, <2>2 DEF Matched
    <3>2. /\ Over(w) >= 0
          /\ w.in_flight_write_request # 0 =>
                w.in_flight_write_request = w.writes - Len(w.write_requests)
          /\ Len(w.queue) <= Len(w.write_requests) + InFlight(w) + Sentinel(w)
      BY <3>1 DEF Lined
    <3>3. w.in_flight_write_request \in 0 .. MaxWrites
      BY <1>2, <1>3, <3>2
    <3>4. \A i \in 1 .. Len(w.write_requests) : w.write_requests[i] \in 1 .. MaxWrites
      <4>1. \A i \in 1 .. Len(w.write_requests) :
               w.write_requests[i] = w.writes - Len(w.write_requests) + i
        BY <1>3, <3>1 DEF Lined
      <4>2. w.writes - Len(w.write_requests) \in Nat
        BY <1>2, <1>3, <3>2
      <4>3. \A i \in 1 .. Len(w.write_requests) :
               w.writes - Len(w.write_requests) + i \in 1 .. MaxWrites
        BY <1>2, <1>3, <4>2, SMTT(30)
      <4>4. QED
        BY <4>1, <4>3
    <3>5. \A i \in 1 .. Len(w.queue) : w.queue[i] \in 0 .. MaxWrites
      <4>1. SUFFICES ASSUME NEW i \in 1 .. Len(w.queue) PROVE w.queue[i] \in 0 .. MaxWrites
        OBVIOUS
      <4>2. CASE i <= Len(w.queue) - Sentinel(w)
        <5>1. w.queue[i] = Over(w) + i
          BY <1>3, <3>1, <4>2 DEF Lined
        <5>2. i <= Len(w.write_requests) + InFlight(w)
          BY <1>3, <3>2, <4>2
        <5>3. Over(w) + i \in 0 .. MaxWrites
          BY <1>2, <1>3, <3>2, <5>2, SMTT(30)
        <5>4. QED
          BY <5>1, <5>3
      <4>3. CASE ~(i <= Len(w.queue) - Sentinel(w))
        <5>1. i = Len(w.queue) /\ Sentinel(w) = 1
          BY <1>3, <4>3
        <5>2. w.queue[i] = Close
          BY <1>3, <3>1, <5>1 DEF Lined
        <5>3. QED
          BY <1>2, <5>2 DEF Close
      <4>4. QED
        BY <4>2, <4>3
    <3>6. QED
      BY <3>3, <3>4, <3>5
  <2>3. QED
    BY <2>1, <2>2
<1>5. w.write_requests \in Seq(1 .. MaxWrites) /\ w.queue \in Seq(0 .. MaxWrites)
  BY <1>3, <1>4, SequenceIn
<1>6. w.writer \in 0 .. MaxWriters
  <2>1. w.writer \in Nat /\ w.writers \in Nat /\ w.writer <= w.writers /\ w.writers <= MaxWriters
    BY <1>1 DEF Shape, Bounded
  <2>2. QED
    BY <1>2, <2>1
<1>7. \A i \in DOMAIN w.stack : w.stack[i].callback \in SinkCallback \cup {"size", "signal"}
  <2>1. w.stack \in Seq(Frames)
    BY <1>1 DEF Shape
  <2>2. \A i \in DOMAIN w.stack : w.stack[i] \in Frames
    BY <2>1
  <2>3. QED
    BY <2>2 DEF Frames
<1>8. /\ w.state \in {"writable", "erroring", "closed", "errored"}
      /\ w.pending_abort_request \in {"none", "abort", "was_already_erroring"}
      /\ w.promises \in [Requests -> PromiseState] /\ {w.ready, w.closed} \subseteq PromiseState
      /\ w.sink \subseteq SinkCallback \cup {"start"}
  BY <1>1 DEF Shape
<1>9. w.stored_error <=> w.state \in {"erroring", "errored"}
  BY <1>1 DEF Asserted
<1>10. QED
  BY <1>4, <1>5, <1>6, <1>7, <1>8, <1>9 DEF TypeOK

\* The sink has one call at a time.
LEMMA OneCall == ASSUME IInv PROVE SinkOneAtATime
<1>1. OneAtATime(w) /\ Calls = CallsOf(w)
  BY DEF IInv, Safe, Sound, Calls, CallsOf, SinkFrames
<1> DEFINE F == {i \in DOMAIN w.stack : w.stack[i].callback \in SinkCallback}
<1>2. F = SinkFrames(w)
  BY DEF SinkFrames
<1>3. Cardinality({}) = 0 /\ \A x : Cardinality({x}) = 1
  BY FS_EmptySet, FS_Singleton
<1> HIDE DEF F
<1>4. \/ F = {} /\ (w.sink = {} \/ \E x : w.sink = {x})
      \/ w.sink = {} /\ \E x : F = {x}
  <2>1. CASE F = {}
    <3>1. w.sink = {} \/ \E x : w.sink = {x}
      BY <1>1, ZenonT(40) DEF OneAtATime
    <3>2. QED
      BY <2>1, <3>1
  <2>2. CASE F # {}
    <3>1. PICK x \in F : TRUE
      BY <2>2
    <3>2. F = {x} /\ w.sink = {}
      BY <1>1, <1>2, <2>2, <3>1 DEF OneAtATime
    <3>3. QED
      BY <3>2
  <2>3. QED
    BY <2>1, <2>2
<1>5. \/ Cardinality(F) = 0 /\ Cardinality(w.sink) \in {0, 1}
      \/ Cardinality(w.sink) = 0 /\ Cardinality(F) = 1
  BY <1>3, <1>4, Zenon
<1>6. Cardinality(w.sink) + Cardinality(F) <= 1
  BY <1>5
<1>7. QED
  BY <1>1, <1>6 DEF SinkOneAtATime, OneAtATime, F

\* What a sequence holds that is put together from two.
LEMMA Joined ==
    ASSUME NEW a \in Seq(Nat), NEW b \in Seq(Nat)
    PROVE  /\ a \o b \in Seq(Nat) /\ Len(a \o b) = Len(a) + Len(b)
           /\ \A i \in 1 .. Len(a) + Len(b) :
                 (a \o b)[i] = IF i <= Len(a) THEN a[i] ELSE b[i - Len(a)]
  OBVIOUS

\* What the sink has written and what is queued are the first requests.
LEMMA Aligned == ASSUME IInv PROVE RequestsMatchQueue
<1> DEFINE closing == w.queue # <<>> /\ Last(w.queue) = Close
           chunks == IF closing THEN Front(w.queue) ELSE w.queue
           inFlight == IF w.in_flight_write_request = 0 THEN <<>> ELSE <<w.in_flight_write_request>>
           requests == inFlight \o w.write_requests
<1>1. w \in Shape /\ Asserted(w) /\ Matched(w)
  BY DEF IInv, Safe, Sound
<1>2. /\ w.writes \in Nat /\ Len(w.write_requests) \in Nat /\ Len(w.queue) \in Nat
      /\ w.in_flight_write_request \in Nat
      /\ InFlight(w) \in {0, 1} /\ (w.in_flight_write_request = 0 <=> InFlight(w) = 0)
      /\ Sentinel(w) \in {0, 1} /\ (w.close_request <=> Sentinel(w) = 1)
      /\ Over(w) = w.writes - Len(w.write_requests) - InFlight(w)
      /\ w.write_requests \in Seq(Nat) /\ w.queue \in Seq(Nat)
      /\ DOMAIN w.write_requests = 1 .. Len(w.write_requests)
      /\ DOMAIN w.queue = 1 .. Len(w.queue)
  BY <1>1, Counts
<1>3. /\ inFlight \in Seq(Nat) /\ Len(inFlight) = InFlight(w)
      /\ InFlight(w) = 1 => inFlight[1] = w.in_flight_write_request
  BY <1>2 DEF InFlight
<1> HIDE DEF inFlight
<1>4. /\ requests \in Seq(Nat) /\ Len(requests) = InFlight(w) + Len(w.write_requests)
      /\ \A i \in 1 .. Len(requests) :
            requests[i] = IF i <= InFlight(w) THEN inFlight[i] ELSE w.write_requests[i - InFlight(w)]
  <2>1. w.write_requests \in Seq(Nat)
    BY <1>2
  <2>2. /\ requests \in Seq(Nat) /\ Len(requests) = Len(inFlight) + Len(w.write_requests)
        /\ \A i \in 1 .. Len(inFlight) + Len(w.write_requests) :
              requests[i] = IF i <= Len(inFlight) THEN inFlight[i]
                            ELSE w.write_requests[i - Len(inFlight)]
    BY <1>3, <2>1, Joined, Zenon
  <2> HIDE DEF requests
  <2>3. QED
    BY <1>3, <2>2
<1> HIDE DEF requests
<1>5. CASE w.state = "errored"
  <2>1. w.queue = <<>> /\ w.write_requests = <<>> /\ w.in_flight_write_request = 0
    BY <1>1, <1>5 DEF Matched, Asserted
  <2>2. Len(requests) = 0
    BY <1>2, <1>4, <2>1
  <2>3. requests = <<>> /\ ~closing /\ chunks = <<>>
    BY <1>4, <2>1, <2>2, EmptySeq
  <2>4. IsPrefix(<<>>, <<>>)
    BY DEF IsPrefix
  <2>5. IsPrefix(chunks, requests) /\ chunks = requests
    BY <2>3, <2>4
  <2>6. QED
    BY <1>5, <2>5 DEF RequestsMatchQueue, requests, inFlight
<1>6. CASE w.state # "errored"
  <2>1. /\ Lined(w)
        /\ w.state # "erroring" => Len(w.queue) = Len(w.write_requests) + InFlight(w) + Sentinel(w)
    BY <1>1, <1>6 DEF Matched
  <2>2. /\ Over(w) >= 0 /\ Len(w.queue) >= InFlight(w) + Sentinel(w)
        /\ Len(w.queue) <= Len(w.write_requests) + InFlight(w) + Sentinel(w)
        /\ \A i \in DOMAIN w.queue : i <= Len(w.queue) - Sentinel(w) => w.queue[i] = Over(w) + i
        /\ \A i \in DOMAIN w.write_requests :
              w.write_requests[i] = w.writes - Len(w.write_requests) + i
        /\ w.in_flight_write_request # 0 =>
              w.in_flight_write_request = w.writes - Len(w.write_requests)
        /\ w.close_request => w.queue[Len(w.queue)] = Close
    BY <2>1 DEF Lined
  <2>3. \A i \in 1 .. Len(requests) : requests[i] = Over(w) + i
    <3>1. SUFFICES ASSUME NEW i \in 1 .. Len(requests) PROVE requests[i] = Over(w) + i
      OBVIOUS
    <3>2. CASE i <= InFlight(w)
      <4>1. i = 1 /\ InFlight(w) = 1 /\ w.in_flight_write_request = Over(w) + 1
        BY <1>2, <1>4, <2>2, <3>2
      <4>2. requests[i] = w.in_flight_write_request
        BY <1>3, <1>4, <3>2, <4>1
      <4>3. QED
        BY <4>1, <4>2
    <3>3. CASE ~(i <= InFlight(w))
      <4>1. i - InFlight(w) \in DOMAIN w.write_requests
        BY <1>2, <1>4, <3>3, SMTT(30)
      <4>2. requests[i] = w.write_requests[i - InFlight(w)]
        BY <1>4, <3>3
      <4>3. w.write_requests[i - InFlight(w)] = w.writes - Len(w.write_requests) + (i - InFlight(w))
        BY <2>2, <4>1
      <4>4. QED
        BY <1>2, <1>4, <4>2, <4>3, SMTT(30)
    <3>4. QED
      BY <3>2, <3>3
  <2>4. closing <=> w.close_request
    <3>1. CASE w.close_request
      <4>1. Len(w.queue) >= 1 /\ w.queue[Len(w.queue)] = Close
        BY <1>2, <2>2, <3>1
      <4>2. w.queue # <<>>
        BY <1>2, <4>1
      <4>3. Last(w.queue) = w.queue[Len(w.queue)]
        BY <1>2, <4>2, FrontOf
      <4>4. QED
        BY <3>1, <4>1, <4>2, <4>3
    <3>2. CASE ~w.close_request
      <4>1. SUFFICES ASSUME w.queue # <<>> PROVE Last(w.queue) # Close
        BY <3>2
      <4>2. Last(w.queue) = w.queue[Len(w.queue)] /\ Len(w.queue) >= 1
        BY <1>2, <4>1, FrontOf
      <4>3. Sentinel(w) = 0 /\ Len(w.queue) \in DOMAIN w.queue
        BY <1>2, <3>2, <4>2
      <4>4. Len(w.queue) <= Len(w.queue) - Sentinel(w)
        BY <1>2, <4>3
      <4>5. w.queue[Len(w.queue)] = Over(w) + Len(w.queue)
        BY <2>2, <4>3, <4>4
      <4>6. QED
        BY <1>2, <2>2, <4>2, <4>5 DEF Close
    <3>3. QED
      BY <3>1, <3>2
  <2>5. chunks \in Seq(Nat) /\ Len(chunks) = Len(w.queue) - Sentinel(w)
        /\ \A i \in 1 .. Len(chunks) : chunks[i] = Over(w) + i
    <3>1. CASE closing
      <4>1. chunks = Front(w.queue) /\ Sentinel(w) = 1 /\ w.queue # <<>>
        BY <1>2, <2>4, <3>1
      <4> HIDE DEF chunks
      <4>2. /\ chunks \in Seq(Nat) /\ Len(chunks) = Len(w.queue) - 1
            /\ \A i \in 1 .. Len(w.queue) - 1 : chunks[i] = w.queue[i]
        BY <1>2, <4>1, FrontOf
      <4>3. \A i \in 1 .. Len(chunks) : chunks[i] = Over(w) + i
        <5>1. SUFFICES ASSUME NEW i \in 1 .. Len(w.queue) - 1 PROVE chunks[i] = Over(w) + i
          BY <4>2
        <5>2. i \in DOMAIN w.queue /\ i <= Len(w.queue) - Sentinel(w)
          BY <1>2, <4>1
        <5>3. QED
          BY <2>2, <4>2, <5>2
      <4>4. QED
        BY <4>1, <4>2, <4>3
    <3>2. CASE ~closing
      <4>1. chunks = w.queue /\ Sentinel(w) = 0
        BY <1>2, <2>4, <3>2
      <4> HIDE DEF chunks
      <4>2. \A i \in 1 .. Len(chunks) : chunks[i] = Over(w) + i
        <5>1. SUFFICES ASSUME NEW i \in 1 .. Len(w.queue) PROVE chunks[i] = Over(w) + i
          BY <4>1
        <5>2. i \in DOMAIN w.queue /\ i <= Len(w.queue) - Sentinel(w)
          BY <1>2, <4>1
        <5>3. QED
          BY <2>2, <4>1, <5>2
      <4>3. QED
        BY <1>2, <4>1, <4>2
    <3>3. QED
      BY <3>1, <3>2
  <2> HIDE DEF chunks
  <2>6. Over(w) \in Int /\ Len(chunks) <= Len(requests)
        /\ (w.state # "erroring" => Len(chunks) = Len(requests))
    <3>1. Over(w) \in Int
      BY <1>2
    <3>2. Len(chunks) <= Len(requests)
      <4>1. Len(w.queue) <= Len(w.write_requests) + InFlight(w) + Sentinel(w)
        BY <2>2
      <4>2. Len(w.queue) - Sentinel(w) <= InFlight(w) + Len(w.write_requests)
        BY <1>2, <4>1
      <4>3. QED
        BY <1>4, <2>5, <4>2
    <3>3. ASSUME w.state # "erroring" PROVE Len(chunks) = Len(requests)
      BY <1>2, <1>4, <2>1, <2>5, <3>3
    <3>4. QED
      BY <3>1, <3>2, <3>3
  <2>7. IsPrefix(chunks, requests) /\ (Len(chunks) = Len(requests) => chunks = requests)
    BY <1>4, <2>3, <2>5, <2>6, Counting
  <2>8. QED
    BY <1>6, <2>4, <2>6, <2>7 DEF RequestsMatchQueue, chunks, requests, inFlight
<1>7. QED
  BY <1>5, <1>6

\* No VERIFY of the stream fails and no algorithm is used after it was cleared,
\* the sink does one thing at a time, and the queue of the controller and the
\* requests of the stream advance together, whatever script calls from size(),
\* the listeners of the signal and the functions of the sink.
THEOREM Consistent == Spec => []StreamConsistent
<1>1. IInv => StreamConsistent
  BY Typed, OneCall, Aligned DEF StreamConsistent, AssertionsHold, IInv, Safe, Sound, Asserted
<1>2. QED
  BY <1>1, Invariance, PTL

\* What the promises tell script is true: the fulfilled writes are the first ones,
\* and all of them when the stream is closed; ready and closed of the writer
\* follow the stream.
THEOREM Informed == Spec => []WriterInformed
<1>1. IInv => WriterInformed
  <2> SUFFICES ASSUME IInv PROVE WriterInformed
    OBVIOUS
  <2>1. w \in Shape /\ Matched(w) /\ Told(w) /\ ErrorTold(w) /\ Calls = CallsOf(w)
    BY DEF IInv, Safe, Sound, Calls, CallsOf, SinkFrames
  <2>2. Ordered(w)
    <3>1. CASE w.state = "errored"
      BY <2>1, <3>1 DEF Matched
    <3>2. CASE w.state # "errored"
      BY <2>1, <3>2, PromisedOrdered DEF Matched
    <3>3. QED
      BY <3>1, <3>2
  <2>3. w.state = "closed" => \A i \in 1 .. w.writes : w.promises[i] = "fulfilled"
    <3>1. SUFFICES ASSUME w.state = "closed" PROVE \A i \in 1 .. w.writes : w.promises[i] = "fulfilled"
      OBVIOUS
    <3>2. Promised(w) /\ w.write_requests = <<>> /\ w.in_flight_write_request = 0
      BY <2>1, <3>1 DEF Matched, Lined
    <3>3. w.writes \in Nat /\ Over(w) = w.writes - Len(w.write_requests) - InFlight(w)
      BY <2>1, Counts
    <3>4. Len(w.write_requests) = 0 /\ InFlight(w) = 0
      BY <3>2 DEF InFlight
    <3>5. Over(w) = w.writes
      BY <3>3, <3>4
    <3>6. QED
      BY <3>2, <3>3, <3>5 DEF Promised
  <2>4. ClosedMeansWritten
    BY <2>2, <2>3 DEF ClosedMeansWritten, Ordered
  <2>5. WriterTracksStream
    BY <2>1 DEF WriterTracksStream, Told, ErrorTold
  <2>6. QED
    BY <2>4, <2>5 DEF WriterInformed
<1>2. QED
  BY <1>1, Invariance, PTL

\* A write in flight when the stream is in error is the last one: it stays or ends.
LEMMA LastWrite ==
    ASSUME IInv, [Next]_w, w.state # "writable", w.in_flight_write_request # 0
    PROVE  w'.in_flight_write_request \in {0, w.in_flight_write_request}
<1> DEFINE n == w.in_flight_write_request
<1>1. /\ w \in Shape /\ OneAtATime(w) /\ "write" \in CallsOf(w) /\ w.started
      /\ w.state \in {"erroring", "closed", "errored"}
  <2>1. w \in Shape /\ OneAtATime(w)
    BY DEF IInv, Safe, Sound
  <2>2. w.state \in {"writable", "erroring", "closed", "errored"}
    BY <2>1 DEF Shape
  <2>3. "write" \in CallsOf(w)
    BY <2>1 DEF OneAtATime
  <2>4. "start" \notin CallsOf(w)
    BY <2>1, <2>3 DEF OneAtATime, CallsOf
  <2>5. QED
    BY <2>1, <2>2, <2>3, <2>4 DEF OneAtATime
<1>2. ASSUME NEW call, call # "write" PROVE ~Settled(call)
  <2>1. SUFFICES ASSUME Settled(call) PROVE FALSE
    OBVIOUS
  <2>2. CallsOf(w) = {call}
    <3>1. DEFINE t == [stack |-> w.stack, sink |-> w.sink \ {call}]
    <3>2. t.stack = w.stack /\ t.sink = w.sink \ {call}
      OBVIOUS
    <3> HIDE DEF t
    <3>3. QED
      BY <2>1, <3>2, SinkDone
  <2>3. QED
    BY <1>1, <1>2, <2>2
<1>3. CASE get_writer \/ release_lock
  BY <1>1, <1>3 DEF get_writer, release_lock, Shape
<1>4. CASE write
  <2>1. DEFINE s == [w EXCEPT !.calls = @ + 1]
  <2>2. s.state = w.state /\ s.in_flight_write_request = n
    BY <1>1 DEF Shape
  <2>3. w' = CallScript(s, "size") \/ w' = WriteAfterSize(s, TRUE)
    BY <1>4 DEF write
  <2>4. CallScript(s, "size").in_flight_write_request = n
    BY <1>1 DEF CallScript, Shape
  <2> HIDE DEF s
  <2>5. WriteAfterSize(s, TRUE) = s
    BY <2>2 DEF WriteAfterSize
  <2>6. QED
    BY <2>2, <2>3, <2>4, <2>5
<1>5. CASE close
  <2>1. DEFINE s == [w EXCEPT !.close_request = TRUE, !.promises[Close] = "pending",
                              !.queue = Append(@, Close),
                              !.ready = IF w.writer # 0 /\ w.backpressure /\ w.state = "writable"
                                        THEN "fulfilled" ELSE @]
  <2>2. s.in_flight_write_request = n
    BY <1>1 DEF Shape
  <2>3. w' = advance_queue_if_needed(s)
    BY <1>5 DEF close
  <2> HIDE DEF s
  <2>4. w' = s
    BY <2>2, <2>3 DEF advance_queue_if_needed
  <2>5. QED
    BY <2>2, <2>4
<1>6. CASE abort \/ SignalReturns
  <2>1. ASSUME NEW s, s \in Shape, s.state = w.state, s.in_flight_write_request = n
        PROVE  AbortAfterSignal(s).in_flight_write_request = n
    BY <1>1, <2>1 DEF AbortAfterSignal, Shape
  <2>2. CASE abort
    BY <1>1, <2>1, <2>2 DEF abort, CallScript, Shape
  <2>3. CASE SignalReturns
    <3>1. DEFINE s == [w EXCEPT !.stack = Front(@)]
    <3>2. Safe(s) /\ s.state = w.state
      BY <2>3, ScriptReturned DEF SignalReturns, SinkCallback, IInv
    <3>3. s \in Shape
      BY <3>2 DEF Safe, Sound
    <3>4. s.in_flight_write_request = n
      BY <1>1 DEF Shape
    <3>5. w' = AbortAfterSignal(s)
      BY <2>3 DEF SignalReturns
    <3> HIDE DEF s
    <3>6. QED
      BY <2>1, <3>2, <3>3, <3>4, <3>5
  <2>4. QED
    BY <1>6, <2>2, <2>3
<1>7. ASSUME NEW outcome \in {"valid", "invalid", "throws"}, SizeReturns(outcome)
      PROVE  w'.in_flight_write_request = n
  <2>1. DEFINE s == [w EXCEPT !.stack = Front(@)]
  <2>2. s.state = w.state /\ s.in_flight_write_request = n
    BY <1>1 DEF Shape
  <2>3. w' = s
    BY <2>2, <1>7 DEF SizeReturns, WriteAfterSize, controller_error_if_needed
  <2>4. QED
    BY <2>2, <2>3
<1>8. CASE SinkReturns
  BY <1>1, <1>8 DEF SinkReturns, clear_algorithms, Shape
<1>9. CASE WriteFulfilled \/ WriteRejected
  BY <1>9, WriteFulfilledStep, WriteRejectedStep
<1>10. CASE \/ error \/ StartFulfilled \/ StartRejected \/ CloseFulfilled \/ CloseRejected
            \/ \E outcome \in {"fulfilled", "rejected"} : AbortSettled(outcome)
  BY <1>2, <1>10 DEF error, StartFulfilled, StartRejected, CloseFulfilled, CloseRejected,
                     AbortSettled
<1>11. CASE UNCHANGED w
  BY <1>11
<1>12. QED
  BY <1>3, <1>4, <1>5, <1>6, <1>7, <1>8, <1>9, <1>10, <1>11
     DEF Next, Script, ScriptReturns, Reaction

\* Once the stream is in error the sink gets no further chunk and no close(),
\* whichever step the stream takes, also one that ends a write.
THEOREM SinkStopped == Spec => ErrorStopsSink
<1> DEFINE Stopped == w.state # "writable" =>
                        /\ w'.in_flight_write_request \in {0, w.in_flight_write_request}
                        /\ w'.in_flight_close_request => w.in_flight_close_request
<1>1. IInv /\ [Next]_w => [Stopped]_w
  <2>1. SUFFICES ASSUME IInv, [Next]_w, w.state # "writable" PROVE Stopped
    OBVIOUS
  <2>2. Kept(w, w') /\ OneAtATime(w) /\ OneAtATime(w')
    BY <2>1, Continues DEF IInv, Safe, Sound
  <2>3. w'.in_flight_close_request => w.in_flight_close_request
    BY <2>1, <2>2 DEF Kept, OneAtATime
  <2>4. w.in_flight_write_request = 0 => w'.in_flight_write_request = 0
    BY <2>1, <2>2 DEF Kept, OneAtATime
  <2>5. QED
    BY <2>1, <2>3, <2>4, LastWrite
<1>2. QED
  BY <1>1, Invariance, PTL DEF Spec, ErrorStopsSink

=============================================================================

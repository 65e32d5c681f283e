----------------------- MODULE TransformStreamProofs -----------------------
(***************************************************************************)
(* Proofs about TransformStream, for any number of writes, reads and       *)
(* chunks, any nesting of script and any high water marks.                 *)
(*                                                                         *)
(* Sides: each step is a step of ReadableStream and one of WritableStream, *)
(* or leaves that side alone, so that a side of a transform stream does    *)
(* what its own module allows and no more.                                 *)
(*                                                                         *)
(* Demand: backpressure is the absence of demand.  The property is about   *)
(* the moments at which no algorithm runs.  What holds in between depends  *)
(* on the frames: while the readable side calls pull(), the demand is      *)
(* there and the backpressure not yet gone; while a chunk is enqueued the  *)
(* demand is gone and the backpressure not yet back; and a crash freezes   *)
(* the stream in neither of the two.                                       *)
(*                                                                         *)
(* Failing: the streams fail only in the named ways.  The sides keep the   *)
(* invariants of ReadableStream and WritableStream, whose proofs are used  *)
(* for their steps; what is added here relates the two sides: how the      *)
(* frames nest (Flat), which algorithm a side waits for (Served, Promised, *)
(* Canceling), and who has cleared the algorithms (Cleared, Flushed).      *)
(***************************************************************************)
EXTENDS TransformStream, TLAPS

----------------------------------------------------------------------------
(* The inductive invariant. *)

Outcomes == {"none", "pending", "fulfilled", "rejected"}

\* The frames of the transformer and of the stream's functions.
TransformFrames == {"write", "transform", "close", "abort", "cancel", "enqueue"}

TransformShape == [
    backpressure : BOOLEAN, algorithms : BOOLEAN, start : {"pending", "fulfilled", "rejected"},
    write : {"none", "blocked", "released", "transforming", "fulfilled", "rejected"},
    pull : {"none", "waiting", "released"}, flush : Outcomes, finish : Outcomes,
    canceling : {"none", "abort", "cancel"}, stack : Seq(TransformFrames),
    crash : {"none", "verify", "algorithm"}]

IsSeq(q) == \E S : q \in Seq(S)

ReadableFrames(q) == IsSeq(q) /\ \A i \in DOMAIN q : q[i].callback \in {"size", "pull", "cancel"}

\* All that is used of the readable side.
ReadableShape(s) ==
    /\ {"state", "reader", "read_requests", "queue", "close_requested", "started", "pulling",
        "pull_again", "source", "stack"} \subseteq DOMAIN s
    /\ IsSeq(s.read_requests) /\ IsSeq(s.queue) /\ ReadableFrames(s.stack)

\* All that is used of the writable side.
WritableShape(s) == {"state", "sink", "stack"} \subseteq DOMAIN s

Shapes == t \in TransformShape /\ ReadableShape(r) /\ WritableShape(w)

\* Only cancel() is on the stack below something else.
Nested == \A i \in 1 .. Len(r.stack) - 1 : r.stack[i].callback = "cancel"

Enqueuing == "enqueue" \in Range(t.stack)

\* The readable side has called and the transform stream has not answered; the
\* writable side has no call then.
Asks == R!Top("pull") \/ R!Top("size")

SinkWaits ==
    /\ t.crash = "none" /\ w.stack # <<>>
    /\ Last(w.stack).callback \in W!SinkCallback \cup {"size", "signal"}
    /\ Last(w.stack).callback \notin Range(t.stack)

OneAsks == Asks => t.crash = "none" /\ ~SinkWaits

SizeOfEnqueue == R!Top("size") => Enqueuing

Held ==
    /\ t.write = "blocked" => t.backpressure
    /\ t.pull = "waiting" => ~t.backpressure
    /\ ~t.backpressure /\ w.state = "writable" => t.pull = "waiting"

Pulled ==
    /\ R!Top("pull") => R!should_call_pull(r)
    /\ r.pulling /\ ~R!Top("pull") => t.pull # "none"

Demanded ==
    /\ R!should_call_pull(r) /\ t.backpressure /\ ~R!Top("pull") =>
         t.pull = "released" /\ r.pull_again
    /\ ~t.backpressure /\ w.state = "writable" /\ ~Enqueuing /\ R!can_close_or_enqueue(r) =>
         R!should_call_pull(r)

\* cancel() and abort() wait for the finish promise.
Finishing ==
    "cancel" \in r.source \/ "abort" \in w.sink \/ {"cancel", "abort"} \cap Range(t.stack) # {} =>
        t.finish # "none"

IInv ==
    /\ Shapes /\ Nested /\ OneAsks /\ SizeOfEnqueue
    /\ Held /\ Pulled /\ Demanded /\ Finishing

----------------------------------------------------------------------------
(* Sequences and stacks. *)

\* A sequence with one value more.
LEMMA AppendIs ==
    ASSUME NEW q, NEW x, IsSeq(q)
    PROVE  /\ IsSeq(Append(q, x)) /\ Append(q, x) # <<>> /\ Len(q) \in Nat
           /\ Len(Append(q, x)) = Len(q) + 1 /\ DOMAIN Append(q, x) = 1 .. Len(q) + 1
           /\ DOMAIN q = 1 .. Len(q)
           /\ Append(q, x)[Len(q) + 1] = x /\ \A i \in 1 .. Len(q) : Append(q, x)[i] = q[i]
           /\ Range(Append(q, x)) = Range(q) \cup {x} /\ Last(Append(q, x)) = x
<1>1. PICK S : q \in Seq(S)
  BY DEF IsSeq
<1> DEFINE T == S \cup {x}
<1>2. q \in Seq(T) /\ x \in T
  BY <1>1
<1> HIDE DEF T
<1>3. /\ Append(q, x) \in Seq(T) /\ Len(Append(q, x)) = Len(q) + 1 /\ Len(q) \in Nat
      /\ DOMAIN q = 1 .. Len(q) /\ DOMAIN Append(q, x) = 1 .. Len(q) + 1
      /\ \A i \in 1 .. Len(q) : Append(q, x)[i] = q[i]
      /\ Append(q, x)[Len(q) + 1] = x
  BY <1>2
<1>4. Append(q, x) # <<>>
  BY <1>3
<1>5. Range(Append(q, x)) = Range(q) \cup {x}
  BY <1>3 DEF Range
<1>6. Last(Append(q, x)) = x
  BY <1>3 DEF Last
<1> QED
  BY <1>3, <1>4, <1>5, <1>6 DEF IsSeq

\* A sequence without its last value.
LEMMA FrontIs ==
    ASSUME NEW q, IsSeq(q), q # <<>>
    PROVE  /\ IsSeq(Front(q)) /\ Len(q) \in Nat /\ Len(q) >= 1 /\ DOMAIN q = 1 .. Len(q)
           /\ Len(Front(q)) = Len(q) - 1 /\ DOMAIN Front(q) = 1 .. Len(q) - 1
           /\ \A i \in 1 .. Len(q) - 1 : Front(q)[i] = q[i]
           /\ Last(q) = q[Len(q)] /\ Range(q) = Range(Front(q)) \cup {Last(q)}
<1>1. PICK S : q \in Seq(S)
  BY DEF IsSeq
<1>2. Len(q) \in Nat /\ Len(q) >= 1 /\ DOMAIN q = 1 .. Len(q)
  BY <1>1
<1>3. Last(q) = q[Len(q)] /\ Front(q) = SubSeq(q, 1, Len(q) - 1)
  BY DEF Last, Front
<1>4. /\ SubSeq(q, 1, Len(q) - 1) \in Seq(S) /\ Len(SubSeq(q, 1, Len(q) - 1)) = Len(q) - 1
      /\ \A i \in 1 .. Len(q) - 1 : SubSeq(q, 1, Len(q) - 1)[i] = q[i]
  BY <1>1, <1>2
<1>5. DOMAIN Front(q) = 1 .. Len(q) - 1
  BY <1>3, <1>4
<1>6. Range(q) = Range(Front(q)) \cup {Last(q)}
  <2> DEFINE n == Len(q)
             p == Front(q)
  <2>1. /\ n \in Nat /\ n >= 1 /\ DOMAIN q = 1 .. n /\ DOMAIN p = 1 .. n - 1
        /\ \A i \in 1 .. n - 1 : p[i] = q[i]
    BY <1>2, <1>3, <1>4, <1>5
  <2>2. Last(q) = q[n]
    BY <1>3
  <2> HIDE DEF n, p
  <2>3. 1 .. n = (1 .. n - 1) \cup {n}
    BY <2>1
  <2> QED
    BY <2>1, <2>2, <2>3 DEF Range, p
<1> QED
  BY <1>2, <1>3, <1>4, <1>5, <1>6 DEF IsSeq

\* A sequence without its first value.
LEMMA TailIs ==
    ASSUME NEW q, IsSeq(q), q # <<>>
    PROVE  IsSeq(Tail(q)) /\ Len(Tail(q)) = Len(q) - 1 /\ Len(q) \in Nat
<1>1. PICK S : q \in Seq(S)
  BY DEF IsSeq
<1> QED
  BY <1>1 DEF IsSeq

\* The empty sequence.
LEMMA EmptyIs == IsSeq(<<>>) /\ Len(<<>>) = 0 /\ Range(<<>>) = {}
<1>1. <<>> \in Seq({})
  OBVIOUS
<1> QED
  BY <1>1 DEF IsSeq, Range

----------------------------------------------------------------------------
(* What the functions of the readable side do to the fields used here. *)

\* The library's operators are the same for the streams.
LEMMA SameOperators ==
    /\ \A q : R!Last(q) = Last(q) /\ R!Front(q) = Front(q) /\ R!Range(q) = Range(q)
    /\ \A q : W!Last(q) = Last(q) /\ W!Front(q) = Front(q)
BY DEF R!Last, Last, R!Front, Front, R!Range, Range, W!Last, W!Front

\* Nothing that is used here changes.
Same(s, u) ==
    /\ DOMAIN u = DOMAIN s
    /\ u.state = s.state /\ u.reader = s.reader /\ u.read_requests = s.read_requests
    /\ u.queue = s.queue /\ u.close_requested = s.close_requested /\ u.started = s.started
    /\ u.pulling = s.pulling /\ u.pull_again = s.pull_again /\ u.source = s.source
    /\ u.stack = s.stack

\* The stream ends, or closes after what it holds.
Ends(s, u) ==
    /\ ReadableShape(u) /\ ~R!can_close_or_enqueue(u)
    /\ u.pulling = s.pulling /\ u.source = s.source /\ u.stack = s.stack

\* What call_pull_if_needed() makes of the demand.
Asked(s, u) ==
    /\ ReadableShape(u) /\ u.source = s.source
    /\ R!should_call_pull(u) <=> R!should_call_pull(s)
    /\ R!can_close_or_enqueue(u) <=> R!can_close_or_enqueue(s)
    /\ \/ ~R!should_call_pull(s) /\ u.stack = s.stack /\ u.pulling = s.pulling
       \/ R!should_call_pull(s) /\ s.pulling /\ u.stack = s.stack /\ u.pulling /\ u.pull_again
       \/ /\ R!should_call_pull(s) /\ ~s.pulling
          /\ \E f : u.stack = Append(s.stack, f) /\ f.callback = "pull"

\* The steps of a read change the read only.
LEMMA OnChunkSame ==
    ASSUME NEW s, NEW n, NEW c, ReadableShape(s)
    PROVE  Same(s, R!OnChunk(s, n, c))
BY DEF ReadableShape, Same, R!OnChunk

\* The demand depends on these fields.
LEMMA SameDemand ==
    ASSUME NEW s, NEW u, ReadableShape(s), Same(s, u)
    PROVE  /\ ReadableShape(u)
           /\ R!can_close_or_enqueue(u) <=> R!can_close_or_enqueue(s)
           /\ R!should_call_pull(u) <=> R!should_call_pull(s)
<1>1. ReadableShape(u)
  BY DEF ReadableShape, Same
<1>2. R!can_close_or_enqueue(u) <=> R!can_close_or_enqueue(s)
  BY DEF R!can_close_or_enqueue, Same
<1>3. R!should_call_pull(u) <=> R!should_call_pull(s)
  BY <1>2 DEF R!should_call_pull, R!HasReadRequest, R!get_desired_size, Same
<1> QED
  BY <1>1, <1>2, <1>3

\* Closing and failing settle the reads that wait.
LEMMA StreamEnds ==
    ASSUME NEW s, ReadableShape(s)
    PROVE  Ends(s, R!readable_stream_close(s)) /\ Ends(s, R!readable_stream_error(s))
<1>1. IsSeq(<<>>)
  BY EmptyIs
<1>2. Ends(s, R!readable_stream_close(s))
  BY <1>1 DEF Ends, ReadableShape, R!readable_stream_close, R!SettleReads, R!Verify, R!can_close_or_enqueue
<1>3. Ends(s, R!readable_stream_error(s))
  BY <1>1 DEF Ends, ReadableShape, R!readable_stream_error, R!SettleReads, R!Verify, R!can_close_or_enqueue
<1> QED
  BY <1>2, <1>3

\* error() and close() of the controller.
LEMMA ControllerEnds ==
    ASSUME NEW s, ReadableShape(s)
    PROVE  Ends(s, R!controller_error(s)) /\ Ends(s, R!controller_close(s))
<1>1. Ends(s, R!controller_error(s))
  <2>1. CASE s.state # "readable"
    BY <2>1 DEF R!controller_error, Ends, R!can_close_or_enqueue
  <2>2. CASE s.state = "readable"
    <3> DEFINE u == [R!clear_algorithms(s) EXCEPT !.queue = <<>>]
    <3>1. ReadableShape(u) /\ u.pulling = s.pulling /\ u.source = s.source /\ u.stack = s.stack
      BY EmptyIs DEF ReadableShape, R!clear_algorithms
    <3>2. R!controller_error(s) = R!readable_stream_error(u)
      BY <2>2 DEF R!controller_error
    <3> HIDE DEF u
    <3> QED
      BY <3>1, <3>2, StreamEnds DEF Ends
  <2> QED
    BY <2>1, <2>2
<1>2. Ends(s, R!controller_close(s))
  <2> DEFINE u == [s EXCEPT !.close_requested = TRUE]
             v == R!clear_algorithms(u)
  <2>1. /\ ReadableShape(u) /\ u.pulling = s.pulling /\ u.source = s.source /\ u.stack = s.stack
        /\ u.close_requested
    BY DEF ReadableShape
  <2>2. /\ ReadableShape(v) /\ v.pulling = s.pulling /\ v.source = s.source /\ v.stack = s.stack
    BY DEF ReadableShape, R!clear_algorithms
  <2>3. \/ ~R!can_close_or_enqueue(s) /\ R!controller_close(s) = s
        \/ R!controller_close(s) = R!readable_stream_close(v)
        \/ R!controller_close(s) = u
    BY DEF R!controller_close
  <2> HIDE DEF u, v
  <2> QED
    BY <2>1, <2>2, <2>3, StreamEnds DEF Ends, R!can_close_or_enqueue
<1> QED
  BY <1>1, <1>2

\* A frame of a callback is pushed.
LEMMA ScriptCalled ==
    ASSUME NEW s, NEW cb \in {"size", "pull", "cancel"}, NEW n, NEW c, ReadableShape(s)
    PROVE  LET u == R!CallScript(s, cb, n, c)
           IN  /\ ReadableShape(u) /\ u.stack = Append(s.stack, R!Frame(cb, n, c))
               /\ u.state = s.state /\ u.reader = s.reader /\ u.read_requests = s.read_requests
               /\ u.queue = s.queue /\ u.close_requested = s.close_requested
               /\ u.started = s.started /\ u.pulling = s.pulling /\ u.pull_again = s.pull_again
               /\ u.source = s.source
<1> DEFINE u == R!CallScript(s, cb, n, c)
           f == R!Frame(cb, n, c)
           q == Append(s.stack, f)
<1>1. f.callback = cb
  BY DEF R!Frame
<1> HIDE DEF f
<1>2. IsSeq(s.stack) /\ \A i \in DOMAIN s.stack : s.stack[i].callback \in {"size", "pull", "cancel"}
  BY DEF ReadableShape, ReadableFrames
<1>3. /\ IsSeq(q) /\ Len(s.stack) \in Nat /\ DOMAIN q = 1 .. Len(s.stack) + 1
      /\ DOMAIN s.stack = 1 .. Len(s.stack) /\ q[Len(s.stack) + 1] = f
      /\ \A i \in 1 .. Len(s.stack) : q[i] = s.stack[i]
  BY <1>2, AppendIs
<1>4. ASSUME NEW i \in DOMAIN q PROVE q[i].callback \in {"size", "pull", "cancel"}
  <2>1. i \in 1 .. Len(s.stack) \/ i = Len(s.stack) + 1
    BY <1>3
  <2> QED
    BY <1>1, <1>2, <1>3, <2>1
<1> HIDE DEF q
<1>5. ReadableFrames(q)
  BY <1>3, <1>4 DEF ReadableFrames
<1>6. /\ DOMAIN u = DOMAIN s /\ u.stack = q
      /\ u.state = s.state /\ u.reader = s.reader /\ u.read_requests = s.read_requests
      /\ u.queue = s.queue /\ u.close_requested = s.close_requested
      /\ u.started = s.started /\ u.pulling = s.pulling /\ u.pull_again = s.pull_again
      /\ u.source = s.source
  BY DEF ReadableShape, R!CallScript, R!Verify, q, f
<1> HIDE DEF u
<1>7. ReadableShape(u)
  BY <1>5, <1>6 DEF ReadableShape
<1> QED
  BY <1>6, <1>7 DEF u, q, f

\* readable_stream_default_controller_can_pull_if_needed
LEMMA PullAsked ==
    ASSUME NEW s, NEW n, NEW c, ReadableShape(s)
    PROVE  Asked(s, R!call_pull_if_needed(s, n, c))
<1> DEFINE u == R!call_pull_if_needed(s, n, c)
<1>1. CASE ~R!should_call_pull(s)
  <2>1. u = R!OnChunk(s, n, c)
    BY <1>1 DEF R!call_pull_if_needed
  <2> HIDE DEF u
  <2>2. Same(s, u)
    BY <2>1, OnChunkSame
  <2> QED
    BY <1>1, <2>2, SameDemand DEF Asked, Same, u
<1>2. CASE R!should_call_pull(s) /\ s.pulling
  <2> DEFINE v == [s EXCEPT !.pull_again = TRUE]
  <2>1. u = R!OnChunk(v, n, c)
    BY <1>2 DEF R!call_pull_if_needed
  <2>2. /\ ReadableShape(v) /\ v.pull_again /\ v.pulling = s.pulling /\ v.stack = s.stack
        /\ v.source = s.source
    BY DEF ReadableShape
  <2>3. /\ R!can_close_or_enqueue(v) <=> R!can_close_or_enqueue(s)
        /\ R!should_call_pull(v) <=> R!should_call_pull(s)
    BY DEF R!should_call_pull, R!HasReadRequest, R!get_desired_size, R!can_close_or_enqueue, ReadableShape
  <2> HIDE DEF u, v
  <2>4. Same(v, u)
    BY <2>1, <2>2, OnChunkSame
  <2>5. ReadableShape(u) /\ (R!can_close_or_enqueue(u) <=> R!can_close_or_enqueue(v)) /\ (R!should_call_pull(u) <=> R!should_call_pull(v))
    BY <2>2, <2>4, SameDemand
  <2> QED
    BY <1>2, <2>2, <2>3, <2>4, <2>5 DEF Asked, Same, u
<1>3. CASE R!should_call_pull(s) /\ ~s.pulling
  <2> DEFINE v == [R!Verify(s, ~s.pull_again) EXCEPT !.pulling = TRUE, !.heard = Len(s.reads)]
             f == R!Frame("pull", n, c)
  <2>1. u = R!CallScript(v, "pull", n, c)
    BY <1>3 DEF R!call_pull_if_needed
  <2>2. /\ ReadableShape(v) /\ v.stack = s.stack /\ v.source = s.source
        /\ v.state = s.state /\ v.reader = s.reader /\ v.read_requests = s.read_requests
        /\ v.queue = s.queue /\ v.close_requested = s.close_requested /\ v.started = s.started
    BY DEF ReadableShape, R!Verify
  <2>3. f.callback = "pull"
    BY DEF R!Frame
  <2> HIDE DEF u, v, f
  <2>4. /\ ReadableShape(u) /\ u.stack = Append(s.stack, f) /\ u.source = s.source
        /\ u.state = s.state /\ u.reader = s.reader /\ u.read_requests = s.read_requests
        /\ u.queue = s.queue /\ u.close_requested = s.close_requested /\ u.started = s.started
    BY <2>1, <2>2, ScriptCalled DEF f
  <2>5. /\ R!can_close_or_enqueue(u) <=> R!can_close_or_enqueue(s)
        /\ R!should_call_pull(u) <=> R!should_call_pull(s)
    BY <2>4 DEF R!should_call_pull, R!HasReadRequest, R!get_desired_size, R!can_close_or_enqueue
  <2> QED
    BY <1>3, <2>3, <2>4, <2>5 DEF Asked, u
<1> QED
  BY <1>1, <1>2, <1>3

\* A step that ends with call_pull_if_needed(): pull() is called if there is
\* demand, or will be when the pull() that is outstanding is over.
Pulls(s, u) ==
    /\ ReadableShape(u)
    /\ \/ ~R!should_call_pull(u) /\ u.stack = s.stack /\ u.pulling = s.pulling
       \/ /\ R!should_call_pull(u) /\ u.stack = s.stack /\ u.pulling = s.pulling
          /\ s.pulling /\ u.pull_again
       \/ R!should_call_pull(u) /\ \E f : u.stack = Append(s.stack, f) /\ f.callback = "pull"

\* The demand does not fall, unless the stream ends.
Keeps(s, u) ==
    R!can_close_or_enqueue(u) =>
        R!can_close_or_enqueue(s) /\ (R!should_call_pull(s) => R!should_call_pull(u))

\* pull_steps() of the controller.
LEMMA PullSteps ==
    ASSUME NEW s, ReadableShape(s), s.reader # 0
    PROVE  LET u == R!pull_steps(s) IN Pulls(s, u) /\ u.source = s.source /\ Keeps(s, u)
<1> DEFINE u == R!pull_steps(s)
<1>1. CASE s.queue = <<>>
  <2> DEFINE v == R!readable_stream_add_read_request(s)
  <2>1. u = R!call_pull_if_needed(v, 0, 0)
    BY <1>1 DEF R!pull_steps
  <2>2. /\ IsSeq(s.read_requests) /\ IsSeq(Append(s.read_requests, Len(s.reads)))
        /\ Append(s.read_requests, Len(s.reads)) # <<>>
    BY AppendIs DEF ReadableShape
  <2>3. /\ ReadableShape(v) /\ v.stack = s.stack /\ v.pulling = s.pulling /\ v.source = s.source
        /\ v.reader = s.reader /\ v.read_requests # <<>> /\ v.started = s.started
        /\ v.state = s.state /\ v.close_requested = s.close_requested
    BY <2>2 DEF ReadableShape, R!readable_stream_add_read_request, R!Verify
  <2> HIDE DEF u, v
  <2>4. /\ R!can_close_or_enqueue(v) <=> R!can_close_or_enqueue(s)
        /\ R!should_call_pull(s) => R!should_call_pull(v)
    BY <2>3 DEF R!can_close_or_enqueue, R!should_call_pull, R!HasReadRequest
  <2>5. Asked(v, u)
    BY <2>1, <2>3, PullAsked
  <2> QED
    BY <2>3, <2>4, <2>5 DEF Asked, Pulls, Keeps, u
<1>2. CASE s.queue # <<>>
  <2> DEFINE v == [s EXCEPT !.queue = Tail(@)]
             x == R!readable_stream_close(R!clear_algorithms(v))
  <2>1. IsSeq(Tail(s.queue)) /\ Len(Tail(s.queue)) = Len(s.queue) - 1 /\ Len(s.queue) \in Nat
    BY <1>2, TailIs DEF ReadableShape
  <2>2. /\ ReadableShape(v) /\ v.stack = s.stack /\ v.pulling = s.pulling /\ v.source = s.source
        /\ v.reader = s.reader /\ v.read_requests = s.read_requests /\ v.started = s.started
        /\ v.state = s.state /\ v.close_requested = s.close_requested /\ v.queue = Tail(s.queue)
    BY <2>1 DEF ReadableShape
  <2>3. \/ u = R!OnChunk(x, Len(s.reads), Head(s.queue))
        \/ u = R!call_pull_if_needed(v, Len(s.reads), Head(s.queue))
    BY <1>2 DEF R!pull_steps
  <2> HIDE DEF v
  <2>4. ReadableShape(R!clear_algorithms(v)) /\ Ends(R!clear_algorithms(v), x)
    <3>1. ReadableShape(R!clear_algorithms(v))
      BY <2>2 DEF ReadableShape, R!clear_algorithms
    <3> QED
      BY <3>1, StreamEnds
  <2>5. x.stack = s.stack /\ x.pulling = s.pulling /\ x.source = s.source
    BY <2>2, <2>4 DEF Ends, R!clear_algorithms, ReadableShape
  <2> HIDE DEF u, x
  <2>6. CASE u = R!OnChunk(x, Len(s.reads), Head(s.queue))
    <3>1. Same(x, u)
      BY <2>4, <2>6, OnChunkSame DEF Ends
    <3>2. ReadableShape(u) /\ ~R!can_close_or_enqueue(u) /\ ~R!should_call_pull(u)
      BY <2>4, <3>1, SameDemand DEF Ends, R!should_call_pull
    <3> QED
      BY <2>5, <3>1, <3>2 DEF Same, Pulls, Keeps, u
  <2>7. CASE u = R!call_pull_if_needed(v, Len(s.reads), Head(s.queue))
    <3>1. Asked(v, u)
      BY <2>2, <2>7, PullAsked
    <3>2. R!can_close_or_enqueue(v) <=> R!can_close_or_enqueue(s)
      BY <2>2 DEF R!can_close_or_enqueue
    <3>3. R!get_desired_size(s) > 0 => R!get_desired_size(v) > 0
      BY <2>1, <2>2, TransformBounds DEF R!get_desired_size
    <3>4. R!should_call_pull(s) => R!should_call_pull(v)
      BY <2>2, <3>2, <3>3 DEF R!should_call_pull, R!HasReadRequest
    <3> QED
      BY <2>2, <3>1, <3>2, <3>4 DEF Asked, Pulls, Keeps, u
  <2> QED
    BY <2>3, <2>6, <2>7
<1> QED
  BY <1>1, <1>2

\* read() of the reader.
LEMMA ReadStep ==
    ASSUME ReadableShape(r), R!read
    PROVE  Pulls(r, r') /\ r'.source = r.source /\ Keeps(r, r')
<1>1. CASE r.state \in {"closed", "errored"}
  <2>1. PICK x : r' = [r EXCEPT !.reads = Append(@, x)]
    BY <1>1 DEF R!read
  <2>2. Same(r, r')
    BY <2>1 DEF Same, ReadableShape
  <2>3. ReadableShape(r') /\ ~R!can_close_or_enqueue(r') /\ ~R!should_call_pull(r')
    BY <1>1, <2>2, SameDemand DEF R!should_call_pull, R!can_close_or_enqueue, Same
  <2> QED
    BY <2>2, <2>3 DEF Pulls, Keeps, Same
<1>2. CASE r.state \notin {"closed", "errored"}
  <2> DEFINE s == [r EXCEPT !.reads = Append(@, R!Waiting)]
  <2>1. r' = R!pull_steps(s) /\ r.reader # 0
    BY <1>2 DEF R!read
  <2>2. Same(r, s)
    BY DEF Same, ReadableShape
  <2> HIDE DEF s
  <2>3. /\ ReadableShape(s) /\ s.reader # 0
        /\ R!can_close_or_enqueue(s) <=> R!can_close_or_enqueue(r)
        /\ R!should_call_pull(s) <=> R!should_call_pull(r)
    BY <2>1, <2>2, SameDemand DEF Same
  <2>4. Pulls(s, r') /\ r'.source = s.source /\ Keeps(s, r')
    BY <2>1, <2>3, PullSteps
  <2> QED
    BY <2>2, <2>3, <2>4 DEF Same, Pulls, Keeps
<1> QED
  BY <1>1, <1>2

\* cancel() of the stream.
LEMMA CancelStep ==
    ASSUME ReadableShape(r), R!cancel
    PROVE  /\ ReadableShape(r') /\ ~R!can_close_or_enqueue(r')
           /\ r'.pulling = r.pulling /\ r'.source = r.source
           /\ \E f : r'.stack = Append(r.stack, f) /\ f.callback = "cancel"
<1> DEFINE c == R!readable_stream_close(r)
           s == [c EXCEPT !.queue = <<>>, !.canceled = "pending"]
           f == R!Frame("cancel", 0, 0)
<1>1. Ends(r, c)
  BY StreamEnds
<1>2. r' = R!CallScript(s, "cancel", 0, 0)
  BY DEF R!cancel
<1> HIDE DEF c
<1>3. /\ ReadableShape(s) /\ s.pulling = c.pulling /\ s.source = c.source /\ s.stack = c.stack
      /\ s.state = c.state /\ s.close_requested = c.close_requested
  BY <1>1, EmptyIs DEF Ends, ReadableShape
<1> HIDE DEF s
<1>4. f.callback = "cancel"
  BY DEF R!Frame
<1>5. /\ ReadableShape(r') /\ r'.stack = Append(s.stack, f) /\ r'.pulling = s.pulling
      /\ r'.source = s.source /\ r'.state = s.state /\ r'.close_requested = s.close_requested
  BY <1>2, <1>3, ScriptCalled DEF f
<1> HIDE DEF f
<1> QED
  BY <1>1, <1>3, <1>4, <1>5 DEF Ends, R!can_close_or_enqueue

\* enqueue() of the controller: a read gets the chunk, or size() is called.
LEMMA EnqueueStep ==
    ASSUME ReadableShape(r), R!enqueue
    PROVE  /\ ReadableShape(r') /\ r'.source = r.source
           /\ \/ Pulls(r, r')
              \/ /\ \E f : r'.stack = Append(r.stack, f) /\ f.callback = "size"
                 /\ r'.pulling = r.pulling /\ r'.pull_again = r.pull_again
                 /\ R!should_call_pull(r') <=> R!should_call_pull(r)
<1> DEFINE s == [r EXCEPT !.calls = @ + 1]
           d == R!readable_stream_fulfill_read_request(s)
           f == R!Frame("size", 0, 0)
<1>1. Same(r, s)
  BY DEF Same, ReadableShape
<1>2. \/ R!HasReadRequest(s) /\ r' = R!call_pull_if_needed(d, 0, 0)
      \/ r' = R!CallScript(s, "size", 0, 0)
  BY DEF R!enqueue
<1> HIDE DEF s
<1>3. ReadableShape(s) /\ (R!should_call_pull(s) <=> R!should_call_pull(r))
  BY <1>1, SameDemand
<1>4. CASE R!HasReadRequest(s) /\ r' = R!call_pull_if_needed(d, 0, 0)
  <2> DEFINE x == R!OnChunk(s, Head(s.read_requests), s.chunks + 1)
  <2>1. Same(s, x)
    BY <1>3, OnChunkSame
  <2>2. d = [x EXCEPT !.chunks = @ + 1, !.read_requests = Tail(@)]
    BY DEF R!readable_stream_fulfill_read_request
  <2> HIDE DEF x, d
  <2>3. ReadableShape(x) /\ IsSeq(Tail(x.read_requests))
    <3>1. ReadableShape(x)
      BY <1>3, <2>1, SameDemand
    <3>2. IsSeq(x.read_requests) /\ x.read_requests # <<>>
      BY <1>4, <2>1, <3>1 DEF ReadableShape, R!HasReadRequest, Same
    <3> QED
      BY <3>1, <3>2, TailIs
  <2>4. ReadableShape(d) /\ d.stack = x.stack /\ d.pulling = x.pulling /\ d.source = x.source
    BY <2>2, <2>3 DEF ReadableShape
  <2>5. Asked(d, r')
    BY <1>4, <2>4, PullAsked
  <2> QED
    BY <1>1, <2>1, <2>4, <2>5 DEF Same, Asked, Pulls
<1>5. CASE r' = R!CallScript(s, "size", 0, 0)
  <2>1. f.callback = "size"
    BY DEF R!Frame
  <2>2. /\ ReadableShape(r') /\ r'.stack = Append(s.stack, f)
        /\ r'.state = s.state /\ r'.reader = s.reader /\ r'.read_requests = s.read_requests
        /\ r'.queue = s.queue /\ r'.close_requested = s.close_requested
        /\ r'.started = s.started /\ r'.pulling = s.pulling /\ r'.pull_again = s.pull_again
        /\ r'.source = s.source
    BY <1>3, <1>5, ScriptCalled DEF f
  <2> HIDE DEF f
  <2>3. R!should_call_pull(r') <=> R!should_call_pull(s)
    BY <2>2 DEF R!should_call_pull, R!HasReadRequest, R!get_desired_size, R!can_close_or_enqueue
  <2> QED
    BY <1>1, <1>3, <2>1, <2>2, <2>3 DEF Same
<1> QED
  BY <1>2, <1>4, <1>5

\* The frame on top is popped.
LEMMA PoppedIs ==
    ASSUME ReadableShape(r), r.stack # <<>>
    PROVE  LET u == R!Popped
           IN  /\ ReadableShape(u) /\ u.stack = Front(r.stack) /\ DOMAIN u = DOMAIN r
               /\ u.state = r.state /\ u.reader = r.reader /\ u.read_requests = r.read_requests
               /\ u.queue = r.queue /\ u.close_requested = r.close_requested
               /\ u.started = r.started /\ u.pulling = r.pulling /\ u.pull_again = r.pull_again
               /\ u.source = r.source
<1> DEFINE u == R!Popped
           q == Front(r.stack)
<1>1. IsSeq(r.stack) /\ \A i \in DOMAIN r.stack : r.stack[i].callback \in {"size", "pull", "cancel"}
  BY DEF ReadableShape, ReadableFrames
<1>2. /\ IsSeq(q) /\ Len(r.stack) \in Nat /\ DOMAIN q = 1 .. Len(r.stack) - 1
      /\ DOMAIN r.stack = 1 .. Len(r.stack) /\ \A i \in 1 .. Len(r.stack) - 1 : q[i] = r.stack[i]
  BY <1>1, FrontIs
<1>3. R!Front(r.stack) = q
  BY SameOperators
<1> HIDE DEF q
<1>4. ReadableFrames(q)
  BY <1>1, <1>2 DEF ReadableFrames
<1>5. /\ DOMAIN u = DOMAIN r /\ u.stack = q
      /\ u.state = r.state /\ u.reader = r.reader /\ u.read_requests = r.read_requests
      /\ u.queue = r.queue /\ u.close_requested = r.close_requested
      /\ u.started = r.started /\ u.pulling = r.pulling /\ u.pull_again = r.pull_again
      /\ u.source = r.source
  BY <1>3 DEF ReadableShape, R!Popped
<1> HIDE DEF u
<1>6. ReadableShape(u)
  BY <1>4, <1>5 DEF ReadableShape
<1> QED
  BY <1>5, <1>6 DEF u, q

\* size() has returned, and the chunk is in the queue.
LEMMA SizeStep ==
    ASSUME ReadableShape(r), R!SizeReturns
    PROVE  r.stack # <<>> /\ Pulls(R!Popped, r') /\ r'.source = r.source
<1> DEFINE p == R!Popped
           b == p.reentered \/ ~R!can_close_or_enqueue(r) \/ r.read_requests # <<>>
           s == [p EXCEPT !.chunks = @ + 1, !.queue = Append(@, r.chunks + 1), !.reentered = b]
<1>1. r.stack # <<>> /\ r' = R!call_pull_if_needed(s, 0, 0)
  BY DEF R!SizeReturns, R!Top
<1>2. ReadableShape(p) /\ p.source = r.source
  BY <1>1, PoppedIs
<1> HIDE DEF p, b
<1>3. IsSeq(Append(p.queue, r.chunks + 1))
  BY <1>2, AppendIs DEF ReadableShape
<1>4. ReadableShape(s) /\ s.stack = p.stack /\ s.pulling = p.pulling /\ s.source = p.source
  BY <1>2, <1>3 DEF ReadableShape
<1> HIDE DEF s
<1>5. Asked(s, r')
  BY <1>1, <1>4, PullAsked
<1> QED
  BY <1>1, <1>2, <1>4, <1>5 DEF Asked, Pulls, p

\* size() has failed, and the stream with it.
LEMMA SizeFailsStep ==
    ASSUME ReadableShape(r), R!SizeFails
    PROVE  r.stack # <<>> /\ Ends(R!Popped, r') /\ r'.source = r.source
<1>1. r.stack # <<>> /\ r' = R!controller_error(R!Popped)
  BY DEF R!SizeFails, R!Top
<1>2. ReadableShape(R!Popped) /\ R!Popped.source = r.source
  BY <1>1, PoppedIs
<1>3. Ends(R!Popped, r')
  BY <1>1, <1>2, ControllerEnds
<1> QED
  BY <1>1, <1>2, <1>3 DEF Ends

\* pull() and cancel() of the source have returned.
LEMMA SourceStep ==
    ASSUME NEW cb \in {"pull", "cancel"}, ReadableShape(r),
           cb = "pull" => R!PullReturns, cb = "cancel" => R!CancelReturns
    PROVE  /\ r.stack # <<>> /\ ReadableShape(r') /\ r'.stack = Front(r.stack)
           /\ r'.source = r.source \cup {cb} /\ r'.pulling = r.pulling
           /\ r'.pull_again = r.pull_again
           /\ R!can_close_or_enqueue(r') <=> R!can_close_or_enqueue(r)
           /\ R!should_call_pull(r') <=> R!should_call_pull(r)
<1> DEFINE p == R!Popped
           x == R!OnChunk(p, R!Last(r.stack).read, R!Last(r.stack).chunk)
<1>1. r.stack # <<>>
  BY DEF R!PullReturns, R!CancelReturns, R!Top
<1>2. /\ ReadableShape(p) /\ p.stack = Front(r.stack)
      /\ p.state = r.state /\ p.reader = r.reader /\ p.read_requests = r.read_requests
      /\ p.queue = r.queue /\ p.close_requested = r.close_requested
      /\ p.started = r.started /\ p.pulling = r.pulling /\ p.pull_again = r.pull_again
      /\ p.source = r.source
  BY <1>1, PoppedIs
<1>3. \/ cb = "pull" /\ r' = [x EXCEPT !.source = @ \cup {"pull"}]
      \/ cb = "cancel" /\ r' = [R!clear_algorithms(p) EXCEPT !.source = @ \cup {"cancel"}]
  BY DEF R!PullReturns, R!CancelReturns
<1> HIDE DEF p
<1>4. Same(p, x)
  BY <1>2, OnChunkSame
<1> HIDE DEF x
<1>5. /\ DOMAIN r' = DOMAIN p /\ r'.stack = p.stack
      /\ r'.state = p.state /\ r'.reader = p.reader /\ r'.read_requests = p.read_requests
      /\ r'.queue = p.queue /\ r'.close_requested = p.close_requested
      /\ r'.started = p.started /\ r'.pulling = p.pulling /\ r'.pull_again = p.pull_again
      /\ r'.source = p.source \cup {cb}
  <2>1. CASE cb = "pull" /\ r' = [x EXCEPT !.source = @ \cup {"pull"}]
    BY <1>2, <1>4, <2>1 DEF Same, ReadableShape
  <2>2. CASE cb = "cancel" /\ r' = [R!clear_algorithms(p) EXCEPT !.source = @ \cup {"cancel"}]
    BY <1>2, <2>2 DEF ReadableShape, R!clear_algorithms
  <2> QED
    BY <1>3, <2>1, <2>2
<1>6. ReadableShape(r')
  BY <1>2, <1>5 DEF ReadableShape
<1>7. R!can_close_or_enqueue(r') <=> R!can_close_or_enqueue(r)
  BY <1>2, <1>5 DEF R!can_close_or_enqueue
<1>8. R!should_call_pull(r') <=> R!should_call_pull(r)
  BY <1>2, <1>5, <1>7 DEF R!should_call_pull, R!HasReadRequest, R!get_desired_size
<1> QED
  BY <1>1, <1>2, <1>5, <1>6, <1>7, <1>8

\* start() of the source is over.
LEMMA StartStep ==
    ASSUME ReadableShape(r), R!StartFulfilled
    PROVE  Pulls(r, r') /\ r'.source \subseteq r.source /\ Keeps(r, r')
<1> DEFINE d == R!Done("start")
           s == [R!Verify(d, ~r.pulling /\ ~r.pull_again) EXCEPT !.started = TRUE]
<1>1. r' = R!call_pull_if_needed(s, 0, 0)
  BY DEF R!StartFulfilled
<1>2. /\ DOMAIN d = DOMAIN r /\ d.stack = r.stack
      /\ d.state = r.state /\ d.reader = r.reader /\ d.read_requests = r.read_requests
      /\ d.queue = r.queue /\ d.close_requested = r.close_requested
      /\ d.pulling = r.pulling /\ d.source = r.source \ {"start"}
  BY DEF R!Done, ReadableShape
<1> HIDE DEF d
<1>3. /\ DOMAIN s = DOMAIN d /\ s.stack = d.stack
      /\ s.state = d.state /\ s.reader = d.reader /\ s.read_requests = d.read_requests
      /\ s.queue = d.queue /\ s.close_requested = d.close_requested /\ s.started
      /\ s.pulling = d.pulling /\ s.source = d.source
  BY <1>2 DEF R!Verify, ReadableShape
<1> HIDE DEF s
<1>4. ReadableShape(s)
  BY <1>2, <1>3 DEF ReadableShape
<1>5. R!can_close_or_enqueue(s) <=> R!can_close_or_enqueue(r)
  BY <1>2, <1>3 DEF R!can_close_or_enqueue
<1>6. R!should_call_pull(r) => R!should_call_pull(s)
  BY <1>2, <1>3, <1>5 DEF R!should_call_pull, R!HasReadRequest, R!get_desired_size
<1>7. Asked(s, r')
  BY <1>1, <1>4, PullAsked
<1> QED
  BY <1>2, <1>3, <1>4, <1>5, <1>6, <1>7 DEF Asked, Pulls, Keeps

\* start() has failed, and the stream with it.
LEMMA StartRejectedStep ==
    ASSUME ReadableShape(r), R!SourceRejects("start")
    PROVE  /\ ReadableShape(r') /\ ~R!can_close_or_enqueue(r')
           /\ r'.pulling = r.pulling /\ r'.source \subseteq r.source /\ r'.stack = r.stack
<1>1. r' = R!controller_error(R!Done("start"))
  BY DEF R!SourceRejects
<1>2. /\ ReadableShape(R!Done("start")) /\ R!Done("start").pulling = r.pulling
      /\ R!Done("start").source \subseteq r.source /\ R!Done("start").stack = r.stack
  BY DEF R!Done, ReadableShape
<1> QED
  BY <1>1, <1>2, ControllerEnds DEF Ends

\* The promise of cancel() is settled.
LEMMA CanceledStep ==
    ASSUME NEW o, ReadableShape(r), R!CancelSettled(o)
    PROVE  /\ ReadableShape(r') /\ r'.stack = r.stack /\ r'.source \subseteq r.source
           /\ "cancel" \in r.source
           /\ r'.pulling = r.pulling /\ r'.pull_again = r.pull_again
           /\ R!can_close_or_enqueue(r') <=> R!can_close_or_enqueue(r)
           /\ R!should_call_pull(r') <=> R!should_call_pull(r)
<1>1. /\ DOMAIN r' = DOMAIN r /\ r'.stack = r.stack
      /\ r'.state = r.state /\ r'.reader = r.reader /\ r'.read_requests = r.read_requests
      /\ r'.queue = r.queue /\ r'.close_requested = r.close_requested
      /\ r'.started = r.started /\ r'.pulling = r.pulling /\ r'.pull_again = r.pull_again
      /\ r'.source \subseteq r.source /\ "cancel" \in r.source
  BY DEF R!CancelSettled, R!Settled, R!Done, ReadableShape
<1>2. ReadableShape(r')
  BY <1>1 DEF ReadableShape
<1>3. R!can_close_or_enqueue(r') <=> R!can_close_or_enqueue(r)
  BY <1>1 DEF R!can_close_or_enqueue
<1>4. R!should_call_pull(r') <=> R!should_call_pull(r)
  BY <1>1, <1>3 DEF R!should_call_pull, R!HasReadRequest, R!get_desired_size
<1> QED
  BY <1>1, <1>2, <1>3, <1>4

\* The promise of pull() is fulfilled; the demand is that of before.
LEMMA PulledStep ==
    ASSUME ReadableShape(r), R!PullFulfilled
    PROVE  /\ ReadableShape(r') /\ r.stack = <<>> /\ r'.source \subseteq r.source
           /\ R!can_close_or_enqueue(r') <=> R!can_close_or_enqueue(r)
           /\ R!should_call_pull(r') <=> R!should_call_pull(r)
           /\ \/ /\ r'.stack = <<>> /\ ~r'.pulling
                 /\ ~R!should_call_pull(r') \/ ~r.pull_again
              \/ /\ R!should_call_pull(r')
                 /\ \E f : r'.stack = Append(<<>>, f) /\ f.callback = "pull"
<1> DEFINE d == R!Done("pull")
           s == [d EXCEPT !.pulling = FALSE, !.pull_again = FALSE]
<1>1. /\ r.stack = <<>> /\ r.pull_again => r' = R!call_pull_if_needed(s, 0, 0)
      /\ ~r.pull_again => r' = s
  BY DEF R!PullFulfilled, R!Settled
<1>2. /\ DOMAIN s = DOMAIN r /\ s.stack = r.stack
      /\ s.state = r.state /\ s.reader = r.reader /\ s.read_requests = r.read_requests
      /\ s.queue = r.queue /\ s.close_requested = r.close_requested /\ s.started = r.started
      /\ ~s.pulling /\ s.source \subseteq r.source
  BY DEF R!Done, ReadableShape
<1> HIDE DEF s
<1>3. ReadableShape(s)
  BY <1>2 DEF ReadableShape
<1>4. R!can_close_or_enqueue(s) <=> R!can_close_or_enqueue(r)
  BY <1>2 DEF R!can_close_or_enqueue
<1>5. R!should_call_pull(s) <=> R!should_call_pull(r)
  BY <1>2, <1>4 DEF R!should_call_pull, R!HasReadRequest, R!get_desired_size
<1>6. r.stack = <<>>
  BY DEF R!PullFulfilled, R!Settled
<1>7. CASE r.pull_again
  <2>1. Asked(s, r')
    BY <1>1, <1>3, <1>6, <1>7, PullAsked
  <2>2. \/ ~R!should_call_pull(s) /\ r'.stack = s.stack /\ r'.pulling = s.pulling
        \/ R!should_call_pull(s) /\ \E f : r'.stack = Append(s.stack, f) /\ f.callback = "pull"
    BY <1>2, <2>1 DEF Asked
  <2> QED
    BY <1>2, <1>4, <1>5, <1>6, <2>1, <2>2 DEF Asked
<1>8. CASE ~r.pull_again
  BY <1>1, <1>2, <1>3, <1>4, <1>5, <1>6, <1>8
<1> QED
  BY <1>7, <1>8

----------------------------------------------------------------------------
(* What the functions of the writable side do to the fields used here. *)

\* The sink's promises are the same, and a stream that is not open stays so.
Follows(s, u) ==
    /\ WritableShape(u) /\ u.sink = s.sink
    /\ s.state # "writable" => u.state # "writable"

\* One function after another.
LEMMA FollowsOn ==
    ASSUME NEW s, NEW u, NEW v, Follows(s, u), Follows(u, v)
    PROVE  Follows(s, v)
BY DEF Follows

\* Assertions, promises and frames.
LEMMA FollowsPlain ==
    ASSUME NEW s, NEW c, NEW q, NEW o, WritableShape(s)
    PROVE  /\ WritableShape(W!Verify(s, c)) /\ W!Verify(s, c).sink = s.sink
           /\ W!Verify(s, c).state = s.state
           /\ WritableShape(W!Settle(s, q, o)) /\ W!Settle(s, q, o).sink = s.sink
           /\ W!Settle(s, q, o).state = s.state
           /\ WritableShape(W!SettleClosed(s, o)) /\ W!SettleClosed(s, o).sink = s.sink
           /\ W!SettleClosed(s, o).state = s.state
           /\ WritableShape(W!CallScript(s, o)) /\ W!CallScript(s, o).sink = s.sink
           /\ W!CallScript(s, o).state = s.state
           /\ WritableShape(W!clear_algorithms(s)) /\ W!clear_algorithms(s).sink = s.sink
           /\ W!clear_algorithms(s).state = s.state
<1>1. /\ WritableShape(W!Verify(s, c)) /\ W!Verify(s, c).sink = s.sink
      /\ W!Verify(s, c).state = s.state
  BY DEF WritableShape, W!Verify
<1>2. /\ WritableShape(W!Settle(s, q, o)) /\ W!Settle(s, q, o).sink = s.sink
      /\ W!Settle(s, q, o).state = s.state
  BY DEF WritableShape, W!Settle
<1>3. /\ WritableShape(W!SettleClosed(s, o)) /\ W!SettleClosed(s, o).sink = s.sink
      /\ W!SettleClosed(s, o).state = s.state
  BY DEF WritableShape, W!SettleClosed
<1>4. /\ WritableShape(W!CallScript(s, o)) /\ W!CallScript(s, o).sink = s.sink
      /\ W!CallScript(s, o).state = s.state
  BY DEF WritableShape, W!CallScript
<1>5. /\ WritableShape(W!clear_algorithms(s)) /\ W!clear_algorithms(s).sink = s.sink
      /\ W!clear_algorithms(s).state = s.state
  BY DEF WritableShape, W!clear_algorithms
<1> QED
  BY <1>1, <1>2, <1>3, <1>4, <1>5

\* writable_stream_reject_close_and_closed_promise_if_needed
LEMMA FollowsReject ==
    ASSUME NEW s, WritableShape(s)
    PROVE  LET u == W!reject_close_and_closed_promise_if_needed(s)
           IN  WritableShape(u) /\ u.sink = s.sink /\ u.state = s.state
<1> DEFINE c == s.state = "errored" /\ (s.close_request => ~s.in_flight_close_request)
           v == W!Verify(s, c)
           x == W!Settle(v, W!Close, "rejected")
           y == [x EXCEPT !.close_request = FALSE]
           z == IF v.close_request THEN y ELSE v
           u == W!reject_close_and_closed_promise_if_needed(s)
<1>1. u = IF z.writer # 0 THEN W!SettleClosed(z, "rejected") ELSE z
  BY DEF W!reject_close_and_closed_promise_if_needed
<1> HIDE DEF c, u
<1>2. WritableShape(v) /\ v.sink = s.sink /\ v.state = s.state
  BY FollowsPlain
<1> HIDE DEF v
<1>3. WritableShape(x) /\ x.sink = v.sink /\ x.state = v.state
  BY <1>2, FollowsPlain
<1> HIDE DEF x
<1>4. WritableShape(y) /\ y.sink = x.sink /\ y.state = x.state
  BY <1>3 DEF WritableShape
<1> HIDE DEF y
<1>5. WritableShape(z) /\ z.sink = s.sink /\ z.state = s.state
  BY <1>2, <1>3, <1>4
<1> HIDE DEF z
<1>6. WritableShape(u) /\ u.sink = z.sink /\ u.state = z.state
  BY <1>1, <1>5, FollowsPlain
<1> QED
  BY <1>5, <1>6 DEF u

\* writable_stream_finish_erroring
LEMMA FollowsFinish ==
    ASSUME NEW s, WritableShape(s)
    PROVE  LET u == W!writable_stream_finish_erroring(s)
           IN  WritableShape(u) /\ u.sink = s.sink /\ u.state = "errored"
<1> DEFINE c == s.state = "erroring" /\ ~W!writable_stream_has_operation_marked_in_flight(s)
           v == W!Verify(s, c)
           p == [q \in W!Requests |-> IF q \in W!Range(v.write_requests) THEN "rejected"
                                     ELSE v.promises[q]]
           x == [v EXCEPT !.state = "errored", !.queue = <<>>, !.write_requests = <<>>,
                          !.pending_abort_request = "none", !.promises = p]
           y == W!Settle(x, W!Abort, "rejected")
           z == W!Verify(x, x.algorithms)
           u == W!writable_stream_finish_erroring(s)
<1>1. \/ u = W!reject_close_and_closed_promise_if_needed(x)
      \/ u = W!reject_close_and_closed_promise_if_needed(y)
      \/ u = W!CallScript(z, "abort")
  BY DEF W!writable_stream_finish_erroring
<1> HIDE DEF c, u, p
<1>2. WritableShape(v) /\ v.sink = s.sink
  BY FollowsPlain
<1> HIDE DEF v
<1>3. WritableShape(x) /\ x.sink = v.sink /\ x.state = "errored"
  BY <1>2 DEF WritableShape
<1> HIDE DEF x
<1>4. /\ WritableShape(y) /\ y.sink = x.sink /\ y.state = x.state
      /\ WritableShape(z) /\ z.sink = x.sink /\ z.state = x.state
  BY <1>3, FollowsPlain
<1> HIDE DEF y, z
<1>5. WritableShape(u) /\ u.sink = x.sink /\ u.state = x.state
  <2>1. CASE u = W!reject_close_and_closed_promise_if_needed(x)
    BY <1>3, <2>1, FollowsReject
  <2>2. CASE u = W!reject_close_and_closed_promise_if_needed(y)
    BY <1>4, <2>2, FollowsReject
  <2>3. CASE u = W!CallScript(z, "abort")
    BY <1>4, <2>3, FollowsPlain
  <2> QED
    BY <1>1, <2>1, <2>2, <2>3
<1> QED
  BY <1>2, <1>3, <1>5 DEF u

\* writable_stream_start_erroring and deal_with_rejection
LEMMA FollowsErroring ==
    ASSUME NEW s, WritableShape(s)
    PROVE  /\ LET u == W!writable_stream_start_erroring(s)
              IN  WritableShape(u) /\ u.sink = s.sink /\ u.state \in {"erroring", "errored"}
           /\ LET u == W!writable_stream_deal_with_rejection(s)
              IN  WritableShape(u) /\ u.sink = s.sink /\ u.state \in {"erroring", "errored"}
           /\ LET u == W!controller_error_if_needed(s)
              IN  WritableShape(u) /\ u.sink = s.sink /\ u.state # "writable"
<1>1. ASSUME NEW a, WritableShape(a)
      PROVE  LET u == W!writable_stream_start_erroring(a)
             IN  WritableShape(u) /\ u.sink = a.sink /\ u.state \in {"erroring", "errored"}
  <2> DEFINE v == W!Verify(a, ~a.stored_error /\ a.state = "writable")
             x == [v EXCEPT !.state = "erroring", !.stored_error = TRUE,
                            !.ready = IF v.writer # 0 THEN "rejected" ELSE @]
             u == W!writable_stream_start_erroring(a)
  <2>1. u = x \/ u = W!writable_stream_finish_erroring(x)
    BY DEF W!writable_stream_start_erroring
  <2> HIDE DEF u
  <2>2. WritableShape(v) /\ v.sink = a.sink
    BY <1>1 DEF WritableShape, W!Verify
  <2> HIDE DEF v
  <2>3. WritableShape(x) /\ x.sink = v.sink /\ x.state = "erroring"
    BY <2>2 DEF WritableShape
  <2> HIDE DEF x
  <2> QED
    BY <2>1, <2>2, <2>3, FollowsFinish DEF u
<1>2. LET u == W!writable_stream_deal_with_rejection(s)
      IN  WritableShape(u) /\ u.sink = s.sink /\ u.state \in {"erroring", "errored"}
  BY <1>1, FollowsFinish DEF W!writable_stream_deal_with_rejection
<1>3. LET u == W!controller_error_if_needed(s)
      IN  WritableShape(u) /\ u.sink = s.sink /\ u.state # "writable"
  <2>1. WritableShape(W!clear_algorithms(s)) /\ W!clear_algorithms(s).sink = s.sink
    BY FollowsPlain
  <2> QED
    BY <1>1, <2>1 DEF W!controller_error_if_needed
<1> QED
  BY <1>1, <1>2, <1>3

\* The functions of the queue leave the state of the stream alone.
LEMMA FollowsQueue ==
    ASSUME NEW s, WritableShape(s)
    PROVE  /\ LET u == W!dequeue_value(s)
              IN  WritableShape(u) /\ u.sink = s.sink /\ u.state = s.state
           /\ LET u == W!UpdateBackpressureIfOpen(s)
              IN  WritableShape(u) /\ u.sink = s.sink /\ u.state = s.state
           /\ LET u == W!process_close(s)
              IN  WritableShape(u) /\ u.sink = s.sink /\ u.state = s.state
           /\ LET u == W!process_write(s)
              IN  WritableShape(u) /\ u.sink = s.sink /\ u.state = s.state
<1>1. ASSUME NEW a, WritableShape(a)
      PROVE  LET u == W!dequeue_value(a)
             IN  WritableShape(u) /\ u.sink = a.sink /\ u.state = a.state
  BY <1>1 DEF WritableShape, W!dequeue_value, W!Verify
<1>2. LET u == W!UpdateBackpressureIfOpen(s)
      IN  WritableShape(u) /\ u.sink = s.sink /\ u.state = s.state
  <2>1. ASSUME NEW b
        PROVE  LET u == W!writable_stream_update_backpressure(s, b)
               IN  WritableShape(u) /\ u.sink = s.sink /\ u.state = s.state
    <3> DEFINE v == W!Verify(s, s.state = "writable"
                                  /\ ~W!writable_stream_close_queued_or_in_flight(s))
               y == IF v.writer # 0 /\ b # v.backpressure
                    THEN IF b THEN "pending" ELSE IF v.ready = "pending" THEN "fulfilled" ELSE v.ready
                    ELSE v.ready
    <3>1. WritableShape(v) /\ v.sink = s.sink /\ v.state = s.state
      BY DEF WritableShape, W!Verify
    <3>2. W!writable_stream_update_backpressure(s, b) = [v EXCEPT !.backpressure = b, !.ready = y]
      BY DEF W!writable_stream_update_backpressure
    <3> HIDE DEF v, y
    <3> QED
      BY <3>1, <3>2 DEF WritableShape
  <2> DEFINE b == W!get_backpressure(s)
  <2>2. \/ W!UpdateBackpressureIfOpen(s) = s
        \/ W!UpdateBackpressureIfOpen(s) = W!writable_stream_update_backpressure(s, b)
    BY DEF W!UpdateBackpressureIfOpen
  <2> HIDE DEF b
  <2> QED
    BY <2>1, <2>2
<1>3. LET u == W!process_close(s)
      IN  WritableShape(u) /\ u.sink = s.sink /\ u.state = s.state
  <2> DEFINE m == W!writable_stream_mark_close_request_in_flight(s)
             d == W!dequeue_value(m)
             v == W!Verify(d, d.queue = <<>> /\ d.algorithms)
  <2>1. WritableShape(m) /\ m.sink = s.sink /\ m.state = s.state
    BY DEF WritableShape, W!writable_stream_mark_close_request_in_flight, W!Verify
  <2>2. W!process_close(s) = W!CallScript(v, "close")
    BY DEF W!process_close
  <2> HIDE DEF m
  <2>3. WritableShape(d) /\ d.sink = m.sink /\ d.state = m.state
    BY <1>1, <2>1
  <2> HIDE DEF d
  <2>4. WritableShape(v) /\ v.sink = d.sink /\ v.state = d.state
    BY <2>3 DEF WritableShape, W!Verify
  <2> HIDE DEF v
  <2> QED
    BY <2>1, <2>2, <2>3, <2>4, FollowsPlain
<1>4. LET u == W!process_write(s)
      IN  WritableShape(u) /\ u.sink = s.sink /\ u.state = s.state
  <2> DEFINE m == W!writable_stream_mark_first_write_request_in_flight(s)
             v == W!Verify(m, m.algorithms)
  <2>1. WritableShape(m) /\ m.sink = s.sink /\ m.state = s.state
    BY DEF WritableShape, W!writable_stream_mark_first_write_request_in_flight, W!Verify
  <2>2. W!process_write(s) = W!CallScript(v, "write")
    BY DEF W!process_write
  <2> HIDE DEF m
  <2>3. WritableShape(v) /\ v.sink = m.sink /\ v.state = m.state
    BY <2>1 DEF WritableShape, W!Verify
  <2> HIDE DEF v
  <2> QED
    BY <2>1, <2>2, <2>3, FollowsPlain
<1> QED
  BY <1>1, <1>2, <1>3, <1>4

\* writable_stream_default_controller_advance_queue_if_needed
LEMMA FollowsAdvance ==
    ASSUME NEW s, WritableShape(s)
    PROVE  Follows(s, W!advance_queue_if_needed(s))
<1> DEFINE v == W!Verify(s, s.state \notin {"closed", "errored"})
           u == W!advance_queue_if_needed(s)
<1>1. \/ u = s \/ u = v
      \/ u = W!writable_stream_finish_erroring(v)
      \/ u = W!process_close(v) \/ u = W!process_write(v)
  BY DEF W!advance_queue_if_needed
<1> HIDE DEF u
<1>2. WritableShape(v) /\ v.sink = s.sink /\ v.state = s.state
  BY DEF WritableShape, W!Verify
<1> HIDE DEF v
<1>3. CASE u = s \/ u = v
  BY <1>2, <1>3 DEF Follows, u
<1>4. CASE u = W!writable_stream_finish_erroring(v)
  BY <1>2, <1>4, FollowsFinish DEF Follows, u
<1>5. CASE u = W!process_close(v)
  BY <1>2, <1>5, FollowsQueue DEF Follows, u
<1>6. CASE u = W!process_write(v)
  BY <1>2, <1>6, FollowsQueue DEF Follows, u
<1> QED
  BY <1>1, <1>3, <1>4, <1>5, <1>6

\* A write whose size is known.
LEMMA FollowsWrite ==
    ASSUME NEW s, WritableShape(s)
    PROVE  Follows(s, W!WriteAfterSize(s, TRUE))
<1> DEFINE a == W!writable_stream_add_write_request(s)
           b == [a EXCEPT !.queue = Append(@, a.writes)]
           c == W!UpdateBackpressureIfOpen(b)
           u == W!WriteAfterSize(s, TRUE)
<1>1. u = s \/ u = W!advance_queue_if_needed(c)
  BY DEF W!WriteAfterSize, W!controller_write
<1>2. WritableShape(a) /\ a.sink = s.sink /\ a.state = s.state
  BY DEF WritableShape, W!writable_stream_add_write_request, W!Verify
<1> HIDE DEF a
<1>3. WritableShape(b) /\ b.sink = a.sink /\ b.state = a.state
  BY <1>2 DEF WritableShape
<1> HIDE DEF b
<1>4. WritableShape(c) /\ c.sink = b.sink /\ c.state = b.state
  BY <1>3, FollowsQueue
<1> HIDE DEF c, u
<1>5. CASE u = s
  BY <1>5 DEF Follows, u
<1>6. CASE u = W!advance_queue_if_needed(c)
  <2>1. Follows(c, u)
    BY <1>4, <1>6, FollowsAdvance
  <2> QED
    BY <1>2, <1>3, <1>4, <2>1 DEF Follows, u
<1> QED
  BY <1>1, <1>5, <1>6

\* An abort whose signal has been given.
LEMMA FollowsAbort ==
    ASSUME NEW s, WritableShape(s)
    PROVE  Follows(s, W!AbortAfterSignal(s))
<1> DEFINE v == [s EXCEPT !.promises[W!Abort] = "pending",
                          !.pending_abort_request =
                              IF s.state = "erroring" THEN "was_already_erroring" ELSE "abort"]
           u == W!AbortAfterSignal(s)
<1>1. u = s \/ u = v \/ u = W!writable_stream_start_erroring(v)
  BY DEF W!AbortAfterSignal
<1>2. WritableShape(v) /\ v.sink = s.sink /\ v.state = s.state
  BY DEF WritableShape
<1> HIDE DEF u, v
<1>3. CASE u = s \/ u = v
  BY <1>2, <1>3 DEF Follows, u
<1>4. CASE u = W!writable_stream_start_erroring(v)
  BY <1>2, <1>4, FollowsErroring DEF Follows, u
<1> QED
  BY <1>1, <1>3, <1>4

\* No promise of the sink is added, and a stream that is not open stays so.
Serves(s, u) ==
    /\ WritableShape(u) /\ u.sink \subseteq s.sink
    /\ s.state # "writable" => u.state # "writable"

\* What the page calls.
LEMMA PageServes ==
    ASSUME WritableShape(w), W!write \/ W!close \/ W!abort
    PROVE  Serves(w, w')
<1>1. CASE W!write
  <2> DEFINE s == [w EXCEPT !.calls = @ + 1]
  <2>1. w' = W!CallScript(s, "size") \/ w' = W!WriteAfterSize(s, TRUE)
    BY <1>1 DEF W!write
  <2>2. WritableShape(s) /\ s.sink = w.sink /\ s.state = w.state
    BY DEF WritableShape
  <2> HIDE DEF s
  <2> QED
    BY <2>1, <2>2, FollowsWrite DEF Follows, Serves, WritableShape, W!CallScript
<1>2. CASE W!close
  <2> DEFINE y == IF w.writer # 0 /\ w.backpressure /\ w.state = "writable" THEN "fulfilled" ELSE w.ready
             s == [w EXCEPT !.close_request = TRUE, !.promises[W!Close] = "pending",
                            !.queue = Append(@, W!Close), !.ready = y]
  <2>1. w' = W!advance_queue_if_needed(s)
    BY <1>2 DEF W!close
  <2> HIDE DEF y
  <2>2. WritableShape(s) /\ s.sink = w.sink /\ s.state = w.state
    BY DEF WritableShape
  <2> HIDE DEF s
  <2> QED
    BY <2>1, <2>2, FollowsAdvance DEF Follows, Serves
<1>3. CASE W!abort
  <2> DEFINE s == [w EXCEPT !.signalled = TRUE]
  <2>1. w' = W!AbortAfterSignal(w) \/ w' = W!CallScript(s, "signal")
    BY <1>3 DEF W!abort
  <2>2. WritableShape(s) /\ s.sink = w.sink /\ s.state = w.state
    BY DEF WritableShape
  <2> HIDE DEF s
  <2> QED
    BY <2>1, <2>2, FollowsAbort DEF Follows, Serves, WritableShape, W!CallScript
<1> QED
  BY <1>1, <1>2, <1>3

\* size() and the abort signal.
LEMMA CallServes ==
    ASSUME WritableShape(w), W!SizeReturns("valid") \/ W!SignalReturns
    PROVE  Serves(w, w')
<1> DEFINE s == [w EXCEPT !.stack = W!Front(@)]
<1>1. w' = s \/ w' = W!WriteAfterSize(s, TRUE) \/ w' = W!AbortAfterSignal(s)
  <2>1. CASE W!SizeReturns("valid")
    BY <2>1, "valid" # "throws", "valid" # "invalid" DEF W!SizeReturns
  <2>2. CASE W!SignalReturns
    BY <2>2 DEF W!SignalReturns
  <2> QED
    BY <2>1, <2>2
<1>2. WritableShape(s) /\ s.sink = w.sink /\ s.state = w.state
  BY DEF WritableShape
<1> HIDE DEF s
<1> QED
  BY <1>1, <1>2, FollowsWrite, FollowsAbort DEF Follows, Serves

\* A function of the sink returns its promise.
LEMMA SinkPromises ==
    ASSUME WritableShape(w), W!SinkReturns
    PROVE  /\ WritableShape(w') /\ w'.state = w.state
           /\ w.stack # <<>> /\ Last(w.stack).callback \in W!SinkCallback
           /\ w'.sink = w.sink \cup {Last(w.stack).callback}
<1> DEFINE cb == W!Last(w.stack).callback
           s == [w EXCEPT !.stack = W!Front(@), !.sink = @ \cup {cb}]
<1>1. /\ w.stack # <<>> /\ cb \in W!SinkCallback
      /\ w' = s \/ w' = W!clear_algorithms(s)
  BY DEF W!SinkReturns
<1>2. cb = Last(w.stack).callback
  BY SameOperators
<1> HIDE DEF cb
<1>3. WritableShape(s) /\ s.sink = w.sink \cup {cb} /\ s.state = w.state
  BY DEF WritableShape
<1> HIDE DEF s
<1> QED
  BY <1>1, <1>2, <1>3, FollowsPlain

\* The promise of start() is settled.
LEMMA StartServes ==
    ASSUME WritableShape(w), W!StartFulfilled \/ W!StartRejected
    PROVE  Serves(w, w')
<1> DEFINE d == W!Done("start")
           c == W!CheckOpen(d)
           s == [c EXCEPT !.started = TRUE]
<1>1. w' = W!advance_queue_if_needed(s) \/ w' = W!writable_stream_deal_with_rejection(s)
  BY DEF W!StartFulfilled, W!StartRejected
<1>2. WritableShape(d) /\ d.sink \subseteq w.sink /\ d.state = w.state
  BY DEF WritableShape, W!Done
<1> HIDE DEF d
<1>3. WritableShape(c) /\ c.sink = d.sink /\ c.state = d.state
  BY <1>2 DEF WritableShape, W!CheckOpen, W!Verify
<1> HIDE DEF c
<1>4. WritableShape(s) /\ s.sink = c.sink /\ s.state = c.state
  BY <1>3 DEF WritableShape
<1> HIDE DEF s
<1> QED
  BY <1>1, <1>2, <1>3, <1>4, FollowsAdvance, FollowsErroring DEF Follows, Serves

\* The promise of write() is settled.
LEMMA WriteServes ==
    ASSUME WritableShape(w), W!WriteFulfilled \/ W!WriteRejected
    PROVE  Serves(w, w')
<1> DEFINE d == W!Done("write")
<1>1. WritableShape(d) /\ d.sink \subseteq w.sink /\ d.state = w.state
  BY DEF WritableShape, W!Done
<1>2. CASE W!WriteFulfilled
  <2> DEFINE n == d.in_flight_write_request
             a == W!Verify(d, n # 0)
             b == W!Settle(a, n, "fulfilled")
             c == [b EXCEPT !.in_flight_write_request = 0]
             e == W!CheckOpen(c)
             f == W!dequeue_value(e)
             g == W!UpdateBackpressureIfOpen(f)
  <2>1. w' = W!advance_queue_if_needed(g)
    BY <1>2 DEF W!WriteFulfilled, W!writable_stream_finish_in_flight_write
  <2> HIDE DEF d
  <2>2. WritableShape(a) /\ a.sink = d.sink /\ a.state = d.state
    BY <1>1 DEF WritableShape, W!Verify
  <2> HIDE DEF a, n
  <2>3. WritableShape(b) /\ b.sink = a.sink /\ b.state = a.state
    BY <2>2 DEF WritableShape, W!Settle
  <2> HIDE DEF b
  <2>4. WritableShape(c) /\ c.sink = b.sink /\ c.state = b.state
    BY <2>3 DEF WritableShape
  <2> HIDE DEF c
  <2>5. WritableShape(e) /\ e.sink = c.sink /\ e.state = c.state
    BY <2>4 DEF WritableShape, W!CheckOpen, W!Verify
  <2> HIDE DEF e
  <2>6. WritableShape(f) /\ f.sink = e.sink /\ f.state = e.state
    BY <2>5, FollowsQueue
  <2> HIDE DEF f
  <2>7. WritableShape(g) /\ g.sink = f.sink /\ g.state = f.state
    BY <2>6, FollowsQueue
  <2> HIDE DEF g
  <2>8. Follows(g, w')
    BY <2>1, <2>7, FollowsAdvance
  <2> QED
    BY <1>1, <2>2, <2>3, <2>4, <2>5, <2>6, <2>7, <2>8 DEF Follows, Serves
<1>3. CASE W!WriteRejected
  <2> DEFINE x == IF d.state = "writable" THEN W!clear_algorithms(d) ELSE d
             n == x.in_flight_write_request
             a == W!Verify(x, n # 0)
             b == W!Settle(a, n, "rejected")
             c == [b EXCEPT !.in_flight_write_request = 0]
             e == W!CheckOpen(c)
  <2>1. w' = W!writable_stream_deal_with_rejection(e)
    BY <1>3 DEF W!WriteRejected, W!writable_stream_finish_in_flight_write_with_error
  <2> HIDE DEF d
  <2>2. WritableShape(x) /\ x.sink = d.sink
    BY <1>1, FollowsPlain
  <2> HIDE DEF x
  <2>3. WritableShape(a) /\ a.sink = x.sink
    BY <2>2 DEF WritableShape, W!Verify
  <2> HIDE DEF a, n
  <2>4. WritableShape(b) /\ b.sink = a.sink
    BY <2>3, FollowsPlain
  <2> HIDE DEF b
  <2>5. WritableShape(c) /\ c.sink = b.sink
    BY <2>4 DEF WritableShape
  <2> HIDE DEF c
  <2>6. WritableShape(e) /\ e.sink = c.sink
    BY <2>5 DEF WritableShape, W!CheckOpen, W!Verify
  <2> HIDE DEF e
  <2>7. WritableShape(w') /\ w'.sink = e.sink /\ w'.state \in {"erroring", "errored"}
    BY <2>1, <2>6, FollowsErroring
  <2> QED
    BY <1>1, <2>2, <2>3, <2>4, <2>5, <2>6, <2>7 DEF Serves
<1> QED
  BY <1>2, <1>3

\* The promise of close() is settled.
LEMMA CloseServes ==
    ASSUME WritableShape(w), W!CloseFulfilled \/ W!CloseRejected
    PROVE  Serves(w, w')
<1> DEFINE d == W!Done("close")
           v == W!Verify(d, d.in_flight_close_request)
           c == W!CheckOpen(v)
<1>1. WritableShape(d) /\ d.sink \subseteq w.sink
  BY DEF WritableShape, W!Done
<1>2. WritableShape(v) /\ v.sink = d.sink
  BY <1>1 DEF WritableShape, W!Verify
<1>3. WritableShape(c) /\ c.sink = v.sink
  BY <1>2 DEF WritableShape, W!CheckOpen, W!Verify
<1>4. CASE W!CloseFulfilled
  <2> DEFINE a == W!Settle(c, W!Close, "fulfilled")
             b == W!Settle(a, W!Abort, "fulfilled")
             e == [b EXCEPT !.stored_error = FALSE, !.pending_abort_request = "none"]
             f == IF a.state = "erroring" THEN e ELSE a
             g == [f EXCEPT !.in_flight_close_request = FALSE, !.state = "closed"]
             h == IF g.writer # 0 THEN W!SettleClosed(g, "fulfilled") ELSE g
  <2>1. w' = W!Verify(h, h.pending_abort_request = "none" /\ ~h.stored_error)
    BY <1>4 DEF W!CloseFulfilled, W!writable_stream_finish_in_flight_close
  <2> HIDE DEF c, d, v
  <2>2. WritableShape(a) /\ a.sink = c.sink
    BY <1>3, FollowsPlain
  <2> HIDE DEF a
  <2>3. WritableShape(b) /\ b.sink = a.sink
    BY <2>2, FollowsPlain
  <2> HIDE DEF b
  <2>4. WritableShape(e) /\ e.sink = b.sink
    BY <2>3 DEF WritableShape
  <2> HIDE DEF e
  <2>5. WritableShape(f) /\ f.sink = a.sink
    BY <2>2, <2>3, <2>4
  <2> HIDE DEF f
  <2>6. WritableShape(g) /\ g.sink = f.sink /\ g.state = "closed"
    BY <2>5 DEF WritableShape
  <2> HIDE DEF g
  <2>7. WritableShape(h) /\ h.sink = g.sink /\ h.state = g.state
    BY <2>6, FollowsPlain
  <2> HIDE DEF h
  <2>8. WritableShape(w') /\ w'.sink = h.sink /\ w'.state = h.state
    BY <2>1, <2>7 DEF WritableShape, W!Verify
  <2> QED
    BY <1>1, <1>2, <1>3, <2>2, <2>5, <2>6, <2>7, <2>8 DEF Serves
<1>5. CASE W!CloseRejected
  <2> DEFINE a == W!Settle(c, W!Close, "rejected")
             b == W!Settle(a, W!Abort, "rejected")
             e == [b EXCEPT !.in_flight_close_request = FALSE, !.pending_abort_request = "none"]
  <2>1. w' = W!writable_stream_deal_with_rejection(e)
    BY <1>5 DEF W!CloseRejected, W!writable_stream_finish_in_flight_close_with_error
  <2> HIDE DEF c, d, v
  <2>2. WritableShape(a) /\ a.sink = c.sink
    BY <1>3, FollowsPlain
  <2> HIDE DEF a
  <2>3. WritableShape(b) /\ b.sink = a.sink
    BY <2>2, FollowsPlain
  <2> HIDE DEF b
  <2>4. WritableShape(e) /\ e.sink = b.sink
    BY <2>3 DEF WritableShape
  <2> HIDE DEF e
  <2>5. WritableShape(w') /\ w'.sink = e.sink /\ w'.state \in {"erroring", "errored"}
    BY <2>1, <2>4, FollowsErroring
  <2> QED
    BY <1>1, <1>2, <1>3, <2>2, <2>3, <2>4, <2>5 DEF Serves
<1> QED
  BY <1>4, <1>5

\* The promise of abort() is settled.
LEMMA AbortServes ==
    ASSUME NEW o, WritableShape(w), W!AbortSettled(o)
    PROVE  Serves(w, w') /\ "abort" \in w.sink
<1> DEFINE d == W!Done("abort")
           a == W!Settle(d, W!Abort, o)
<1>1. w' = W!reject_close_and_closed_promise_if_needed(a) /\ "abort" \in w.sink
  BY DEF W!AbortSettled, W!Settled
<1>2. WritableShape(d) /\ d.sink \subseteq w.sink /\ d.state = w.state
  BY DEF WritableShape, W!Done
<1> HIDE DEF d
<1>3. WritableShape(a) /\ a.sink = d.sink /\ a.state = d.state
  BY <1>2, FollowsPlain
<1> HIDE DEF a
<1>4. WritableShape(w') /\ w'.sink = a.sink /\ w'.state = a.state
  BY <1>1, <1>3, FollowsReject
<1> QED
  BY <1>1, <1>2, <1>3, <1>4 DEF Serves

----------------------------------------------------------------------------
(* What the functions of the transform stream do. *)

\* A failed assertion changes crash only.
LEMMA VerifyIs ==
    ASSUME NEW s \in TransformShape, NEW c
    PROVE  LET u == Verify(s, c)
           IN  /\ u \in TransformShape /\ u.backpressure = s.backpressure /\ u.write = s.write
               /\ u.pull = s.pull /\ u.finish = s.finish /\ u.stack = s.stack
BY DEF TransformShape, Verify

\* The frames are a sequence.
LEMMA StackIs ==
    ASSUME NEW s \in TransformShape
    PROVE  s.stack \in Seq(TransformFrames) /\ IsSeq(s.stack)
BY DEF TransformShape, IsSeq

\* The transformer is called.
LEMMA CallIs ==
    ASSUME NEW s \in TransformShape, NEW cb \in TransformFrames
    PROVE  LET u == CallTransformer(s, cb)
           IN  /\ u \in TransformShape /\ u.backpressure = s.backpressure /\ u.write = s.write
               /\ u.pull = s.pull /\ u.finish = s.finish
               /\ Range(u.stack) = Range(s.stack) \cup {cb}
<1> DEFINE q == Append(s.stack, cb)
           c == IF s.crash = "none" /\ ~s.algorithms THEN "algorithm" ELSE s.crash
<1>1. q \in Seq(TransformFrames) /\ Range(q) = Range(s.stack) \cup {cb}
  BY StackIs, AppendIs
<1>2. c \in {"none", "verify", "algorithm"}
  BY DEF TransformShape
<1>3. CallTransformer(s, cb) = [s EXCEPT !.stack = q, !.crash = c]
  BY DEF CallTransformer
<1> HIDE DEF q, c
<1> QED
  BY <1>1, <1>2, <1>3 DEF TransformShape

\* A frame is popped.
LEMMA PopIs ==
    ASSUME NEW s \in TransformShape, s.stack # <<>>
    PROVE  LET u == Pop(s)
           IN  /\ u \in TransformShape /\ u.backpressure = s.backpressure /\ u.write = s.write
               /\ u.pull = s.pull /\ u.finish = s.finish
               /\ Range(s.stack) = Range(u.stack) \cup {Last(s.stack)}
<1> DEFINE q == Front(s.stack)
<1>1. IsSeq(s.stack) /\ s.stack \in Seq(TransformFrames)
  BY StackIs
<1>2. Range(s.stack) = Range(q) \cup {Last(s.stack)}
  BY <1>1, FrontIs
<1>3. q \in Seq(TransformFrames)
  BY <1>1 DEF Front
<1>4. Pop(s) = [s EXCEPT !.stack = q]
  BY DEF Pop
<1> HIDE DEF q
<1> QED
  BY <1>2, <1>3, <1>4 DEF TransformShape

\* The algorithms are cleared.
LEMMA ClearIs ==
    ASSUME NEW s \in TransformShape
    PROVE  LET u == clear_algorithms(s)
           IN  /\ u \in TransformShape /\ u.backpressure = s.backpressure /\ u.write = s.write
               /\ u.pull = s.pull /\ u.finish = s.finish /\ u.stack = s.stack
BY DEF TransformShape, clear_algorithms

\* The three fields that a change of backpressure assigns.
LEMMA SetShape ==
    ASSUME NEW v \in TransformShape, NEW b \in BOOLEAN,
           NEW y \in {"none", "blocked", "released", "transforming", "fulfilled", "rejected"},
           NEW p \in {"none", "waiting", "released"}
    PROVE  [v EXCEPT !.backpressure = b, !.write = y, !.pull = p] \in TransformShape
<1> DEFINE v1 == [v EXCEPT !.backpressure = b]
           v2 == [v1 EXCEPT !.write = y]
           v3 == [v2 EXCEPT !.pull = p]
<1>1. v1 \in TransformShape
  BY DEF TransformShape
<1> HIDE DEF v1
<1>2. v2 \in TransformShape
  BY <1>1 DEF TransformShape
<1> HIDE DEF v2
<1>3. v3 \in TransformShape
  BY <1>2 DEF TransformShape
<1> QED
  BY <1>3 DEF v1, v2, v3

\* Backpressure begins: no pull waits for its change any more.
LEMMA BeginIs ==
    ASSUME NEW s \in TransformShape
    PROVE  LET u == transform_stream_set_backpressure(s, TRUE)
           IN  /\ u \in TransformShape /\ u.backpressure
               /\ u.pull = IF s.pull = "waiting" THEN "released" ELSE s.pull
               /\ u.finish = s.finish /\ u.stack = s.stack
<1> DEFINE v == Verify(s, s.backpressure # TRUE)
           y == IF v.write = "blocked" THEN "released" ELSE v.write
           p == IF v.pull = "waiting" THEN "released" ELSE v.pull
<1>1. /\ v \in TransformShape /\ v.pull = s.pull
      /\ v.finish = s.finish /\ v.stack = s.stack
  BY DEF TransformShape, Verify
<1>2. transform_stream_set_backpressure(s, TRUE)
        = [v EXCEPT !.backpressure = TRUE, !.write = y, !.pull = p]
  BY DEF transform_stream_set_backpressure
<1> HIDE DEF v
<1>3. y \in {"none", "released", "transforming", "fulfilled", "rejected"}
  BY <1>1 DEF TransformShape
<1>4. p \in {"none", "waiting", "released"}
  BY <1>1 DEF TransformShape
<1>5. p = IF s.pull = "waiting" THEN "released" ELSE s.pull
  BY <1>1
<1> DEFINE z == [v EXCEPT !.backpressure = TRUE, !.write = y, !.pull = p]
<1> HIDE DEF y, p
<1>6. z \in TransformShape
  BY <1>1, <1>3, <1>4, SetShape
<1>7. /\ z.backpressure = TRUE /\ z.write = y /\ z.pull = p
      /\ z.finish = v.finish /\ z.stack = v.stack
  BY <1>1 DEF TransformShape
<1> QED
  BY <1>1, <1>2, <1>3, <1>5, <1>6, <1>7

\* Backpressure ends: no write is blocked any more.
LEMMA EndIs ==
    ASSUME NEW s \in TransformShape
    PROVE  LET u == transform_stream_set_backpressure(s, FALSE)
           IN  /\ u \in TransformShape /\ ~u.backpressure /\ u.write # "blocked"
               /\ u.pull = IF s.pull = "waiting" THEN "released" ELSE s.pull
               /\ u.finish = s.finish /\ u.stack = s.stack
<1> DEFINE v == Verify(s, s.backpressure # FALSE)
           y == IF v.write = "blocked" THEN "released" ELSE v.write
           p == IF v.pull = "waiting" THEN "released" ELSE v.pull
<1>1. /\ v \in TransformShape /\ v.pull = s.pull
      /\ v.finish = s.finish /\ v.stack = s.stack
  BY DEF TransformShape, Verify
<1>2. transform_stream_set_backpressure(s, FALSE)
        = [v EXCEPT !.backpressure = FALSE, !.write = y, !.pull = p]
  BY DEF transform_stream_set_backpressure
<1> HIDE DEF v
<1>3. y \in {"none", "released", "transforming", "fulfilled", "rejected"}
  BY <1>1 DEF TransformShape
<1>4. p \in {"none", "waiting", "released"}
  BY <1>1 DEF TransformShape
<1>5. p = IF s.pull = "waiting" THEN "released" ELSE s.pull
  BY <1>1
<1> DEFINE z == [v EXCEPT !.backpressure = FALSE, !.write = y, !.pull = p]
<1> HIDE DEF y, p
<1>6. z \in TransformShape
  BY <1>1, <1>3, <1>4, SetShape
<1>7. /\ z.backpressure = FALSE /\ z.write = y /\ z.pull = p
      /\ z.finish = v.finish /\ z.stack = v.stack
  BY <1>1 DEF TransformShape
<1> QED
  BY <1>1, <1>2, <1>3, <1>5, <1>6, <1>7

\* Held, as far as the transform stream alone is concerned.
Balanced(s) ==
    /\ s.write = "blocked" => s.backpressure
    /\ s.pull = "waiting" => ~s.backpressure

\* An unblocked write leaves the pull alone.
LEMMA UnblockIs ==
    ASSUME NEW s \in TransformShape, Balanced(s)
    PROVE  LET u == transform_stream_unblock_write(s)
           IN  /\ u \in TransformShape /\ Balanced(u) /\ ~u.backpressure
               /\ u.pull = s.pull /\ u.finish = s.finish /\ u.stack = s.stack
BY EndIs DEF transform_stream_unblock_write, Balanced

----------------------------------------------------------------------------
(* Who runs. *)

\* The readable side calls nobody but cancel() of the transformer.
Calm == \A i \in DOMAIN r.stack : r.stack[i].callback = "cancel"

\* In the terms of this module.
LEMMA TopIs ==
    ASSUME NEW cb
    PROVE  R!Top(cb) <=> r.stack # <<>> /\ Last(r.stack).callback = cb
BY SameOperators DEF R!Top

\* A calm stream asks nobody.
LEMMA CalmIs == Shapes /\ Calm => ~Asks /\ Nested
<1> SUFFICES ASSUME Shapes, Calm PROVE ~Asks /\ Nested
  OBVIOUS
<1>1. IsSeq(r.stack)
  BY DEF Shapes, ReadableShape, ReadableFrames
<1>2. \A i \in 1 .. Len(r.stack) - 1 : i \in DOMAIN r.stack
  BY <1>1 DEF IsSeq
<1>3. r.stack # <<>> => Last(r.stack).callback = "cancel"
  <2>1. ASSUME r.stack # <<>> PROVE Len(r.stack) \in DOMAIN r.stack /\ Last(r.stack) = r.stack[Len(r.stack)]
    BY <1>1, <2>1, FrontIs
  <2> QED
    BY <2>1 DEF Calm
<1> QED
  BY <1>2, <1>3, TopIs DEF Asks, Nested, Calm

\* What is below the top is calm, and all of it when nobody is asked.
LEMMA BelowIs ==
    ASSUME Shapes, Nested
    PROVE  /\ r.stack # <<>> => \A i \in DOMAIN Front(r.stack) : Front(r.stack)[i].callback = "cancel"
           /\ ~Asks => Calm
<1>1. /\ IsSeq(r.stack)
      /\ \A i \in DOMAIN r.stack : r.stack[i].callback \in {"size", "pull", "cancel"}
  BY DEF Shapes, ReadableShape, ReadableFrames
<1>2. ASSUME r.stack # <<>>
      PROVE  \A i \in DOMAIN Front(r.stack) : Front(r.stack)[i].callback = "cancel"
  BY <1>1, <1>2, FrontIs DEF Nested
<1>3. ASSUME ~Asks, NEW i \in DOMAIN r.stack PROVE r.stack[i].callback = "cancel"
  <2>1. r.stack # <<>>
    BY <1>3
  <2>2. /\ Len(r.stack) \in Nat /\ DOMAIN r.stack = 1 .. Len(r.stack) /\ Len(r.stack) >= 1
        /\ Last(r.stack) = r.stack[Len(r.stack)]
    BY <1>1, <2>1, FrontIs
  <2>3. i \in 1 .. Len(r.stack) - 1 \/ i = Len(r.stack)
    BY <1>3, <2>2
  <2>4. r.stack[Len(r.stack)].callback = "cancel"
    BY <1>1, <1>3, <2>1, <2>2, TopIs DEF Asks
  <2> QED
    BY <2>3, <2>4 DEF Nested
<1> QED
  BY <1>2, <1>3 DEF Calm

\* While no algorithm runs, neither side waits for one.
LEMMA Quiet ==
    ASSUME Shapes, Nested, t.crash = "none", ~AlgorithmRuns
    PROVE  ~Asks /\ ~SinkWaits /\ Calm
<1>1. Range(t.stack) \subseteq TransformFrames
  BY DEF Shapes, TransformShape, Range
<1>2. ~Asks
  <2>1. {"pull", "size"} \cap Range(t.stack) = {}
    BY <1>1 DEF TransformFrames
  <2> QED
    BY <2>1, TopIs DEF Asks, AlgorithmRuns, SourceCalled
<1>3. ~SinkWaits
  BY DEF SinkWaits, AlgorithmRuns, SinkCalled
<1> QED
  BY <1>2, <1>3, BelowIs

\* While the sink or cancel() is called, the readable side does not ask.
LEMMA Busy ==
    ASSUME Shapes, Nested, OneAsks
    PROVE  /\ \A cb \in W!SinkCallback \cup {"size", "signal"} : SinkCalled(cb) => ~Asks /\ Calm
           /\ SourceCalled("cancel") => ~Asks /\ Calm
<1>1. ASSUME NEW cb \in W!SinkCallback \cup {"size", "signal"}, SinkCalled(cb) PROVE ~Asks
  BY <1>1 DEF SinkCalled, OneAsks, SinkWaits
<1>2. ASSUME SourceCalled("cancel") PROVE ~Asks
  BY <1>2, TopIs DEF SourceCalled, Asks
<1> QED
  BY <1>1, <1>2, BelowIs

\* The invariant of a calm stream.
CalmInv ==
    /\ Shapes /\ Calm /\ Held /\ Finishing
    /\ r.pulling => t.pull # "none"
    /\ R!should_call_pull(r) /\ t.backpressure => t.pull = "released" /\ r.pull_again
    /\ ~t.backpressure /\ w.state = "writable" /\ ~Enqueuing /\ R!can_close_or_enqueue(r) =>
         R!should_call_pull(r)

\* It is the invariant.
LEMMA CalmImplies == CalmInv => IInv
<1> SUFFICES ASSUME CalmInv PROVE IInv
  OBVIOUS
<1>1. ~Asks /\ Nested
  BY CalmIs DEF CalmInv
<1> QED
  BY <1>1 DEF CalmInv, IInv, OneAsks, SizeOfEnqueue, Pulled, Demanded, Asks

\* And the invariant of a calm stream is this one.
LEMMA CalmFrom ==
    ASSUME IInv, Calm
    PROVE  CalmInv
<1>1. ~Asks
  BY CalmIs DEF IInv
<1> QED
  BY <1>1 DEF CalmInv, IInv, Pulled, Demanded, Asks

\* The demand does not change, and backpressure does not.
LEMMA StillStep ==
    ASSUME CalmInv, ReadableShape(r'), Calm',
           r'.pulling = r.pulling, r'.pull_again = r.pull_again,
           R!can_close_or_enqueue(r') <=> R!can_close_or_enqueue(r),
           R!should_call_pull(r') <=> R!should_call_pull(r),
           WritableShape(w'), w.state # "writable" => w'.state # "writable",
           t' \in TransformShape, t'.backpressure = t.backpressure, t'.pull = t.pull,
           t'.write = "blocked" => t.backpressure, Enqueuing => Enqueuing', Finishing'
    PROVE  IInv'
<1>1. Shapes' /\ Held'
  BY DEF CalmInv, Shapes, Held
<1>2. r'.pulling => t'.pull # "none"
  BY DEF CalmInv
<1>3. /\ R!should_call_pull(r') /\ t'.backpressure => t'.pull = "released" /\ r'.pull_again
      /\ ~t'.backpressure /\ w'.state = "writable" /\ ~Enqueuing' /\ R!can_close_or_enqueue(r') =>
           R!should_call_pull(r')
  BY DEF CalmInv
<1>4. CalmInv'
  BY <1>1, <1>2, <1>3 DEF CalmInv, R!should_call_pull, R!can_close_or_enqueue, R!HasReadRequest, R!get_desired_size
<1> QED
  BY <1>4, CalmImplies, PTL

\* The writable side ends and the write is unblocked.
LEMMA FailStep ==
    ASSUME CalmInv, ReadableShape(r'), r'.stack = r.stack, r'.pulling = r.pulling,
           WritableShape(w'), w'.state # "writable",
           t' \in TransformShape, Balanced(t'), ~t'.backpressure, t'.pull = t.pull, Finishing'
    PROVE  IInv'
<1>1. Shapes' /\ Calm' /\ Held'
  BY DEF CalmInv, Shapes, Held, Calm, Balanced
<1>2. r'.pulling => t'.pull # "none"
  BY DEF CalmInv
<1>3. CalmInv'
  BY <1>1, <1>2 DEF CalmInv
<1> QED
  BY <1>3, CalmImplies, PTL

\* The readable side ends, and the rest is as before.
LEMMA EndStep ==
    ASSUME CalmInv, ReadableShape(r'), Calm', ~R!can_close_or_enqueue(r'), r'.pulling = r.pulling,
           w' = w, t' \in TransformShape, t'.backpressure = t.backpressure,
           t'.pull = t.pull, t'.write = t.write, Finishing'
    PROVE  IInv'
<1>1. Shapes' /\ Held'
  BY DEF CalmInv, Shapes, Held
<1>2. r'.pulling => t'.pull # "none"
  BY DEF CalmInv
<1>3. ~R!should_call_pull(r')
  BY DEF R!should_call_pull
<1>4. CalmInv'
  BY <1>1, <1>2, <1>3 DEF CalmInv, R!should_call_pull, R!can_close_or_enqueue, R!HasReadRequest, R!get_desired_size
<1> QED
  BY <1>4, CalmImplies, PTL

\* Who waits for the finish promise finds one.
LEMMA FinishStep ==
    ASSUME Finishing, t.finish # "none" => t'.finish # "none",
           "cancel" \in r'.source => "cancel" \in r.source \/ t.finish # "none",
           "abort" \in w'.sink => "abort" \in w.sink \/ t.finish # "none",
           \A cb \in {"cancel", "abort"} : cb \in Range(t'.stack) => cb \in Range(t.stack)
    PROVE  Finishing'
BY DEF Finishing

\* The readable side does nothing, and backpressure stays.
LEMMA OtherStep ==
    ASSUME CalmInv, r' = r, WritableShape(w'), w.state # "writable" => w'.state # "writable",
           t' \in TransformShape, t'.backpressure = t.backpressure, t'.pull = t.pull,
           t'.write = "blocked" => t.backpressure, Enqueuing => Enqueuing', Finishing'
    PROVE  IInv'
<1>1. ReadableShape(r') /\ Calm'
  BY DEF CalmInv, Calm, Shapes
<1>2. /\ R!can_close_or_enqueue(r') <=> R!can_close_or_enqueue(r)
      /\ R!should_call_pull(r') <=> R!should_call_pull(r)
      /\ r'.pulling = r.pulling /\ r'.pull_again = r.pull_again
  OBVIOUS
<1> QED
  BY <1>1, <1>2, StillStep

\* When no algorithm runs, the stream is calm.
LEMMA QuietInv ==
    ASSUME IInv, t.crash = "none", ~AlgorithmRuns
    PROVE  CalmInv /\ ~Asks /\ ~SinkWaits
<1>1. Shapes /\ Nested
  BY DEF IInv
<1>2. ~Asks /\ ~SinkWaits /\ Calm
  BY <1>1, Quiet
<1> QED
  BY <1>2, CalmFrom

----------------------------------------------------------------------------
(* What the page calls. *)

\* write(), close() and abort().
LEMMA PageInv ==
    ASSUME IInv, write \/ close \/ abort
    PROVE  IInv'
<1>1. CalmInv /\ r' = r /\ t' = t /\ (W!write \/ W!close \/ W!abort)
  BY QuietInv DEF write, close, abort, ScriptRuns
<1>2. WritableShape(w) /\ t \in TransformShape /\ Finishing /\ Held
  BY <1>1 DEF CalmInv, Shapes
<1>3. Serves(w, w')
  BY <1>1, <1>2, PageServes
<1>4. Finishing'
  BY <1>1, <1>2, <1>3, FinishStep DEF Serves
<1>5. Enqueuing => Enqueuing'
  BY <1>1 DEF Enqueuing
<1> QED
  BY <1>1, <1>2, <1>3, <1>4, <1>5, OtherStep DEF Serves, Held

\* A step that ends with call_pull_if_needed(), from a calm stack.
LEMMA AskStep ==
    ASSUME NEW s, Shapes, Held, ReadableFrames(s.stack),
           \A i \in DOMAIN s.stack : s.stack[i].callback = "cancel",
           s.pulling => t.pull # "none", t.crash = "none", ~SinkWaits,
           Pulls(s, r'), w' = w, t' \in TransformShape, t'.crash = "none",
           t'.backpressure = t.backpressure, t'.pull = t.pull, t'.write = t.write,
           Range(t.stack) \subseteq Range(t'.stack), Finishing',
           ~t'.backpressure /\ w'.state = "writable" /\ ~Enqueuing'
              /\ R!can_close_or_enqueue(r') => R!should_call_pull(r')
    PROVE  IInv'
<1>1. Shapes' /\ Held'
  BY DEF Shapes, Held, Pulls
<1>2. ~SinkWaits'
  BY DEF SinkWaits
<1>3. CASE \E f : r'.stack = Append(s.stack, f) /\ f.callback = "pull" /\ R!should_call_pull(r')
  <2>1. PICK f : r'.stack = Append(s.stack, f) /\ f.callback = "pull"
    BY <1>3
  <2>2. /\ Len(s.stack) \in Nat /\ DOMAIN s.stack = 1 .. Len(s.stack)
        /\ Len(r'.stack) = Len(s.stack) + 1
        /\ \A i \in 1 .. Len(s.stack) : r'.stack[i] = s.stack[i]
        /\ Last(r'.stack) = f /\ r'.stack # <<>>
    <3>1. IsSeq(s.stack)
      BY DEF ReadableFrames
    <3> DEFINE q == s.stack
               p == Append(q, f)
    <3>2. /\ Len(q) \in Nat /\ DOMAIN q = 1 .. Len(q) /\ Len(p) = Len(q) + 1
          /\ \A i \in 1 .. Len(q) : p[i] = q[i]
          /\ Last(p) = f /\ p # <<>>
      <4> HIDE DEF q
      <4>1. IsSeq(q)
        BY <3>1 DEF q
      <4> QED
        BY <4>1, AppendIs
    <3>3. r'.stack = p
      BY <2>1
    <3> HIDE DEF p
    <3> QED
      BY <3>2, <3>3
  <2>3. R!Top("pull")' /\ ~R!Top("size")'
    BY <2>1, <2>2, SameOperators DEF R!Top
  <2>4. Nested'
    BY <2>2 DEF Nested
  <2>5. OneAsks' /\ SizeOfEnqueue'
    BY <1>2, <2>3 DEF OneAsks, SizeOfEnqueue
  <2>6. Pulled' /\ Demanded'
    BY <1>3, <2>3 DEF Pulled, Demanded
  <2> QED
    BY <1>1, <2>4, <2>5, <2>6 DEF IInv
<1>4. CASE r'.stack = s.stack /\ r'.pulling = s.pulling
             /\ (R!should_call_pull(r') => s.pulling /\ r'.pull_again)
  <2>1. Calm'
    BY <1>4 DEF Calm
  <2>2. r'.pulling => t'.pull # "none"
    BY <1>4
  <2>3. R!should_call_pull(r') /\ t'.backpressure => t'.pull = "released" /\ r'.pull_again
    BY <1>4 DEF Held, Shapes, TransformShape
  <2>4. CalmInv'
    BY <1>1, <2>1, <2>2, <2>3 DEF CalmInv
  <2> QED
    BY <2>4, CalmImplies, PTL
<1> QED
  BY <1>3, <1>4 DEF Pulls

\* read() of the readable side.
LEMMA ReadInv ==
    ASSUME IInv, read
    PROVE  IInv'
<1>1. CalmInv /\ ~SinkWaits /\ t.crash = "none" /\ w' = w /\ t' = t /\ R!read
  BY QuietInv DEF read, ScriptRuns
<1>2. Shapes /\ Held /\ Finishing /\ Calm /\ ReadableShape(r) /\ t \in TransformShape
  BY <1>1 DEF CalmInv, Shapes
<1>3. Pulls(r, r') /\ r'.source = r.source /\ Keeps(r, r')
  BY <1>1, <1>2, ReadStep
<1>4. Finishing'
  BY <1>1, <1>2, <1>3, FinishStep
<1>5. ~t'.backpressure /\ w'.state = "writable" /\ ~Enqueuing'
         /\ R!can_close_or_enqueue(r') => R!should_call_pull(r')
  BY <1>1, <1>3 DEF Keeps, CalmInv, Enqueuing
<1>6. ReadableFrames(r.stack) /\ (r.pulling => t.pull # "none")
  BY <1>1, <1>2 DEF CalmInv, ReadableShape
<1>7. \A i \in DOMAIN r.stack : r.stack[i].callback = "cancel"
  BY <1>2 DEF Calm
<1> QED
  BY <1>1, <1>2, <1>3, <1>4, <1>5, <1>6, <1>7, AskStep

\* A frame of cancel() on a calm stack.
LEMMA CalmPush ==
    ASSUME NEW f, Shapes, Calm, f.callback = "cancel", r'.stack = Append(r.stack, f)
    PROVE  Calm'
<1>1. IsSeq(r.stack)
  BY DEF Shapes, ReadableShape, ReadableFrames
<1>2. /\ Len(r.stack) \in Nat /\ DOMAIN r.stack = 1 .. Len(r.stack)
      /\ DOMAIN r'.stack = 1 .. Len(r.stack) + 1 /\ r'.stack[Len(r.stack) + 1] = f
      /\ \A i \in 1 .. Len(r.stack) : r'.stack[i] = r.stack[i]
  BY <1>1, AppendIs
<1>3. ASSUME NEW i \in DOMAIN r'.stack PROVE r'.stack[i].callback = "cancel"
  <2>1. i \in 1 .. Len(r.stack) \/ i = Len(r.stack) + 1
    BY <1>2
  <2> QED
    BY <1>2, <2>1 DEF Calm
<1> QED
  BY <1>3 DEF Calm

\* cancel() of the readable side.
LEMMA CancelInv ==
    ASSUME IInv, cancel
    PROVE  IInv'
<1>1. CalmInv /\ w' = w /\ t' = t /\ R!cancel
  BY QuietInv DEF cancel, ScriptRuns
<1>2. Shapes /\ Finishing /\ Calm /\ ReadableShape(r) /\ t \in TransformShape
  BY <1>1 DEF CalmInv, Shapes
<1>3. /\ ReadableShape(r') /\ ~R!can_close_or_enqueue(r')
      /\ r'.pulling = r.pulling /\ r'.source = r.source
      /\ \E f : r'.stack = Append(r.stack, f) /\ f.callback = "cancel"
  BY <1>1, <1>2, CancelStep
<1>4. Calm'
  BY <1>2, <1>3, CalmPush
<1>5. Finishing'
  BY <1>1, <1>2, <1>3, FinishStep
<1> QED
  BY <1>1, <1>2, <1>3, <1>4, <1>5, EndStep

\* size() is called for a chunk.
LEMMA SizeCalled ==
    ASSUME NEW f, CalmInv, ~SinkWaits, t.crash = "none",
           f.callback = "size", r'.stack = Append(r.stack, f), ReadableShape(r'),
           r'.pulling = r.pulling, r'.pull_again = r.pull_again,
           R!should_call_pull(r') <=> R!should_call_pull(r),
           w' = w, t' \in TransformShape, t'.crash = "none",
           t'.backpressure = t.backpressure, t'.pull = t.pull, t'.write = t.write,
           Range(t.stack) \subseteq Range(t'.stack), Enqueuing', Finishing'
    PROVE  IInv'
<1>1. Shapes' /\ Held'
  BY DEF CalmInv, Shapes, Held
<1>2. ~SinkWaits'
  BY DEF SinkWaits
<1>3. IsSeq(r.stack)
  BY DEF CalmInv, Shapes, ReadableShape, ReadableFrames
<1>4. /\ Len(r.stack) \in Nat /\ DOMAIN r.stack = 1 .. Len(r.stack)
      /\ Len(r'.stack) = Len(r.stack) + 1
      /\ \A i \in 1 .. Len(r.stack) : r'.stack[i] = r.stack[i]
      /\ Last(r'.stack) = f /\ r'.stack # <<>>
  <2> DEFINE q == r.stack
             p == Append(q, f)
  <2>1. /\ Len(q) \in Nat /\ DOMAIN q = 1 .. Len(q) /\ Len(p) = Len(q) + 1
        /\ \A i \in 1 .. Len(q) : p[i] = q[i]
        /\ Last(p) = f /\ p # <<>>
    <3> HIDE DEF q
    <3>1. IsSeq(q)
      BY <1>3 DEF q
    <3> QED
      BY <3>1, AppendIs
  <2>2. r'.stack = p
    OBVIOUS
  <2> HIDE DEF p
  <2> QED
    BY <2>1, <2>2
<1>5. R!Top("size")' /\ ~R!Top("pull")'
  BY <1>4, SameOperators DEF R!Top
<1>6. Nested'
  BY <1>4 DEF CalmInv, Calm, Nested
<1>7. OneAsks' /\ SizeOfEnqueue'
  BY <1>2 DEF OneAsks, SizeOfEnqueue
<1>8. Pulled'
  BY <1>5 DEF CalmInv, Pulled
<1>9. Demanded'
  <2>1. R!should_call_pull(r') /\ t'.backpressure => t'.pull = "released" /\ r'.pull_again
    BY DEF CalmInv
  <2> QED
    BY <2>1 DEF Demanded
<1> QED
  BY <1>1, <1>6, <1>7, <1>8, <1>9 DEF IInv

\* enqueue() of the controller.
LEMMA EnqueueInv ==
    ASSUME IInv, enqueue
    PROVE  IInv'
<1>1. CalmInv /\ ~SinkWaits /\ t.crash = "none" /\ w' = w /\ R!enqueue
  BY QuietInv DEF enqueue, ScriptRuns
<1>2. /\ Shapes /\ Held /\ Finishing /\ Calm /\ ReadableShape(r) /\ t \in TransformShape
      /\ r.pulling => t.pull # "none"
  BY <1>1 DEF CalmInv, Shapes
<1>3. /\ t' \in TransformShape /\ t'.crash = "none" /\ t'.backpressure = t.backpressure
      /\ t'.pull = t.pull /\ t'.write = t.write /\ t'.finish = t.finish
      /\ Range(t'.stack) = Range(t.stack) \cup {"enqueue"}
  <2> DEFINE q == Append(t.stack, "enqueue")
  <2>1. q \in Seq(TransformFrames)
    BY <1>2, StackIs DEF TransformFrames
  <2>2. Range(q) = Range(t.stack) \cup {"enqueue"}
    BY <1>2, StackIs, AppendIs
  <2>3. t' = [t EXCEPT !.stack = q]
    BY DEF enqueue
  <2> HIDE DEF q
  <2> QED
    BY <1>1, <1>2, <2>1, <2>2, <2>3 DEF TransformShape
<1>4. Enqueuing'
  BY <1>3 DEF Enqueuing
<1>5. /\ ReadableShape(r') /\ r'.source = r.source
      /\ \/ Pulls(r, r')
         \/ /\ \E f : r'.stack = Append(r.stack, f) /\ f.callback = "size"
            /\ r'.pulling = r.pulling /\ r'.pull_again = r.pull_again
            /\ R!should_call_pull(r') <=> R!should_call_pull(r)
  BY <1>1, <1>2, EnqueueStep
<1>6. Finishing'
  BY <1>1, <1>2, <1>3, <1>5, FinishStep
<1>7. CASE Pulls(r, r')
  <2>1. ReadableFrames(r.stack)
    BY <1>2 DEF ReadableShape
  <2>2. \A i \in DOMAIN r.stack : r.stack[i].callback = "cancel"
    BY <1>2 DEF Calm
  <2> QED
    BY <1>1, <1>2, <1>3, <1>4, <1>6, <1>7, <2>1, <2>2, AskStep
<1>8. CASE /\ \E f : r'.stack = Append(r.stack, f) /\ f.callback = "size"
           /\ r'.pulling = r.pulling /\ r'.pull_again = r.pull_again
           /\ R!should_call_pull(r') <=> R!should_call_pull(r)
  BY <1>1, <1>3, <1>4, <1>5, <1>6, <1>8, SizeCalled
<1> QED
  BY <1>5, <1>7, <1>8

\* The writable side fails and its write is unblocked.
LEMMA ErrorWritable ==
    ASSUME NEW s \in TransformShape, Balanced(s), WritableShape(w),
           error_writable_and_unblock_write(s)
    PROVE  /\ WritableShape(w') /\ w'.state # "writable" /\ w'.sink = w.sink
           /\ t' \in TransformShape /\ Balanced(t') /\ ~t'.backpressure
           /\ t'.pull = s.pull /\ t'.finish = s.finish /\ t'.stack = s.stack
<1> DEFINE c == clear_algorithms(s)
<1>1. w' = W!controller_error_if_needed(w) /\ t' = transform_stream_unblock_write(c)
  BY DEF error_writable_and_unblock_write
<1>2. WritableShape(w') /\ w'.state # "writable" /\ w'.sink = w.sink
  BY <1>1, FollowsErroring
<1>3. /\ c \in TransformShape /\ Balanced(c) /\ c.pull = s.pull
      /\ c.finish = s.finish /\ c.stack = s.stack
  BY ClearIs DEF Balanced
<1> HIDE DEF c
<1> QED
  BY <1>1, <1>2, <1>3, UnblockIs

\* A failure or the end of both sides.
LEMMA BothEnd ==
    ASSUME CalmInv, NEW s \in TransformShape, Balanced(s), s.pull = t.pull, s.finish = t.finish,
           Range(s.stack) \subseteq Range(t.stack),
           r' = r \/ Ends(r, r'), error_writable_and_unblock_write(s)
    PROVE  IInv'
<1>1. ReadableShape(r) /\ WritableShape(w) /\ Finishing
  BY DEF CalmInv, Shapes
<1>2. /\ WritableShape(w') /\ w'.state # "writable" /\ w'.sink = w.sink
      /\ t' \in TransformShape /\ Balanced(t') /\ ~t'.backpressure
      /\ t'.pull = s.pull /\ t'.finish = s.finish /\ t'.stack = s.stack
  BY <1>1, ErrorWritable
<1>3. ReadableShape(r') /\ r'.stack = r.stack /\ r'.pulling = r.pulling /\ r'.source = r.source
  BY <1>1 DEF Ends
<1>4. Finishing'
  BY <1>1, <1>2, <1>3, FinishStep
<1> QED
  BY <1>2, <1>3, <1>4, FailStep

\* error() and terminate() of the controller.
LEMMA EndInv ==
    ASSUME IInv, error \/ terminate
    PROVE  IInv'
<1>1. CalmInv
  BY QuietInv DEF error, terminate, ScriptRuns
<1>2. ReadableShape(r) /\ t \in TransformShape /\ Balanced(t)
  BY <1>1 DEF CalmInv, Shapes, Held, Balanced
<1>3. /\ r' = R!controller_error(r) \/ r' = R!controller_close(r)
      /\ error_writable_and_unblock_write(t)
  BY DEF error, terminate, transform_stream_error
<1>4. Ends(r, r')
  BY <1>2, <1>3, ControllerEnds
<1> QED
  BY <1>1, <1>2, <1>3, <1>4, BothEnd

\* The end of enqueue().
LEMMA EnqueuedInv ==
    ASSUME IInv, Enqueued
    PROVE  IInv'
<1> DEFINE p == Pop(t)
<1>1. CalmInv /\ t.stack # <<>> /\ r' = r
  BY QuietInv DEF Enqueued, Returns
<1>2. Shapes /\ t \in TransformShape /\ WritableShape(w) /\ Held /\ Finishing
  BY <1>1 DEF CalmInv, Shapes
<1>3. /\ p \in TransformShape /\ p.backpressure = t.backpressure /\ p.write = t.write
      /\ p.pull = t.pull /\ p.finish = t.finish /\ Range(p.stack) \subseteq Range(t.stack)
  BY <1>1, <1>2, PopIs
<1>4. CASE r.state = "errored"
  <2>1. error_writable_and_unblock_write(p)
    BY <1>4 DEF Enqueued
  <2> HIDE DEF p
  <2>2. Balanced(p)
    BY <1>2, <1>3 DEF Held, Balanced
  <2> QED
    BY <1>1, <1>3, <2>1, <2>2, BothEnd
<1>5. CASE r.state # "errored"
  <2> DEFINE v == Verify(p, ~R!should_call_pull(r))
  <2>1. /\ w' = w
        /\ \/ t' = p /\ (R!should_call_pull(r) <=> ~t.backpressure)
           \/ /\ t' = transform_stream_set_backpressure(v, TRUE)
              /\ ~R!should_call_pull(r) \/ t.backpressure
    <3>1. t.backpressure \in BOOLEAN
      BY <1>2 DEF TransformShape
    <3>2. /\ w' = w
          /\ t' = IF (~R!should_call_pull(r)) = t.backpressure THEN p
                  ELSE transform_stream_set_backpressure(v, TRUE)
      BY <1>5 DEF Enqueued
    <3> HIDE DEF p, v
    <3>3. R!should_call_pull(r) \in BOOLEAN
      BY DEF R!should_call_pull
    <3> QED
      BY <3>1, <3>2, <3>3
  <2> HIDE DEF p
  <2>2. /\ v \in TransformShape /\ v.backpressure = t.backpressure
        /\ v.pull = t.pull /\ v.finish = t.finish /\ v.stack = p.stack
    BY <1>3, VerifyIs
  <2> HIDE DEF v
  <2>3. CASE t' = p /\ (R!should_call_pull(r) <=> ~t.backpressure)
    <3>1. Shapes' /\ Calm' /\ Held' /\ Finishing'
      <4>1. Finishing'
        BY <1>1, <1>2, <1>3, <2>1, <2>3, FinishStep
      <4> QED
        BY <1>1, <1>2, <1>3, <2>1, <2>3, <4>1 DEF CalmInv, Shapes, Calm, Held
    <3>2. r'.pulling => t'.pull # "none"
      BY <1>1, <1>3, <2>3 DEF CalmInv
    <3>3. /\ R!should_call_pull(r') => ~t'.backpressure
          /\ ~t'.backpressure => R!should_call_pull(r')
      BY <1>1, <1>3, <2>3
    <3>4. CalmInv'
      BY <3>1, <3>2, <3>3 DEF CalmInv
    <3> QED
      BY <3>4, CalmImplies, PTL
  <2>4. CASE /\ t' = transform_stream_set_backpressure(v, TRUE)
             /\ ~R!should_call_pull(r) \/ t.backpressure
    <3>1. /\ t' \in TransformShape /\ t'.backpressure
          /\ t'.pull = IF t.pull = "waiting" THEN "released" ELSE t.pull
          /\ t'.finish = t.finish /\ t'.stack = p.stack
      BY <2>2, <2>4, BeginIs
    <3>2. Finishing'
      BY <1>1, <1>2, <1>3, <2>1, <3>1, FinishStep
    <3>3. Shapes' /\ Calm' /\ Held'
      BY <1>1, <1>2, <2>1, <3>1 DEF CalmInv, Shapes, Calm, Held
    <3>4. r'.pulling => t'.pull # "none"
      BY <1>1, <3>1 DEF CalmInv
    <3>5. R!should_call_pull(r') => t'.pull = "released" /\ r'.pull_again
      BY <1>1, <2>4, <3>1 DEF CalmInv
    <3>6. CalmInv'
      BY <3>1, <3>2, <3>3, <3>4, <3>5 DEF CalmInv
    <3> QED
      BY <3>6, CalmImplies, PTL
  <2> QED
    BY <2>1, <2>3, <2>4
<1> QED
  BY <1>4, <1>5

----------------------------------------------------------------------------
(* The algorithms. *)

\* The sizes and the signal.
LEMMA PlainInv ==
    ASSUME IInv, PlainCall
    PROVE  IInv'
<1>1. Shapes /\ Nested /\ OneAsks /\ Held /\ Finishing /\ t \in TransformShape
      /\ ReadableShape(r) /\ WritableShape(w)
  BY DEF IInv, Shapes
<1>2. CASE /\ \/ SinkCalled("size") /\ W!SizeReturns("valid")
              \/ SinkCalled("signal") /\ W!SignalReturns
           /\ UNCHANGED <<r, t>>
  <2>1. Calm
    BY <1>1, <1>2, Busy
  <2>2. CalmInv
    BY <2>1, CalmFrom
  <2>3. Serves(w, w')
    BY <1>1, <1>2, CallServes
  <2>4. Finishing'
    BY <1>1, <1>2, <2>3, FinishStep DEF Serves
  <2>5. Enqueuing => Enqueuing'
    BY <1>2 DEF Enqueuing
  <2> QED
    BY <1>1, <1>2, <2>2, <2>3, <2>4, <2>5, OtherStep DEF Serves, Held
<1>3. CASE SourceCalled("size") /\ R!SizeReturns /\ UNCHANGED <<w, t>>
  <2> DEFINE s == R!Popped
  <2>1. R!Top("size") /\ ~R!Top("pull") /\ r.stack # <<>> /\ t.crash = "none"
    BY <1>3, TopIs DEF SourceCalled
  <2>2. Pulls(s, r') /\ r'.source = r.source
    BY <1>1, <1>3, SizeStep
  <2>3. ReadableShape(s) /\ s.stack = Front(r.stack) /\ s.pulling = r.pulling
    BY <1>1, <2>1, PoppedIs
  <2> HIDE DEF s
  <2>4. \A i \in DOMAIN s.stack : s.stack[i].callback = "cancel"
    BY <1>1, <2>1, <2>3, BelowIs
  <2>5. ReadableFrames(s.stack) /\ (s.pulling => t.pull # "none")
    BY <2>1, <2>3 DEF ReadableShape, IInv, Pulled
  <2>6. ~SinkWaits
    BY <1>1, <2>1 DEF OneAsks, Asks
  <2>7. Finishing'
    BY <1>1, <1>3, <2>2, FinishStep
  <2>8. Enqueuing'
    BY <1>3, <2>1 DEF IInv, SizeOfEnqueue, Enqueuing
  <2> QED
    BY <1>1, <1>3, <2>1, <2>2, <2>4, <2>5, <2>6, <2>7, <2>8, AskStep
<1>4. CASE SourceCalled("size") /\ R!SizeFails /\ UNCHANGED <<w, t>>
  <2> DEFINE s == R!Popped
  <2>1. ~R!Top("pull") /\ r.stack # <<>>
    BY <1>4, TopIs DEF SourceCalled
  <2>2. Ends(s, r') /\ r'.source = r.source
    BY <1>1, <1>4, SizeFailsStep
  <2>3. s.stack = Front(r.stack) /\ s.pulling = r.pulling
    BY <1>1, <2>1, PoppedIs
  <2> HIDE DEF s
  <2>4. Calm'
    BY <1>1, <2>1, <2>2, <2>3, BelowIs DEF Calm, Ends
  <2>5. r'.pulling => t'.pull # "none"
    BY <1>4, <2>1, <2>2, <2>3 DEF Ends, IInv, Pulled
  <2>6. Finishing'
    BY <1>1, <1>4, <2>2, FinishStep
  <2>7. Shapes' /\ Held'
    BY <1>1, <1>4, <2>2 DEF Shapes, Held, Ends
  <2>8. ~R!can_close_or_enqueue(r') /\ ~R!should_call_pull(r')
    BY <2>2 DEF Ends, R!should_call_pull
  <2>9. CalmInv'
    BY <2>4, <2>5, <2>6, <2>7, <2>8 DEF CalmInv
  <2> QED
    BY <2>9, CalmImplies, PTL
<1> QED
  BY <1>2, <1>3, <1>4 DEF PlainCall

\* write() of the sink waits or calls the transformer.
LEMMA SinkWriteInv ==
    ASSUME IInv, sink_write
    PROVE  IInv'
<1> DEFINE s == Verify(t, w.state = "writable")
<1>1. Shapes /\ Nested /\ OneAsks /\ Held /\ Finishing /\ t \in TransformShape /\ WritableShape(w)
  BY DEF IInv, Shapes
<1>2. SinkCalled("write") /\ r' = r
  BY DEF sink_write
<1>3. CalmInv
  BY <1>1, <1>2, Busy, CalmFrom DEF W!SinkCallback
<1>4. /\ s \in TransformShape /\ s.backpressure = t.backpressure /\ s.write = t.write
      /\ s.pull = t.pull /\ s.finish = t.finish /\ s.stack = t.stack
  BY <1>1 DEF TransformShape, Verify
<1>5. CASE t.backpressure
  <2>1. W!SinkReturns /\ t' = [s EXCEPT !.write = "blocked"]
    BY <1>5 DEF sink_write
  <2> HIDE DEF s
  <2>2. WritableShape(w') /\ w'.state = w.state /\ w'.sink = w.sink \cup {"write"}
    BY <1>1, <1>2, <2>1, SinkPromises DEF SinkCalled
  <2>3. /\ t' \in TransformShape /\ t'.backpressure = t.backpressure /\ t'.pull = t.pull
        /\ t'.finish = t.finish /\ t'.stack = t.stack
    BY <1>4, <2>1 DEF TransformShape
  <2>4. Finishing' /\ (Enqueuing => Enqueuing')
    BY <1>1, <1>2, <2>2, <2>3, FinishStep DEF Enqueuing
  <2> QED
    BY <1>2, <1>3, <1>5, <2>2, <2>3, <2>4, OtherStep
<1>6. CASE ~t.backpressure
  <2>1. w' = w /\ t' = CallTransformer(s, "write")
    BY <1>6 DEF sink_write
  <2> HIDE DEF s
  <2>2. /\ t' \in TransformShape /\ t'.backpressure = t.backpressure /\ t'.pull = t.pull
        /\ t'.write = t.write
        /\ t'.finish = t.finish /\ Range(t'.stack) = Range(t.stack) \cup {"write"}
    BY <1>4, <2>1, CallIs DEF TransformFrames
  <2>3. Finishing' /\ (Enqueuing => Enqueuing')
    BY <1>1, <1>2, <2>1, <2>2, FinishStep DEF Enqueuing
  <2> QED
    BY <1>1, <1>2, <1>3, <2>1, <2>2, <2>3, OtherStep DEF Held
<1> QED
  BY <1>5, <1>6

\* The transformer is called, and nothing else happens.
LEMMA CallInv ==
    ASSUME CalmInv, NEW s \in TransformShape, NEW cb \in TransformFrames,
           s.backpressure = t.backpressure, s.pull = t.pull, s.write = t.write, s.stack = t.stack,
           t.finish # "none" => s.finish # "none",
           cb \in {"cancel", "abort"} => s.finish # "none",
           r' = r, w' = w, t' = CallTransformer(s, cb)
    PROVE  IInv'
<1>1. Held /\ Finishing /\ WritableShape(w)
  BY DEF CalmInv, Shapes
<1>2. /\ t' \in TransformShape /\ t'.backpressure = t.backpressure /\ t'.pull = t.pull
      /\ t'.write = t.write
      /\ t'.finish = s.finish /\ Range(t'.stack) = Range(t.stack) \cup {cb}
  BY CallIs
<1>3. Enqueuing => Enqueuing'
  BY <1>2 DEF Enqueuing
<1>4. Finishing'
  BY <1>1, <1>2 DEF Finishing
<1> QED
  BY <1>1, <1>2, <1>3, <1>4, OtherStep DEF Held

\* The reaction to the end of backpressure.
LEMMA ReleasedInv ==
    ASSUME IInv, WriteReleased
    PROVE  IInv'
<1> DEFINE s == Verify(t, w.state = "writable")
<1>1. CalmInv /\ r' = r /\ w' = w
  BY QuietInv DEF WriteReleased, Microtask
<1>2. t \in TransformShape /\ Finishing /\ WritableShape(w)
  BY <1>1 DEF CalmInv, Shapes
<1>3. \/ t' = [t EXCEPT !.write = "rejected"] \/ t' = CallTransformer(s, "transform")
  BY DEF WriteReleased
<1>4. /\ s \in TransformShape /\ s.backpressure = t.backpressure /\ s.write = t.write
      /\ s.pull = t.pull /\ s.finish = t.finish /\ s.stack = t.stack
  BY <1>2 DEF TransformShape, Verify
<1>5. CASE t' = [t EXCEPT !.write = "rejected"]
  <2>1. /\ t' \in TransformShape /\ t'.backpressure = t.backpressure /\ t'.pull = t.pull
        /\ t'.write = "rejected" /\ t'.finish = t.finish /\ t'.stack = t.stack
    BY <1>2, <1>5 DEF TransformShape
  <2>2. Finishing' /\ (Enqueuing => Enqueuing')
    BY <1>1, <1>2, <2>1, FinishStep DEF Enqueuing
  <2> QED
    BY <1>1, <1>2, <2>1, <2>2, OtherStep
<1>6. CASE t' = CallTransformer(s, "transform")
  <2> HIDE DEF s
  <2>1. "transform" \in TransformFrames /\ "transform" \notin {"cancel", "abort"}
    BY DEF TransformFrames
  <2> QED
    BY <1>1, <1>4, <1>6, <2>1, CallInv
<1> QED
  BY <1>3, <1>5, <1>6

\* close() of the sink calls the transformer.
LEMMA SinkCloseInv ==
    ASSUME IInv, sink_close
    PROVE  IInv'
<1>1. Shapes /\ Nested /\ OneAsks /\ t \in TransformShape
  BY DEF IInv, Shapes
<1>2. SinkCalled("close") /\ r' = r /\ w' = w /\ t' = CallTransformer(t, "close")
  BY DEF sink_close
<1>3. CalmInv
  BY <1>1, <1>2, Busy, CalmFrom DEF W!SinkCallback
<1>4. "close" \in TransformFrames /\ "close" \notin {"cancel", "abort"}
  BY DEF TransformFrames
<1> QED
  BY <1>1, <1>2, <1>3, <1>4, CallInv

\* abort() of the sink.
LEMMA SinkAbortInv ==
    ASSUME IInv, sink_abort
    PROVE  IInv'
<1>1. Shapes /\ Nested /\ OneAsks /\ Held /\ Finishing /\ t \in TransformShape /\ WritableShape(w)
  BY DEF IInv, Shapes
<1>2. SinkCalled("abort") /\ r' = r
  BY DEF sink_abort
<1>3. CalmInv
  BY <1>1, <1>2, Busy, CalmFrom DEF W!SinkCallback
<1>4. CASE t.finish # "none"
  <2>1. W!SinkReturns /\ t' = t
    BY <1>4 DEF sink_abort
  <2>2. WritableShape(w') /\ w'.state = w.state
    BY <1>1, <2>1, SinkPromises
  <2>3. Finishing' /\ (Enqueuing => Enqueuing')
    BY <1>4, <2>1 DEF Finishing, Enqueuing
  <2> QED
    BY <1>1, <1>2, <1>3, <2>1, <2>2, <2>3, OtherStep DEF Held
<1>5. CASE t.finish = "none"
  <2> DEFINE s == [t EXCEPT !.finish = "pending"]
  <2>1. w' = w /\ t' = CallTransformer(s, "abort")
    BY <1>5 DEF sink_abort
  <2>2. /\ s \in TransformShape /\ s.backpressure = t.backpressure /\ s.write = t.write
        /\ s.pull = t.pull /\ s.finish = "pending" /\ s.stack = t.stack
    BY <1>1 DEF TransformShape, Outcomes
  <2>3. "abort" \in TransformFrames
    BY DEF TransformFrames
  <2> HIDE DEF s
  <2> QED
    BY <1>2, <1>3, <2>1, <2>2, <2>3, CallInv
<1> QED
  BY <1>4, <1>5

\* cancel() of the source.
LEMMA SourceCancelInv ==
    ASSUME IInv, source_cancel
    PROVE  IInv'
<1>1. /\ Shapes /\ Nested /\ OneAsks /\ Held /\ Finishing /\ t \in TransformShape
      /\ WritableShape(w) /\ ReadableShape(r)
  BY DEF IInv, Shapes
<1>2. SourceCalled("cancel") /\ w' = w
  BY DEF source_cancel
<1>3. CalmInv
  BY <1>1, <1>2, Busy, CalmFrom
<1>4. CASE t.finish # "none"
  <2>1. R!CancelReturns /\ t' = t
    BY <1>4 DEF source_cancel
  <2>2. /\ r.stack # <<>> /\ ReadableShape(r') /\ r'.stack = Front(r.stack)
        /\ r'.pulling = r.pulling /\ r'.pull_again = r.pull_again
        /\ R!can_close_or_enqueue(r') <=> R!can_close_or_enqueue(r)
        /\ R!should_call_pull(r') <=> R!should_call_pull(r)
    BY <1>1, <2>1, SourceStep
  <2>3. Calm'
    BY <1>1, <2>2, BelowIs DEF Calm
  <2>4. Finishing' /\ (Enqueuing => Enqueuing')
    BY <1>4, <2>1 DEF Finishing, Enqueuing
  <2> QED
    BY <1>1, <1>2, <1>3, <2>1, <2>2, <2>3, <2>4, StillStep DEF Held
<1>5. CASE t.finish = "none"
  <2> DEFINE s == [t EXCEPT !.finish = "pending"]
  <2>1. r' = r /\ t' = CallTransformer(s, "cancel")
    BY <1>5 DEF source_cancel
  <2>2. /\ s \in TransformShape /\ s.backpressure = t.backpressure /\ s.write = t.write
        /\ s.pull = t.pull /\ s.finish = "pending" /\ s.stack = t.stack
    BY <1>1 DEF TransformShape, Outcomes
  <2>3. "cancel" \in TransformFrames
    BY DEF TransformFrames
  <2> HIDE DEF s
  <2> QED
    BY <1>2, <1>3, <2>1, <2>2, <2>3, CallInv
<1> QED
  BY <1>4, <1>5

\* pull() of the source ends the backpressure.
LEMMA SourcePullInv ==
    ASSUME IInv, source_pull
    PROVE  IInv'
<1> DEFINE v == Verify(t, t.backpressure)
           u == transform_stream_set_backpressure(v, FALSE)
<1>1. /\ Shapes /\ Nested /\ Finishing /\ t \in TransformShape
      /\ WritableShape(w) /\ ReadableShape(r)
  BY DEF IInv, Shapes
<1>2. /\ SourceCalled("pull") /\ w' = w /\ R!PullReturns
      /\ t' = [u EXCEPT !.pull = "waiting"]
  BY DEF source_pull
<1>3. v \in TransformShape /\ v.finish = t.finish /\ v.stack = t.stack
  BY <1>1 DEF TransformShape, Verify
<1> HIDE DEF v
<1>4. /\ u \in TransformShape /\ ~u.backpressure /\ u.write # "blocked"
      /\ u.finish = t.finish /\ u.stack = t.stack
  BY <1>3, EndIs
<1> HIDE DEF u
<1>5. /\ t' \in TransformShape /\ ~t'.backpressure /\ t'.write # "blocked" /\ t'.pull = "waiting"
      /\ t'.finish = t.finish /\ t'.stack = t.stack
  BY <1>2, <1>4 DEF TransformShape
<1>6. /\ r.stack # <<>> /\ ReadableShape(r') /\ r'.stack = Front(r.stack)
      /\ r'.source = r.source \cup {"pull"}
      /\ R!should_call_pull(r') <=> R!should_call_pull(r)
  BY <1>1, <1>2, SourceStep
<1>7. R!should_call_pull(r')
  BY <1>2, <1>6, TopIs DEF SourceCalled, IInv, Pulled
<1>8. Calm'
  BY <1>1, <1>6, BelowIs DEF Calm
<1>9. Finishing'
  BY <1>1, <1>2, <1>5, <1>6, FinishStep
<1>10. Shapes' /\ Held'
  BY <1>1, <1>2, <1>5, <1>6 DEF Shapes, Held
<1>11. CalmInv'
  BY <1>5, <1>7, <1>8, <1>9, <1>10 DEF CalmInv
<1> QED
  BY <1>11, CalmImplies, PTL

----------------------------------------------------------------------------
(* The transformer returns, and its promises are settled. *)

\* A frame of the transformer is popped.
LEMMA ReturnIs ==
    ASSUME IInv, NEW cb, Returns(cb), cb # "enqueue"
    PROVE  LET p == Pop(t)
           IN  /\ CalmInv /\ ~SinkWaits /\ t.crash = "none" /\ cb \in Range(t.stack)
               /\ p \in TransformShape /\ p.backpressure = t.backpressure /\ p.write = t.write
               /\ p.pull = t.pull /\ p.finish = t.finish
               /\ Range(p.stack) \subseteq Range(t.stack)
               /\ "enqueue" \in Range(t.stack) => "enqueue" \in Range(p.stack)
<1>1. CalmInv /\ ~SinkWaits /\ t.crash = "none" /\ t.stack # <<>> /\ Last(t.stack) = cb
  BY QuietInv DEF Returns
<1>2. t \in TransformShape
  BY DEF IInv, Shapes
<1> QED
  BY <1>1, <1>2, PopIs

\* A sink that returns abort() has found the finish promise.
LEMMA SinkFinish ==
    ASSUME CalmInv, ~SinkWaits, t.crash = "none", W!SinkReturns
    PROVE  /\ WritableShape(w') /\ w'.state = w.state
           /\ "abort" \in w'.sink => "abort" \in w.sink \/ t.finish # "none"
<1>1. WritableShape(w) /\ Finishing
  BY DEF CalmInv, Shapes
<1>2. /\ WritableShape(w') /\ w'.state = w.state
      /\ w.stack # <<>> /\ Last(w.stack).callback \in W!SinkCallback
      /\ w'.sink = w.sink \cup {Last(w.stack).callback}
  BY <1>1, SinkPromises
<1>3. Last(w.stack).callback \in Range(t.stack)
  BY <1>2 DEF SinkWaits
<1> QED
  BY <1>1, <1>2, <1>3 DEF Finishing

\* transform() returns its promise.
LEMMA TransformReturnsInv ==
    ASSUME IInv, TransformReturns
    PROVE  IInv'
<1> DEFINE p == Pop(t)
<1>1. PICK cb \in {"write", "transform"} : Returns(cb)
  BY DEF TransformReturns
<1>2. /\ CalmInv /\ ~SinkWaits /\ t.crash = "none"
      /\ p \in TransformShape /\ p.backpressure = t.backpressure
      /\ p.pull = t.pull /\ p.finish = t.finish
      /\ Range(p.stack) \subseteq Range(t.stack)
      /\ "enqueue" \in Range(t.stack) => "enqueue" \in Range(p.stack)
  BY <1>1, ReturnIs
<1>3. /\ r' = r /\ t' = [p EXCEPT !.write = "transforming"]
      /\ W!SinkReturns \/ w' = w
  BY DEF TransformReturns
<1> HIDE DEF p
<1>4. /\ t' \in TransformShape /\ t'.backpressure = t.backpressure /\ t'.write = "transforming"
      /\ t'.pull = t.pull /\ t'.finish = t.finish /\ t'.stack = p.stack
  BY <1>2, <1>3 DEF TransformShape
<1>5. /\ WritableShape(w') /\ w'.state = w.state
      /\ "abort" \in w'.sink => "abort" \in w.sink \/ t.finish # "none"
  BY <1>2, <1>3, SinkFinish DEF CalmInv, Shapes
<1>6. Finishing'
  BY <1>2, <1>3, <1>4, <1>5, FinishStep DEF CalmInv
<1>7. Enqueuing => Enqueuing'
  BY <1>2, <1>4 DEF Enqueuing
<1> QED
  BY <1>2, <1>3, <1>4, <1>5, <1>6, <1>7, OtherStep

\* flush() and cancel() return their promises.
LEMMA EndReturnsInv ==
    ASSUME IInv, FlushReturns \/ CancelReturns
    PROVE  IInv'
<1> DEFINE p == Pop(t)
           c == clear_algorithms(p)
<1>1. PICK cb \in {"close", "abort", "cancel"} : /\ Returns(cb)
        /\ \/ cb \in {"close", "abort"} /\ W!SinkReturns /\ r' = r
           \/ cb = "cancel" /\ R!CancelReturns /\ w' = w
        /\ \/ t' = [c EXCEPT !.flush = "pending"]
           \/ t' = [c EXCEPT !.canceling = "abort"] \/ t' = [c EXCEPT !.canceling = "cancel"]
  BY DEF FlushReturns, CancelReturns
<1>2. /\ CalmInv /\ ~SinkWaits /\ t.crash = "none" /\ cb \in Range(t.stack)
      /\ p \in TransformShape /\ p.backpressure = t.backpressure /\ p.write = t.write
      /\ p.pull = t.pull /\ p.finish = t.finish
      /\ Range(p.stack) \subseteq Range(t.stack)
      /\ "enqueue" \in Range(t.stack) => "enqueue" \in Range(p.stack)
  BY <1>1, ReturnIs
<1> HIDE DEF p
<1>3. /\ c \in TransformShape /\ c.backpressure = t.backpressure /\ c.write = t.write
      /\ c.pull = t.pull /\ c.finish = t.finish /\ c.stack = p.stack
  BY <1>2, ClearIs
<1> HIDE DEF c
<1>4. /\ t' \in TransformShape /\ t'.backpressure = t.backpressure /\ t'.write = t.write
      /\ t'.pull = t.pull /\ t'.finish = t.finish /\ t'.stack = p.stack
  BY <1>1, <1>3 DEF TransformShape, Outcomes
<1>5. Enqueuing => Enqueuing'
  BY <1>2, <1>4 DEF Enqueuing
<1>6. Shapes /\ Held /\ Finishing /\ WritableShape(w) /\ ReadableShape(r) /\ Nested
  BY <1>2 DEF CalmInv, Shapes, IInv
<1>7. CASE cb \in {"close", "abort"} /\ W!SinkReturns /\ r' = r
  <2>1. /\ WritableShape(w') /\ w'.state = w.state
        /\ "abort" \in w'.sink => "abort" \in w.sink \/ t.finish # "none"
    BY <1>2, <1>7, SinkFinish
  <2>2. Finishing'
    BY <1>2, <1>4, <1>6, <1>7, <2>1, FinishStep
  <2> QED
    BY <1>2, <1>4, <1>5, <1>6, <1>7, <2>1, <2>2, OtherStep DEF Held
<1>8. CASE cb = "cancel" /\ R!CancelReturns /\ w' = w
  <2>1. /\ r.stack # <<>> /\ ReadableShape(r') /\ r'.stack = Front(r.stack)
        /\ r'.pulling = r.pulling /\ r'.pull_again = r.pull_again
        /\ R!can_close_or_enqueue(r') <=> R!can_close_or_enqueue(r)
        /\ R!should_call_pull(r') <=> R!should_call_pull(r)
    BY <1>6, <1>8, SourceStep
  <2>2. Calm'
    BY <1>6, <2>1, BelowIs DEF Calm
  <2>3. t.finish # "none"
    BY <1>2, <1>6, <1>8 DEF Finishing
  <2>4. Finishing'
    BY <1>4, <2>3 DEF Finishing
  <2> QED
    BY <1>2, <1>4, <1>5, <1>6, <1>8, <2>1, <2>2, <2>4, StillStep DEF Held
<1> QED
  BY <1>1, <1>7, <1>8

\* In a microtask the stack is empty.
LEMMA MicrotaskIs ==
    ASSUME IInv, Microtask
    PROVE  /\ CalmInv /\ ~SinkWaits /\ t.crash = "none" /\ t.stack = <<>> /\ Range(t.stack) = {}
           /\ t \in TransformShape /\ ReadableShape(r) /\ WritableShape(w)
           /\ Held /\ Finishing /\ Balanced(t)
<1>1. CalmInv /\ ~SinkWaits /\ t.crash = "none" /\ t.stack = <<>>
  BY QuietInv DEF Microtask
<1>2. t \in TransformShape /\ ReadableShape(r) /\ WritableShape(w) /\ Held /\ Finishing
  BY <1>1 DEF CalmInv, Shapes
<1> QED
  BY <1>1, <1>2, EmptyIs DEF Held, Balanced

\* The promise of transform() is settled.
LEMMA TransformSettledInv ==
    ASSUME IInv, NEW o \in {"fulfilled", "rejected"}, TransformSettled(o)
    PROVE  IInv'
<1> DEFINE s == [t EXCEPT !.write = o]
<1>1. /\ CalmInv /\ Range(t.stack) = {} /\ t \in TransformShape /\ ReadableShape(r)
      /\ WritableShape(w) /\ Held /\ Finishing /\ Balanced(t)
  BY MicrotaskIs DEF TransformSettled
<1>2. transform_stream_error(s) \/ (t' = s /\ r' = r /\ w' = w)
  BY DEF TransformSettled
<1>3. /\ s \in TransformShape /\ s.backpressure = t.backpressure /\ s.pull = t.pull
      /\ s.finish = t.finish /\ s.stack = t.stack /\ s.write = o
  BY <1>1 DEF TransformShape
<1> HIDE DEF s
<1>4. CASE transform_stream_error(s)
  <2>1. r' = R!controller_error(r) /\ error_writable_and_unblock_write(s)
    BY <1>4 DEF transform_stream_error
  <2>2. Ends(r, r')
    BY <1>1, <2>1, ControllerEnds
  <2>3. Balanced(s)
    BY <1>1, <1>3 DEF Balanced
  <2> QED
    BY <1>1, <1>3, <2>1, <2>2, <2>3, BothEnd
<1>5. CASE t' = s /\ r' = r /\ w' = w
  <2>1. Finishing' /\ (Enqueuing => Enqueuing')
    BY <1>1, <1>3, <1>5, FinishStep DEF Enqueuing
  <2> QED
    BY <1>1, <1>3, <1>5, <2>1, OtherStep
<1> QED
  BY <1>2, <1>4, <1>5

\* The promise of flush() is settled.
LEMMA FlushSettledInv ==
    ASSUME IInv, NEW o \in {"fulfilled", "rejected"}, FlushSettled(o)
    PROVE  IInv'
<1> DEFINE f == IF r.state = "errored" THEN "rejected" ELSE "fulfilled"
           s == [t EXCEPT !.flush = f]
           e == [t EXCEPT !.flush = "rejected"]
<1>1. /\ CalmInv /\ Range(t.stack) = {} /\ t \in TransformShape /\ ReadableShape(r)
      /\ WritableShape(w) /\ Held /\ Finishing /\ Balanced(t)
  BY MicrotaskIs DEF FlushSettled
<1>2. transform_stream_error(e) \/ (t' = s /\ r' = R!controller_close(r) /\ w' = w)
  BY DEF FlushSettled
<1>3. /\ e \in TransformShape /\ e.backpressure = t.backpressure /\ e.pull = t.pull
      /\ e.finish = t.finish /\ e.stack = t.stack /\ e.write = t.write
  BY <1>1 DEF TransformShape, Outcomes
<1>4. /\ s \in TransformShape /\ s.backpressure = t.backpressure /\ s.pull = t.pull
      /\ s.finish = t.finish /\ s.stack = t.stack /\ s.write = t.write
  BY <1>1 DEF TransformShape, Outcomes
<1> HIDE DEF s, e
<1>5. CASE transform_stream_error(e)
  <2>1. r' = R!controller_error(r) /\ error_writable_and_unblock_write(e)
    BY <1>5 DEF transform_stream_error
  <2>2. Ends(r, r')
    BY <1>1, <2>1, ControllerEnds
  <2>3. Balanced(e)
    BY <1>1, <1>3 DEF Balanced
  <2> QED
    BY <1>1, <1>3, <2>1, <2>2, <2>3, BothEnd
<1>6. CASE t' = s /\ r' = R!controller_close(r) /\ w' = w
  <2>1. Ends(r, r')
    BY <1>1, <1>6, ControllerEnds
  <2>2. Finishing'
    BY <1>1, <1>4, <1>6, <2>1, FinishStep DEF Ends
  <2>3. Calm'
    BY <1>1, <2>1 DEF CalmInv, Calm, Ends
  <2> QED
    BY <1>1, <1>4, <1>6, <2>1, <2>2, <2>3, EndStep DEF Ends
<1> QED
  BY <1>2, <1>5, <1>6

\* The promise of cancel() that abort() has called for is settled.
LEMMA AbortCancelInv ==
    ASSUME IInv, NEW o \in {"fulfilled", "rejected"}, AbortCancelSettled(o)
    PROVE  IInv'
<1> DEFINE f == IF r.state = "errored" THEN "rejected" ELSE o
<1>1. /\ CalmInv /\ Range(t.stack) = {} /\ t \in TransformShape /\ ReadableShape(r)
      /\ WritableShape(w) /\ Held /\ Finishing
  BY MicrotaskIs DEF AbortCancelSettled
<1>2. /\ t' = [t EXCEPT !.canceling = "none", !.finish = f] /\ w' = w
      /\ r' = R!controller_error(r)
  BY DEF AbortCancelSettled
<1>3. f \in {"fulfilled", "rejected"}
  OBVIOUS
<1> HIDE DEF f
<1>4. /\ t' \in TransformShape /\ t'.backpressure = t.backpressure /\ t'.pull = t.pull
      /\ t'.finish # "none" /\ t'.write = t.write
  BY <1>1, <1>2, <1>3 DEF TransformShape, Outcomes
<1>5. Ends(r, r')
  BY <1>1, <1>2, ControllerEnds
<1>6. Finishing'
  BY <1>4 DEF Finishing
<1>7. Calm'
  BY <1>1, <1>5 DEF CalmInv, Calm, Ends
<1> QED
  BY <1>1, <1>2, <1>4, <1>5, <1>6, <1>7, EndStep DEF Ends

\* The promise of cancel() that the source has called for is settled.
LEMMA SourceSettledInv ==
    ASSUME IInv, NEW o \in {"fulfilled", "rejected"}, SourceCancelSettled(o)
    PROVE  IInv'
<1> DEFINE s == [t EXCEPT !.canceling = "none"]
           u == transform_stream_unblock_write(s)
<1>1. /\ CalmInv /\ Range(t.stack) = {} /\ t \in TransformShape /\ ReadableShape(r)
      /\ WritableShape(w) /\ Held /\ Finishing /\ Balanced(t)
  BY MicrotaskIs DEF SourceCancelSettled
<1>2. /\ r' = r
      /\ \/ t' = [s EXCEPT !.finish = "rejected"] /\ w' = w
         \/ w' = W!controller_error_if_needed(w) /\ t' = [u EXCEPT !.finish = o]
  BY DEF SourceCancelSettled
<1>3. /\ s \in TransformShape /\ s.backpressure = t.backpressure /\ s.pull = t.pull
      /\ s.write = t.write /\ s.stack = t.stack
  BY <1>1 DEF TransformShape
<1> HIDE DEF s
<1>4. CASE t' = [s EXCEPT !.finish = "rejected"] /\ w' = w
  <2>1. /\ t' \in TransformShape /\ t'.backpressure = t.backpressure /\ t'.pull = t.pull
        /\ t'.write = t.write /\ t'.stack = t.stack /\ t'.finish = "rejected"
    BY <1>3, <1>4 DEF TransformShape, Outcomes
  <2>2. Finishing' /\ (Enqueuing => Enqueuing')
    BY <2>1 DEF Finishing, Enqueuing
  <2> QED
    BY <1>1, <1>2, <1>4, <2>1, <2>2, OtherStep DEF Held
<1>5. CASE w' = W!controller_error_if_needed(w) /\ t' = [u EXCEPT !.finish = o]
  <2>1. Balanced(s)
    BY <1>1, <1>3 DEF Balanced
  <2>2. u \in TransformShape /\ Balanced(u) /\ ~u.backpressure /\ u.pull = t.pull
    BY <1>3, <2>1, UnblockIs
  <2> HIDE DEF u
  <2>3. /\ t' \in TransformShape /\ ~t'.backpressure /\ t'.pull = t.pull
        /\ t'.finish # "none" /\ Balanced(t')
    BY <1>5, <2>2 DEF TransformShape, Outcomes, Balanced
  <2>4. WritableShape(w') /\ w'.state # "writable"
    BY <1>1, <1>5, FollowsErroring
  <2>5. Finishing'
    BY <2>3 DEF Finishing
  <2> QED
    BY <1>1, <1>2, <2>3, <2>4, <2>5, FailStep
<1> QED
  BY <1>2, <1>4, <1>5

----------------------------------------------------------------------------
(* The reactions of the two streams. *)

\* Reactions of the writable side.
LEMMA WritableReacts ==
    ASSUME IInv, Microtask, r' = r, Serves(w, w'),
           t' \in TransformShape, t'.backpressure = t.backpressure, t'.pull = t.pull,
           t'.finish = t.finish, t'.stack = t.stack, t'.write \in {t.write, "none"}
    PROVE  IInv'
<1>1. /\ CalmInv /\ t \in TransformShape /\ WritableShape(w) /\ Held /\ Finishing
  BY MicrotaskIs
<1>2. Finishing' /\ (Enqueuing => Enqueuing')
  BY <1>1, FinishStep DEF Serves, Enqueuing
<1> QED
  BY <1>1, <1>2, OtherStep DEF Serves, Held

\* start(), write(), close() and abort() are over.
LEMMA WritableInv ==
    ASSUME IInv,
           \/ \E o \in {"fulfilled", "rejected"} : WritableStarts(o)
           \/ WriteSettled \/ CloseSettled \/ AbortSettled
    PROVE  IInv'
<1>1. Microtask /\ r' = r
  BY DEF WritableStarts, WriteSettled, CloseSettled, AbortSettled
<1>2. t \in TransformShape /\ WritableShape(w)
  BY <1>1, MicrotaskIs
<1>3. Serves(w, w')
  <2>1. CASE \E o \in {"fulfilled", "rejected"} : WritableStarts(o)
    BY <1>2, <2>1, StartServes DEF WritableStarts
  <2>2. CASE WriteSettled
    BY <1>2, <2>2, WriteServes DEF WriteSettled
  <2>3. CASE CloseSettled
    BY <1>2, <2>3, CloseServes DEF CloseSettled
  <2>4. CASE AbortSettled
    BY <1>2, <2>4, AbortServes DEF AbortSettled
  <2> QED
    BY <2>1, <2>2, <2>3, <2>4
<1>4. /\ t' \in TransformShape /\ t'.backpressure = t.backpressure /\ t'.pull = t.pull
      /\ t'.finish = t.finish /\ t'.stack = t.stack /\ t'.write \in {t.write, "none"}
  <2>1. ASSUME NEW o \in {"fulfilled", "rejected"}, WritableStarts(o)
        PROVE  t' = [t EXCEPT !.start = o]
    BY <2>1 DEF WritableStarts
  <2>2. CASE \E o \in {"fulfilled", "rejected"} : t' = [t EXCEPT !.start = o]
    BY <1>2, <2>2 DEF TransformShape
  <2>3. CASE t' = [t EXCEPT !.write = "none"]
    BY <1>2, <2>3 DEF TransformShape
  <2>4. CASE t' = t
    BY <1>2, <2>4
  <2>5. \/ \E o \in {"fulfilled", "rejected"} : t' = [t EXCEPT !.start = o]
        \/ t' = [t EXCEPT !.write = "none"] \/ t' = t
    BY <2>1 DEF WriteSettled, CloseSettled, AbortSettled
  <2> QED
    BY <2>2, <2>3, <2>4, <2>5
<1> QED
  BY <1>1, <1>3, <1>4, WritableReacts

\* start() of the readable side is over.
LEMMA ReadableStartsInv ==
    ASSUME IInv, ReadableStarts
    PROVE  IInv'
<1>1. /\ CalmInv /\ ~SinkWaits /\ t.crash = "none" /\ t \in TransformShape /\ ReadableShape(r)
      /\ WritableShape(w) /\ Held /\ Finishing
  BY MicrotaskIs DEF ReadableStarts
<1>2. w' = w /\ t' = t /\ (R!StartFulfilled \/ R!SourceRejects("start"))
  BY DEF ReadableStarts
<1>3. CASE R!StartFulfilled
  <2>1. Pulls(r, r') /\ r'.source \subseteq r.source /\ Keeps(r, r')
    BY <1>1, <1>3, StartStep
  <2>2. Finishing'
    BY <1>1, <1>2, <2>1, FinishStep
  <2>3. ~t'.backpressure /\ w'.state = "writable" /\ ~Enqueuing'
           /\ R!can_close_or_enqueue(r') => R!should_call_pull(r')
    BY <1>1, <1>2, <2>1 DEF Keeps, CalmInv, Enqueuing
  <2>4. Shapes /\ ReadableFrames(r.stack) /\ (r.pulling => t.pull # "none")
    BY <1>1 DEF CalmInv, ReadableShape
  <2>5. \A i \in DOMAIN r.stack : r.stack[i].callback = "cancel"
    BY <1>1 DEF CalmInv, Calm
  <2> QED
    BY <1>1, <1>2, <2>1, <2>2, <2>3, <2>4, <2>5, AskStep
<1>4. CASE R!SourceRejects("start")
  <2>1. /\ ReadableShape(r') /\ ~R!can_close_or_enqueue(r')
        /\ r'.pulling = r.pulling /\ r'.source \subseteq r.source /\ r'.stack = r.stack
    BY <1>1, <1>4, StartRejectedStep
  <2>2. Finishing'
    BY <1>1, <1>2, <2>1, FinishStep
  <2>3. Calm'
    BY <1>1, <2>1 DEF CalmInv, Calm
  <2> QED
    BY <1>1, <1>2, <2>1, <2>2, <2>3, EndStep
<1> QED
  BY <1>2, <1>3, <1>4

\* cancel() of the readable side is over.
LEMMA CancelSettledInv ==
    ASSUME IInv, CancelSettled
    PROVE  IInv'
<1>1. /\ CalmInv /\ t \in TransformShape /\ ReadableShape(r)
      /\ WritableShape(w) /\ Held /\ Finishing
  BY MicrotaskIs DEF CancelSettled
<1>2. w' = w /\ t' = t /\ R!CancelSettled(t.finish)
  BY DEF CancelSettled
<1>3. /\ ReadableShape(r') /\ r'.stack = r.stack /\ r'.source \subseteq r.source
      /\ r'.pulling = r.pulling /\ r'.pull_again = r.pull_again
      /\ R!can_close_or_enqueue(r') <=> R!can_close_or_enqueue(r)
      /\ R!should_call_pull(r') <=> R!should_call_pull(r)
  BY <1>1, <1>2, CanceledStep
<1>4. Finishing' /\ (Enqueuing => Enqueuing')
  BY <1>1, <1>2, <1>3, FinishStep DEF Enqueuing
<1>5. Calm'
  BY <1>1, <1>3 DEF CalmInv, Calm
<1> QED
  BY <1>1, <1>2, <1>3, <1>4, <1>5, StillStep DEF Held

\* pull() of the readable side is over.
LEMMA PullFulfilledInv ==
    ASSUME IInv, PullFulfilled
    PROVE  IInv'
<1>1. /\ CalmInv /\ ~SinkWaits /\ t.crash = "none" /\ t \in TransformShape /\ ReadableShape(r)
      /\ WritableShape(w) /\ Held /\ Finishing
  BY MicrotaskIs DEF PullFulfilled
<1>2. w' = w /\ t.pull = "released" /\ t' = [t EXCEPT !.pull = "none"] /\ R!PullFulfilled
  BY DEF PullFulfilled
<1>3. /\ t' \in TransformShape /\ t'.backpressure = t.backpressure /\ t'.write = t.write
      /\ t'.finish = t.finish /\ t'.stack = t.stack /\ t'.pull = "none" /\ t'.crash = "none"
  BY <1>1, <1>2 DEF TransformShape
<1>4. /\ ReadableShape(r') /\ r.stack = <<>> /\ r'.source \subseteq r.source
      /\ R!can_close_or_enqueue(r') <=> R!can_close_or_enqueue(r)
      /\ R!should_call_pull(r') <=> R!should_call_pull(r)
      /\ \/ /\ r'.stack = <<>> /\ ~r'.pulling
            /\ ~R!should_call_pull(r') \/ ~r.pull_again
         \/ /\ R!should_call_pull(r')
            /\ \E f : r'.stack = Append(<<>>, f) /\ f.callback = "pull"
  BY <1>1, <1>2, PulledStep
<1>5. Finishing'
  BY <1>1, <1>2, <1>3, <1>4, FinishStep
<1>6. Shapes' /\ Held'
  <2>1. ~t.backpressure => w.state # "writable"
    BY <1>1, <1>2 DEF Held
  <2> QED
    BY <1>1, <1>2, <1>3, <1>4, <2>1 DEF Shapes, Held
<1>7. ~SinkWaits'
  BY <1>1, <1>2, <1>3 DEF SinkWaits
<1>8. CASE /\ r'.stack = <<>> /\ ~r'.pulling
           /\ ~R!should_call_pull(r') \/ ~r.pull_again
  <2>1. Calm'
    BY <1>8 DEF Calm
  <2>2. R!should_call_pull(r') => ~t'.backpressure
    BY <1>1, <1>3, <1>4, <1>8 DEF CalmInv
  <2>3. ~t'.backpressure /\ w'.state = "writable" /\ ~Enqueuing' /\ R!can_close_or_enqueue(r') =>
           R!should_call_pull(r')
    BY <1>1, <1>2, <1>3, <1>4 DEF CalmInv, Enqueuing
  <2>4. CalmInv'
    BY <1>5, <1>6, <1>8, <2>1, <2>2, <2>3 DEF CalmInv
  <2> QED
    BY <2>4, CalmImplies, PTL
<1>9. CASE /\ R!should_call_pull(r')
           /\ \E f : r'.stack = Append(<<>>, f) /\ f.callback = "pull"
  <2>1. PICK f : r'.stack = Append(<<>>, f) /\ f.callback = "pull"
    BY <1>9
  <2>2. r'.stack # <<>> /\ Len(r'.stack) = 1 /\ Last(r'.stack) = f
    <3> DEFINE q == <<>>
    <3>1. IsSeq(q) /\ Len(q) = 0
      BY EmptyIs
    <3> HIDE DEF q
    <3>2. Append(q, f) # <<>> /\ Len(Append(q, f)) = 0 + 1 /\ Last(Append(q, f)) = f
      BY <3>1, AppendIs
    <3>3. r'.stack = Append(q, f)
      BY <2>1 DEF q
    <3> QED
      BY <3>2, <3>3
  <2>3. R!Top("pull")' /\ ~R!Top("size")'
    BY <2>1, <2>2, SameOperators DEF R!Top
  <2>4. Nested'
    BY <2>2 DEF Nested
  <2>5. OneAsks' /\ SizeOfEnqueue'
    BY <1>3, <1>7, <2>3 DEF OneAsks, SizeOfEnqueue
  <2>6. Pulled' /\ Demanded'
    BY <1>9, <2>3 DEF Pulled, Demanded
  <2> QED
    BY <1>5, <1>6, <2>4, <2>5, <2>6 DEF IInv
<1> QED
  BY <1>4, <1>8, <1>9

----------------------------------------------------------------------------
(* Theorems. *)

\* The stream begins without demand or frames, and under backpressure.
LEMMA InitInv == Init => IInv
<1> SUFFICES ASSUME Init PROVE IInv
  OBVIOUS
<1>1. /\ r = [R!InitialStream EXCEPT !.reader = 1, !.readers = 1, !.closed = "pending"]
      /\ t = [backpressure |-> TRUE, algorithms |-> TRUE, start |-> "pending",
              write |-> "none", pull |-> "none", flush |-> "none", finish |-> "none",
              canceling |-> "none", stack |-> <<>>, crash |-> "none"]
  BY DEF Init
<1>2. t \in TransformShape /\ t.stack = <<>>
  BY <1>1 DEF TransformShape, Outcomes
<1>3. /\ r.stack = <<>> /\ r.read_requests = <<>> /\ r.queue = <<>> /\ ~r.pulling /\ ~r.started
      /\ r.source = {"start"}
      /\ {"state", "reader", "read_requests", "queue", "close_requested", "started", "pulling",
          "pull_again", "source", "stack"} \subseteq DOMAIN r
  BY <1>1 DEF R!InitialStream
<1>4. WritableShape(w) /\ w.sink = {"start"}
  <2> DEFINE y == IF W!InitialStream.backpressure THEN "pending" ELSE "fulfilled"
  <2>1. w = [W!InitialStream EXCEPT !.writer = 1, !.writers = 1, !.closed = "pending", !.ready = y]
    BY DEF Init
  <2> HIDE DEF y
  <2> QED
    BY <2>1 DEF W!InitialStream, WritableShape
<1>5. ReadableShape(r) /\ Calm
  <2>1. IsSeq(<<>>)
    BY EmptyIs
  <2> QED
    BY <1>3, <2>1 DEF ReadableShape, ReadableFrames, Calm
<1>6. Held /\ t.backpressure /\ ~R!should_call_pull(r)
  BY <1>1, <1>3 DEF Held, R!should_call_pull
<1>7. Finishing
  BY <1>2, <1>3, <1>4, EmptyIs DEF Finishing
<1>8. CalmInv
  BY <1>2, <1>3, <1>4, <1>5, <1>6, <1>7 DEF CalmInv, Shapes
<1> QED
  BY <1>8, CalmImplies

\* Every step preserves the invariant.
LEMMA NextInv == IInv /\ [Next]_vars => IInv'
<1> SUFFICES ASSUME IInv, [Next]_vars PROVE IInv'
  OBVIOUS
<1>1. CASE Script
  BY <1>1, PageInv, ReadInv, CancelInv, EnqueueInv, EndInv DEF Script
<1>2. CASE Algorithm
  BY <1>2, PlainInv, EnqueuedInv, SinkWriteInv, SinkCloseInv, SinkAbortInv, SourceCancelInv,
     SourcePullInv DEF Algorithm
<1>3. CASE TransformerReturns
  BY <1>3, TransformReturnsInv, EndReturnsInv DEF TransformerReturns
<1>4. CASE Reaction
  BY <1>4, ReleasedInv, ReadableStartsInv, WritableInv, CancelSettledInv, PullFulfilledInv
  DEF Reaction
<1>5. CASE Settles
  BY <1>5, TransformSettledInv, FlushSettledInv, AbortCancelInv, SourceSettledInv, WritableInv
  DEF Settles
<1>6. CASE UNCHANGED vars
  <2>1. r' = r /\ w' = w /\ t' = t
    BY <1>6 DEF vars
  <2> QED
    BY <2>1 DEF IInv, Shapes, Nested, OneAsks, Asks, SinkWaits, SizeOfEnqueue, Enqueuing, Held,
                Pulled, Demanded, Finishing, R!Top
<1> QED
  BY <1>1, <1>2, <1>3, <1>4, <1>5, <1>6 DEF Next

\* The invariant holds in every state.
LEMMA Invariance == Spec => []IInv
BY InitInv, NextInv, PTL DEF Spec

\* Backpressure is the absence of demand, whenever no algorithm runs and no
\* chunk is being enqueued.
THEOREM Demand == Spec => []BackpressureFollowsDemand
<1>1. IInv => BackpressureFollowsDemand
  <2> SUFFICES ASSUME IInv, ~AlgorithmRuns, ~Enqueuing
               PROVE  /\ t.write = "blocked" => t.backpressure
                      /\ ~t.backpressure /\ w.state = "writable" =>
                            /\ t.pull = "waiting"
                            /\ R!can_close_or_enqueue(r) => R!should_call_pull(r)
                      /\ R!should_call_pull(r) /\ t.backpressure =>
                            t.pull = "released" /\ r.pull_again
    BY DEF BackpressureFollowsDemand, Enqueuing
  <2>1. ~R!Top("pull")
    <3>1. CASE t.crash = "none"
      BY <3>1, QuietInv DEF Asks
    <3>2. CASE t.crash # "none"
      BY <3>2 DEF IInv, OneAsks, Asks
    <3> QED
      BY <3>1, <3>2
  <2> QED
    BY <2>1 DEF IInv, Held, Demanded
<1> QED
  BY <1>1, Invariance, PTL

\* Each step of the transform stream is a step of its readable side or leaves
\* it alone.
LEMMA ReadableSide == IInv /\ [Next]_vars => [R!Next]_r
<1> SUFFICES ASSUME IInv, [Next]_vars PROVE [R!Next]_r
  OBVIOUS
<1>1. ASSUME r' = R!controller_error(r) PROVE [R!Next]_r
  BY <1>1 DEF R!controller_error, R!error, R!Next, R!Script
<1>2. ASSUME r' = R!controller_close(r) PROVE [R!Next]_r
  BY <1>2 DEF R!controller_close, R!close, R!Next, R!Script
<1>3. CASE Script
  BY <1>1, <1>2, <1>3 DEF Script, write, close, abort, read, cancel, enqueue, error, terminate,
     transform_stream_error, R!Next, R!Script
<1>4. CASE Algorithm
  BY <1>4 DEF Algorithm, PlainCall, Enqueued, sink_write, sink_close, sink_abort, source_cancel,
     source_pull, R!Next, R!ScriptReturns
<1>5. CASE TransformerReturns
  BY <1>5 DEF TransformerReturns, TransformReturns, FlushReturns, CancelReturns, R!Next,
     R!ScriptReturns
<1>6. CASE Reaction
  <2>1. CASE CancelSettled
    <3>1. R!CancelSettled(t.finish) /\ "cancel" \in r.source /\ t.finish # "pending"
      BY <2>1 DEF CancelSettled, R!CancelSettled, R!Settled
    <3>2. t.finish \in {"fulfilled", "rejected"}
      BY <3>1 DEF IInv, Finishing, Shapes, TransformShape, Outcomes
    <3> QED
      BY <3>1, <3>2 DEF R!Next, R!Reaction
  <2>2. CASE ReadableStarts \/ PullFulfilled
    BY <2>2 DEF ReadableStarts, PullFulfilled, R!Next, R!Reaction
  <2>3. CASE WriteReleased \/ WriteSettled \/ CloseSettled \/ AbortSettled
    BY <2>3 DEF WriteReleased, WriteSettled, CloseSettled, AbortSettled
  <2> QED
    BY <1>6, <2>1, <2>2, <2>3 DEF Reaction
<1>7. CASE Settles
  BY <1>1, <1>2, <1>7 DEF Settles, TransformSettled, FlushSettled, AbortCancelSettled,
     SourceCancelSettled, WritableStarts, transform_stream_error
<1>8. CASE UNCHANGED vars
  BY <1>8 DEF vars
<1> QED
  BY <1>3, <1>4, <1>5, <1>6, <1>7, <1>8 DEF Next

\* And one of its writable side.
LEMMA WritableSide == IInv /\ [Next]_vars => [W!Next]_w
<1> SUFFICES ASSUME IInv, [Next]_vars PROVE [W!Next]_w
  OBVIOUS
<1>1. ASSUME w' = W!controller_error_if_needed(w) PROVE [W!Next]_w
  BY <1>1 DEF W!controller_error_if_needed, W!error, W!Next, W!Script
<1>2. ASSUME NEW s, error_writable_and_unblock_write(s) PROVE [W!Next]_w
  BY <1>1, <1>2 DEF error_writable_and_unblock_write
<1>3. CASE Script
  BY <1>2, <1>3 DEF Script, write, close, abort, read, cancel, enqueue, error, terminate,
     transform_stream_error, W!Next, W!Script
<1>4. CASE Algorithm
  <2>1. CASE PlainCall
    BY <2>1 DEF PlainCall, W!Next, W!ScriptReturns
  <2>2. CASE Enqueued
    BY <1>2, <2>2 DEF Enqueued
  <2>3. CASE sink_write \/ sink_close \/ sink_abort \/ source_cancel \/ source_pull
    BY <2>3 DEF sink_write, sink_close, sink_abort, source_cancel, source_pull, W!Next,
       W!ScriptReturns
  <2> QED
    BY <1>4, <2>1, <2>2, <2>3 DEF Algorithm
<1>5. CASE TransformerReturns
  BY <1>5 DEF TransformerReturns, TransformReturns, FlushReturns, CancelReturns, W!Next,
     W!ScriptReturns
<1>6. CASE Reaction
  <2>1. CASE AbortSettled
    <3>1. W!AbortSettled(t.finish) /\ "abort" \in w.sink /\ t.finish # "pending"
      BY <2>1 DEF AbortSettled, W!AbortSettled, W!Settled
    <3>2. t.finish \in {"fulfilled", "rejected"}
      BY <3>1 DEF IInv, Finishing, Shapes, TransformShape, Outcomes
    <3> QED
      BY <3>1, <3>2 DEF W!Next, W!Reaction
  <2>2. CASE WriteSettled \/ CloseSettled
    BY <2>2 DEF WriteSettled, CloseSettled, W!Next, W!Reaction
  <2>3. CASE WriteReleased \/ ReadableStarts \/ CancelSettled \/ PullFulfilled
    BY <2>3 DEF WriteReleased, ReadableStarts, CancelSettled, PullFulfilled
  <2> QED
    BY <1>6, <2>1, <2>2, <2>3 DEF Reaction
<1>7. CASE Settles
  BY <1>1, <1>2, <1>7 DEF Settles, TransformSettled, FlushSettled, AbortCancelSettled,
     SourceCancelSettled, WritableStarts, transform_stream_error, W!Next, W!Reaction
<1>8. CASE UNCHANGED vars
  BY <1>8 DEF vars
<1> QED
  BY <1>3, <1>4, <1>5, <1>6, <1>7, <1>8 DEF Next

\* The two sides of a transform stream are the streams of the modules
\* ReadableStream and WritableStream: what is shown of every step of these
\* holds of the sides.
THEOREM Sides == Spec => [][R!Next]_r /\ [][W!Next]_w
BY Invariance, ReadableSide, WritableSide, PTL DEF Spec

----------------------------------------------------------------------------
(* The named failures: what the sides do, by the proofs about them. *)

\* The proofs about the two streams, for the sides of a transform stream.
RP == INSTANCE ReadableStreamProofs WITH
        MaxReaders <- 1, MaxDepth <- MaxDepth + 2, HighWaterMark <- ReadableHighWaterMark
WP == INSTANCE WritableStreamProofs WITH
        MaxWriters <- 1, MaxDepth <- MaxDepth + 2, HighWaterMark <- WritableHighWaterMark

\* The functions and steps of the readable side are those that the proofs about
\* ReadableStream are about.
LEMMA ReadableIs == R!Next <=> RP!Next
<1>1. R!Waiting = RP!Waiting
  BY DEF R!Waiting, RP!Waiting
<1>2. R!Ended = RP!Ended
  BY DEF R!Ended, RP!Ended
<1>3. R!Failed = RP!Failed
  BY DEF R!Failed, RP!Failed
<1>4. \A callback, number, chunk : R!Frame(callback, number, chunk)
        = RP!Frame(callback, number, chunk)
  BY DEF R!Frame, RP!Frame
<1>5. \A s, condition : R!Verify(s, condition) = RP!Verify(s, condition)
  BY DEF R!Verify, RP!Verify
<1>6. \A s, callback, number, chunk : R!CallScript(s, callback, number, chunk)
        = RP!CallScript(s, callback, number, chunk)
  BY <1>4, <1>5 DEF R!CallScript, RP!CallScript
<1>7. \A s : R!clear_algorithms(s) = RP!clear_algorithms(s)
  BY DEF R!clear_algorithms, RP!clear_algorithms
<1>8. \A s : R!can_close_or_enqueue(s) <=> RP!can_close_or_enqueue(s)
  BY DEF R!can_close_or_enqueue, RP!can_close_or_enqueue
<1>9. \A s : R!get_desired_size(s) = RP!get_desired_size(s)
  BY DEF R!get_desired_size, RP!get_desired_size
<1>10. \A s : R!HasReadRequest(s) <=> RP!HasReadRequest(s)
  BY DEF R!HasReadRequest, RP!HasReadRequest
<1>11. \A s : R!should_call_pull(s) <=> RP!should_call_pull(s)
  BY <1>8, <1>9, <1>10 DEF R!should_call_pull, RP!should_call_pull
<1>12. \A s : R!readable_stream_add_read_request(s) = RP!readable_stream_add_read_request(s)
  BY <1>5 DEF R!readable_stream_add_read_request, RP!readable_stream_add_read_request
<1>13. \A s, number, chunk : R!OnChunk(s, number, chunk) = RP!OnChunk(s, number, chunk)
  BY DEF R!OnChunk, RP!OnChunk
<1>14. \A s : R!readable_stream_fulfill_read_request(s)
         = RP!readable_stream_fulfill_read_request(s)
  BY <1>13 DEF R!readable_stream_fulfill_read_request, RP!readable_stream_fulfill_read_request
<1>15. \A s, result : R!SettleReads(s, result) = RP!SettleReads(s, result)
  BY DEF R!SettleReads, RP!SettleReads, R!Range, RP!Range
<1>16. \A s0 : R!readable_stream_close(s0) = RP!readable_stream_close(s0)
  BY <1>2, <1>5, <1>15 DEF R!readable_stream_close, RP!readable_stream_close
<1>17. \A s0 : R!readable_stream_error(s0) = RP!readable_stream_error(s0)
  BY <1>3, <1>5, <1>15 DEF R!readable_stream_error, RP!readable_stream_error
<1>18. \A s : R!controller_error(s) = RP!controller_error(s)
  BY <1>7, <1>17 DEF R!controller_error, RP!controller_error
<1>19. \A s : R!controller_close(s) = RP!controller_close(s)
  BY <1>7, <1>8, <1>16 DEF R!controller_close, RP!controller_close
<1>20. \A s, number, chunk : R!call_pull_if_needed(s, number, chunk)
         = RP!call_pull_if_needed(s, number, chunk)
  BY <1>5, <1>6, <1>11, <1>13 DEF R!call_pull_if_needed, RP!call_pull_if_needed
<1>21. \A s : R!pull_steps(s) = RP!pull_steps(s)
  BY <1>7, <1>12, <1>13, <1>16, <1>20 DEF R!pull_steps, RP!pull_steps
<1>22. R!MayCallScript <=> RP!MayCallScript
  BY DEF R!MayCallScript, RP!MayCallScript
<1>23. R!get_reader <=> RP!get_reader
  BY DEF R!get_reader, RP!get_reader
<1>24. R!release_lock <=> RP!release_lock
  BY <1>3, <1>15 DEF R!release_lock, RP!release_lock
<1>25. R!read <=> RP!read
  BY <1>1, <1>2, <1>3, <1>21, <1>22 DEF R!read, RP!read
<1>26. R!cancel <=> RP!cancel
  BY <1>6, <1>16, <1>22 DEF R!cancel, RP!cancel
<1>27. R!enqueue <=> RP!enqueue
  BY <1>6, <1>8, <1>10, <1>14, <1>20, <1>22 DEF R!enqueue, RP!enqueue
<1>28. R!close <=> RP!close
  BY <1>8, <1>19 DEF R!close, RP!close
<1>29. R!error <=> RP!error
  BY <1>18 DEF R!error, RP!error
<1>30. \A callback : R!Top(callback) <=> RP!Top(callback)
  BY DEF R!Top, RP!Top, R!Last, RP!Last
<1>31. R!Popped = RP!Popped
  BY DEF R!Popped, RP!Popped, R!Front, RP!Front
<1>32. R!SizeReturns <=> RP!SizeReturns
  BY <1>8, <1>20, <1>30, <1>31 DEF R!SizeReturns, RP!SizeReturns
<1>33. R!SizeFails <=> RP!SizeFails
  BY <1>18, <1>30, <1>31 DEF R!SizeFails, RP!SizeFails
<1>34. R!PullReturns <=> RP!PullReturns
  BY <1>13, <1>30, <1>31 DEF R!PullReturns, RP!PullReturns, R!Last, RP!Last
<1>35. R!CancelReturns <=> RP!CancelReturns
  BY <1>7, <1>30, <1>31 DEF R!CancelReturns, RP!CancelReturns
<1>36. \A call : R!Settled(call) <=> RP!Settled(call)
  BY DEF R!Settled, RP!Settled
<1>37. \A call : R!Done(call) = RP!Done(call)
  BY DEF R!Done, RP!Done
<1>38. R!StartFulfilled <=> RP!StartFulfilled
  BY <1>5, <1>20, <1>36, <1>37 DEF R!StartFulfilled, RP!StartFulfilled
<1>39. R!PullFulfilled <=> RP!PullFulfilled
  BY <1>20, <1>36, <1>37 DEF R!PullFulfilled, RP!PullFulfilled
<1>40. \A call : R!SourceRejects(call) <=> RP!SourceRejects(call)
  BY <1>18, <1>36, <1>37 DEF R!SourceRejects, RP!SourceRejects
<1>41. \A outcome : R!CancelSettled(outcome) <=> RP!CancelSettled(outcome)
  BY <1>36, <1>37 DEF R!CancelSettled, RP!CancelSettled
<1>42. R!Script <=> RP!Script
  BY <1>23, <1>24, <1>25, <1>26, <1>27, <1>28, <1>29 DEF R!Script, RP!Script
<1>43. R!ScriptReturns <=> RP!ScriptReturns
  BY <1>32, <1>33, <1>34, <1>35 DEF R!ScriptReturns, RP!ScriptReturns
<1>44. R!Reaction <=> RP!Reaction
  BY <1>38, <1>39, <1>40, <1>41 DEF R!Reaction, RP!Reaction
<1>45. R!Next <=> RP!Next
  BY <1>42, <1>43, <1>44 DEF R!Next, RP!Next
<1> QED
  BY <1>45

\* And those of the writable side.
LEMMA WritableIs == W!Next <=> WP!Next
<1>1. W!Close = WP!Close
  BY DEF W!Close, WP!Close
<1>2. W!Abort = WP!Abort
  BY DEF W!Abort, WP!Abort
<1>3. W!Requests = WP!Requests
  BY <1>2 DEF W!Requests, WP!Requests
<1>4. W!SinkCallback = WP!SinkCallback
  BY DEF W!SinkCallback, WP!SinkCallback
<1>5. \A callback, writer : W!Frame(callback, writer) = WP!Frame(callback, writer)
  BY DEF W!Frame, WP!Frame
<1>6. \A s, condition : W!Verify(s, condition) = WP!Verify(s, condition)
  BY DEF W!Verify, WP!Verify
<1>7. \A s, request, outcome : W!Settle(s, request, outcome) = WP!Settle(s, request, outcome)
  BY DEF W!Settle, WP!Settle
<1>8. \A s, outcome : W!SettleClosed(s, outcome) = WP!SettleClosed(s, outcome)
  BY DEF W!SettleClosed, WP!SettleClosed
<1>9. \A s, callback : W!CallScript(s, callback) = WP!CallScript(s, callback)
  BY <1>5 DEF W!CallScript, WP!CallScript
<1>10. \A s : W!writable_stream_close_queued_or_in_flight(s)
         <=> WP!writable_stream_close_queued_or_in_flight(s)
  BY DEF W!writable_stream_close_queued_or_in_flight,
     WP!writable_stream_close_queued_or_in_flight
<1>11. \A s : W!writable_stream_has_operation_marked_in_flight(s)
         <=> WP!writable_stream_has_operation_marked_in_flight(s)
  BY DEF W!writable_stream_has_operation_marked_in_flight,
     WP!writable_stream_has_operation_marked_in_flight
<1>12. \A s : W!get_desired_size(s) = WP!get_desired_size(s)
  BY <1>1 DEF W!get_desired_size, WP!get_desired_size
<1>13. \A s : W!get_backpressure(s) <=> WP!get_backpressure(s)
  BY <1>12 DEF W!get_backpressure, WP!get_backpressure
<1>14. \A s : W!dequeue_value(s) = WP!dequeue_value(s)
  BY <1>6 DEF W!dequeue_value, WP!dequeue_value
<1>15. \A s : W!clear_algorithms(s) = WP!clear_algorithms(s)
  BY DEF W!clear_algorithms, WP!clear_algorithms
<1>16. \A s0 : W!reject_close_and_closed_promise_if_needed(s0)
         = WP!reject_close_and_closed_promise_if_needed(s0)
  BY <1>1, <1>6, <1>7, <1>8 DEF W!reject_close_and_closed_promise_if_needed,
     WP!reject_close_and_closed_promise_if_needed
<1>17. ASSUME NEW s0
      PROVE  W!writable_stream_finish_erroring(s0) = WP!writable_stream_finish_erroring(s0)
  <2> DEFINE s1 == W!Verify(s0, s0.state = "erroring"
                                 /\ ~W!writable_stream_has_operation_marked_in_flight(s0))
             s2 == [s1 EXCEPT !.state = "errored", !.queue = <<>>, !.write_requests = <<>>,
                       !.pending_abort_request = "none",
                       !.promises = [i \in W!Requests |->
                           IF i \in W!Range(s1.write_requests) THEN "rejected" ELSE @[i]]]
             v1 == WP!Verify(s0, s0.state = "erroring"
                                 /\ ~WP!writable_stream_has_operation_marked_in_flight(s0))
             v2 == [v1 EXCEPT !.state = "errored", !.queue = <<>>, !.write_requests = <<>>,
                       !.pending_abort_request = "none",
                       !.promises = [i \in WP!Requests |->
                           IF i \in WP!Range(v1.write_requests) THEN "rejected" ELSE @[i]]]
  <2>1. W!writable_stream_finish_erroring(s0) =
        CASE s1.pending_abort_request = "none" ->
                W!reject_close_and_closed_promise_if_needed(s2)
          [] s1.pending_abort_request = "was_already_erroring" ->
                W!reject_close_and_closed_promise_if_needed(
                    W!Settle(s2, W!Abort, "rejected"))
          [] OTHER -> W!CallScript(W!Verify(s2, s2.algorithms), "abort")
    BY DEF W!writable_stream_finish_erroring
  <2>2. WP!writable_stream_finish_erroring(s0) =
        CASE v1.pending_abort_request = "none" ->
                WP!reject_close_and_closed_promise_if_needed(v2)
          [] v1.pending_abort_request = "was_already_erroring" ->
                WP!reject_close_and_closed_promise_if_needed(
                    WP!Settle(v2, WP!Abort, "rejected"))
          [] OTHER -> WP!CallScript(WP!Verify(v2, v2.algorithms), "abort")
    BY DEF WP!writable_stream_finish_erroring
  <2>3. s1 = v1
    BY <1>2, <1>3, <1>6, <1>7, <1>9, <1>11, <1>16
  <2>4. s2 = v2
    BY <2>3, <1>3 DEF W!Range, WP!Range
  <2> HIDE DEF s1, v1, s2, v2
  <2> QED
    BY <2>1, <2>2, <2>3, <2>4, <1>2, <1>3, <1>6, <1>7, <1>9, <1>11, <1>16
<1>18. \A s0 : W!writable_stream_start_erroring(s0) = WP!writable_stream_start_erroring(s0)
  BY <1>6, <1>11, <1>17 DEF W!writable_stream_start_erroring, WP!writable_stream_start_erroring
<1>19. \A s : W!writable_stream_deal_with_rejection(s)
         = WP!writable_stream_deal_with_rejection(s)
  BY <1>17, <1>18 DEF W!writable_stream_deal_with_rejection,
     WP!writable_stream_deal_with_rejection
<1>20. \A s : W!controller_error_if_needed(s) = WP!controller_error_if_needed(s)
  BY <1>15, <1>18 DEF W!controller_error_if_needed, WP!controller_error_if_needed
<1>21. \A s0, backpressure : W!writable_stream_update_backpressure(s0, backpressure)
         = WP!writable_stream_update_backpressure(s0, backpressure)
  <2> SUFFICES ASSUME NEW s0, NEW backpressure
               PROVE  W!writable_stream_update_backpressure(s0, backpressure)
                        = WP!writable_stream_update_backpressure(s0, backpressure)
    OBVIOUS
  <2> DEFINE c == W!writable_stream_close_queued_or_in_flight(s0)
             d == WP!writable_stream_close_queued_or_in_flight(s0)
             s1 == W!Verify(s0, s0.state = "writable" /\ ~c)
             v1 == WP!Verify(s0, s0.state = "writable" /\ ~d)
  <2>1. s1 = v1
    BY <1>6, <1>10
  <2> HIDE DEF s1, v1
  <2> QED
    BY <2>1 DEF W!writable_stream_update_backpressure, WP!writable_stream_update_backpressure,
       s1, v1
<1>22. \A s : W!UpdateBackpressureIfOpen(s) = WP!UpdateBackpressureIfOpen(s)
  BY <1>10, <1>13, <1>21 DEF W!UpdateBackpressureIfOpen, WP!UpdateBackpressureIfOpen
<1>23. \A s : W!writable_stream_mark_close_request_in_flight(s)
         = WP!writable_stream_mark_close_request_in_flight(s)
  BY <1>6 DEF W!writable_stream_mark_close_request_in_flight,
     WP!writable_stream_mark_close_request_in_flight
<1>24. \A s : W!writable_stream_mark_first_write_request_in_flight(s)
         = WP!writable_stream_mark_first_write_request_in_flight(s)
  BY <1>6 DEF W!writable_stream_mark_first_write_request_in_flight,
     WP!writable_stream_mark_first_write_request_in_flight
<1>25. \A s0 : W!process_close(s0) = WP!process_close(s0)
  BY <1>6, <1>9, <1>14, <1>23 DEF W!process_close, WP!process_close
<1>26. \A s0 : W!process_write(s0) = WP!process_write(s0)
  BY <1>6, <1>9, <1>24 DEF W!process_write, WP!process_write
<1>27. \A s : W!advance_queue_if_needed(s) = WP!advance_queue_if_needed(s)
  BY <1>1, <1>6, <1>17, <1>25, <1>26 DEF W!advance_queue_if_needed, WP!advance_queue_if_needed
<1>28. \A s, valid : W!controller_write(s, valid) = WP!controller_write(s, valid)
  BY <1>20, <1>22, <1>27 DEF W!controller_write, WP!controller_write
<1>29. \A s : W!writable_stream_add_write_request(s) = WP!writable_stream_add_write_request(s)
  BY <1>6 DEF W!writable_stream_add_write_request, WP!writable_stream_add_write_request
<1>30. \A s, valid : W!WriteAfterSize(s, valid) = WP!WriteAfterSize(s, valid)
  BY <1>10, <1>28, <1>29 DEF W!WriteAfterSize, WP!WriteAfterSize
<1>31. \A s : W!AbortAfterSignal(s) = WP!AbortAfterSignal(s)
  BY <1>2, <1>18 DEF W!AbortAfterSignal, WP!AbortAfterSignal
<1>32. W!MayCallScript <=> WP!MayCallScript
  BY DEF W!MayCallScript, WP!MayCallScript
<1>33. W!get_writer <=> WP!get_writer
  BY <1>10 DEF W!get_writer, WP!get_writer
<1>34. W!release_lock <=> WP!release_lock
  BY DEF W!release_lock, WP!release_lock
<1>35. W!write <=> WP!write
  BY <1>9, <1>30, <1>32 DEF W!write, WP!write
<1>36. \A outcome : W!SizeReturns(outcome) <=> WP!SizeReturns(outcome)
  BY <1>20, <1>30 DEF W!SizeReturns, WP!SizeReturns, W!Last, WP!Last, W!Front, WP!Front
<1>37. W!close <=> WP!close
  BY <1>1, <1>10, <1>27, <1>32 DEF W!close, WP!close
<1>38. W!abort <=> WP!abort
  BY <1>9, <1>31, <1>32 DEF W!abort, WP!abort
<1>39. W!SignalReturns <=> WP!SignalReturns
  BY <1>31 DEF W!SignalReturns, WP!SignalReturns, W!Last, WP!Last, W!Front, WP!Front
<1>40. W!error <=> WP!error
  BY <1>15, <1>18 DEF W!error, WP!error
<1>41. W!SinkReturns <=> WP!SinkReturns
  BY <1>4, <1>15 DEF W!SinkReturns, WP!SinkReturns, W!Last, WP!Last, W!Front, WP!Front
<1>42. \A call : W!Settled(call) <=> WP!Settled(call)
  BY DEF W!Settled, WP!Settled
<1>43. \A call : W!Done(call) = WP!Done(call)
  BY DEF W!Done, WP!Done
<1>44. \A s : W!CheckOpen(s) = WP!CheckOpen(s)
  BY <1>6 DEF W!CheckOpen, WP!CheckOpen
<1>45. W!StartFulfilled <=> WP!StartFulfilled
  BY <1>27, <1>42, <1>43, <1>44 DEF W!StartFulfilled, WP!StartFulfilled
<1>46. W!StartRejected <=> WP!StartRejected
  BY <1>19, <1>42, <1>43, <1>44 DEF W!StartRejected, WP!StartRejected
<1>47. \A s : W!writable_stream_finish_in_flight_write(s)
         = WP!writable_stream_finish_in_flight_write(s)
  BY <1>6, <1>7 DEF W!writable_stream_finish_in_flight_write,
     WP!writable_stream_finish_in_flight_write
<1>48. W!WriteFulfilled <=> WP!WriteFulfilled
  BY <1>14, <1>22, <1>27, <1>42, <1>43, <1>44, <1>47 DEF W!WriteFulfilled, WP!WriteFulfilled
<1>49. \A s : W!writable_stream_finish_in_flight_write_with_error(s)
         = WP!writable_stream_finish_in_flight_write_with_error(s)
  BY <1>6, <1>7, <1>19, <1>44 DEF W!writable_stream_finish_in_flight_write_with_error,
     WP!writable_stream_finish_in_flight_write_with_error
<1>50. W!WriteRejected <=> WP!WriteRejected
  BY <1>15, <1>42, <1>43, <1>49 DEF W!WriteRejected, WP!WriteRejected
<1>51. ASSUME NEW s
      PROVE  W!writable_stream_finish_in_flight_close(s)
               = WP!writable_stream_finish_in_flight_close(s)
  <2> DEFINE s1 == W!Settle(W!CheckOpen(W!Verify(s, s.in_flight_close_request)), W!Close, "fulfilled")
             s2 == IF s1.state = "erroring"
                   THEN [W!Settle(s1, W!Abort, "fulfilled") EXCEPT !.stored_error = FALSE,
                             !.pending_abort_request = "none"]
                   ELSE s1
             s3 == [s2 EXCEPT !.in_flight_close_request = FALSE, !.state = "closed"]
             s4 == IF s3.writer # 0 THEN W!SettleClosed(s3, "fulfilled") ELSE s3
             v1 == WP!Settle(WP!CheckOpen(WP!Verify(s, s.in_flight_close_request)), WP!Close, "fulfilled")
             v2 == IF v1.state = "erroring"
                   THEN [WP!Settle(v1, WP!Abort, "fulfilled") EXCEPT !.stored_error = FALSE,
                             !.pending_abort_request = "none"]
                   ELSE v1
             v3 == [v2 EXCEPT !.in_flight_close_request = FALSE, !.state = "closed"]
             v4 == IF v3.writer # 0 THEN WP!SettleClosed(v3, "fulfilled") ELSE v3
  <2>1. W!writable_stream_finish_in_flight_close(s) =
          W!Verify(s4, s4.pending_abort_request = "none" /\ ~s4.stored_error)
    BY DEF W!writable_stream_finish_in_flight_close
  <2>2. WP!writable_stream_finish_in_flight_close(s) =
          WP!Verify(v4, v4.pending_abort_request = "none" /\ ~v4.stored_error)
    BY DEF WP!writable_stream_finish_in_flight_close
  <2>3. s1 = v1
    BY <1>1, <1>2, <1>6, <1>7, <1>8, <1>44
  <2> HIDE DEF s1, v1
  <2>4. s2 = v2
    BY <2>3, <1>1, <1>2, <1>6, <1>7, <1>8, <1>44
  <2> HIDE DEF s2, v2
  <2>5. s3 = v3
    BY <2>4
  <2> HIDE DEF s3, v3
  <2>6. s4 = v4
    BY <2>5, <1>1, <1>2, <1>6, <1>7, <1>8, <1>44
  <2> HIDE DEF s4, v4
  <2> QED
    BY <2>1, <2>2, <2>6, <1>1, <1>2, <1>6, <1>7, <1>8, <1>44
<1>52. W!CloseFulfilled <=> WP!CloseFulfilled
  BY <1>42, <1>43, <1>51 DEF W!CloseFulfilled, WP!CloseFulfilled
<1>53. \A s : W!writable_stream_finish_in_flight_close_with_error(s)
         = WP!writable_stream_finish_in_flight_close_with_error(s)
  BY <1>1, <1>2, <1>6, <1>7, <1>19, <1>44 DEF
     W!writable_stream_finish_in_flight_close_with_error,
     WP!writable_stream_finish_in_flight_close_with_error
<1>54. W!CloseRejected <=> WP!CloseRejected
  BY <1>42, <1>43, <1>53 DEF W!CloseRejected, WP!CloseRejected
<1>55. \A outcome : W!AbortSettled(outcome) <=> WP!AbortSettled(outcome)
  BY <1>2, <1>7, <1>16, <1>42, <1>43 DEF W!AbortSettled, WP!AbortSettled
<1>56. W!ScriptReturns <=> WP!ScriptReturns
  BY <1>36, <1>39, <1>41 DEF W!ScriptReturns, WP!ScriptReturns
<1>57. W!Reaction <=> WP!Reaction
  BY <1>45, <1>46, <1>48, <1>50, <1>52, <1>54, <1>55 DEF W!Reaction, WP!Reaction
<1>58. W!Script <=> WP!Script
  BY <1>33, <1>34, <1>35, <1>37, <1>38, <1>40 DEF W!Script, WP!Script
<1>59. W!Next <=> WP!Next
  BY <1>56, <1>57, <1>58 DEF W!Next, WP!Next
<1> QED
  BY <1>59

\* The frames of a callback on the stacks of the two sides.
SinkFrames(cb) == {i \in DOMAIN w.stack : w.stack[i].callback = cb}
CancelFrames == {i \in DOMAIN r.stack : r.stack[i].callback = "cancel"}

\* The bounds of the two sides.
LEMMA SideBounds == RP!ReadableBounds /\ WP!StreamBounds
BY TransformBounds DEF RP!ReadableBounds, WP!StreamBounds

\* What is proved of ReadableStream, as far as it is needed here.
LEMMA ReadableFacts ==
    ASSUME RP!IInv
    PROVE  /\ R!TypeOK /\ ~r.failed /\ r.state \in {"readable", "closed", "errored"}
           /\ r \in RP!Shape /\ IsSeq(r.stack)
           /\ r.state = "readable" => CancelFrames = {}
           /\ "pull" \in r.source => r.pulling /\ ~R!Top("pull")
<1>1. RP!ReadsAccounted
  BY SideBounds, RP!Accounts
<1>2. R!TypeOK <=> RP!TypeOK
  BY DEF R!TypeOK, RP!TypeOK, R!Failed, RP!Failed
<1>3. R!TypeOK /\ ~r.failed
  BY <1>1, <1>2 DEF RP!ReadsAccounted, RP!AssertionsHold
<1>4. r \in RP!Shape /\ RP!Asserted(r)
  BY DEF RP!IInv, RP!Safe
<1>5. r.stack \in Seq(RP!Frames) /\ IsSeq(r.stack)
  BY <1>4 DEF RP!Shape, IsSeq
<1>6. r.state = "readable" => CancelFrames = {}
  BY <1>4 DEF RP!Asserted, RP!FramesOf, CancelFrames
<1>7. ASSUME "pull" \in r.source PROVE r.pulling /\ ~R!Top("pull")
  <2>1. r.pulling /\ \A i \in DOMAIN r.stack : r.stack[i].callback # "pull"
    BY <1>4, <1>7 DEF RP!Asserted, RP!FramesOf
  <2>2. ASSUME r.stack # <<>> PROVE Last(r.stack).callback # "pull"
    <3>1. Len(r.stack) \in DOMAIN r.stack /\ Last(r.stack) = r.stack[Len(r.stack)]
      BY <1>5, <2>2, FrontIs
    <3> QED
      BY <2>1, <3>1
  <2> QED
    BY <2>1, <2>2, TopIs
<1> QED
  BY <1>3, <1>4, <1>5, <1>6, <1>7 DEF R!TypeOK

\* What is proved of WritableStream, as far as it is needed here.
LEMMA WritableFacts ==
    ASSUME WP!IInv
    PROVE  /\ W!TypeOK /\ ~w.failed /\ w \in WP!Shape /\ IsSeq(w.stack)
           /\ w.state \in {"writable", "erroring", "closed", "errored"}
           /\ \A i \in DOMAIN w.stack :
                 w.stack[i].callback \in {"write", "close", "abort", "size", "signal"}
           /\ \A c, d \in {"write", "close", "abort"} :
                 \A i \in SinkFrames(c), j \in SinkFrames(d) : i = j
           /\ \A c \in {"write", "close", "abort"} : SinkFrames(c) # {} => w.sink = {}
           /\ \A c, d \in w.sink : c = d
           /\ {"write", "close", "start"} \cap w.sink # {} => w.state \in {"writable", "erroring"}
           /\ SinkFrames("write") \cup SinkFrames("close") # {} => w.state \in {"writable", "erroring"}
           /\ SinkFrames("abort") # {} \/ "abort" \in w.sink => w.state = "errored"
           /\ "close" \in w.sink =>
                w.in_flight_close_request /\ w.in_flight_write_request = 0 /\ w.started
<1>1. W!TypeOK <=> WP!TypeOK
  BY DEF W!TypeOK, WP!TypeOK, W!Requests, WP!Requests, W!Abort, WP!Abort, W!PromiseState,
     WP!PromiseState, W!SinkCallback, WP!SinkCallback
<1>2. W!TypeOK
  BY <1>1, SideBounds, WP!Typed
<1>3. w \in WP!Shape /\ WP!OneAtATime(w) /\ WP!Asserted(w)
  BY DEF WP!IInv, WP!Safe, WP!Sound
<1>4. w.stack \in Seq(WP!Frames) /\ IsSeq(w.stack)
  BY <1>3 DEF WP!Shape, IsSeq
<1>5. ASSUME NEW i \in DOMAIN w.stack
      PROVE  w.stack[i].callback \in {"write", "close", "abort", "size", "signal"}
  <2>1. w.stack[i] \in WP!Frames
    BY <1>4, <1>5
  <2> QED
    BY <2>1 DEF WP!Frames, WP!SinkCallback
<1>6. \A c \in {"write", "close", "abort"} :
          /\ SinkFrames(c) \subseteq WP!SinkFrames(w)
          /\ SinkFrames(c) # {} => c \in WP!CallsOf(w)
  BY DEF SinkFrames, WP!SinkFrames, WP!SinkCallback, WP!CallsOf
<1>7. w.sink \subseteq WP!CallsOf(w)
  BY DEF WP!CallsOf
<1>8. /\ {"write", "close", "start"} \cap WP!CallsOf(w) # {} => w.state \in {"writable", "erroring"}
      /\ "abort" \in WP!CallsOf(w) => w.state = "errored"
  <2>1. w.state \in {"writable", "erroring", "closed", "errored"}
    BY <1>3 DEF WP!Shape
  <2> QED
    BY <1>3, <2>1 DEF WP!OneAtATime, WP!Asserted
<1>9. ASSUME "close" \in w.sink
      PROVE  w.in_flight_close_request /\ w.in_flight_write_request = 0 /\ w.started
  <2>1. WP!CallsOf(w) = {"close"}
    BY <1>3, <1>9 DEF WP!OneAtATime, WP!CallsOf
  <2> QED
    BY <1>3, <2>1 DEF WP!OneAtATime
<1> QED
  BY <1>2, <1>3, <1>4, <1>5, <1>6, <1>7, <1>8, <1>9 DEF WP!OneAtATime, WP!Asserted, WP!Shape

\* The invariants of the two streams hold of the sides.
LEMMA SideInv ==
    ASSUME IInv, [Next]_vars, RP!IInv, WP!IInv
    PROVE  RP!IInv' /\ WP!IInv'
<1>1. [RP!Next]_r
  BY ReadableSide, ReadableIs
<1>2. [WP!Next]_w
  BY WritableSide, WritableIs
<1>3. RP!IInv'
  BY <1>1, SideBounds, RP!Continues
<1>4. WP!IInv'
  BY <1>2, SideBounds, WP!Continues
<1> QED
  BY <1>3, <1>4

\* They hold at the beginning, when both sides are locked.
LEMMA SideInit == Init => RP!IInv /\ WP!IInv
<1> SUFFICES ASSUME Init PROVE RP!IInv /\ WP!IInv
  OBVIOUS
<1>1. RP!IInv
  <2>1. r = [RP!InitialStream EXCEPT !.reader = 1, !.readers = 1, !.closed = "pending"]
    BY DEF Init, R!InitialStream, RP!InitialStream
  <2>2. RP!Safe(r, 0, 0) /\ RP!Heard(r)
    <3>1. 1 \in Nat /\ 1 <= 1
      OBVIOUS
    <3> QED
      BY <2>1, <3>1, SideBounds, RP!Begins
  <2> QED
    BY <2>2 DEF RP!IInv
<1>2. WP!IInv
  <2> DEFINE y == IF WP!InitialStream.backpressure THEN "pending" ELSE "fulfilled"
  <2>1. W!InitialStream = WP!InitialStream
    BY DEF W!InitialStream, WP!InitialStream, W!Requests, WP!Requests, W!Abort, WP!Abort
  <2>2. w = [WP!InitialStream EXCEPT !.writer = 1, !.writers = 1, !.closed = "pending", !.ready = y]
    BY <2>1 DEF Init
  <2>3. WP!Safe(w)
    <3>1. 1 \in Nat /\ 1 <= 1
      OBVIOUS
    <3> QED
      BY <2>2, <3>1, SideBounds, WP!Begins
  <2> QED
    BY <2>3 DEF WP!IInv
<1> QED
  BY <1>1, <1>2

\* All that is used of the writable side where its frames matter.
SinkShape(s) ==
    {"state", "sink", "stack", "started", "pending_abort_request", "in_flight_write_request",
     "in_flight_close_request"} \subseteq DOMAIN s

\* Nothing of this changes.
Stays(s, u) ==
    /\ SinkShape(u) /\ u.state = s.state /\ u.sink = s.sink /\ u.stack = s.stack
    /\ u.started = s.started /\ u.pending_abort_request = s.pending_abort_request
    /\ u.in_flight_write_request = s.in_flight_write_request
    /\ u.in_flight_close_request = s.in_flight_close_request

Open(s) == s.state \notin {"closed", "errored"}

\* What a function of the writable side may do, from the state s to u: a stream
\* that fails or has ended stays so; a chunk and the close are given to the sink
\* of an open stream, and abort() is called when the stream goes into error.
Goes(s, u) ==
    /\ SinkShape(u) /\ u.sink = s.sink
    /\ s.state # "writable" => u.state # "writable"
    /\ ~Open(s) => u.state = s.state
    /\ \/ u.stack = s.stack
       \/ \E f : /\ u.stack = Append(s.stack, f)
                 /\ \/ f.callback \in {"write", "close"} /\ u.state = "writable"
                    \/ f.callback = "abort" /\ Open(s) /\ u.state = "errored"
                    \/ f.callback \in {"size", "signal"} /\ u.state = s.state

\* Whoever starts where another has left things goes on from there.
LEMMA GoesFrom ==
    ASSUME NEW s, NEW u, NEW v, Stays(s, u), Goes(u, v)
    PROVE  Goes(s, v)
BY DEF Stays, Goes, Open

\* A function that changes nothing of this.
LEMMA GoesStill ==
    ASSUME NEW s, NEW u, Stays(s, u)
    PROVE  Goes(s, u)
BY DEF Stays, Goes

\* Assertions and promises change nothing of this.
LEMMA PlainStays ==
    ASSUME NEW s, NEW c, NEW q, NEW o, SinkShape(s)
    PROVE  /\ Stays(s, W!Verify(s, c)) /\ Stays(s, W!Settle(s, q, o))
           /\ Stays(s, W!SettleClosed(s, o)) /\ Stays(s, W!clear_algorithms(s))
<1>1. Stays(s, W!Verify(s, c))
  BY DEF Stays, SinkShape, W!Verify
<1>2. Stays(s, W!Settle(s, q, o))
  BY DEF Stays, SinkShape, W!Settle
<1>3. Stays(s, W!SettleClosed(s, o))
  BY DEF Stays, SinkShape, W!SettleClosed
<1>4. Stays(s, W!clear_algorithms(s))
  BY DEF Stays, SinkShape, W!clear_algorithms
<1> QED
  BY <1>1, <1>2, <1>3, <1>4

\* Script is called by a frame.
LEMMA FrameGoes ==
    ASSUME NEW s, NEW o, SinkShape(s)
    PROVE  LET u == W!CallScript(s, o)
           IN  /\ SinkShape(u) /\ u.state = s.state /\ u.sink = s.sink
               /\ \E f : u.stack = Append(s.stack, f) /\ f.callback = o
<1>1. /\ SinkShape(W!CallScript(s, o)) /\ W!CallScript(s, o).state = s.state
      /\ W!CallScript(s, o).sink = s.sink
      /\ W!CallScript(s, o).stack = Append(s.stack, W!Frame(o, s.writer))
  BY DEF SinkShape, W!CallScript
<1>2. W!Frame(o, s.writer).callback = o
  BY DEF W!Frame
<1> QED
  BY <1>1, <1>2

\* writable_stream_reject_close_and_closed_promise_if_needed
LEMMA RejectStays ==
    ASSUME NEW s, SinkShape(s)
    PROVE  LET u == W!reject_close_and_closed_promise_if_needed(s)
           IN  SinkShape(u) /\ u.state = s.state /\ u.sink = s.sink /\ u.stack = s.stack
<1> DEFINE c == s.state = "errored" /\ (s.close_request => ~s.in_flight_close_request)
           v == W!Verify(s, c)
           x == W!Settle(v, W!Close, "rejected")
           y == [x EXCEPT !.close_request = FALSE]
           z == IF v.close_request THEN y ELSE v
           u == W!reject_close_and_closed_promise_if_needed(s)
<1>1. u = IF z.writer # 0 THEN W!SettleClosed(z, "rejected") ELSE z
  BY DEF W!reject_close_and_closed_promise_if_needed
<1> HIDE DEF c, u
<1>2. Stays(s, v)
  BY PlainStays
<1> HIDE DEF v
<1>3. Stays(v, x)
  <2>1. SinkShape(v)
    BY <1>2 DEF Stays
  <2> QED
    BY <2>1, PlainStays
<1> HIDE DEF x
<1>4. Stays(x, y)
  BY <1>3 DEF Stays, SinkShape
<1> HIDE DEF y
<1>5. Stays(s, z)
  BY <1>2, <1>3, <1>4 DEF Stays
<1> HIDE DEF z
<1>6. u = z \/ Stays(z, u)
  <2>1. SinkShape(z)
    BY <1>5 DEF Stays
  <2>2. Stays(z, W!SettleClosed(z, "rejected"))
    BY <2>1, PlainStays
  <2> QED
    BY <1>1, <2>2
<1> QED
  BY <1>5, <1>6 DEF u, Stays

\* writable_stream_finish_erroring: abort() is called if it was asked for.
LEMMA FinishGoes ==
    ASSUME NEW s, SinkShape(s), Open(s)
    PROVE  LET u == W!writable_stream_finish_erroring(s)
           IN  /\ Goes(s, u) /\ u.state = "errored"
               /\ s.pending_abort_request = "none" => u.stack = s.stack
<1> DEFINE c == s.state = "erroring" /\ ~W!writable_stream_has_operation_marked_in_flight(s)
           v == W!Verify(s, c)
           p == [q \in W!Requests |-> IF q \in W!Range(v.write_requests) THEN "rejected"
                                     ELSE v.promises[q]]
           x == [v EXCEPT !.state = "errored", !.queue = <<>>, !.write_requests = <<>>,
                          !.pending_abort_request = "none", !.promises = p]
           y == W!Settle(x, W!Abort, "rejected")
           z == W!Verify(x, x.algorithms)
           u == W!writable_stream_finish_erroring(s)
<1>1. \/ u = W!reject_close_and_closed_promise_if_needed(x)
      \/ u = W!reject_close_and_closed_promise_if_needed(y)
      \/ u = W!CallScript(z, "abort") /\ v.pending_abort_request # "none"
  BY DEF W!writable_stream_finish_erroring
<1> HIDE DEF c, u, p
<1>2. Stays(s, v)
  BY PlainStays
<1> HIDE DEF v
<1>3. SinkShape(x) /\ x.sink = s.sink /\ x.state = "errored" /\ x.stack = s.stack
  BY <1>2 DEF SinkShape, Stays
<1> HIDE DEF x
<1>4. Stays(x, y) /\ Stays(x, z)
  BY <1>3, PlainStays
<1> HIDE DEF y, z
<1>5. CASE u = W!reject_close_and_closed_promise_if_needed(x)
  BY <1>3, <1>5, RejectStays DEF Goes, Open, u
<1>6. CASE u = W!reject_close_and_closed_promise_if_needed(y)
  <2>1. SinkShape(y) /\ y.sink = s.sink /\ y.state = "errored" /\ y.stack = s.stack
    BY <1>3, <1>4 DEF Stays
  <2> QED
    BY <1>6, <2>1, RejectStays DEF Goes, Open, u
<1>7. CASE u = W!CallScript(z, "abort") /\ v.pending_abort_request # "none"
  <2>1. SinkShape(z) /\ z.sink = s.sink /\ z.state = "errored" /\ z.stack = s.stack
    BY <1>3, <1>4 DEF Stays
  <2>2. /\ SinkShape(u) /\ u.sink = s.sink /\ u.state = "errored"
        /\ \E f : u.stack = Append(s.stack, f) /\ f.callback = "abort"
    <3>1. LET x1 == W!CallScript(z, "abort")
          IN  /\ SinkShape(x1) /\ x1.sink = z.sink /\ x1.state = z.state
              /\ \E f : x1.stack = Append(z.stack, f) /\ f.callback = "abort"
      BY <2>1, FrameGoes
    <3> QED
      BY <1>7, <2>1, <3>1
  <2>3. s.pending_abort_request # "none"
    BY <1>2, <1>7 DEF Stays
  <2> QED
    BY <2>2, <2>3 DEF Goes, u
<1> QED
  BY <1>1, <1>5, <1>6, <1>7

\* writable_stream_start_erroring; it does not wait if nothing is in flight.
LEMMA StartGoes ==
    ASSUME NEW s, SinkShape(s), Open(s)
    PROVE  LET u == W!writable_stream_start_erroring(s)
           IN  /\ Goes(s, u) /\ u.state \in {"erroring", "errored"}
               /\ s.pending_abort_request = "none" => u.stack = s.stack
               /\ (s.started /\ ~s.in_flight_close_request /\ s.in_flight_write_request = 0)
                     => u.state = "errored"
<1> DEFINE v == W!Verify(s, ~s.stored_error /\ s.state = "writable")
           x == [v EXCEPT !.state = "erroring", !.stored_error = TRUE,
                          !.ready = IF v.writer # 0 THEN "rejected" ELSE @]
           y == W!writable_stream_finish_erroring(x)
           u == W!writable_stream_start_erroring(s)
<1>1. \/ u = x /\ ~(~W!writable_stream_has_operation_marked_in_flight(x) /\ x.started)
      \/ u = y
  BY DEF W!writable_stream_start_erroring
<1> HIDE DEF u
<1>2. Stays(s, v)
  BY PlainStays
<1> HIDE DEF v
<1>3. /\ SinkShape(x) /\ x.sink = s.sink /\ x.stack = s.stack /\ x.state = "erroring"
      /\ x.started = s.started /\ x.pending_abort_request = s.pending_abort_request
      /\ x.in_flight_write_request = s.in_flight_write_request
      /\ x.in_flight_close_request = s.in_flight_close_request
  BY <1>2 DEF SinkShape, Stays
<1> HIDE DEF x
<1>4. CASE u = x /\ ~(~W!writable_stream_has_operation_marked_in_flight(x) /\ x.started)
  <2>1. Goes(s, u)
    BY <1>3, <1>4 DEF Goes, Open
  <2> QED
    BY <1>3, <1>4, <2>1 DEF W!writable_stream_has_operation_marked_in_flight, u
<1>5. CASE u = y
  <2>1. /\ Goes(x, y) /\ y.state = "errored"
        /\ x.pending_abort_request = "none" => y.stack = x.stack
    BY <1>3, FinishGoes DEF Open
  <2> HIDE DEF y
  <2>2. Goes(s, y)
    BY <1>3, <2>1 DEF Goes, Open
  <2> QED
    BY <1>3, <1>5, <2>1, <2>2 DEF u
<1> QED
  BY <1>1, <1>4, <1>5

\* writable_stream_deal_with_rejection
LEMMA DealGoes ==
    ASSUME NEW s, SinkShape(s), Open(s)
    PROVE  LET u == W!writable_stream_deal_with_rejection(s)
           IN  /\ Goes(s, u) /\ u.state \in {"erroring", "errored"}
               /\ s.pending_abort_request = "none" => u.stack = s.stack
               /\ (s.started /\ ~s.in_flight_close_request /\ s.in_flight_write_request = 0)
                     => u.state = "errored"
<1>1. CASE s.state = "writable"
  BY <1>1, StartGoes DEF W!writable_stream_deal_with_rejection
<1>2. CASE s.state # "writable"
  BY <1>2, FinishGoes DEF W!writable_stream_deal_with_rejection
<1> QED
  BY <1>1, <1>2

\* writable_stream_default_controller_error_if_needed
LEMMA ErrorGoes ==
    ASSUME NEW s, SinkShape(s)
    PROVE  LET u == W!controller_error_if_needed(s)
           IN  Goes(s, u) /\ u.state # "writable"
<1> DEFINE v == W!clear_algorithms(s)
           u == W!controller_error_if_needed(s)
<1>1. \/ s.state # "writable" /\ u = s
      \/ s.state = "writable" /\ u = W!writable_stream_start_erroring(v)
  BY DEF W!controller_error_if_needed
<1>2. Stays(s, v)
  BY PlainStays
<1> HIDE DEF u, v
<1>3. CASE s.state # "writable" /\ u = s
  BY <1>3 DEF Goes, u
<1>4. CASE s.state = "writable" /\ u = W!writable_stream_start_erroring(v)
  <2>1. SinkShape(v) /\ Open(v)
    BY <1>2, <1>4 DEF Stays, Open
  <2>2. Goes(v, u) /\ u.state \in {"erroring", "errored"}
    BY <1>4, <2>1, StartGoes
  <2> QED
    BY <1>2, <2>2, GoesFrom DEF u
<1> QED
  BY <1>1, <1>3, <1>4

\* The functions of the queue, up to the frame that they may push.
LEMMA QueueGoes ==
    ASSUME NEW s, SinkShape(s)
    PROVE  /\ Stays(s, W!dequeue_value(s)) /\ Stays(s, W!UpdateBackpressureIfOpen(s))
           /\ s.state = "writable" => Goes(s, W!process_close(s)) /\ Goes(s, W!process_write(s))
<1>1. ASSUME NEW a, SinkShape(a) PROVE Stays(a, W!dequeue_value(a))
  <2> DEFINE v == W!Verify(a, a.queue # <<>>)
  <2>1. Stays(a, v)
    BY <1>1, PlainStays
  <2>2. W!dequeue_value(a) = [v EXCEPT !.queue = Tail(@)]
    BY DEF W!dequeue_value
  <2> HIDE DEF v
  <2> QED
    BY <2>1, <2>2 DEF Stays, SinkShape
<1>2. Stays(s, W!UpdateBackpressureIfOpen(s))
  <2>1. ASSUME NEW b PROVE Stays(s, W!writable_stream_update_backpressure(s, b))
    <3> DEFINE v == W!Verify(s, s.state = "writable"
                                  /\ ~W!writable_stream_close_queued_or_in_flight(s))
               y == IF v.writer # 0 /\ b # v.backpressure
                    THEN IF b THEN "pending" ELSE IF v.ready = "pending" THEN "fulfilled" ELSE v.ready
                    ELSE v.ready
    <3>1. Stays(s, v)
      BY PlainStays
    <3>2. W!writable_stream_update_backpressure(s, b) = [v EXCEPT !.backpressure = b, !.ready = y]
      BY DEF W!writable_stream_update_backpressure
    <3> HIDE DEF v, y
    <3> QED
      BY <3>1, <3>2 DEF Stays, SinkShape
  <2> DEFINE b == W!get_backpressure(s)
  <2>2. \/ W!UpdateBackpressureIfOpen(s) = s
        \/ W!UpdateBackpressureIfOpen(s) = W!writable_stream_update_backpressure(s, b)
    BY DEF W!UpdateBackpressureIfOpen
  <2>3. Stays(s, s)
    BY DEF Stays
  <2> HIDE DEF b
  <2> QED
    BY <2>1, <2>2, <2>3
<1>3. ASSUME s.state = "writable" PROVE Goes(s, W!process_close(s))
  <2> DEFINE c == ~s.in_flight_close_request /\ s.close_request
             a == W!Verify(s, c)
             m == [a EXCEPT !.in_flight_close_request = TRUE, !.close_request = FALSE]
             d == W!dequeue_value(m)
             v == W!Verify(d, d.queue = <<>> /\ d.algorithms)
             u == W!CallScript(v, "close")
  <2>1. W!process_close(s) = u
    BY DEF W!process_close, W!writable_stream_mark_close_request_in_flight
  <2>2. Stays(s, a)
    BY PlainStays
  <2> HIDE DEF a, c
  <2>3. SinkShape(m) /\ m.sink = s.sink /\ m.state = s.state /\ m.stack = s.stack
    BY <2>2 DEF SinkShape, Stays
  <2> HIDE DEF m
  <2>4. Stays(m, d)
    BY <1>1, <2>3
  <2> HIDE DEF d
  <2>5. SinkShape(d)
    BY <2>4 DEF Stays
  <2>6. Stays(d, v)
    BY <2>5, PlainStays
  <2> HIDE DEF v
  <2>7. SinkShape(v) /\ v.sink = s.sink /\ v.state = s.state /\ v.stack = s.stack
    BY <2>3, <2>4, <2>6 DEF Stays
  <2>8. /\ SinkShape(u) /\ u.state = v.state /\ u.sink = v.sink
        /\ \E f : u.stack = Append(v.stack, f) /\ f.callback = "close"
    BY <2>7, FrameGoes
  <2> HIDE DEF u
  <2> QED
    BY <1>3, <2>1, <2>7, <2>8 DEF Goes, Open
<1>4. ASSUME s.state = "writable" PROVE Goes(s, W!process_write(s))
  <2> DEFINE c == s.in_flight_write_request = 0 /\ s.write_requests # <<>>
             a == W!Verify(s, c)
             m == [a EXCEPT !.in_flight_write_request = Head(s.write_requests),
                            !.write_requests = Tail(@)]
             v == W!Verify(m, m.algorithms)
             u == W!CallScript(v, "write")
  <2>1. W!process_write(s) = u
    BY DEF W!process_write, W!writable_stream_mark_first_write_request_in_flight
  <2>2. Stays(s, a)
    BY PlainStays
  <2> HIDE DEF a, c
  <2>3. SinkShape(m) /\ m.sink = s.sink /\ m.state = s.state /\ m.stack = s.stack
    BY <2>2 DEF SinkShape, Stays
  <2> HIDE DEF m
  <2>4. Stays(m, v)
    BY <2>3, PlainStays
  <2> HIDE DEF v
  <2>5. SinkShape(v) /\ v.sink = s.sink /\ v.state = s.state /\ v.stack = s.stack
    BY <2>3, <2>4 DEF Stays
  <2>6. /\ SinkShape(u) /\ u.state = v.state /\ u.sink = v.sink
        /\ \E f : u.stack = Append(v.stack, f) /\ f.callback = "write"
    BY <2>5, FrameGoes
  <2> HIDE DEF u
  <2> QED
    BY <1>4, <2>1, <2>5, <2>6 DEF Goes, Open
<1> QED
  BY <1>1, <1>2, <1>3, <1>4

\* writable_stream_default_controller_advance_queue_if_needed
LEMMA AdvanceGoes ==
    ASSUME NEW s, SinkShape(s), s.state \in {"writable", "erroring"}
    PROVE  Goes(s, W!advance_queue_if_needed(s))
<1> DEFINE v == W!Verify(s, s.state \notin {"closed", "errored"})
           u == W!advance_queue_if_needed(s)
<1>1. \/ u = s \/ u = v
      \/ v.state = "erroring" /\ u = W!writable_stream_finish_erroring(v)
      \/ v.state # "erroring" /\ (u = W!process_close(v) \/ u = W!process_write(v))
  BY DEF W!advance_queue_if_needed
<1> HIDE DEF u
<1>2. Stays(s, v)
  BY PlainStays
<1> HIDE DEF v
<1>3. SinkShape(v) /\ Open(v) /\ v.state = s.state /\ Goes(s, v)
  BY <1>2, GoesStill DEF Stays, Open
<1>4. Goes(s, s)
  BY DEF Goes
<1>5. CASE v.state = "erroring" /\ u = W!writable_stream_finish_erroring(v)
  <2>1. Goes(v, u)
    BY <1>3, <1>5, FinishGoes
  <2> QED
    BY <1>2, <2>1, GoesFrom DEF u
<1>6. CASE v.state # "erroring" /\ (u = W!process_close(v) \/ u = W!process_write(v))
  <2>1. Goes(v, u)
    BY <1>3, <1>6, QueueGoes
  <2> QED
    BY <1>2, <2>1, GoesFrom DEF u
<1> QED
  BY <1>1, <1>3, <1>4, <1>5, <1>6 DEF u

\* A write whose size is known.
LEMMA WriteGoes ==
    ASSUME NEW s, SinkShape(s)
    PROVE  Goes(s, W!WriteAfterSize(s, TRUE))
<1> DEFINE g == W!Verify(s, s.writer # 0 /\ s.state = "writable")
           a == W!writable_stream_add_write_request(s)
           b == [a EXCEPT !.queue = Append(@, a.writes)]
           c == W!UpdateBackpressureIfOpen(b)
           u == W!WriteAfterSize(s, TRUE)
<1>1. u = s \/ (s.state = "writable" /\ u = W!advance_queue_if_needed(c))
  BY DEF W!WriteAfterSize, W!controller_write
<1>2. Stays(s, g)
  BY PlainStays
<1>3. Stays(s, a)
  <2>1. a = [g EXCEPT !.writes = s.writes + 1, !.promises[s.writes + 1] = "pending",
                      !.write_requests = Append(@, s.writes + 1)]
    BY DEF W!writable_stream_add_write_request
  <2> HIDE DEF g
  <2> QED
    BY <1>2, <2>1 DEF Stays, SinkShape
<1> HIDE DEF a
<1>4. Stays(s, b)
  BY <1>3 DEF Stays, SinkShape
<1> HIDE DEF b
<1>5. SinkShape(b)
  BY <1>4 DEF Stays
<1>6. Stays(b, c)
  BY <1>5, QueueGoes
<1> HIDE DEF c, u
<1>7. Stays(s, c)
  BY <1>4, <1>6 DEF Stays
<1>8. CASE u = s
  BY <1>8 DEF Goes, u
<1>9. CASE s.state = "writable" /\ u = W!advance_queue_if_needed(c)
  <2>1. SinkShape(c) /\ c.state = "writable"
    BY <1>7, <1>9 DEF Stays
  <2>2. Goes(c, u)
    BY <1>9, <2>1, AdvanceGoes
  <2> QED
    BY <1>7, <2>2, GoesFrom DEF u
<1> QED
  BY <1>1, <1>8, <1>9

\* An abort whose signal has been given.
LEMMA AbortGoes ==
    ASSUME NEW s, SinkShape(s)
    PROVE  Goes(s, W!AbortAfterSignal(s))
<1> DEFINE v == [s EXCEPT !.promises[W!Abort] = "pending",
                          !.pending_abort_request =
                              IF s.state = "erroring" THEN "was_already_erroring" ELSE "abort"]
           u == W!AbortAfterSignal(s)
<1>1. u = s \/ (Open(s) /\ (u = v \/ u = W!writable_stream_start_erroring(v)))
  BY DEF W!AbortAfterSignal, Open
<1>2. SinkShape(v) /\ v.sink = s.sink /\ v.state = s.state /\ v.stack = s.stack
  BY DEF SinkShape
<1> HIDE DEF u, v
<1>3. CASE u = s \/ u = v
  BY <1>2, <1>3 DEF Goes, u
<1>4. CASE Open(s) /\ u = W!writable_stream_start_erroring(v)
  <2>1. Goes(v, u)
    BY <1>2, <1>4, StartGoes DEF Open
  <2> QED
    BY <1>2, <2>1 DEF Goes, Open, u
<1> QED
  BY <1>1, <1>3, <1>4

\* The steps of the writable side that begin with something else than the state
\* of the stream: a frame was popped, or a promise of the sink is settled.
Popped == [w EXCEPT !.stack = Front(@)]

\* What the page calls.
LEMMA PageGoes ==
    ASSUME SinkShape(w), W!write \/ W!close \/ W!abort
    PROVE  Goes(w, w')
<1>1. CASE W!write
  <2> DEFINE s == [w EXCEPT !.calls = @ + 1]
             u == W!CallScript(s, "size")
  <2>1. w' = u \/ w' = W!WriteAfterSize(s, TRUE)
    BY <1>1 DEF W!write
  <2>2. Stays(w, s)
    BY DEF Stays, SinkShape
  <2> HIDE DEF s
  <2>3. SinkShape(s)
    BY <2>2 DEF Stays
  <2>4. CASE w' = u
    <3>1. /\ SinkShape(u) /\ u.state = s.state /\ u.sink = s.sink
          /\ \E f : u.stack = Append(s.stack, f) /\ f.callback = "size"
      BY <2>3, FrameGoes
    <3> HIDE DEF u
    <3>2. Goes(s, w')
      BY <2>4, <3>1 DEF Goes, Open
    <3> QED
      BY <2>2, <3>2, GoesFrom
  <2>5. CASE w' = W!WriteAfterSize(s, TRUE)
    BY <2>2, <2>3, <2>5, WriteGoes, GoesFrom
  <2> QED
    BY <2>1, <2>4, <2>5
<1>2. CASE W!close
  <2> DEFINE y == IF w.writer # 0 /\ w.backpressure /\ w.state = "writable" THEN "fulfilled" ELSE w.ready
             s == [w EXCEPT !.close_request = TRUE, !.promises[W!Close] = "pending",
                            !.queue = Append(@, W!Close), !.ready = y]
  <2>1. w' = W!advance_queue_if_needed(s) /\ w.state \in {"writable", "erroring"}
    BY <1>2 DEF W!close
  <2> HIDE DEF y
  <2>2. Stays(w, s)
    BY DEF Stays, SinkShape
  <2> HIDE DEF s
  <2>3. SinkShape(s) /\ s.state \in {"writable", "erroring"}
    BY <2>1, <2>2 DEF Stays
  <2> QED
    BY <2>1, <2>2, <2>3, AdvanceGoes, GoesFrom
<1>3. CASE W!abort
  <2> DEFINE s == [w EXCEPT !.signalled = TRUE]
             u == W!CallScript(s, "signal")
  <2>1. w' = W!AbortAfterSignal(w) \/ w' = u
    BY <1>3 DEF W!abort
  <2>2. Stays(w, s)
    BY DEF Stays, SinkShape
  <2> HIDE DEF s
  <2>3. SinkShape(s)
    BY <2>2 DEF Stays
  <2>4. CASE w' = u
    <3>1. /\ SinkShape(u) /\ u.state = s.state /\ u.sink = s.sink
          /\ \E f : u.stack = Append(s.stack, f) /\ f.callback = "signal"
      BY <2>3, FrameGoes
    <3> HIDE DEF u
    <3>2. Goes(s, w')
      BY <2>4, <3>1 DEF Goes, Open
    <3> QED
      BY <2>2, <3>2, GoesFrom
  <2>5. CASE w' = W!AbortAfterSignal(w)
    BY <2>5, AbortGoes
  <2> QED
    BY <2>1, <2>4, <2>5
<1> QED
  BY <1>1, <1>2, <1>3

\* size() and the abort signal.
LEMMA CallGoes ==
    ASSUME SinkShape(w), W!SizeReturns("valid") \/ W!SignalReturns
    PROVE  Goes(Popped, w')
<1>1. Popped = [w EXCEPT !.stack = W!Front(@)]
  BY SameOperators DEF Popped
<1>2. w' = Popped \/ w' = W!WriteAfterSize(Popped, TRUE) \/ w' = W!AbortAfterSignal(Popped)
  <2>1. CASE W!SizeReturns("valid")
    BY <1>1, <2>1, "valid" # "throws", "valid" # "invalid" DEF W!SizeReturns
  <2>2. CASE W!SignalReturns
    BY <1>1, <2>2 DEF W!SignalReturns
  <2> QED
    BY <2>1, <2>2
<1>3. SinkShape(Popped)
  BY DEF SinkShape, Popped
<1>4. Goes(Popped, Popped)
  BY <1>3 DEF Goes
<1> QED
  BY <1>2, <1>3, <1>4, WriteGoes, AbortGoes

\* A function of the sink returns its promise.
LEMMA SinkBack ==
    ASSUME SinkShape(w), W!SinkReturns
    PROVE  /\ SinkShape(w') /\ w'.state = w.state /\ w'.stack = Front(w.stack)
           /\ w.stack # <<>> /\ Last(w.stack).callback \in W!SinkCallback
           /\ w'.sink = w.sink \cup {Last(w.stack).callback}
<1> DEFINE cb == W!Last(w.stack).callback
           s == [w EXCEPT !.stack = W!Front(@), !.sink = @ \cup {cb}]
<1>1. /\ w.stack # <<>> /\ cb \in W!SinkCallback
      /\ w' = s \/ w' = W!clear_algorithms(s)
  BY DEF W!SinkReturns
<1>2. cb = Last(w.stack).callback /\ W!Front(w.stack) = Front(w.stack)
  BY SameOperators
<1> HIDE DEF cb
<1>3. SinkShape(s) /\ s.sink = w.sink \cup {cb} /\ s.state = w.state /\ s.stack = Front(w.stack)
  BY <1>2 DEF SinkShape
<1> HIDE DEF s
<1>4. Stays(s, W!clear_algorithms(s))
  BY <1>3, PlainStays
<1> QED
  BY <1>1, <1>2, <1>3, <1>4 DEF Stays

\* A promise of the sink is taken from the list.
LEMMA DoneIs ==
    ASSUME SinkShape(w), NEW c
    PROVE  LET d == W!Done(c)
           IN  /\ SinkShape(d) /\ d.sink = w.sink \ {c} /\ d.state = w.state
               /\ d.stack = w.stack /\ d.started = w.started
               /\ d.in_flight_write_request = w.in_flight_write_request
BY DEF SinkShape, W!Done

\* The promise of start() is settled.
LEMMA StartedGoes ==
    ASSUME SinkShape(w), w.state \in {"writable", "erroring"}, W!StartFulfilled \/ W!StartRejected
    PROVE  Goes(W!Done("start"), w') /\ w.stack = <<>> /\ "start" \in w.sink
<1> DEFINE d == W!Done("start")
           c == W!CheckOpen(d)
           s == [c EXCEPT !.started = TRUE]
<1>1. /\ w' = W!advance_queue_if_needed(s) \/ w' = W!writable_stream_deal_with_rejection(s)
      /\ w.stack = <<>> /\ "start" \in w.sink
  BY DEF W!StartFulfilled, W!StartRejected, W!Settled
<1>2. SinkShape(d) /\ d.state = w.state
  BY DoneIs
<1> HIDE DEF d
<1>3. Stays(d, c)
  BY <1>2, PlainStays DEF W!CheckOpen
<1> HIDE DEF c
<1>4. SinkShape(s) /\ s.sink = d.sink /\ s.state = d.state /\ s.stack = d.stack
  BY <1>3 DEF SinkShape, Stays
<1> HIDE DEF s
<1>5. Goes(s, w')
  BY <1>1, <1>2, <1>4, AdvanceGoes, DealGoes DEF Open
<1>6. Goes(d, w')
  BY <1>4, <1>5 DEF Goes, Open
<1> QED
  BY <1>1, <1>6 DEF d

\* The promise of write() is settled.
LEMMA WrittenGoes ==
    ASSUME SinkShape(w), w.state \in {"writable", "erroring"}, W!WriteFulfilled \/ W!WriteRejected
    PROVE  Goes(W!Done("write"), w') /\ w.stack = <<>> /\ "write" \in w.sink
<1> DEFINE d == W!Done("write")
<1>1. SinkShape(d) /\ d.state = w.state
  BY DoneIs
<1>2. w.stack = <<>> /\ "write" \in w.sink
  BY DEF W!WriteFulfilled, W!WriteRejected, W!Settled
<1>3. ASSUME NEW x, NEW o, Stays(d, x)
      PROVE  LET n == x.in_flight_write_request
                 c == [W!Settle(W!Verify(x, n # 0), n, o) EXCEPT !.in_flight_write_request = 0]
                 e == W!CheckOpen(c)
             IN  /\ SinkShape(e) /\ e.sink = d.sink /\ e.state = d.state /\ e.stack = d.stack
  <2> DEFINE n == x.in_flight_write_request
             a == W!Verify(x, n # 0)
             b == W!Settle(a, n, o)
             c == [b EXCEPT !.in_flight_write_request = 0]
             e == W!CheckOpen(c)
  <2> HIDE DEF d, n
  <2>1. SinkShape(x)
    BY <1>3 DEF Stays
  <2>2. Stays(x, a)
    BY <2>1, PlainStays
  <2> HIDE DEF a
  <2>3. SinkShape(a)
    BY <2>2 DEF Stays
  <2>4. Stays(a, b)
    BY <2>3, PlainStays
  <2> HIDE DEF b
  <2>5. SinkShape(c) /\ c.sink = b.sink /\ c.state = b.state /\ c.stack = b.stack
    BY <2>4 DEF SinkShape, Stays
  <2> HIDE DEF c
  <2>6. Stays(c, e)
    BY <2>5, PlainStays DEF W!CheckOpen
  <2> HIDE DEF e
  <2>7. SinkShape(e) /\ e.sink = d.sink /\ e.state = d.state /\ e.stack = d.stack
    BY <1>3, <2>2, <2>4, <2>5, <2>6 DEF Stays
  <2> QED
    BY <2>7 DEF e, c, b, a, n
<1>4. CASE W!WriteFulfilled
  <2> DEFINE n == d.in_flight_write_request
             c == [W!Settle(W!Verify(d, n # 0), n, "fulfilled") EXCEPT !.in_flight_write_request = 0]
             e == W!CheckOpen(c)
             f == W!dequeue_value(e)
             g == W!UpdateBackpressureIfOpen(f)
  <2>1. w' = W!advance_queue_if_needed(g)
    BY <1>4 DEF W!WriteFulfilled, W!writable_stream_finish_in_flight_write
  <2> HIDE DEF d
  <2>2. Stays(d, d)
    BY <1>1 DEF Stays
  <2>3. SinkShape(e) /\ e.sink = d.sink /\ e.state = d.state /\ e.stack = d.stack
    BY <1>3, <2>2
  <2> HIDE DEF e
  <2>4. Stays(e, f)
    BY <2>3, QueueGoes
  <2> HIDE DEF f
  <2>5. SinkShape(f)
    BY <2>4 DEF Stays
  <2>6. Stays(f, g)
    BY <2>5, QueueGoes
  <2> HIDE DEF g
  <2>7. SinkShape(g) /\ g.sink = d.sink /\ g.state = d.state /\ g.stack = d.stack
    BY <2>3, <2>4, <2>6 DEF Stays
  <2>8. Goes(g, w')
    BY <1>1, <2>1, <2>7, AdvanceGoes
  <2>9. Goes(d, w')
    BY <2>7, <2>8 DEF Goes, Open
  <2> QED
    BY <1>2, <2>9 DEF d
<1>5. CASE W!WriteRejected
  <2> DEFINE x == IF d.state = "writable" THEN W!clear_algorithms(d) ELSE d
             n == x.in_flight_write_request
             c == [W!Settle(W!Verify(x, n # 0), n, "rejected") EXCEPT !.in_flight_write_request = 0]
             e == W!CheckOpen(c)
  <2>1. w' = W!writable_stream_deal_with_rejection(e)
    BY <1>5 DEF W!WriteRejected, W!writable_stream_finish_in_flight_write_with_error
  <2> HIDE DEF d
  <2>2. Stays(d, x)
    <3>1. Stays(d, d) /\ Stays(d, W!clear_algorithms(d))
      BY <1>1, PlainStays DEF Stays
    <3> QED
      BY <3>1
  <2> HIDE DEF x
  <2>3. SinkShape(e) /\ e.sink = d.sink /\ e.state = d.state /\ e.stack = d.stack
    BY <1>3, <2>2
  <2> HIDE DEF e
  <2>4. Goes(e, w')
    BY <1>1, <2>1, <2>3, DealGoes DEF Open
  <2>5. Goes(d, w')
    BY <2>3, <2>4 DEF Goes, Open
  <2> QED
    BY <1>2, <2>5 DEF d
<1> QED
  BY <1>4, <1>5

\* The promise of close() is settled: the stream is closed, or in error, and
\* then no abort() is left to be called.
LEMMA ClosedGoes ==
    ASSUME SinkShape(w), w.state \in {"writable", "erroring"}, w.started,
           w.in_flight_write_request = 0, W!CloseFulfilled \/ W!CloseRejected
    PROVE  /\ SinkShape(w') /\ w'.sink = w.sink \ {"close"} /\ w'.state \in {"closed", "errored"}
           /\ w'.stack = w.stack /\ w.stack = <<>> /\ "close" \in w.sink
<1> DEFINE d == W!Done("close")
           v == W!Verify(d, d.in_flight_close_request)
           c == W!CheckOpen(v)
<1>1. w.stack = <<>> /\ "close" \in w.sink
  BY DEF W!CloseFulfilled, W!CloseRejected, W!Settled
<1>2. /\ SinkShape(d) /\ d.sink = w.sink \ {"close"} /\ d.state = w.state
      /\ d.stack = w.stack /\ d.started /\ d.in_flight_write_request = 0
  BY DoneIs
<1>3. Stays(d, v)
  <2> HIDE DEF d
  <2> QED
    BY <1>2, PlainStays
<1>4. Stays(v, c)
  <2>1. SinkShape(v)
    BY <1>3 DEF Stays
  <2> HIDE DEF v
  <2> QED
    BY <2>1, PlainStays DEF W!CheckOpen
<1>5. Stays(d, c)
  <2> HIDE DEF c, v, d
  <2> QED
    BY <1>3, <1>4 DEF Stays
<1>6. SinkShape(c)
  BY <1>5 DEF Stays
<1>7. CASE W!CloseFulfilled
  <2> DEFINE a == W!Settle(c, W!Close, "fulfilled")
             b == W!Settle(a, W!Abort, "fulfilled")
             e == [b EXCEPT !.stored_error = FALSE, !.pending_abort_request = "none"]
             f == IF a.state = "erroring" THEN e ELSE a
             g == [f EXCEPT !.in_flight_close_request = FALSE, !.state = "closed"]
             h == IF g.writer # 0 THEN W!SettleClosed(g, "fulfilled") ELSE g
  <2>1. w' = W!Verify(h, h.pending_abort_request = "none" /\ ~h.stored_error)
    BY <1>7 DEF W!CloseFulfilled, W!writable_stream_finish_in_flight_close
  <2> HIDE DEF c, d, v
  <2>2. Stays(c, a)
    BY <1>6, PlainStays
  <2> HIDE DEF a
  <2>3. SinkShape(a)
    BY <2>2 DEF Stays
  <2>4. Stays(a, b)
    BY <2>3, PlainStays
  <2> HIDE DEF b
  <2>5. SinkShape(e) /\ e.sink = a.sink /\ e.stack = a.stack
    BY <2>4 DEF SinkShape, Stays
  <2> HIDE DEF e
  <2>6. SinkShape(f) /\ f.sink = c.sink /\ f.stack = c.stack
    BY <2>2, <2>3, <2>5 DEF Stays
  <2> HIDE DEF f
  <2>7. SinkShape(g) /\ g.sink = f.sink /\ g.stack = f.stack /\ g.state = "closed"
    BY <2>6 DEF SinkShape
  <2> HIDE DEF g
  <2>8. SinkShape(h) /\ h.sink = g.sink /\ h.stack = g.stack /\ h.state = g.state
    <3>1. Stays(g, W!SettleClosed(g, "fulfilled"))
      BY <2>7, PlainStays
    <3> QED
      BY <2>7, <3>1 DEF Stays
  <2> HIDE DEF h
  <2>9. Stays(h, w')
    BY <2>1, <2>8, PlainStays
  <2> QED
    BY <1>1, <1>2, <1>5, <2>6, <2>7, <2>8, <2>9 DEF Stays
<1>8. CASE W!CloseRejected
  <2> DEFINE a == W!Settle(c, W!Close, "rejected")
             b == W!Settle(a, W!Abort, "rejected")
             e == [b EXCEPT !.in_flight_close_request = FALSE, !.pending_abort_request = "none"]
  <2>1. w' = W!writable_stream_deal_with_rejection(e)
    BY <1>8 DEF W!CloseRejected, W!writable_stream_finish_in_flight_close_with_error
  <2> HIDE DEF c, d, v
  <2>2. Stays(c, a)
    BY <1>6, PlainStays
  <2> HIDE DEF a
  <2>3. SinkShape(a)
    BY <2>2 DEF Stays
  <2>4. Stays(a, b)
    BY <2>3, PlainStays
  <2> HIDE DEF b
  <2>5. /\ SinkShape(e) /\ e.sink = b.sink /\ e.state = b.state /\ e.stack = b.stack
        /\ e.started = b.started /\ e.in_flight_write_request = b.in_flight_write_request
        /\ ~e.in_flight_close_request /\ e.pending_abort_request = "none"
    BY <2>4 DEF SinkShape, Stays
  <2> HIDE DEF e
  <2>6. /\ e.sink = w.sink \ {"close"} /\ e.state = w.state /\ e.stack = w.stack
        /\ e.started /\ e.in_flight_write_request = 0
    BY <1>2, <1>5, <2>2, <2>4, <2>5 DEF Stays
  <2>7. Goes(e, w') /\ w'.stack = e.stack /\ w'.state = "errored"
    BY <2>1, <2>5, <2>6, DealGoes DEF Open
  <2> QED
    BY <1>1, <2>6, <2>7 DEF Goes
<1> QED
  BY <1>7, <1>8

\* The promise of abort() is settled.
LEMMA AbortedGoes ==
    ASSUME NEW o, SinkShape(w), W!AbortSettled(o)
    PROVE  /\ SinkShape(w') /\ w'.sink = w.sink \ {"abort"} /\ w'.state = w.state
           /\ w'.stack = w.stack /\ w.stack = <<>> /\ "abort" \in w.sink
<1> DEFINE d == W!Done("abort")
           a == W!Settle(d, W!Abort, o)
<1>1. /\ w' = W!reject_close_and_closed_promise_if_needed(a)
      /\ w.stack = <<>> /\ "abort" \in w.sink
  BY DEF W!AbortSettled, W!Settled
<1>2. SinkShape(d) /\ d.sink = w.sink \ {"abort"} /\ d.state = w.state /\ d.stack = w.stack
  BY DoneIs
<1> HIDE DEF d
<1>3. Stays(d, a)
  BY <1>2, PlainStays
<1> HIDE DEF a
<1>4. SinkShape(a)
  BY <1>3 DEF Stays
<1>5. SinkShape(w') /\ w'.sink = a.sink /\ w'.state = a.state /\ w'.stack = a.stack
  BY <1>1, <1>4, RejectStays
<1> QED
  BY <1>1, <1>2, <1>3, <1>5 DEF Stays

----------------------------------------------------------------------------
(* What the functions of the readable side do to its end. *)

\* All that is used of the readable side where its end matters.
EndShape(s) == {"state", "close_requested", "canceled"} \subseteq DOMAIN s

\* The stream has ended if it had, and nobody else cancels it.
Lasts(s, u) ==
    /\ EndShape(u) /\ u.canceled = s.canceled
    /\ s.close_requested => u.close_requested
    /\ s.state # "readable" => u.state # "readable"

\* One function after another.
LEMMA LastsOn ==
    ASSUME NEW s, NEW u, NEW v, Lasts(s, u), Lasts(u, v)
    PROVE  Lasts(s, v)
BY DEF Lasts

\* The functions of the readable side.
LEMMA ReadableLasts ==
    ASSUME NEW s, EndShape(s), NEW n, NEW c
    PROVE  /\ Lasts(s, R!controller_error(s)) /\ Lasts(s, R!controller_close(s))
           /\ Lasts(s, R!call_pull_if_needed(s, n, c))
<1>1. ASSUME NEW a, EndShape(a), NEW i, NEW j, NEW k
      PROVE  /\ Lasts(a, R!Verify(a, i)) /\ Lasts(a, R!OnChunk(a, i, j))
             /\ Lasts(a, R!clear_algorithms(a)) /\ Lasts(a, R!SettleReads(a, i))
             /\ Lasts(a, R!CallScript(a, i, j, k))
  <2>1. Lasts(a, R!Verify(a, i)) /\ Lasts(a, R!OnChunk(a, i, j)) /\ Lasts(a, R!clear_algorithms(a))
    BY <1>1 DEF Lasts, EndShape, R!Verify, R!OnChunk, R!clear_algorithms
  <2>2. Lasts(a, R!SettleReads(a, i))
    BY <1>1 DEF Lasts, EndShape, R!SettleReads
  <2>3. Lasts(a, R!CallScript(a, i, j, k))
    BY <1>1 DEF Lasts, EndShape, R!CallScript, R!Verify
  <2> QED
    BY <2>1, <2>2, <2>3
<1>2. ASSUME NEW a, EndShape(a)
      PROVE  Lasts(a, R!readable_stream_close(a)) /\ Lasts(a, R!readable_stream_error(a))
  <2>1. Lasts(a, R!readable_stream_close(a))
    BY <1>2 DEF Lasts, EndShape, R!readable_stream_close, R!SettleReads, R!Verify
  <2>2. Lasts(a, R!readable_stream_error(a))
    BY <1>2 DEF Lasts, EndShape, R!readable_stream_error, R!SettleReads, R!Verify
  <2> QED
    BY <2>1, <2>2
<1>3. Lasts(s, R!controller_error(s))
  <2> DEFINE a == [R!clear_algorithms(s) EXCEPT !.queue = <<>>]
  <2>1. Lasts(s, a)
    BY DEF Lasts, EndShape, R!clear_algorithms
  <2>2. R!controller_error(s) = s \/ R!controller_error(s) = R!readable_stream_error(a)
    BY DEF R!controller_error
  <2> HIDE DEF a
  <2>3. Lasts(a, R!readable_stream_error(a))
    BY <1>2, <2>1 DEF Lasts
  <2> QED
    BY <2>1, <2>2, <2>3, LastsOn DEF Lasts
<1>4. Lasts(s, R!controller_close(s))
  <2> DEFINE a == [s EXCEPT !.close_requested = TRUE]
             b == R!clear_algorithms(a)
  <2>1. Lasts(s, a) /\ Lasts(s, b)
    BY DEF Lasts, EndShape, R!clear_algorithms
  <2>2. \/ R!controller_close(s) = s \/ R!controller_close(s) = a
        \/ R!controller_close(s) = R!readable_stream_close(b)
    BY DEF R!controller_close
  <2> HIDE DEF a, b
  <2>3. Lasts(b, R!readable_stream_close(b))
    BY <1>2, <2>1 DEF Lasts
  <2> QED
    BY <2>1, <2>2, <2>3, LastsOn DEF Lasts
<1>5. Lasts(s, R!call_pull_if_needed(s, n, c))
  <2> DEFINE a == [s EXCEPT !.pull_again = TRUE]
             v == R!Verify(s, ~s.pull_again)
             b == [v EXCEPT !.pulling = TRUE, !.heard = Len(s.reads)]
  <2>1. Lasts(s, a)
    BY DEF Lasts, EndShape
  <2>2. Lasts(s, v)
    BY <1>1
  <2>3. \/ R!call_pull_if_needed(s, n, c) = R!OnChunk(s, n, c)
        \/ R!call_pull_if_needed(s, n, c) = R!OnChunk(a, n, c)
        \/ R!call_pull_if_needed(s, n, c) = R!CallScript(b, "pull", n, c)
    BY DEF R!call_pull_if_needed
  <2> HIDE DEF a, v
  <2>4. Lasts(s, b)
    BY <2>2 DEF Lasts, EndShape
  <2> HIDE DEF b
  <2>5. EndShape(a) /\ EndShape(b)
    BY <2>1, <2>4 DEF Lasts
  <2>6. /\ Lasts(s, R!OnChunk(s, n, c)) /\ Lasts(a, R!OnChunk(a, n, c))
        /\ Lasts(b, R!CallScript(b, "pull", n, c))
    BY <1>1, <2>5
  <2> QED
    BY <2>1, <2>3, <2>4, <2>6, LastsOn
<1> QED
  BY <1>3, <1>4, <1>5

\* The steps of the readable side, but for those of cancel().
LEMMA StepLasts ==
    ASSUME EndShape(r),
           \/ R!read \/ R!enqueue \/ R!SizeReturns \/ R!SizeFails \/ R!PullReturns
           \/ R!CancelReturns \/ R!StartFulfilled \/ R!SourceRejects("start") \/ R!PullFulfilled
    PROVE  Lasts(r, r')
<1>1. CASE R!read
  <2> DEFINE Reading(result) == [r EXCEPT !.reads = Append(@, result)]
             s == Reading(R!Waiting)
             a == R!Verify(s, s.reader # 0 /\ s.state = "readable")
             b == [a EXCEPT !.read_requests = Append(@, Len(s.reads))]
             x == [s EXCEPT !.queue = Tail(@)]
             y == R!clear_algorithms(x)
             z == R!readable_stream_close(y)
  <2>1. \/ r' = Reading(R!Ended) \/ r' = Reading(R!Failed)
        \/ r' = R!call_pull_if_needed(b, 0, 0)
        \/ r' = R!OnChunk(z, Len(s.reads), Head(s.queue))
        \/ r' = R!call_pull_if_needed(x, Len(s.reads), Head(s.queue))
    BY <1>1 DEF R!read, R!pull_steps, R!readable_stream_add_read_request
  <2>2. Lasts(r, Reading(R!Ended)) /\ Lasts(r, Reading(R!Failed)) /\ Lasts(r, s)
    BY DEF Lasts, EndShape
  <2> HIDE DEF s
  <2>3. Lasts(r, b)
    <3>1. Lasts(r, a)
      BY <2>2 DEF Lasts, EndShape, R!Verify
    <3> HIDE DEF a
    <3> QED
      BY <3>1 DEF Lasts, EndShape
  <2>4. Lasts(r, x) /\ Lasts(r, y)
    BY <2>2 DEF Lasts, EndShape, R!clear_algorithms
  <2>5. Lasts(r, z)
    <3> HIDE DEF y
    <3> QED
      BY <2>4 DEF Lasts, EndShape, R!readable_stream_close, R!SettleReads, R!Verify
  <2> HIDE DEF b, x, z, Reading
  <2>6. EndShape(b) /\ EndShape(x)
    BY <2>3, <2>4 DEF Lasts
  <2>7. CASE r' = R!call_pull_if_needed(b, 0, 0)
    BY <2>3, <2>6, <2>7, ReadableLasts, LastsOn
  <2>8. CASE r' = R!call_pull_if_needed(x, Len(s.reads), Head(s.queue))
    BY <2>4, <2>6, <2>8, ReadableLasts, LastsOn
  <2>9. CASE r' = R!OnChunk(z, Len(s.reads), Head(s.queue))
    BY <2>5, <2>9 DEF Lasts, EndShape, R!OnChunk
  <2> QED
    BY <2>1, <2>2, <2>7, <2>8, <2>9
<1>2. CASE R!enqueue
  <2> DEFINE s == [r EXCEPT !.calls = @ + 1]
             a == R!OnChunk(s, Head(s.read_requests), s.chunks + 1)
             b == [a EXCEPT !.chunks = @ + 1, !.read_requests = Tail(@)]
  <2>1. r' = R!call_pull_if_needed(b, 0, 0) \/ r' = R!CallScript(s, "size", 0, 0)
    BY <1>2 DEF R!enqueue, R!readable_stream_fulfill_read_request
  <2>2. Lasts(r, s)
    BY DEF Lasts, EndShape
  <2> HIDE DEF s
  <2>3. Lasts(r, a)
    BY <2>2 DEF Lasts, EndShape, R!OnChunk
  <2> HIDE DEF a
  <2>4. Lasts(r, b)
    BY <2>3 DEF Lasts, EndShape
  <2> HIDE DEF b
  <2>5. EndShape(b)
    BY <2>4 DEF Lasts
  <2>6. CASE r' = R!call_pull_if_needed(b, 0, 0)
    BY <2>4, <2>5, <2>6, ReadableLasts, LastsOn
  <2>7. CASE r' = R!CallScript(s, "size", 0, 0)
    BY <2>2, <2>7 DEF Lasts, EndShape, R!CallScript, R!Verify
  <2> QED
    BY <2>1, <2>6, <2>7
<1> DEFINE p == R!Popped
<1>3. Lasts(r, p)
  BY DEF Lasts, EndShape, R!Popped
<1>4. CASE R!SizeReturns
  <2> DEFINE s == [p EXCEPT !.chunks = @ + 1, !.queue = Append(@, r.chunks + 1),
                     !.reentered = @ \/ ~R!can_close_or_enqueue(r) \/ r.read_requests # <<>>]
  <2>1. r' = R!call_pull_if_needed(s, 0, 0)
    BY <1>4 DEF R!SizeReturns
  <2> HIDE DEF p
  <2>2. Lasts(r, s)
    BY <1>3 DEF Lasts, EndShape
  <2> HIDE DEF s
  <2>3. EndShape(s)
    BY <2>2 DEF Lasts
  <2> QED
    BY <2>1, <2>2, <2>3, ReadableLasts, LastsOn
<1>5. CASE R!SizeFails
  <2>1. r' = R!controller_error(p)
    BY <1>5 DEF R!SizeFails
  <2> HIDE DEF p
  <2>2. EndShape(p)
    BY <1>3 DEF Lasts
  <2> QED
    BY <1>3, <2>1, <2>2, ReadableLasts, LastsOn
<1>6. CASE R!PullReturns
  <2> DEFINE a == R!OnChunk(p, R!Last(r.stack).read, R!Last(r.stack).chunk)
  <2>1. r' = [a EXCEPT !.source = @ \cup {"pull"}]
    BY <1>6 DEF R!PullReturns
  <2> HIDE DEF p
  <2>2. Lasts(r, a)
    BY <1>3 DEF Lasts, EndShape, R!OnChunk
  <2> HIDE DEF a
  <2> QED
    BY <2>1, <2>2 DEF Lasts, EndShape
<1>7. CASE R!CancelReturns
  <2>1. r' = [R!clear_algorithms(p) EXCEPT !.source = @ \cup {"cancel"}]
    BY <1>7 DEF R!CancelReturns
  <2> HIDE DEF p
  <2> QED
    BY <1>3, <2>1 DEF Lasts, EndShape, R!clear_algorithms
<1>8. CASE R!StartFulfilled
  <2> DEFINE d == R!Done("start")
             a == R!Verify(d, ~r.pulling /\ ~r.pull_again)
             s == [a EXCEPT !.started = TRUE]
  <2>1. r' = R!call_pull_if_needed(s, 0, 0)
    BY <1>8 DEF R!StartFulfilled
  <2>2. Lasts(r, a)
    BY DEF Lasts, EndShape, R!Verify, R!Done
  <2> HIDE DEF a
  <2>3. Lasts(r, s)
    BY <2>2 DEF Lasts, EndShape
  <2> HIDE DEF s
  <2>4. EndShape(s)
    BY <2>3 DEF Lasts
  <2> QED
    BY <2>1, <2>3, <2>4, ReadableLasts, LastsOn
<1>9. CASE R!SourceRejects("start")
  <2> DEFINE d == R!Done("start")
  <2>1. r' = R!controller_error(d)
    BY <1>9 DEF R!SourceRejects
  <2>2. Lasts(r, d)
    BY DEF Lasts, EndShape, R!Done
  <2> HIDE DEF d
  <2>3. EndShape(d)
    BY <2>2 DEF Lasts
  <2> QED
    BY <2>1, <2>2, <2>3, ReadableLasts, LastsOn
<1>10. CASE R!PullFulfilled
  <2> DEFINE s == [R!Done("pull") EXCEPT !.pulling = FALSE, !.pull_again = FALSE]
  <2>1. r' = R!call_pull_if_needed(s, 0, 0) \/ r' = s
    BY <1>10 DEF R!PullFulfilled
  <2>2. Lasts(r, s)
    BY DEF Lasts, EndShape, R!Done
  <2> HIDE DEF s
  <2>3. EndShape(s)
    BY <2>2 DEF Lasts
  <2> QED
    BY <2>1, <2>2, <2>3, ReadableLasts, LastsOn
<1> QED
  BY <1>1, <1>2, <1>4, <1>5, <1>6, <1>7, <1>8, <1>9, <1>10

\* cancel() of the stream.
LEMMA CancelLasts ==
    ASSUME EndShape(r), R!cancel
    PROVE  /\ r.state = "readable" /\ r'.state # "readable" /\ r'.canceled = "pending"
           /\ r'.close_requested = r.close_requested
<1> DEFINE a == R!readable_stream_close(r)
           s == [a EXCEPT !.queue = <<>>, !.canceled = "pending"]
<1>1. r.state = "readable" /\ r' = R!CallScript(s, "cancel", 0, 0)
  BY DEF R!cancel
<1>2. EndShape(a) /\ a.state = "closed" /\ a.close_requested = r.close_requested
  BY DEF EndShape, R!readable_stream_close, R!SettleReads, R!Verify
<1> HIDE DEF a
<1>3. /\ EndShape(s) /\ s.state = "closed" /\ s.canceled = "pending"
      /\ s.close_requested = r.close_requested
  BY <1>2 DEF EndShape
<1> HIDE DEF s
<1> QED
  BY <1>1, <1>3 DEF EndShape, R!CallScript, R!Verify

\* The promise of cancel() is settled, once nothing else runs.
LEMMA CanceledLasts ==
    ASSUME NEW o, EndShape(r), "source" \in DOMAIN r, R!CancelSettled(o)
    PROVE  /\ r'.state = r.state /\ r'.close_requested = r.close_requested
           /\ r'.canceled = o /\ r.stack = <<>> /\ "cancel" \in r.source
           /\ r'.source = r.source \ {"cancel"}
BY DEF R!CancelSettled, R!Settled, R!Done, EndShape

----------------------------------------------------------------------------
(* The invariant behind the named failures. *)

SinkCalls == {"write", "close", "abort"}

\* The callback of the frame on top of a stack, and the calls of the sink on it.
TopOf(q) == IF q = <<>> THEN "none" ELSE Last(q).callback
CallsIn(q) == {q[i].callback : i \in DOMAIN q} \cap SinkCalls

SinkTop == TopOf(w.stack)
SourceTop == TopOf(r.stack)
InSink == CallsIn(w.stack)
Running == Range(t.stack)

\* The sink has called, or cancel() of the source, and no algorithm has answered.
SinkCall == SinkTop # "none" /\ SinkTop \notin Running
CancelCall == SourceTop = "cancel" /\ "cancel" \notin Running

\* Below the top of the writable side's stack are calls of the sink only, the
\* readable side has one frame at most, and no algorithm runs twice.
SinkFlat == \A i \in 1 .. Len(w.stack) - 1 : w.stack[i].callback \in SinkCalls
SourceFlat == Len(r.stack) <= 1
Distinct == \A i, j \in DOMAIN t.stack : t.stack[i] = t.stack[j] => i = j

Flat == SinkFlat /\ SourceFlat /\ Distinct

\* Whatever runs was called by the frame of a side, which waits for it, and only
\* one side waits for an algorithm to begin; there is room for it.
Served ==
    /\ Running \cap SinkCalls \subseteq InSink
    /\ SinkTop \in {"size", "signal"} => InSink \subseteq Running
    /\ "cancel" \in Running => SourceTop = "cancel"
    /\ ~(SinkCall /\ CancelCall)
    /\ Len(t.stack) <= MaxDepth
    /\ SinkCall \/ CancelCall => Len(t.stack) < MaxDepth

\* What the sides wait for is what the transform stream has promised.  A write
\* or a close that begins finds the stream open.
Promised ==
    /\ t.write = "none" <=> "write" \notin w.sink
    /\ "transform" \in Running => t.write # "none"
    /\ t.pull = "none" <=> "pull" \notin r.source
    /\ R!can_close_or_enqueue(r) /\ ~t.backpressure => t.pull = "waiting"
    /\ SinkCall /\ SinkTop \in {"write", "close"} => w.state = "writable"

\* The finish promise is pending while cancel() of the transformer runs or its
\* promise is, and the side that called it has ended; when it is settled the
\* writable side has ended as well.
Canceling ==
    /\ t.canceling # "none" \/ {"abort", "cancel"} \cap Running # {} => t.finish = "pending"
    /\ SourceTop = "cancel" \/ "cancel" \in r.source \/ t.canceling = "cancel" =>
          r.canceled = "pending" /\ r.state # "readable"
    /\ t.canceling = "abort" => w.state = "errored"
    /\ t.finish \in {"fulfilled", "rejected"} => w.state # "writable"

\* Who has cleared the algorithms: the end of the writable side, flush() or
\* cancel().  As long as cancel() was not called the readable side is over, or
\* flush() was called.
Cleared ==
    /\ ~t.algorithms => w.state # "writable" \/ t.flush # "none" \/ r.canceled = "pending"
    /\ ~t.algorithms /\ t.finish = "none" => ~R!can_close_or_enqueue(r) \/ t.flush # "none"
    /\ CancelCall /\ ~t.algorithms /\ t.finish = "none" => r.close_requested \/ t.flush # "none"

\* After flush() the close of the sink is under way or over.
Flushed ==
    t.flush # "none" =>
        \/ "close" \in w.sink
        \/ w.state \in {"closed", "errored"} /\ "abort" \notin w.sink /\ "abort" \notin InSink

\* The failures that the property names.
Failures ==
    /\ t.crash = "verify" => t.pull = "released" /\ R!should_call_pull(r)
    /\ NullAlgorithmOnlyWhenEndsMeet

NInv == Flat /\ Served /\ Promised /\ Canceling /\ Cleared /\ Flushed /\ Failures

FInv == IInv /\ RP!IInv /\ WP!IInv /\ NInv

\* What is known of the writable side, in these terms.
SinkKnown ==
    /\ SinkShape(w) /\ IsSeq(w.stack)
    /\ w.state \in {"writable", "erroring", "closed", "errored"}
    /\ \A c, d \in InSink : c = d
    /\ InSink # {} => w.sink = {}
    /\ \A c, d \in w.sink : c = d
    /\ InSink \subseteq SinkCalls
    /\ "write" \in InSink \/ "close" \in InSink => w.state \in {"writable", "erroring"}
    /\ "write" \in w.sink \/ "close" \in w.sink \/ "start" \in w.sink =>
          w.state \in {"writable", "erroring"}
    /\ "abort" \in InSink \/ "abort" \in w.sink => w.state = "errored"
    /\ "close" \in w.sink => w.in_flight_write_request = 0 /\ w.started
    /\ SinkTop \in SinkCalls \cup {"size", "signal", "none"}
    /\ SinkTop \in SinkCalls => SinkTop \in InSink
    /\ SinkTop = "none" <=> w.stack = <<>>
    /\ SinkTop = "none" => InSink = {}
    /\ \A i, j \in DOMAIN w.stack :
          w.stack[i].callback \in SinkCalls /\ w.stack[j].callback \in SinkCalls => i = j

\* And of the readable side.
SourceKnown ==
    /\ EndShape(r) /\ r.state \in {"readable", "closed", "errored"}
    /\ SourceTop \in {"size", "pull", "cancel", "none"}
    /\ SourceTop = "none" <=> r.stack = <<>>
    /\ r.state = "readable" => SourceTop # "cancel"
    /\ "pull" \in r.source => SourceTop # "pull"

\* It follows from what is proved of WritableStream.
LEMMA SinkFacts == WP!IInv => SinkKnown
<1> SUFFICES ASSUME WP!IInv PROVE SinkKnown
  OBVIOUS
<1>1. /\ w \in WP!Shape /\ IsSeq(w.stack)
      /\ w.state \in {"writable", "erroring", "closed", "errored"}
      /\ \A i \in DOMAIN w.stack :
            w.stack[i].callback \in {"write", "close", "abort", "size", "signal"}
      /\ \A c, d \in {"write", "close", "abort"} :
            \A i \in SinkFrames(c), j \in SinkFrames(d) : i = j
      /\ \A c \in {"write", "close", "abort"} : SinkFrames(c) # {} => w.sink = {}
      /\ \A c, d \in w.sink : c = d
      /\ {"write", "close", "start"} \cap w.sink # {} => w.state \in {"writable", "erroring"}
      /\ SinkFrames("write") \cup SinkFrames("close") # {} => w.state \in {"writable", "erroring"}
      /\ SinkFrames("abort") # {} \/ "abort" \in w.sink => w.state = "errored"
      /\ "close" \in w.sink => w.in_flight_write_request = 0 /\ w.started
  BY WritableFacts
<1>2. SinkShape(w)
  BY <1>1 DEF SinkShape, WP!Shape
<1>3. \A c \in SinkCalls : c \in InSink <=> SinkFrames(c) # {}
  BY DEF SinkCalls, InSink, CallsIn, SinkFrames
<1>4. InSink \subseteq SinkCalls
  BY DEF InSink, CallsIn
<1>5. \A i, j \in DOMAIN w.stack :
          w.stack[i].callback \in SinkCalls /\ w.stack[j].callback \in SinkCalls => i = j
  BY <1>1 DEF SinkFrames, SinkCalls
<1>6. ASSUME NEW c \in InSink, NEW d \in InSink PROVE c = d
  <2>1. PICK i \in DOMAIN w.stack : w.stack[i].callback = c /\ c \in SinkCalls
    BY <1>6 DEF InSink, CallsIn
  <2>2. PICK j \in DOMAIN w.stack : w.stack[j].callback = d /\ d \in SinkCalls
    BY <1>6 DEF InSink, CallsIn
  <2> QED
    BY <1>5, <2>1, <2>2
<1>7. /\ SinkTop \in SinkCalls \cup {"size", "signal", "none"}
      /\ SinkTop \in SinkCalls => SinkTop \in InSink
      /\ SinkTop = "none" <=> w.stack = <<>>
      /\ SinkTop = "none" => InSink = {}
  <2>1. CASE w.stack = <<>>
    <3>1. SinkTop = "none" /\ DOMAIN w.stack = {}
      BY <2>1 DEF SinkTop, TopOf
    <3>2. InSink = {}
      BY <3>1 DEF InSink, CallsIn
    <3> QED
      BY <2>1, <3>1, <3>2 DEF SinkCalls
  <2>2. CASE w.stack # <<>>
    <3>1. Len(w.stack) \in DOMAIN w.stack /\ Last(w.stack) = w.stack[Len(w.stack)]
      BY <1>1, <2>2, FrontIs
    <3>2. SinkTop = w.stack[Len(w.stack)].callback
      BY <2>2, <3>1 DEF SinkTop, TopOf
    <3>3. SinkTop \in {"write", "close", "abort", "size", "signal"}
      BY <1>1, <3>1, <3>2
    <3>4. SinkTop \in SinkCalls => SinkTop \in InSink
      BY <3>1, <3>2 DEF InSink, CallsIn
    <3> QED
      BY <2>2, <3>3, <3>4 DEF SinkCalls
  <2> QED
    BY <2>1, <2>2
<1>8. /\ "write" \in InSink \/ "close" \in InSink => w.state \in {"writable", "erroring"}
      /\ "abort" \in InSink => w.state = "errored"
      /\ InSink # {} => w.sink = {}
  BY <1>1, <1>3, <1>4 DEF SinkCalls
<1>9. /\ "write" \in w.sink \/ "close" \in w.sink \/ "start" \in w.sink =>
           w.state \in {"writable", "erroring"}
      /\ "abort" \in w.sink => w.state = "errored"
  BY <1>1
<1> QED
  BY <1>1, <1>2, <1>4, <1>5, <1>6, <1>7, <1>8, <1>9 DEF SinkKnown

\* And this from what is proved of ReadableStream.
LEMMA SourceFacts == IInv /\ RP!IInv => SourceKnown
<1> SUFFICES ASSUME IInv, RP!IInv PROVE SourceKnown
  OBVIOUS
<1>1. /\ r \in RP!Shape /\ r.state \in {"readable", "closed", "errored"}
      /\ r.state = "readable" => CancelFrames = {}
      /\ "pull" \in r.source => ~R!Top("pull")
  BY ReadableFacts
<1>2. IsSeq(r.stack) /\ \A i \in DOMAIN r.stack : r.stack[i].callback \in {"size", "pull", "cancel"}
  BY DEF IInv, Shapes, ReadableShape, ReadableFrames
<1>3. EndShape(r)
  BY <1>1 DEF EndShape, RP!Shape
<1>4. CASE r.stack = <<>>
  BY <1>1, <1>3, <1>4 DEF SourceKnown, SourceTop, TopOf
<1>5. CASE r.stack # <<>>
  <2>1. Len(r.stack) \in DOMAIN r.stack /\ Last(r.stack) = r.stack[Len(r.stack)]
    BY <1>2, <1>5, FrontIs
  <2>2. SourceTop = r.stack[Len(r.stack)].callback /\ SourceTop = Last(r.stack).callback
    BY <1>5, <2>1 DEF SourceTop, TopOf
  <2>3. SourceTop \in {"size", "pull", "cancel"}
    BY <1>2, <2>1, <2>2
  <2>4. r.state = "readable" => SourceTop # "cancel"
    BY <1>1, <2>1, <2>2 DEF CancelFrames
  <2>5. "pull" \in r.source => SourceTop # "pull"
    BY <1>1, <1>5, <2>2, TopIs
  <2> QED
    BY <1>1, <1>3, <1>5, <2>3, <2>4, <2>5 DEF SourceKnown
<1> QED
  BY <1>4, <1>5

\* A stack of calls of the sink only.
SinkOnly(q) == IsSeq(q) /\ \A i \in DOMAIN q : q[i].callback \in SinkCalls

\* Its top is one of them.
LEMMA SinkOnlyIs ==
    ASSUME NEW q, SinkOnly(q)
    PROVE  TopOf(q) \in CallsIn(q) \cup {"none"} /\ (TopOf(q) = "none" <=> CallsIn(q) = {})
<1>1. CASE q = <<>>
  <2>1. DOMAIN q = {}
    BY <1>1
  <2> QED
    BY <1>1, <2>1 DEF TopOf, CallsIn
<1>2. CASE q # <<>>
  <2>1. Len(q) \in DOMAIN q /\ Last(q) = q[Len(q)]
    BY <1>2, FrontIs DEF SinkOnly
  <2>2. TopOf(q) = q[Len(q)].callback
    BY <1>2, <2>1 DEF TopOf
  <2>3. TopOf(q) \in CallsIn(q) /\ TopOf(q) # "none"
    BY <2>1, <2>2 DEF CallsIn, SinkOnly, SinkCalls
  <2> QED
    BY <2>3
<1> QED
  BY <1>1, <1>2

\* A frame on top of a stack.
LEMMA PushIs ==
    ASSUME NEW q, NEW f, IsSeq(q)
    PROVE  LET u == Append(q, f)
           IN  /\ TopOf(u) = f.callback
               /\ CallsIn(u) = CallsIn(q) \cup ({f.callback} \cap SinkCalls)
               /\ SinkOnly(q) => \A i \in 1 .. Len(u) - 1 : u[i].callback \in SinkCalls
<1> DEFINE u == Append(q, f)
<1>1. /\ u # <<>> /\ Last(u) = f /\ Len(q) \in Nat /\ Len(u) = Len(q) + 1
      /\ DOMAIN q = 1 .. Len(q) /\ DOMAIN u = 1 .. Len(q) + 1
      /\ u[Len(q) + 1] = f /\ \A i \in 1 .. Len(q) : u[i] = q[i]
  BY AppendIs
<1> HIDE DEF u
<1>2. TopOf(u) = f.callback
  BY <1>1 DEF TopOf
<1>3. {u[i].callback : i \in DOMAIN u} = {q[i].callback : i \in DOMAIN q} \cup {f.callback}
  <2>1. 1 .. Len(q) + 1 = (1 .. Len(q)) \cup {Len(q) + 1}
    BY <1>1
  <2> QED
    BY <1>1, <2>1
<1>4. CallsIn(u) = CallsIn(q) \cup ({f.callback} \cap SinkCalls)
  BY <1>3 DEF CallsIn
<1>5. ASSUME SinkOnly(q), NEW i \in 1 .. Len(u) - 1 PROVE u[i].callback \in SinkCalls
  <2>1. i \in 1 .. Len(q)
    BY <1>1
  <2> QED
    BY <1>1, <1>5, <2>1 DEF SinkOnly
<1> QED
  BY <1>2, <1>4, <1>5 DEF u

\* The top of a stack is popped.
LEMMA DropIs ==
    ASSUME NEW q, IsSeq(q), q # <<>>, \A i \in 1 .. Len(q) - 1 : q[i].callback \in SinkCalls
    PROVE  /\ SinkOnly(Front(q))
           /\ CallsIn(q) = CallsIn(Front(q)) \cup ({TopOf(q)} \cap SinkCalls)
<1>1. /\ IsSeq(Front(q)) /\ Len(q) \in Nat /\ Len(q) >= 1 /\ DOMAIN q = 1 .. Len(q)
      /\ DOMAIN Front(q) = 1 .. Len(q) - 1 /\ \A i \in 1 .. Len(q) - 1 : Front(q)[i] = q[i]
      /\ Last(q) = q[Len(q)]
  BY FrontIs
<1>2. SinkOnly(Front(q))
  BY <1>1 DEF SinkOnly
<1>3. TopOf(q) = q[Len(q)].callback
  BY <1>1 DEF TopOf
<1>4. {q[i].callback : i \in DOMAIN q} = {Front(q)[i].callback : i \in DOMAIN Front(q)} \cup {TopOf(q)}
  <2>1. 1 .. Len(q) = (1 .. Len(q) - 1) \cup {Len(q)}
    BY <1>1
  <2> QED
    BY <1>1, <1>3, <2>1
<1> QED
  BY <1>2, <1>4 DEF CallsIn

\* A stack whose top is a call of the sink, or which is empty, has no other frames.
LEMMA SinkOnlyFrom ==
    ASSUME SinkKnown, Flat, SinkTop \in SinkCalls \cup {"none"}
    PROVE  SinkOnly(w.stack)
<1>1. IsSeq(w.stack) /\ (SinkTop = "none" => w.stack = <<>>)
  BY DEF SinkKnown
<1>2. CASE w.stack = <<>>
  <2>1. DOMAIN w.stack = {}
    BY <1>2
  <2> QED
    BY <1>1, <2>1 DEF SinkOnly
<1>3. CASE w.stack # <<>>
  <2>1. /\ Len(w.stack) \in Nat /\ DOMAIN w.stack = 1 .. Len(w.stack)
        /\ Last(w.stack) = w.stack[Len(w.stack)]
    BY <1>1, <1>3, FrontIs
  <2>2. SinkTop \in SinkCalls /\ w.stack[Len(w.stack)].callback = SinkTop
    BY <1>1, <1>3, <2>1 DEF SinkTop, TopOf
  <2> QED
    BY <1>1, <2>1, <2>2 DEF SinkOnly, Flat, SinkFlat
<1> QED
  BY <1>2, <1>3

\* Where a function of the writable side leaves it, in these terms; s is the
\* state from which the function went.
Reaches(s) ==
    /\ w'.sink = s.sink
    /\ s.state # "writable" => w'.state # "writable"
    /\ ~Open(s) => w'.state = s.state
    /\ SinkFlat'
    /\ \/ InSink' = CallsIn(s.stack) /\ SinkTop' \in CallsIn(s.stack) \cup {"none"}
       \/ InSink' = CallsIn(s.stack) /\ SinkTop' \in {"size", "signal"}
       \/ /\ CallsIn(s.stack) = {} /\ InSink' = {SinkTop'}
          /\ \/ SinkTop' \in {"write", "close"} /\ w'.state = "writable"
             \/ SinkTop' = "abort" /\ Open(s) /\ w'.state = "errored"

\* A function that starts on calls of the sink only.
LEMMA SinkMoves ==
    ASSUME NEW s, SinkOnly(s.stack), Goes(s, w'), SinkKnown'
    PROVE  Reaches(s)
<1> DEFINE q == s.stack
<1>1. InSink' = CallsIn(w'.stack) /\ SinkTop' = TopOf(w'.stack)
  BY DEF InSink, SinkTop
<1>2. CASE w'.stack = q
  <2>1. TopOf(q) \in CallsIn(q) \cup {"none"}
    BY SinkOnlyIs
  <2>2. \A i \in 1 .. Len(q) - 1 : q[i].callback \in SinkCalls
    <3>1. Len(q) \in Nat /\ DOMAIN q = 1 .. Len(q)
      BY AppendIs DEF SinkOnly
    <3> QED
      BY <3>1 DEF SinkOnly
  <2> QED
    BY <1>1, <1>2, <2>1, <2>2 DEF Goes, Reaches, SinkFlat
<1>3. CASE w'.stack # q
  <2>1. PICK f : /\ w'.stack = Append(q, f)
                 /\ \/ f.callback \in {"write", "close"} /\ w'.state = "writable"
                    \/ f.callback = "abort" /\ Open(s) /\ w'.state = "errored"
                    \/ f.callback \in {"size", "signal"} /\ w'.state = s.state
    BY <1>3 DEF Goes
  <2>2. /\ SinkTop' = f.callback
        /\ InSink' = CallsIn(q) \cup ({f.callback} \cap SinkCalls)
        /\ \A i \in 1 .. Len(w'.stack) - 1 : w'.stack[i].callback \in SinkCalls
    BY <1>1, <2>1, PushIs DEF SinkOnly
  <2>3. CASE f.callback \in {"size", "signal"}
    <3>1. InSink' = CallsIn(q)
      BY <2>2, <2>3 DEF SinkCalls
    <3> QED
      BY <2>2, <2>3, <3>1 DEF Goes, Reaches, SinkFlat
  <2>4. CASE f.callback \in SinkCalls
    <3>1. CallsIn(q) = {}
      <4>1. SUFFICES ASSUME NEW c \in CallsIn(q) PROVE FALSE
        OBVIOUS
      <4>2. PICK i \in DOMAIN q : q[i].callback \in SinkCalls
        BY <4>1 DEF CallsIn
      <4>3. /\ DOMAIN q = 1 .. Len(q) /\ Len(q) \in Nat /\ DOMAIN w'.stack = 1 .. Len(q) + 1
            /\ w'.stack[Len(q) + 1] = f /\ w'.stack[i] = q[i]
        BY <2>1, <4>2, AppendIs DEF SinkOnly
      <4>4. i \in DOMAIN w'.stack /\ Len(q) + 1 \in DOMAIN w'.stack /\ i # Len(q) + 1
        BY <4>2, <4>3
      <4> QED
        BY <2>4, <4>2, <4>3, <4>4 DEF SinkKnown
    <3>2. InSink' = {SinkTop'}
      BY <2>2, <2>4, <3>1
    <3>3. \/ SinkTop' \in {"write", "close"} /\ w'.state = "writable"
          \/ SinkTop' = "abort" /\ Open(s) /\ w'.state = "errored"
      BY <2>1, <2>2, <2>4 DEF SinkCalls
    <3> QED
      BY <2>2, <3>1, <3>2, <3>3 DEF Goes, Reaches, SinkFlat
  <2> QED
    BY <2>1, <2>3, <2>4 DEF SinkCalls
<1> QED
  BY <1>2, <1>3

\* The sink returns, and nothing is left on the stack.
LEMMA SinkReturned ==
    ASSUME SinkKnown, Flat, W!SinkReturns
    PROVE  /\ SinkTop \in SinkCalls /\ InSink = {SinkTop} /\ InSink' = {} /\ SinkTop' = "none"
           /\ w'.state = w.state /\ w.sink = {} /\ w'.sink = {SinkTop} /\ w'.stack = <<>>
<1>1. /\ w'.state = w.state /\ w'.stack = Front(w.stack) /\ w.stack # <<>>
      /\ Last(w.stack).callback \in W!SinkCallback
      /\ w'.sink = w.sink \cup {Last(w.stack).callback}
  BY SinkBack DEF SinkKnown
<1>2. SinkTop = Last(w.stack).callback /\ SinkTop \in SinkCalls
  BY <1>1 DEF SinkTop, TopOf, SinkCalls, W!SinkCallback
<1>3. InSink = {SinkTop} /\ w.sink = {}
  BY <1>2 DEF SinkKnown
<1>4. SinkOnly(w.stack)
  BY <1>2, SinkOnlyFrom
<1>5. /\ Len(w.stack) \in Nat /\ Len(w.stack) >= 1 /\ DOMAIN w.stack = 1 .. Len(w.stack)
      /\ IsSeq(Front(w.stack)) /\ Len(Front(w.stack)) = Len(w.stack) - 1
  BY <1>1, FrontIs DEF SinkKnown
<1>6. Len(w.stack) = 1
  <2>1. 1 \in DOMAIN w.stack /\ Len(w.stack) \in DOMAIN w.stack
    BY <1>5
  <2> QED
    BY <1>4, <2>1 DEF SinkKnown, SinkOnly
<1>7. w'.stack = <<>>
  <2>1. PICK S : Front(w.stack) \in Seq(S)
    BY <1>5 DEF IsSeq
  <2> QED
    BY <1>1, <1>5, <1>6, <2>1
<1>8. SinkTop' = "none" /\ InSink' = {}
  <2>1. DOMAIN w'.stack = {}
    BY <1>7
  <2> QED
    BY <1>7, <2>1 DEF SinkTop, InSink, TopOf, CallsIn
<1> QED
  BY <1>1, <1>2, <1>3, <1>7, <1>8

\* The stack of the readable side.
LEMMA SourceStays == ASSUME r'.stack = r.stack, SourceFlat PROVE SourceTop' = SourceTop /\ SourceFlat'
BY DEF SourceTop, SourceFlat

\* Its frame is popped.
LEMMA SourcePops ==
    ASSUME IsSeq(r.stack), r.stack # <<>>, SourceFlat
    PROVE  /\ Front(r.stack) = <<>>
           /\ r'.stack = Front(r.stack) => SourceTop' = "none" /\ SourceFlat'
<1>1. /\ IsSeq(Front(r.stack)) /\ Len(r.stack) \in Nat /\ Len(r.stack) >= 1
      /\ Len(Front(r.stack)) = Len(r.stack) - 1
  BY FrontIs
<1>2. Len(Front(r.stack)) = 0
  BY <1>1 DEF SourceFlat
<1>3. Front(r.stack) = <<>>
  <2>1. PICK S : Front(r.stack) \in Seq(S)
    BY <1>1 DEF IsSeq
  <2> QED
    BY <1>2, <2>1
<1> QED
  BY <1>2, <1>3 DEF SourceTop, TopOf, SourceFlat

\* A frame is pushed on an empty stack.
LEMMA SourcePushes ==
    ASSUME NEW q, NEW f, IsSeq(q), Len(q) = 0, r'.stack = Append(q, f)
    PROVE  SourceTop' = f.callback /\ SourceFlat'
<1>1. Append(q, f) # <<>> /\ Last(Append(q, f)) = f /\ Len(Append(q, f)) = Len(q) + 1
  BY AppendIs
<1> QED
  BY <1>1 DEF SourceTop, TopOf, SourceFlat

\* An algorithm or the transformer begins.
LEMMA RunPushes ==
    ASSUME NEW c, IsSeq(t.stack), t'.stack = Append(t.stack, c), c \notin Running, Distinct
    PROVE  /\ Running' = Running \cup {c} /\ Distinct' /\ Last(t'.stack) = c
           /\ Len(t'.stack) = Len(t.stack) + 1 /\ Len(t.stack) \in Nat
<1>1. /\ Len(t.stack) \in Nat /\ DOMAIN t.stack = 1 .. Len(t.stack)
      /\ DOMAIN t'.stack = 1 .. Len(t.stack) + 1 /\ t'.stack[Len(t.stack) + 1] = c
      /\ \A i \in 1 .. Len(t.stack) : t'.stack[i] = t.stack[i]
      /\ Range(t'.stack) = Range(t.stack) \cup {c} /\ Last(t'.stack) = c
      /\ Len(t'.stack) = Len(t.stack) + 1
  BY AppendIs
<1>2. \A i \in 1 .. Len(t.stack) : t.stack[i] # c
  BY <1>1 DEF Running, Range
<1>3. Distinct'
  <2> SUFFICES ASSUME NEW i \in DOMAIN t'.stack, NEW j \in DOMAIN t'.stack,
                      t'.stack[i] = t'.stack[j]
               PROVE  i = j
    BY DEF Distinct
  <2>1. /\ i \in 1 .. Len(t.stack) \/ i = Len(t.stack) + 1
        /\ j \in 1 .. Len(t.stack) \/ j = Len(t.stack) + 1
    BY <1>1
  <2> QED
    BY <1>1, <1>2, <2>1 DEF Distinct
<1> QED
  BY <1>1, <1>3 DEF Running

\* It returns.
LEMMA RunPops ==
    ASSUME IsSeq(t.stack), t.stack # <<>>, t'.stack = Front(t.stack), Distinct
    PROVE  /\ Running' = Running \ {Last(t.stack)} /\ Distinct'
           /\ Len(t'.stack) = Len(t.stack) - 1 /\ Len(t.stack) \in Nat
           /\ Last(t.stack) \in Running
<1> DEFINE n == Len(t.stack)
<1>1. /\ n \in Nat /\ n >= 1 /\ DOMAIN t.stack = 1 .. n /\ DOMAIN t'.stack = 1 .. n - 1
      /\ \A i \in 1 .. n - 1 : t'.stack[i] = t.stack[i]
      /\ Last(t.stack) = t.stack[n] /\ Range(t.stack) = Range(t'.stack) \cup {Last(t.stack)}
      /\ Len(t'.stack) = n - 1
  BY FrontIs
<1> HIDE DEF n
<1>2. \A i \in 1 .. n - 1 : t'.stack[i] # Last(t.stack)
  <2> SUFFICES ASSUME NEW i \in 1 .. n - 1, t.stack[i] = t.stack[n] PROVE FALSE
    BY <1>1
  <2>1. i \in DOMAIN t.stack /\ n \in DOMAIN t.stack /\ i # n
    BY <1>1
  <2> QED
    BY <2>1 DEF Distinct
<1>3. Last(t.stack) \notin Range(t'.stack)
  BY <1>1, <1>2 DEF Range
<1>4. Distinct'
  BY <1>1 DEF Distinct
<1> QED
  BY <1>1, <1>3, <1>4 DEF Running, n

\* No algorithm runs: whatever is on the stacks of the sides has begun.
LEMMA Idle ==
    ASSUME IInv, SinkKnown, SourceKnown, NInv, t.crash = "none", ~AlgorithmRuns
    PROVE  /\ ~SinkCall /\ ~CancelCall /\ InSink \subseteq Running /\ SinkOnly(w.stack)
           /\ SinkTop \in InSink \cup {"none"} /\ SourceTop \in {"none", "cancel"}
<1>1. ASSUME SinkCall PROVE FALSE
  <2>1. SinkTop \in SinkCalls \cup {"size", "signal"} /\ w.stack # <<>> /\ SinkTop \notin Running
    BY <1>1 DEF SinkKnown, SinkCall
  <2>2. SinkTop \in W!SinkCallback \cup {"size", "signal"} /\ SinkTop = Last(w.stack).callback
    BY <2>1 DEF SinkCalls, W!SinkCallback, SinkTop, TopOf
  <2>3. SinkCalled(SinkTop)
    BY <2>1, <2>2 DEF SinkCalled, Running
  <2> QED
    BY <2>2, <2>3 DEF AlgorithmRuns
<1>2. ASSUME SourceTop # "none", SourceTop \notin Running PROVE FALSE
  <2>1. SourceTop \in {"size", "pull", "cancel"} /\ r.stack # <<>>
    BY <1>2 DEF SourceKnown
  <2>2. SourceTop = Last(r.stack).callback
    BY <2>1 DEF SourceTop, TopOf
  <2>3. SourceCalled(SourceTop)
    BY <1>2, <2>1, <2>2 DEF SourceCalled, Running
  <2> QED
    BY <2>1, <2>3 DEF AlgorithmRuns
<1>3. Running \subseteq TransformFrames
  <2>1. t.stack \in Seq(TransformFrames)
    BY StackIs DEF IInv, Shapes
  <2> QED
    BY <2>1 DEF Running, Range
<1>4. SinkTop \in SinkCalls \cup {"none"} /\ (SinkTop # "none" => SinkTop \in Running)
  BY <1>1, <1>3 DEF SinkKnown, SinkCall, TransformFrames, SinkCalls
<1>5. SourceTop \in {"none", "cancel"}
  BY <1>2, <1>3 DEF SourceKnown, TransformFrames
<1>6. SinkOnly(w.stack)
  BY <1>4, SinkOnlyFrom DEF NInv
<1>7. InSink \subseteq Running /\ SinkTop \in InSink \cup {"none"}
  BY <1>4 DEF SinkKnown
<1> QED
  BY <1>1, <1>2, <1>5, <1>6, <1>7 DEF CancelCall

\* Where the writable side has gone on, everything is still served.
LEMMA SinkServed ==
    ASSUME NEW s, Reaches(s), CallsIn(s.stack) = InSink, SinkKnown', Served,
           SourceTop' = SourceTop, ~CancelCall,
           \A c \in SinkCalls \cup {"cancel"} : c \in Running' <=> c \in Running,
           InSink \subseteq Running, Len(t'.stack) <= MaxDepth, Len(t'.stack) < MaxDepth
    PROVE  /\ Served'
           /\ (SinkCall' /\ SinkTop' \in {"write", "close"}) => w'.state = "writable"
<1>1. InSink \subseteq SinkCalls
  BY DEF InSink, CallsIn
<1>2. ~CancelCall'
  BY DEF CancelCall
<1>3. InSink \subseteq Running' /\ InSink \subseteq InSink'
  BY <1>1 DEF Reaches
<1>4. Running' \cap SinkCalls \subseteq InSink'
  BY <1>3 DEF Served
<1>5. SinkTop' \in {"size", "signal"} => InSink' \subseteq Running'
  BY <1>3 DEF Reaches
<1>6. "cancel" \in Running' => SourceTop' = "cancel"
  BY DEF Served
<1>7. (SinkCall' /\ SinkTop' \in {"write", "close"}) => w'.state = "writable"
  BY <1>3 DEF Reaches, SinkCall
<1> QED
  BY <1>2, <1>4, <1>5, <1>6, <1>7 DEF Served

\* After flush() the writable side does not abort.
LEMMA SinkFlushed ==
    ASSUME NEW s, Reaches(s), CallsIn(s.stack) = InSink, s.state = w.state,
           "close" \in w.sink => "close" \in s.sink, s.sink \subseteq w.sink,
           Flushed, t'.flush # "none" => t.flush # "none"
    PROVE  Flushed'
BY DEF Reaches, Flushed, Open

----------------------------------------------------------------------------
(* What the functions of the transform stream do to its fields. *)

\* Nothing but the crash, the stack, the algorithms or the backpressure and
\* those who wait for it.
Holds(s, u) ==
    /\ u \in TransformShape
    /\ u.start = s.start /\ u.flush = s.flush /\ u.finish = s.finish /\ u.canceling = s.canceling

\* VERIFY.
LEMMA VerifyHolds ==
    ASSUME NEW s \in TransformShape, NEW c
    PROVE  LET u == Verify(s, c)
           IN  /\ Holds(s, u) /\ u.algorithms = s.algorithms /\ u.stack = s.stack
               /\ u.backpressure = s.backpressure /\ u.pull = s.pull /\ u.write = s.write
               /\ c => u.crash = s.crash
               /\ s.crash = "none" /\ ~c => u.crash = "verify"
               /\ s.crash # "none" => u.crash = s.crash
BY DEF Verify, Holds, TransformShape

\* The transformer is called.
LEMMA CallHolds ==
    ASSUME NEW s \in TransformShape, NEW cb \in TransformFrames
    PROVE  LET u == CallTransformer(s, cb)
           IN  /\ Holds(s, u) /\ u.algorithms = s.algorithms /\ u.stack = Append(s.stack, cb)
               /\ u.backpressure = s.backpressure /\ u.pull = s.pull /\ u.write = s.write
               /\ s.algorithms => u.crash = s.crash
               /\ s.crash = "none" /\ ~s.algorithms => u.crash = "algorithm"
               /\ s.crash # "none" => u.crash = s.crash
<1>1. Append(s.stack, cb) \in Seq(TransformFrames)
  BY StackIs
<1> QED
  BY <1>1 DEF CallTransformer, Holds, TransformShape

\* A frame is popped.
LEMMA PopHolds ==
    ASSUME NEW s \in TransformShape, s.stack # <<>>
    PROVE  LET u == Pop(s)
           IN  /\ Holds(s, u) /\ u.algorithms = s.algorithms /\ u.stack = Front(s.stack)
               /\ u.backpressure = s.backpressure /\ u.pull = s.pull /\ u.write = s.write
               /\ u.crash = s.crash
<1>1. Pop(s) \in TransformShape
  BY PopIs
<1> QED
  BY <1>1 DEF Pop, Holds, TransformShape

\* The algorithms are cleared.
LEMMA ClearHolds ==
    ASSUME NEW s \in TransformShape
    PROVE  LET u == clear_algorithms(s)
           IN  /\ Holds(s, u) /\ ~u.algorithms /\ u.stack = s.stack
               /\ u.backpressure = s.backpressure /\ u.pull = s.pull /\ u.write = s.write
               /\ u.crash = s.crash
BY DEF clear_algorithms, Holds, TransformShape

\* Backpressure changes.
LEMMA SetHolds ==
    ASSUME NEW s \in TransformShape, NEW b \in BOOLEAN
    PROVE  LET u == transform_stream_set_backpressure(s, b)
           IN  /\ Holds(s, u) /\ u.algorithms = s.algorithms /\ u.stack = s.stack
               /\ u.backpressure = b
               /\ u.write = IF s.write = "blocked" THEN "released" ELSE s.write
               /\ u.pull = IF s.pull = "waiting" THEN "released" ELSE s.pull
               /\ s.backpressure # b => u.crash = s.crash
               /\ s.crash # "none" => u.crash = s.crash
<1> DEFINE v == Verify(s, s.backpressure # b)
<1>1. /\ Holds(s, v) /\ v.algorithms = s.algorithms /\ v.stack = s.stack
      /\ v.backpressure = s.backpressure /\ v.pull = s.pull /\ v.write = s.write
      /\ s.backpressure # b => v.crash = s.crash
      /\ s.crash # "none" => v.crash = s.crash
  BY VerifyHolds
<1> DEFINE y == IF s.write = "blocked" THEN "released" ELSE s.write
           z == IF s.pull = "waiting" THEN "released" ELSE s.pull
           u == transform_stream_set_backpressure(s, b)
<1>2. u = [v EXCEPT !.backpressure = b, !.write = y, !.pull = z]
  <2>1. u = [v EXCEPT !.backpressure = b,
                      !.write = IF v.write = "blocked" THEN "released" ELSE v.write,
                      !.pull = IF v.pull = "waiting" THEN "released" ELSE v.pull]
    BY DEF transform_stream_set_backpressure
  <2>2. v.pull = s.pull /\ v.write = s.write
    BY <1>1
  <2> HIDE DEF v, u
  <2> QED
    BY <2>1, <2>2
<1>3. /\ y \in {"none", "blocked", "released", "transforming", "fulfilled", "rejected"}
      /\ z \in {"none", "waiting", "released"}
  BY DEF TransformShape
<1> HIDE DEF v, y, z, u
<1>4. u \in TransformShape
  <2>1. b = TRUE \/ b = FALSE
    OBVIOUS
  <2> QED
    BY <2>1, BeginIs, EndIs DEF u
<1>5. v \in TransformShape
  BY <1>1 DEF Holds
<1>6. /\ u.start = v.start /\ u.flush = v.flush /\ u.finish = v.finish
      /\ u.canceling = v.canceling /\ u.stack = v.stack /\ u.crash = v.crash
      /\ u.write = y /\ u.pull = z
  BY <1>2, <1>5 DEF TransformShape
<1>7. u.algorithms = v.algorithms /\ u.backpressure = b
  BY <1>2, <1>5 DEF TransformShape
<1>8. Holds(s, u)
  BY <1>1, <1>4, <1>6 DEF Holds
<1> QED
  BY <1>1, <1>6, <1>7, <1>8 DEF u, y, z

\* A write is unblocked.
LEMMA UnblockHolds ==
    ASSUME NEW s \in TransformShape, Balanced(s)
    PROVE  LET u == transform_stream_unblock_write(s)
           IN  /\ Holds(s, u) /\ u.algorithms = s.algorithms /\ u.stack = s.stack
               /\ ~u.backpressure /\ (u.write = "none" <=> s.write = "none")
               /\ u.pull = s.pull /\ u.crash = s.crash
<1>1. CASE s.backpressure
  <2>1. transform_stream_unblock_write(s) = transform_stream_set_backpressure(s, FALSE)
    BY <1>1 DEF transform_stream_unblock_write
  <2>2. s.backpressure # FALSE /\ s.pull # "waiting"
    BY <1>1 DEF Balanced
  <2> DEFINE u == transform_stream_set_backpressure(s, FALSE)
  <2>3. /\ Holds(s, u) /\ u.algorithms = s.algorithms /\ u.stack = s.stack
        /\ u.backpressure = FALSE
        /\ u.write = IF s.write = "blocked" THEN "released" ELSE s.write
        /\ u.pull = IF s.pull = "waiting" THEN "released" ELSE s.pull
        /\ s.backpressure # FALSE => u.crash = s.crash
    BY SetHolds
  <2> HIDE DEF u
  <2>4. u.write = "none" <=> s.write = "none"
    BY <2>3
  <2> QED
    BY <2>1, <2>2, <2>3, <2>4 DEF u
<1>2. CASE ~s.backpressure
  BY <1>2 DEF transform_stream_unblock_write, Holds
<1> QED
  BY <1>1, <1>2

\* The writable side fails and its write is unblocked.
LEMMA ErrorHolds ==
    ASSUME NEW s \in TransformShape, Balanced(s), error_writable_and_unblock_write(s)
    PROVE  /\ w' = W!controller_error_if_needed(w)
           /\ Holds(s, t') /\ ~t'.algorithms /\ t'.stack = s.stack
           /\ ~t'.backpressure /\ (t'.write = "none" <=> s.write = "none")
           /\ t'.pull = s.pull /\ t'.crash = s.crash
<1> DEFINE u == clear_algorithms(s)
<1>1. /\ Holds(s, u) /\ ~u.algorithms /\ u.stack = s.stack
      /\ u.backpressure = s.backpressure /\ u.pull = s.pull /\ u.write = s.write
      /\ u.crash = s.crash
  BY ClearHolds
<1>2. w' = W!controller_error_if_needed(w) /\ t' = transform_stream_unblock_write(u)
  BY DEF error_writable_and_unblock_write
<1> HIDE DEF u
<1>3. u \in TransformShape /\ Balanced(u)
  BY <1>1 DEF Holds, Balanced
<1> QED
  BY <1>1, <1>2, <1>3, UnblockHolds DEF Holds

----------------------------------------------------------------------------
(* The promises of the source. *)

\* start() is over.
LEMMA StartDone ==
    ASSUME ReadableShape(r), R!StartFulfilled \/ R!SourceRejects("start")
    PROVE  r'.source = r.source \ {"start"}
<1>1. CASE R!StartFulfilled
  <2> DEFINE v == [R!Verify(R!Done("start"), ~r.pulling /\ ~r.pull_again) EXCEPT !.started = TRUE]
  <2>1. ReadableShape(v) /\ v.source = r.source \ {"start"}
    BY DEF R!Done, R!Verify, ReadableShape
  <2>2. r' = R!call_pull_if_needed(v, 0, 0)
    BY <1>1 DEF R!StartFulfilled
  <2> HIDE DEF v
  <2> QED
    BY <2>1, <2>2, PullAsked DEF Asked
<1>2. CASE R!SourceRejects("start")
  <2>1. ReadableShape(R!Done("start")) /\ R!Done("start").source = r.source \ {"start"}
    BY DEF R!Done, ReadableShape
  <2>2. r' = R!controller_error(R!Done("start"))
    BY <1>2 DEF R!SourceRejects
  <2> QED
    BY <2>1, <2>2, ControllerEnds DEF Ends
<1> QED
  BY <1>1, <1>2

\* pull() is over.
LEMMA PullDone ==
    ASSUME ReadableShape(r), R!PullFulfilled
    PROVE  r'.source = r.source \ {"pull"} /\ "pull" \in r.source
<1> DEFINE u == [R!Done("pull") EXCEPT !.pulling = FALSE, !.pull_again = FALSE]
<1>1. ReadableShape(u) /\ u.source = r.source \ {"pull"}
  BY DEF R!Done, ReadableShape
<1>2. (r' = R!call_pull_if_needed(u, 0, 0) \/ r' = u) /\ "pull" \in r.source
  BY DEF R!PullFulfilled, R!Settled
<1> HIDE DEF u
<1> QED
  BY <1>1, <1>2, PullAsked DEF Asked

----------------------------------------------------------------------------
(* The steps and the invariant. *)

\* Nothing is to be said of the failures where there is none.
LEMMA NoFailure == ASSUME t'.crash = "none" PROVE Failures'
BY DEF Failures, NullAlgorithmOnlyWhenEndsMeet

\* The writable side goes on from s while whatever it has called runs; the
\* readable side calls nothing.
LEMMA SinkStep ==
    ASSUME NEW s, NInv, SinkKnown', Reaches(s), CallsIn(s.stack) = InSink, s.state = w.state,
           ~CancelCall, InSink \subseteq Running,
           Lasts(r, r'), r'.stack = r.stack, r'.source = r.source,
           Len(t'.stack) \in Nat, Len(t'.stack) < MaxDepth, Distinct',
           \A c \in SinkCalls \cup {"cancel"} : c \in Running' <=> c \in Running,
           "transform" \in Running' => "transform" \in Running,
           "transform" \in Running => s.sink = w.sink,
           t'.pull = "none" <=> t.pull = "none",
           R!can_close_or_enqueue(r') /\ ~t'.backpressure => t'.pull = "waiting",
           t'.write = "none" <=> "write" \notin s.sink,
           t'.flush = "none" <=> t.flush = "none",
           t'.canceling \in {t.canceling, "none"},
           t'.canceling # "none" \/ {"abort", "cancel"} \cap Running' # {} => t'.finish = t.finish,
           t'.finish \in {"fulfilled", "rejected"} => t.finish = t'.finish \/ w'.state # "writable",
           t.finish # "none" => t'.finish # "none",
           ~t'.algorithms =>
               ~t.algorithms \/ (w'.state # "writable" /\ ~R!can_close_or_enqueue(r')),
           Flushed', Failures'
    PROVE  NInv'
<1>0. /\ Flat /\ Served /\ Promised /\ Canceling /\ Cleared
      /\ MaxDepth \in Nat /\ Len(t'.stack) <= MaxDepth
  BY TransformBounds DEF NInv
<1>1. SourceTop' = SourceTop /\ SourceFlat' /\ SinkFlat'
  BY <1>0, SourceStays DEF Flat, Reaches
<1>2. /\ Served'
      /\ (SinkCall' /\ SinkTop' \in {"write", "close"}) => w'.state = "writable"
  BY <1>0, <1>1, SinkServed
<1>3. w'.sink = s.sink
  BY DEF Reaches
<1>4. Promised'
  <2>1. "transform" \in Running' => t'.write # "none"
    BY <1>0 DEF Promised
  <2> QED
    BY <1>0, <1>2, <1>3, <2>1 DEF Promised
<1>5. ~CancelCall'
  BY <1>1 DEF CancelCall
<1>6. /\ r'.canceled = r.canceled /\ (r.close_requested => r'.close_requested)
      /\ r.state # "readable" => r'.state # "readable"
  BY DEF Lasts
<1>7. /\ w.state # "writable" => w'.state # "writable"
      /\ w.state = "errored" => w'.state = "errored"
  BY DEF Reaches, Open
<1>8. Canceling'
  <2>1. t'.canceling # "none" \/ {"abort", "cancel"} \cap Running' # {} => t'.finish = "pending"
    <3>1. {"abort", "cancel"} \cap Running' # {} => {"abort", "cancel"} \cap Running # {}
      BY DEF SinkCalls
    <3> QED
      BY <1>0, <3>1 DEF Canceling
  <2>2. SourceTop' = "cancel" \/ "cancel" \in r'.source \/ t'.canceling = "cancel" =>
          r'.canceled = "pending" /\ r'.state # "readable"
    BY <1>0, <1>1, <1>6 DEF Canceling
  <2>3. t'.canceling = "abort" => w'.state = "errored"
    BY <1>0, <1>7 DEF Canceling
  <2>4. t'.finish \in {"fulfilled", "rejected"} => w'.state # "writable"
    BY <1>0, <1>7 DEF Canceling
  <2> QED
    BY <2>1, <2>2, <2>3, <2>4 DEF Canceling
<1>9. Cleared'
  BY <1>0, <1>5, <1>6, <1>7 DEF Cleared, R!can_close_or_enqueue
<1> QED
  BY <1>0, <1>1, <1>2, <1>4, <1>8, <1>9 DEF NInv, Flat

\* The sink returns to the writable side.
LEMMA SinkBackStep ==
    ASSUME SinkKnown, NInv, W!SinkReturns, r' = r, ~CancelCall,
           \A c \in SinkCalls \cup {"cancel"} : c \in Running' <=> c \in Running \ {SinkTop},
           Distinct', Len(t'.stack) <= MaxDepth
    PROVE  Flat' /\ Served' /\ ~SinkCall' /\ ~CancelCall' /\ SourceTop' = SourceTop
<1>1. /\ SinkTop \in SinkCalls /\ InSink = {SinkTop} /\ InSink' = {} /\ SinkTop' = "none"
      /\ w'.stack = <<>>
  BY SinkReturned DEF NInv
<1>2. SourceTop' = SourceTop /\ SourceFlat'
  BY SourceStays DEF NInv, Flat
<1>3. SinkFlat'
  <2>1. Len(w'.stack) = 0
    BY <1>1, EmptyIs
  <2> QED
    BY <2>1 DEF SinkFlat
<1>4. ~SinkCall' /\ ~CancelCall'
  BY <1>1, <1>2 DEF SinkCall, CancelCall, SinkCalls
<1>5. Served'
  BY <1>1, <1>2, <1>4 DEF NInv, Served, SinkCalls
<1> QED
  BY <1>2, <1>3, <1>4, <1>5 DEF Flat

\* The transformer is called by the side that waits for it, or by a reaction.
LEMMA CalledStep ==
    ASSUME NEW c, IInv, SinkKnown, NInv, w' = w, r' = r, t'.stack = Append(t.stack, c), c \notin Running,
           \/ c \in SinkCalls /\ SinkTop = c
           \/ c = "cancel" /\ SourceTop = c
           \/ c = "transform" /\ ~SinkCall /\ ~CancelCall,
           Len(t.stack) < MaxDepth
    PROVE  /\ Flat' /\ Served' /\ ~SinkCall' /\ ~CancelCall' /\ Running' = Running \cup {c}
           /\ Last(t'.stack) = c /\ InSink' = InSink /\ SourceTop' = SourceTop
<1>1. IsSeq(t.stack)
  BY StackIs DEF IInv, Shapes
<1>2. /\ Running' = Running \cup {c} /\ Distinct' /\ Last(t'.stack) = c
      /\ Len(t'.stack) = Len(t.stack) + 1 /\ Len(t.stack) \in Nat
  BY <1>1, RunPushes DEF NInv, Flat
<1>3. /\ SinkTop' = SinkTop /\ SourceTop' = SourceTop /\ InSink' = InSink
      /\ (SinkFlat' <=> SinkFlat) /\ (SourceFlat' <=> SourceFlat)
  BY DEF SinkTop, SourceTop, InSink, SinkFlat, SourceFlat
<1>4. Len(t'.stack) <= MaxDepth
  BY <1>2, TransformBounds
<1>5. ~SinkCall' /\ ~CancelCall'
  <2>1. CASE c \in SinkCalls /\ SinkTop = c
    <3>1. SinkCall
      BY <2>1 DEF SinkCall, SinkCalls
    <3>2. ~CancelCall
      BY <3>1 DEF NInv, Served
    <3> QED
      BY <1>2, <1>3, <2>1, <3>2 DEF SinkCall, CancelCall
  <2>2. CASE c = "cancel" /\ SourceTop = c
    <3>1. CancelCall
      BY <2>2 DEF CancelCall
    <3>2. ~SinkCall
      BY <3>1 DEF NInv, Served
    <3> QED
      BY <1>2, <1>3, <2>2, <3>2 DEF SinkCall, CancelCall
  <2>3. CASE c = "transform" /\ ~SinkCall /\ ~CancelCall
    BY <1>2, <1>3, <2>3 DEF SinkCall, CancelCall
  <2> QED
    BY <2>1, <2>2, <2>3
<1>6. Running' \cap SinkCalls \subseteq InSink'
  <2>1. c \in SinkCalls => c \in InSink
    BY DEF SinkKnown, SinkCalls
  <2> QED
    BY <1>2, <1>3, <2>1 DEF NInv, Served
<1>7. Flat'
  BY <1>2, <1>3 DEF NInv, Flat
<1>8. /\ SinkTop' \in {"size", "signal"} => InSink' \subseteq Running'
      /\ "cancel" \in Running' => SourceTop' = "cancel"
  BY <1>2, <1>3 DEF NInv, Served, SinkCalls
<1>9. Served'
  BY <1>4, <1>5, <1>6, <1>8 DEF Served
<1> QED
  BY <1>2, <1>3, <1>5, <1>7, <1>9

\* All that is known of a state.
Known == IInv /\ SinkKnown /\ SourceKnown /\ NInv

\* Neither a side nor an algorithm runs.
LEMMA Resting ==
    ASSUME Known, t.crash = "none", ~AlgorithmRuns
    PROVE  /\ ~SinkCall /\ ~CancelCall /\ InSink \subseteq Running /\ SinkOnly(w.stack)
           /\ SinkTop \in InSink \cup {"none"} /\ SourceTop \in {"none", "cancel"}
           /\ SinkShape(w) /\ EndShape(r) /\ ReadableShape(r) /\ Lasts(r, r)
           /\ t \in TransformShape /\ Balanced(t) /\ IsSeq(t.stack) /\ IsSeq(w.stack)
           /\ Len(t.stack) \in Nat
<1>1. IInv /\ SinkKnown /\ SourceKnown /\ NInv
  BY DEF Known
<1>2. t \in TransformShape /\ ReadableShape(r) /\ Balanced(t)
  BY <1>1 DEF IInv, Shapes, Held, Balanced
<1>3. IsSeq(t.stack) /\ Len(t.stack) \in Nat
  BY <1>2, StackIs
<1>4. SinkShape(w) /\ EndShape(r) /\ IsSeq(w.stack)
  BY <1>1 DEF SinkKnown, SourceKnown
<1>5. Lasts(r, r)
  BY <1>4 DEF Lasts
<1> QED
  BY <1>1, <1>2, <1>3, <1>4, <1>5, Idle

\* A side that does nothing.
LEMMA SinkRests ==
    ASSUME SinkShape(w), SinkOnly(w.stack), SinkKnown', w' = w
    PROVE  Reaches(w)
<1>1. Stays(w, w)
  BY DEF Stays
<1>2. Goes(w, w')
  BY <1>1, GoesStill
<1> QED
  BY <1>2, SinkMoves

\* A stream that does nothing.
LEMMA TransformRests ==
    ASSUME t' = t, NInv, t.crash = "none"
    PROVE  Distinct' /\ Running' = Running /\ Failures'
<1>1. Distinct' /\ Running' = Running
  BY DEF NInv, Flat, Distinct, Running
<1>2. Failures'
  BY NoFailure
<1> QED
  BY <1>1, <1>2

\* The transform stream is left alone while the writable side goes on.
LEMMA SinkAlone ==
    ASSUME Known, NEW s, SinkKnown', Reaches(s), CallsIn(s.stack) = InSink, s.state = w.state,
           s.sink = w.sink, ~CancelCall, InSink \subseteq Running, r' = r, t' = t,
           t.crash = "none", Len(t.stack) < MaxDepth
    PROVE  NInv'
<1>1. NInv /\ t \in TransformShape /\ EndShape(r)
  BY DEF Known, IInv, Shapes, SourceKnown
<1>2. Distinct' /\ Running' = Running /\ Failures'
  BY <1>1, TransformRests
<1>3. Len(t.stack) \in Nat
  BY <1>1, StackIs
<1>4. Lasts(r, r')
  BY <1>1 DEF Lasts
<1>5. Promised /\ Flushed
  BY <1>1 DEF NInv
<1>6. Flushed'
  BY <1>5, SinkFlushed
<1>7. /\ t'.write = "none" <=> "write" \notin s.sink
      /\ R!can_close_or_enqueue(r') /\ ~t'.backpressure => t'.pull = "waiting"
  BY <1>5 DEF Promised
<1> QED
  BY <1>1, <1>2, <1>3, <1>4, <1>6, <1>7, SinkStep

\* The page calls the writable side.
LEMMA PageKnown ==
    ASSUME Known, SinkKnown', write \/ close \/ abort
    PROVE  NInv'
<1>1. /\ r' = r /\ t' = t /\ t.crash = "none" /\ ~AlgorithmRuns /\ Len(t.stack) < MaxDepth
      /\ W!write \/ W!close \/ W!abort
  BY DEF write, close, abort, ScriptRuns
<1>2. ~CancelCall /\ InSink \subseteq Running /\ SinkOnly(w.stack) /\ SinkShape(w)
  BY <1>1, Resting
<1>3. Reaches(w)
  BY <1>1, <1>2, PageGoes, SinkMoves
<1>4. CallsIn(w.stack) = InSink
  BY DEF InSink
<1> QED
  BY <1>1, <1>2, <1>3, <1>4, SinkAlone

\* size() and the signal return to the writable side.
LEMMA SinkPlainKnown ==
    ASSUME Known, SinkKnown', r' = r, t' = t, NEW c \in {"size", "signal"}, SinkCalled(c),
           W!SizeReturns("valid") \/ W!SignalReturns
    PROVE  NInv'
<1>1. SinkKnown /\ Flat /\ Served /\ SinkShape(w) /\ IsSeq(w.stack)
  BY DEF Known, NInv, SinkKnown
<1>2. /\ t.crash = "none" /\ w.stack # <<>> /\ SinkTop = c /\ c \notin Running
  BY DEF SinkCalled, SinkTop, TopOf, Running
<1>3. SinkCall
  BY <1>2 DEF SinkCall
<1>4. ~CancelCall /\ InSink \subseteq Running /\ Len(t.stack) < MaxDepth
  BY <1>1, <1>2, <1>3 DEF Served
<1>5. Popped.stack = Front(w.stack) /\ Popped.state = w.state /\ Popped.sink = w.sink
  BY <1>1 DEF Popped, SinkShape
<1>6. SinkOnly(Front(w.stack)) /\ CallsIn(w.stack) = CallsIn(Front(w.stack)) \cup ({SinkTop} \cap SinkCalls)
  BY <1>1, <1>2, DropIs DEF SinkTop, Flat, SinkFlat
<1>7. CallsIn(Popped.stack) = InSink /\ SinkOnly(Popped.stack)
  BY <1>2, <1>5, <1>6 DEF InSink, SinkCalls
<1>8. Reaches(Popped)
  BY <1>1, <1>7, CallGoes, SinkMoves
<1> QED
  BY <1>2, <1>4, <1>5, <1>7, <1>8, SinkAlone

\* The transform stream fails, or the readable side was closed for good.
LEMMA FailKnown ==
    ASSUME Known, SinkKnown', t.crash = "none", ~AlgorithmRuns, NEW s \in TransformShape,
           Balanced(s), Len(s.stack) < MaxDepth, s.crash = "none",
           s.stack = t.stack \/ (t.stack # <<>> /\ s.stack = Front(t.stack) /\ Last(t.stack) = "enqueue"),
           s.pull = t.pull, s.write = "none" <=> t.write = "none",
           s.flush = "none" <=> t.flush = "none", s.finish = t.finish, s.canceling = t.canceling,
           Lasts(r, r'), r'.stack = r.stack, r'.source = r.source, ~R!can_close_or_enqueue(r'),
           error_writable_and_unblock_write(s)
    PROVE  NInv'
<1>1. /\ NInv /\ ~CancelCall /\ InSink \subseteq Running /\ SinkOnly(w.stack) /\ SinkShape(w)
      /\ IsSeq(t.stack) /\ Promised /\ Flushed
  BY Resting DEF Known, NInv
<1>2. /\ w' = W!controller_error_if_needed(w)
      /\ Holds(s, t') /\ ~t'.algorithms /\ t'.stack = s.stack
      /\ ~t'.backpressure /\ (t'.write = "none" <=> s.write = "none")
      /\ t'.pull = s.pull /\ t'.crash = s.crash
  BY ErrorHolds
<1>3. Goes(w, w') /\ w'.state # "writable"
  BY <1>1, <1>2, ErrorGoes
<1>4. Reaches(w) /\ CallsIn(w.stack) = InSink
  BY <1>1, <1>3, SinkMoves DEF InSink
<1>5. /\ t'.flush = s.flush /\ t'.finish = s.finish /\ t'.canceling = s.canceling
      /\ t' \in TransformShape
  BY <1>2 DEF Holds
<1>6. Flushed' /\ Failures'
  BY <1>1, <1>2, <1>4, <1>5, SinkFlushed, NoFailure
<1>7. /\ Distinct' /\ Len(t'.stack) \in Nat
      /\ \A c \in SinkCalls \cup {"cancel", "transform"} : c \in Running' <=> c \in Running
  <2>1. Len(t'.stack) \in Nat
    BY <1>5, StackIs
  <2>2. CASE s.stack = t.stack
    <3>1. Distinct' /\ Running' = Running
      BY <1>1, <1>2, <2>2 DEF NInv, Flat, Distinct, Running
    <3> QED
      BY <2>1, <3>1
  <2>3. CASE t.stack # <<>> /\ s.stack = Front(t.stack) /\ Last(t.stack) = "enqueue"
    <3>1. Running' = Running \ {"enqueue"} /\ Distinct'
      BY <1>1, <1>2, <2>3, RunPops DEF NInv, Flat
    <3> QED
      BY <2>1, <3>1 DEF SinkCalls
  <2> QED
    BY <2>2, <2>3
<1>8. /\ t'.pull = "none" <=> t.pull = "none"
      /\ t'.write = "none" <=> "write" \notin w.sink
      /\ t'.flush = "none" <=> t.flush = "none"
  BY <1>1, <1>2, <1>5 DEF Promised
<1> QED
  BY <1>1, <1>2, <1>3, <1>4, <1>5, <1>6, <1>7, <1>8, SinkStep

\* error() and terminate() of the controller.
LEMMA ErrorKnown ==
    ASSUME Known, SinkKnown', error \/ terminate
    PROVE  NInv'
<1>1. /\ t.crash = "none" /\ ~AlgorithmRuns /\ Len(t.stack) < MaxDepth
      /\ r' = R!controller_error(r) \/ r' = R!controller_close(r)
      /\ error_writable_and_unblock_write(t)
  BY DEF error, terminate, transform_stream_error, ScriptRuns
<1>2. EndShape(r) /\ ReadableShape(r) /\ t \in TransformShape /\ Balanced(t)
  BY <1>1, Resting
<1>3. Lasts(r, r')
  BY <1>1, <1>2, ReadableLasts
<1>4. Ends(r, r')
  BY <1>1, <1>2, ControllerEnds
<1>5. r'.stack = r.stack /\ r'.source = r.source /\ ~R!can_close_or_enqueue(r')
  BY <1>4 DEF Ends
<1> QED
  BY <1>1, <1>2, <1>3, <1>5, FailKnown

\* The writable side is left alone, and so are the stacks of the sides.
LEMMA RestKnown ==
    ASSUME Known, SinkKnown', t.crash = "none", ~AlgorithmRuns, w' = w,
           Lasts(r, r'), r'.stack = r.stack, r'.source = r.source,
           Len(t'.stack) \in Nat, Len(t'.stack) < MaxDepth, Distinct',
           \A c \in SinkCalls \cup {"cancel"} : c \in Running' <=> c \in Running,
           "transform" \in Running' => "transform" \in Running,
           t'.pull = "none" <=> t.pull = "none",
           R!can_close_or_enqueue(r') /\ ~t'.backpressure => t'.pull = "waiting",
           t'.write = "none" <=> t.write = "none",
           t'.flush = "none" <=> t.flush = "none",
           t'.canceling \in {t.canceling, "none"},
           t'.canceling # "none" \/ {"abort", "cancel"} \cap Running' # {} => t'.finish = t.finish,
           t'.finish \in {"fulfilled", "rejected"} => t.finish = t'.finish \/ w'.state # "writable",
           t.finish # "none" => t'.finish # "none",
           ~t'.algorithms => ~t.algorithms, Failures'
    PROVE  NInv'
<1>1. /\ NInv /\ ~CancelCall /\ InSink \subseteq Running /\ SinkOnly(w.stack) /\ SinkShape(w)
      /\ Promised /\ Flushed
  BY Resting DEF Known, NInv
<1>2. Reaches(w) /\ CallsIn(w.stack) = InSink
  BY <1>1, SinkRests DEF InSink
<1>3. Flushed'
  BY <1>1, <1>2, SinkFlushed
<1>4. t'.write = "none" <=> "write" \notin w.sink
  BY <1>1 DEF Promised
<1> QED
  BY <1>1, <1>2, <1>3, <1>4, SinkStep

\* enqueue() of the controller returns.
LEMMA EnqueuedKnown ==
    ASSUME Known, SinkKnown', Enqueued
    PROVE  NInv'
<1>1. /\ t.crash = "none" /\ ~AlgorithmRuns /\ t.stack # <<>> /\ Last(t.stack) = "enqueue" /\ r' = r
  BY DEF Enqueued, Returns
<1>2. /\ t \in TransformShape /\ Balanced(t) /\ IsSeq(t.stack) /\ Lasts(r, r) /\ NInv /\ IInv
  BY <1>1, Resting DEF Known
<1> DEFINE p == Pop(t)
<1>3. /\ Holds(t, p) /\ p.algorithms = t.algorithms /\ p.stack = Front(t.stack)
      /\ p.backpressure = t.backpressure /\ p.pull = t.pull /\ p.write = t.write
      /\ p.crash = t.crash
  BY <1>1, <1>2, PopHolds
<1>4. /\ r.state = "errored" => error_writable_and_unblock_write(p)
      /\ r.state # "errored" =>
            /\ w' = w
            /\ t' = IF (~R!should_call_pull(r)) = t.backpressure THEN p
                    ELSE transform_stream_set_backpressure(Verify(p, ~R!should_call_pull(r)), TRUE)
  BY DEF Enqueued
<1> HIDE DEF p
<1>5. /\ p \in TransformShape /\ Balanced(p) /\ p.flush = t.flush /\ p.finish = t.finish
      /\ p.canceling = t.canceling
  BY <1>2, <1>3 DEF Holds, Balanced
<1>6. Len(Front(t.stack)) \in Nat /\ Len(Front(t.stack)) < MaxDepth
  <2>1. Len(t.stack) <= MaxDepth /\ MaxDepth \in Nat
    BY <1>2, TransformBounds DEF NInv, Served
  <2>2. Len(t.stack) \in Nat /\ Len(t.stack) >= 1 /\ Len(Front(t.stack)) = Len(t.stack) - 1
    BY <1>1, <1>2, FrontIs
  <2> QED
    BY <2>1, <2>2
<1>7. CASE r.state = "errored"
  <2>1. ~R!can_close_or_enqueue(r')
    BY <1>1, <1>7 DEF R!can_close_or_enqueue
  <2>2. Lasts(r, r') /\ r'.stack = r.stack /\ r'.source = r.source
    BY <1>1, <1>2
  <2> QED
    BY <1>1, <1>3, <1>4, <1>5, <1>6, <1>7, <2>1, <2>2, FailKnown
<1>8. CASE r.state # "errored"
  <2>1. /\ t'.stack = Front(t.stack) /\ t'.algorithms = t.algorithms /\ t'.flush = t.flush
        /\ t'.finish = t.finish /\ t'.canceling = t.canceling
        /\ t'.pull = "none" <=> t.pull = "none"
        /\ t'.write = "none" <=> t.write = "none"
    <3>1. CASE t' = p
      BY <1>3, <1>5, <3>1
    <3>2. CASE t' = transform_stream_set_backpressure(Verify(p, ~R!should_call_pull(r)), TRUE)
      <4> DEFINE v == Verify(p, ~R!should_call_pull(r))
      <4>1. /\ v \in TransformShape /\ v.stack = p.stack /\ v.algorithms = p.algorithms
            /\ v.flush = p.flush /\ v.finish = p.finish /\ v.canceling = p.canceling
            /\ v.pull = p.pull /\ v.write = p.write
        BY <1>5, VerifyHolds DEF Holds
      <4>2. t' = transform_stream_set_backpressure(v, TRUE)
        BY <3>2
      <4> HIDE DEF v
      <4>3. /\ t'.stack = v.stack /\ t'.algorithms = v.algorithms
            /\ t'.flush = v.flush /\ t'.finish = v.finish /\ t'.canceling = v.canceling
            /\ t'.write = IF v.write = "blocked" THEN "released" ELSE v.write
            /\ t'.pull = IF v.pull = "waiting" THEN "released" ELSE v.pull
        BY <4>1, <4>2, SetHolds DEF Holds
      <4> QED
        BY <1>3, <1>5, <4>1, <4>3
    <3> QED
      BY <1>4, <1>8, <3>1, <3>2
  <2>2. Running' = Running \ {"enqueue"} /\ Distinct'
    BY <1>1, <1>2, <2>1, RunPops DEF NInv, Flat
  <2>3. /\ R!can_close_or_enqueue(r') /\ ~t'.backpressure => t'.pull = "waiting"
        /\ Failures'
    <3>1. CASE t' = p
      <4>1. Failures'
        BY <1>1, <1>3, <3>1, NoFailure
      <4> QED
        BY <1>1, <1>2, <1>3, <3>1, <4>1 DEF NInv, Promised
    <3>2. CASE /\ t' = transform_stream_set_backpressure(Verify(p, ~R!should_call_pull(r)), TRUE)
               /\ (~R!should_call_pull(r)) # t.backpressure
      <4> DEFINE v == Verify(p, ~R!should_call_pull(r))
      <4>1. /\ v \in TransformShape /\ v.backpressure = p.backpressure /\ v.pull = p.pull
            /\ ~R!should_call_pull(r) => v.crash = "none"
            /\ R!should_call_pull(r) => v.crash = "verify"
        BY <1>1, <1>3, <1>5, VerifyHolds DEF Holds
      <4>2. t' = transform_stream_set_backpressure(v, TRUE)
        BY <3>2
      <4> HIDE DEF v
      <4>3. /\ t'.backpressure = TRUE
            /\ t'.pull = IF v.pull = "waiting" THEN "released" ELSE v.pull
            /\ v.backpressure # TRUE => t'.crash = v.crash
            /\ v.crash # "none" => t'.crash = v.crash
        BY <4>1, <4>2, SetHolds
      <4>4. CASE ~R!should_call_pull(r)
        <5>1. t'.crash = "none"
          BY <1>3, <3>2, <4>1, <4>3, <4>4
        <5> QED
          BY <4>3, <5>1, NoFailure
      <4>5. CASE R!should_call_pull(r)
        <5>1. t.backpressure
          BY <1>2, <3>2, <4>5 DEF TransformShape
        <5>2. ~R!Top("pull")
          BY <1>1, <1>2, QuietInv DEF Asks
        <5>3. t.pull = "released"
          BY <1>2, <4>5, <5>1, <5>2 DEF IInv, Demanded
        <5>4. t'.pull = "released" /\ t'.crash = "verify" /\ R!should_call_pull(r)'
          BY <1>1, <1>3, <4>1, <4>3, <4>5, <5>3
        <5>5. Failures'
          BY <1>1, <4>5, <5>4 DEF Failures, NullAlgorithmOnlyWhenEndsMeet
        <5> QED
          BY <4>3, <5>5
      <4> QED
        BY <4>4, <4>5
    <3> QED
      BY <1>4, <1>8, <3>1, <3>2
  <2>4. \A c \in SinkCalls \cup {"cancel", "transform"} : c \in Running' <=> c \in Running
    BY <2>2 DEF SinkCalls
  <2>5. w' = w /\ Lasts(r, r') /\ r'.stack = r.stack /\ r'.source = r.source
    BY <1>1, <1>2, <1>4, <1>8
  <2> QED
    BY <1>1, <1>2, <1>6, <2>1, <2>2, <2>3, <2>4, <2>5, RestKnown
<1> QED
  BY <1>7, <1>8

\* The reactions run when no script does.
LEMMA MicrotaskRests ==
    ASSUME Known, Microtask
    PROVE  /\ t.crash = "none" /\ ~AlgorithmRuns /\ t.stack = <<>> /\ Running = {}
           /\ Len(t.stack) = 0 /\ Len(t.stack) < MaxDepth
           /\ ~SinkCall /\ ~CancelCall /\ InSink = {} /\ SinkOnly(w.stack)
           /\ SinkTop = "none" /\ w.stack = <<>> /\ SourceTop \in {"none", "cancel"}
           /\ SinkShape(w) /\ EndShape(r) /\ ReadableShape(r) /\ Lasts(r, r)
           /\ t \in TransformShape /\ Balanced(t) /\ IsSeq(t.stack)
<1>1. t.crash = "none" /\ ~AlgorithmRuns /\ t.stack = <<>>
  BY DEF Microtask
<1>2. Running = {} /\ Len(t.stack) = 0 /\ Len(t.stack) < MaxDepth
  BY <1>1, EmptyIs, TransformBounds DEF Running
<1>3. /\ ~SinkCall /\ ~CancelCall /\ InSink \subseteq Running /\ SinkOnly(w.stack)
      /\ SinkTop \in InSink \cup {"none"} /\ SourceTop \in {"none", "cancel"}
      /\ SinkShape(w) /\ EndShape(r) /\ ReadableShape(r) /\ Lasts(r, r)
      /\ t \in TransformShape /\ Balanced(t) /\ IsSeq(t.stack)
  BY <1>1, Resting
<1>4. SinkTop = "none" /\ InSink = {}
  BY <1>2, <1>3
<1>5. w.stack = <<>>
  BY <1>4 DEF Known, SinkKnown
<1> QED
  BY <1>1, <1>2, <1>3, <1>4, <1>5

\* The promise of transform() is settled.
LEMMA TransformSettledKnown ==
    ASSUME Known, SinkKnown', NEW o \in {"fulfilled", "rejected"}, TransformSettled(o)
    PROVE  NInv'
<1> DEFINE s == [t EXCEPT !.write = o]
<1>1. /\ Microtask /\ t.write = "transforming"
      /\ o = "rejected" => r' = R!controller_error(r) /\ error_writable_and_unblock_write(s)
      /\ o # "rejected" => t' = s /\ r' = r /\ w' = w
  BY DEF TransformSettled, transform_stream_error
<1>2. /\ t.crash = "none" /\ ~AlgorithmRuns /\ t.stack = <<>> /\ Running = {}
      /\ Len(t.stack) = 0 /\ Len(t.stack) < MaxDepth
      /\ EndShape(r) /\ ReadableShape(r) /\ Lasts(r, r) /\ t \in TransformShape /\ Balanced(t)
  BY <1>1, MicrotaskRests
<1>3. /\ s \in TransformShape /\ s.stack = t.stack /\ s.pull = t.pull /\ s.write = o
      /\ s.flush = t.flush /\ s.finish = t.finish /\ s.canceling = t.canceling
      /\ s.crash = t.crash
  BY <1>2 DEF TransformShape
<1>4. s.backpressure = t.backpressure /\ s.algorithms = t.algorithms
  BY <1>2 DEF TransformShape
<1> HIDE DEF s
<1>5. Balanced(s)
  BY <1>2, <1>3, <1>4 DEF Balanced
<1>6. CASE o = "rejected"
  <2>1. Lasts(r, r') /\ Ends(r, r')
    BY <1>1, <1>2, <1>6, ReadableLasts, ControllerEnds
  <2>2. r'.stack = r.stack /\ r'.source = r.source /\ ~R!can_close_or_enqueue(r')
    BY <2>1 DEF Ends
  <2>3. s.write = "none" <=> t.write = "none"
    BY <1>1, <1>3
  <2>4. error_writable_and_unblock_write(s)
    BY <1>1, <1>6
  <2> QED
    BY <1>2, <1>3, <1>5, <2>1, <2>2, <2>3, <2>4, FailKnown
<1>7. CASE o # "rejected"
  <2>1. t' = s /\ r' = r /\ w' = w
    BY <1>1, <1>7
  <2>2. Distinct' /\ Running' = {} /\ Failures'
    <3>1. t'.stack = <<>> /\ t'.crash = "none"
      BY <1>2, <1>3, <2>1
    <3> QED
      BY <3>1, EmptyIs, NoFailure DEF Distinct, Running
  <2>3. NInv /\ Promised
    BY DEF Known, NInv
  <2>4. R!can_close_or_enqueue(r') /\ ~t'.backpressure => t'.pull = "waiting"
    BY <1>3, <1>4, <2>1, <2>3 DEF Promised
  <2> QED
    BY <1>1, <1>2, <1>3, <1>4, <2>1, <2>2, <2>4, RestKnown
<1> QED
  BY <1>6, <1>7

\* The promise of flush() is settled.
LEMMA FlushSettledKnown ==
    ASSUME Known, SinkKnown', NEW o \in {"fulfilled", "rejected"}, FlushSettled(o)
    PROVE  NInv'
<1> DEFINE x == IF o = "rejected" \/ r.state = "errored" THEN "rejected" ELSE "fulfilled"
           s == [t EXCEPT !.flush = x]
<1>1. /\ Microtask /\ t.flush = "pending"
      /\ o = "rejected" => r' = R!controller_error(r) /\ error_writable_and_unblock_write(s)
      /\ o # "rejected" => t' = s /\ r' = R!controller_close(r) /\ w' = w
  BY DEF FlushSettled, transform_stream_error
<1>2. /\ t.crash = "none" /\ ~AlgorithmRuns /\ t.stack = <<>> /\ Running = {}
      /\ Len(t.stack) = 0 /\ Len(t.stack) < MaxDepth
      /\ EndShape(r) /\ ReadableShape(r) /\ Lasts(r, r) /\ t \in TransformShape /\ Balanced(t)
  BY <1>1, MicrotaskRests
<1>3. x \in {"fulfilled", "rejected"}
  OBVIOUS
<1> HIDE DEF x
<1>4. /\ s \in TransformShape /\ s.stack = t.stack /\ s.pull = t.pull /\ s.write = t.write
      /\ s.flush = x /\ s.finish = t.finish /\ s.canceling = t.canceling
      /\ s.crash = t.crash
  BY <1>2, <1>3 DEF TransformShape, Outcomes
<1>5. s.backpressure = t.backpressure /\ s.algorithms = t.algorithms
  BY <1>2 DEF TransformShape
<1> HIDE DEF s
<1>6. Balanced(s)
  BY <1>2, <1>4, <1>5 DEF Balanced
<1>7. Lasts(r, r') /\ Ends(r, r')
  BY <1>1, <1>2, ReadableLasts, ControllerEnds
<1>8. r'.stack = r.stack /\ r'.source = r.source /\ ~R!can_close_or_enqueue(r')
  BY <1>7 DEF Ends
<1>9. CASE o = "rejected"
  <2>1. s.flush = "none" <=> t.flush = "none"
    BY <1>1, <1>3, <1>4
  <2>2. error_writable_and_unblock_write(s)
    BY <1>1, <1>9
  <2> QED
    BY <1>2, <1>4, <1>6, <1>7, <1>8, <2>1, <2>2, FailKnown
<1>10. CASE o # "rejected"
  <2>1. t' = s /\ w' = w
    BY <1>1, <1>10
  <2>2. Distinct' /\ Running' = {} /\ Failures'
    <3>1. t'.stack = <<>> /\ t'.crash = "none"
      BY <1>2, <1>4, <2>1
    <3> QED
      BY <3>1, EmptyIs, NoFailure DEF Distinct, Running
  <2>3. t'.flush = "none" <=> t.flush = "none"
    BY <1>1, <1>3, <1>4, <2>1
  <2> QED
    BY <1>2, <1>4, <1>5, <1>7, <1>8, <2>1, <2>2, <2>3, RestKnown
<1> QED
  BY <1>9, <1>10

\* The promise of cancel() is settled, for an abort.
LEMMA AbortCancelKnown ==
    ASSUME Known, SinkKnown', NEW o \in {"fulfilled", "rejected"}, AbortCancelSettled(o)
    PROVE  NInv'
<1> DEFINE x == IF r.state = "errored" THEN "rejected" ELSE o
<1>1. /\ Microtask /\ t.canceling = "abort" /\ w' = w
      /\ t' = [t EXCEPT !.canceling = "none", !.finish = x] /\ r' = R!controller_error(r)
  BY DEF AbortCancelSettled
<1>2. /\ t.crash = "none" /\ ~AlgorithmRuns /\ t.stack = <<>> /\ Running = {}
      /\ Len(t.stack) = 0 /\ Len(t.stack) < MaxDepth
      /\ EndShape(r) /\ ReadableShape(r) /\ Lasts(r, r) /\ t \in TransformShape /\ Balanced(t)
  BY <1>1, MicrotaskRests
<1>3. x \in {"fulfilled", "rejected"}
  OBVIOUS
<1> HIDE DEF x
<1>4. /\ t'.stack = t.stack /\ t'.pull = t.pull /\ t'.write = t.write
      /\ t'.flush = t.flush /\ t'.finish = x /\ t'.canceling = "none" /\ t'.crash = t.crash
      /\ t'.algorithms = t.algorithms
  BY <1>1, <1>2 DEF TransformShape
<1>5. Lasts(r, r') /\ Ends(r, r')
  BY <1>1, <1>2, ReadableLasts, ControllerEnds
<1>6. r'.stack = r.stack /\ r'.source = r.source /\ ~R!can_close_or_enqueue(r')
  BY <1>5 DEF Ends
<1>7. w'.state # "writable"
  BY <1>1 DEF Known, NInv, Canceling
<1>8. Distinct' /\ Running' = {} /\ Failures'
  <2>1. t'.stack = <<>> /\ t'.crash = "none"
    BY <1>2, <1>4
  <2> QED
    BY <2>1, EmptyIs, NoFailure DEF Distinct, Running
<1> QED
  BY <1>1, <1>2, <1>3, <1>4, <1>5, <1>6, <1>7, <1>8, RestKnown

\* And for a cancel of the readable side.
LEMMA SourceSettledKnown ==
    ASSUME Known, SinkKnown', NEW o \in {"fulfilled", "rejected"}, SourceCancelSettled(o)
    PROVE  NInv'
<1> DEFINE s == [t EXCEPT !.canceling = "none"]
<1>1. /\ Microtask /\ t.canceling = "cancel" /\ r' = r
      /\ \/ w.state = "errored" /\ t' = [s EXCEPT !.finish = "rejected"] /\ w' = w
         \/ /\ w' = W!controller_error_if_needed(w)
            /\ t' = [transform_stream_unblock_write(s) EXCEPT !.finish = o]
  BY DEF SourceCancelSettled
<1>2. /\ t.crash = "none" /\ ~AlgorithmRuns /\ t.stack = <<>> /\ Running = {} /\ InSink = {}
      /\ ~CancelCall /\ SinkOnly(w.stack) /\ SinkShape(w)
      /\ Len(t.stack) = 0 /\ Len(t.stack) < MaxDepth
      /\ EndShape(r) /\ ReadableShape(r) /\ Lasts(r, r) /\ t \in TransformShape /\ Balanced(t)
  BY <1>1, MicrotaskRests
<1>3. /\ s \in TransformShape /\ s.stack = t.stack /\ s.pull = t.pull /\ s.write = t.write
      /\ s.flush = t.flush /\ s.canceling = "none" /\ s.crash = t.crash
  BY <1>2 DEF TransformShape
<1>4. s.backpressure = t.backpressure /\ s.algorithms = t.algorithms
  BY <1>2 DEF TransformShape
<1> HIDE DEF s
<1>5. Balanced(s)
  BY <1>2, <1>3, <1>4 DEF Balanced
<1>6. NInv /\ Promised /\ Canceling /\ Flushed
  BY DEF Known, NInv
<1>7. ~R!can_close_or_enqueue(r')
  BY <1>1, <1>6 DEF Canceling, R!can_close_or_enqueue
<1>8. Lasts(r, r') /\ r'.stack = r.stack /\ r'.source = r.source
  BY <1>1, <1>2
<1>9. CASE w.state = "errored" /\ t' = [s EXCEPT !.finish = "rejected"] /\ w' = w
  <2>1. /\ t'.stack = t.stack /\ t'.pull = t.pull /\ t'.write = t.write
        /\ t'.flush = t.flush /\ t'.finish = "rejected" /\ t'.canceling = "none"
        /\ t'.crash = t.crash /\ t'.algorithms = t.algorithms
    BY <1>3, <1>4, <1>9 DEF TransformShape
  <2>2. Distinct' /\ Running' = {} /\ Failures'
    <3>1. t'.stack = <<>> /\ t'.crash = "none"
      BY <1>2, <2>1
    <3> QED
      BY <3>1, EmptyIs, NoFailure DEF Distinct, Running
  <2> QED
    BY <1>2, <1>7, <1>8, <1>9, <2>1, <2>2, RestKnown
<1>10. CASE /\ w' = W!controller_error_if_needed(w)
            /\ t' = [transform_stream_unblock_write(s) EXCEPT !.finish = o]
  <2> DEFINE u == transform_stream_unblock_write(s)
  <2>1. /\ Holds(s, u) /\ u.algorithms = s.algorithms /\ u.stack = s.stack
        /\ ~u.backpressure /\ (u.write = "none" <=> s.write = "none")
        /\ u.pull = s.pull /\ u.crash = s.crash
    BY <1>3, <1>5, UnblockHolds
  <2>2. t' = [u EXCEPT !.finish = o]
    BY <1>10
  <2> HIDE DEF u
  <2>3. u \in TransformShape /\ u.flush = s.flush /\ u.canceling = s.canceling
    BY <2>1 DEF Holds
  <2>4. /\ t'.stack = u.stack /\ t'.pull = u.pull /\ t'.write = u.write
        /\ t'.flush = u.flush /\ t'.finish = o /\ t'.canceling = u.canceling
        /\ t'.crash = u.crash /\ t'.algorithms = u.algorithms
    BY <2>2, <2>3 DEF TransformShape
  <2>5. Distinct' /\ Running' = {} /\ Failures' /\ Len(t'.stack) = 0
    <3>1. t'.stack = <<>> /\ t'.crash = "none"
      BY <1>2, <1>3, <2>1, <2>4
    <3> QED
      BY <3>1, EmptyIs, NoFailure DEF Distinct, Running
  <2>6. Goes(w, w') /\ w'.state # "writable"
    BY <1>2, <1>10, ErrorGoes
  <2>7. Reaches(w) /\ CallsIn(w.stack) = InSink
    BY <1>2, <2>6, SinkMoves DEF InSink
  <2>8. Flushed'
    BY <1>3, <1>6, <2>3, <2>4, <2>7, SinkFlushed
  <2>9. /\ t'.write = "none" <=> "write" \notin w.sink
        /\ t'.pull = "none" <=> t.pull = "none"
        /\ t'.flush = "none" <=> t.flush = "none"
        /\ t'.canceling = "none"
        /\ ~t'.algorithms => ~t.algorithms
    BY <1>3, <1>4, <1>6, <2>1, <2>3, <2>4 DEF Promised
  <2>10. Len(t'.stack) \in Nat /\ Len(t'.stack) < MaxDepth
    BY <1>2, <2>5
  <2> QED
    BY <1>2, <1>6, <1>7, <1>8, <2>4, <2>5, <2>6, <2>7, <2>8, <2>9, <2>10, SinkStep
<1> QED
  BY <1>1, <1>9, <1>10

\* start(), write() and abort() of the sink are over.
LEMMA SinkDoneKnown ==
    ASSUME Known, SinkKnown', NEW c \in {"start", "write", "abort"}, Microtask, r' = r,
           Goes(W!Done(c), w'), t'.write = IF c = "write" THEN "none" ELSE t.write,
           t'.stack = t.stack, t'.pull = t.pull, t'.backpressure = t.backpressure,
           t'.flush = t.flush, t'.finish = t.finish, t'.canceling = t.canceling,
           t'.algorithms = t.algorithms, t'.crash = t.crash
    PROVE  NInv'
<1>1. /\ t.crash = "none" /\ ~AlgorithmRuns /\ t.stack = <<>> /\ Running = {} /\ InSink = {}
      /\ ~CancelCall /\ SinkOnly(w.stack) /\ SinkShape(w)
      /\ Len(t.stack) = 0 /\ Len(t.stack) < MaxDepth /\ Lasts(r, r)
  BY MicrotaskRests
<1>2. NInv /\ Promised /\ Flushed
  BY DEF Known, NInv
<1> DEFINE d == W!Done(c)
<1>3. d.sink = w.sink \ {c} /\ d.state = w.state /\ d.stack = w.stack
  BY <1>1, DoneIs
<1> HIDE DEF d
<1>4. SinkOnly(d.stack) /\ CallsIn(d.stack) = InSink /\ Reaches(d)
  <2>1. SinkOnly(d.stack) /\ CallsIn(d.stack) = InSink
    BY <1>1, <1>3 DEF InSink
  <2> QED
    BY <2>1, SinkMoves DEF d
<1>5. Distinct' /\ Running' = {} /\ Failures'
  BY <1>1, EmptyIs, NoFailure DEF Distinct, Running
<1>6. Flushed'
  <2>1. "close" \in w.sink => "close" \in d.sink
    BY <1>3
  <2> QED
    BY <1>2, <1>3, <1>4, <2>1, SinkFlushed
<1>7. /\ t'.write = "none" <=> "write" \notin d.sink
      /\ R!can_close_or_enqueue(r') /\ ~t'.backpressure => t'.pull = "waiting"
  BY <1>2, <1>3 DEF Promised
<1> QED
  BY <1>1, <1>2, <1>3, <1>4, <1>5, <1>6, <1>7, SinkStep

\* Reactions of the writable side.
LEMMA SinkReactsKnown ==
    ASSUME Known, SinkKnown',
           \/ \E o \in {"fulfilled", "rejected"} : WritableStarts(o)
           \/ WriteSettled \/ AbortSettled
    PROVE  NInv'
<1>1. /\ SinkShape(w) /\ t \in TransformShape
      /\ "write" \in w.sink \/ "start" \in w.sink => w.state \in {"writable", "erroring"}
  BY DEF Known, IInv, Shapes, SinkKnown
<1>2. ASSUME NEW o \in {"fulfilled", "rejected"}, WritableStarts(o) PROVE NInv'
  <2>1. /\ Microtask /\ r' = r /\ t' = [t EXCEPT !.start = o]
        /\ W!StartFulfilled \/ W!StartRejected
    BY <1>2 DEF WritableStarts
  <2>2. "start" \in w.sink
    BY <2>1 DEF W!StartFulfilled, W!StartRejected, W!Settled
  <2>3. Goes(W!Done("start"), w')
    BY <1>1, <2>1, <2>2, StartedGoes
  <2>4. /\ t'.write = t.write /\ t'.stack = t.stack /\ t'.pull = t.pull
        /\ t'.backpressure = t.backpressure /\ t'.flush = t.flush /\ t'.finish = t.finish
        /\ t'.canceling = t.canceling /\ t'.algorithms = t.algorithms /\ t'.crash = t.crash
    BY <1>1, <2>1 DEF TransformShape
  <2> QED
    BY <2>1, <2>3, <2>4, SinkDoneKnown
<1>3. CASE WriteSettled
  <2>1. /\ Microtask /\ r' = r /\ t' = [t EXCEPT !.write = "none"]
        /\ W!WriteFulfilled \/ W!WriteRejected
    BY <1>3 DEF WriteSettled
  <2>2. "write" \in w.sink
    BY <2>1 DEF W!WriteFulfilled, W!WriteRejected, W!Settled
  <2>3. Goes(W!Done("write"), w')
    BY <1>1, <2>1, <2>2, WrittenGoes
  <2>4. /\ t'.write = "none" /\ t'.stack = t.stack /\ t'.pull = t.pull
        /\ t'.backpressure = t.backpressure /\ t'.flush = t.flush /\ t'.finish = t.finish
        /\ t'.canceling = t.canceling /\ t'.algorithms = t.algorithms /\ t'.crash = t.crash
    BY <1>1, <2>1 DEF TransformShape
  <2> QED
    BY <2>1, <2>3, <2>4, SinkDoneKnown
<1>4. CASE AbortSettled
  <2>1. Microtask /\ r' = r /\ t' = t /\ W!AbortSettled(t.finish)
    BY <1>4 DEF AbortSettled
  <2>2. /\ SinkShape(w') /\ w'.sink = w.sink \ {"abort"} /\ w'.state = w.state
        /\ w'.stack = w.stack
    BY <1>1, <2>1, AbortedGoes
  <2>3. /\ W!Done("abort").sink = w.sink \ {"abort"} /\ W!Done("abort").state = w.state
        /\ W!Done("abort").stack = w.stack
    BY <1>1, DoneIs
  <2>4. Goes(W!Done("abort"), w')
    BY <2>2, <2>3 DEF Goes
  <2> QED
    BY <2>1, <2>4, SinkDoneKnown
<1> QED
  BY <1>2, <1>3, <1>4

\* close() of the sink is over.
LEMMA CloseSettledKnown ==
    ASSUME Known, SinkKnown', CloseSettled
    PROVE  NInv'
<1>1. Microtask /\ r' = r /\ t' = t /\ (W!CloseFulfilled \/ W!CloseRejected)
  BY DEF CloseSettled
<1>2. /\ t.crash = "none" /\ ~AlgorithmRuns /\ t.stack = <<>> /\ Running = {} /\ InSink = {}
      /\ ~CancelCall /\ SinkOnly(w.stack) /\ SinkShape(w)
      /\ Len(t.stack) = 0 /\ Len(t.stack) < MaxDepth /\ Lasts(r, r)
  BY <1>1, MicrotaskRests
<1>3. NInv /\ Promised /\ SinkKnown
  BY DEF Known, NInv
<1>4. "close" \in w.sink
  BY <1>1 DEF W!CloseFulfilled, W!CloseRejected, W!Settled
<1>5. /\ w.state \in {"writable", "erroring"} /\ w.started /\ w.in_flight_write_request = 0
      /\ "write" \notin w.sink /\ "abort" \notin w.sink
  BY <1>3, <1>4 DEF SinkKnown
<1>6. /\ SinkShape(w') /\ w'.sink = w.sink \ {"close"} /\ w'.state \in {"closed", "errored"}
      /\ w'.stack = w.stack
  BY <1>1, <1>2, <1>5, ClosedGoes
<1> DEFINE d == W!Done("close")
<1>7. d.sink = w.sink \ {"close"} /\ d.state = w.state /\ d.stack = w.stack
  BY <1>2, DoneIs
<1> HIDE DEF d
<1>8. Goes(d, w')
  BY <1>5, <1>6, <1>7 DEF Goes, Open
<1>9. SinkOnly(d.stack) /\ CallsIn(d.stack) = InSink
  BY <1>2, <1>7 DEF InSink
<1>10. Reaches(d)
  BY <1>8, <1>9, SinkMoves
<1>11. Distinct' /\ Running' = Running /\ Failures'
  BY <1>1, <1>2, <1>3, TransformRests
<1>12. Flushed'
  <2>1. InSink' = {}
    BY <1>2, <1>6 DEF InSink
  <2> QED
    BY <1>5, <1>6, <2>1 DEF Flushed
<1>13. /\ t'.write = "none" <=> "write" \notin d.sink
       /\ R!can_close_or_enqueue(r') /\ ~t'.backpressure => t'.pull = "waiting"
  BY <1>1, <1>3, <1>5, <1>7 DEF Promised
<1>14. Lasts(r, r') /\ r'.stack = r.stack /\ r'.source = r.source /\ Len(t'.stack) \in Nat
  BY <1>1, <1>2
<1> QED
  BY <1>1, <1>2, <1>3, <1>7, <1>9, <1>10, <1>11, <1>12, <1>13, <1>14, SinkStep

----------------------------------------------------------------------------
(* Steps of the readable side. *)

\* The writable side is left alone.
LEMMA SourceMoves ==
    ASSUME NInv, SinkKnown, w' = w, SourceFlat', Distinct',
           \A c \in SinkCalls \cup {"size", "signal"} : c \in Running' <=> c \in Running,
           "cancel" \in Running' => SourceTop' = "cancel",
           Len(t'.stack) <= MaxDepth, SinkCall => Len(t'.stack) < MaxDepth,
           CancelCall' => ~SinkCall /\ Len(t'.stack) < MaxDepth,
           t'.flush = "none" <=> t.flush = "none"
    PROVE  Flat' /\ Served' /\ Flushed' /\ (SinkCall' <=> SinkCall) /\ SinkTop' = SinkTop
<1>1. SinkTop' = SinkTop /\ InSink' = InSink /\ (SinkFlat' <=> SinkFlat)
  BY DEF SinkTop, InSink, SinkFlat
<1>2. SinkTop \in SinkCalls \cup {"size", "signal", "none"} /\ InSink \subseteq SinkCalls
  BY DEF SinkKnown
<1>3. SinkCall' <=> SinkCall
  BY <1>1, <1>2 DEF SinkCall
<1>4. Flat'
  BY <1>1 DEF NInv, Flat
<1>5. Served'
  BY <1>1, <1>2, <1>3 DEF NInv, Served
<1>6. Flushed'
  BY <1>1 DEF NInv, Flushed
<1> QED
  BY <1>1, <1>3, <1>4, <1>5, <1>6

\* The readable side goes on, and does not call cancel().
LEMMA SourceOn ==
    ASSUME Known, w' = w, Lasts(r, r'), SourceFlat', ~CancelCall,
           SourceTop' = "cancel" => SourceTop = "cancel",
           "cancel" \in Running => SourceTop' = "cancel",
           "cancel" \in r'.source => "cancel" \in r.source,
           Distinct', Len(t'.stack) <= MaxDepth, SinkCall => Len(t'.stack) < MaxDepth,
           \A c \in SinkCalls \cup {"size", "signal", "cancel", "transform"} : c \in Running' <=> c \in Running,
           t'.pull = "none" <=> "pull" \notin r'.source,
           R!can_close_or_enqueue(r') /\ ~t'.backpressure => t'.pull = "waiting",
           t'.write = "none" <=> t.write = "none",
           t'.flush = t.flush, t'.finish = t.finish, t'.canceling = t.canceling,
           t'.algorithms = t.algorithms, t'.crash = "none"
    PROVE  NInv'
<1>1. NInv /\ SinkKnown /\ Promised /\ Canceling /\ Cleared
  BY DEF Known, NInv
<1>2. ~CancelCall'
  BY DEF CancelCall
<1>3. Flat' /\ Served' /\ Flushed' /\ (SinkCall' <=> SinkCall) /\ SinkTop' = SinkTop
  BY <1>1, <1>2, SourceMoves
<1>4. /\ r'.canceled = r.canceled /\ (r.close_requested => r'.close_requested)
      /\ r.state # "readable" => r'.state # "readable"
  BY DEF Lasts
<1>5. Promised'
  BY <1>1, <1>3 DEF Promised
<1>6. Canceling'
  <2>1. {"abort", "cancel"} \cap Running' # {} => {"abort", "cancel"} \cap Running # {}
    BY DEF SinkCalls
  <2> QED
    BY <1>1, <1>4, <2>1 DEF Canceling
<1>7. Cleared'
  BY <1>1, <1>2, <1>4 DEF Cleared, R!can_close_or_enqueue
<1>8. Failures'
  BY NoFailure
<1> QED
  BY <1>3, <1>5, <1>6, <1>7, <1>8 DEF NInv

\* pull() is called only when nothing else is on the stack.
LEMMA PullMoves ==
    ASSUME NEW s, Pulls(s, r'), IsSeq(s.stack), Len(s.stack) <= 1,
           R!should_call_pull(r') => s.stack = <<>>
    PROVE  /\ SourceFlat'
           /\ SourceTop' = TopOf(s.stack) \/ (SourceTop' = "pull" /\ s.stack = <<>>)
<1>1. CASE r'.stack = s.stack
  BY <1>1 DEF SourceFlat, SourceTop
<1>2. CASE R!should_call_pull(r') /\ \E f : r'.stack = Append(s.stack, f) /\ f.callback = "pull"
  <2>1. PICK f : r'.stack = Append(s.stack, f) /\ f.callback = "pull"
    BY <1>2
  <2>2. s.stack = <<>> /\ Len(s.stack) = 0
    BY <1>2, EmptyIs
  <2>3. SourceTop' = f.callback /\ SourceFlat'
    BY <2>1, <2>2, SourcePushes
  <2> QED
    BY <2>1, <2>2, <2>3
<1> QED
  BY <1>1, <1>2 DEF Pulls

\* A stream that is readable has nothing on its stack while script runs.
LEMMA ReadableEmpty ==
    ASSUME Known, t.crash = "none", ~AlgorithmRuns, r.state = "readable"
    PROVE  r.stack = <<>> /\ SourceTop = "none" /\ "cancel" \notin Running
<1>1. SourceTop \in {"none", "cancel"} /\ SourceKnown /\ Served
  BY Resting DEF Known, NInv
<1> QED
  BY <1>1 DEF SourceKnown, Served

\* The readable side goes on while script runs or when none does, and may call
\* pull().
LEMMA ReadableOn ==
    ASSUME Known, t.crash = "none", ~AlgorithmRuns, w' = w, Lasts(r, r'),
           r'.stack = r.stack \/
              (R!should_call_pull(r') /\ \E f : r'.stack = Append(r.stack, f) /\ f.callback = "pull")
    PROVE  /\ SourceFlat' /\ ~CancelCall /\ ~SinkCall
           /\ SourceTop' = "cancel" => SourceTop = "cancel"
           /\ "cancel" \in Running => SourceTop' = "cancel"
<1>1. ~CancelCall /\ ~SinkCall /\ SourceTop \in {"none", "cancel"}
  BY Resting
<1>2. SourceFlat /\ Served
  BY DEF Known, NInv, Flat
<1>3. CASE r'.stack = r.stack
  <2>1. SourceTop' = SourceTop /\ SourceFlat'
    BY <1>2, <1>3, SourceStays
  <2> QED
    BY <1>1, <1>2, <2>1 DEF Served
<1>4. CASE R!should_call_pull(r') /\ \E f : r'.stack = Append(r.stack, f) /\ f.callback = "pull"
  <2>1. r'.state = "readable"
    BY <1>4 DEF R!should_call_pull, R!can_close_or_enqueue
  <2>2. r.state = "readable"
    BY <2>1 DEF Lasts
  <2>3. r.stack = <<>> /\ SourceTop = "none" /\ "cancel" \notin Running
    BY <2>2, ReadableEmpty
  <2>4. PICK f : r'.stack = Append(r.stack, f) /\ f.callback = "pull"
    BY <1>4
  <2>5. SourceTop' = "pull" /\ SourceFlat'
    BY <2>3, <2>4, SourcePushes, EmptyIs
  <2> QED
    BY <1>1, <2>3, <2>5
<1> QED
  BY <1>3, <1>4

\* A read.
LEMMA ReadKnown ==
    ASSUME Known, read
    PROVE  NInv'
<1>1. t.crash = "none" /\ ~AlgorithmRuns /\ w' = w /\ t' = t /\ R!read
  BY DEF read, ScriptRuns
<1>2. ReadableShape(r) /\ EndShape(r) /\ NInv /\ Promised /\ Served
  BY <1>1, Resting DEF Known, NInv
<1>3. Lasts(r, r')
  BY <1>1, <1>2, StepLasts
<1>4. Pulls(r, r') /\ r'.source = r.source
  BY <1>1, <1>2, ReadStep
<1>5. /\ SourceFlat' /\ ~CancelCall /\ ~SinkCall
      /\ SourceTop' = "cancel" => SourceTop = "cancel"
      /\ "cancel" \in Running => SourceTop' = "cancel"
  BY <1>1, <1>3, <1>4, ReadableOn DEF Pulls
<1>6. Distinct' /\ Running' = Running
  BY <1>1, <1>2, TransformRests
<1>7. /\ t'.pull = "none" <=> "pull" \notin r'.source
      /\ R!can_close_or_enqueue(r') /\ ~t'.backpressure => t'.pull = "waiting"
      /\ Len(t'.stack) <= MaxDepth
  BY <1>1, <1>2, <1>3, <1>4 DEF Promised, Served, Lasts, R!can_close_or_enqueue
<1> QED
  BY <1>1, <1>3, <1>4, <1>5, <1>6, <1>7, SourceOn

\* start() of the readable side is over.
LEMMA ReadableStartsKnown ==
    ASSUME Known, ReadableStarts
    PROVE  NInv'
<1>1. /\ t.crash = "none" /\ ~AlgorithmRuns /\ w' = w /\ t' = t
      /\ R!StartFulfilled \/ R!SourceRejects("start")
  BY DEF ReadableStarts, Microtask
<1>2. ReadableShape(r) /\ EndShape(r) /\ NInv /\ Promised /\ Served
  BY <1>1, Resting DEF Known, NInv
<1>3. Lasts(r, r')
  BY <1>1, <1>2, StepLasts
<1>4. /\ r'.source = r.source \ {"start"}
      /\ r'.stack = r.stack \/
            (R!should_call_pull(r') /\ \E f : r'.stack = Append(r.stack, f) /\ f.callback = "pull")
  <2>1. r'.source = r.source \ {"start"}
    BY <1>1, <1>2, StartDone
  <2>2. CASE R!StartFulfilled
    BY <1>2, <2>1, <2>2, StartStep DEF Pulls
  <2>3. CASE R!SourceRejects("start")
    BY <1>2, <2>1, <2>3, StartRejectedStep
  <2> QED
    BY <1>1, <2>2, <2>3
<1>5. /\ SourceFlat' /\ ~CancelCall /\ ~SinkCall
      /\ SourceTop' = "cancel" => SourceTop = "cancel"
      /\ "cancel" \in Running => SourceTop' = "cancel"
  BY <1>1, <1>3, <1>4, ReadableOn
<1>6. Distinct' /\ Running' = Running
  BY <1>1, <1>2, TransformRests
<1>7. /\ t'.pull = "none" <=> "pull" \notin r'.source
      /\ R!can_close_or_enqueue(r') /\ ~t'.backpressure => t'.pull = "waiting"
      /\ Len(t'.stack) <= MaxDepth
  BY <1>1, <1>2, <1>3, <1>4 DEF Promised, Served, Lasts, R!can_close_or_enqueue
<1>8. "cancel" \in r'.source => "cancel" \in r.source
  BY <1>4
<1> QED
  BY <1>1, <1>3, <1>5, <1>6, <1>7, <1>8, SourceOn

\* pull() of the readable side is over: the demand was met or backpressure is
\* back.
LEMMA PullFulfilledKnown ==
    ASSUME Known, PullFulfilled
    PROVE  NInv'
<1>1. /\ t.crash = "none" /\ ~AlgorithmRuns /\ w' = w /\ t.pull = "released"
      /\ t' = [t EXCEPT !.pull = "none"] /\ R!PullFulfilled
  BY DEF PullFulfilled, Microtask
<1>2. ReadableShape(r) /\ EndShape(r) /\ t \in TransformShape /\ NInv /\ Promised /\ Served
  BY <1>1, Resting DEF Known, NInv
<1>3. Lasts(r, r')
  BY <1>1, <1>2, StepLasts
<1>4. /\ r'.source = r.source \ {"pull"} /\ r.stack = <<>>
      /\ r'.stack = r.stack \/
            (R!should_call_pull(r') /\ \E f : r'.stack = Append(r.stack, f) /\ f.callback = "pull")
      /\ R!can_close_or_enqueue(r') <=> R!can_close_or_enqueue(r)
  BY <1>1, <1>2, PullDone, PulledStep
<1>5. /\ SourceFlat' /\ ~CancelCall /\ ~SinkCall
      /\ SourceTop' = "cancel" => SourceTop = "cancel"
      /\ "cancel" \in Running => SourceTop' = "cancel"
  BY <1>1, <1>3, <1>4, ReadableOn
<1>6. /\ t'.write = t.write /\ t'.stack = t.stack /\ t'.pull = "none"
      /\ t'.backpressure = t.backpressure /\ t'.flush = t.flush /\ t'.finish = t.finish
      /\ t'.canceling = t.canceling /\ t'.algorithms = t.algorithms /\ t'.crash = t.crash
  BY <1>1, <1>2 DEF TransformShape
<1>7. Distinct' /\ Running' = Running
  BY <1>2, <1>6 DEF NInv, Flat, Distinct, Running
<1>8. /\ t'.pull = "none" <=> "pull" \notin r'.source
      /\ R!can_close_or_enqueue(r') /\ ~t'.backpressure => t'.pull = "waiting"
      /\ Len(t'.stack) <= MaxDepth
      /\ "cancel" \in r'.source => "cancel" \in r.source
  BY <1>1, <1>2, <1>4, <1>6 DEF Promised, Served
<1> QED
  BY <1>1, <1>3, <1>5, <1>6, <1>7, <1>8, SourceOn

\* The page enqueues a chunk.
LEMMA EnqueueKnown ==
    ASSUME Known, enqueue
    PROVE  NInv'
<1>1. /\ t.crash = "none" /\ ~AlgorithmRuns /\ Len(t.stack) < MaxDepth
      /\ "enqueue" \notin Running /\ w' = w /\ R!enqueue
      /\ t' = [t EXCEPT !.stack = Append(@, "enqueue")]
  BY DEF enqueue, ScriptRuns, Running
<1>2. /\ ReadableShape(r) /\ EndShape(r) /\ t \in TransformShape /\ NInv /\ Promised /\ Served
      /\ IsSeq(t.stack)
  BY <1>1, Resting DEF Known, NInv
<1>3. Lasts(r, r')
  BY <1>1, <1>2, StepLasts
<1>4. r.state = "readable" /\ ~r.close_requested
  BY <1>1 DEF R!enqueue, R!can_close_or_enqueue
<1>5. r.stack = <<>> /\ SourceTop = "none" /\ "cancel" \notin Running
  BY <1>1, <1>4, ReadableEmpty
<1>6. ~CancelCall /\ ~SinkCall
  BY <1>1, Resting
<1>7. /\ r'.source = r.source
      /\ \/ r'.stack = r.stack
         \/ \E f : r'.stack = Append(r.stack, f) /\ f.callback \in {"pull", "size"}
  BY <1>1, <1>2, EnqueueStep DEF Pulls
<1>8. SourceFlat' /\ SourceTop' # "cancel"
  <2>1. CASE r'.stack = r.stack
    <3>1. SourceTop' = SourceTop /\ SourceFlat'
      BY <1>2, <2>1, SourceStays DEF NInv, Flat
    <3> QED
      BY <1>5, <3>1
  <2>2. CASE \E f : r'.stack = Append(r.stack, f) /\ f.callback \in {"pull", "size"}
    <3>1. PICK f : r'.stack = Append(r.stack, f) /\ f.callback \in {"pull", "size"}
      BY <2>2
    <3>2. SourceTop' = f.callback /\ SourceFlat'
      BY <1>5, <3>1, SourcePushes, EmptyIs
    <3> QED
      BY <3>1, <3>2
  <2> QED
    BY <1>7, <2>1, <2>2
<1>9. /\ t'.write = t.write /\ t'.stack = Append(t.stack, "enqueue") /\ t'.pull = t.pull
      /\ t'.backpressure = t.backpressure /\ t'.flush = t.flush /\ t'.finish = t.finish
      /\ t'.canceling = t.canceling /\ t'.algorithms = t.algorithms /\ t'.crash = t.crash
  BY <1>1, <1>2 DEF TransformShape
<1>10. /\ Running' = Running \cup {"enqueue"} /\ Distinct'
       /\ Len(t'.stack) = Len(t.stack) + 1 /\ Len(t.stack) \in Nat
  BY <1>1, <1>2, <1>9, RunPushes DEF NInv, Flat
<1>11. Len(t'.stack) <= MaxDepth
  BY <1>1, <1>10, TransformBounds
<1>12. /\ t'.pull = "none" <=> "pull" \notin r'.source
       /\ R!can_close_or_enqueue(r') /\ ~t'.backpressure => t'.pull = "waiting"
  BY <1>2, <1>4, <1>7, <1>9 DEF Promised, R!can_close_or_enqueue
<1>13. \A c \in SinkCalls \cup {"size", "signal", "cancel", "transform"} : c \in Running' <=> c \in Running
  BY <1>10 DEF SinkCalls
<1> QED
  BY <1>1, <1>3, <1>5, <1>6, <1>7, <1>8, <1>9, <1>10, <1>11, <1>12, <1>13, SourceOn

\* The readable side has called an algorithm.
LEMMA SourceAsks ==
    ASSUME Known, NEW c \in {"size", "pull", "cancel"}, SourceCalled(c)
    PROVE  /\ t.crash = "none" /\ r.stack # <<>> /\ SourceTop = c /\ c \notin Running
           /\ ReadableShape(r) /\ EndShape(r) /\ IsSeq(r.stack) /\ Front(r.stack) = <<>>
           /\ t \in TransformShape /\ IsSeq(t.stack) /\ Len(t.stack) \in Nat
           /\ SourceFlat /\ "cancel" \notin Running
           /\ r'.stack = <<>> => SourceTop' = "none" /\ SourceFlat'
<1>1. /\ ReadableShape(r) /\ EndShape(r) /\ t \in TransformShape /\ SourceFlat /\ Served
  BY DEF Known, IInv, Shapes, SourceKnown, NInv, Flat
<1>2. t.crash = "none" /\ r.stack # <<>> /\ SourceTop = c /\ c \notin Running
  BY DEF SourceCalled, SourceTop, TopOf, Running
<1>3. IsSeq(r.stack)
  BY <1>1 DEF ReadableShape, ReadableFrames
<1>4. Front(r.stack) = <<>>
  BY <1>1, <1>2, <1>3, SourcePops
<1>5. IsSeq(t.stack) /\ Len(t.stack) \in Nat
  BY <1>1, StackIs
<1>6. "cancel" \notin Running
  BY <1>1, <1>2 DEF Served
<1>7. r'.stack = <<>> => SourceTop' = "none" /\ SourceFlat'
  BY EmptyIs DEF SourceTop, TopOf, SourceFlat
<1> QED
  BY <1>1, <1>2, <1>3, <1>4, <1>5, <1>6, <1>7

\* size() returns to the readable side, or fails.
LEMMA SourcePlainKnown ==
    ASSUME Known, SourceCalled("size"), R!SizeReturns \/ R!SizeFails, w' = w, t' = t
    PROVE  NInv'
<1>1. /\ t.crash = "none" /\ r.stack # <<>> /\ SourceTop = "size"
      /\ ReadableShape(r) /\ EndShape(r) /\ Front(r.stack) = <<>>
      /\ "cancel" \notin Running /\ (r'.stack = <<>> => SourceTop' = "none" /\ SourceFlat')
  BY SourceAsks
<1>2. NInv /\ Promised /\ Served
  BY DEF Known, NInv
<1>3. Lasts(r, r')
  BY <1>1, StepLasts
<1>4. R!Popped.stack = <<>> /\ R!Popped.source = r.source
  BY <1>1, PoppedIs
<1>5. /\ r'.source = r.source
      /\ r'.stack = <<>> \/ \E f : r'.stack = Append(<<>>, f) /\ f.callback = "pull"
  <2>1. CASE R!SizeReturns
    BY <1>1, <1>4, <2>1, SizeStep DEF Pulls
  <2>2. CASE R!SizeFails
    BY <1>1, <1>4, <2>2, SizeFailsStep DEF Ends
  <2> QED
    BY <2>1, <2>2
<1>6. SourceFlat' /\ SourceTop' # "cancel"
  <2>1. CASE r'.stack = <<>>
    BY <1>1, <2>1
  <2>2. CASE \E f : r'.stack = Append(<<>>, f) /\ f.callback = "pull"
    <3>1. PICK f : r'.stack = Append(<<>>, f) /\ f.callback = "pull"
      BY <2>2
    <3>2. IsSeq(<<>>) /\ Len(<<>>) = 0
      BY EmptyIs
    <3>3. SourceTop' = f.callback /\ SourceFlat'
      BY <3>1, <3>2, SourcePushes
    <3> QED
      BY <3>1, <3>3
  <2> QED
    BY <1>5, <2>1, <2>2
<1>7. ~CancelCall
  BY <1>1 DEF CancelCall
<1>8. Distinct' /\ Running' = Running
  BY <1>1, <1>2, TransformRests
<1>9. /\ t'.pull = "none" <=> "pull" \notin r'.source
      /\ R!can_close_or_enqueue(r') /\ ~t'.backpressure => t'.pull = "waiting"
      /\ Len(t'.stack) <= MaxDepth
      /\ SinkCall => Len(t'.stack) < MaxDepth
  BY <1>2, <1>3, <1>5 DEF Promised, Served, Lasts, R!can_close_or_enqueue
<1> QED
  BY <1>1, <1>3, <1>5, <1>6, <1>7, <1>8, <1>9, SourceOn

\* pull() of the source ends the backpressure, which it finds.
LEMMA SourcePullKnown ==
    ASSUME Known, source_pull
    PROVE  NInv'
<1> DEFINE v == Verify(t, t.backpressure)
           u == transform_stream_set_backpressure(v, FALSE)
<1>1. /\ SourceCalled("pull") /\ R!PullReturns /\ w' = w /\ t' = [u EXCEPT !.pull = "waiting"]
  BY DEF source_pull
<1>2. /\ t.crash = "none" /\ r.stack # <<>> /\ SourceTop = "pull"
      /\ ReadableShape(r) /\ EndShape(r) /\ Front(r.stack) = <<>> /\ t \in TransformShape
      /\ "cancel" \notin Running /\ (r'.stack = <<>> => SourceTop' = "none" /\ SourceFlat')
  BY <1>1, SourceAsks
<1>3. NInv /\ Promised /\ Served /\ SourceKnown /\ IInv
  BY DEF Known, NInv
<1>4. Lasts(r, r')
  BY <1>1, <1>2, StepLasts
<1>5. r'.stack = <<>> /\ r'.source = r.source \cup {"pull"}
  BY <1>1, <1>2, SourceStep
<1>6. t.backpressure
  <2>1. R!Top("pull")
    BY <1>1, <1>2, TopIs DEF SourceCalled
  <2>2. R!can_close_or_enqueue(r)
    BY <1>3, <2>1 DEF IInv, Pulled, R!should_call_pull
  <2>3. "pull" \notin r.source
    BY <1>2, <1>3 DEF SourceKnown
  <2> QED
    BY <1>3, <2>2, <2>3 DEF Promised
<1>7. /\ v \in TransformShape /\ v.stack = t.stack /\ v.algorithms = t.algorithms
      /\ v.flush = t.flush /\ v.finish = t.finish /\ v.canceling = t.canceling
      /\ v.write = t.write /\ v.crash = "none" /\ v.backpressure = t.backpressure
  BY <1>2, <1>6, VerifyHolds DEF Holds
<1> HIDE DEF v
<1>8. v.backpressure # FALSE
  BY <1>6, <1>7
<1>9. /\ u \in TransformShape /\ u.stack = v.stack /\ u.algorithms = v.algorithms
      /\ u.flush = v.flush /\ u.finish = v.finish /\ u.canceling = v.canceling
      /\ u.write = IF v.write = "blocked" THEN "released" ELSE v.write
      /\ u.crash = v.crash
  BY <1>7, <1>8, SetHolds DEF Holds
<1> HIDE DEF u
<1>10. /\ t'.stack = u.stack /\ t'.algorithms = u.algorithms
       /\ t'.flush = u.flush /\ t'.finish = u.finish /\ t'.canceling = u.canceling
       /\ t'.write = u.write /\ t'.crash = u.crash /\ t'.pull = "waiting"
  BY <1>1, <1>9 DEF TransformShape
<1>11. Distinct' /\ Running' = Running /\ t'.stack = t.stack
  BY <1>3, <1>7, <1>9, <1>10 DEF NInv, Flat, Distinct, Running
<1>12. ~CancelCall /\ SourceTop' = "none" /\ SourceFlat'
  BY <1>2, <1>5 DEF CancelCall
<1>13. /\ t'.pull = "none" <=> "pull" \notin r'.source
       /\ Len(t'.stack) <= MaxDepth
       /\ SinkCall => Len(t'.stack) < MaxDepth
       /\ "cancel" \in r'.source => "cancel" \in r.source
  BY <1>3, <1>5, <1>10, <1>11 DEF Served
<1>14. t'.write = "none" <=> t.write = "none"
  BY <1>7, <1>9, <1>10
<1> QED
  BY <1>1, <1>2, <1>4, <1>7, <1>9, <1>10, <1>11, <1>12, <1>13, <1>14, SourceOn

\* The page cancels the readable side.
LEMMA CancelKnown ==
    ASSUME Known, cancel
    PROVE  NInv'
<1>1. /\ t.crash = "none" /\ ~AlgorithmRuns /\ Len(t.stack) < MaxDepth /\ w' = w /\ t' = t
      /\ R!cancel
  BY DEF cancel, ScriptRuns
<1>2. /\ ReadableShape(r) /\ EndShape(r) /\ ~SinkCall /\ Len(t.stack) \in Nat
      /\ NInv /\ SinkKnown /\ Promised /\ Canceling /\ Cleared /\ Served
  BY <1>1, Resting DEF Known, NInv
<1>3. /\ r.state = "readable" /\ r'.state # "readable" /\ r'.canceled = "pending"
      /\ r'.close_requested = r.close_requested
  BY <1>1, <1>2, CancelLasts
<1>4. r.stack = <<>> /\ SourceTop = "none" /\ "cancel" \notin Running
  BY <1>1, <1>3, ReadableEmpty
<1>5. r'.source = r.source /\ \E f : r'.stack = Append(r.stack, f) /\ f.callback = "cancel"
  BY <1>1, <1>2, CancelStep
<1>6. SourceTop' = "cancel" /\ SourceFlat'
  <2>1. PICK f : r'.stack = Append(r.stack, f) /\ f.callback = "cancel"
    BY <1>5
  <2> QED
    BY <1>4, <2>1, SourcePushes, EmptyIs
<1>7. Distinct' /\ Running' = Running /\ Failures'
  BY <1>1, <1>2, TransformRests
<1>8. Flat' /\ Served' /\ Flushed' /\ (SinkCall' <=> SinkCall) /\ SinkTop' = SinkTop
  BY <1>1, <1>2, <1>4, <1>6, <1>7, SourceMoves DEF Served
<1>9. ~R!can_close_or_enqueue(r')
  BY <1>3 DEF R!can_close_or_enqueue
<1>10. Promised'
  BY <1>1, <1>2, <1>5, <1>7, <1>8, <1>9 DEF Promised
<1>11. Canceling'
  BY <1>1, <1>2, <1>3, <1>7 DEF Canceling
<1>12. Cleared'
  <2>1. ~t.algorithms /\ t.finish = "none" => r.close_requested \/ t.flush # "none"
    BY <1>2, <1>3 DEF Cleared, R!can_close_or_enqueue
  <2> QED
    BY <1>1, <1>3, <1>9, <2>1 DEF Cleared
<1> QED
  BY <1>7, <1>8, <1>10, <1>11, <1>12 DEF NInv

\* cancel() of the readable side is over.
LEMMA CancelSettledKnown ==
    ASSUME Known, CancelSettled
    PROVE  NInv'
<1>1. /\ Microtask /\ w' = w /\ t' = t /\ t.finish # "pending" /\ R!CancelSettled(t.finish)
  BY DEF CancelSettled
<1>2. /\ t.crash = "none" /\ ~SinkCall /\ Running = {} /\ Len(t.stack) = 0
      /\ Len(t.stack) < MaxDepth /\ ReadableShape(r) /\ EndShape(r) /\ t \in TransformShape
      /\ NInv /\ IInv /\ SinkKnown /\ Promised /\ Canceling /\ Cleared /\ Served
  BY <1>1, MicrotaskRests DEF Known, NInv
<1>3. /\ r'.state = r.state /\ r'.close_requested = r.close_requested
      /\ r'.canceled = t.finish /\ r.stack = <<>> /\ "cancel" \in r.source
      /\ r'.source = r.source \ {"cancel"} /\ r'.stack = r.stack
  BY <1>1, <1>2, CanceledLasts, CanceledStep DEF ReadableShape
<1>4. SourceTop' = "none" /\ SourceFlat'
  BY <1>3, EmptyIs DEF SourceTop, TopOf, SourceFlat
<1>5. Distinct' /\ Running' = Running /\ Failures'
  BY <1>1, <1>2, TransformRests
<1>6. ~CancelCall'
  BY <1>4 DEF CancelCall
<1>7. Flat' /\ Served' /\ Flushed' /\ (SinkCall' <=> SinkCall) /\ SinkTop' = SinkTop
  BY <1>1, <1>2, <1>4, <1>5, <1>6, SourceMoves DEF Served
<1>8. t.finish \in {"fulfilled", "rejected"}
  BY <1>1, <1>2, <1>3 DEF IInv, Finishing, TransformShape, Outcomes
<1>9. w'.state # "writable" /\ t.canceling = "none"
  BY <1>1, <1>2, <1>8 DEF Canceling, TransformShape
<1>10. R!can_close_or_enqueue(r') <=> R!can_close_or_enqueue(r)
  BY <1>3 DEF R!can_close_or_enqueue
<1>11. Promised'
  BY <1>1, <1>2, <1>3, <1>5, <1>7, <1>10 DEF Promised
<1>12. Canceling'
  BY <1>1, <1>2, <1>3, <1>4, <1>5, <1>9 DEF Canceling
<1>13. Cleared'
  BY <1>1, <1>2, <1>6, <1>9, <1>10 DEF Cleared
<1> QED
  BY <1>5, <1>7, <1>11, <1>12, <1>13 DEF NInv

\* cancel() of the source: the first side that gives up calls the transformer.
LEMMA SourceCancelKnown ==
    ASSUME Known, source_cancel
    PROVE  NInv'
<1>1. SourceCalled("cancel") /\ w' = w
  BY DEF source_cancel
<1>2. /\ t.crash = "none" /\ r.stack # <<>> /\ SourceTop = "cancel" /\ "cancel" \notin Running
      /\ ReadableShape(r) /\ EndShape(r) /\ Front(r.stack) = <<>> /\ t \in TransformShape
      /\ IsSeq(t.stack) /\ (r'.stack = <<>> => SourceTop' = "none" /\ SourceFlat')
  BY <1>1, SourceAsks
<1>3. /\ NInv /\ IInv /\ SinkKnown /\ Promised /\ Canceling /\ Cleared /\ Served /\ Flushed
  BY DEF Known, NInv
<1>4. CancelCall
  BY <1>2 DEF CancelCall
<1>5. ~SinkCall /\ Len(t.stack) < MaxDepth /\ Len(t.stack) <= MaxDepth
  BY <1>3, <1>4 DEF Served
<1>6. CASE t.finish # "none"
  <2>1. R!CancelReturns /\ t' = t
    BY <1>6 DEF source_cancel
  <2>2. r'.stack = <<>> /\ r'.source = r.source \cup {"cancel"}
    BY <1>2, <2>1, SourceStep
  <2>3. SourceTop' = "none" /\ SourceFlat'
    BY <1>2, <2>2
  <2>4. /\ r'.canceled = r.canceled /\ (r.close_requested => r'.close_requested)
        /\ r.state # "readable" => r'.state # "readable"
    BY <1>2, <2>1, StepLasts DEF Lasts
  <2>5. Distinct' /\ Running' = Running /\ Failures'
    BY <1>2, <1>3, <2>1, TransformRests
  <2>6. ~CancelCall'
    BY <2>3 DEF CancelCall
  <2>7. Flat' /\ Served' /\ Flushed' /\ (SinkCall' <=> SinkCall) /\ SinkTop' = SinkTop
    BY <1>1, <1>2, <1>3, <1>5, <2>1, <2>3, <2>5, <2>6, SourceMoves
  <2>8. r.canceled = "pending" /\ r.state # "readable"
    BY <1>2, <1>3 DEF Canceling
  <2>9. Promised'
    BY <1>1, <1>3, <2>1, <2>2, <2>4, <2>5, <2>7, <2>8 DEF Promised, R!can_close_or_enqueue
  <2>10. Canceling'
    BY <1>1, <1>3, <2>1, <2>3, <2>4, <2>5, <2>8 DEF Canceling
  <2>11. Cleared'
    BY <1>1, <1>3, <1>6, <2>1, <2>4, <2>6 DEF Cleared
  <2> QED
    BY <2>5, <2>7, <2>9, <2>10, <2>11 DEF NInv
<1>7. CASE t.finish = "none"
  <2> DEFINE s == [t EXCEPT !.finish = "pending"]
  <2>1. r' = r /\ t' = CallTransformer(s, "cancel")
    BY <1>7 DEF source_cancel
  <2>2. /\ s \in TransformShape /\ s.stack = t.stack /\ s.algorithms = t.algorithms
        /\ s.flush = t.flush /\ s.finish = "pending" /\ s.canceling = t.canceling
        /\ s.write = t.write /\ s.crash = t.crash /\ s.pull = t.pull
        /\ s.backpressure = t.backpressure
    BY <1>2 DEF TransformShape, Outcomes
  <2> HIDE DEF s
  <2>3. /\ t'.algorithms = s.algorithms /\ t'.stack = Append(s.stack, "cancel")
        /\ t'.backpressure = s.backpressure /\ t'.pull = s.pull /\ t'.write = s.write
        /\ t'.flush = s.flush /\ t'.finish = s.finish /\ t'.canceling = s.canceling
        /\ s.algorithms => t'.crash = s.crash
        /\ s.crash = "none" /\ ~s.algorithms => t'.crash = "algorithm"
    BY <2>1, <2>2, CallHolds DEF Holds, TransformFrames
  <2>4. /\ Flat' /\ Served' /\ ~SinkCall' /\ ~CancelCall' /\ Running' = Running \cup {"cancel"}
        /\ Last(t'.stack) = "cancel" /\ InSink' = InSink /\ SourceTop' = SourceTop
    BY <1>1, <1>2, <1>3, <1>5, <2>1, <2>2, <2>3, CalledStep
  <2>5. Promised'
    BY <1>1, <1>3, <2>1, <2>2, <2>3, <2>4 DEF Promised
  <2>6. Canceling'
    BY <1>1, <1>3, <2>1, <2>2, <2>3, <2>4 DEF Canceling
  <2>7. Cleared'
    BY <1>1, <1>3, <2>1, <2>2, <2>3, <2>4 DEF Cleared
  <2>8. Flushed'
    BY <1>1, <1>3, <2>2, <2>3, <2>4 DEF Flushed
  <2>9. Failures'
    <3>1. CASE t.algorithms
      BY <1>2, <2>2, <2>3, <3>1, NoFailure
    <3>2. CASE ~t.algorithms
      <4>1. r'.close_requested \/ t'.flush # "none"
        BY <1>3, <1>4, <1>7, <2>1, <2>2, <2>3, <3>2 DEF Cleared
      <4>2. t'.crash = "algorithm"
        BY <1>2, <2>2, <2>3, <3>2
      <4> QED
        BY <2>4, <4>1, <4>2 DEF Failures, NullAlgorithmOnlyWhenEndsMeet
    <3> QED
      BY <3>1, <3>2
  <2> QED
    BY <2>4, <2>5, <2>6, <2>7, <2>8, <2>9 DEF NInv
<1> QED
  BY <1>6, <1>7

\* The transformer's cancel() returns to the readable side.
LEMMA SourceReturnsKnown ==
    ASSUME Known, Returns("cancel"), R!CancelReturns, w' = w,
           t' = [clear_algorithms(Pop(t)) EXCEPT !.canceling = "cancel"]
    PROVE  NInv'
<1>1. t.crash = "none" /\ ~AlgorithmRuns /\ t.stack # <<>> /\ Last(t.stack) = "cancel"
  BY DEF Returns
<1>2. /\ ~SinkCall /\ ~CancelCall /\ EndShape(r) /\ ReadableShape(r) /\ t \in TransformShape
      /\ IsSeq(t.stack) /\ Len(t.stack) \in Nat
  BY <1>1, Resting
<1>3. /\ NInv /\ IInv /\ SinkKnown /\ Promised /\ Canceling /\ Cleared /\ Served /\ Flushed /\ Flat
  BY DEF Known, NInv
<1> DEFINE p == Pop(t)
           u == clear_algorithms(p)
<1>4. /\ p \in TransformShape /\ p.stack = Front(t.stack)
      /\ p.backpressure = t.backpressure /\ p.pull = t.pull /\ p.write = t.write
      /\ p.crash = t.crash /\ p.flush = t.flush /\ p.finish = t.finish
  BY <1>1, <1>2, PopHolds DEF Holds
<1> HIDE DEF p
<1>5. /\ u \in TransformShape /\ u.stack = p.stack
      /\ u.backpressure = p.backpressure /\ u.pull = p.pull /\ u.write = p.write
      /\ u.crash = p.crash /\ u.flush = p.flush /\ u.finish = p.finish
  BY <1>4, ClearHolds DEF Holds
<1>6. t' = [u EXCEPT !.canceling = "cancel"]
  BY DEF p
<1> HIDE DEF u
<1>7. /\ t'.stack = u.stack /\ t'.backpressure = u.backpressure /\ t'.pull = u.pull
      /\ t'.write = u.write /\ t'.crash = u.crash /\ t'.flush = u.flush /\ t'.finish = u.finish
      /\ t'.canceling = "cancel"
  BY <1>5, <1>6 DEF TransformShape
<1>8. /\ Running' = Running \ {"cancel"} /\ Distinct' /\ "cancel" \in Running
      /\ Len(t'.stack) = Len(t.stack) - 1
  BY <1>1, <1>2, <1>3, <1>4, <1>5, <1>7, RunPops DEF Flat
<1>9. SourceTop = "cancel" /\ t.finish = "pending"
  BY <1>3, <1>8 DEF Served, Canceling
<1>10. r.canceled = "pending" /\ r.state # "readable"
  BY <1>3, <1>9 DEF Canceling
<1>11. /\ r'.canceled = r.canceled /\ (r.close_requested => r'.close_requested)
       /\ r.state # "readable" => r'.state # "readable"
  BY <1>2, StepLasts DEF Lasts
<1>12. SourceTop' = "none" /\ SourceFlat' /\ r'.source = r.source \cup {"cancel"}
  <2>1. r'.stack = Front(r.stack) /\ r'.source = r.source \cup {"cancel"} /\ r.stack # <<>>
    BY <1>2, SourceStep
  <2>2. IsSeq(r.stack) /\ SourceFlat
    BY <1>2, <1>3 DEF ReadableShape, ReadableFrames, Flat
  <2> QED
    BY <2>1, <2>2, SourcePops
<1>13. ~CancelCall' /\ Len(t'.stack) <= MaxDepth
  BY <1>2, <1>3, <1>8, <1>12, TransformBounds DEF CancelCall, Served
<1>14. Flat' /\ Served' /\ Flushed' /\ (SinkCall' <=> SinkCall) /\ SinkTop' = SinkTop
  BY <1>2, <1>3, <1>4, <1>5, <1>7, <1>8, <1>12, <1>13, SourceMoves DEF SinkCalls
<1>15. Promised'
  <2>1. ~R!can_close_or_enqueue(r')
    BY <1>10, <1>11 DEF R!can_close_or_enqueue
  <2> QED
    BY <1>2, <1>3, <1>4, <1>5, <1>7, <1>8, <1>12, <1>14, <2>1 DEF Promised
<1>16. Canceling'
  BY <1>4, <1>5, <1>7, <1>9, <1>10, <1>11 DEF Canceling
<1>17. Cleared'
  BY <1>4, <1>5, <1>7, <1>9, <1>10, <1>11, <1>13 DEF Cleared
<1>18. Failures'
  BY <1>1, <1>4, <1>5, <1>7, NoFailure
<1> QED
  BY <1>14, <1>15, <1>16, <1>17, <1>18 DEF NInv

\* While the sink has a call under way nothing was flushed.
LEMMA NotFlushed ==
    ASSUME SinkKnown, Flushed, NEW c \in InSink
    PROVE  t.flush = "none" /\ w.sink = {} /\ c \in SinkCalls
<1>1. w.sink = {} /\ c \in {"write", "close", "abort"}
  BY DEF SinkKnown, SinkCalls
<1>2. c \in {"write", "close"} => w.state \in {"writable", "erroring"}
  BY DEF SinkKnown
<1> QED
  BY <1>1, <1>2 DEF Flushed, SinkCalls

\* The writable side has called an algorithm.
LEMMA SinkAsks ==
    ASSUME Known, NEW c \in SinkCalls, SinkCalled(c)
    PROVE  /\ t.crash = "none" /\ SinkTop = c /\ c \in InSink /\ c \notin Running
           /\ SinkCall /\ ~CancelCall /\ Len(t.stack) < MaxDepth /\ Len(t.stack) <= MaxDepth
           /\ t \in TransformShape /\ IsSeq(t.stack) /\ Len(t.stack) \in Nat /\ t.flush = "none"
           /\ c \in {"write", "close"} => w.state = "writable"
<1>1. SinkKnown /\ Served /\ Promised /\ Flushed /\ t \in TransformShape
  BY DEF Known, NInv, IInv, Shapes
<1>2. t.crash = "none" /\ SinkTop = c /\ c \notin Running
  BY DEF SinkCalled, SinkTop, TopOf, Running
<1>3. SinkCall /\ c \in InSink
  BY <1>1, <1>2 DEF SinkCall, SinkCalls, SinkKnown
<1>4. ~CancelCall /\ Len(t.stack) < MaxDepth /\ Len(t.stack) <= MaxDepth
  BY <1>1, <1>3 DEF Served
<1>5. c \in {"write", "close"} => w.state = "writable"
  BY <1>1, <1>2, <1>3 DEF Promised
<1> QED
  BY <1>1, <1>2, <1>3, <1>4, <1>5, StackIs, NotFlushed

\* It calls the transformer.
LEMMA SinkCallsKnown ==
    ASSUME Known, NEW c \in SinkCalls, SinkCalled(c), r' = r, w' = w,
           NEW s \in TransformShape, s.stack = t.stack, s.algorithms = t.algorithms,
           s.flush = t.flush, s.canceling = t.canceling, s.write = t.write, s.pull = t.pull,
           s.backpressure = t.backpressure, s.crash = t.crash,
           IF c = "abort" THEN t.finish = "none" /\ s.finish = "pending" ELSE s.finish = t.finish,
           t' = CallTransformer(s, c)
    PROVE  NInv'
<1>1. /\ t.crash = "none" /\ SinkTop = c /\ c \in InSink /\ c \notin Running
      /\ Len(t.stack) < MaxDepth /\ t.flush = "none"
      /\ c \in {"write", "close"} => w.state = "writable"
  BY SinkAsks
<1>2. /\ NInv /\ IInv /\ SinkKnown /\ Promised /\ Canceling /\ Cleared /\ Flushed
  BY DEF Known, NInv
<1>3. /\ t'.algorithms = s.algorithms /\ t'.stack = Append(s.stack, c)
      /\ t'.backpressure = s.backpressure /\ t'.pull = s.pull /\ t'.write = s.write
      /\ t'.flush = s.flush /\ t'.finish = s.finish /\ t'.canceling = s.canceling
      /\ s.algorithms => t'.crash = s.crash
      /\ s.crash = "none" /\ ~s.algorithms => t'.crash = "algorithm"
  BY CallHolds DEF Holds, TransformFrames, SinkCalls
<1>4. /\ Flat' /\ Served' /\ ~SinkCall' /\ ~CancelCall' /\ Running' = Running \cup {c}
      /\ Last(t'.stack) = c /\ InSink' = InSink /\ SourceTop' = SourceTop
  BY <1>1, <1>2, <1>3, CalledStep
<1>5. Promised'
  BY <1>2, <1>3, <1>4 DEF Promised, SinkCalls
<1>6. Canceling'
  <2>1. CASE c = "abort"
    BY <1>2, <1>3, <1>4, <2>1 DEF Canceling
  <2>2. CASE c # "abort"
    <3>1. {"abort", "cancel"} \cap Running' # {} => {"abort", "cancel"} \cap Running # {}
      BY <1>4, <2>2 DEF SinkCalls
    <3> QED
      BY <1>2, <1>3, <1>4, <2>2, <3>1 DEF Canceling
  <2> QED
    BY <2>1, <2>2
<1>7. Cleared' /\ Flushed'
  BY <1>1, <1>2, <1>3, <1>4 DEF Cleared, Flushed
<1>8. Failures'
  <2>1. CASE t.algorithms
    BY <1>1, <1>3, <2>1, NoFailure
  <2>2. CASE ~t.algorithms
    <3>1. t'.crash = "algorithm"
      BY <1>1, <1>3, <2>2
    <3>2. CASE c = "abort"
      <4>1. r'.close_requested \/ r'.state # "readable"
        BY <1>1, <1>2, <2>2, <3>2 DEF Cleared, R!can_close_or_enqueue
      <4> QED
        BY <1>4, <3>1, <3>2, <4>1 DEF Failures, NullAlgorithmOnlyWhenEndsMeet
    <3>3. CASE c \in {"write", "close"}
      <4>1. r'.canceled = "pending"
        BY <1>1, <1>2, <2>2, <3>3 DEF Cleared
      <4> QED
        BY <1>4, <3>1, <3>3, <4>1 DEF Failures, NullAlgorithmOnlyWhenEndsMeet
    <3> QED
      BY <3>2, <3>3 DEF SinkCalls
  <2> QED
    BY <2>1, <2>2
<1> QED
  BY <1>4, <1>5, <1>6, <1>7, <1>8 DEF NInv

\* It returns to the writable side.
LEMMA SinkReturnsKnown ==
    ASSUME Known, NEW c, SinkTop = c, W!SinkReturns, r' = r, ~CancelCall,
           \A d \in SinkCalls \cup {"cancel"} : d \in Running' <=> d \in Running \ {c},
           "transform" \in Running' => "transform" \in Running,
           Distinct', Len(t'.stack) <= MaxDepth,
           t'.write = "none" <=> c # "write",
           t'.pull = t.pull, t'.backpressure = t.backpressure, t'.finish = t.finish,
           t'.flush # "none" => c = "close" \/ t.flush # "none",
           t'.canceling = t.canceling \/ (c = "abort" /\ t'.canceling = "abort" /\ t.finish = "pending"),
           ~t'.algorithms =>
               \/ ~t.algorithms
               \/ c = "close" /\ t'.flush # "none"
               \/ c = "abort" /\ t.finish # "none",
           t'.crash = "none"
    PROVE  NInv'
<1>1. /\ NInv /\ SinkKnown /\ Promised /\ Canceling /\ Cleared /\ Flushed /\ Flat
  BY DEF Known, NInv
<1>2. /\ c \in SinkCalls /\ InSink = {c} /\ InSink' = {} /\ SinkTop' = "none"
      /\ w'.state = w.state /\ w.sink = {} /\ w'.sink = {c}
  BY <1>1, SinkReturned
<1>3. Flat' /\ Served' /\ ~SinkCall' /\ ~CancelCall' /\ SourceTop' = SourceTop
  BY <1>1, SinkBackStep
<1>4. t.flush = "none"
  BY <1>1, <1>2, NotFlushed
<1>5. "abort" = c => w.state = "errored"
  BY <1>1, <1>2 DEF SinkKnown
<1>6. Promised'
  <2>1. "transform" \notin Running'
    BY <1>1, <1>2 DEF Promised
  <2> QED
    BY <1>1, <1>2, <1>3, <2>1 DEF Promised
<1>7. Canceling'
  <2>1. {"abort", "cancel"} \cap Running' # {} => {"abort", "cancel"} \cap Running # {}
    BY DEF SinkCalls
  <2> QED
    BY <1>1, <1>2, <1>3, <1>5, <2>1 DEF Canceling
<1>8. Cleared'
  BY <1>1, <1>2, <1>3, <1>4, <1>5 DEF Cleared
<1>9. Flushed'
  BY <1>2, <1>4 DEF Flushed
<1>10. Failures'
  BY NoFailure
<1> QED
  BY <1>3, <1>6, <1>7, <1>8, <1>9, <1>10 DEF NInv

\* A write waits, or calls transform().
LEMMA SinkWriteKnown ==
    ASSUME Known, sink_write
    PROVE  NInv'
<1> DEFINE s == Verify(t, w.state = "writable")
<1>1. /\ SinkCalled("write") /\ r' = r
      /\ t.backpressure => W!SinkReturns /\ t' = [s EXCEPT !.write = "blocked"]
      /\ ~t.backpressure => w' = w /\ t' = CallTransformer(s, "write")
  BY DEF sink_write
<1>2. /\ t.crash = "none" /\ SinkTop = "write" /\ "write" \notin Running /\ ~CancelCall
      /\ Len(t.stack) <= MaxDepth /\ t \in TransformShape /\ w.state = "writable"
  BY <1>1, SinkAsks DEF SinkCalls
<1>3. /\ s \in TransformShape /\ s.stack = t.stack /\ s.algorithms = t.algorithms
      /\ s.flush = t.flush /\ s.canceling = t.canceling /\ s.write = t.write /\ s.pull = t.pull
      /\ s.backpressure = t.backpressure /\ s.crash = t.crash /\ s.finish = t.finish
  BY <1>2, VerifyHolds DEF Holds
<1> HIDE DEF s
<1>4. CASE t.backpressure
  <2>1. /\ t'.stack = s.stack /\ t'.algorithms = s.algorithms
        /\ t'.flush = s.flush /\ t'.canceling = s.canceling /\ t'.write = "blocked"
        /\ t'.pull = s.pull /\ t'.backpressure = s.backpressure /\ t'.crash = s.crash
        /\ t'.finish = s.finish
    BY <1>1, <1>3, <1>4 DEF TransformShape
  <2>2. Distinct' /\ Running' = Running
    BY <1>3, <2>1 DEF Known, NInv, Flat, Distinct, Running
  <2>3. /\ \A d \in SinkCalls \cup {"cancel"} : d \in Running' <=> d \in Running \ {"write"}
        /\ "transform" \in Running' => "transform" \in Running
        /\ Len(t'.stack) <= MaxDepth
    BY <1>2, <1>3, <2>1, <2>2
  <2>4. /\ t'.pull = t.pull /\ t'.backpressure = t.backpressure /\ t'.finish = t.finish
        /\ t'.flush # "none" => t.flush # "none"
        /\ t'.canceling = t.canceling /\ t'.algorithms = t.algorithms /\ t'.crash = "none"
        /\ t'.write # "none"
    BY <1>2, <1>3, <2>1
  <2>5. W!SinkReturns
    BY <1>1, <1>4
  <2> QED
    BY <1>1, <1>2, <2>2, <2>3, <2>4, <2>5, SinkReturnsKnown
<1>5. CASE ~t.backpressure
  BY <1>1, <1>3, <1>5, SinkCallsKnown DEF SinkCalls
<1> QED
  BY <1>4, <1>5

\* A close calls flush().
LEMMA SinkCloseKnown ==
    ASSUME Known, sink_close
    PROVE  NInv'
<1>1. SinkCalled("close") /\ t' = CallTransformer(t, "close") /\ r' = r /\ w' = w
  BY DEF sink_close
<1>2. t \in TransformShape
  BY DEF Known, IInv, Shapes
<1> QED
  BY <1>1, <1>2, SinkCallsKnown DEF SinkCalls

\* An abort calls cancel(), unless the other side has.
LEMMA SinkAbortKnown ==
    ASSUME Known, sink_abort
    PROVE  NInv'
<1>1. SinkCalled("abort") /\ r' = r
  BY DEF sink_abort
<1>2. /\ t.crash = "none" /\ SinkTop = "abort" /\ "abort" \notin Running /\ ~CancelCall
      /\ "abort" \in InSink /\ Len(t.stack) <= MaxDepth /\ t \in TransformShape
  BY <1>1, SinkAsks DEF SinkCalls
<1>3. CASE t.finish # "none"
  <2>1. W!SinkReturns /\ t' = t
    BY <1>3 DEF sink_abort
  <2>2. Distinct' /\ Running' = Running
    BY <1>2, <2>1, TransformRests DEF Known
  <2>3. t.write = "none"
    BY <1>2 DEF Known, NInv, Promised, SinkKnown
  <2> QED
    BY <1>1, <1>2, <1>3, <2>1, <2>2, <2>3, SinkReturnsKnown
<1>4. CASE t.finish = "none"
  <2> DEFINE s == [t EXCEPT !.finish = "pending"]
  <2>1. w' = w /\ t' = CallTransformer(s, "abort")
    BY <1>4 DEF sink_abort
  <2>2. /\ s \in TransformShape /\ s.stack = t.stack /\ s.algorithms = t.algorithms
        /\ s.flush = t.flush /\ s.finish = "pending" /\ s.canceling = t.canceling
        /\ s.write = t.write /\ s.crash = t.crash /\ s.pull = t.pull
        /\ s.backpressure = t.backpressure
    BY <1>2 DEF TransformShape, Outcomes
  <2> HIDE DEF s
  <2> QED
    BY <1>1, <1>4, <2>1, <2>2, SinkCallsKnown DEF SinkCalls
<1> QED
  BY <1>3, <1>4

\* A write that waited goes on.
LEMMA ReleasedKnown ==
    ASSUME Known, SinkKnown', WriteReleased
    PROVE  NInv'
<1>1. Microtask /\ t.write = "released" /\ r' = r /\ w' = w
  BY DEF WriteReleased
<1>2. /\ t.crash = "none" /\ ~AlgorithmRuns /\ t.stack = <<>> /\ Running = {}
      /\ Len(t.stack) = 0 /\ Len(t.stack) < MaxDepth /\ ~SinkCall /\ ~CancelCall
      /\ Lasts(r, r) /\ t \in TransformShape
  BY <1>1, MicrotaskRests
<1>3. /\ NInv /\ IInv /\ SinkKnown /\ Promised /\ Canceling /\ Cleared /\ Flushed
  BY DEF Known, NInv
<1>4. "write" \in w.sink
  BY <1>1, <1>3 DEF Promised
<1>5. w.state \in {"writable", "erroring"} /\ "close" \notin w.sink
  BY <1>3, <1>4 DEF SinkKnown
<1>6. t.flush = "none"
  BY <1>3, <1>5 DEF Flushed
<1>7. CASE w.state = "erroring"
  <2>1. t' = [t EXCEPT !.write = "rejected"]
    BY <1>7 DEF WriteReleased
  <2>2. /\ t'.stack = t.stack /\ t'.pull = t.pull /\ t'.write = "rejected"
        /\ t'.flush = t.flush /\ t'.finish = t.finish /\ t'.canceling = t.canceling
        /\ t'.crash = t.crash /\ t'.backpressure = t.backpressure
        /\ t'.algorithms = t.algorithms
    BY <1>2, <2>1 DEF TransformShape
  <2>3. Distinct' /\ Running' = {} /\ Failures'
    <3>1. t'.stack = <<>> /\ t'.crash = "none"
      BY <1>2, <2>2
    <3> QED
      BY <3>1, EmptyIs, NoFailure DEF Distinct, Running
  <2>4. R!can_close_or_enqueue(r') /\ ~t'.backpressure => t'.pull = "waiting"
    BY <1>1, <1>3, <2>2 DEF Promised
  <2>5. Lasts(r, r') /\ r'.stack = r.stack /\ r'.source = r.source
    BY <1>1, <1>2
  <2> QED
    BY <1>1, <1>2, <2>2, <2>3, <2>4, <2>5, RestKnown
<1>8. CASE w.state = "writable"
  <2> DEFINE v == Verify(t, w.state = "writable")
  <2>1. t' = CallTransformer(v, "transform")
    BY <1>8 DEF WriteReleased
  <2>2. /\ v \in TransformShape /\ v.stack = t.stack /\ v.algorithms = t.algorithms
        /\ v.flush = t.flush /\ v.canceling = t.canceling /\ v.write = t.write /\ v.pull = t.pull
        /\ v.backpressure = t.backpressure /\ v.crash = "none" /\ v.finish = t.finish
    BY <1>2, <1>8, VerifyHolds DEF Holds
  <2> HIDE DEF v
  <2>3. /\ t'.algorithms = v.algorithms /\ t'.stack = Append(v.stack, "transform")
        /\ t'.backpressure = v.backpressure /\ t'.pull = v.pull /\ t'.write = v.write
        /\ t'.flush = v.flush /\ t'.finish = v.finish /\ t'.canceling = v.canceling
        /\ v.algorithms => t'.crash = v.crash
        /\ v.crash = "none" /\ ~v.algorithms => t'.crash = "algorithm"
    BY <2>1, <2>2, CallHolds DEF Holds, TransformFrames
  <2>4. /\ Flat' /\ Served' /\ ~SinkCall' /\ ~CancelCall' /\ Running' = {"transform"}
        /\ Last(t'.stack) = "transform" /\ InSink' = InSink /\ SourceTop' = SourceTop
    BY <1>1, <1>2, <1>3, <2>2, <2>3, CalledStep
  <2>5. Promised'
    BY <1>1, <1>3, <2>2, <2>3, <2>4 DEF Promised
  <2>6. Canceling'
    BY <1>1, <1>3, <2>2, <2>3, <2>4 DEF Canceling
  <2>7. Cleared' /\ Flushed'
    BY <1>1, <1>3, <1>6, <2>2, <2>3, <2>4 DEF Cleared, Flushed
  <2>8. Failures'
    <3>1. CASE t.algorithms
      BY <2>2, <2>3, <3>1, NoFailure
    <3>2. CASE ~t.algorithms
      <4>1. t'.crash = "algorithm" /\ r'.canceled = "pending"
        BY <1>1, <1>3, <1>6, <1>8, <2>2, <2>3, <3>2 DEF Cleared
      <4> QED
        BY <2>4, <4>1 DEF Failures, NullAlgorithmOnlyWhenEndsMeet
    <3> QED
      BY <3>1, <3>2
  <2> QED
    BY <2>4, <2>5, <2>6, <2>7, <2>8 DEF NInv
<1> QED
  BY <1>5, <1>7, <1>8

\* The transformer returns to the writable side.
LEMMA ReturnPops ==
    ASSUME Known, NEW c \in SinkCalls \cup {"transform"}, Returns(c)
    PROVE  /\ t.crash = "none" /\ ~AlgorithmRuns /\ ~CancelCall /\ c \in Running /\ Lasts(r, r)
           /\ c \in SinkCalls => c \in InSink
           /\ LET p == Pop(t)
              IN  /\ p \in TransformShape /\ p.stack = Front(t.stack)
                  /\ p.algorithms = t.algorithms /\ p.backpressure = t.backpressure
                  /\ p.pull = t.pull /\ p.write = t.write /\ p.crash = "none"
                  /\ p.flush = t.flush /\ p.finish = t.finish /\ p.canceling = t.canceling
           /\ t'.stack = Front(t.stack) =>
                 /\ Running' = Running \ {c} /\ Distinct'
                 /\ Len(t'.stack) \in Nat /\ Len(t'.stack) < MaxDepth /\ Len(t'.stack) <= MaxDepth
<1>1. t.crash = "none" /\ ~AlgorithmRuns /\ t.stack # <<>> /\ Last(t.stack) = c
  BY DEF Returns
<1>2. /\ ~CancelCall /\ t \in TransformShape /\ IsSeq(t.stack) /\ Len(t.stack) \in Nat /\ Lasts(r, r)
      /\ Flat /\ Served
  BY <1>1, Resting DEF Known, NInv
<1>3. c \in Running
  <2>1. Range(t.stack) = Range(Front(t.stack)) \cup {Last(t.stack)}
    BY <1>1, <1>2, FrontIs
  <2> QED
    BY <1>1, <2>1 DEF Running
<1>4. c \in SinkCalls => c \in InSink
  BY <1>2, <1>3 DEF Served
<1>5. LET p == Pop(t)
      IN  /\ p \in TransformShape /\ p.stack = Front(t.stack)
          /\ p.algorithms = t.algorithms /\ p.backpressure = t.backpressure
          /\ p.pull = t.pull /\ p.write = t.write /\ p.crash = "none"
          /\ p.flush = t.flush /\ p.finish = t.finish /\ p.canceling = t.canceling
  BY <1>1, <1>2, PopHolds DEF Holds
<1>6. ASSUME t'.stack = Front(t.stack)
      PROVE  /\ Running' = Running \ {c} /\ Distinct'
             /\ Len(t'.stack) \in Nat /\ Len(t'.stack) < MaxDepth /\ Len(t'.stack) <= MaxDepth
  <2>1. /\ Running' = Running \ {c} /\ Distinct'
        /\ Len(t'.stack) = Len(t.stack) - 1
    BY <1>1, <1>2, <1>6, RunPops DEF Flat
  <2>2. Len(t.stack) >= 1 /\ Len(t.stack) <= MaxDepth /\ MaxDepth \in Nat
    BY <1>1, <1>2, FrontIs, TransformBounds DEF Served
  <2> QED
    BY <1>2, <2>1, <2>2
<1> QED
  BY <1>1, <1>2, <1>3, <1>4, <1>5, <1>6

\* transform() returns.
LEMMA TransformReturnsKnown ==
    ASSUME Known, SinkKnown', TransformReturns
    PROVE  NInv'
<1> DEFINE p == Pop(t)
<1>1. /\ t' = [p EXCEPT !.write = "transforming"] /\ r' = r
      /\ \/ Returns("write") /\ W!SinkReturns
         \/ Returns("transform") /\ w' = w
  BY DEF TransformReturns
<1>2. ASSUME NEW c \in {"write", "transform"}, Returns(c)
      PROVE  /\ t.crash = "none" /\ ~AlgorithmRuns /\ ~CancelCall /\ c \in Running /\ Lasts(r, r)
             /\ c = "write" => c \in InSink
             /\ Running' = Running \ {c} /\ Distinct'
             /\ Len(t'.stack) \in Nat /\ Len(t'.stack) < MaxDepth /\ Len(t'.stack) <= MaxDepth
             /\ t'.algorithms = t.algorithms /\ t'.backpressure = t.backpressure
             /\ t'.pull = t.pull /\ t'.write = "transforming" /\ t'.crash = "none"
             /\ t'.flush = t.flush /\ t'.finish = t.finish /\ t'.canceling = t.canceling
  <2>1. c \in SinkCalls \cup {"transform"}
    BY DEF SinkCalls
  <2>2. /\ p \in TransformShape /\ p.stack = Front(t.stack)
        /\ p.algorithms = t.algorithms /\ p.backpressure = t.backpressure
        /\ p.pull = t.pull /\ p.write = t.write /\ p.crash = "none"
        /\ p.flush = t.flush /\ p.finish = t.finish /\ p.canceling = t.canceling
    BY <1>2, <2>1, ReturnPops
  <2> HIDE DEF p
  <2>3. /\ t'.stack = Front(t.stack) /\ t'.algorithms = t.algorithms
        /\ t'.backpressure = t.backpressure
        /\ t'.pull = t.pull /\ t'.write = "transforming" /\ t'.crash = "none"
        /\ t'.flush = t.flush /\ t'.finish = t.finish /\ t'.canceling = t.canceling
    BY <1>1, <2>2 DEF TransformShape
  <2> QED
    BY <1>2, <2>1, <2>3, ReturnPops DEF SinkCalls
<1> HIDE DEF p
<1>3. NInv /\ SinkKnown /\ Promised /\ Flat
  BY DEF Known, NInv
<1>4. CASE Returns("write") /\ W!SinkReturns
  <2>1. SinkTop = "write"
    BY <1>2, <1>3, <1>4, SinkReturned
  <2> QED
    BY <1>1, <1>2, <1>4, <2>1, SinkReturnsKnown
<1>5. CASE Returns("transform") /\ w' = w
  <2>1. t.write # "none"
    BY <1>2, <1>3, <1>5 DEF Promised
  <2>2. Failures'
    BY <1>2, <1>5, NoFailure
  <2>3. R!can_close_or_enqueue(r') /\ ~t'.backpressure => t'.pull = "waiting"
    BY <1>1, <1>2, <1>3, <1>5 DEF Promised
  <2>4. \A c \in SinkCalls \cup {"cancel"} : c \in Running' <=> c \in Running
    BY <1>2, <1>5 DEF SinkCalls
  <2>5. Lasts(r, r') /\ r'.stack = r.stack /\ r'.source = r.source
    BY <1>1, <1>2, <1>5
  <2> QED
    BY <1>2, <1>5, <2>1, <2>2, <2>3, <2>4, <2>5, RestKnown
<1> QED
  BY <1>1, <1>4, <1>5

\* flush() returns, and cancel() to the writable side.
LEMMA EndReturnsKnown ==
    ASSUME Known, FlushReturns \/ CancelReturns
    PROVE  NInv'
<1> DEFINE p == Pop(t)
           u == clear_algorithms(p)
<1>1. \/ /\ Returns("close") /\ W!SinkReturns /\ r' = r /\ t' = [u EXCEPT !.flush = "pending"]
      \/ /\ Returns("abort") /\ W!SinkReturns /\ r' = r /\ t' = [u EXCEPT !.canceling = "abort"]
      \/ /\ Returns("cancel") /\ R!CancelReturns /\ w' = w
         /\ t' = [u EXCEPT !.canceling = "cancel"]
  BY DEF FlushReturns, CancelReturns
<1>2. CASE /\ Returns("cancel") /\ R!CancelReturns /\ w' = w
           /\ t' = [u EXCEPT !.canceling = "cancel"]
  BY <1>2, SourceReturnsKnown
<1>3. ASSUME NEW c \in {"close", "abort"}, Returns(c), W!SinkReturns, r' = r,
             \/ c = "close" /\ t' = [u EXCEPT !.flush = "pending"]
             \/ c = "abort" /\ t' = [u EXCEPT !.canceling = "abort"]
      PROVE  NInv'
  <2>1. c \in SinkCalls
    BY DEF SinkCalls
  <2>2. /\ t.crash = "none" /\ ~CancelCall /\ c \in Running /\ c \in InSink
        /\ p \in TransformShape /\ p.stack = Front(t.stack)
        /\ p.algorithms = t.algorithms /\ p.backpressure = t.backpressure
        /\ p.pull = t.pull /\ p.write = t.write /\ p.crash = "none"
        /\ p.flush = t.flush /\ p.finish = t.finish /\ p.canceling = t.canceling
        /\ t'.stack = Front(t.stack) =>
              Running' = Running \ {c} /\ Distinct' /\ Len(t'.stack) <= MaxDepth
    BY <1>3, <2>1, ReturnPops
  <2> HIDE DEF p
  <2>3. /\ u \in TransformShape /\ u.stack = p.stack
        /\ u.backpressure = p.backpressure /\ u.pull = p.pull /\ u.write = p.write
        /\ u.crash = p.crash /\ u.flush = p.flush /\ u.finish = p.finish
        /\ u.canceling = p.canceling
    BY <2>2, ClearHolds DEF Holds
  <2> HIDE DEF u
  <2>4. /\ t'.stack = u.stack /\ t'.backpressure = u.backpressure /\ t'.pull = u.pull
        /\ t'.write = u.write /\ t'.crash = u.crash /\ t'.finish = u.finish
        /\ \/ c = "close" /\ t'.flush = "pending" /\ t'.canceling = u.canceling
           \/ c = "abort" /\ t'.flush = u.flush /\ t'.canceling = "abort"
    <3>1. CASE c = "close" /\ t' = [u EXCEPT !.flush = "pending"]
      BY <2>3, <3>1 DEF TransformShape
    <3>2. CASE c = "abort" /\ t' = [u EXCEPT !.canceling = "abort"]
      BY <2>3, <3>2 DEF TransformShape
    <3> QED
      BY <1>3, <3>1, <3>2
  <2>5. Running' = Running \ {c} /\ Distinct' /\ Len(t'.stack) <= MaxDepth
    BY <2>2, <2>3, <2>4
  <2>6. SinkKnown /\ Flat /\ Promised /\ Canceling
    BY DEF Known, NInv
  <2>7. SinkTop = c /\ w.sink = {}
    BY <1>3, <2>2, <2>6, SinkReturned
  <2>8. t'.write = "none" /\ t'.crash = "none"
    BY <2>2, <2>3, <2>4, <2>6, <2>7 DEF Promised
  <2>9. c = "abort" => t.finish = "pending"
    BY <2>2, <2>6 DEF Canceling
  <2>10. /\ t'.pull = t.pull /\ t'.backpressure = t.backpressure /\ t'.finish = t.finish
         /\ t'.flush # "none" => c = "close" \/ t.flush # "none"
         /\ t'.canceling = t.canceling \/ (c = "abort" /\ t'.canceling = "abort" /\ t.finish = "pending")
         /\ \/ c = "close" /\ t'.flush # "none"
            \/ c = "abort" /\ t.finish # "none"
    BY <2>2, <2>3, <2>4, <2>9
  <2> QED
    BY <1>3, <2>2, <2>5, <2>7, <2>8, <2>10, SinkReturnsKnown
<1> QED
  BY <1>1, <1>2, <1>3

----------------------------------------------------------------------------
(* The failures of the transform stream. *)

\* Nothing is called or promised in the beginning.
LEMMA NamedInit == Init => NInv
<1> SUFFICES ASSUME Init PROVE NInv
  OBVIOUS
<1>1. /\ r = [R!InitialStream EXCEPT !.reader = 1, !.readers = 1, !.closed = "pending"]
      /\ t = [backpressure |-> TRUE, algorithms |-> TRUE, start |-> "pending",
              write |-> "none", pull |-> "none", flush |-> "none", finish |-> "none",
              canceling |-> "none", stack |-> <<>>, crash |-> "none"]
  BY DEF Init
<1>2. /\ t.stack = <<>> /\ t.algorithms = TRUE /\ t.write = "none" /\ t.pull = "none"
      /\ t.flush = "none" /\ t.finish = "none" /\ t.canceling = "none" /\ t.crash = "none"
      /\ t.backpressure = TRUE
  BY <1>1
<1>3. r.stack = <<>> /\ r.source = {"start"}
  BY <1>1 DEF R!InitialStream
<1>4. w.sink = {"start"} /\ w.stack = <<>> /\ w.state = "writable"
  <2> DEFINE y == IF W!InitialStream.backpressure THEN "pending" ELSE "fulfilled"
  <2>1. w = [W!InitialStream EXCEPT !.writer = 1, !.writers = 1, !.closed = "pending", !.ready = y]
    BY DEF Init
  <2> HIDE DEF y
  <2> QED
    BY <2>1 DEF W!InitialStream
<1>5. Len(<<>>) = 0 /\ Range(<<>>) = {} /\ DOMAIN <<>> = {}
  BY EmptyIs
<1>6. /\ SinkTop = "none" /\ SourceTop = "none" /\ InSink = {} /\ Running = {}
      /\ ~SinkCall /\ ~CancelCall
  BY <1>2, <1>3, <1>4, <1>5 DEF SinkTop, SourceTop, TopOf, InSink, CallsIn, Running, SinkCall,
     CancelCall
<1>7. Flat
  BY <1>2, <1>3, <1>4, <1>5 DEF Flat, SinkFlat, SourceFlat, Distinct
<1>8. Served
  BY <1>2, <1>5, <1>6, TransformBounds DEF Served
<1>9. Promised /\ Canceling
  BY <1>2, <1>3, <1>4, <1>6 DEF Promised, Canceling
<1>10. Cleared /\ Flushed /\ Failures
  BY <1>2, <1>6 DEF Cleared, Flushed, Failures, NullAlgorithmOnlyWhenEndsMeet
<1> QED
  BY <1>7, <1>8, <1>9, <1>10 DEF NInv

\* Every step preserves the invariant.
LEMMA NamedNext ==
    ASSUME Known, SinkKnown', [Next]_vars
    PROVE  NInv'
<1>1. CASE Script
  BY <1>1, PageKnown, ReadKnown, CancelKnown, EnqueueKnown, ErrorKnown DEF Script
<1>2. CASE PlainCall
  <2>1. \/ r' = r /\ t' = t /\ SinkCalled("size") /\ W!SizeReturns("valid")
        \/ r' = r /\ t' = t /\ SinkCalled("signal") /\ W!SignalReturns
        \/ SourceCalled("size") /\ (R!SizeReturns \/ R!SizeFails) /\ w' = w /\ t' = t
    BY <1>2 DEF PlainCall
  <2> QED
    BY <2>1, SinkPlainKnown, SourcePlainKnown
<1>3. CASE Algorithm
  BY <1>2, <1>3, EnqueuedKnown, SinkWriteKnown, SinkCloseKnown, SinkAbortKnown, SourceCancelKnown,
     SourcePullKnown DEF Algorithm
<1>4. CASE TransformerReturns
  BY <1>4, TransformReturnsKnown, EndReturnsKnown DEF TransformerReturns
<1>5. CASE Reaction
  BY <1>5, ReleasedKnown, ReadableStartsKnown, SinkReactsKnown, CloseSettledKnown,
     CancelSettledKnown, PullFulfilledKnown DEF Reaction
<1>6. CASE Settles
  BY <1>6, TransformSettledKnown, FlushSettledKnown, AbortCancelKnown, SourceSettledKnown,
     SinkReactsKnown DEF Settles
<1>7. CASE UNCHANGED vars
  <2>1. r' = r /\ w' = w /\ t' = t
    BY <1>7 DEF vars
  <2>2. /\ SinkTop' = SinkTop /\ SourceTop' = SourceTop /\ InSink' = InSink /\ Running' = Running
    BY <2>1 DEF SinkTop, SourceTop, InSink, Running
  <2>3. (SinkCall' <=> SinkCall) /\ (CancelCall' <=> CancelCall)
    BY <2>2 DEF SinkCall, CancelCall
  <2>4. Flat'
    BY <2>1 DEF Known, NInv, Flat, SinkFlat, SourceFlat, Distinct
  <2>5. Served' /\ Promised' /\ Canceling'
    BY <2>1, <2>2, <2>3 DEF Known, NInv, Served, Promised, Canceling
  <2>6. Cleared' /\ Flushed'
    BY <2>1, <2>2, <2>3 DEF Known, NInv, Cleared, Flushed
  <2>7. Failures'
    BY <2>1 DEF Known, NInv, Failures, NullAlgorithmOnlyWhenEndsMeet
  <2> QED
    BY <2>4, <2>5, <2>6, <2>7 DEF NInv
<1> QED
  BY <1>1, <1>3, <1>4, <1>5, <1>6, <1>7 DEF Next

\* So it holds in every state, with what is known of the two sides.
LEMMA NamedInvariance == Spec => []FInv
<1>1. Init => FInv
  BY InitInv, SideInit, NamedInit DEF FInv
<1>2. FInv /\ [Next]_vars => FInv'
  <2> SUFFICES ASSUME FInv, [Next]_vars PROVE FInv'
    OBVIOUS
  <2>1. IInv /\ RP!IInv /\ WP!IInv /\ NInv
    BY DEF FInv
  <2>2. IInv'
    BY <2>1, NextInv
  <2>3. RP!IInv' /\ WP!IInv'
    BY <2>1, SideInv
  <2>4. Known
    BY <2>1, SinkFacts, SourceFacts DEF Known
  <2>5. SinkKnown'
    BY <2>3, SinkFacts, PTL
  <2>6. NInv'
    BY <2>4, <2>5, NamedNext
  <2> QED
    BY <2>2, <2>3, <2>6 DEF FInv
<1> QED
  BY <1>1, <1>2, PTL DEF Spec

\* The two streams and the transform stream agree whatever the page and the
\* transformer do, no VERIFY of the two streams fails, and the transform stream
\* fails only where enqueue() finds a read that has asked for more in vain, or
\* where two ends meet.
THEOREM Failing == Spec => []FailuresNamed
<1>1. FInv => FailuresNamed
  <2> SUFFICES ASSUME FInv PROVE FailuresNamed
    OBVIOUS
  <2>1. IInv /\ RP!IInv /\ WP!IInv /\ NInv
    BY DEF FInv
  <2>2. R!TypeOK /\ W!TypeOK /\ ~r.failed /\ ~w.failed
    BY <2>1, ReadableFacts, WritableFacts
  <2>3. t \in TransformShape /\ Promised /\ Canceling /\ Served /\ Failures
    BY <2>1 DEF IInv, Shapes, NInv
  <2>4. TypeOK
    BY <2>2, <2>3 DEF TypeOK, TransformShape, Outcomes, W!PromiseState, Promised, Canceling, Served
  <2>5. AssertionsHold /\ NullAlgorithmOnlyWhenEndsMeet
    BY <2>2, <2>3 DEF AssertionsHold, Failures
  <2> QED
    BY <2>4, <2>5 DEF FailuresNamed
<1> QED
  BY <1>1, NamedInvariance, PTL

=============================================================================

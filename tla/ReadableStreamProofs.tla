------------------------ MODULE ReadableStreamProofs ------------------------
(***************************************************************************)
(* Proofs about ReadableStream: whatever script calls the stream from      *)
(* where, no read is lost or settled twice, no VERIFY fails, chunks are    *)
(* read in order, and the source hears of every read that waits.           *)
(*                                                                         *)
(* The functions of the stream call each other in the middle of their      *)
(* work, so the inductive invariant is a predicate on any state s that one *)
(* function hands to the next.  Between taking a chunk from the queue and  *)
(* giving it to its read, or to the frame of a pull(), a function holds    *)
(* the two in its local variables: they are the parameters held and chunk  *)
(* (0 if it holds none).  Each lemma says what one function does to the    *)
(* predicate, and an action is the composition of a few of them.           *)
(***************************************************************************)
EXTENDS ReadableStream, FiniteSetTheorems, TLAPS

Callbacks == {"size", "pull", "cancel"}

Frames == [callback : Callbacks, read : Nat, chunk : Nat]

\* What the fields of a stream are, without the bounds.
Shape == [
    state : {"readable", "closed", "errored"}, reader : Nat,
    closed : {"none", "pending", "fulfilled", "rejected"}, read_requests : Seq(Nat),
    queue : Seq(Nat), close_requested : BOOLEAN, started : BOOLEAN, pulling : BOOLEAN,
    pull_again : BOOLEAN, algorithms : BOOLEAN, source : SUBSET {"start", "pull", "cancel"},
    canceled : {"none", "pending", "fulfilled", "rejected"}, reads : Seq(Int),
    stack : Seq(Frames), chunks : Nat, calls : Nat, readers : Nat, heard : Nat,
    reentered : BOOLEAN, failed : BOOLEAN]

\* The frames of a callback on the stack.
FramesOf(s, callback) == {i \in DOMAIN s.stack : s.stack[i].callback = callback}

\* Every call of enqueue() that has got past its guard has made its chunk or
\* waits for size().
Bounded(s) ==
    /\ s.reader <= s.readers /\ s.readers <= MaxReaders
    /\ Len(s.reads) <= MaxReads
    /\ s.calls <= MaxChunks /\ s.chunks + Cardinality(FramesOf(s, "size")) <= s.calls
    /\ \A i \in DOMAIN s.queue : 1 <= s.queue[i] /\ s.queue[i] <= s.chunks
    /\ \A i \in DOMAIN s.reads : Failed <= s.reads[i] /\ s.reads[i] <= s.chunks

\* What the assertions of the stream rest on: the algorithms are there as long
\* as the stream is readable, and pulling covers the one pull() that runs or
\* whose promise is pending.
Asserted(s) ==
    /\ ~s.failed
    /\ s.state = "readable" => s.algorithms /\ FramesOf(s, "cancel") = {}
    /\ s.pull_again => s.pulling
    /\ s.pulling => s.started
    /\ "start" \in s.source => ~s.started
    /\ "pull" \in s.source => s.pulling /\ FramesOf(s, "pull") = {}
    /\ FramesOf(s, "pull") # {} => s.pulling
    /\ \A i, j \in FramesOf(s, "pull") : i = j

\* What the reader knows of the stream.
ReaderInformed(s) ==
    /\ s.read_requests # <<>> => s.state = "readable" /\ s.reader # 0
    /\ s.reader # 0 => s.closed = CASE s.state = "readable" -> "pending"
                                    [] s.state = "closed" -> "fulfilled"
                                    [] OTHER -> "rejected"

\* A read that somebody holds together with its chunk has got nothing else, and
\* is not in the list of those that wait.
Holding(s, held, chunk) ==
    IF held = 0 THEN chunk = 0
    ELSE /\ held <= Len(s.reads) /\ s.reads[held] = Waiting
         /\ held \notin Range(s.read_requests)
         /\ 1 <= chunk /\ chunk <= s.chunks

\* The list of reads that wait is in the order of the calls, and who waits is in
\* the list, in a frame of pull() or held.
Listed(s, held, chunk) ==
    /\ Holding(s, held, chunk)
    /\ \A k \in DOMAIN s.stack :
          /\ Holding(s, s.stack[k].read, s.stack[k].chunk)
          /\ s.stack[k].callback # "pull" => s.stack[k].read = 0
          /\ s.stack[k].read = held => held = 0
    /\ \A i \in DOMAIN s.read_requests :
          /\ s.read_requests[i] \in DOMAIN s.reads
          /\ s.reads[s.read_requests[i]] = Waiting
    /\ \A i, j \in DOMAIN s.read_requests :
          i < j => s.read_requests[i] < s.read_requests[j]
    /\ \A i \in DOMAIN s.reads : s.reads[i] = Waiting =>
          \/ i \in Range(s.read_requests)
          \/ i = held
          \/ \E k \in DOMAIN s.stack : s.stack[k].read = i

\* Read i has got chunk c, or somebody holds it for that read.
Gets(s, held, chunk, i, c) ==
    \/ i \in DOMAIN s.reads /\ s.reads[i] = c
    \/ \E k \in DOMAIN s.stack : s.stack[k].read = i /\ s.stack[k].chunk = c
    \/ i = held /\ c = chunk

\* Chunks go to the reads in order: what is in the queue is younger than what
\* any read gets, and a read that waits is younger than all that get a chunk.
Ordered(s, held, chunk) ==
    /\ s.queue = <<>> \/ s.read_requests = <<>>
    /\ \A i, j \in DOMAIN s.queue : i < j => s.queue[i] < s.queue[j]
    /\ \A i, c \in Nat \ {0} : Gets(s, held, chunk, i, c) =>
          /\ \A k \in DOMAIN s.queue : c < s.queue[k]
          /\ \A k \in DOMAIN s.read_requests : i < s.read_requests[k]
          /\ \A j, d \in Nat \ {0} : Gets(s, held, chunk, j, d) /\ i < j => c < d

\* No chunk is lost, unless the stream is in error or was cancelled.
Kept(s, held, chunk) ==
    s.state # "errored" /\ s.canceled = "none" =>
        /\ \A c \in 1 .. s.chunks :
              c \in Range(s.queue) \/ \E i \in Nat \ {0} : Gets(s, held, chunk, i, c)
        /\ s.state = "closed" => s.queue = <<>>

Safe(s, held, chunk) ==
    /\ s \in Shape /\ Bounded(s) /\ Asserted(s) /\ ReaderInformed(s)
    /\ Listed(s, held, chunk)
    /\ ~s.reentered => Ordered(s, held, chunk) /\ Kept(s, held, chunk)

\* The source knows of the youngest read that waits, or will be asked again.
Heard(s) ==
    s.started /\ can_close_or_enqueue(s) /\ s.read_requests # <<>> =>
        s.read_requests[Len(s.read_requests)] <= s.heard \/ (s.pulling /\ s.pull_again)

\* The inductive invariant: between two actions nobody holds anything.
IInv == Safe(r, 0, 0) /\ Heard(r)

----------------------------------------------------------------------------
(***************************************************************************)
(* Sequences and the stack.                                                *)
(***************************************************************************)

\* What a sequence holds after a value was appended, as read_requests and the
\* queue.
LEMMA Appended ==
    ASSUME NEW S, NEW q \in Seq(S), NEW x \in S
    PROVE  /\ Append(q, x) \in Seq(S) /\ Len(Append(q, x)) = Len(q) + 1
           /\ DOMAIN q = 1 .. Len(q) /\ DOMAIN Append(q, x) = 1 .. Len(q) + 1
           /\ \A i \in 1 .. Len(q) : Append(q, x)[i] = q[i]
           /\ Append(q, x)[Len(q) + 1] = x
           /\ Range(Append(q, x)) = Range(q) \cup {x}
<1>1. /\ Append(q, x) \in Seq(S) /\ Len(Append(q, x)) = Len(q) + 1 /\ Len(q) \in Nat
      /\ DOMAIN q = 1 .. Len(q) /\ DOMAIN Append(q, x) = 1 .. Len(q) + 1
      /\ \A i \in 1 .. Len(q) : Append(q, x)[i] = q[i]
      /\ Append(q, x)[Len(q) + 1] = x
  OBVIOUS
<1>2. Range(Append(q, x)) = Range(q) \cup {x}
  BY <1>1 DEF Range
<1>3. QED
  BY <1>1, <1>2

\* What a sequence holds after its head was taken.
LEMMA Shortened ==
    ASSUME NEW S, NEW q \in Seq(S), q # <<>>
    PROVE  /\ Tail(q) \in Seq(S) /\ Len(Tail(q)) = Len(q) - 1 /\ Len(q) >= 1
           /\ DOMAIN q = 1 .. Len(q) /\ DOMAIN Tail(q) = 1 .. Len(q) - 1
           /\ \A i \in 1 .. Len(q) - 1 : Tail(q)[i] = q[i + 1]
           /\ Head(q) = q[1] /\ Head(q) \in S
           /\ Range(q) = Range(Tail(q)) \cup {Head(q)}
<1>1. /\ Tail(q) \in Seq(S) /\ Len(Tail(q)) = Len(q) - 1 /\ Len(q) >= 1 /\ Len(q) \in Nat
      /\ DOMAIN q = 1 .. Len(q) /\ DOMAIN Tail(q) = 1 .. Len(q) - 1
      /\ \A i \in 1 .. Len(q) - 1 : Tail(q)[i] = q[i + 1]
      /\ Head(q) = q[1] /\ Head(q) \in S
  OBVIOUS
<1>2. ASSUME NEW i \in 1 .. Len(q), i # 1 PROVE i - 1 \in 1 .. Len(q) - 1 /\ Tail(q)[i - 1] = q[i]
  BY <1>1, <1>2
<1>3. ASSUME NEW i \in 1 .. Len(q) - 1 PROVE i + 1 \in 1 .. Len(q) /\ Tail(q)[i] = q[i + 1]
  BY <1>1, <1>3
<1>4. ASSUME NEW v \in Range(q) PROVE v \in Range(Tail(q)) \cup {Head(q)}
  <2>1. PICK i \in 1 .. Len(q) : q[i] = v
    BY <1>1 DEF Range
  <2>2. CASE i = 1
    BY <1>1, <2>1, <2>2
  <2>3. CASE i # 1
    <3>1. i - 1 \in DOMAIN Tail(q) /\ Tail(q)[i - 1] = v
      BY <1>1, <1>2, <2>1, <2>3
    <3>2. QED
      BY <3>1 DEF Range
  <2>4. QED
    BY <2>2, <2>3
<1>5. ASSUME NEW v \in Range(Tail(q)) PROVE v \in Range(q)
  BY <1>1, <1>3 DEF Range
<1>6. Head(q) \in Range(q)
  BY <1>1 DEF Range
<1>7. QED
  BY <1>1, <1>4, <1>5, <1>6

\* What the stack holds after a frame was popped.
LEMMA FrontOf ==
    ASSUME NEW S, NEW q \in Seq(S), q # <<>>
    PROVE  /\ Front(q) \in Seq(S) /\ Len(Front(q)) = Len(q) - 1 /\ Len(q) >= 1
           /\ DOMAIN q = 1 .. Len(q) /\ DOMAIN Front(q) = 1 .. Len(q) - 1
           /\ \A i \in 1 .. Len(q) - 1 : Front(q)[i] = q[i]
           /\ Last(q) = q[Len(q)] /\ Last(q) \in S
<1>1. Len(q) \in Nat /\ Len(q) >= 1 /\ DOMAIN q = 1 .. Len(q) /\ q[Len(q)] \in S
  OBVIOUS
<1>2. Last(q) = q[Len(q)] /\ Front(q) = SubSeq(q, 1, Len(q) - 1)
  BY DEF Last, Front
<1>3. /\ SubSeq(q, 1, Len(q) - 1) \in Seq(S) /\ Len(SubSeq(q, 1, Len(q) - 1)) = Len(q) - 1
      /\ \A i \in 1 .. Len(q) - 1 : SubSeq(q, 1, Len(q) - 1)[i] = q[i]
  BY <1>1
<1>4. QED
  BY <1>1, <1>2, <1>3


\* A frame on top of the stack, in any other state of the stream.
LEMMA FramesPushed ==
    ASSUME NEW s, NEW t, s.stack \in Seq(Frames), NEW f \in Frames, t.stack = Append(s.stack, f)
    PROVE  \A cb \in Callbacks :
              /\ FramesOf(t, cb) = IF f.callback = cb THEN FramesOf(s, cb) \cup {Len(s.stack) + 1}
                                   ELSE FramesOf(s, cb)
              /\ Cardinality(FramesOf(s, cb)) \in Nat
              /\ Cardinality(FramesOf(t, cb)) =
                    Cardinality(FramesOf(s, cb)) + (IF f.callback = cb THEN 1 ELSE 0)
<1> TAKE cb \in Callbacks
<1>1. /\ Len(s.stack) \in Nat /\ DOMAIN s.stack = 1 .. Len(s.stack)
      /\ DOMAIN t.stack = 1 .. Len(s.stack) + 1
      /\ \A i \in 1 .. Len(s.stack) : t.stack[i] = s.stack[i]
      /\ t.stack[Len(s.stack) + 1] = f
  BY Appended
<1>2. FramesOf(t, cb) = IF f.callback = cb THEN FramesOf(s, cb) \cup {Len(s.stack) + 1}
                        ELSE FramesOf(s, cb)
  BY <1>1 DEF FramesOf
<1>3. FramesOf(s, cb) \subseteq 1 .. Len(s.stack) /\ Len(s.stack) + 1 \notin FramesOf(s, cb)
  BY <1>1 DEF FramesOf
<1>4. IsFiniteSet(FramesOf(s, cb))
  <2>1. IsFiniteSet(1 .. Len(s.stack))
    BY <1>1, FS_Interval
  <2>2. QED
    BY <2>1, <1>3, FS_Subset
<1>5. Cardinality(FramesOf(s, cb)) \in Nat
  BY <1>4, FS_CardinalityType
<1>6. Cardinality(FramesOf(s, cb) \cup {Len(s.stack) + 1}) = Cardinality(FramesOf(s, cb)) + 1
  BY <1>3, <1>4, FS_AddElement
<1>7. QED
  BY <1>2, <1>5, <1>6

\* The top frame leaves the stack.
LEMMA FramesPopped ==
    ASSUME NEW s, NEW t, s.stack \in Seq(Frames), s.stack # <<>>, t.stack = Front(s.stack)
    PROVE  \A cb \in Callbacks :
              /\ FramesOf(t, cb) = FramesOf(s, cb) \ {Len(s.stack)}
              /\ Cardinality(FramesOf(t, cb)) \in Nat
              /\ Cardinality(FramesOf(s, cb)) =
                    Cardinality(FramesOf(t, cb)) + (IF Last(s.stack).callback = cb THEN 1 ELSE 0)
<1> TAKE cb \in Callbacks
<1>1. /\ Len(s.stack) \in Nat /\ Len(s.stack) >= 1 /\ DOMAIN s.stack = 1 .. Len(s.stack)
      /\ DOMAIN t.stack = 1 .. Len(s.stack) - 1
      /\ \A i \in 1 .. Len(s.stack) - 1 : t.stack[i] = s.stack[i]
      /\ Last(s.stack) = s.stack[Len(s.stack)]
  BY FrontOf
<1>2. FramesOf(t, cb) = FramesOf(s, cb) \ {Len(s.stack)}
  BY <1>1 DEF FramesOf
<1>3. FramesOf(t, cb) \subseteq 1 .. Len(s.stack) - 1 /\ Len(s.stack) \notin FramesOf(t, cb)
  BY <1>1 DEF FramesOf
<1>4. IsFiniteSet(FramesOf(t, cb))
  <2>1. IsFiniteSet(1 .. Len(s.stack) - 1)
    BY <1>1, FS_Interval
  <2>2. QED
    BY <2>1, <1>3, FS_Subset
<1>5. Cardinality(FramesOf(t, cb)) \in Nat
  BY <1>4, FS_CardinalityType
<1>6. Cardinality(FramesOf(t, cb) \cup {Len(s.stack)}) = Cardinality(FramesOf(t, cb)) + 1
  BY <1>3, <1>4, FS_AddElement
<1>7. FramesOf(s, cb) = IF Last(s.stack).callback = cb THEN FramesOf(t, cb) \cup {Len(s.stack)}
                        ELSE FramesOf(t, cb)
  BY <1>1, <1>2 DEF FramesOf
<1>8. CASE Last(s.stack).callback = cb
  <2>1. FramesOf(s, cb) = FramesOf(t, cb) \cup {Len(s.stack)}
    BY <1>7, <1>8
  <2>2. Cardinality(FramesOf(s, cb)) = Cardinality(FramesOf(t, cb)) + 1
    BY <1>6, <2>1
  <2>3. (IF Last(s.stack).callback = cb THEN 1 ELSE 0) = 1
    BY <1>8
  <2>4. Cardinality(FramesOf(s, cb)) =
           Cardinality(FramesOf(t, cb)) + (IF Last(s.stack).callback = cb THEN 1 ELSE 0)
    BY <2>2, <2>3, Zenon
  <2>5. QED
    BY <1>2, <1>5, <2>4, Zenon
<1>9. CASE Last(s.stack).callback # cb
  <2>1. FramesOf(s, cb) = FramesOf(t, cb)
    BY <1>7, <1>9
  <2>2. Cardinality(FramesOf(s, cb)) = Cardinality(FramesOf(t, cb)) + 0
    BY <1>5, <2>1
  <2>3. (IF Last(s.stack).callback = cb THEN 1 ELSE 0) = 0
    BY <1>9
  <2>4. Cardinality(FramesOf(s, cb)) =
           Cardinality(FramesOf(t, cb)) + (IF Last(s.stack).callback = cb THEN 1 ELSE 0)
    BY <2>2, <2>3, Zenon
  <2>5. QED
    BY <1>2, <1>5, <2>4, Zenon
<1>10. QED
  BY <1>8, <1>9

----------------------------------------------------------------------------
(***************************************************************************)
(* What the predicates depend on.                                          *)
(***************************************************************************)

\* Order and completeness depend on who gets what, on the queue and on the list
\* of reads, which may become empty.
LEMMA SameChunks ==
    ASSUME NEW s, NEW t, NEW held, NEW chunk, NEW held2, NEW chunk2,
           t.queue = s.queue, t.chunks = s.chunks,
           t.read_requests = s.read_requests \/ t.read_requests = <<>>,
           \A i, c \in Nat \ {0} : Gets(t, held2, chunk2, i, c) <=> Gets(s, held, chunk, i, c)
    PROVE  /\ Ordered(s, held, chunk) => Ordered(t, held2, chunk2)
           /\ Kept(s, held, chunk) /\ t.state = s.state /\ t.canceled = s.canceled
                 => Kept(t, held2, chunk2)
<1>1. Ordered(s, held, chunk) => Ordered(t, held2, chunk2)
  <2>1. CASE t.read_requests = s.read_requests
    BY <2>1 DEF Ordered
  <2>2. CASE t.read_requests = <<>>
    <3>1. DOMAIN t.read_requests = {}
      BY <2>2
    <3>2. QED
      BY <2>2, <3>1 DEF Ordered
  <2>3. QED
    BY <2>1, <2>2
<1>2. Kept(s, held, chunk) /\ t.state = s.state /\ t.canceled = s.canceled
         => Kept(t, held2, chunk2)
  <2>1. SUFFICES ASSUME Kept(s, held, chunk), t.state = s.state, t.canceled = s.canceled,
                        t.state # "errored", t.canceled = "none"
                 PROVE  /\ \A c \in 1 .. t.chunks : c \in Range(t.queue)
                               \/ \E i \in Nat \ {0} : Gets(t, held2, chunk2, i, c)
                        /\ t.state = "closed" => t.queue = <<>>
    BY DEF Kept
  <2>2. QED
    BY <2>1 DEF Kept
<1>3. QED
  BY <1>1, <1>2

\* The chunks and the reads are the same if the fields that hold them are.
LEMMA SameReads ==
    ASSUME NEW s, NEW t, NEW held, NEW chunk,
           t.reads = s.reads, t.stack = s.stack, t.read_requests = s.read_requests,
           t.queue = s.queue, t.chunks = s.chunks, t.state = s.state,
           t.canceled = s.canceled \/ t.canceled # "none"
    PROVE  /\ Listed(s, held, chunk) => Listed(t, held, chunk)
           /\ Ordered(s, held, chunk) => Ordered(t, held, chunk)
           /\ Kept(s, held, chunk) => Kept(t, held, chunk)
<1>1. Listed(s, held, chunk) => Listed(t, held, chunk)
  BY DEF Listed, Holding
<1>2. \A i, c \in Nat \ {0} : Gets(t, held, chunk, i, c) <=> Gets(s, held, chunk, i, c)
  BY DEF Gets
<1>3. t.canceled # "none" => Kept(t, held, chunk)
  BY DEF Kept
<1>4. QED
  BY <1>1, <1>2, <1>3, SameChunks

\* A read gets the chunk that was held for it.
LEMMA OnChunkSafe ==
    ASSUME NEW s, NEW held \in Nat, NEW chunk \in Nat, Safe(s, held, chunk)
    PROVE  /\ Safe(OnChunk(s, held, chunk), 0, 0)
           /\ Heard(s) => Heard(OnChunk(s, held, chunk))
<1> DEFINE t == OnChunk(s, held, chunk)
<1>1. CASE held = 0
  <2>1. t = s /\ chunk = 0
    BY <1>1 DEF OnChunk, Safe, Listed, Holding
  <2>2. QED
    BY <1>1, <2>1
<1>2. CASE held # 0
  <2>1. /\ s \in Shape /\ s.reads \in Seq(Int) /\ DOMAIN s.reads = 1 .. Len(s.reads)
        /\ Len(s.reads) \in Nat /\ s.chunks \in Nat
    BY DEF Safe, Shape
  <2>2. /\ held \in DOMAIN s.reads /\ s.reads[held] = 0 /\ held \notin Range(s.read_requests)
        /\ 1 <= chunk /\ chunk <= s.chunks
    BY <1>2, <2>1 DEF Safe, Listed, Holding, Waiting
  <2>3. /\ [s.reads EXCEPT ![held] = chunk] \in Seq(Int)
        /\ Len([s.reads EXCEPT ![held] = chunk]) = Len(s.reads)
        /\ DOMAIN [s.reads EXCEPT ![held] = chunk] = DOMAIN s.reads
    BY <2>1, <2>2
  <2>4. t = [s EXCEPT !.reads = [s.reads EXCEPT ![held] = chunk]]
    BY <1>2, <2>1 DEF OnChunk, Shape
  <2>5. /\ t \in Shape /\ t.reads = [s.reads EXCEPT ![held] = chunk]
        /\ t.state = s.state /\ t.reader = s.reader /\ t.closed = s.closed
        /\ t.read_requests = s.read_requests /\ t.queue = s.queue
        /\ t.close_requested = s.close_requested /\ t.started = s.started
        /\ t.pulling = s.pulling /\ t.pull_again = s.pull_again /\ t.algorithms = s.algorithms
        /\ t.source = s.source /\ t.canceled = s.canceled /\ t.stack = s.stack
        /\ t.chunks = s.chunks /\ t.calls = s.calls /\ t.readers = s.readers
        /\ t.heard = s.heard /\ t.reentered = s.reentered /\ t.failed = s.failed
    BY <2>1, <2>3, <2>4, ZenonT(40) DEF Shape
  <2>6. /\ DOMAIN t.reads = DOMAIN s.reads /\ Len(t.reads) = Len(s.reads)
        /\ \A i \in DOMAIN s.reads : t.reads[i] = IF i = held THEN chunk ELSE s.reads[i]
    BY <2>1, <2>3, <2>5
  <2> HIDE DEF t
  <2>7. \A cb : FramesOf(t, cb) = FramesOf(s, cb)
    BY <2>5 DEF FramesOf
  <2>8. Bounded(t)
    <3>1. Cardinality(FramesOf(t, "size")) = Cardinality(FramesOf(s, "size"))
      BY <2>7
    <3>2. \A i \in DOMAIN t.reads : Failed <= t.reads[i] /\ t.reads[i] <= t.chunks
      BY <2>1, <2>2, <2>5, <2>6, SMTT(30) DEF Safe, Bounded, Failed
    <3>3. QED
      BY <2>5, <2>6, <3>1, <3>2 DEF Safe, Bounded
  <2>9. Asserted(t) /\ ReaderInformed(t)
    BY <2>5, <2>7 DEF Safe, Asserted, ReaderInformed
  <2>10. Listed(t, 0, 0)
    <3>1. \A k \in DOMAIN t.stack :
             /\ Holding(t, t.stack[k].read, t.stack[k].chunk)
             /\ t.stack[k].callback # "pull" => t.stack[k].read = 0
      BY <1>2, <2>1, <2>5, <2>6 DEF Safe, Listed, Holding
    <3>2. \A i \in DOMAIN t.read_requests :
             t.read_requests[i] \in DOMAIN t.reads /\ t.reads[t.read_requests[i]] = Waiting
      <4>1. \A i \in DOMAIN s.read_requests : s.read_requests[i] # held
        BY <2>2 DEF Range
      <4>2. QED
        BY <4>1, <2>5, <2>6 DEF Safe, Listed
    <3>3. \A i \in DOMAIN t.reads : t.reads[i] = Waiting =>
             i \in Range(t.read_requests) \/ \E k \in DOMAIN t.stack : t.stack[k].read = i
      BY <2>2, <2>5, <2>6 DEF Safe, Listed, Waiting
    <3>4. \A i, j \in DOMAIN t.read_requests :
             i < j => t.read_requests[i] < t.read_requests[j]
      BY <2>5 DEF Safe, Listed
    <3>5. QED
      BY <3>1, <3>2, <3>3, <3>4 DEF Listed, Holding
  <2>11. \A i, c \in Nat \ {0} : Gets(t, 0, 0, i, c) <=> Gets(s, held, chunk, i, c)
    BY <1>2, <2>2, <2>5, <2>6 DEF Gets
  <2>12. ~t.reentered => Ordered(t, 0, 0) /\ Kept(t, 0, 0)
    BY <2>5, <2>11, SameChunks DEF Safe
  <2>13. Heard(s) => Heard(t)
    BY <2>5 DEF Heard, can_close_or_enqueue
  <2>14. QED
    BY <2>5, <2>8, <2>9, <2>10, <2>12, <2>13 DEF Safe, t
<1>3. QED
  BY <1>1, <1>2

\* Script is called: the held read and its chunk go into the frame.
LEMMA PushedSafe ==
    ASSUME NEW s, NEW held \in Nat, NEW chunk \in Nat, Safe(s, held, chunk),
           NEW cb \in Callbacks, s.algorithms,
           cb # "pull" => held = 0,
           cb = "size" => s.chunks + Cardinality(FramesOf(s, "size")) < s.calls,
           cb = "cancel" => s.state # "readable",
           cb = "pull" => s.pulling /\ "pull" \notin s.source /\ FramesOf(s, "pull") = {}
    PROVE  /\ Safe(CallScript(s, cb, held, chunk), 0, 0)
           /\ Heard(s) => Heard(CallScript(s, cb, held, chunk))
<1> DEFINE f == Frame(cb, held, chunk)
           t == CallScript(s, cb, held, chunk)
           n == Len(s.stack) + 1
<1>1. /\ s \in Shape /\ s.stack \in Seq(Frames) /\ s.reads \in Seq(Int) /\ s.calls \in Nat
      /\ s.chunks \in Nat /\ ~s.failed /\ DOMAIN s.reads = 1 .. Len(s.reads)
      /\ s.failed \in BOOLEAN
  BY DEF Safe, Shape, Asserted
<1>2. f \in Frames /\ f.callback = cb /\ f.read = held /\ f.chunk = chunk
  BY DEF Frame, Frames
<1> HIDE DEF f
<1>3. /\ Append(s.stack, f) \in Seq(Frames) /\ Len(s.stack) \in Nat
      /\ DOMAIN s.stack = 1 .. Len(s.stack) /\ DOMAIN Append(s.stack, f) = 1 .. n
      /\ \A i \in 1 .. Len(s.stack) : Append(s.stack, f)[i] = s.stack[i]
      /\ Append(s.stack, f)[n] = f
  BY <1>1, <1>2, Appended
<1>4. t = [s EXCEPT !.failed = FALSE, !.stack = Append(s.stack, f)]
  BY <1>1 DEF CallScript, Verify, Shape, f
<1>5. /\ t \in Shape /\ t.stack = Append(s.stack, f) /\ ~t.failed
      /\ t.state = s.state /\ t.reader = s.reader /\ t.closed = s.closed
      /\ t.read_requests = s.read_requests /\ t.queue = s.queue /\ t.reads = s.reads
      /\ t.close_requested = s.close_requested /\ t.started = s.started
      /\ t.pulling = s.pulling /\ t.pull_again = s.pull_again /\ t.algorithms = s.algorithms
      /\ t.source = s.source /\ t.canceled = s.canceled
      /\ t.chunks = s.chunks /\ t.calls = s.calls /\ t.readers = s.readers
      /\ t.heard = s.heard /\ t.reentered = s.reentered
  BY <1>1, <1>3, <1>4, ZenonT(40) DEF Shape
<1> HIDE DEF t
<1>6. \A c \in Callbacks :
         /\ FramesOf(t, c) = IF cb = c THEN FramesOf(s, c) \cup {n} ELSE FramesOf(s, c)
         /\ Cardinality(FramesOf(s, c)) \in Nat
         /\ Cardinality(FramesOf(t, c)) =
               Cardinality(FramesOf(s, c)) + (IF cb = c THEN 1 ELSE 0)
  <2>1. s.stack \in Seq(Frames) /\ t.stack = Append(s.stack, f)
    BY <1>1, <1>5
  <2>2. QED
    BY <2>1, <1>2, FramesPushed
<1>7. Bounded(t)
  <2>1. t.chunks + Cardinality(FramesOf(t, "size")) <= t.calls
    BY <1>1, <1>5, <1>6 DEF Safe, Bounded, Callbacks
  <2>2. QED
    BY <1>5, <2>1 DEF Safe, Bounded
<1>8. Asserted(t)
  <2>1. t.state = "readable" => t.algorithms /\ FramesOf(t, "cancel") = {}
    BY <1>5, <1>6 DEF Safe, Asserted, Callbacks
  <2>2. /\ "pull" \in t.source => t.pulling /\ FramesOf(t, "pull") = {}
        /\ FramesOf(t, "pull") # {} => t.pulling
        /\ \A i, j \in FramesOf(t, "pull") : i = j
    BY <1>5, <1>6 DEF Safe, Asserted, Callbacks
  <2>3. QED
    BY <1>5, <2>1, <2>2 DEF Safe, Asserted
<1>9. ReaderInformed(t)
  BY <1>5 DEF Safe, ReaderInformed
<1>10. /\ DOMAIN t.stack = 1 .. n /\ DOMAIN s.stack = 1 .. Len(s.stack) /\ Len(s.stack) \in Nat
       /\ \A i \in 1 .. Len(s.stack) : t.stack[i] = s.stack[i]
       /\ t.stack[n] = f
  BY <1>3, <1>5
<1>11. Listed(t, 0, 0)
  <2>1. \A k \in DOMAIN t.stack :
           /\ Holding(t, t.stack[k].read, t.stack[k].chunk)
           /\ t.stack[k].callback # "pull" => t.stack[k].read = 0
    <3>1. Holding(t, held, chunk)
      BY <1>5 DEF Safe, Listed, Holding
    <3>2. \A k \in DOMAIN s.stack :
             /\ Holding(t, s.stack[k].read, s.stack[k].chunk)
             /\ s.stack[k].callback # "pull" => s.stack[k].read = 0
      BY <1>5 DEF Safe, Listed, Holding
    <3>3. \A k \in DOMAIN t.stack : k \in DOMAIN s.stack \/ k = n
      BY <1>10
    <3>4. QED
      BY <3>1, <3>2, <3>3, <1>2, <1>10
  <2>2. \A i \in DOMAIN t.reads : t.reads[i] = Waiting =>
           i \in Range(t.read_requests) \/ \E k \in DOMAIN t.stack : t.stack[k].read = i
    <3>1. n \in DOMAIN t.stack /\ t.stack[n].read = held
      BY <1>2, <1>10
    <3>2. \A k \in DOMAIN s.stack : k \in DOMAIN t.stack /\ t.stack[k].read = s.stack[k].read
      BY <1>10
    <3>3. QED
      BY <3>1, <3>2, <1>5 DEF Safe, Listed
  <2>3. QED
    BY <1>5, <2>1, <2>2 DEF Safe, Listed, Holding
<1>12. \A i, c \in Nat \ {0} : Gets(t, 0, 0, i, c) <=> Gets(s, held, chunk, i, c)
  BY <1>2, <1>5, <1>10 DEF Gets
<1>13. ~t.reentered => Ordered(t, 0, 0) /\ Kept(t, 0, 0)
  BY <1>5, <1>12, SameChunks DEF Safe
<1>14. Heard(s) => Heard(t)
  BY <1>5 DEF Heard, can_close_or_enqueue
<1>15. QED
  BY <1>5, <1>7, <1>8, <1>9, <1>11, <1>13, <1>14 DEF Safe, t

Pop(s) == [s EXCEPT !.stack = Front(@)]

\* Script returns: what its frame kept is held by the function that goes on.
LEMMA PoppedSafe ==
    ASSUME NEW s, Safe(s, 0, 0), s.stack # <<>>,
           NEW t, t = Pop(s), NEW f, f = Last(s.stack)
    PROVE  /\ Safe(t, f.read, f.chunk) /\ f \in Frames
           /\ f.callback # "pull" => f.read = 0 /\ f.chunk = 0
           /\ f.callback = "size" => t.chunks + Cardinality(FramesOf(t, "size")) < t.calls
           /\ f.callback = "cancel" => t.state # "readable"
           /\ f.callback = "pull" => t.pulling /\ "pull" \notin t.source /\ FramesOf(t, "pull") = {}
           /\ Heard(s) => Heard(t)
<1> DEFINE n == Len(s.stack)
<1>1. /\ s \in Shape /\ s.stack \in Seq(Frames) /\ s.reads \in Seq(Int) /\ s.calls \in Nat
      /\ s.chunks \in Nat /\ DOMAIN s.reads = 1 .. Len(s.reads)
  BY DEF Safe, Shape
<1>2. /\ Front(s.stack) \in Seq(Frames) /\ n \in Nat /\ n >= 1
      /\ DOMAIN s.stack = 1 .. n /\ DOMAIN Front(s.stack) = 1 .. n - 1
      /\ \A i \in 1 .. n - 1 : Front(s.stack)[i] = s.stack[i]
      /\ f = s.stack[n] /\ f \in Frames
  <2>1. /\ Front(s.stack) \in Seq(Frames) /\ Len(Front(s.stack)) = n - 1 /\ n >= 1
        /\ DOMAIN s.stack = 1 .. n /\ DOMAIN Front(s.stack) = 1 .. n - 1
        /\ \A i \in 1 .. n - 1 : Front(s.stack)[i] = s.stack[i]
        /\ Last(s.stack) = s.stack[n] /\ Last(s.stack) \in Frames
    BY <1>1, FrontOf, Zenon
  <2>2. n \in Nat
    BY <1>1
  <2>3. QED
    BY <2>1, <2>2
<1>3. /\ t \in Shape /\ t.stack = Front(s.stack) /\ t.failed = s.failed
      /\ t.state = s.state /\ t.reader = s.reader /\ t.closed = s.closed
      /\ t.read_requests = s.read_requests /\ t.queue = s.queue /\ t.reads = s.reads
      /\ t.close_requested = s.close_requested /\ t.started = s.started
      /\ t.pulling = s.pulling /\ t.pull_again = s.pull_again /\ t.algorithms = s.algorithms
      /\ t.source = s.source /\ t.canceled = s.canceled
      /\ t.chunks = s.chunks /\ t.calls = s.calls /\ t.readers = s.readers
      /\ t.heard = s.heard /\ t.reentered = s.reentered
  BY <1>1, <1>2 DEF Shape, Pop
<1>4. \A c \in Callbacks :
         /\ FramesOf(t, c) = FramesOf(s, c) \ {n}
         /\ Cardinality(FramesOf(t, c)) \in Nat
         /\ Cardinality(FramesOf(s, c)) =
               Cardinality(FramesOf(t, c)) + (IF f.callback = c THEN 1 ELSE 0)
  <2>1. s.stack \in Seq(Frames) /\ s.stack # <<>> /\ t.stack = Front(s.stack)
    BY <1>1, <1>3
  <2>2. \A c \in Callbacks :
           /\ FramesOf(t, c) = FramesOf(s, c) \ {n}
           /\ Cardinality(FramesOf(t, c)) \in Nat
           /\ Cardinality(FramesOf(s, c)) =
                 Cardinality(FramesOf(t, c)) + (IF Last(s.stack).callback = c THEN 1 ELSE 0)
    BY <2>1, FramesPopped
  <2>3. QED
    BY <2>2, Zenon
<1>5. /\ DOMAIN t.stack = 1 .. n - 1 /\ DOMAIN s.stack = 1 .. n /\ n \in Nat /\ n >= 1
      /\ \A i \in 1 .. n - 1 : t.stack[i] = s.stack[i]
      /\ s.stack[n] = f
  BY <1>2, <1>3
<1>6. /\ Bounded(t)
      /\ f.callback = "size" => t.chunks + Cardinality(FramesOf(t, "size")) < t.calls
  <2>1. /\ t.chunks + Cardinality(FramesOf(t, "size")) <= t.calls
        /\ f.callback = "size" => t.chunks + Cardinality(FramesOf(t, "size")) < t.calls
    BY <1>1, <1>3, <1>4 DEF Safe, Bounded, Callbacks
  <2>2. QED
    BY <1>3, <2>1 DEF Safe, Bounded
<1>7. /\ Asserted(t)
      /\ f.callback = "cancel" => t.state # "readable"
      /\ f.callback = "pull" => t.pulling /\ "pull" \notin t.source /\ FramesOf(t, "pull") = {}
  <2>1. FramesOf(t, "pull") \subseteq FramesOf(s, "pull")
        /\ FramesOf(t, "cancel") \subseteq FramesOf(s, "cancel")
    BY <1>4 DEF Callbacks
  <2>2. f.callback = "pull" => n \in FramesOf(s, "pull")
    BY <1>5 DEF FramesOf
  <2>3. f.callback = "cancel" => n \in FramesOf(s, "cancel")
    BY <1>5 DEF FramesOf
  <2>4. FramesOf(t, "pull") = FramesOf(s, "pull") \ {n}
    BY <1>4 DEF Callbacks
  <2>5. QED
    BY <1>3, <2>1, <2>2, <2>3, <2>4 DEF Safe, Asserted
<1>8. ReaderInformed(t)
  BY <1>3 DEF Safe, ReaderInformed
<1>9. /\ Holding(s, f.read, f.chunk)
      /\ f.callback # "pull" => f.read = 0 /\ f.chunk = 0
  BY <1>5 DEF Safe, Listed, Holding
<1>10. Listed(t, f.read, f.chunk)
  <2>1. Holding(t, f.read, f.chunk)
    BY <1>3, <1>9 DEF Holding
  <2>2. \A k \in DOMAIN t.stack :
           /\ Holding(t, t.stack[k].read, t.stack[k].chunk)
           /\ t.stack[k].callback # "pull" => t.stack[k].read = 0
    BY <1>3, <1>5 DEF Safe, Listed, Holding
  <2>3. ASSUME NEW k \in DOMAIN t.stack, t.stack[k].read = f.read, f.read # 0 PROVE FALSE
    <3>1. t.stack[k].callback = "pull" /\ f.callback = "pull"
      BY <2>2, <2>3, <1>9
    <3>2. k \in FramesOf(s, "pull") /\ n \in FramesOf(s, "pull") /\ k # n
      BY <3>1, <1>5 DEF FramesOf
    <3>3. QED
      BY <3>2 DEF Safe, Asserted
  <2>4. \A i \in DOMAIN t.reads : t.reads[i] = Waiting =>
           \/ i \in Range(t.read_requests) \/ i = f.read
           \/ \E k \in DOMAIN t.stack : t.stack[k].read = i
    <3>1. \A k \in DOMAIN s.stack : k = n \/ (k \in DOMAIN t.stack /\ t.stack[k] = s.stack[k])
      BY <1>5
    <3>2. 0 \notin DOMAIN s.reads
      BY <1>1
    <3>3. QED
      BY <3>1, <3>2, <1>3, <1>5 DEF Safe, Listed
  <2>5. QED
    BY <1>3, <2>1, <2>2, <2>3, <2>4 DEF Safe, Listed
<1>11. \A i, c \in Nat \ {0} : Gets(t, f.read, f.chunk, i, c) <=> Gets(s, 0, 0, i, c)
  <2> TAKE i, c \in Nat \ {0}
  <2>1. \A k \in DOMAIN s.stack : k = n \/ (k \in DOMAIN t.stack /\ t.stack[k] = s.stack[k])
    BY <1>5
  <2>2. \A k \in DOMAIN t.stack : k \in DOMAIN s.stack /\ t.stack[k] = s.stack[k]
    BY <1>5
  <2>3. n \in DOMAIN s.stack
    BY <1>5
  <2>4. Gets(t, f.read, f.chunk, i, c) => Gets(s, 0, 0, i, c)
    BY <1>3, <1>5, <2>2, <2>3 DEF Gets
  <2>5. Gets(s, 0, 0, i, c) => Gets(t, f.read, f.chunk, i, c)
    BY <1>3, <1>5, <2>1 DEF Gets
  <2>6. QED
    BY <2>4, <2>5
<1>12. ~t.reentered => Ordered(t, f.read, f.chunk) /\ Kept(t, f.read, f.chunk)
  BY <1>3, <1>11, SameChunks DEF Safe
<1>13. Heard(s) => Heard(t)
  BY <1>3 DEF Heard, can_close_or_enqueue
<1>14. QED
  BY <1>2, <1>3, <1>6, <1>7, <1>8, <1>9, <1>10, <1>12, <1>13 DEF Safe

----------------------------------------------------------------------------
(***************************************************************************)
(* Functions of the stream.                                                *)
(***************************************************************************)

\* pull() is called if it should be, and with that the source has heard of every
\* read that waits.
LEMMA CallPullSafe ==
    ASSUME NEW s, NEW held \in Nat, NEW chunk \in Nat, Safe(s, held, chunk)
    PROVE  /\ Safe(call_pull_if_needed(s, held, chunk), 0, 0)
           /\ Heard(call_pull_if_needed(s, held, chunk))
<1>1. /\ s \in Shape /\ Len(s.reads) \in Nat /\ DOMAIN s.reads = 1 .. Len(s.reads)
      /\ s.read_requests \in Seq(Nat)
  BY DEF Safe, Shape
<1>2. CASE ~should_call_pull(s)
  <2>1. call_pull_if_needed(s, held, chunk) = OnChunk(s, held, chunk)
    BY <1>2 DEF call_pull_if_needed
  <2>2. Heard(s)
    BY <1>2 DEF Heard, should_call_pull, HasReadRequest, Safe, ReaderInformed
  <2>3. QED
    BY <2>1, <2>2, OnChunkSafe
<1>3. CASE should_call_pull(s) /\ s.pulling
  <2> DEFINE t == [s EXCEPT !.pull_again = TRUE]
  <2>1. call_pull_if_needed(s, held, chunk) = OnChunk(t, held, chunk)
    BY <1>3 DEF call_pull_if_needed
  <2>2. /\ t \in Shape /\ t.stack = s.stack /\ t.failed = s.failed
        /\ t.state = s.state /\ t.reader = s.reader /\ t.closed = s.closed
        /\ t.read_requests = s.read_requests /\ t.queue = s.queue /\ t.reads = s.reads
        /\ t.started = s.started
        /\ t.pulling = s.pulling /\ t.pull_again /\ t.algorithms = s.algorithms
        /\ t.source = s.source /\ t.canceled = s.canceled
        /\ t.chunks = s.chunks /\ t.calls = s.calls /\ t.readers = s.readers
        /\ t.heard = s.heard /\ t.reentered = s.reentered
    BY <1>1 DEF Shape
  <2> HIDE DEF t
  <2>3. \A cb : FramesOf(t, cb) = FramesOf(s, cb)
    BY <2>2 DEF FramesOf
  <2>4. Bounded(t)
    BY <2>2, <2>3 DEF Safe, Bounded
  <2>5. Asserted(t) /\ ReaderInformed(t)
    BY <1>3, <2>2, <2>3 DEF Safe, Asserted, ReaderInformed
  <2>6. Safe(t, held, chunk)
    BY <2>2, <2>4, <2>5, SameReads DEF Safe
  <2>7. Heard(t)
    BY <1>3, <2>2 DEF Heard
  <2>8. QED
    BY <2>1, <2>6, <2>7, OnChunkSafe
<1>4. CASE should_call_pull(s) /\ ~s.pulling
  <2> DEFINE t == [Verify(s, ~s.pull_again) EXCEPT !.pulling = TRUE, !.heard = Len(s.reads)]
  <2>1. call_pull_if_needed(s, held, chunk) = CallScript(t, "pull", held, chunk)
    BY <1>4 DEF call_pull_if_needed
  <2>2. ~s.pull_again /\ ~s.failed /\ s.started /\ s.state = "readable"
    BY <1>4 DEF Safe, Asserted, should_call_pull, can_close_or_enqueue
  <2>3. /\ t \in Shape /\ t.stack = s.stack /\ ~t.failed
        /\ t.state = s.state /\ t.reader = s.reader /\ t.closed = s.closed
        /\ t.read_requests = s.read_requests /\ t.queue = s.queue /\ t.reads = s.reads
        /\ t.started = s.started
        /\ t.pulling /\ t.pull_again = s.pull_again /\ t.algorithms = s.algorithms
        /\ t.source = s.source /\ t.canceled = s.canceled
        /\ t.chunks = s.chunks /\ t.calls = s.calls /\ t.readers = s.readers
        /\ t.heard = Len(s.reads) /\ t.reentered = s.reentered
    BY <1>1, <2>2 DEF Shape, Verify
  <2> HIDE DEF t
  <2>4. \A cb : FramesOf(t, cb) = FramesOf(s, cb)
    BY <2>3 DEF FramesOf
  <2>5. Bounded(t)
    BY <2>3, <2>4 DEF Safe, Bounded
  <2>6. Asserted(t) /\ ReaderInformed(t)
    BY <2>2, <2>3, <2>4 DEF Safe, Asserted, ReaderInformed
  <2>7. Safe(t, held, chunk)
    BY <2>3, <2>5, <2>6, SameReads DEF Safe
  <2>8. Heard(t)
    <3>1. t.read_requests # <<>> => Len(t.read_requests) \in DOMAIN t.read_requests
      BY <1>1, <2>3
    <3>2. t.read_requests # <<>> => t.read_requests[Len(t.read_requests)] \in 1 .. Len(t.reads)
      BY <1>1, <2>3, <2>7, <3>1 DEF Safe, Listed
    <3>3. QED
      BY <1>1, <2>3, <3>2 DEF Heard
  <2>9. /\ t.algorithms /\ "pull" \notin t.source /\ FramesOf(t, "pull") = {}
    BY <1>4, <2>2, <2>3, <2>4 DEF Safe, Asserted
  <2>10. QED
    BY <2>1, <2>3, <2>7, <2>8, <2>9, PushedSafe DEF Callbacks
<1>5. QED
  BY <1>1, <1>2, <1>3, <1>4 DEF Shape

\* The reads that wait learn of the end, of an error or of the release of their
\* reader; nobody else's read is touched.
LEMMA SettledReads ==
    ASSUME NEW s, NEW t, NEW held \in Nat, NEW chunk \in Nat, Safe(s, held, chunk),
           NEW result \in {Ended, Failed}, t.read_requests = <<>>,
           t.reads = [i \in DOMAIN s.reads |->
                         IF i \in Range(s.read_requests) THEN result ELSE s.reads[i]],
           t.stack = s.stack, t.chunks = s.chunks, t.queue = s.queue \/ t.queue = <<>>
    PROVE  /\ t.reads \in Seq(Int) /\ Len(t.reads) = Len(s.reads)
           /\ \A i \in DOMAIN t.reads : Failed <= t.reads[i] /\ t.reads[i] <= t.chunks
           /\ Listed(t, held, chunk)
           /\ \A i, c \in Nat \ {0} : Gets(t, held, chunk, i, c) <=> Gets(s, held, chunk, i, c)
           /\ Ordered(s, held, chunk) => Ordered(t, held, chunk)
<1>1. /\ s \in Shape /\ Len(s.reads) \in Nat /\ DOMAIN s.reads = 1 .. Len(s.reads)
      /\ s.reads \in Seq(Int) /\ s.read_requests \in Seq(Nat) /\ s.chunks \in Nat
  BY DEF Safe, Shape
<1>2. result \in Int /\ result < 0 /\ result >= Failed /\ Failed \in Int
  BY DEF Ended, Failed
<1>3. t.reads \in Seq(Int) /\ Len(t.reads) = Len(s.reads) /\ DOMAIN t.reads = DOMAIN s.reads
  BY <1>1, <1>2
<1>4. \A i \in DOMAIN s.reads :
         t.reads[i] = IF i \in Range(s.read_requests) THEN result ELSE s.reads[i]
  OBVIOUS
<1>5. \A i \in Range(s.read_requests) : i \in DOMAIN s.reads /\ s.reads[i] = 0
  BY DEF Safe, Listed, Range, Waiting
<1>6. \A i \in DOMAIN t.reads : Failed <= t.reads[i] /\ t.reads[i] <= t.chunks
  BY <1>1, <1>2, <1>3, <1>4 DEF Safe, Bounded
<1>7. Range(t.read_requests) = {} /\ DOMAIN t.read_requests = {}
  BY DEF Range
<1>8. Listed(t, held, chunk)
  <2>1. ASSUME NEW h \in Nat, NEW x, Holding(s, h, x) PROVE Holding(t, h, x)
    <3>1. h # 0 => h \notin Range(s.read_requests) /\ s.reads[h] = Waiting
      BY <2>1 DEF Holding
    <3>2. h # 0 => h \in DOMAIN s.reads
      BY <2>1, <1>1 DEF Holding
    <3>3. QED
      BY <2>1, <3>1, <3>2, <1>3, <1>4, <1>7 DEF Holding
  <2>2. \A i \in DOMAIN t.reads : t.reads[i] = Waiting =>
           s.reads[i] = Waiting /\ i \notin Range(s.read_requests)
    BY <1>2, <1>3, <1>4 DEF Waiting
  <2>3. \A i \in DOMAIN t.reads : t.reads[i] = Waiting =>
           i = held \/ \E k \in DOMAIN t.stack : t.stack[k].read = i
    BY <1>3, <2>2 DEF Safe, Listed
  <2>4. \A k \in DOMAIN s.stack : s.stack[k].read \in Nat
    <3>1. s.stack \in Seq(Frames)
      BY <1>1 DEF Shape
    <3>2. \A k \in DOMAIN s.stack : s.stack[k] \in Frames
      BY <3>1
    <3>3. QED
      BY <3>2 DEF Frames
  <2>5. QED
    BY <1>7, <2>1, <2>3, <2>4 DEF Safe, Listed
<1>9. \A i, c \in Nat \ {0} : Gets(t, held, chunk, i, c) <=> Gets(s, held, chunk, i, c)
  <2>1. \A i \in DOMAIN s.reads, c \in Nat \ {0} : t.reads[i] = c <=> s.reads[i] = c
    BY <1>2, <1>4, <1>5
  <2>2. QED
    BY <1>3, <2>1 DEF Gets
<1>10. Ordered(s, held, chunk) => Ordered(t, held, chunk)
  <2>1. CASE t.queue = s.queue
    BY <2>1, <1>9, SameChunks
  <2>2. CASE t.queue = <<>>
    <3>1. DOMAIN t.queue = {}
      BY <2>2
    <3>2. QED
      BY <2>2, <3>1, <1>7, <1>9 DEF Ordered
  <2>3. QED
    BY <2>1, <2>2
<1>11. QED
  BY <1>3, <1>6, <1>8, <1>9, <1>10

\* A readable stream closes or errs.
LEMMA EndedSafe ==
    ASSUME NEW s, NEW t, NEW held \in Nat, NEW chunk \in Nat, Safe(s, held, chunk),
           s.state = "readable", t \in Shape, t.state = "closed" \/ t.state = "errored",
           NEW result \in {Ended, Failed}, t.read_requests = <<>>,
           t.reads = [i \in DOMAIN s.reads |->
                         IF i \in Range(s.read_requests) THEN result ELSE s.reads[i]],
           t.reader = s.reader,
           t.reader # 0 => t.closed = IF t.state = "closed" THEN "fulfilled" ELSE "rejected",
           t.queue = s.queue \/ t.queue = <<>>,
           \/ t.state = "errored" \/ t.canceled # "none"
           \/ s.queue = <<>> /\ t.canceled = s.canceled,
           t.started = s.started, t.pulling = s.pulling, t.pull_again = s.pull_again,
           t.source = s.source, t.stack = s.stack, t.chunks = s.chunks, t.calls = s.calls,
           t.readers = s.readers, t.reentered = s.reentered, ~t.failed
    PROVE  Safe(t, held, chunk) /\ Heard(t)
<1>1. /\ t.reads \in Seq(Int) /\ Len(t.reads) = Len(s.reads)
      /\ \A i \in DOMAIN t.reads : Failed <= t.reads[i] /\ t.reads[i] <= t.chunks
      /\ Listed(t, held, chunk)
      /\ \A i, c \in Nat \ {0} : Gets(t, held, chunk, i, c) <=> Gets(s, held, chunk, i, c)
      /\ Ordered(s, held, chunk) => Ordered(t, held, chunk)
  BY SettledReads
<1>2. \A cb : FramesOf(t, cb) = FramesOf(s, cb)
  BY DEF FramesOf
<1>3. Bounded(t)
  <2>1. \A i \in DOMAIN t.queue : 1 <= t.queue[i] /\ t.queue[i] <= t.chunks
    BY DEF Safe, Bounded
  <2>2. Cardinality(FramesOf(t, "size")) = Cardinality(FramesOf(s, "size"))
    BY <1>2
  <2>3. QED
    BY <1>1, <2>1, <2>2 DEF Safe, Bounded
<1>4. Asserted(t)
  BY <1>2 DEF Safe, Asserted
<1>5. ReaderInformed(t)
  BY DEF ReaderInformed
<1>6. Kept(s, held, chunk) => Kept(t, held, chunk)
  <2>1. SUFFICES ASSUME Kept(s, held, chunk), t.state # "errored", t.canceled = "none"
                 PROVE  /\ \A c \in 1 .. t.chunks : c \in Range(t.queue)
                               \/ \E i \in Nat \ {0} : Gets(t, held, chunk, i, c)
                        /\ t.state = "closed" => t.queue = <<>>
    BY DEF Kept
  <2>2. s.queue = <<>> /\ t.queue = <<>> /\ s.canceled = "none" /\ s.chunks \in Nat
    BY <2>1 DEF Safe, Shape
  <2>3. \A c \in 1 .. s.chunks : c \in Nat \ {0} /\ c \notin Range(s.queue)
    BY <2>2 DEF Range
  <2>4. \A c \in 1 .. s.chunks : \E i \in Nat \ {0} : Gets(s, held, chunk, i, c)
    BY <2>1, <2>2, <2>3 DEF Kept
  <2>5. QED
    BY <1>1, <2>2, <2>3, <2>4
<1>7. Heard(t)
  BY DEF Heard, can_close_or_enqueue
<1>8. QED
  BY <1>1, <1>3, <1>4, <1>5, <1>6, <1>7 DEF Safe

\* What readable_stream_close and readable_stream_error have in common.
Ending(u, state, closed, result) ==
    SettleReads([Verify(u, u.state = "readable") EXCEPT
                    !.state = state, !.closed = IF u.reader = 0 THEN @ ELSE closed], result)

\* The fields of a stream that closes or errs.
LEMMA EndFields ==
    ASSUME NEW u \in Shape, ~u.failed, u.state = "readable",
           NEW state \in {"closed", "errored"}, NEW closed \in {"fulfilled", "rejected"},
           NEW result \in {Ended, Failed}, NEW t,
           t = Ending(u, state, closed, result)
    PROVE  /\ t \in Shape /\ t.stack = u.stack /\ ~t.failed /\ t.algorithms = u.algorithms
           /\ t.state = state /\ t.reader = u.reader /\ t.read_requests = <<>>
           /\ t.reader # 0 => t.closed = closed
           /\ t.queue = u.queue
           /\ t.reads = [i \in DOMAIN u.reads |->
                            IF i \in Range(u.read_requests) THEN result ELSE u.reads[i]]
           /\ t.started = u.started /\ t.pulling = u.pulling /\ t.pull_again = u.pull_again
           /\ t.source = u.source /\ t.canceled = u.canceled
           /\ t.chunks = u.chunks /\ t.calls = u.calls /\ t.readers = u.readers
           /\ t.reentered = u.reentered
<1> DEFINE v == [Verify(u, u.state = "readable") EXCEPT
                    !.state = state, !.closed = IF u.reader = 0 THEN @ ELSE closed]
           reads == [i \in DOMAIN u.reads |->
                        IF i \in Range(u.read_requests) THEN result ELSE u.reads[i]]
<1>1. /\ v \in Shape /\ v.stack = u.stack /\ ~v.failed /\ v.algorithms = u.algorithms
      /\ v.state = state /\ v.reader = u.reader /\ v.read_requests = u.read_requests
      /\ v.reader # 0 => v.closed = closed
      /\ v.queue = u.queue /\ v.reads = u.reads
      /\ v.started = u.started /\ v.pulling = u.pulling /\ v.pull_again = u.pull_again
      /\ v.source = u.source /\ v.canceled = u.canceled
      /\ v.chunks = u.chunks /\ v.calls = u.calls /\ v.readers = u.readers
      /\ v.reentered = u.reentered
  BY DEF Shape, Verify
<1>2. t = SettleReads(v, result)
  BY DEF Ending
<1> HIDE DEF v
<1>3. u.reads \in Seq(Int) /\ result \in Int
  BY DEF Shape, Ended, Failed
<1>4. reads \in Seq(Int) /\ <<>> \in Seq(Nat)
  BY <1>3
<1>5. t = [v EXCEPT !.read_requests = <<>>, !.reads = reads]
  BY <1>1, <1>2 DEF SettleReads, Shape
<1> HIDE DEF reads
<1>6. /\ t \in Shape /\ t.stack = v.stack /\ t.failed = v.failed /\ t.algorithms = v.algorithms
      /\ t.state = v.state /\ t.reader = v.reader /\ t.read_requests = <<>>
      /\ t.closed = v.closed
      /\ t.queue = v.queue /\ t.reads = reads
      /\ t.started = v.started /\ t.pulling = v.pulling /\ t.pull_again = v.pull_again
      /\ t.source = v.source /\ t.canceled = v.canceled
      /\ t.chunks = v.chunks /\ t.calls = v.calls /\ t.readers = v.readers
      /\ t.reentered = v.reentered
  BY <1>1, <1>4, <1>5, ZenonT(40) DEF Shape
<1>7. QED
  BY <1>1, <1>6 DEF reads

\* error() of the controller, also while a chunk is held.
LEMMA ErrorSafe ==
    ASSUME NEW s, NEW held \in Nat, NEW chunk \in Nat, Safe(s, held, chunk)
    PROVE  /\ Safe(controller_error(s), held, chunk)
           /\ Heard(s) => Heard(controller_error(s))
<1>1. CASE s.state # "readable"
  BY <1>1 DEF controller_error
<1>2. CASE s.state = "readable"
  <2> DEFINE u == [clear_algorithms(s) EXCEPT !.queue = <<>>]
             t == readable_stream_error(u)
  <2>1. s \in Shape /\ ~s.failed /\ <<>> \in Seq(Nat)
    BY DEF Safe, Asserted
  <2>2. controller_error(s) = t
    BY <1>2 DEF controller_error
  <2>3. /\ u \in Shape /\ u.stack = s.stack /\ ~u.failed
        /\ u.state = "readable" /\ u.reader = s.reader /\ u.read_requests = s.read_requests
        /\ u.queue = <<>> /\ u.reads = s.reads
        /\ u.started = s.started /\ u.pulling = s.pulling /\ u.pull_again = s.pull_again
        /\ u.source = s.source /\ u.canceled = s.canceled
        /\ u.chunks = s.chunks /\ u.calls = s.calls /\ u.readers = s.readers
        /\ u.reentered = s.reentered
    BY <1>2, <2>1 DEF Shape, clear_algorithms
  <2> HIDE DEF u
  <2>4. t = Ending(u, "errored", "rejected", Failed)
    BY <2>3 DEF Ending, readable_stream_error, Verify, Shape
  <2> HIDE DEF t
  <2>5. /\ t \in Shape /\ t.stack = s.stack /\ ~t.failed
        /\ t.state = "errored" /\ t.reader = s.reader /\ t.read_requests = <<>>
        /\ t.reader # 0 => t.closed = "rejected"
        /\ t.queue = <<>>
        /\ t.reads = [i \in DOMAIN s.reads |->
                         IF i \in Range(s.read_requests) THEN Failed ELSE s.reads[i]]
        /\ t.started = s.started /\ t.pulling = s.pulling /\ t.pull_again = s.pull_again
        /\ t.source = s.source /\ t.canceled = s.canceled
        /\ t.chunks = s.chunks /\ t.calls = s.calls /\ t.readers = s.readers
        /\ t.reentered = s.reentered
    BY <2>3, <2>4, EndFields
  <2>6. Safe(t, held, chunk) /\ Heard(t)
    BY <1>2, <2>5, EndedSafe
  <2>7. QED
    BY <2>2, <2>6
<1>3. QED
  BY <1>1, <1>2

\* The stream is closed when its queue is empty.
LEMMA CloseSafe ==
    ASSUME NEW s, NEW held \in Nat, NEW chunk \in Nat, Safe(s, held, chunk),
           s.state = "readable", s.queue = <<>>
    PROVE  /\ Safe(readable_stream_close(clear_algorithms(s)), held, chunk)
           /\ Heard(readable_stream_close(clear_algorithms(s)))
<1> DEFINE u == clear_algorithms(s)
           t == readable_stream_close(u)
<1>1. s \in Shape /\ ~s.failed
  BY DEF Safe, Asserted
<1>2. /\ u \in Shape /\ u.stack = s.stack /\ ~u.failed
      /\ u.state = "readable" /\ u.reader = s.reader /\ u.read_requests = s.read_requests
      /\ u.queue = s.queue /\ u.reads = s.reads
      /\ u.started = s.started /\ u.pulling = s.pulling /\ u.pull_again = s.pull_again
      /\ u.source = s.source /\ u.canceled = s.canceled
      /\ u.chunks = s.chunks /\ u.calls = s.calls /\ u.readers = s.readers
      /\ u.reentered = s.reentered
  BY <1>1 DEF Shape, clear_algorithms
<1> HIDE DEF u
<1>3. t = Ending(u, "closed", "fulfilled", Ended)
  BY <1>2 DEF Ending, readable_stream_close, Verify, Shape
<1> HIDE DEF t
<1>4. /\ t \in Shape /\ t.stack = s.stack /\ ~t.failed
      /\ t.state = "closed" /\ t.reader = s.reader /\ t.read_requests = <<>>
      /\ t.reader # 0 => t.closed = "fulfilled"
      /\ t.queue = s.queue
      /\ t.reads = [i \in DOMAIN s.reads |->
                       IF i \in Range(s.read_requests) THEN Ended ELSE s.reads[i]]
      /\ t.started = s.started /\ t.pulling = s.pulling /\ t.pull_again = s.pull_again
      /\ t.source = s.source /\ t.canceled = s.canceled
      /\ t.chunks = s.chunks /\ t.calls = s.calls /\ t.readers = s.readers
      /\ t.reentered = s.reentered
  BY <1>2, <1>3, EndFields
<1>5. Safe(t, held, chunk) /\ Heard(t)
  BY <1>4, EndedSafe
<1>6. QED
  BY <1>5 DEF t, u

Canceled(s) == [readable_stream_close(s) EXCEPT !.queue = <<>>, !.canceled = "pending"]

\* cancel() closes the stream and empties its queue before the source is told.
LEMMA CancelSafe ==
    ASSUME NEW s, Safe(s, 0, 0), s.state = "readable", NEW t, t = Canceled(s)
    PROVE  Safe(t, 0, 0) /\ Heard(t) /\ t.algorithms /\ t.state = "closed"
<1> DEFINE u == readable_stream_close(s)
<1>1. s \in Shape /\ ~s.failed /\ s.algorithms
  BY DEF Safe, Asserted
<1>2. u = Ending(s, "closed", "fulfilled", Ended)
  BY <1>1 DEF Ending, readable_stream_close, Verify, Shape
<1> HIDE DEF u
<1>3. /\ u \in Shape /\ u.stack = s.stack /\ ~u.failed /\ u.algorithms
      /\ u.state = "closed" /\ u.reader = s.reader /\ u.read_requests = <<>>
      /\ u.reader # 0 => u.closed = "fulfilled"
      /\ u.reads = [i \in DOMAIN s.reads |->
                       IF i \in Range(s.read_requests) THEN Ended ELSE s.reads[i]]
      /\ u.started = s.started /\ u.pulling = s.pulling /\ u.pull_again = s.pull_again
      /\ u.source = s.source
      /\ u.chunks = s.chunks /\ u.calls = s.calls /\ u.readers = s.readers
      /\ u.reentered = s.reentered
  BY <1>1, <1>2, EndFields
<1>4. t = [u EXCEPT !.queue = <<>>, !.canceled = "pending"]
  BY DEF Canceled, u
<1>5. /\ t \in Shape /\ t.stack = u.stack /\ ~t.failed /\ t.algorithms
      /\ t.state = "closed" /\ t.reader = u.reader /\ t.read_requests = u.read_requests
      /\ t.closed = u.closed
      /\ t.queue = <<>> /\ t.reads = u.reads
      /\ t.started = u.started /\ t.pulling = u.pulling /\ t.pull_again = u.pull_again
      /\ t.source = u.source /\ t.canceled = "pending"
      /\ t.chunks = u.chunks /\ t.calls = u.calls /\ t.readers = u.readers
      /\ t.reentered = u.reentered
  BY <1>3, <1>4, ZenonT(40) DEF Shape
<1>6. Safe(t, 0, 0) /\ Heard(t)
  <2>1. /\ t.reader = s.reader
        /\ t.reader # 0 => t.closed = IF t.state = "closed" THEN "fulfilled" ELSE "rejected"
        /\ t.reads = [i \in DOMAIN s.reads |->
                         IF i \in Range(s.read_requests) THEN Ended ELSE s.reads[i]]
        /\ t.started = s.started /\ t.pulling = s.pulling /\ t.pull_again = s.pull_again
        /\ t.source = s.source /\ t.stack = s.stack /\ t.chunks = s.chunks
        /\ t.calls = s.calls /\ t.readers = s.readers /\ t.reentered = s.reentered
    BY <1>3, <1>5
  <2>2. /\ t \in Shape /\ ~t.failed /\ t.read_requests = <<>> /\ t.queue = <<>>
        /\ t.state = "closed" /\ t.canceled # "none" /\ 0 \in Nat
    BY <1>3, <1>5
  <2>3. QED
    BY <2>1, <2>2, EndedSafe
<1>7. QED
  BY <1>5, <1>6

----------------------------------------------------------------------------
(***************************************************************************)
(* Reads and chunks.                                                       *)
(***************************************************************************)

\* Only reads that were made get chunks, and only chunks that were made.
LEMMA GetsBound ==
    ASSUME NEW s, NEW held \in Nat, NEW chunk \in Nat, Safe(s, held, chunk),
           NEW i \in Nat \ {0}, NEW c \in Nat \ {0}, Gets(s, held, chunk, i, c)
    PROVE  i \in 1 .. Len(s.reads) /\ c <= s.chunks
<1>1. /\ s.reads \in Seq(Int) /\ Len(s.reads) \in Nat /\ DOMAIN s.reads = 1 .. Len(s.reads)
      /\ s.chunks \in Nat
  BY DEF Safe, Shape
<1>2. CASE i \in DOMAIN s.reads /\ s.reads[i] = c
  BY <1>1, <1>2 DEF Safe, Bounded
<1>3. ASSUME NEW k \in DOMAIN s.stack, s.stack[k].read = i, s.stack[k].chunk = c
      PROVE  i \in 1 .. Len(s.reads) /\ c <= s.chunks
  <2>1. Holding(s, i, c)
    BY <1>3 DEF Safe, Listed
  <2>2. QED
    BY <1>1, <2>1 DEF Holding
<1>4. CASE i = held /\ c = chunk
  BY <1>1, <1>4 DEF Safe, Listed, Holding
<1>5. QED
  BY <1>2, <1>3, <1>4 DEF Gets

\* read() of a stream that has ended.
LEMMA EndedRead ==
    ASSUME NEW s, Safe(s, 0, 0), s.state # "readable", Len(s.reads) < MaxReads,
           NEW result \in {Ended, Failed}, NEW t, t = [s EXCEPT !.reads = Append(@, result)]
    PROVE  Safe(t, 0, 0) /\ Heard(t)
<1> DEFINE n == Len(s.reads) + 1
<1>1. /\ s \in Shape /\ s.reads \in Seq(Int) /\ Len(s.reads) \in Nat
      /\ s.chunks \in Nat /\ s.stack \in Seq(Frames)
  BY DEF Safe, Shape
<1>2. result \in Int /\ result < 0 /\ result >= Failed /\ Failed \in Int
  BY DEF Ended, Failed
<1>3. /\ Append(s.reads, result) \in Seq(Int) /\ Len(Append(s.reads, result)) = n
      /\ DOMAIN s.reads = 1 .. Len(s.reads) /\ DOMAIN Append(s.reads, result) = 1 .. n
      /\ \A i \in 1 .. Len(s.reads) : Append(s.reads, result)[i] = s.reads[i]
      /\ Append(s.reads, result)[n] = result
  BY <1>1, <1>2, Appended
<1>4. /\ t \in Shape /\ t.reads = Append(s.reads, result)
      /\ t.state = s.state /\ t.reader = s.reader /\ t.closed = s.closed
      /\ t.read_requests = s.read_requests /\ t.queue = s.queue
      /\ t.close_requested = s.close_requested /\ t.started = s.started
      /\ t.pulling = s.pulling /\ t.pull_again = s.pull_again
      /\ t.algorithms = s.algorithms /\ t.source = s.source /\ t.canceled = s.canceled
      /\ t.stack = s.stack /\ t.chunks = s.chunks /\ t.calls = s.calls
      /\ t.readers = s.readers /\ t.heard = s.heard /\ t.reentered = s.reentered
      /\ t.failed = s.failed
  BY <1>1, <1>3 DEF Shape
<1>5. /\ Len(t.reads) = n /\ DOMAIN t.reads = 1 .. n
      /\ \A i \in 1 .. Len(s.reads) : t.reads[i] = s.reads[i]
      /\ t.reads[n] = result
  BY <1>3, <1>4
<1>6. \A cb : FramesOf(t, cb) = FramesOf(s, cb)
  BY <1>4 DEF FramesOf
<1>7. s.read_requests = <<>> /\ MaxReads \in Nat
  BY ReadableBounds DEF Safe, ReaderInformed
<1>8. Bounded(t)
  <2>1. \A i \in DOMAIN t.reads : Failed <= t.reads[i] /\ t.reads[i] <= t.chunks
    <3>1. \A i \in DOMAIN t.reads : i \in 1 .. Len(s.reads) \/ i = n
      BY <1>1, <1>5
    <3>2. QED
      BY <1>1, <1>2, <1>3, <1>4, <1>5, <3>1 DEF Safe, Bounded
  <2>2. Len(t.reads) <= MaxReads
    BY <1>1, <1>5, <1>7
  <2>3. Cardinality(FramesOf(t, "size")) = Cardinality(FramesOf(s, "size"))
    BY <1>6
  <2>4. QED
    BY <1>4, <2>1, <2>2, <2>3 DEF Safe, Bounded
<1>9. Asserted(t) /\ ReaderInformed(t)
  BY <1>4, <1>6 DEF Safe, Asserted, ReaderInformed
<1>10. Listed(t, 0, 0)
  <2>1. \A k \in DOMAIN s.stack : s.stack[k].read \in Nat
    <3>1. \A k \in DOMAIN s.stack : s.stack[k] \in Frames
      BY <1>1
    <3>2. QED
      BY <3>1 DEF Frames
  <2>2. \A k \in DOMAIN t.stack :
           /\ Holding(t, t.stack[k].read, t.stack[k].chunk)
           /\ t.stack[k].callback # "pull" => t.stack[k].read = 0
    BY <1>1, <1>3, <1>4, <1>5, <2>1 DEF Safe, Listed, Holding
  <2>3. \A i \in DOMAIN t.reads : t.reads[i] = Waiting => i \in DOMAIN s.reads /\ s.reads[i] = Waiting
    BY <1>1, <1>2, <1>3, <1>5 DEF Waiting
  <2>4. \A i \in DOMAIN t.reads : t.reads[i] = Waiting =>
           i \in Range(t.read_requests) \/ \E k \in DOMAIN t.stack : t.stack[k].read = i
    <3>1. 0 \notin DOMAIN s.reads
      BY <1>3
    <3>2. QED
      BY <1>4, <2>3, <3>1 DEF Safe, Listed
  <2>5. DOMAIN t.read_requests = {}
    BY <1>4, <1>7
  <2>6. QED
    BY <2>2, <2>4, <2>5 DEF Listed, Holding
<1>11. \A i, c \in Nat \ {0} : Gets(t, 0, 0, i, c) <=> Gets(s, 0, 0, i, c)
  <2>1. \A i, c \in Nat \ {0} : (i \in DOMAIN t.reads /\ t.reads[i] = c)
                                   <=> (i \in DOMAIN s.reads /\ s.reads[i] = c)
    BY <1>1, <1>2, <1>3, <1>5
  <2>2. QED
    BY <1>4, <2>1 DEF Gets
<1>12. ~t.reentered => Ordered(t, 0, 0) /\ Kept(t, 0, 0)
  BY <1>4, <1>11, SameChunks DEF Safe
<1>13. Heard(t)
  BY <1>4 DEF Heard, can_close_or_enqueue
<1>14. QED
  BY <1>4, <1>8, <1>9, <1>10, <1>12, <1>13 DEF Safe

\* A read begins to wait: the queue is empty.
WaitingRead(s) ==
    readable_stream_add_read_request([s EXCEPT !.reads = Append(@, Waiting)])

\* read() of a readable stream whose queue is empty.
LEMMA WaitingReadSafe ==
    ASSUME NEW s, Safe(s, 0, 0), s.state = "readable", s.reader # 0, s.queue = <<>>,
           Len(s.reads) < MaxReads, NEW t, t = WaitingRead(s)
    PROVE  Safe(t, 0, 0)
<1> DEFINE n == Len(s.reads) + 1
           u == [s EXCEPT !.reads = Append(@, Waiting)]
           m == Len(s.read_requests) + 1
<1>1. /\ s \in Shape /\ s.reads \in Seq(Int) /\ Len(s.reads) \in Nat
      /\ s.chunks \in Nat /\ s.stack \in Seq(Frames) /\ ~s.failed
      /\ s.read_requests \in Seq(Nat) /\ Len(s.read_requests) \in Nat
  BY DEF Safe, Shape, Asserted
<1>2. Waiting \in Int /\ Waiting = 0 /\ Failed \in Int /\ Failed <= 0
  BY DEF Waiting, Failed
<1>3. /\ Append(s.reads, Waiting) \in Seq(Int) /\ Len(Append(s.reads, Waiting)) = n
      /\ DOMAIN s.reads = 1 .. Len(s.reads) /\ DOMAIN Append(s.reads, Waiting) = 1 .. n
      /\ \A i \in 1 .. Len(s.reads) : Append(s.reads, Waiting)[i] = s.reads[i]
      /\ Append(s.reads, Waiting)[n] = Waiting
  BY <1>1, <1>2, Appended
<1>4. n \in Nat /\ MaxReads \in Nat
  BY <1>1, ReadableBounds
<1>5. /\ Append(s.read_requests, n) \in Seq(Nat) /\ Len(Append(s.read_requests, n)) = m
      /\ DOMAIN s.read_requests = 1 .. Len(s.read_requests)
      /\ DOMAIN Append(s.read_requests, n) = 1 .. m
      /\ \A i \in 1 .. Len(s.read_requests) : Append(s.read_requests, n)[i] = s.read_requests[i]
      /\ Append(s.read_requests, n)[m] = n
      /\ Range(Append(s.read_requests, n)) = Range(s.read_requests) \cup {n}
  BY <1>1, <1>4, Appended, SMTT(30)
<1>6. /\ u \in Shape /\ u.reads = Append(s.reads, Waiting)
      /\ u.state = s.state /\ u.reader = s.reader /\ u.closed = s.closed
      /\ u.read_requests = s.read_requests /\ u.queue = s.queue
      /\ u.close_requested = s.close_requested /\ u.started = s.started
      /\ u.pulling = s.pulling /\ u.pull_again = s.pull_again
      /\ u.algorithms = s.algorithms /\ u.source = s.source /\ u.canceled = s.canceled
      /\ u.stack = s.stack /\ u.chunks = s.chunks /\ u.calls = s.calls
      /\ u.readers = s.readers /\ u.heard = s.heard /\ u.reentered = s.reentered
      /\ u.failed = s.failed
  BY <1>1, <1>3 DEF Shape
<1>7. t = [Verify(u, TRUE) EXCEPT !.read_requests = Append(u.read_requests, n)]
  <2>1. t = readable_stream_add_read_request(u) /\ Len(u.reads) = n
    BY <1>3, <1>6 DEF WaitingRead
  <2>2. u.reader # 0 /\ u.state = "readable"
    BY <1>6
  <2> HIDE DEF u, n
  <2>3. QED
    BY <1>6, <2>1, <2>2 DEF readable_stream_add_read_request, Verify, Shape
<1> HIDE DEF u
<1>8. /\ t \in Shape /\ t.read_requests = Append(s.read_requests, n)
      /\ t.reads = Append(s.reads, Waiting) /\ ~t.failed
      /\ t.state = s.state /\ t.reader = s.reader /\ t.closed = s.closed
      /\ t.queue = s.queue /\ t.close_requested = s.close_requested
      /\ t.started = s.started /\ t.pulling = s.pulling /\ t.pull_again = s.pull_again
      /\ t.algorithms = s.algorithms /\ t.source = s.source /\ t.canceled = s.canceled
      /\ t.stack = s.stack /\ t.chunks = s.chunks /\ t.calls = s.calls
      /\ t.readers = s.readers /\ t.heard = s.heard /\ t.reentered = s.reentered
  <2> DEFINE a == Append(u.read_requests, n)
  <2>1. a \in Seq(Nat) /\ a = Append(s.read_requests, n) /\ ~u.failed
    BY <1>1, <1>5, <1>6
  <2>2. t = [Verify(u, TRUE) EXCEPT !.read_requests = a]
    BY <1>7
  <2> HIDE DEF a, n
  <2>3. /\ t \in Shape /\ t.read_requests = a /\ ~t.failed
        /\ t.state = u.state /\ t.reader = u.reader /\ t.closed = u.closed
        /\ t.queue = u.queue /\ t.close_requested = u.close_requested
        /\ t.started = u.started /\ t.pulling = u.pulling /\ t.pull_again = u.pull_again
        /\ t.algorithms = u.algorithms /\ t.source = u.source /\ t.canceled = u.canceled
        /\ t.reads = u.reads /\ t.stack = u.stack /\ t.chunks = u.chunks
        /\ t.calls = u.calls /\ t.readers = u.readers /\ t.heard = u.heard
        /\ t.reentered = u.reentered
    BY <1>6, <2>1, <2>2, ZenonT(40) DEF Shape, Verify
  <2>4. QED
    BY <1>6, <2>1, <2>3
<1>9. /\ Len(t.reads) = n /\ DOMAIN t.reads = 1 .. n
      /\ \A i \in 1 .. Len(s.reads) : t.reads[i] = s.reads[i]
      /\ t.reads[n] = Waiting
      /\ Len(t.read_requests) = m /\ DOMAIN t.read_requests = 1 .. m
      /\ \A i \in 1 .. Len(s.read_requests) : t.read_requests[i] = s.read_requests[i]
      /\ t.read_requests[m] = n
      /\ Range(t.read_requests) = Range(s.read_requests) \cup {n}
  BY <1>3, <1>5, <1>8
<1>10. \A cb : FramesOf(t, cb) = FramesOf(s, cb)
  BY <1>8 DEF FramesOf
<1>11. /\ \A i \in DOMAIN t.reads : i \in DOMAIN s.reads \/ i = n
       /\ \A i \in DOMAIN t.read_requests : i \in DOMAIN s.read_requests \/ i = m
  BY <1>1, <1>3, <1>5, <1>9
<1>12. Bounded(t)
  <2>1. \A i \in DOMAIN t.reads : Failed <= t.reads[i] /\ t.reads[i] <= t.chunks
    BY <1>1, <1>2, <1>3, <1>8, <1>9, <1>11 DEF Safe, Bounded
  <2>2. Len(t.reads) <= MaxReads
    BY <1>1, <1>4, <1>9
  <2>3. Cardinality(FramesOf(t, "size")) = Cardinality(FramesOf(s, "size"))
    BY <1>10
  <2>4. QED
    BY <1>8, <2>1, <2>2, <2>3 DEF Safe, Bounded
<1>13. Asserted(t)
  BY <1>8, <1>10 DEF Safe, Asserted
<1>14. ReaderInformed(t)
  BY <1>8 DEF Safe, ReaderInformed
<1>15. \A k \in DOMAIN s.stack : s.stack[k].read \in Nat
  <2>1. \A k \in DOMAIN s.stack : s.stack[k] \in Frames
    BY <1>1
  <2>2. QED
    BY <2>1 DEF Frames
<1>16. \A i \in DOMAIN s.read_requests :
          s.read_requests[i] \in 1 .. Len(s.reads) /\ s.reads[s.read_requests[i]] = Waiting
  BY <1>3 DEF Safe, Listed
<1>17. Listed(t, 0, 0)
  <2>1. \A k \in DOMAIN t.stack :
           /\ Holding(t, t.stack[k].read, t.stack[k].chunk)
           /\ t.stack[k].callback # "pull" => t.stack[k].read = 0
    <3>1. ASSUME NEW h \in Nat, NEW y, Holding(s, h, y) PROVE Holding(t, h, y)
      <4>1. CASE h = 0
        BY <3>1, <4>1 DEF Holding
      <4>2. CASE h # 0
        <5>1. h \in 1 .. Len(s.reads) /\ h # n
          BY <1>1, <3>1, <4>2 DEF Holding
        <5>2. t.reads[h] = Waiting /\ h \notin Range(t.read_requests) /\ h <= Len(t.reads)
          BY <1>1, <1>9, <3>1, <4>2, <5>1, SMTT(30) DEF Holding
        <5>3. QED
          BY <1>8, <3>1, <4>2, <5>2 DEF Holding
      <4>3. QED
        BY <4>1, <4>2
    <3>2. QED
      BY <1>8, <1>15, <3>1 DEF Safe, Listed
  <2>2. ASSUME NEW i \in DOMAIN t.read_requests
        PROVE  t.read_requests[i] \in DOMAIN t.reads /\ t.reads[t.read_requests[i]] = Waiting
    <3>1. CASE i \in DOMAIN s.read_requests
      <4>1. t.read_requests[i] = s.read_requests[i] /\ s.read_requests[i] \in 1 .. Len(s.reads)
        BY <1>5, <1>9, <1>16, <3>1
      <4>2. s.read_requests[i] \in 1 .. n
        BY <1>1, <4>1
      <4>3. t.reads[s.read_requests[i]] = s.reads[s.read_requests[i]]
        BY <1>9, <4>1
      <4>4. QED
        BY <1>9, <1>16, <3>1, <4>1, <4>2, <4>3
    <3>2. CASE i = m
      BY <1>1, <1>9, <3>2
    <3>3. QED
      BY <1>11, <3>1, <3>2
  <2>3. ASSUME NEW i \in DOMAIN t.read_requests, NEW j \in DOMAIN t.read_requests, i < j
        PROVE  t.read_requests[i] < t.read_requests[j]
    <3>1. i \in DOMAIN s.read_requests
      BY <1>1, <1>5, <1>9, <2>3
    <3>2. t.read_requests[i] = s.read_requests[i] /\ s.read_requests[i] < n
      <4>1. t.read_requests[i] = s.read_requests[i] /\ s.read_requests[i] \in 1 .. Len(s.reads)
        BY <1>5, <1>9, <1>16, <3>1
      <4>2. s.read_requests[i] < n
        BY <1>1, <4>1
      <4>3. QED
        BY <4>1, <4>2
    <3>3. CASE j = m
      BY <1>9, <3>2, <3>3
    <3>4. CASE j \in DOMAIN s.read_requests
      BY <1>5, <1>9, <2>3, <3>1, <3>4 DEF Safe, Listed
    <3>5. QED
      BY <1>11, <3>3, <3>4
  <2>4. \A i \in DOMAIN t.reads : t.reads[i] = Waiting =>
           i \in Range(t.read_requests) \/ \E k \in DOMAIN t.stack : t.stack[k].read = i
    <3>1. 0 \notin DOMAIN s.reads
      BY <1>3
    <3>2. QED
      BY <1>3, <1>8, <1>9, <1>11, <3>1 DEF Safe, Listed
  <2>5. QED
    BY <2>1, <2>2, <2>3, <2>4 DEF Listed, Holding
<1>18. \A i, c \in Nat \ {0} : Gets(t, 0, 0, i, c) <=> Gets(s, 0, 0, i, c)
  <2>1. \A i, c \in Nat \ {0} : (i \in DOMAIN t.reads /\ t.reads[i] = c)
                                   <=> (i \in DOMAIN s.reads /\ s.reads[i] = c)
    BY <1>1, <1>2, <1>3, <1>9, <1>11
  <2>2. QED
    BY <1>8, <2>1 DEF Gets
<1>19. Ordered(s, 0, 0) => Ordered(t, 0, 0)
  <2> SUFFICES ASSUME Ordered(s, 0, 0) PROVE Ordered(t, 0, 0)
    OBVIOUS
  <2>1. t.queue = <<>> /\ DOMAIN t.queue = {}
    BY <1>8
  <2>2. ASSUME NEW i \in Nat \ {0}, NEW c \in Nat \ {0}, Gets(t, 0, 0, i, c)
        PROVE  /\ \A k \in DOMAIN t.read_requests : i < t.read_requests[k]
               /\ \A j, d \in Nat \ {0} : Gets(t, 0, 0, j, d) /\ i < j => c < d
    <3>1. Gets(s, 0, 0, i, c)
      BY <1>18, <2>2
    <3>2. i < n
      BY <1>1, <3>1, GetsBound
    <3>3. \A k \in DOMAIN t.read_requests : i < t.read_requests[k]
      BY <1>5, <1>9, <1>11, <3>1, <3>2 DEF Ordered
    <3>4. \A j, d \in Nat \ {0} : Gets(t, 0, 0, j, d) /\ i < j => c < d
      BY <1>18, <3>1 DEF Ordered
    <3>5. QED
      BY <3>3, <3>4
  <2>3. QED
    BY <2>1, <2>2 DEF Ordered
<1>20. Kept(s, 0, 0) => Kept(t, 0, 0)
  <2>1. \A c \in 1 .. s.chunks : c \in Nat \ {0}
    BY <1>1
  <2>2. QED
    BY <1>8, <1>18, <2>1 DEF Kept
<1>21. QED
  BY <1>8, <1>12, <1>13, <1>14, <1>17, <1>19, <1>20 DEF Safe

\* A read takes the first chunk of the queue.
TakingRead(s) == [s EXCEPT !.reads = Append(@, Waiting), !.queue = Tail(@)]

\* read() of a readable stream whose queue is not empty: the read and its chunk are
\* held.
LEMMA TakingReadSafe ==
    ASSUME NEW s, Safe(s, 0, 0), s.state = "readable", s.queue # <<>>,
           Len(s.reads) < MaxReads, NEW t, t = TakingRead(s)
    PROVE  Safe(t, Len(s.reads) + 1, Head(s.queue))
<1> DEFINE n == Len(s.reads) + 1
           x == Head(s.queue)
<1>1. /\ s \in Shape /\ s.reads \in Seq(Int) /\ Len(s.reads) \in Nat
      /\ s.chunks \in Nat /\ s.stack \in Seq(Frames) /\ s.queue \in Seq(Nat)
      /\ s.read_requests \in Seq(Nat)
  BY DEF Safe, Shape
<1>2. Waiting \in Int /\ Waiting = 0 /\ Failed \in Int /\ Failed <= 0
  BY DEF Waiting, Failed
<1>3. /\ Append(s.reads, Waiting) \in Seq(Int) /\ Len(Append(s.reads, Waiting)) = n
      /\ DOMAIN s.reads = 1 .. Len(s.reads) /\ DOMAIN Append(s.reads, Waiting) = 1 .. n
      /\ \A i \in 1 .. Len(s.reads) : Append(s.reads, Waiting)[i] = s.reads[i]
      /\ Append(s.reads, Waiting)[n] = Waiting
  BY <1>1, <1>2, Appended
<1>4. n \in Nat /\ MaxReads \in Nat
  BY <1>1, ReadableBounds
<1>5. /\ Tail(s.queue) \in Seq(Nat) /\ Len(s.queue) >= 1 /\ Len(s.queue) \in Nat
      /\ DOMAIN s.queue = 1 .. Len(s.queue) /\ DOMAIN Tail(s.queue) = 1 .. Len(s.queue) - 1
      /\ \A i \in 1 .. Len(s.queue) - 1 : Tail(s.queue)[i] = s.queue[i + 1]
      /\ x = s.queue[1] /\ x \in Nat
      /\ Range(s.queue) = Range(Tail(s.queue)) \cup {x}
  <2>1. Len(s.queue) \in Nat
    BY <1>1
  <2>2. QED
    BY <1>1, <2>1, Shortened
<1>6. /\ t \in Shape /\ t.reads = Append(s.reads, Waiting) /\ t.queue = Tail(s.queue)
      /\ t.state = s.state /\ t.reader = s.reader /\ t.closed = s.closed
      /\ t.read_requests = s.read_requests /\ t.close_requested = s.close_requested
      /\ t.started = s.started /\ t.pulling = s.pulling /\ t.pull_again = s.pull_again
      /\ t.algorithms = s.algorithms /\ t.source = s.source /\ t.canceled = s.canceled
      /\ t.stack = s.stack /\ t.chunks = s.chunks /\ t.calls = s.calls
      /\ t.readers = s.readers /\ t.heard = s.heard /\ t.reentered = s.reentered
      /\ t.failed = s.failed
  BY <1>1, <1>3, <1>5 DEF Shape, TakingRead
<1> HIDE DEF x
<1>7. /\ Len(t.reads) = n /\ DOMAIN t.reads = 1 .. n
      /\ \A i \in 1 .. Len(s.reads) : t.reads[i] = s.reads[i]
      /\ t.reads[n] = Waiting
      /\ DOMAIN t.queue = 1 .. Len(s.queue) - 1
      /\ \A i \in 1 .. Len(s.queue) - 1 : t.queue[i] = s.queue[i + 1]
      /\ Range(s.queue) = Range(t.queue) \cup {x}
  BY <1>3, <1>5, <1>6
<1>8. \A cb : FramesOf(t, cb) = FramesOf(s, cb)
  BY <1>6 DEF FramesOf
<1>9. /\ \A i \in DOMAIN t.reads : i \in DOMAIN s.reads \/ i = n
      /\ \A i \in DOMAIN t.queue :
            i + 1 \in DOMAIN s.queue /\ t.queue[i] = s.queue[i + 1] /\ i + 1 > 1 /\ i \in Int
  <2>1. \A i \in DOMAIN t.reads : i \in DOMAIN s.reads \/ i = n
    BY <1>1, <1>3, <1>7
  <2>2. \A i \in DOMAIN t.queue :
            i + 1 \in DOMAIN s.queue /\ t.queue[i] = s.queue[i + 1] /\ i + 1 > 1 /\ i \in Int
    BY <1>5, <1>7, SMTT(30)
  <2>3. QED
    BY <2>1, <2>2
<1>10. 1 <= x /\ x <= s.chunks
  BY <1>5 DEF Safe, Bounded
<1>11. Bounded(t)
  <2>1. \A i \in DOMAIN t.reads : Failed <= t.reads[i] /\ t.reads[i] <= t.chunks
    BY <1>1, <1>2, <1>3, <1>6, <1>7, <1>9 DEF Safe, Bounded
  <2>2. Len(t.reads) <= MaxReads
    BY <1>1, <1>4, <1>7
  <2>3. Cardinality(FramesOf(t, "size")) = Cardinality(FramesOf(s, "size"))
    BY <1>8
  <2>4. \A i \in DOMAIN t.queue : 1 <= t.queue[i] /\ t.queue[i] <= t.chunks
    BY <1>6, <1>9 DEF Safe, Bounded
  <2>5. QED
    BY <1>6, <2>1, <2>2, <2>3, <2>4 DEF Safe, Bounded
<1>12. Asserted(t) /\ ReaderInformed(t)
  BY <1>6, <1>8 DEF Safe, Asserted, ReaderInformed
<1>13. \A k \in DOMAIN s.stack : s.stack[k].read \in Nat /\ s.stack[k].read < n
  <2>1. \A k \in DOMAIN s.stack : s.stack[k] \in Frames
    BY <1>1
  <2>2. \A k \in DOMAIN s.stack : s.stack[k].read \in Nat
    BY <2>1 DEF Frames
  <2>3. \A k \in DOMAIN s.stack : s.stack[k].read # 0 => s.stack[k].read <= Len(s.reads)
    BY DEF Safe, Listed, Holding
  <2>4. ASSUME NEW k \in DOMAIN s.stack PROVE s.stack[k].read < n
    <3>1. s.stack[k].read \in Nat /\ (s.stack[k].read # 0 => s.stack[k].read <= Len(s.reads))
      BY <2>2, <2>3
    <3>2. QED
      BY <1>1, <3>1
  <2>5. QED
    BY <2>2, <2>4
<1>14. \A i \in DOMAIN s.read_requests :
          s.read_requests[i] \in 1 .. Len(s.reads) /\ s.reads[s.read_requests[i]] = Waiting
  BY <1>3 DEF Safe, Listed
<1>15. Listed(t, n, x)
  <2>1. \A k \in DOMAIN t.stack :
           /\ Holding(t, t.stack[k].read, t.stack[k].chunk)
           /\ t.stack[k].callback # "pull" => t.stack[k].read = 0
           /\ t.stack[k].read # n
    BY <1>1, <1>3, <1>6, <1>7, <1>13, SMTT(30) DEF Safe, Listed, Holding
  <2>2. \A i \in DOMAIN t.read_requests :
           t.read_requests[i] \in DOMAIN t.reads /\ t.reads[t.read_requests[i]] = Waiting
    BY <1>1, <1>3, <1>6, <1>7, <1>14
  <2>3. \A i, j \in DOMAIN t.read_requests :
           i < j => t.read_requests[i] < t.read_requests[j]
    BY <1>6 DEF Safe, Listed
  <2>4. \A i \in DOMAIN t.reads : t.reads[i] = Waiting =>
           \/ i \in Range(t.read_requests) \/ i = n
           \/ \E k \in DOMAIN t.stack : t.stack[k].read = i
    <3>1. 0 \notin DOMAIN s.reads
      BY <1>3
    <3>2. QED
      BY <1>3, <1>6, <1>7, <1>9, <3>1, SMTT(30) DEF Safe, Listed
  <2>5. Holding(t, n, x)
    <3>1. n \notin Range(s.read_requests)
      BY <1>1, <1>14 DEF Range
    <3>2. QED
      BY <1>1, <1>6, <1>7, <1>10, <3>1 DEF Holding
  <2>6. QED
    BY <2>1, <2>2, <2>3, <2>4, <2>5 DEF Listed
<1>16. \A i, c \in Nat \ {0} : Gets(t, n, x, i, c) <=> Gets(s, 0, 0, i, c) \/ (i = n /\ c = x)
  <2>1. \A i, c \in Nat \ {0} : (i \in DOMAIN t.reads /\ t.reads[i] = c)
                                   <=> (i \in DOMAIN s.reads /\ s.reads[i] = c)
    BY <1>1, <1>2, <1>3, <1>7, <1>9, SMTT(30)
  <2>2. QED
    BY <1>6, <2>1 DEF Gets
<1>17. Ordered(s, 0, 0) => Ordered(t, n, x)
  <2> SUFFICES ASSUME Ordered(s, 0, 0) PROVE Ordered(t, n, x)
    OBVIOUS
  <2>1. t.read_requests = <<>> /\ DOMAIN t.read_requests = {}
    BY <1>6 DEF Ordered
  <2>2. ASSUME NEW i \in DOMAIN t.queue, NEW j \in DOMAIN t.queue, i < j
        PROVE  t.queue[i] < t.queue[j]
    <3>1. /\ i + 1 \in DOMAIN s.queue /\ j + 1 \in DOMAIN s.queue /\ i + 1 < j + 1
          /\ t.queue[i] = s.queue[i + 1] /\ t.queue[j] = s.queue[j + 1]
      BY <1>9, <2>2
    <3>2. QED
      BY <3>1 DEF Ordered
  <2>3. ASSUME NEW k \in DOMAIN t.queue PROVE x < t.queue[k]
    <3>1. k + 1 \in DOMAIN s.queue /\ 1 \in DOMAIN s.queue /\ 1 < k + 1 /\ t.queue[k] = s.queue[k + 1]
      BY <1>5, <1>9
    <3>2. QED
      BY <1>5, <3>1 DEF Ordered
  <2>4. ASSUME NEW i \in Nat \ {0}, NEW c \in Nat \ {0}, Gets(s, 0, 0, i, c)
        PROVE  i < n /\ c < x /\ \A k \in DOMAIN t.queue : c < t.queue[k]
    <3>1. i < n
      <4>1. i \in 1 .. Len(s.reads)
        BY <2>4, GetsBound
      <4>2. QED
        BY <1>1, <4>1
    <3>2. \A k \in DOMAIN s.queue : c < s.queue[k]
      BY <2>4 DEF Ordered
    <3>3. c < x
      BY <1>5, <3>2
    <3>4. \A k \in DOMAIN t.queue : c < t.queue[k]
      BY <1>9, <3>2
    <3>5. QED
      BY <3>1, <3>3, <3>4
  <2>5. ASSUME NEW i \in Nat \ {0}, NEW c \in Nat \ {0}, Gets(t, n, x, i, c),
               NEW j \in Nat \ {0}, NEW d \in Nat \ {0}, Gets(t, n, x, j, d), i < j
        PROVE  c < d
    <3>1. CASE Gets(s, 0, 0, i, c) /\ Gets(s, 0, 0, j, d)
      BY <2>5, <3>1 DEF Ordered
    <3>2. CASE Gets(s, 0, 0, i, c) /\ j = n /\ d = x
      BY <2>4, <3>2
    <3>3. CASE i = n /\ c = x /\ Gets(s, 0, 0, j, d)
      <4>1. j < n
        BY <2>4, <3>3
      <4>2. QED
        BY <1>4, <2>5, <3>3, <4>1
    <3>4. CASE i = n /\ j = n
      BY <1>4, <2>5, <3>4
    <3>5. QED
      BY <1>16, <2>5, <3>1, <3>2, <3>3, <3>4
  <2>6. \A i, c \in Nat \ {0} : Gets(t, n, x, i, c) => \A k \in DOMAIN t.queue : c < t.queue[k]
    BY <1>16, <2>3, <2>4
  <2>7. QED
    BY <2>1, <2>2, <2>5, <2>6 DEF Ordered
<1>18. Kept(s, 0, 0) => Kept(t, n, x)
  <2> SUFFICES ASSUME Kept(s, 0, 0), t.state # "errored", t.canceled = "none"
               PROVE  \A c \in 1 .. t.chunks : c \in Range(t.queue)
                         \/ \E i \in Nat \ {0} : Gets(t, n, x, i, c)
    BY <1>6 DEF Kept
  <2>1. \A c \in 1 .. s.chunks : c \in Nat \ {0}
    BY <1>1
  <2>2. \A c \in 1 .. s.chunks :
           c \in Range(t.queue) \/ c = x \/ \E i \in Nat \ {0} : Gets(s, 0, 0, i, c)
    BY <1>6, <1>7 DEF Kept
  <2>3. n \in Nat \ {0} /\ x \in Nat \ {0}
    BY <1>1, <1>5, <1>10
  <2>4. QED
    BY <1>6, <1>16, <2>1, <2>2, <2>3
<1>19. QED
  BY <1>6, <1>11, <1>12, <1>15, <1>17, <1>18 DEF Safe, x

\* A new chunk and the first read that waits are held together.
Matched(s) == [s EXCEPT !.chunks = @ + 1, !.read_requests = Tail(@)]

\* enqueue() gives the chunk to the first read that waits.
LEMMA MatchedSafe ==
    ASSUME NEW s, Safe(s, 0, 0), s.read_requests # <<>>,
           s.chunks + Cardinality(FramesOf(s, "size")) < s.calls, NEW t, t = Matched(s)
    PROVE  Safe(t, Head(s.read_requests), s.chunks + 1)
<1> DEFINE n == Head(s.read_requests)
           x == s.chunks + 1
<1>1. /\ s \in Shape /\ s.reads \in Seq(Int) /\ Len(s.reads) \in Nat
      /\ DOMAIN s.reads = 1 .. Len(s.reads) /\ s.stack \in Seq(Frames)
      /\ s.chunks \in Nat /\ x \in Nat \ {0} /\ s.calls \in Nat
      /\ s.read_requests \in Seq(Nat) /\ s.queue \in Seq(Nat)
  BY DEF Safe, Shape
<1>2. /\ Tail(s.read_requests) \in Seq(Nat) /\ Len(s.read_requests) >= 1
      /\ Len(s.read_requests) \in Nat
      /\ DOMAIN s.read_requests = 1 .. Len(s.read_requests)
      /\ DOMAIN Tail(s.read_requests) = 1 .. Len(s.read_requests) - 1
      /\ \A i \in 1 .. Len(s.read_requests) - 1 :
            Tail(s.read_requests)[i] = s.read_requests[i + 1]
      /\ n = s.read_requests[1]
      /\ Range(s.read_requests) = Range(Tail(s.read_requests)) \cup {n}
  <2>1. Len(s.read_requests) \in Nat
    BY <1>1
  <2>2. QED
    BY <1>1, <2>1, Shortened
<1>3. /\ t \in Shape /\ t.chunks = x /\ t.read_requests = Tail(s.read_requests)
      /\ t.state = s.state /\ t.reader = s.reader /\ t.closed = s.closed
      /\ t.queue = s.queue /\ t.close_requested = s.close_requested
      /\ t.started = s.started /\ t.pulling = s.pulling /\ t.pull_again = s.pull_again
      /\ t.algorithms = s.algorithms /\ t.source = s.source /\ t.canceled = s.canceled
      /\ t.reads = s.reads /\ t.stack = s.stack /\ t.calls = s.calls
      /\ t.readers = s.readers /\ t.heard = s.heard /\ t.reentered = s.reentered
      /\ t.failed = s.failed
  BY <1>1, <1>2 DEF Shape, Matched
<1> HIDE DEF n, x
<1>4. \A i \in DOMAIN t.read_requests : /\ i + 1 \in DOMAIN s.read_requests /\ i + 1 > 1 /\ i \in Int
                                        /\ t.read_requests[i] = s.read_requests[i + 1]
  BY <1>2, <1>3
<1>5. Range(s.read_requests) = Range(t.read_requests) \cup {n}
  BY <1>2, <1>3
<1>6. 1 \in DOMAIN s.read_requests /\ n \in 1 .. Len(s.reads) /\ s.reads[n] = Waiting
  <2>1. 1 \in DOMAIN s.read_requests
    BY <1>2
  <2>2. QED
    BY <1>1, <1>2, <2>1 DEF Safe, Listed
<1>7. \A i \in DOMAIN t.read_requests : n < t.read_requests[i]
  BY <1>2, <1>4, <1>6 DEF Safe, Listed
<1>8. x = s.chunks + 1
  BY DEF x
<1>9. \A cb : FramesOf(t, cb) = FramesOf(s, cb)
  BY <1>3 DEF FramesOf
<1>10. Cardinality(FramesOf(s, "size")) \in Nat
  <2>1. FramesOf(s, "size") \subseteq 1 .. Len(s.stack) /\ Len(s.stack) \in Nat
    BY <1>1 DEF FramesOf
  <2>2. IsFiniteSet(1 .. Len(s.stack))
    BY <2>1, FS_Interval
  <2>3. QED
    BY <2>1, <2>2, FS_Subset, FS_CardinalityType
<1>11. Bounded(t)
  <2>1. ASSUME NEW i \in DOMAIN t.reads
        PROVE  Failed <= t.reads[i] /\ t.reads[i] <= t.chunks
    <3>1. i \in DOMAIN s.reads /\ t.reads[i] = s.reads[i]
      BY <1>3
    <3>2. Failed <= s.reads[i] /\ s.reads[i] <= s.chunks
      BY <3>1 DEF Safe, Bounded
    <3>3. s.reads[i] \in Int
      BY <1>1, <3>1
    <3>4. QED
      BY <1>1, <1>3, <1>8, <3>1, <3>2, <3>3
  <2>2. \A i \in DOMAIN t.queue : 1 <= t.queue[i] /\ t.queue[i] <= t.chunks
    BY <1>1, <1>3, <1>8 DEF Safe, Bounded
  <2>3. t.chunks + Cardinality(FramesOf(t, "size")) <= t.calls
    BY <1>1, <1>3, <1>8, <1>9, <1>10
  <2>4. QED
    BY <1>3, <2>1, <2>2, <2>3 DEF Safe, Bounded
<1>12. Asserted(t)
  BY <1>3, <1>9 DEF Safe, Asserted
<1>13. ReaderInformed(t)
  BY <1>3 DEF Safe, ReaderInformed
<1>14. \A k \in DOMAIN s.stack : Holding(s, s.stack[k].read, s.stack[k].chunk) /\ s.stack[k].read # n
  BY <1>5, <1>6 DEF Safe, Listed, Holding
<1>15. ASSUME NEW h, NEW y, Holding(s, h, y) PROVE h = 0 \/ (y \in Nat => Holding(t, h, y))
  BY <1>1, <1>3, <1>5, <1>8, <1>15 DEF Holding
<1>16. Listed(t, n, x)
  <2>1. \A k \in DOMAIN s.stack : s.stack[k].chunk \in Nat
    <3>1. \A k \in DOMAIN s.stack : s.stack[k] \in Frames
      BY <1>1
    <3>2. QED
      BY <3>1 DEF Frames
  <2>2. \A k \in DOMAIN t.stack :
           /\ Holding(t, t.stack[k].read, t.stack[k].chunk)
           /\ t.stack[k].callback # "pull" => t.stack[k].read = 0
           /\ t.stack[k].read = n => n = 0
    <3>1. \A k \in DOMAIN s.stack : Holding(t, s.stack[k].read, s.stack[k].chunk)
      BY <1>14, <1>15, <2>1 DEF Holding
    <3>2. QED
      BY <1>3, <1>14, <3>1 DEF Safe, Listed
  <2>3. \A i \in DOMAIN t.read_requests :
           t.read_requests[i] \in DOMAIN t.reads /\ t.reads[t.read_requests[i]] = Waiting
    BY <1>3, <1>4 DEF Safe, Listed
  <2>4. ASSUME NEW i \in DOMAIN t.read_requests, NEW j \in DOMAIN t.read_requests, i < j
        PROVE  t.read_requests[i] < t.read_requests[j]
    <3>1. /\ i + 1 \in DOMAIN s.read_requests /\ j + 1 \in DOMAIN s.read_requests
          /\ i + 1 < j + 1
          /\ t.read_requests[i] = s.read_requests[i + 1]
          /\ t.read_requests[j] = s.read_requests[j + 1]
      BY <1>4, <2>4
    <3>2. QED
      BY <3>1 DEF Safe, Listed
  <2>5. \A i \in DOMAIN t.reads : t.reads[i] = Waiting =>
           \/ i \in Range(t.read_requests) \/ i = n
           \/ \E k \in DOMAIN t.stack : t.stack[k].read = i
    <3>1. 0 \notin DOMAIN s.reads
      BY <1>1
    <3>2. QED
      BY <1>3, <1>5, <3>1 DEF Safe, Listed
  <2>6. Holding(t, n, x)
    <3>1. n \notin Range(t.read_requests)
      BY <1>1, <1>6, <1>7 DEF Range
    <3>2. QED
      BY <1>1, <1>3, <1>6, <1>8, <3>1 DEF Holding
  <2>7. QED
    BY <2>2, <2>3, <2>4, <2>5, <2>6 DEF Listed
<1>17. \A i, c \in Nat \ {0} : Gets(t, n, x, i, c) <=> Gets(s, 0, 0, i, c) \/ (i = n /\ c = x)
  BY <1>3 DEF Gets
<1>18. Ordered(s, 0, 0) => Ordered(t, n, x)
  <2> SUFFICES ASSUME Ordered(s, 0, 0) PROVE Ordered(t, n, x)
    OBVIOUS
  <2>1. t.queue = <<>> /\ DOMAIN t.queue = {}
    BY <1>3 DEF Ordered
  <2>2. ASSUME NEW i \in Nat \ {0}, NEW c \in Nat \ {0}, Gets(s, 0, 0, i, c)
        PROVE  i < n /\ c < x /\ \A k \in DOMAIN t.read_requests : i < t.read_requests[k]
    <3>1. c <= s.chunks
      BY <2>2, GetsBound
    <3>2. \A k \in DOMAIN s.read_requests : i < s.read_requests[k]
      BY <2>2 DEF Ordered
    <3>3. i < n
      BY <1>2, <1>6, <3>2
    <3>4. \A k \in DOMAIN t.read_requests : i < t.read_requests[k]
      BY <1>4, <3>2
    <3>5. c < x
      BY <1>1, <1>8, <3>1
    <3>6. QED
      BY <3>3, <3>4, <3>5
  <2>3. ASSUME NEW i \in Nat \ {0}, NEW c \in Nat \ {0}, Gets(t, n, x, i, c),
               NEW j \in Nat \ {0}, NEW d \in Nat \ {0}, Gets(t, n, x, j, d), i < j
        PROVE  c < d
    <3>1. CASE Gets(s, 0, 0, i, c) /\ Gets(s, 0, 0, j, d)
      BY <2>3, <3>1 DEF Ordered
    <3>2. CASE Gets(s, 0, 0, i, c) /\ j = n /\ d = x
      BY <2>2, <3>2
    <3>3. CASE i = n /\ c = x /\ Gets(s, 0, 0, j, d)
      <4>1. j < n
        BY <2>2, <3>3
      <4>2. QED
        BY <2>3, <3>3, <4>1
    <3>4. CASE i = n /\ j = n
      BY <2>3, <3>4
    <3>5. QED
      BY <1>17, <2>3, <3>1, <3>2, <3>3, <3>4
  <2>4. \A i, c \in Nat \ {0} : Gets(t, n, x, i, c) =>
           \A k \in DOMAIN t.read_requests : i < t.read_requests[k]
    BY <1>7, <1>17, <2>2
  <2>5. QED
    BY <2>1, <2>3, <2>4 DEF Ordered
<1>19. Kept(s, 0, 0) => Kept(t, n, x)
  <2> SUFFICES ASSUME Kept(s, 0, 0), t.state # "errored", t.canceled = "none"
               PROVE  /\ \A c \in 1 .. t.chunks : c \in Range(t.queue)
                            \/ \E i \in Nat \ {0} : Gets(t, n, x, i, c)
                      /\ t.state = "closed" => t.queue = <<>>
    BY DEF Kept
  <2>1. \A c \in 1 .. t.chunks : c \in Nat \ {0} /\ (c = x \/ c \in 1 .. s.chunks)
    BY <1>1, <1>3, <1>8
  <2>2. \A c \in 1 .. s.chunks :
           c \in Range(t.queue) \/ \E i \in Nat \ {0} : Gets(s, 0, 0, i, c)
    BY <1>3 DEF Kept
  <2>3. n \in Nat \ {0} /\ x \in Nat \ {0}
    BY <1>1, <1>6
  <2>4. t.state = "closed" => t.queue = <<>>
    BY <1>3 DEF Kept
  <2>5. QED
    BY <1>17, <2>1, <2>2, <2>3, <2>4
<1>20. QED
  BY <1>3, <1>11, <1>12, <1>13, <1>16, <1>18, <1>19 DEF Safe, n, x

\* size() has returned and the chunk enters the queue.
Queued(s, reentered) ==
    [s EXCEPT !.chunks = @ + 1, !.queue = Append(@, s.chunks + 1), !.reentered = reentered]

\* A chunk enters the queue, of a stream that was perhaps changed by size().
LEMMA QueuedSafe ==
    ASSUME NEW s, Safe(s, 0, 0), s.chunks + Cardinality(FramesOf(s, "size")) < s.calls,
           NEW reentered \in BOOLEAN,
           ~reentered => ~s.reentered /\ s.state = "readable" /\ s.read_requests = <<>>,
           NEW t, t = Queued(s, reentered)
    PROVE  Safe(t, 0, 0)
<1> DEFINE x == s.chunks + 1
           q == Append(s.queue, x)
           n == Len(s.queue) + 1
<1>1. /\ s \in Shape /\ s.reads \in Seq(Int)
      /\ s.stack \in Seq(Frames) /\ s.queue \in Seq(Nat) /\ Len(s.queue) \in Nat
      /\ s.chunks \in Nat /\ x \in Nat \ {0} /\ s.calls \in Nat
  BY DEF Safe, Shape
<1>2. /\ q \in Seq(Nat) /\ DOMAIN s.queue = 1 .. Len(s.queue) /\ DOMAIN q = 1 .. n
      /\ \A i \in 1 .. Len(s.queue) : q[i] = s.queue[i]
      /\ q[n] = x /\ Range(q) = Range(s.queue) \cup {x}
  <2>1. x \in Nat /\ s.queue \in Seq(Nat)
    BY <1>1
  <2> HIDE DEF x
  <2>2. QED
    BY <2>1, Appended
<1>3. t = [s EXCEPT !.chunks = x, !.queue = q, !.reentered = reentered]
  BY <1>1 DEF Queued, Shape
<1> HIDE DEF q, x
<1>4. /\ t \in Shape /\ t.chunks = x /\ t.queue = q /\ (reentered => t.reentered)
      /\ t.state = s.state /\ t.reader = s.reader /\ t.closed = s.closed
      /\ t.read_requests = s.read_requests /\ t.close_requested = s.close_requested
      /\ t.started = s.started /\ t.pulling = s.pulling /\ t.pull_again = s.pull_again
      /\ t.algorithms = s.algorithms /\ t.source = s.source /\ t.canceled = s.canceled
      /\ t.reads = s.reads /\ t.stack = s.stack /\ t.calls = s.calls
      /\ t.readers = s.readers /\ t.heard = s.heard /\ t.failed = s.failed
  BY <1>1, <1>2, <1>3, ZenonT(40) DEF Shape
<1>5. x = s.chunks + 1
  BY DEF x
<1>6. \A cb : FramesOf(t, cb) = FramesOf(s, cb)
  BY <1>4 DEF FramesOf
<1>7. Cardinality(FramesOf(s, "size")) \in Nat
  <2>1. FramesOf(s, "size") \subseteq 1 .. Len(s.stack) /\ Len(s.stack) \in Nat
    BY <1>1 DEF FramesOf
  <2>2. IsFiniteSet(1 .. Len(s.stack))
    BY <2>1, FS_Interval
  <2>3. QED
    BY <2>1, <2>2, FS_Subset, FS_CardinalityType
<1>8. \A i \in DOMAIN t.queue : (i \in DOMAIN s.queue /\ t.queue[i] = s.queue[i] /\ i < n)
                                  \/ (i = n /\ t.queue[i] = x)
  <2>1. \A i \in 1 .. n : (i \in 1 .. Len(s.queue) /\ i < n) \/ i = n
    BY <1>1
  <2>2. DOMAIN t.queue = 1 .. n /\ \A i \in 1 .. Len(s.queue) : t.queue[i] = s.queue[i]
    BY <1>2, <1>4
  <2>3. t.queue[n] = x
    BY <1>2, <1>4
  <2> HIDE DEF n
  <2>4. QED
    BY <1>2, <2>1, <2>2, <2>3
<1>9. Bounded(t)
  <2>1. \A i \in DOMAIN t.reads : Failed <= t.reads[i] /\ t.reads[i] <= t.chunks
    BY <1>1, <1>4, <1>5 DEF Safe, Bounded
  <2>2. \A i \in DOMAIN t.queue : 1 <= t.queue[i] /\ t.queue[i] <= t.chunks
    BY <1>1, <1>4, <1>5, <1>8 DEF Safe, Bounded
  <2>3. t.chunks + Cardinality(FramesOf(t, "size")) <= t.calls
    BY <1>1, <1>4, <1>5, <1>6, <1>7
  <2>4. QED
    BY <1>4, <2>1, <2>2, <2>3 DEF Safe, Bounded
<1>10. Asserted(t) /\ ReaderInformed(t)
  BY <1>4, <1>6 DEF Safe, Asserted, ReaderInformed
<1>11. Listed(t, 0, 0)
  <2>1. \A k \in DOMAIN s.stack : s.stack[k].chunk \in Nat
    <3>1. \A k \in DOMAIN s.stack : s.stack[k] \in Frames
      BY <1>1
    <3>2. QED
      BY <3>1 DEF Frames
  <2>2. ASSUME NEW k \in DOMAIN s.stack PROVE Holding(t, s.stack[k].read, s.stack[k].chunk)
    <3>1. Holding(s, s.stack[k].read, s.stack[k].chunk)
      BY DEF Safe, Listed
    <3>2. QED
      BY <1>1, <1>4, <1>5, <2>1, <3>1 DEF Holding
  <2>3. QED
    BY <1>4, <2>2 DEF Safe, Listed, Holding
<1>12. \A i, c \in Nat \ {0} : Gets(t, 0, 0, i, c) <=> Gets(s, 0, 0, i, c)
  BY <1>4 DEF Gets
<1>13. ~reentered => Ordered(t, 0, 0)
  <2> SUFFICES ASSUME ~reentered PROVE Ordered(t, 0, 0)
    OBVIOUS
  <2>1. Ordered(s, 0, 0) /\ t.read_requests = <<>> /\ DOMAIN t.read_requests = {}
    BY <1>4 DEF Safe
  <2>2. \A i, j \in DOMAIN t.queue : i < j => t.queue[i] < t.queue[j]
    <3>1. \A i \in DOMAIN s.queue : s.queue[i] < x
      BY <1>1, <1>5 DEF Safe, Bounded
    <3>2. ASSUME NEW i \in DOMAIN t.queue, NEW j \in DOMAIN t.queue, i < j
          PROVE  t.queue[i] < t.queue[j]
      <4>1. i \in DOMAIN s.queue /\ t.queue[i] = s.queue[i]
        BY <1>1, <1>2, <1>4, <1>8, <3>2, SMTT(30)
      <4>2. CASE j = n
        BY <1>2, <1>4, <3>1, <4>1, <4>2
      <4>3. CASE j \in DOMAIN s.queue /\ t.queue[j] = s.queue[j]
        BY <2>1, <3>2, <4>1, <4>3 DEF Ordered
      <4>4. QED
        BY <1>8, <4>2, <4>3
    <3>3. QED
      BY <3>2
  <2>3. ASSUME NEW i \in Nat \ {0}, NEW c \in Nat \ {0}, Gets(s, 0, 0, i, c)
        PROVE  \A k \in DOMAIN t.queue : c < t.queue[k]
    <3>1. c <= s.chunks
      BY <2>3, GetsBound
    <3>2. c < x
      BY <1>1, <1>5, <3>1
    <3>3. \A k \in DOMAIN s.queue : c < s.queue[k]
      BY <2>1, <2>3 DEF Ordered
    <3>4. QED
      BY <1>8, <3>2, <3>3
  <2>4. QED
    BY <1>12, <2>1, <2>2, <2>3 DEF Ordered
<1>14. ~reentered => Kept(t, 0, 0)
  <2> SUFFICES ASSUME ~reentered, t.canceled = "none"
               PROVE  \A c \in 1 .. t.chunks : c \in Range(t.queue)
                         \/ \E i \in Nat \ {0} : Gets(t, 0, 0, i, c)
    BY <1>4 DEF Kept
  <2>1. \A c \in 1 .. t.chunks : c \in Nat \ {0} /\ (c = x \/ c \in 1 .. s.chunks)
    BY <1>1, <1>4, <1>5
  <2>2. \A c \in 1 .. s.chunks :
           c \in Range(s.queue) \/ \E i \in Nat \ {0} : Gets(s, 0, 0, i, c)
    BY <1>4 DEF Safe, Kept
  <2>3. Range(t.queue) = Range(s.queue) \cup {x}
    BY <1>2, <1>4
  <2>4. QED
    BY <1>12, <2>1, <2>2, <2>3
<1>15. QED
  BY <1>4, <1>9, <1>10, <1>11, <1>13, <1>14 DEF Safe

----------------------------------------------------------------------------
(***************************************************************************)
(* The actions.                                                            *)
(***************************************************************************)

\* Changes that touch neither the reads nor the chunks.
LEMMA MinorSafe ==
    ASSUME NEW s, NEW t, NEW held \in Nat, NEW chunk \in Nat, Safe(s, held, chunk), t \in Shape,
           t.reads = s.reads, t.stack = s.stack, t.read_requests = s.read_requests,
           t.queue = s.queue, t.chunks = s.chunks, t.state = s.state,
           t.canceled = s.canceled \/ t.canceled # "none",
           ~t.reentered => ~s.reentered, s.calls <= t.calls, t.calls <= MaxChunks,
           t.reader <= t.readers, t.readers <= MaxReaders, Asserted(t), ReaderInformed(t)
    PROVE  Safe(t, held, chunk)
<1>1. FramesOf(t, "size") = FramesOf(s, "size")
  BY DEF FramesOf
<1>2. s.stack \in Seq(Frames) /\ s.calls \in Nat /\ t.calls \in Nat /\ s.chunks \in Nat
  BY DEF Safe, Shape
<1>3. Cardinality(FramesOf(s, "size")) \in Nat
  <2>1. FramesOf(s, "size") \subseteq 1 .. Len(s.stack) /\ Len(s.stack) \in Nat
    BY <1>2 DEF FramesOf
  <2>2. IsFiniteSet(1 .. Len(s.stack))
    BY <2>1, FS_Interval
  <2>3. QED
    BY <2>1, <2>2, FS_Subset, FS_CardinalityType
<1>4. t.chunks + Cardinality(FramesOf(t, "size")) <= t.calls
  BY <1>1, <1>2, <1>3 DEF Safe, Bounded
<1>5. Bounded(t)
  BY <1>4 DEF Safe, Bounded
<1>6. QED
  BY <1>5, SameReads DEF Safe

\* A reader comes or goes; those who read through it learn that it is gone.
LEMMA ReaderSteps ==
    ASSUME IInv, get_reader \/ release_lock
    PROVE  IInv'
<1>1. r \in Shape /\ Safe(r, 0, 0) /\ Heard(r) /\ Asserted(r)
  BY DEF IInv, Safe
<1>2. CASE get_reader
  <2>0. /\ r.reader = 0 /\ r.readers + 1 <= MaxReaders /\ r.readers \in Nat
        /\ MaxReaders \in Nat /\ r.calls \in Nat /\ r.calls <= MaxChunks
        /\ r.read_requests = <<>>
    BY <1>1, <1>2, ReadableBounds DEF get_reader, Shape, Safe, Bounded, ReaderInformed
  <2> DEFINE closed == CASE r.state = "readable" -> "pending"
                         [] r.state = "closed" -> "fulfilled"
                         [] OTHER -> "rejected"
  <2>1. /\ closed \in {"none", "pending", "fulfilled", "rejected"} /\ r.readers + 1 \in Nat
        /\ r' = [r EXCEPT !.readers = r.readers + 1, !.reader = r.readers + 1, !.closed = closed]
    BY <1>1, <1>2, <2>0 DEF get_reader, Shape
  <2> HIDE DEF closed
  <2>2. /\ r' \in Shape /\ r'.readers = r.readers + 1 /\ r'.reader = r.readers + 1
        /\ r'.closed = closed
        /\ r'.state = r.state /\ r'.read_requests = r.read_requests
        /\ r'.queue = r.queue /\ r'.close_requested = r.close_requested
        /\ r'.started = r.started /\ r'.pulling = r.pulling
        /\ r'.pull_again = r.pull_again /\ r'.algorithms = r.algorithms
        /\ r'.source = r.source /\ r'.canceled = r.canceled /\ r'.reads = r.reads
        /\ r'.stack = r.stack /\ r'.chunks = r.chunks /\ r'.calls = r.calls
        /\ r'.heard = r.heard /\ r'.reentered = r.reentered /\ r'.failed = r.failed
    BY <1>1, <2>1 DEF Shape
  <2>3. Asserted(r')
    BY <1>1, <2>2 DEF Asserted, FramesOf
  <2>4. ReaderInformed(r')
    BY <2>0, <2>2 DEF ReaderInformed, closed
  <2>5. Safe(r', 0, 0)
    <3>1. /\ r.calls <= r'.calls /\ r'.calls <= MaxChunks
          /\ r'.reader <= r'.readers /\ r'.readers <= MaxReaders /\ 0 \in Nat
      BY <2>0, <2>2
    <3>2. QED
      BY <1>1, <2>2, <2>3, <2>4, <3>1, MinorSafe
  <2>6. Heard(r')
    BY <2>0, <2>2 DEF Heard
  <2>7. QED
    BY <2>5, <2>6 DEF IInv
<1>3. CASE release_lock
  <2> DEFINE u == [r EXCEPT !.reader = 0, !.closed = "none"]
             reads == [i \in DOMAIN r.reads |->
                          IF i \in Range(r.read_requests) THEN Failed ELSE r.reads[i]]
  <2>1. /\ u \in Shape /\ u.reader = 0
        /\ u.state = r.state /\ u.read_requests = r.read_requests /\ u.queue = r.queue
        /\ u.close_requested = r.close_requested /\ u.started = r.started
        /\ u.pulling = r.pulling /\ u.pull_again = r.pull_again
        /\ u.algorithms = r.algorithms /\ u.source = r.source /\ u.canceled = r.canceled
        /\ u.reads = r.reads /\ u.stack = r.stack /\ u.chunks = r.chunks
        /\ u.calls = r.calls /\ u.readers = r.readers /\ u.heard = r.heard
        /\ u.reentered = r.reentered /\ u.failed = r.failed
    BY <1>1 DEF Shape
  <2>2. r' = SettleReads(u, Failed)
    BY <1>3 DEF release_lock
  <2> HIDE DEF u
  <2>3. r' = [u EXCEPT !.read_requests = <<>>, !.reads = reads]
    BY <2>1, <2>2 DEF SettleReads, Shape
  <2>4. reads \in Seq(Int) /\ <<>> \in Seq(Nat)
    <3>1. r.reads \in Seq(Int) /\ Failed \in Int
      BY <1>1 DEF Shape, Failed
    <3>2. QED
      BY <3>1
  <2> HIDE DEF reads
  <2>5. /\ r' \in Shape /\ r'.reads = reads /\ r'.read_requests = <<>>
        /\ r'.state = u.state /\ r'.reader = u.reader /\ r'.closed = u.closed
        /\ r'.queue = u.queue /\ r'.close_requested = u.close_requested
        /\ r'.started = u.started /\ r'.pulling = u.pulling
        /\ r'.pull_again = u.pull_again /\ r'.algorithms = u.algorithms
        /\ r'.source = u.source /\ r'.canceled = u.canceled /\ r'.stack = u.stack
        /\ r'.chunks = u.chunks /\ r'.calls = u.calls /\ r'.readers = u.readers
        /\ r'.heard = u.heard /\ r'.reentered = u.reentered /\ r'.failed = u.failed
    BY <2>1, <2>3, <2>4 DEF Shape
  <2>6. /\ Len(r'.reads) = Len(r.reads)
        /\ \A i \in DOMAIN r'.reads : Failed <= r'.reads[i] /\ r'.reads[i] <= r'.chunks
        /\ Listed(r', 0, 0)
        /\ \A i, c \in Nat \ {0} : Gets(r', 0, 0, i, c) <=> Gets(r, 0, 0, i, c)
        /\ Ordered(r, 0, 0) => Ordered(r', 0, 0)
    <3>1. /\ r'.read_requests = <<>> /\ r'.reads = reads /\ r'.stack = r.stack
          /\ r'.chunks = r.chunks /\ r'.queue = r.queue /\ Failed \in {Ended, Failed} /\ 0 \in Nat
      BY <2>1, <2>5
    <3>2. QED
      BY <1>1, <3>1, SettledReads DEF reads
  <2>7. \A cb : FramesOf(r', cb) = FramesOf(r, cb)
    BY <2>1, <2>5 DEF FramesOf
  <2>8. Bounded(r')
    <3>1. Cardinality(FramesOf(r', "size")) = Cardinality(FramesOf(r, "size"))
      BY <2>7
    <3>2. r'.reader <= r'.readers
      BY <1>1, <2>1, <2>5 DEF Shape
    <3>3. QED
      BY <1>1, <2>1, <2>5, <2>6, <3>1, <3>2 DEF Safe, Bounded
  <2>9. Asserted(r') /\ ReaderInformed(r')
    BY <1>1, <2>1, <2>5, <2>7 DEF Asserted, ReaderInformed
  <2>10. ~r'.reentered => Ordered(r', 0, 0) /\ Kept(r', 0, 0)
    <3>1. r'.queue = r.queue /\ r'.chunks = r.chunks /\ r'.state = r.state /\ r'.canceled = r.canceled
          /\ r'.reentered = r.reentered /\ r'.read_requests = <<>>
      BY <2>1, <2>5
    <3>2. QED
      BY <1>1, <2>6, <3>1, SameChunks DEF Safe
  <2>11. Heard(r')
    BY <2>5 DEF Heard
  <2>12. QED
    BY <2>5, <2>6, <2>8, <2>9, <2>10, <2>11 DEF IInv, Safe
<1>4. QED
  BY <1>2, <1>3

\* read(): it waits, takes a chunk or learns that the stream has ended.
LEMMA ReadStep ==
    ASSUME IInv, read
    PROVE  IInv'
<1>1. /\ r \in Shape /\ Safe(r, 0, 0) /\ r.reader # 0 /\ Len(r.reads) < MaxReads /\ 0 \in Nat
      /\ r.state \in {"readable", "closed", "errored"} /\ Len(r.reads) \in Nat
  BY DEF IInv, Safe, read, Shape
<1>2. CASE r.state = "closed"
  <2>1. r' = [r EXCEPT !.reads = Append(@, Ended)]
    BY <1>2 DEF read
  <2>2. QED
    BY <1>1, <1>2, <2>1, EndedRead DEF IInv
<1>3. CASE r.state = "errored"
  <2>1. r' = [r EXCEPT !.reads = Append(@, Failed)]
    BY <1>3 DEF read
  <2>2. QED
    BY <1>1, <1>3, <2>1, EndedRead DEF IInv
<1>4. CASE r.state = "readable"
  <2> DEFINE u == [r EXCEPT !.reads = Append(@, Waiting)]
  <2>1. r' = pull_steps(u)
    BY <1>4 DEF read
  <2>2. /\ u.queue = r.queue /\ u.reads = Append(r.reads, Waiting)
        /\ u.close_requested = r.close_requested
    BY <1>1 DEF Shape
  <2>3. Len(u.reads) = Len(r.reads) + 1
    <3>1. r.reads \in Seq(Int) /\ Waiting \in Int
      BY <1>1 DEF Shape, Waiting
    <3>2. QED
      BY <2>2, <3>1
  <2>4. CASE r.queue = <<>>
    <3>1. r' = call_pull_if_needed(WaitingRead(r), 0, 0)
      BY <2>1, <2>2, <2>4 DEF pull_steps, WaitingRead
    <3>2. Safe(WaitingRead(r), 0, 0)
      BY <1>1, <1>4, <2>4, WaitingReadSafe
    <3>3. QED
      BY <1>1, <3>1, <3>2, CallPullSafe DEF IInv
  <2>5. CASE r.queue # <<>>
    <3> DEFINE v == TakingRead(r)
               n == Len(r.reads) + 1
               x == Head(r.queue)
    <3>1. v = [u EXCEPT !.queue = Tail(@)]
      BY <1>1 DEF TakingRead, Shape
    <3>2. r' = IF v.close_requested /\ v.queue = <<>>
               THEN OnChunk(readable_stream_close(clear_algorithms(v)), n, x)
               ELSE call_pull_if_needed(v, n, x)
      BY <2>1, <2>2, <2>3, <2>5, <3>1 DEF pull_steps
    <3>3. Safe(v, n, x)
      BY <1>1, <1>4, <2>5, TakingReadSafe
    <3>4. n \in Nat /\ x \in Nat
      <4>1. r.queue \in Seq(Nat)
        BY <1>1 DEF Shape
      <4>2. QED
        BY <1>1, <2>5, <4>1
    <3>5. v.state = "readable"
      BY <1>1, <1>4 DEF TakingRead, Shape
    <3> HIDE DEF v, n, x
    <3>6. CASE v.close_requested /\ v.queue = <<>>
      <4>1. /\ Safe(readable_stream_close(clear_algorithms(v)), n, x)
            /\ Heard(readable_stream_close(clear_algorithms(v)))
        BY <3>3, <3>4, <3>5, <3>6, CloseSafe
      <4>2. r' = OnChunk(readable_stream_close(clear_algorithms(v)), n, x)
        BY <3>2, <3>6
      <4>3. QED
        BY <3>4, <4>1, <4>2, OnChunkSafe DEF IInv
    <3>7. CASE ~(v.close_requested /\ v.queue = <<>>)
      <4>1. r' = call_pull_if_needed(v, n, x)
        BY <3>2, <3>7
      <4>2. QED
        BY <3>3, <3>4, <4>1, CallPullSafe DEF IInv
    <3>8. QED
      BY <3>6, <3>7
  <2>6. QED
    BY <2>4, <2>5
<1>5. QED
  BY <1>1, <1>2, <1>3, <1>4

\* cancel(), enqueue(), close() and error().
LEMMA SourceSteps ==
    ASSUME IInv, cancel \/ enqueue \/ close \/ error
    PROVE  IInv'
<1>1. r \in Shape /\ Safe(r, 0, 0) /\ Heard(r) /\ Asserted(r) /\ ReaderInformed(r) /\ 0 \in Nat
  BY DEF IInv, Safe
<1>2. CASE cancel
  <2>1. r' = CallScript(Canceled(r), "cancel", 0, 0) /\ r.state = "readable"
    BY <1>2 DEF cancel, Canceled
  <2>2. /\ Safe(Canceled(r), 0, 0) /\ Heard(Canceled(r)) /\ Canceled(r).algorithms
        /\ Canceled(r).state = "closed"
    BY <1>1, <2>1, CancelSafe
  <2>3. "cancel" \in Callbacks
    BY DEF Callbacks
  <2>4. QED
    BY <1>1, <2>1, <2>2, <2>3, PushedSafe DEF IInv
<1>3. CASE enqueue
  <2> DEFINE u == [r EXCEPT !.calls = @ + 1]
  <2>1. /\ r.state = "readable" /\ r.calls + 1 <= MaxChunks /\ r.calls \in Nat /\ r.chunks \in Nat
        /\ r.calls + 1 \in Nat
    BY <1>1, <1>3, ReadableBounds DEF enqueue, can_close_or_enqueue, Shape
  <2>2. /\ u \in Shape /\ u.calls = r.calls + 1
        /\ u.state = r.state /\ u.reader = r.reader /\ u.closed = r.closed
        /\ u.read_requests = r.read_requests /\ u.queue = r.queue
        /\ u.close_requested = r.close_requested /\ u.started = r.started
        /\ u.pulling = r.pulling /\ u.pull_again = r.pull_again
        /\ u.algorithms = r.algorithms /\ u.source = r.source /\ u.canceled = r.canceled
        /\ u.reads = r.reads /\ u.stack = r.stack /\ u.chunks = r.chunks
        /\ u.readers = r.readers /\ u.heard = r.heard /\ u.reentered = r.reentered
        /\ u.failed = r.failed
    BY <1>1, <2>1 DEF Shape
  <2>3. r' = IF HasReadRequest(u)
             THEN call_pull_if_needed(readable_stream_fulfill_read_request(u), 0, 0)
             ELSE CallScript(u, "size", 0, 0)
    BY <1>3 DEF enqueue
  <2> HIDE DEF u
  <2>4. Asserted(u) /\ ReaderInformed(u)
    BY <1>1, <2>2 DEF Asserted, ReaderInformed, FramesOf
  <2>5. Safe(u, 0, 0)
    <3>1. r.calls <= u.calls /\ u.calls <= MaxChunks /\ u.reader <= u.readers /\ u.readers <= MaxReaders
      BY <1>1, <2>1, <2>2 DEF Safe, Bounded
    <3>2. QED
      BY <1>1, <2>2, <2>4, <3>1, MinorSafe
  <2>6. u.chunks + Cardinality(FramesOf(u, "size")) < u.calls
    <3>1. r.stack \in Seq(Frames) /\ FramesOf(u, "size") = FramesOf(r, "size")
      BY <1>1, <2>2 DEF Shape, FramesOf
    <3>2. FramesOf(r, "size") \subseteq 1 .. Len(r.stack) /\ Len(r.stack) \in Nat
      BY <3>1 DEF FramesOf
    <3>3. IsFiniteSet(1 .. Len(r.stack))
      BY <3>2, FS_Interval
    <3>4. Cardinality(FramesOf(r, "size")) \in Nat
      BY <3>2, <3>3, FS_Subset, FS_CardinalityType
    <3>5. r.chunks + Cardinality(FramesOf(r, "size")) <= r.calls
      BY <1>1 DEF Safe, Bounded
    <3>6. QED
      BY <2>1, <2>2, <3>1, <3>4, <3>5
  <2>7. CASE HasReadRequest(u)
    <3> DEFINE h == Head(u.read_requests)
               x == u.chunks + 1
    <3>1. u.read_requests # <<>> /\ u.read_requests \in Seq(Nat) /\ x \in Nat
      BY <2>2, <2>7 DEF HasReadRequest, Shape
    <3>2. h \in Nat
      BY <3>1
    <3>3. Safe(Matched(u), h, x)
      BY <2>5, <2>6, <3>1, MatchedSafe
    <3>4. Safe(OnChunk(Matched(u), h, x), 0, 0)
      <4> HIDE DEF h, x
      <4>1. QED
        BY <3>1, <3>2, <3>3, OnChunkSafe
    <3>5. readable_stream_fulfill_read_request(u) = OnChunk(Matched(u), h, x)
      <4>1. h = 0 \/ h # 0
        OBVIOUS
      <4>2. readable_stream_fulfill_read_request(u)
               = [OnChunk(u, h, x) EXCEPT !.chunks = @ + 1, !.read_requests = Tail(@)]
        BY DEF readable_stream_fulfill_read_request
      <4> HIDE DEF h, x
      <4>3. QED
        BY <2>2, <4>1, <4>2 DEF OnChunk, Matched, Shape
    <3>6. QED
      BY <1>1, <2>3, <2>7, <3>4, <3>5, CallPullSafe DEF IInv
  <2>8. CASE ~HasReadRequest(u)
    <3>1. r' = CallScript(u, "size", 0, 0) /\ u.algorithms /\ "size" \in Callbacks
      BY <1>1, <2>1, <2>2, <2>3, <2>8 DEF Asserted, Callbacks
    <3>2. Heard(u)
      BY <1>1, <2>2 DEF Heard, can_close_or_enqueue
    <3>3. QED
      BY <1>1, <2>5, <2>6, <3>1, <3>2, PushedSafe DEF IInv
  <2>9. QED
    BY <2>7, <2>8
<1>4. CASE close
  <2> DEFINE u == [r EXCEPT !.close_requested = TRUE]
  <2>1. /\ r.state = "readable"
        /\ r' = IF r.queue = <<>> THEN readable_stream_close(clear_algorithms(u)) ELSE u
    BY <1>4 DEF close, controller_close, can_close_or_enqueue
  <2>2. /\ u \in Shape /\ u.close_requested
        /\ u.state = r.state /\ u.reader = r.reader /\ u.closed = r.closed
        /\ u.read_requests = r.read_requests /\ u.queue = r.queue
        /\ u.started = r.started /\ u.pulling = r.pulling /\ u.pull_again = r.pull_again
        /\ u.algorithms = r.algorithms /\ u.source = r.source /\ u.canceled = r.canceled
        /\ u.reads = r.reads /\ u.stack = r.stack /\ u.chunks = r.chunks
        /\ u.calls = r.calls /\ u.readers = r.readers /\ u.heard = r.heard
        /\ u.reentered = r.reentered /\ u.failed = r.failed
    BY <1>1 DEF Shape
  <2> HIDE DEF u
  <2>3. Asserted(u) /\ ReaderInformed(u)
    BY <1>1, <2>2 DEF Asserted, ReaderInformed, FramesOf
  <2>4. Safe(u, 0, 0)
    <3>1. /\ r.calls <= u.calls /\ u.calls <= MaxChunks /\ u.reader <= u.readers
          /\ u.readers <= MaxReaders
      BY <1>1, <2>2 DEF Safe, Bounded, Shape
    <3>2. QED
      BY <1>1, <2>2, <2>3, <3>1, MinorSafe
  <2>5. Heard(u)
    BY <2>2 DEF Heard, can_close_or_enqueue
  <2>6. CASE r.queue = <<>>
    BY <1>1, <2>1, <2>2, <2>4, <2>6, CloseSafe DEF IInv
  <2>7. CASE r.queue # <<>>
    BY <2>1, <2>4, <2>5, <2>7 DEF IInv
  <2>8. QED
    BY <2>6, <2>7
<1>5. CASE error
  <2>1. r' = controller_error(r)
    BY <1>5 DEF error
  <2>2. QED
    BY <1>1, <2>1, ErrorSafe DEF IInv
<1>6. QED
  BY <1>2, <1>3, <1>4, <1>5

\* Script returns to the stream.
LEMMA ReturnSteps ==
    ASSUME IInv, ScriptReturns
    PROVE  IInv'
<1> DEFINE p == Pop(r)
           f == Last(r.stack)
<1>1. r \in Shape /\ Safe(r, 0, 0) /\ Heard(r) /\ 0 \in Nat /\ r.stack # <<>>
  BY DEF IInv, Safe, ScriptReturns, SizeReturns, SizeFails, PullReturns, CancelReturns, Top
<1>2. /\ Safe(p, f.read, f.chunk) /\ f \in Frames
      /\ f.callback # "pull" => f.read = 0 /\ f.chunk = 0
      /\ f.callback = "size" => p.chunks + Cardinality(FramesOf(p, "size")) < p.calls
      /\ f.callback = "cancel" => p.state # "readable"
      /\ f.callback = "pull" => p.pulling /\ "pull" \notin p.source /\ FramesOf(p, "pull") = {}
      /\ Heard(p)
  BY <1>1, PoppedSafe
<1>3. p \in Shape /\ f.read \in Nat /\ f.chunk \in Nat
  BY <1>2 DEF Safe, Frames
<1>4. /\ Popped = p
      /\ p.state = r.state /\ p.reader = r.reader /\ p.closed = r.closed
      /\ p.read_requests = r.read_requests /\ p.queue = r.queue
      /\ p.close_requested = r.close_requested /\ p.started = r.started
      /\ p.pulling = r.pulling /\ p.pull_again = r.pull_again
      /\ p.algorithms = r.algorithms /\ p.source = r.source /\ p.canceled = r.canceled
      /\ p.reads = r.reads /\ p.chunks = r.chunks /\ p.calls = r.calls
      /\ p.readers = r.readers /\ p.heard = r.heard /\ p.reentered = r.reentered
      /\ p.failed = r.failed
  BY <1>1 DEF Popped, Pop, Shape
<1> HIDE DEF p, f
<1>5. CASE SizeReturns
  <2> DEFINE reentered == p.reentered \/ ~can_close_or_enqueue(r) \/ r.read_requests # <<>>
  <2>1. f.callback = "size" /\ Safe(p, 0, 0)
    BY <1>2, <1>5 DEF SizeReturns, Top, f
  <2>2. reentered \in BOOLEAN
    BY <1>3 DEF Shape
  <2>3. ~reentered => ~p.reentered /\ p.state = "readable" /\ p.read_requests = <<>>
    BY <1>4 DEF can_close_or_enqueue
  <2>4. r' = call_pull_if_needed(Queued(p, reentered), 0, 0)
    <3>1. r' = call_pull_if_needed([p EXCEPT !.chunks = @ + 1, !.queue = Append(@, r.chunks + 1),
                   !.reentered = @ \/ ~can_close_or_enqueue(r) \/ r.read_requests # <<>>], 0, 0)
      BY <1>4, <1>5 DEF SizeReturns
    <3>2. r.chunks = p.chunks
      BY <1>4
    <3>3. QED
      BY <1>3, <3>1, <3>2 DEF Queued, Shape
  <2> HIDE DEF reentered
  <2>5. Safe(Queued(p, reentered), 0, 0)
    BY <1>2, <2>1, <2>2, <2>3, QueuedSafe
  <2>6. QED
    BY <1>1, <2>4, <2>5, CallPullSafe DEF IInv
<1>6. CASE SizeFails
  <2>1. f.callback = "size" /\ Safe(p, 0, 0) /\ r' = controller_error(p)
    BY <1>2, <1>4, <1>6 DEF SizeFails, Top, f
  <2>2. QED
    BY <1>1, <1>2, <2>1, ErrorSafe DEF IInv
<1>7. CASE PullReturns
  <2> DEFINE v == OnChunk(p, f.read, f.chunk)
  <2>1. f.callback = "pull"
    BY <1>7 DEF PullReturns, Top, f
  <2>2. Safe(v, 0, 0) /\ Heard(v)
    BY <1>2, <1>3, OnChunkSafe
  <2>3. /\ v.stack = p.stack /\ v.pulling = p.pulling /\ v.source = p.source /\ v \in Shape
    BY <1>3, <2>2 DEF OnChunk, Shape, Safe
  <2>4. r' = [v EXCEPT !.source = @ \cup {"pull"}]
    BY <1>4, <1>7 DEF PullReturns, f
  <2> HIDE DEF v
  <2>5. FramesOf(v, "pull") = {} /\ v.pulling
    BY <1>2, <2>1, <2>3 DEF FramesOf
  <2>6. /\ r' \in Shape /\ r'.source = v.source \cup {"pull"}
        /\ r'.state = v.state /\ r'.reader = v.reader /\ r'.closed = v.closed
        /\ r'.read_requests = v.read_requests /\ r'.queue = v.queue
        /\ r'.close_requested = v.close_requested /\ r'.started = v.started
        /\ r'.pulling = v.pulling /\ r'.pull_again = v.pull_again
        /\ r'.algorithms = v.algorithms /\ r'.canceled = v.canceled
        /\ r'.reads = v.reads /\ r'.stack = v.stack /\ r'.chunks = v.chunks
        /\ r'.calls = v.calls /\ r'.readers = v.readers /\ r'.heard = v.heard
        /\ r'.reentered = v.reentered /\ r'.failed = v.failed
    BY <2>3, <2>4 DEF Shape
  <2>7. \A cb : FramesOf(r', cb) = FramesOf(v, cb)
    BY <2>6 DEF FramesOf
  <2>8. Asserted(r') /\ ReaderInformed(r')
    BY <2>2, <2>5, <2>6, <2>7 DEF Safe, Asserted, ReaderInformed
  <2>9. Safe(r', 0, 0)
    <3>1. /\ v.calls <= r'.calls /\ r'.calls <= MaxChunks /\ r'.reader <= r'.readers
          /\ r'.readers <= MaxReaders
      BY <2>2, <2>6 DEF Safe, Bounded, Shape
    <3>2. QED
      BY <1>1, <2>2, <2>6, <2>8, <3>1, MinorSafe
  <2>10. Heard(r')
    BY <2>2, <2>6 DEF Heard, can_close_or_enqueue
  <2>11. QED
    BY <2>9, <2>10 DEF IInv
<1>8. CASE CancelReturns
  <2>1. f.callback = "cancel" /\ Safe(p, 0, 0) /\ p.state # "readable"
    BY <1>2, <1>8 DEF CancelReturns, Top, f
  <2>2. r' = [clear_algorithms(p) EXCEPT !.source = @ \cup {"cancel"}]
    BY <1>4, <1>8 DEF CancelReturns
  <2>3. /\ r' \in Shape /\ r'.source = p.source \cup {"cancel"}
        /\ r'.state = p.state /\ r'.reader = p.reader /\ r'.closed = p.closed
        /\ r'.read_requests = p.read_requests /\ r'.queue = p.queue
        /\ r'.close_requested = p.close_requested /\ r'.started = p.started
        /\ r'.pulling = p.pulling /\ r'.pull_again = p.pull_again
        /\ r'.canceled = p.canceled /\ r'.reads = p.reads /\ r'.stack = p.stack
        /\ r'.chunks = p.chunks /\ r'.calls = p.calls /\ r'.readers = p.readers
        /\ r'.heard = p.heard /\ r'.reentered = p.reentered /\ r'.failed = p.failed
    BY <1>3, <2>2 DEF Shape, clear_algorithms
  <2>4. \A cb : FramesOf(r', cb) = FramesOf(p, cb)
    BY <2>3 DEF FramesOf
  <2>5. Asserted(r') /\ ReaderInformed(r')
    BY <2>1, <2>3, <2>4 DEF Safe, Asserted, ReaderInformed
  <2>6. Safe(r', 0, 0)
    <3>1. /\ p.calls <= r'.calls /\ r'.calls <= MaxChunks /\ r'.reader <= r'.readers
          /\ r'.readers <= MaxReaders
      BY <1>3, <2>1, <2>3 DEF Safe, Bounded, Shape
    <3>2. QED
      BY <1>1, <2>1, <2>3, <2>5, <3>1, MinorSafe
  <2>7. Heard(r')
    BY <1>2, <2>3 DEF Heard, can_close_or_enqueue
  <2>8. QED
    BY <2>6, <2>7 DEF IInv
<1>9. QED
  BY <1>5, <1>6, <1>7, <1>8 DEF ScriptReturns

\* The promises of the source are settled.
LEMMA ReactionSteps ==
    ASSUME IInv, Reaction
    PROVE  IInv'
<1>1. r \in Shape /\ Safe(r, 0, 0) /\ Heard(r) /\ Asserted(r) /\ ReaderInformed(r) /\ 0 \in Nat
  BY DEF IInv, Safe
<1>2. /\ r.calls \in Nat /\ r.calls <= MaxChunks /\ r.reader <= r.readers
      /\ r.readers <= MaxReaders /\ r.calls <= r.calls
  BY <1>1 DEF Safe, Bounded, Shape
<1>3. r.stack = <<>> => \A cb : FramesOf(r, cb) = {}
  BY DEF FramesOf
<1>4. CASE StartFulfilled
  <2> DEFINE u == [Verify(Done("start"), ~r.pulling /\ ~r.pull_again) EXCEPT !.started = TRUE]
  <2>1. /\ r.stack = <<>> /\ "start" \in r.source /\ ~r.started /\ ~r.pulling /\ ~r.pull_again
        /\ r' = call_pull_if_needed(u, 0, 0)
    BY <1>1, <1>4 DEF StartFulfilled, Settled, Asserted
  <2>2. /\ u \in Shape /\ u.source = r.source \ {"start"} /\ u.started /\ ~u.failed
        /\ u.state = r.state /\ u.reader = r.reader /\ u.closed = r.closed
        /\ u.read_requests = r.read_requests /\ u.queue = r.queue
        /\ u.close_requested = r.close_requested /\ u.pulling = r.pulling
        /\ u.pull_again = r.pull_again /\ u.algorithms = r.algorithms
        /\ u.canceled = r.canceled /\ u.reads = r.reads /\ u.stack = r.stack
        /\ u.chunks = r.chunks /\ u.calls = r.calls /\ u.readers = r.readers
        /\ u.heard = r.heard /\ u.reentered = r.reentered
    BY <1>1, <2>1 DEF Shape, Verify, Done, Asserted
  <2> HIDE DEF u
  <2>3. \A cb : FramesOf(u, cb) = {}
    BY <1>3, <2>1, <2>2 DEF FramesOf
  <2>4. Asserted(u) /\ ReaderInformed(u)
    BY <1>1, <2>1, <2>2, <2>3 DEF Asserted, ReaderInformed
  <2>5. Safe(u, 0, 0)
    BY <1>1, <1>2, <2>2, <2>4, MinorSafe
  <2>6. QED
    BY <1>1, <2>1, <2>5, CallPullSafe DEF IInv
<1>5. CASE PullFulfilled
  <2> DEFINE u == [Done("pull") EXCEPT !.pulling = FALSE, !.pull_again = FALSE]
  <2>1. /\ r.stack = <<>> /\ "pull" \in r.source
        /\ r' = IF r.pull_again THEN call_pull_if_needed(u, 0, 0) ELSE u
    BY <1>5 DEF PullFulfilled, Settled
  <2>2. /\ u \in Shape /\ u.source = r.source \ {"pull"} /\ ~u.pulling /\ ~u.pull_again
        /\ u.state = r.state /\ u.reader = r.reader /\ u.closed = r.closed
        /\ u.read_requests = r.read_requests /\ u.queue = r.queue
        /\ u.close_requested = r.close_requested /\ u.started = r.started
        /\ u.algorithms = r.algorithms /\ u.canceled = r.canceled /\ u.reads = r.reads
        /\ u.stack = r.stack /\ u.chunks = r.chunks /\ u.calls = r.calls
        /\ u.readers = r.readers /\ u.heard = r.heard /\ u.reentered = r.reentered
        /\ u.failed = r.failed
    BY <1>1 DEF Shape, Done
  <2> HIDE DEF u
  <2>3. \A cb : FramesOf(u, cb) = {}
    BY <1>3, <2>1, <2>2 DEF FramesOf
  <2>4. Asserted(u) /\ ReaderInformed(u)
    BY <1>1, <2>1, <2>2, <2>3 DEF Asserted, ReaderInformed
  <2>5. Safe(u, 0, 0)
    BY <1>1, <1>2, <2>2, <2>4, MinorSafe
  <2>6. CASE r.pull_again
    BY <1>1, <2>1, <2>5, <2>6, CallPullSafe DEF IInv
  <2>7. CASE ~r.pull_again
    <3>1. Heard(u)
      BY <1>1, <2>2, <2>7 DEF Heard, can_close_or_enqueue
    <3>2. QED
      BY <2>1, <2>5, <2>7, <3>1 DEF IInv
  <2>8. QED
    BY <2>6, <2>7
<1>6. ASSUME NEW call \in {"start", "pull"}, SourceRejects(call) PROVE IInv'
  <2> DEFINE u == Done(call)
  <2>1. r.stack = <<>> /\ r' = controller_error(u)
    BY <1>6 DEF SourceRejects, Settled
  <2>2. /\ u \in Shape /\ u.source = r.source \ {call}
        /\ u.state = r.state /\ u.reader = r.reader /\ u.closed = r.closed
        /\ u.read_requests = r.read_requests /\ u.queue = r.queue
        /\ u.close_requested = r.close_requested /\ u.started = r.started
        /\ u.pulling = r.pulling /\ u.pull_again = r.pull_again
        /\ u.algorithms = r.algorithms /\ u.canceled = r.canceled /\ u.reads = r.reads
        /\ u.stack = r.stack /\ u.chunks = r.chunks /\ u.calls = r.calls
        /\ u.readers = r.readers /\ u.heard = r.heard /\ u.reentered = r.reentered
        /\ u.failed = r.failed
    BY <1>1 DEF Shape, Done
  <2> HIDE DEF u
  <2>3. \A cb : FramesOf(u, cb) = {}
    BY <1>3, <2>1, <2>2 DEF FramesOf
  <2>4. Asserted(u) /\ ReaderInformed(u)
    BY <1>1, <2>2, <2>3 DEF Asserted, ReaderInformed
  <2>5. Safe(u, 0, 0) /\ Heard(u)
    <3>1. Safe(u, 0, 0)
      BY <1>1, <1>2, <2>2, <2>4, MinorSafe
    <3>2. Heard(u)
      BY <1>1, <2>2 DEF Heard, can_close_or_enqueue
    <3>3. QED
      BY <3>1, <3>2
  <2>6. QED
    BY <1>1, <2>1, <2>5, ErrorSafe DEF IInv
<1>7. ASSUME NEW outcome \in {"fulfilled", "rejected"}, CancelSettled(outcome) PROVE IInv'
  <2>1. r' = [Done("cancel") EXCEPT !.canceled = outcome] /\ r.stack = <<>>
    BY <1>7 DEF CancelSettled, Settled
  <2>2. /\ r' \in Shape /\ r'.source = r.source \ {"cancel"} /\ r'.canceled # "none"
        /\ r'.state = r.state /\ r'.reader = r.reader /\ r'.closed = r.closed
        /\ r'.read_requests = r.read_requests /\ r'.queue = r.queue
        /\ r'.close_requested = r.close_requested /\ r'.started = r.started
        /\ r'.pulling = r.pulling /\ r'.pull_again = r.pull_again
        /\ r'.algorithms = r.algorithms /\ r'.reads = r.reads /\ r'.stack = r.stack
        /\ r'.chunks = r.chunks /\ r'.calls = r.calls /\ r'.readers = r.readers
        /\ r'.heard = r.heard /\ r'.reentered = r.reentered /\ r'.failed = r.failed
    BY <1>1, <2>1 DEF Shape, Done
  <2>3. \A cb : FramesOf(r', cb) = {}
    BY <1>3, <2>1, <2>2 DEF FramesOf
  <2>4. Asserted(r') /\ ReaderInformed(r')
    BY <1>1, <2>2, <2>3 DEF Asserted, ReaderInformed
  <2>5. Safe(r', 0, 0)
    BY <1>1, <1>2, <2>2, <2>4, MinorSafe
  <2>6. Heard(r')
    BY <1>1, <2>2 DEF Heard, can_close_or_enqueue
  <2>7. QED
    BY <2>5, <2>6 DEF IInv
<1>8. QED
  BY <1>4, <1>5, <1>6, <1>7 DEF Reaction

\* A new stream is safe, whether or not it is locked.
LEMMA Begins ==
    ASSUME NEW n \in Nat, n <= MaxReaders, NEW s,
           \/ n = 0 /\ s = InitialStream
           \/ s = [InitialStream EXCEPT !.reader = n, !.readers = n, !.closed = "pending"]
    PROVE  Safe(s, 0, 0) /\ Heard(s)
<1>1. <<>> \in Seq(Nat) /\ <<>> \in Seq(Int) /\ <<>> \in Seq(Frames)
  OBVIOUS
<1>2. /\ s \in Shape /\ s.state = "readable" /\ s.reader = n /\ s.read_requests = <<>>
      /\ s.queue = <<>> /\ s.reads = <<>> /\ s.stack = <<>> /\ s.chunks = 0 /\ s.calls = 0
      /\ s.readers = n /\ ~s.failed /\ s.algorithms /\ s.source = {"start"}
      /\ ~s.started /\ ~s.pulling /\ ~s.pull_again /\ (n # 0 => s.closed = "pending")
  <2>1. CASE n = 0 /\ s = InitialStream
    BY <1>1, <2>1 DEF InitialStream, Shape
  <2>2. CASE s = [InitialStream EXCEPT !.reader = n, !.readers = n, !.closed = "pending"]
    BY <1>1, <2>2 DEF InitialStream, Shape
  <2>3. QED
    BY <2>1, <2>2
<1>3. \A cb : FramesOf(s, cb) = {}
  BY <1>2 DEF FramesOf
<1>4. Cardinality(FramesOf(s, "size")) = 0
  BY <1>3, FS_EmptySet
<1>5. Bounded(s)
  BY <1>2, <1>4, ReadableBounds DEF Bounded
<1>6. Asserted(s) /\ ReaderInformed(s) /\ Heard(s)
  BY <1>2, <1>3 DEF Asserted, ReaderInformed, Heard
<1>7. Listed(s, 0, 0)
  BY <1>2 DEF Listed, Holding
<1>8. Ordered(s, 0, 0)
  BY <1>2 DEF Ordered, Gets
<1>9. Kept(s, 0, 0)
  BY <1>2 DEF Kept
<1>10. QED
  BY <1>2, <1>5, <1>6, <1>7, <1>8, <1>9 DEF Safe

\* Every step keeps the invariant.
LEMMA Continues == ASSUME IInv, [Next]_r PROVE IInv'
<1>1. CASE Script
  BY <1>1, ReaderSteps, ReadStep, SourceSteps DEF Script
<1>2. CASE ScriptReturns
  BY <1>2, ReturnSteps
<1>3. CASE Reaction
  BY <1>3, ReactionSteps
<1>4. CASE UNCHANGED r
  BY <1>4 DEF IInv
<1>5. QED
  BY <1>1, <1>2, <1>3, <1>4 DEF Next

\* The invariant holds whatever script calls from where.
LEMMA Invariance == Spec => []IInv
<1>1. Init => IInv
  <2>1. 0 \in Nat /\ 0 <= MaxReaders
    BY ReadableBounds
  <2>2. QED
    BY <2>1, Begins DEF Init, IInv
<1>2. IInv /\ [Next]_r => IInv'
  BY Continues
<1>3. QED
  BY <1>1, <1>2, PTL DEF Spec

\* A sequence whose values are in S.
LEMMA SequenceIn ==
    ASSUME NEW T, NEW q \in Seq(T), NEW S, \A i \in DOMAIN q : q[i] \in S
    PROVE  q \in Seq(S)
OBVIOUS

\* What the invariant says of the reads.
LEMMA Accounts == ASSUME IInv PROVE ReadsAccounted
<1>1. /\ r \in Shape /\ Bounded(r) /\ Asserted(r) /\ ReaderInformed(r) /\ Listed(r, 0, 0)
      /\ Safe(r, 0, 0)
  BY DEF IInv, Safe
<1>2. /\ r.queue \in Seq(Nat) /\ r.reads \in Seq(Int) /\ r.read_requests \in Seq(Nat)
      /\ r.chunks \in Nat /\ r.calls \in Nat /\ r.reader \in Nat /\ r.readers \in Nat
      /\ Len(r.reads) \in Nat /\ r.stack \in Seq(Frames)
      /\ DOMAIN r.reads = 1 .. Len(r.reads) /\ Failed \in Int
  BY <1>1 DEF Shape, Failed
<1>3. r.chunks <= MaxChunks /\ MaxChunks \in Nat /\ MaxReads \in Nat /\ MaxReaders \in Nat
  <2>1. FramesOf(r, "size") \subseteq 1 .. Len(r.stack) /\ Len(r.stack) \in Nat
    BY <1>2 DEF FramesOf
  <2>2. IsFiniteSet(1 .. Len(r.stack))
    BY <2>1, FS_Interval
  <2>3. Cardinality(FramesOf(r, "size")) \in Nat
    BY <2>1, <2>2, FS_Subset, FS_CardinalityType
  <2>4. QED
    BY <1>1, <1>2, <2>3, ReadableBounds DEF Bounded
<1>4. r.queue \in Seq(1 .. MaxChunks)
  <2>1. \A i \in DOMAIN r.queue : r.queue[i] \in 1 .. MaxChunks
    BY <1>1, <1>2, <1>3, SMTT(30) DEF Bounded
  <2>2. QED
    BY <1>2, <2>1, SequenceIn
<1>5. r.reads \in Seq(Failed .. MaxChunks)
  <2>1. ASSUME NEW i \in DOMAIN r.reads PROVE r.reads[i] \in Failed .. MaxChunks
    <3>1. Failed <= r.reads[i] /\ r.reads[i] <= r.chunks
      BY <1>1 DEF Bounded
    <3>2. r.reads[i] \in Int
      BY <1>2
    <3>3. QED
      BY <1>2, <1>3, <3>1, <3>2
  <2>2. QED
    BY <1>2, <2>1, SequenceIn
<1>6. r.read_requests \in Seq(1 .. MaxReads)
  <2>1. \A i \in DOMAIN r.read_requests : r.read_requests[i] \in 1 .. Len(r.reads)
    BY <1>1, <1>2 DEF Listed
  <2>2. \A i \in DOMAIN r.read_requests : r.read_requests[i] \in 1 .. MaxReads
    BY <1>1, <1>2, <1>3, <2>1 DEF Bounded
  <2>3. QED
    BY <1>2, <2>2, SequenceIn
<1>7. r.reader \in 0 .. MaxReaders
  BY <1>1, <1>2, <1>3 DEF Bounded
<1>8. TypeOK
  <2>1. r.state \in {"readable", "closed", "errored"} /\ r.source \subseteq {"start", "pull", "cancel"}
    BY <1>1 DEF Shape
  <2>2. QED
    BY <1>1, <1>4, <1>5, <1>6, <1>7, <2>1 DEF TypeOK, ReaderInformed
<1>9. ASSUME NEW i \in DOMAIN r.reads
      PROVE  r.reads[i] = Waiting <=> i \in Range(r.read_requests) \cup InFlight
  <2>1. i # 0
    BY <1>2
  <2>2. ASSUME r.reads[i] = Waiting, i \notin Range(r.read_requests) PROVE i \in InFlight
    <3>1. PICK k \in DOMAIN r.stack : r.stack[k].read = i
      BY <1>1, <2>1, <2>2 DEF Listed
    <3>2. r.stack[k].callback = "pull"
      BY <1>1, <2>1, <3>1 DEF Listed
    <3>3. QED
      BY <3>1, <3>2 DEF InFlight
  <2>3. ASSUME i \in Range(r.read_requests) PROVE r.reads[i] = Waiting
    BY <1>1, <2>3 DEF Listed, Range
  <2>4. ASSUME i \in InFlight PROVE r.reads[i] = Waiting
    BY <1>1, <2>1, <2>4 DEF InFlight, Listed, Holding
  <2>5. QED
    BY <2>2, <2>3, <2>4
<1>10. QED
  BY <1>1, <1>8, <1>9 DEF ReadsAccounted, AssertionsHold, Asserted, ReaderInformed

\* No VERIFY of the stream fails, and every read that was promised a result is in
\* the list of those that wait, or in the frame of the pull() that holds its chunk,
\* whatever script calls from size(), pull() and cancel().
THEOREM NoReadLost == Spec => []ReadsAccounted
BY Accounts, Invariance, PTL

\* Chunks are read in the order in which they were enqueued, none is lost and no
\* read waits while there are chunks, unless a size() has called the stream itself
\* in between.
THEOREM InOrder == Spec => []ChunksInOrder
<1>1. IInv => ChunksInOrder
  <2> SUFFICES ASSUME IInv, ~r.reentered
               PROVE  /\ r.queue = <<>> \/ r.read_requests = <<>>
                      /\ \A i, j \in DOMAIN r.reads :
                            i < j /\ r.reads[i] > 0 /\ r.reads[j] > 0 => r.reads[i] < r.reads[j]
                      /\ r.state # "errored" /\ r.canceled = "none" =>
                            /\ 1 .. r.chunks \subseteq Taken
                            /\ r.state = "closed" => r.queue = <<>>
    BY DEF ChunksInOrder
  <2>1. r \in Shape /\ Ordered(r, 0, 0) /\ Kept(r, 0, 0)
    BY DEF IInv, Safe
  <2>2. r.reads \in Seq(Int) /\ r.chunks \in Nat
    BY <2>1 DEF Shape
  <2>3. ASSUME NEW i \in DOMAIN r.reads, NEW j \in DOMAIN r.reads,
               i < j, r.reads[i] > 0, r.reads[j] > 0
        PROVE  r.reads[i] < r.reads[j]
    <3>1. i \in Nat \ {0} /\ j \in Nat \ {0} /\ r.reads[i] \in Nat \ {0} /\ r.reads[j] \in Nat \ {0}
      BY <2>2, <2>3
    <3>2. Gets(r, 0, 0, i, r.reads[i]) /\ Gets(r, 0, 0, j, r.reads[j])
      BY DEF Gets
    <3>3. QED
      BY <2>1, <2>3, <3>1, <3>2 DEF Ordered
  <2>4. ASSUME r.state # "errored", r.canceled = "none", NEW c \in 1 .. r.chunks
        PROVE  c \in Taken
    <3>1. c \in Range(r.queue) \/ \E i \in Nat \ {0} : Gets(r, 0, 0, i, c)
      BY <2>1, <2>4 DEF Kept
    <3>2. ASSUME NEW i \in Nat \ {0}, Gets(r, 0, 0, i, c) PROVE c \in Taken
      BY <3>2 DEF Gets, Taken, Range
    <3>3. c \in Range(r.queue) => c \in Taken
      BY DEF Taken
    <3>4. QED
      BY <3>1, <3>2, <3>3
  <2>5. QED
    BY <2>1, <2>3, <2>4 DEF Ordered, Kept
<1>2. QED
  BY <1>1, Invariance, PTL

\* The source is asked to pull() again only when its last answer is in, and no read
\* that waits is missed: pull() was called after it was made, or will be repeated.
THEOREM ReadsAnnounced == Spec => []NoReadUnheard
<1>1. IInv => NoReadUnheard
  <2> SUFFICES ASSUME IInv PROVE NoReadUnheard
    OBVIOUS
  <2> DEFINE F == {i \in DOMAIN r.stack : r.stack[i].callback = "pull"}
             P == r.source \cap {"pull"}
  <2>1. Asserted(r) /\ Heard(r) /\ F = FramesOf(r, "pull")
    BY DEF IInv, Safe, FramesOf
  <2>2. \A x : Cardinality({x}) = 1
    BY FS_Singleton
  <2>3. Cardinality({}) = 0
    BY FS_EmptySet
  <2>4. Cardinality(F) + Cardinality(P) <= 1
    <3> HIDE DEF F, P
    <3>1. (P = {} \/ P = {"pull"}) /\ (P # {} => "pull" \in r.source)
      BY DEF P
    <3>2. F = {} \/ \E x : F = {x}
      BY <2>1 DEF Asserted
    <3>3. CASE F = {}
      <4>1. Cardinality(F) = 0
        BY <2>3, <3>3
      <4>2. Cardinality(P) = 0 \/ Cardinality(P) = 1
        <5>1. CASE P = {}
          BY <2>3, <5>1
        <5>2. CASE P = {"pull"}
          <6>1. Cardinality({"pull"}) = 1
            BY <2>2, Zenon
          <6>2. QED
            BY <5>2, <6>1
        <5>3. QED
          BY <3>1, <5>1, <5>2
      <4>3. QED
        BY <4>1, <4>2
    <3>4. CASE F # {}
      <4>1. P = {} /\ Cardinality(F) = 1
        BY <2>1, <2>2, <3>1, <3>2, <3>4 DEF Asserted
      <4>2. QED
        BY <2>3, <4>1
    <3>5. QED
      BY <3>3, <3>4
  <2>5. QED
    BY <2>1, <2>4 DEF NoReadUnheard, Heard, Last
<1>2. QED
  BY <1>1, Invariance, PTL

=============================================================================

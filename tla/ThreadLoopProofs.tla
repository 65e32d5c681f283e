-------------------------- MODULE ThreadLoopProofs --------------------------
(***************************************************************************)
(* Proofs about the primitives that the rest of the process runs on:       *)
(* EventLoop, for any set of posters, any number of events and signals and *)
(* any nesting of loops, then Thread, for any set of threads, and Timer,   *)
(* for any set of timers and any bound on their intervals.                 *)
(***************************************************************************)
EXTENDS EventLoop, Thread, Timer, TLAPS

(***************************************************************************)
(* The vectors of the frames, from the outermost one inwards, and then the *)
(* queue hold the events that are not done, each once and in the order of  *)
(* posting; only the frame that handles events has any left at the top.    *)
(***************************************************************************)
Holds(s, e) == \E i \in 1 .. Len(s) : s[i] = e

Ascending(s) == \A i, j \in 1 .. Len(s) : i < j => s[i] < s[j]

Before(s, t) == \A e, f \in Nat : Holds(s, e) /\ Holds(t, f) => e < f

Undone(s, p, D) == \A e \in Nat : Holds(s, e) => e \in 1 .. p /\ e \notin D

Sorted(q, b) ==
    /\ Ascending(q)
    /\ \A d \in Depths : Ascending(b[d]) /\ Before(b[d], q)
    /\ \A c, d \in Depths : c < d => Before(b[c], b[d])

Accounted(p, q, b, D) ==
    /\ D \subseteq 1 .. p
    /\ Undone(q, p, D)
    /\ \A d \in Depths : Undone(b[d], p, D)
    /\ \A e \in 1 .. p :
         e \in D \/ Holds(q, e) \/ \E d \in Depths : Holds(b[d], e)

Ordered(p, q, b, D) == Sorted(q, b) /\ Accounted(p, q, b, D)

TopEmpty == place # "handle" => batch[depth] = <<>>

IInv ==
    TypeOK /\ TopEmpty /\ NoLostWakeup /\ Ordered(posted, queue, batch, done)

-----------------------------------------------------------------------------

(* An empty vector holds nothing. *)
LEMMA EmptyFact == Ascending(<<>>) /\ \A e : ~Holds(<<>>, e)
  BY DEF Ascending, Holds

(* What appending to a vector adds, and when it keeps the order. *)
LEMMA AppendFact ==
    ASSUME NEW s \in Seq(Nat), NEW x \in Nat
    PROVE  /\ Append(s, x) \in Seq(Nat)
           /\ \A e \in Nat : Holds(Append(s, x), e) <=> Holds(s, e) \/ e = x
           /\ Ascending(s) /\ (\A e \in Nat : Holds(s, e) => e < x)
                => Ascending(Append(s, x))
<1>1. /\ Append(s, x) \in Seq(Nat)
      /\ Len(Append(s, x)) = Len(s) + 1
      /\ Append(s, x)[Len(s) + 1] = x
      /\ \A i \in 1 .. Len(s) : Append(s, x)[i] = s[i] /\ s[i] \in Nat
  OBVIOUS
<1>2. ASSUME NEW e \in Nat
      PROVE  Holds(Append(s, x), e) <=> Holds(s, e) \/ e = x
  BY <1>1 DEF Holds
<1>3. ASSUME Ascending(s), \A e \in Nat : Holds(s, e) => e < x
      PROVE  Ascending(Append(s, x))
  <2>1. \A i \in 1 .. Len(s) : s[i] < x
    BY <1>1, <1>3 DEF Holds
  <2> QED
    BY <1>1, <1>3, <2>1, SMTT(30) DEF Ascending
<1> QED
  BY <1>1, <1>2, <1>3

(* What remains of a vector without its first element. *)
LEMMA TailFact ==
    ASSUME NEW s \in Seq(Nat), s # <<>>
    PROVE  /\ Tail(s) \in Seq(Nat)
           /\ Head(s) \in Nat
           /\ \A e \in Nat : Holds(s, e) <=> Holds(Tail(s), e) \/ e = Head(s)
           /\ Ascending(s) => /\ Ascending(Tail(s))
                              /\ \A e \in Nat : Holds(Tail(s), e) => Head(s) < e
<1>1. /\ Tail(s) \in Seq(Nat)
      /\ Len(s) \in Nat /\ Len(s) > 0 /\ Len(Tail(s)) = Len(s) - 1
      /\ Head(s) = s[1] /\ Head(s) \in Nat
      /\ \A i \in 1 .. Len(Tail(s)) : Tail(s)[i] = s[i + 1] /\ i + 1 \in 1 .. Len(s)
      /\ \A i \in 1 .. Len(s) : i = 1 \/ (i - 1 \in 1 .. Len(Tail(s)) /\ Tail(s)[i - 1] = s[i])
  OBVIOUS
<1>2. ASSUME NEW e \in Nat
      PROVE  Holds(s, e) <=> Holds(Tail(s), e) \/ e = Head(s)
  BY <1>1 DEF Holds
<1>3. ASSUME Ascending(s)
      PROVE  /\ Ascending(Tail(s))
             /\ \A e \in Nat : Holds(Tail(s), e) => Head(s) < e
  BY <1>1, <1>3 DEF Ascending, Holds
<1> QED
  BY <1>1, <1>2, <1>3

(* The frames are numbered from 1 without gaps. *)
LEMMA DepthsFact ==
    /\ 1 \in Depths
    /\ \A d \in Depths : d \in Nat /\ d > 0
    /\ \A d \in Depths : d > 1 => d - 1 \in Depths
    /\ \A d \in Depths : d < MaxDepth => d + 1 \in Depths
  BY BoundsAssumption DEF Depths

(* Events are numbered from 1. *)
LEMMA EventsFact == \A e \in Events : e \in Nat /\ e > 0
  BY BoundsAssumption DEF Events

(* Initially no event exists and every vector is empty. *)
LEMMA InitIInv == Init => IInv
<1> SUFFICES ASSUME Init PROVE IInv
  OBVIOUS
<1>1. QueueTypes /\ EventTypes
  BY DEF Init, QueueTypes, EventTypes
<1>2. FrameTypes
  BY DepthsFact DEF Init, FrameTypes, Places
<1>3. IdleFrames /\ TopEmpty
  BY DepthsFact DEF Init, IdleFrames, TopEmpty
<1>4. Sorted(queue, batch)
  BY EmptyFact DEF Init, Sorted, Before
<1>5. Accounted(posted, queue, batch, done)
  BY EmptyFact DEF Init, Accounted, Undone, done
<1>6. NoLostWakeup
  BY DEF Init, NoLostWakeup
<1> QED
  BY <1>1, <1>2, <1>3, <1>4, <1>5, <1>6 DEF IInv, TypeOK, Ordered

(* The queue, the vectors and the pipe keep their types. *)
LEMMA QueueTypesStep == QueueTypes /\ FrameTypes /\ [Next]_vars => QueueTypes'
<1> SUFFICES ASSUME QueueTypes, FrameTypes, [Next]_vars PROVE QueueTypes'
  OBVIOUS
<1> USE DepthsFact DEF QueueTypes, FrameTypes
<1>1. ASSUME NEW p \in Posters, PostAppend(p) PROVE QueueTypes'
  BY <1>1 DEF PostAppend, Enqueue, loopVars
<1>2. ASSUME NEW p \in Posters, PostWake(p) PROVE QueueTypes'
  BY <1>2 DEF PostWake, loopVars
<1>3. CASE handle_signal
  BY <1>3 DEF handle_signal, loopVars
<1>4. CASE Iterate
  BY <1>4 DEF Iterate
<1>5. CASE ExecReturns
  BY <1>5 DEF ExecReturns
<1>6. CASE SpinReturns
  BY <1>6 DEF SpinReturns
<1>7. ASSUME NEW timer \in BOOLEAN, ComputeTimeout(timer) PROVE QueueTypes'
  BY <1>7 DEF ComputeTimeout
<1>8. ASSUME NEW n \in {0, 1}, PollWake(n) PROVE QueueTypes'
  <2>1. SubSeq(pipe, Len(WakeEvents) + 1, Len(pipe)) \in Seq({"wake", "signal"})
    BY BoundsAssumption DEF WakeEvents
  <2> QED
    BY <1>8, <2>1 DEF PollWake, Enqueue
<1>9. ASSUME NEW n \in {0, 1}, PollOther(n) PROVE QueueTypes'
  BY <1>9 DEF PollOther, Enqueue
<1>10. CASE Take
  BY <1>10 DEF Take
<1>11. CASE BatchDone
  BY <1>11 DEF BatchDone
<1>12. ASSUME NEW e \in Events, NEW n \in {0, 1}, Handle(e, n) PROVE QueueTypes'
  BY <1>12 DEF Handle, HandleNext, Enqueue
<1>13. ASSUME NEW e \in Events, HandleQuit(e) PROVE QueueTypes'
  BY <1>13 DEF HandleQuit, HandleNext
<1>14. ASSUME NEW e \in Events, DropEvent(e) PROVE QueueTypes'
  BY <1>14 DEF DropEvent
<1>15. ASSUME NEW e \in Events, NEW f \in Events, HandleDestroy(e, f) PROVE QueueTypes'
  BY <1>15 DEF HandleDestroy, HandleNext
<1>16. ASSUME NEW e \in Events, NEW f \in Events, HandleSpin(e, f) PROVE QueueTypes'
  BY <1>16, SMTT(30) DEF HandleSpin, HandleNext
<1>17. CASE UNCHANGED vars
  BY <1>17 DEF vars
<1> QED
  BY <1>1, <1>2, <1>3, <1>4, <1>5, <1>6, <1>7, <1>8, <1>9, <1>10, <1>11, <1>12, <1>13, <1>14, <1>15, <1>16, <1>17
     DEF Next, LoopStep, PosterStep

(* The stack of frames stays within its bound. *)
LEMMA FrameTypesStep == FrameTypes /\ [Next]_vars => FrameTypes'
<1> SUFFICES ASSUME FrameTypes, [Next]_vars PROVE FrameTypes'
  OBVIOUS
<1> USE DepthsFact, EventsFact DEF FrameTypes, Places
<1>1. ASSUME NEW p \in Posters, PostAppend(p) PROVE FrameTypes'
  BY <1>1 DEF PostAppend, Enqueue, loopVars
<1>2. ASSUME NEW p \in Posters, PostWake(p) PROVE FrameTypes'
  BY <1>2 DEF PostWake, loopVars
<1>3. CASE handle_signal
  BY <1>3 DEF handle_signal, loopVars
<1>4. CASE Iterate
  BY <1>4 DEF Iterate
<1>5. CASE ExecReturns
  BY <1>5 DEF ExecReturns
<1>6. CASE SpinReturns
  BY <1>6 DEF SpinReturns
<1>7. ASSUME NEW timer \in BOOLEAN, ComputeTimeout(timer) PROVE FrameTypes'
  BY <1>7 DEF ComputeTimeout
<1>8. ASSUME NEW n \in {0, 1}, PollWake(n) PROVE FrameTypes'
  BY <1>8 DEF PollWake, Enqueue
<1>9. ASSUME NEW n \in {0, 1}, PollOther(n) PROVE FrameTypes'
  BY <1>9 DEF PollOther, Enqueue
<1>10. CASE Take
  BY <1>10 DEF Take
<1>11. CASE BatchDone
  BY <1>11 DEF BatchDone
<1>12. ASSUME NEW e \in Events, NEW n \in {0, 1}, Handle(e, n) PROVE FrameTypes'
  BY <1>12 DEF Handle, HandleNext, Enqueue
<1>13. ASSUME NEW e \in Events, HandleQuit(e) PROVE FrameTypes'
  BY <1>13 DEF HandleQuit, HandleNext
<1>14. ASSUME NEW e \in Events, DropEvent(e) PROVE FrameTypes'
  BY <1>14 DEF DropEvent
<1>15. ASSUME NEW e \in Events, NEW f \in Events, HandleDestroy(e, f) PROVE FrameTypes'
  BY <1>15 DEF HandleDestroy, HandleNext
<1>16. ASSUME NEW e \in Events, NEW f \in Events, HandleSpin(e, f) PROVE FrameTypes'
  BY <1>16 DEF HandleSpin, HandleNext
<1>17. CASE UNCHANGED vars
  BY <1>17 DEF vars
<1> QED
  BY <1>1, <1>2, <1>3, <1>4, <1>5, <1>6, <1>7, <1>8, <1>9, <1>10, <1>11, <1>12, <1>13, <1>14, <1>15, <1>16, <1>17
     DEF Next, LoopStep, PosterStep

(* Events are numbers. *)
LEMMA EventTypesStep == EventTypes /\ [Next]_vars => EventTypes'
<1> SUFFICES ASSUME EventTypes, [Next]_vars PROVE EventTypes'
  OBVIOUS
<1> USE EventsFact DEF EventTypes
<1>1. ASSUME NEW p \in Posters, PostAppend(p) PROVE EventTypes'
  BY <1>1 DEF PostAppend, Enqueue, loopVars
<1>2. ASSUME NEW p \in Posters, PostWake(p) PROVE EventTypes'
  BY <1>2 DEF PostWake, loopVars
<1>3. CASE handle_signal
  BY <1>3 DEF handle_signal, loopVars
<1>4. CASE Iterate
  BY <1>4 DEF Iterate
<1>5. CASE ExecReturns
  BY <1>5 DEF ExecReturns
<1>6. CASE SpinReturns
  BY <1>6 DEF SpinReturns
<1>7. ASSUME NEW timer \in BOOLEAN, ComputeTimeout(timer) PROVE EventTypes'
  BY <1>7 DEF ComputeTimeout
<1>8. ASSUME NEW n \in {0, 1}, PollWake(n) PROVE EventTypes'
  BY <1>8 DEF PollWake, Enqueue
<1>9. ASSUME NEW n \in {0, 1}, PollOther(n) PROVE EventTypes'
  BY <1>9 DEF PollOther, Enqueue
<1>10. CASE Take
  BY <1>10 DEF Take
<1>11. CASE BatchDone
  BY <1>11 DEF BatchDone
<1>12. ASSUME NEW e \in Events, NEW n \in {0, 1}, Handle(e, n) PROVE EventTypes'
  BY <1>12 DEF Handle, HandleNext, Enqueue
<1>13. ASSUME NEW e \in Events, HandleQuit(e) PROVE EventTypes'
  BY <1>13 DEF HandleQuit, HandleNext
<1>14. ASSUME NEW e \in Events, DropEvent(e) PROVE EventTypes'
  BY <1>14 DEF DropEvent
<1>15. ASSUME NEW e \in Events, NEW f \in Events, HandleDestroy(e, f) PROVE EventTypes'
  BY <1>15 DEF HandleDestroy, HandleNext
<1>16. ASSUME NEW e \in Events, NEW f \in Events, HandleSpin(e, f) PROVE EventTypes'
  BY <1>16 DEF HandleSpin, HandleNext
<1>17. CASE UNCHANGED vars
  BY <1>17 DEF vars
<1> QED
  BY <1>1, <1>2, <1>3, <1>4, <1>5, <1>6, <1>7, <1>8, <1>9, <1>10, <1>11, <1>12, <1>13, <1>14, <1>15, <1>16, <1>17
     DEF Next, LoopStep, PosterStep

(* Only the innermost frame can have been left with an empty vector. *)
LEMMA FramesStep == QueueTypes /\ FrameTypes /\ IdleFrames /\ TopEmpty /\ [Next]_vars => (IdleFrames /\ TopEmpty)'
<1> SUFFICES ASSUME QueueTypes, FrameTypes, IdleFrames, TopEmpty, [Next]_vars PROVE (IdleFrames /\ TopEmpty)'
  OBVIOUS
<1> USE DepthsFact DEF QueueTypes, FrameTypes, IdleFrames, TopEmpty, Places
<1>1. ASSUME NEW p \in Posters, PostAppend(p) PROVE (IdleFrames /\ TopEmpty)'
  BY <1>1 DEF PostAppend, Enqueue, loopVars
<1>2. ASSUME NEW p \in Posters, PostWake(p) PROVE (IdleFrames /\ TopEmpty)'
  BY <1>2 DEF PostWake, loopVars
<1>3. CASE handle_signal
  BY <1>3 DEF handle_signal, loopVars
<1>4. CASE Iterate
  BY <1>4 DEF Iterate
<1>5. CASE ExecReturns
  BY <1>5 DEF ExecReturns
<1>6. CASE SpinReturns
  BY <1>6 DEF SpinReturns
<1>7. ASSUME NEW timer \in BOOLEAN, ComputeTimeout(timer) PROVE (IdleFrames /\ TopEmpty)'
  BY <1>7 DEF ComputeTimeout
<1>8. ASSUME NEW n \in {0, 1}, PollWake(n) PROVE (IdleFrames /\ TopEmpty)'
  BY <1>8 DEF PollWake, Enqueue
<1>9. ASSUME NEW n \in {0, 1}, PollOther(n) PROVE (IdleFrames /\ TopEmpty)'
  BY <1>9 DEF PollOther, Enqueue
<1>10. CASE Take
  BY <1>10 DEF Take
<1>11. CASE BatchDone
  BY <1>11 DEF BatchDone
<1>12. ASSUME NEW e \in Events, NEW n \in {0, 1}, Handle(e, n) PROVE (IdleFrames /\ TopEmpty)'
  BY <1>12 DEF Handle, HandleNext, Enqueue
<1>13. ASSUME NEW e \in Events, HandleQuit(e) PROVE (IdleFrames /\ TopEmpty)'
  BY <1>13 DEF HandleQuit, HandleNext
<1>14. ASSUME NEW e \in Events, DropEvent(e) PROVE (IdleFrames /\ TopEmpty)'
  BY <1>14 DEF DropEvent
<1>15. ASSUME NEW e \in Events, NEW f \in Events, HandleDestroy(e, f) PROVE (IdleFrames /\ TopEmpty)'
  BY <1>15 DEF HandleDestroy, HandleNext
<1>16. ASSUME NEW e \in Events, NEW f \in Events, HandleSpin(e, f) PROVE (IdleFrames /\ TopEmpty)'
  <2>1. depth \in Nat /\ depth' = depth + 1 /\ depth' \in Depths
    BY <1>16 DEF HandleSpin, HandleNext
  <2>2. batch'[depth'] = <<>>
    BY <1>16, <2>1 DEF HandleSpin, HandleNext
  <2>3. ASSUME NEW d \in Depths, d > depth' PROVE batch'[d] = <<>>
    BY <1>16, <2>1, <2>3 DEF HandleSpin, HandleNext
  <2> QED
    BY <2>2, <2>3
<1>17. CASE UNCHANGED vars
  BY <1>17 DEF vars
<1> QED
  BY <1>1, <1>2, <1>3, <1>4, <1>5, <1>6, <1>7, <1>8, <1>9, <1>10, <1>11, <1>12, <1>13, <1>14, <1>15, <1>16, <1>17
     DEF Next, LoopStep, PosterStep

(* Whoever empties the pipe also leaves poll(), and the queue is looked at again before the next one. *)
LEMMA WakeupStep == QueueTypes /\ NoLostWakeup /\ [Next]_vars => NoLostWakeup'
<1> SUFFICES ASSUME QueueTypes, NoLostWakeup, [Next]_vars PROVE NoLostWakeup'
  OBVIOUS
<1> USE DEF QueueTypes, NoLostWakeup
<1>1. ASSUME NEW p \in Posters, PostAppend(p) PROVE NoLostWakeup'
  BY <1>1 DEF PostAppend, Enqueue, loopVars
<1>2. ASSUME NEW p \in Posters, PostWake(p) PROVE NoLostWakeup'
  BY <1>2, SMTT(30) DEF PostWake, loopVars
<1>3. CASE handle_signal
  BY <1>3, SMTT(30) DEF handle_signal, loopVars
<1>4. CASE Iterate
  BY <1>4 DEF Iterate
<1>5. CASE ExecReturns
  BY <1>5 DEF ExecReturns
<1>6. CASE SpinReturns
  BY <1>6 DEF SpinReturns
<1>7. ASSUME NEW timer \in BOOLEAN, ComputeTimeout(timer) PROVE NoLostWakeup'
  BY <1>7 DEF ComputeTimeout
<1>8. ASSUME NEW n \in {0, 1}, PollWake(n) PROVE NoLostWakeup'
  BY <1>8 DEF PollWake, Enqueue
<1>9. ASSUME NEW n \in {0, 1}, PollOther(n) PROVE NoLostWakeup'
  BY <1>9 DEF PollOther, Enqueue
<1>10. CASE Take
  BY <1>10 DEF Take
<1>11. CASE BatchDone
  BY <1>11 DEF BatchDone
<1>12. ASSUME NEW e \in Events, NEW n \in {0, 1}, Handle(e, n) PROVE NoLostWakeup'
  BY <1>12 DEF Handle, HandleNext, Enqueue
<1>13. ASSUME NEW e \in Events, HandleQuit(e) PROVE NoLostWakeup'
  BY <1>13 DEF HandleQuit, HandleNext
<1>14. ASSUME NEW e \in Events, DropEvent(e) PROVE NoLostWakeup'
  BY <1>14 DEF DropEvent
<1>15. ASSUME NEW e \in Events, NEW f \in Events, HandleDestroy(e, f) PROVE NoLostWakeup'
  BY <1>15 DEF HandleDestroy, HandleNext
<1>16. ASSUME NEW e \in Events, NEW f \in Events, HandleSpin(e, f) PROVE NoLostWakeup'
  BY <1>16 DEF HandleSpin, HandleNext
<1>17. CASE UNCHANGED vars
  BY <1>17 DEF vars
<1> QED
  BY <1>1, <1>2, <1>3, <1>4, <1>5, <1>6, <1>7, <1>8, <1>9, <1>10, <1>11, <1>12, <1>13, <1>14, <1>15, <1>16, <1>17
     DEF Next, LoopStep, PosterStep

(* An event appended to the queue is younger than all others. *)
LEMMA EnqueueKeeps ==
    ASSUME NEW p \in Nat, NEW q \in Seq(Nat), NEW b \in [Depths -> Seq(Nat)], NEW D,
           Ordered(p, q, b, D)
    PROVE  Ordered(p + 1, Append(q, p + 1), b, D)
<1> USE DEF Ordered
<1>1. /\ p + 1 \in Nat /\ Append(q, p + 1) \in Seq(Nat)
      /\ \A e \in Nat : Holds(Append(q, p + 1), e) <=> Holds(q, e) \/ e = p + 1
      /\ (\A e \in Nat : Holds(q, e) => e < p + 1) => Ascending(Append(q, p + 1))
  BY AppendFact DEF Sorted
<1>2. \A e \in Nat : e < p + 1 <=> e <= p
  OBVIOUS
<1>3. Sorted(Append(q, p + 1), b)
  BY <1>1, <1>2 DEF Sorted, Accounted, Before, Undone
<1>4. D \subseteq 1 .. (p + 1) /\ Undone(Append(q, p + 1), p + 1, D)
  BY <1>1, <1>2 DEF Accounted, Undone
<1>5. \A d \in Depths : Undone(b[d], p + 1, D)
  BY <1>1 DEF Accounted, Undone
<1>6. ASSUME NEW e \in 1 .. (p + 1)
      PROVE  e \in D \/ Holds(Append(q, p + 1), e) \/ \E d \in Depths : Holds(b[d], e)
  <2>1. e \in Nat /\ (e = p + 1 \/ e \in 1 .. p)
    OBVIOUS
  <2> QED
    BY <1>1, <2>1 DEF Accounted
<1> QED
  BY <1>3, <1>4, <1>5, <1>6 DEF Accounted

(* A frame whose vector is empty, with none above it, may take the queue. *)
LEMMA TakeKeeps ==
    ASSUME NEW p \in Nat, NEW q \in Seq(Nat), NEW b \in [Depths -> Seq(Nat)], NEW D,
           NEW k \in Depths, \A d \in Depths : d >= k => b[d] = <<>>,
           Ordered(p, q, b, D)
    PROVE  Ordered(p, <<>>, [b EXCEPT ![k] = q], D)
<1> DEFINE bb == [b EXCEPT ![k] = q]
<1>1. \A d \in Depths : bb[d] = IF d = k THEN q ELSE b[d]
  OBVIOUS
<1>2. k \in Nat /\ b[k] = <<>> /\ \A d \in Depths : d \in Nat /\ (d > k => b[d] = <<>>)
  BY DepthsFact
<1> HIDE DEF bb
<1>3. Sorted(<<>>, bb)
  BY <1>1, <1>2, EmptyFact DEF Sorted, Before, Ordered
<1>4. Accounted(p, <<>>, bb, D)
  BY <1>1, <1>2, EmptyFact DEF Accounted, Undone, Ordered
<1> QED
  BY <1>3, <1>4 DEF Ordered, bb

(* The first event of any vector may be done. *)
LEMMA RemoveKeeps ==
    ASSUME NEW p \in Nat, NEW q \in Seq(Nat), NEW b \in [Depths -> Seq(Nat)], NEW D,
           NEW k \in Depths, b[k] # <<>>, Ordered(p, q, b, D)
    PROVE  Ordered(p, q, [b EXCEPT ![k] = Tail(@)], D \union {Head(b[k])})
<1> DEFINE bb == [b EXCEPT ![k] = Tail(@)]
           e == Head(b[k])
<1>1. /\ \A d \in Depths : bb[d] = IF d = k THEN Tail(b[k]) ELSE b[d]
      /\ b[k] \in Seq(Nat)
  OBVIOUS
<1>2. /\ e \in Nat
      /\ \A f \in Nat : Holds(b[k], f) <=> Holds(bb[k], f) \/ f = e
      /\ Ascending(bb[k])
      /\ \A f \in Nat : Holds(bb[k], f) => e < f
  BY <1>1, TailFact DEF Sorted, Ordered
<1> HIDE DEF bb, e
<1>3. \A d \in Depths : \A f \in Nat : Holds(bb[d], f) => Holds(b[d], f) /\ f # e
  <2> SUFFICES ASSUME NEW d \in Depths, NEW f \in Nat, Holds(bb[d], f)
               PROVE  Holds(b[d], f) /\ f # e
    OBVIOUS
  <2>1. CASE d = k
    BY <1>1, <1>2, <2>1
  <2>2. CASE d # k
    <3>1. Holds(b[d], f) /\ Holds(b[k], e) /\ (d < k \/ k < d)
      BY <1>1, <1>2, <2>2, DepthsFact
    <3>2. \A c, g \in Depths : c < g => Before(b[c], b[g])
      BY DEF Sorted, Ordered
    <3>3. Before(b[d], b[k]) \/ Before(b[k], b[d])
      BY <3>1, <3>2
    <3>4. f < e \/ e < f
      BY <1>2, <3>1, <3>3 DEF Before
    <3> QED
      BY <1>2, <3>1, <3>4
  <2> QED
    BY <2>1, <2>2
<1>4. Sorted(q, bb)
  BY <1>1, <1>2, <1>3 DEF Sorted, Before, Ordered
<1>5. Accounted(p, q, bb, D \union {e})
  <2>1. Holds(b[k], e) /\ e \in 1 .. p
    BY <1>1, <1>2 DEF Accounted, Undone, Ordered
  <2>2. \A f \in Nat : Holds(q, f) => f # e
    BY <1>2, <2>1 DEF Sorted, Before, Ordered
  <2>3. D \union {e} \subseteq 1 .. p /\ Undone(q, p, D \union {e})
    BY <2>1, <2>2 DEF Accounted, Undone, Ordered
  <2>4. \A d \in Depths : Undone(bb[d], p, D \union {e})
    BY <1>3 DEF Accounted, Undone, Ordered
  <2>5. ASSUME NEW f \in 1 .. p
        PROVE  f \in D \union {e} \/ Holds(q, f) \/ \E d \in Depths : Holds(bb[d], f)
    <3>1. ASSUME NEW d \in Depths, Holds(b[d], f)
          PROVE  f = e \/ Holds(bb[d], f)
      <4>1. f \in Nat
        OBVIOUS
      <4> QED
        BY <1>1, <1>2, <3>1, <4>1
    <3> QED
      BY <3>1 DEF Accounted, Ordered
  <2> QED
    BY <2>3, <2>4, <2>5 DEF Accounted
<1> QED
  BY <1>4, <1>5 DEF Ordered, bb, e

(* What ThreadEventQueue::post_event does to the queue, if anything. *)
Posts ==
    \/ UNCHANGED <<posted, queue>>
    \/ posted' = posted + 1 /\ queue' = Append(queue, posted + 1)

(* Enqueue appends at most one event. *)
LEMMA EnqueuePosts == ASSUME QueueTypes, NEW n \in {0, 1}, Enqueue(n) PROVE Posts
<1>1. CASE n = 0
  BY <1>1 DEF Enqueue, Posts, QueueTypes
<1>2. CASE n = 1
  BY <1>2 DEF Enqueue, Posts, QueueTypes
<1> QED
  BY <1>1, <1>2

(* Posting keeps the order. *)
LEMMA PostKeeps ==
    ASSUME QueueTypes, Ordered(posted, queue, batch, done), Posts,
           UNCHANGED <<batch, handled, dropped>>
    PROVE  Ordered(posted, queue, batch, done)'
<1>1. done' = done
  BY DEF done
<1>2. CASE UNCHANGED <<posted, queue>>
  BY <1>1, <1>2
<1>3. CASE posted' = posted + 1 /\ queue' = Append(queue, posted + 1)
  BY <1>1, <1>3, EnqueueKeeps DEF QueueTypes
<1> QED
  BY <1>2, <1>3 DEF Posts

(* So does handling or dropping the next event, with or without posting. *)
LEMMA DoneKeeps ==
    ASSUME QueueTypes, FrameTypes, Ordered(posted, queue, batch, done), Posts,
           batch[depth] # <<>>, batch' = [batch EXCEPT ![depth] = Tail(@)],
           done' = done \union {Head(batch[depth])}
    PROVE  Ordered(posted, queue, batch, done)'
<1>1. Ordered(posted, queue, batch', done') /\ batch' \in [Depths -> Seq(Nat)]
  BY RemoveKeeps, TailFact DEF QueueTypes, FrameTypes
<1>2. CASE UNCHANGED <<posted, queue>>
  BY <1>1, <1>2
<1>3. CASE posted' = posted + 1 /\ queue' = Append(queue, posted + 1)
  BY <1>1, <1>3, EnqueueKeeps DEF QueueTypes
<1> QED
  BY <1>2, <1>3 DEF Posts

(* Every step keeps the events accounted for and in order. *)
LEMMA OrderedStep == QueueTypes /\ FrameTypes /\ IdleFrames /\ TopEmpty /\ Ordered(posted, queue, batch, done) /\ [Next]_vars => Ordered(posted, queue, batch, done)'
<1> SUFFICES ASSUME QueueTypes, FrameTypes, IdleFrames, TopEmpty, Ordered(posted, queue, batch, done), [Next]_vars PROVE Ordered(posted, queue, batch, done)'
  OBVIOUS
<1> USE DEF QueueTypes, FrameTypes, IdleFrames, TopEmpty
<1>1. ASSUME NEW p \in Posters, PostAppend(p) PROVE Ordered(posted, queue, batch, done)'
  BY <1>1, EnqueuePosts, PostKeeps DEF PostAppend, loopVars
<1>2. ASSUME NEW p \in Posters, PostWake(p) PROVE Ordered(posted, queue, batch, done)'
  BY <1>2 DEF PostWake, loopVars, done
<1>3. CASE handle_signal
  BY <1>3 DEF handle_signal, loopVars, done
<1>4. CASE Iterate
  BY <1>4 DEF Iterate, done
<1>5. CASE ExecReturns
  BY <1>5 DEF ExecReturns, done
<1>6. CASE SpinReturns
  BY <1>6 DEF SpinReturns, done
<1>7. ASSUME NEW timer \in BOOLEAN, ComputeTimeout(timer) PROVE Ordered(posted, queue, batch, done)'
  BY <1>7 DEF ComputeTimeout, done
<1>8. ASSUME NEW n \in {0, 1}, PollWake(n) PROVE Ordered(posted, queue, batch, done)'
  BY <1>8, EnqueuePosts, PostKeeps DEF PollWake
<1>9. ASSUME NEW n \in {0, 1}, PollOther(n) PROVE Ordered(posted, queue, batch, done)'
  BY <1>9, EnqueuePosts, PostKeeps DEF PollOther
<1>10. CASE Take
  <2>1. \A d \in Depths : d >= depth => batch[d] = <<>>
    BY <1>10, DepthsFact DEF Take
  <2> QED
    BY <1>10, <2>1, TakeKeeps DEF Take, done
<1>11. CASE BatchDone
  BY <1>11 DEF BatchDone, done
<1>12. ASSUME NEW e \in Events, NEW n \in {0, 1}, Handle(e, n) PROVE Ordered(posted, queue, batch, done)'
  BY <1>12, EnqueuePosts, DoneKeeps DEF Handle, HandleNext, done
<1>13. ASSUME NEW e \in Events, HandleQuit(e) PROVE Ordered(posted, queue, batch, done)'
  <2>1. Posts /\ done' = done \union {Head(batch[depth])}
    BY <1>13 DEF HandleQuit, HandleNext, Posts, done
  <2> QED
    BY <1>13, <2>1, DoneKeeps DEF HandleQuit, HandleNext
<1>14. ASSUME NEW e \in Events, DropEvent(e) PROVE Ordered(posted, queue, batch, done)'
  <2>1. Posts /\ done' = done \union {Head(batch[depth])}
    BY <1>14 DEF DropEvent, Posts, done
  <2> QED
    BY <1>14, <2>1, DoneKeeps DEF DropEvent
<1>15. ASSUME NEW e \in Events, NEW f \in Events, HandleDestroy(e, f) PROVE Ordered(posted, queue, batch, done)'
  <2>1. Posts /\ done' = done \union {Head(batch[depth])}
    BY <1>15 DEF HandleDestroy, HandleNext, Posts, done
  <2> QED
    BY <1>15, <2>1, DoneKeeps DEF HandleDestroy, HandleNext
<1>16. ASSUME NEW e \in Events, NEW f \in Events, HandleSpin(e, f) PROVE Ordered(posted, queue, batch, done)'
  <2>1. Posts /\ done' = done \union {Head(batch[depth])}
    BY <1>16 DEF HandleSpin, HandleNext, Posts, done
  <2> QED
    BY <1>16, <2>1, DoneKeeps DEF HandleSpin, HandleNext
<1>17. CASE UNCHANGED vars
  BY <1>17 DEF vars, done
<1> QED
  BY <1>1, <1>2, <1>3, <1>4, <1>5, <1>6, <1>7, <1>8, <1>9, <1>10, <1>11, <1>12, <1>13, <1>14, <1>15, <1>16, <1>17
     DEF Next, LoopStep, PosterStep

(* The inductive invariant holds in every reachable state. *)
THEOREM Invariance == Spec => []IInv
<1>1. ASSUME IInv, [Next]_vars PROVE IInv'
  BY <1>1, QueueTypesStep, FrameTypesStep, EventTypesStep, FramesStep, WakeupStep,
     OrderedStep DEF IInv, TypeOK
<1> QED
  BY InitIInv, <1>1, PTL DEF Spec

(* Every variable keeps its type, and a frame that returned left nothing. *)
THEOREM TypeCorrect == Spec => []TypeOK
<1>1. IInv => TypeOK
  BY DEF IInv
<1> QED
  BY <1>1, Invariance, PTL

(* The loop never sleeps on a queue that nobody will wake it for. *)
THEOREM Wakeup == Spec => []NoLostWakeup
<1>1. IInv => NoLostWakeup
  BY DEF IInv
<1> QED
  BY <1>1, Invariance, PTL

-----------------------------------------------------------------------------
(***************************************************************************)
(* EventLoop implements OrderedDelivery.                                   *)
(***************************************************************************)

AsideOf(b, k) == UNION {{b[d][i] : i \in DOMAIN b[d]} : d \in 1 .. (k - 1)}

(* An event is set aside if a frame below the innermost one holds it. *)
LEMMA AsideFact ==
    ASSUME NEW b \in [Depths -> Seq(Nat)], NEW k \in Depths
    PROVE  /\ AsideOf(b, k) \subseteq Nat
           /\ \A e \in Nat : e \in AsideOf(b, k) <=>
                             \E d \in Depths : d < k /\ Holds(b[d], e)
<1>1. \A d : d \in 1 .. (k - 1) <=> d \in Depths /\ d < k
  BY BoundsAssumption DEF Depths
<1>2. \A d \in Depths : DOMAIN b[d] = 1 .. Len(b[d]) /\ \A i \in DOMAIN b[d] : b[d][i] \in Nat
  OBVIOUS
<1>3. \A e : e \in AsideOf(b, k) <=>
             \E d \in Depths : d < k /\ \E i \in 1 .. Len(b[d]) : b[d][i] = e
  BY <1>1, <1>2 DEF AsideOf
<1> QED
  BY <1>2, <1>3, SMTT(30) DEF Holds

(* What waits for the innermost loop is in its vector or in the queue. *)
LEMMA WaitingFact ==
    ASSUME IInv
    PROVE  \A e : e \in Delivery!Waiting <=>
                  e \in Nat /\ (Holds(batch[depth], e) \/ Holds(queue, e))
<1> USE DEF IInv, TypeOK, QueueTypes, FrameTypes, Ordered
<1>1. Aside = AsideOf(batch, depth)
  BY DEF Aside, AsideOf
<1>2. /\ Aside \subseteq Nat
      /\ \A e \in Nat : e \in Aside <=> \E d \in Depths : d < depth /\ Holds(batch[d], e)
  BY <1>1, AsideFact
<1>3. \A d \in Depths : d \in Nat /\ (d > depth => \A e : ~Holds(batch[d], e))
  BY DepthsFact, EmptyFact DEF IdleFrames
<1>4. ASSUME NEW e \in Nat, Holds(batch[depth], e) \/ Holds(queue, e)
      PROVE  e \in Delivery!Waiting
  <2>1. e \in 1 .. posted /\ e \notin done
    BY <1>4 DEF Accounted, Undone
  <2>2. ASSUME NEW d \in Depths, d < depth, Holds(batch[d], e) PROVE FALSE
    BY <1>4, <2>2 DEF Sorted, Before
  <2> QED
    BY <1>2, <2>1, <2>2 DEF Delivery!Waiting
<1>5. ASSUME NEW e \in Delivery!Waiting
      PROVE  e \in Nat /\ (Holds(batch[depth], e) \/ Holds(queue, e))
  <2>1. e \in Nat /\ e \in 1 .. posted /\ e \notin done /\ e \notin Aside
    BY <1>5 DEF Delivery!Waiting
  <2>2. ASSUME NEW d \in Depths, Holds(batch[d], e) PROVE d = depth
    <3>1. ~(d < depth)
      BY <1>2, <2>1, <2>2
    <3>2. ~(d > depth)
      BY <1>3, <2>2
    <3>3. d \in Nat /\ depth \in Nat
      BY DepthsFact
    <3> QED
      BY <3>1, <3>2, <3>3
  <2> QED
    BY <2>1, <2>2 DEF Accounted
<1> QED
  BY <1>4, <1>5

(* The first event of the innermost vector is the oldest that waits. *)
LEMMA HeadIsOldest ==
    ASSUME IInv, batch[depth] # <<>>
    PROVE  /\ Head(batch[depth]) \in Delivery!Waiting
           /\ \A f \in Delivery!Waiting : Head(batch[depth]) <= f
<1> USE DEF IInv, TypeOK, QueueTypes, FrameTypes, Ordered
<1>1. /\ batch[depth] \in Seq(Nat) /\ Head(batch[depth]) \in Nat
      /\ \A e \in Nat : Holds(batch[depth], e) <=>
                        Holds(Tail(batch[depth]), e) \/ e = Head(batch[depth])
      /\ \A e \in Nat : Holds(Tail(batch[depth]), e) => Head(batch[depth]) < e
  BY TailFact DEF Sorted
<1>2. \A f \in Nat : Holds(queue, f) => Head(batch[depth]) < f
  BY <1>1 DEF Sorted, Before
<1> QED
  BY <1>1, <1>2, WaitingFact

(* Aside changes only if the frames below the innermost one do. *)
LEMMA AsideSame ==
    ASSUME QueueTypes, FrameTypes, QueueTypes', depth' = depth,
           \A d \in Depths : d # depth => batch'[d] = batch[d]
    PROVE  Aside' = Aside
<1>1. Aside = AsideOf(batch, depth) /\ Aside' = AsideOf(batch', depth)
  BY DEF Aside, AsideOf
<1>2. batch \in [Depths -> Seq(Nat)] /\ batch' \in [Depths -> Seq(Nat)] /\ depth \in Depths
  BY DEF QueueTypes, FrameTypes
<1>3. ASSUME NEW e \in Nat
      PROVE  (\E d \in Depths : d < depth /\ Holds(batch[d], e)) <=>
             (\E d \in Depths : d < depth /\ Holds(batch'[d], e))
  <2>1. \A d \in Depths : d < depth => batch'[d] = batch[d]
    BY <1>2, DepthsFact
  <2> QED
    BY <2>1
<1> QED
  BY <1>1, <1>2, <1>3, AsideFact

(* Handling or dropping the next event is a delivery of the oldest one. *)
LEMMA DoneDelivers ==
    ASSUME IInv, QueueTypes', Posts, batch[depth] # <<>>, depth' = depth,
           batch' = [batch EXCEPT ![depth] = Tail(@)],
           done' = done \union {Head(batch[depth])}
    PROVE  Delivery!Deliver
<1>1. Aside' = Aside
  BY AsideSame DEF IInv, TypeOK, QueueTypes
<1>2. posted' \in {posted, posted + 1}
  BY DEF Posts
<1> QED
  BY <1>1, <1>2, HeadIsOldest DEF Delivery!Deliver

(* A handler that starts a nested loop sets the rest of its vector aside. *)
LEMMA SpinDelivers ==
    ASSUME IInv, QueueTypes', FrameTypes', NEW e \in Events, NEW g \in Events,
           HandleSpin(e, g)
    PROVE  Delivery!DeliverNested
<1> DEFINE rest == Tail(batch[depth])
           kept == {f \in Nat : Holds(rest, f)}
<1>1. /\ batch[depth] # <<>> /\ e = Head(batch[depth]) /\ depth' = depth + 1
      /\ batch' = [batch EXCEPT ![depth] = rest] /\ posted' = posted
      /\ done' = done \union {e}
  BY DEF HandleSpin, HandleNext, done
<1>2. /\ batch \in [Depths -> Seq(Nat)] /\ batch' \in [Depths -> Seq(Nat)]
      /\ depth \in Depths /\ depth' \in Depths /\ depth \in Nat
  BY DepthsFact DEF IInv, TypeOK, QueueTypes, FrameTypes
<1>3. /\ \A f \in Nat : Holds(batch[depth], f) <=> Holds(rest, f) \/ f = e
      /\ \A f \in Nat : Holds(rest, f) => e < f
      /\ e \in Nat
  BY <1>1, <1>2, TailFact DEF IInv, Ordered, Sorted
<1> HIDE DEF rest
<1>4. e \in Delivery!Waiting /\ \A f \in Delivery!Waiting : e <= f
  BY <1>1, HeadIsOldest
<1>5. kept \subseteq Delivery!Waiting /\ e \notin kept
  BY <1>3, WaitingFact
<1>6. \A f \in kept : \A h \in Delivery!Waiting \ (kept \union {e}) : f < h
  <2>1. ASSUME NEW f \in kept, NEW h \in Delivery!Waiting \ (kept \union {e}) PROVE f < h
    <3>1. h \in Nat /\ Holds(queue, h)
      BY <1>3, <2>1, WaitingFact
    <3>2. f \in Nat /\ Holds(batch[depth], f)
      BY <1>3, <2>1
    <3> QED
      BY <1>2, <3>1, <3>2 DEF IInv, Ordered, Sorted, Before
  <2> QED
    BY <2>1
<1>7. Aside' = Aside \union kept
  <2>1. Aside = AsideOf(batch, depth) /\ Aside' = AsideOf(batch', depth')
    BY DEF Aside, AsideOf
  <2>2. \A d \in Depths : batch'[d] = IF d = depth THEN rest ELSE batch[d]
    BY <1>1, <1>2
  <2>3. \A d \in Depths : d < depth' <=> d < depth \/ d = depth
    BY <1>1, <1>2, DepthsFact
  <2>4. ASSUME NEW f \in Nat
        PROVE  f \in AsideOf(batch', depth') <=> f \in AsideOf(batch, depth) \union kept
    <3>1. f \in AsideOf(batch', depth') <=>
          \E d \in Depths : (d < depth \/ d = depth) /\ Holds(batch'[d], f)
      BY <1>2, <2>3, AsideFact
    <3>2. f \in AsideOf(batch, depth) <=> \E d \in Depths : d < depth /\ Holds(batch[d], f)
      BY <1>2, AsideFact
    <3>3. \A d \in Depths : d < depth => batch'[d] = batch[d]
      BY <1>2, <2>2, DepthsFact
    <3>4. batch'[depth] = rest
      BY <1>2, <2>2
    <3> QED
      BY <1>2, <3>1, <3>2, <3>3, <3>4
  <2>5. AsideOf(batch', depth') \subseteq Nat /\ AsideOf(batch, depth) \subseteq Nat
    BY <1>2, AsideFact
  <2> QED
    BY <2>1, <2>4, <2>5
<1> HIDE DEF kept
<1> QED
  BY <1>1, <1>4, <1>5, <1>6, <1>7 DEF Delivery!DeliverNested

(* A spin_until that returns gives the events its handler kept back. *)
LEMMA SpinReturnUnnests ==
    ASSUME IInv, QueueTypes', FrameTypes', SpinReturns
    PROVE  Delivery!Unnest
<1>1. /\ depth' = depth - 1 /\ batch' = batch /\ posted' = posted /\ done' = done
  BY DEF SpinReturns, done
<1>2. /\ batch \in [Depths -> Seq(Nat)] /\ depth \in Depths /\ depth' \in Depths
      /\ depth \in Nat
  BY DepthsFact DEF IInv, TypeOK, QueueTypes, FrameTypes
<1>3. Aside = AsideOf(batch, depth) /\ Aside' = AsideOf(batch, depth')
  BY <1>1 DEF Aside, AsideOf
<1>4. \A d \in Depths : d \in Nat /\ (d < depth <=> d < depth' \/ d = depth')
  BY <1>1, <1>2, DepthsFact
<1>5. /\ Aside' \subseteq Nat /\ Aside \subseteq Nat
      /\ \A f \in Nat : f \in Aside' <=> \E d \in Depths : d < depth' /\ Holds(batch[d], f)
      /\ \A f \in Nat : f \in Aside <=> \E d \in Depths : d < depth /\ Holds(batch[d], f)
  BY <1>2, <1>3, AsideFact
<1>6. Aside' \subseteq Aside
  BY <1>4, <1>5
<1>7. ASSUME NEW f \in Aside', NEW g \in Aside \ Aside' PROVE f < g
  <2>1. Holds(batch[depth'], g) /\ g \in Nat
    BY <1>4, <1>5
  <2>2. PICK d \in Depths : d < depth' /\ Holds(batch[d], f) /\ f \in Nat
    BY <1>5
  <2> QED
    BY <1>2, <2>1, <2>2 DEF IInv, Ordered, Sorted, Before
<1> QED
  BY <1>1, <1>6, <1>7 DEF Delivery!Unnest

(* Every step is a step of OrderedDelivery or leaves its variables alone. *)
LEMMA Refines == ASSUME IInv, IInv', [Next]_vars PROVE [Delivery!Next]_(Delivery!vars)
<1> USE DEF Delivery!Next
<1>0. QueueTypes /\ QueueTypes' /\ FrameTypes /\ FrameTypes'
  BY DEF IInv, TypeOK
<1>1. ASSUME Posts, UNCHANGED <<depth, handled, dropped>>,
             \A d \in Depths : d # depth => batch'[d] = batch[d]
      PROVE  Delivery!Post \/ UNCHANGED Delivery!vars
  BY <1>0, <1>1, AsideSame DEF Posts, Delivery!Post, Delivery!vars, done
<1>2. ASSUME UNCHANGED <<posted, queue, depth, batch, handled, dropped>>
      PROVE  UNCHANGED Delivery!vars
  BY <1>0, <1>2, AsideSame DEF Delivery!vars, done
<1>3. CASE \E p \in Posters : PostAppend(p)
  BY <1>0, <1>1, <1>3, EnqueuePosts DEF PostAppend, loopVars
<1>4. CASE handle_signal \/ (\E p \in Posters : PostWake(p))
  BY <1>2, <1>4 DEF handle_signal, PostWake, loopVars
<1>5. CASE Iterate \/ ExecReturns \/ BatchDone \/ \E timer \in BOOLEAN : ComputeTimeout(timer)
  BY <1>2, <1>5 DEF Iterate, ExecReturns, BatchDone, ComputeTimeout
<1>6. CASE SpinReturns
  BY <1>0, <1>6, SpinReturnUnnests
<1>7. ASSUME NEW n \in {0, 1}, PollWake(n) \/ PollOther(n)
      PROVE  [Delivery!Next]_(Delivery!vars)
  BY <1>0, <1>1, <1>7, EnqueuePosts DEF PollWake, PollOther
<1>8. CASE Take
  <2>1. Aside' = Aside /\ posted' = posted /\ done' = done
    BY <1>0, <1>8, AsideSame DEF Take, QueueTypes, done
  <2> QED
    BY <2>1 DEF Delivery!vars
<1>9. ASSUME NEW e \in Events, NEW n \in {0, 1}, Handle(e, n) PROVE Delivery!Deliver
  BY <1>0, <1>9, EnqueuePosts, DoneDelivers DEF Handle, HandleNext, done
<1>10. ASSUME NEW e \in Events, HandleQuit(e) PROVE Delivery!Deliver
  BY <1>0, <1>10, DoneDelivers DEF HandleQuit, HandleNext, Posts, done
<1>11. ASSUME NEW e \in Events, NEW f \in Events, HandleDestroy(e, f) PROVE Delivery!Deliver
  BY <1>0, <1>11, DoneDelivers DEF HandleDestroy, HandleNext, Posts, done
<1>12. ASSUME NEW e \in Events, DropEvent(e) PROVE Delivery!Deliver
  BY <1>0, <1>12, DoneDelivers DEF DropEvent, Posts, done
<1>13. ASSUME NEW e \in Events, NEW g \in Events, HandleSpin(e, g)
       PROVE  Delivery!DeliverNested
  BY <1>0, <1>13, SpinDelivers
<1>14. CASE UNCHANGED vars
  BY <1>2, <1>14 DEF vars
<1> QED
  BY <1>3, <1>4, <1>5, <1>6, <1>7, <1>8, <1>9, <1>10, <1>11, <1>12, <1>13, <1>14
     DEF Next, LoopStep, PosterStep

(* Events are delivered once and in order, whatever loops are nested. *)
THEOREM Implements == Spec => DeliversInOrder
<1>1. Init => Delivery!Init
  BY DEF Init, Delivery!Init, Aside, done
<1> QED
  BY <1>1, Refines, Invariance, PTL DEF Spec, DeliversInOrder, Delivery!Spec

-----------------------------------------------------------------------------
(***************************************************************************)
(* What relates m_state, the two program counters and the pthread.  The    *)
(* safety properties are not inductive: that the compare-exchange of the   *)
(* exiting thread finds Running or Detached depends on which reference is  *)
(* still held, and that pthread_detach may be called depends on who won    *)
(* the race for m_state.                                                   *)
(***************************************************************************)
WorkerInv(t) ==
    /\ worker[t] = "none" =>
         /\ tid[t] = "none"
         /\ m_state[t] = "Startable" \/ (m_state[t] = "Running" /\ owner[t] = "starting")
    /\ worker[t] = "action" => m_state[t] \in {"Running", "Detached"}
    /\ worker[t] = "detached_exit" => m_state[t] = "Detached"
    /\ worker[t] = "release" => m_state[t] \in {"Exited", "DetachedExited"}
    /\ worker[t] \in {"destroying", "return", "ended"} =>
         m_state[t] \in {"Exited", "DetachedExited", "Joined"}
    /\ worker[t] \in {"action", "detached_exit", "release"} =>
         owner[t] \notin {"destroying", "destroyed"}

OwnerInv(t) ==
    /\ owner[t] = "starting" => worker[t] = "none" /\ m_state[t] = "Running"
    /\ owner[t] = "detaching" =>
         /\ m_state[t] \in {"Detached", "DetachedExited"}
         /\ tid[t] \in {"joinable", "zombie"}
    /\ owner[t] = "joining" => m_state[t] \in {"Running", "Exited"}
    /\ owner[t] = "destroyed" => m_state[t] \notin {"Running", "Exited"}

TidInv(t) ==
    /\ tid[t] = "none" => worker[t] = "none"
    /\ tid[t] \in {"zombie", "reaped"} => worker[t] = "ended"
    /\ tid[t] \in {"joinable", "detached"} => worker[t] \notin {"none", "ended"}
    /\ m_state[t] \in {"Running", "Exited"} => tid[t] \in {"none", "joinable", "zombie"}
    /\ m_state[t] = "Joined" => tid[t] = "reaped"
    /\ m_state[t] \in {"Detached", "DetachedExited"} /\ owner[t] # "detaching" =>
         tid[t] \in {"detached", "reaped"}

ThreadIInv ==
    /\ ThreadTypeOK
    /\ \A t \in Threads :
         ~verify_failed[t] /\ WorkerInv(t) /\ OwnerInv(t) /\ TidInv(t)

-----------------------------------------------------------------------------

(* No thread object exists in a state other than Startable initially. *)
LEMMA ThreadInitIInv == ThreadInit => ThreadIInv
  BY DEF ThreadInit, ThreadIInv, ThreadTypeOK, WorkerInv, OwnerInv, TidInv, ThreadState,
         OwnerPlace, WorkerPlace, TidState

(* Every step of an owner or of a worker keeps the invariant: the step      *)
(* concerns one thread and leaves the others as they were.                 *)
LEMMA ThreadNextIInv == ThreadIInv /\ [ThreadNext]_threadVars => ThreadIInv'
<1> SUFFICES ASSUME ThreadIInv, [ThreadNext]_threadVars PROVE ThreadIInv'
  OBVIOUS
<1> USE DEF ThreadIInv, ThreadTypeOK, WorkerInv, OwnerInv, TidInv, ThreadState,
            OwnerPlace, WorkerPlace, TidState
<1>1. ASSUME NEW t \in Threads, StartSetRunning(t) PROVE ThreadIInv'
  BY <1>1 DEF StartSetRunning
<1>2. ASSUME NEW t \in Threads, StartCreate(t) PROVE ThreadIInv'
  BY <1>2 DEF StartCreate
<1>3. ASSUME NEW t \in Threads, DetachWins(t) PROVE ThreadIInv'
  BY <1>3 DEF DetachWins
<1>4. ASSUME NEW t \in Threads, DetachLoses(t) PROVE ThreadIInv'
  BY <1>4 DEF DetachLoses
<1>5. ASSUME NEW t \in Threads, PthreadDetach(t) PROVE ThreadIInv'
  BY <1>5 DEF PthreadDetach
<1>6. ASSUME NEW t \in Threads, JoinCall(t) PROVE ThreadIInv'
  BY <1>6 DEF JoinCall, needs_to_be_joined
<1>7. ASSUME NEW t \in Threads, JoinReturn(t) PROVE ThreadIInv'
  BY <1>7 DEF JoinReturn
<1>8. ASSUME NEW t \in Threads, OwnerRelease(t) PROVE ThreadIInv'
  BY <1>8 DEF OwnerRelease, WorkerHoldsReference
<1>9. ASSUME NEW t \in Threads, OwnerDestroyJoins(t) PROVE ThreadIInv'
  BY <1>9 DEF OwnerDestroyJoins, needs_to_be_joined
<1>10. ASSUME NEW t \in Threads, OwnerDestroy(t) PROVE ThreadIInv'
  BY <1>10 DEF OwnerDestroy, needs_to_be_joined
<1>11. ASSUME NEW t \in Threads, WorkerExit(t) PROVE ThreadIInv'
  BY <1>11 DEF WorkerExit
<1>12. ASSUME NEW t \in Threads, WorkerDetachedExit(t) PROVE ThreadIInv'
  BY <1>12 DEF WorkerDetachedExit
<1>13. ASSUME NEW t \in Threads, WorkerRelease(t) PROVE ThreadIInv'
  BY <1>13 DEF WorkerRelease, OwnerHoldsReference
<1>14. ASSUME NEW t \in Threads, WorkerDestroy(t) PROVE ThreadIInv'
  BY <1>14 DEF WorkerDestroy
<1>15. ASSUME NEW t \in Threads, WorkerReturn(t) PROVE ThreadIInv'
  BY <1>15 DEF WorkerReturn
<1>16. CASE UNCHANGED threadVars
  BY <1>16 DEF threadVars
<1> QED
  BY <1>1, <1>2, <1>3, <1>4, <1>5, <1>6, <1>7, <1>8, <1>9, <1>10, <1>11, <1>12, <1>13, <1>14, <1>15, <1>16
     DEF ThreadNext, OwnerCall, OwnerStep, WorkerStep

(* The inductive invariant holds in every reachable state. *)
THEOREM ThreadInvariance == ThreadSpec => []ThreadIInv
  BY ThreadInitIInv, ThreadNextIInv, PTL DEF ThreadSpec

(* Every variable keeps its type, and m_tid is set exactly when the        *)
(* thread was created.                                                     *)
THEOREM ThreadTypeCorrect == ThreadSpec => []ThreadTypeOK
<1>1. ThreadIInv => ThreadTypeOK
  BY DEF ThreadIInv
<1> QED
  BY <1>1, ThreadInvariance, PTL

(* No VERIFY of Thread fails, however detach() or join() race with the     *)
(* end of the thread.                                                      *)
THEOREM ThreadSafety == ThreadSpec => []NoVerifyFailure
<1>1. ThreadIInv => NoVerifyFailure
  BY DEF ThreadIInv, NoVerifyFailure
<1> QED
  BY <1>1, ThreadInvariance, PTL

(* ~Thread never runs while the thread is still executing its action. *)
THEOREM DestructionSafe == ThreadSpec => []DestroyedAfterExit
<1>1. ThreadIInv => DestroyedAfterExit
  BY DEF ThreadIInv, ThreadTypeOK, WorkerInv, OwnerInv, TidInv, DestroyedAfterExit,
         ThreadState, OwnerPlace, WorkerPlace
<1> QED
  BY <1>1, ThreadInvariance, PTL

(* Once both references are gone the pthread is reaped, unless ~Thread ran  *)
(* on the thread itself and found it undetached: OwnerInv says what ~Thread *)
(* leaves behind on the owner's side, TidInv what a detach has come to.     *)
THEOREM Reaping == ThreadSpec => []LeakedOnlyBySelfJoin
<1>1. ThreadIInv => LeakedOnlyBySelfJoin
  BY DEF ThreadIInv, ThreadTypeOK, WorkerInv, OwnerInv, TidInv, LeakedOnlyBySelfJoin,
         ThreadState, OwnerPlace, WorkerPlace, TidState
<1> QED
  BY <1>1, ThreadInvariance, PTL

-----------------------------------------------------------------------------
(***************************************************************************)
(* Timer.  TimersConsistent is inductive as it stands: what makes it so is *)
(* that unschedule() keeps the indices and the vector in agreement, the    *)
(* lemma Unscheduled.  EarlyOnlyByStaleEvent is not: DueInv relates the    *)
(* time that is left to the time that has passed, and EventInv says of a   *)
(* queued event that is not stale that its timer has run for its interval. *)
(***************************************************************************)

(* An active timer has run for its interval, or will have when it is due;  *)
(* only timers with interval zero are relative timeouts.                   *)
DueInv ==
    \A t \in Timers : m_active[t] =>
        /\ age[t] >= interval[t] \/ (due[t] > 0 /\ age[t] + due[t] >= interval[t])
        /\ m_index[t] < 0 => interval[t] = 0

EventInv ==
    \A t \in events \ stale : m_active[t] /\ age[t] >= interval[t]

TimerIInv == TimersConsistent /\ DueInv /\ EventInv

-----------------------------------------------------------------------------

(* unschedule() keeps the indices and the vector in agreement: the last    *)
(* relative timeout takes the place and the index of the one that is       *)
(* removed, also if the two are the same, and its VERIFY holds.            *)
LEMMA Unscheduled ==
    ASSUME TimerTypeOK, IndexConsistent,
           NEW t \in Timers, NEW new \in {InHeap, INVALID_INDEX},
           m_index' = IndexWithout(t, new), m_scheduled_timeouts' = WithoutTimeout(t)
    PROVE  /\ m_scheduled_timeouts' \in Seq(Timers)
           /\ m_index' \in [Timers -> -Len(m_scheduled_timeouts') .. INVALID_INDEX]
           /\ \A u \in Timers : m_index'[u] < 0 => m_scheduled_timeouts'[-m_index'[u]] = u
           /\ \A i \in 1 .. Len(m_scheduled_timeouts') :
                 m_index'[m_scheduled_timeouts'[i]] = -i
           /\ m_index'[t] = new
           /\ \A u \in Timers \ {t} :
                 m_index'[u] # m_index[u] => m_index'[u] < 0 /\ m_index[u] < 0
           /\ ~WrongTimeout(t)
<1> DEFINE last == Len(m_scheduled_timeouts)
           timeouts == m_scheduled_timeouts'
           index == m_index'
<1>1. /\ m_scheduled_timeouts \in Seq(Timers) /\ last \in Nat
      /\ m_index \in [Timers -> -last .. INVALID_INDEX]
  BY DEF TimerTypeOK
<1>2. ~WrongTimeout(t)
  BY DEF IndexConsistent, WrongTimeout
<1>3. CASE ~(m_index[t] < 0)
  <2>1. timeouts = m_scheduled_timeouts /\ index = [m_index EXCEPT ![t] = new]
    BY <1>3 DEF WithoutTimeout, IndexWithout
  <2>2. \A i \in 1 .. last : m_scheduled_timeouts[i] # t
    BY <1>1, <1>3 DEF IndexConsistent
  <2>3. QED
    BY <1>1, <1>2, <2>1, <2>2 DEF IndexConsistent, InHeap, INVALID_INDEX
<1>4. CASE m_index[t] < 0
  <2> DEFINE p == -m_index[t]
             u0 == m_scheduled_timeouts[last]
             swapped == [m_scheduled_timeouts EXCEPT ![p] = u0]
  <2>1. p \in 1 .. last /\ m_scheduled_timeouts[p] = t /\ last \in 1 .. last
    BY <1>1, <1>4 DEF IndexConsistent
  <2>2. u0 \in Timers /\ m_index[u0] = -last
    BY <1>1, <2>1 DEF IndexConsistent
  <2>3. /\ swapped \in Seq(Timers) /\ Len(swapped) = last
        /\ \A i \in 1 .. last : swapped[i] = IF i = p THEN u0 ELSE m_scheduled_timeouts[i]
    BY <1>1, <2>1, <2>2
  <2>4. timeouts = SubSeq(swapped, 1, last - 1)
    BY <1>4 DEF WithoutTimeout
  <2>5. /\ timeouts \in Seq(Timers) /\ Len(timeouts) = last - 1
        /\ \A i \in 1 .. last - 1 : timeouts[i] = swapped[i]
    BY <1>1, <2>1, <2>3, <2>4
  <2>6. index = [m_index EXCEPT ![u0] = m_index[t], ![t] = new]
    BY <1>4 DEF IndexWithout, LastTimeout
  <2>7. \A u \in Timers :
          index[u] = IF u = t THEN new ELSE IF u = u0 THEN -p ELSE m_index[u]
    BY <1>1, <2>2, <2>6
  <2>8. ASSUME NEW u \in Timers, u # t, u # u0, m_index[u] < 0
        PROVE  /\ -m_index[u] \in 1 .. last - 1 /\ -m_index[u] # p
               /\ m_scheduled_timeouts[-m_index[u]] = u
    BY <1>1, <2>1, <2>2, <2>8, SMTT(30) DEF IndexConsistent
  <2>9. u0 # t => p \in 1 .. last - 1
    BY <1>1, <2>1, <2>2
  <2>10. index \in [Timers -> -Len(timeouts) .. INVALID_INDEX]
    <3>1. index \in [Timers -> Int]
      BY <1>1, <2>2, <2>6 DEF InHeap, INVALID_INDEX
    <3>2. \A u \in Timers : index[u] \in -(last - 1) .. INVALID_INDEX
      <4> SUFFICES ASSUME NEW u \in Timers PROVE index[u] \in -(last - 1) .. INVALID_INDEX
        OBVIOUS
      <4>1. CASE u = t
        BY <1>1, <2>1, <2>7, <4>1 DEF InHeap, INVALID_INDEX
      <4>2. CASE u # t /\ u = u0
        BY <1>1, <2>1, <2>7, <2>9, <4>2 DEF INVALID_INDEX
      <4>3. CASE u # t /\ u # u0
        <5>1. index[u] = m_index[u] /\ m_index[u] \in -last .. INVALID_INDEX
          BY <1>1, <2>7, <4>3
        <5>2. QED
          BY <1>1, <2>1, <2>8, <4>3, <5>1 DEF INVALID_INDEX
      <4>4. QED
        BY <4>1, <4>2, <4>3
    <3>3. QED
      BY <3>1, <3>2, <2>5
  <2>11. \A u \in Timers : index[u] < 0 => timeouts[-index[u]] = u
    BY <2>1, <2>3, <2>5, <2>7, <2>8, <2>9 DEF InHeap, INVALID_INDEX
  <2>12. ASSUME NEW i \in 1 .. last - 1 PROVE index[timeouts[i]] = -i
    <3>1. i \in 1 .. last /\ m_scheduled_timeouts[i] \in Timers
          /\ m_index[m_scheduled_timeouts[i]] = -i
      BY <1>1 DEF IndexConsistent
    <3>2. CASE i = p
      BY <2>2, <2>3, <2>5, <2>7, <3>1, <3>2, <2>1
    <3>3. CASE i # p
      <4>1. timeouts[i] = m_scheduled_timeouts[i]
        BY <2>3, <2>5, <3>1, <3>3
      <4>2. m_scheduled_timeouts[i] # t /\ m_scheduled_timeouts[i] # u0
        BY <1>1, <2>1, <2>2, <3>1, <3>3
      <4>3. QED
        BY <2>7, <3>1, <4>1, <4>2
    <3>4. QED
      BY <3>2, <3>3
  <2>13. \A u \in Timers \ {t} : index[u] # m_index[u] => index[u] < 0 /\ m_index[u] < 0
    BY <1>1, <2>1, <2>2, <2>7
  <2>14. QED
    BY <1>2, <2>5, <2>7, <2>10, <2>11, <2>12, <2>13
<1>5. QED
  BY <1>3, <1>4

(* What a step that unschedules a timer leaves. *)
LEMMA Removed ==
    ASSUME TimerTypeOK, IndexConsistent, NEW t \in Timers, NEW new \in {InHeap, INVALID_INDEX},
           m_index' = IndexWithout(t, new),
           m_scheduled_timeouts' = WithoutTimeout(t),
           timer_failed' = (timer_failed \/ WrongTimeout(t))
    PROVE  /\ m_scheduled_timeouts' \in Seq(Timers)
           /\ m_index' \in [Timers -> -Len(m_scheduled_timeouts') .. INVALID_INDEX]
           /\ m_index'[t] = new
           /\ \A u \in Timers \ {t} : /\ m_index'[u] < 0 <=> m_index[u] < 0
                                      /\ m_index'[u] = INVALID_INDEX <=> m_index[u] = INVALID_INDEX
           /\ timer_failed' = FALSE
           /\ IndexConsistent'
<1>1. /\ m_scheduled_timeouts' \in Seq(Timers)
      /\ m_index' \in [Timers -> -Len(m_scheduled_timeouts') .. INVALID_INDEX]
      /\ \A u \in Timers : m_index'[u] < 0 => m_scheduled_timeouts'[-m_index'[u]] = u
      /\ \A i \in 1 .. Len(m_scheduled_timeouts') : m_index'[m_scheduled_timeouts'[i]] = -i
      /\ m_index'[t] = new
      /\ \A u \in Timers \ {t} : m_index'[u] # m_index[u] => m_index'[u] < 0 /\ m_index[u] < 0
      /\ ~WrongTimeout(t)
  BY Unscheduled
<1>2. timer_failed' = FALSE
  BY <1>1 DEF IndexConsistent
<1>3. \A u \in Timers : m_index[u] \in Int /\ m_index'[u] \in Int
                        /\ m_index'[u] >= -Len(m_scheduled_timeouts')
  BY <1>1 DEF TimerTypeOK, INVALID_INDEX
<1>4. IndexConsistent'
  <2>1. \A u \in Timers : m_index'[u] < 0 => /\ -m_index'[u] <= Len(m_scheduled_timeouts')
                                            /\ m_scheduled_timeouts'[-m_index'[u]] = u
    BY <1>1, <1>3
  <2>2. QED
    BY <1>1, <1>2, <2>1 DEF IndexConsistent
<1>5. QED
  BY <1>1, <1>2, <1>3, <1>4 DEF INVALID_INDEX

(* A timer that fires expires again within its interval. *)
LEMMA NextDueFact ==
    ASSUME TimerTypeOK, NEW t \in Expired
    PROVE  /\ t \in Timers /\ m_index[t] = InHeap /\ due[t] <= 0
           /\ NextDue(t) \in -MaxInterval .. MaxInterval
           /\ NextDue(t) = 0 => interval[t] = 0
BY TimerAssumption DEF TimerTypeOK, Expired, NextDue, Intervals

-----------------------------------------------------------------------------

(* The types, the indices and the flags are kept by every step. *)
LEMMA ConsistentStep == TimersConsistent /\ [TimerNext]_timingVars => TimersConsistent'
<1> SUFFICES ASSUME TimersConsistent, [TimerNext]_timingVars PROVE TimersConsistent'
  OBVIOUS
<1>0. TimerTypeOK /\ IndexConsistent /\ ActiveIsScheduled
  BY DEF TimersConsistent
<1> USE TimerAssumption
<1>1. ASSUME NEW t \in Timers, NEW i \in Intervals, start(t, i) PROVE TimersConsistent'
  <2>1. m_index[t] = INVALID_INDEX /\ ~m_timer_id[t]
    BY <1>0, <1>1 DEF start, ActiveIsScheduled, TimerTypeOK
  <2>2. TimerTypeOK'
    BY <1>0, <1>1 DEF start, StartTimer, StaleNow, TimerTypeOK, Intervals, InHeap, INVALID_INDEX
  <2>3. IndexConsistent'
    BY <1>0, <1>1, <2>1 DEF start, TimerTypeOK, IndexConsistent, InHeap, INVALID_INDEX
  <2>4. ActiveIsScheduled'
    BY <1>0, <1>1 DEF start, StartTimer, TimerTypeOK, ActiveIsScheduled, InHeap, INVALID_INDEX
  <2>5. QED
    BY <2>2, <2>3, <2>4 DEF TimersConsistent
<1>2. ASSUME NEW t \in Timers, stop(t) PROVE TimersConsistent'
  <2>1. /\ m_index' = IndexWithout(t, INVALID_INDEX) /\ m_scheduled_timeouts' = WithoutTimeout(t)
        /\ timer_failed' = (timer_failed \/ WrongTimeout(t))
    BY <1>2 DEF stop
  <2>2. /\ m_scheduled_timeouts' \in Seq(Timers)
        /\ m_index' \in [Timers -> -Len(m_scheduled_timeouts') .. INVALID_INDEX]
        /\ m_index'[t] = INVALID_INDEX
        /\ \A u \in Timers \ {t} : m_index'[u] = INVALID_INDEX <=> m_index[u] = INVALID_INDEX
        /\ timer_failed' = FALSE
        /\ IndexConsistent'
    BY <1>0, <2>1, Removed
  <2>3. TimerTypeOK'
    BY <1>0, <1>2, <2>2 DEF stop, StaleNow, TimerTypeOK
  <2>4. ActiveIsScheduled'
    BY <1>0, <1>2, <2>2 DEF stop, TimerTypeOK, ActiveIsScheduled
  <2>5. QED
    BY <2>2, <2>3, <2>4 DEF TimersConsistent
<1>3. ASSUME NEW t \in Timers, NEW i \in Intervals, restart(t, i) PROVE TimersConsistent'
  <2>1. /\ m_index' = IndexWithout(t, InHeap) /\ m_scheduled_timeouts' = WithoutTimeout(t)
        /\ timer_failed' = (timer_failed \/ WrongTimeout(t))
    BY <1>3 DEF restart
  <2>2. /\ m_scheduled_timeouts' \in Seq(Timers)
        /\ m_index' \in [Timers -> -Len(m_scheduled_timeouts') .. INVALID_INDEX]
        /\ m_index'[t] = InHeap
        /\ \A u \in Timers \ {t} : m_index'[u] = INVALID_INDEX <=> m_index[u] = INVALID_INDEX
        /\ timer_failed' = FALSE
        /\ IndexConsistent'
    BY <1>0, <2>1, Removed
  <2>3. TimerTypeOK'
    <3>1. i \in -MaxInterval .. MaxInterval
      BY DEF Intervals
    <3>2. due' \in [Timers -> -MaxInterval .. MaxInterval]
      BY <1>0, <1>3, <3>1 DEF restart, StartTimer, TimerTypeOK
    <3>3. interval' \in [Timers -> Intervals] /\ age' \in [Timers -> Intervals]
          /\ m_interval_ms' \in [Timers -> Intervals]
      BY <1>0, <1>3 DEF restart, StartTimer, TimerTypeOK, Intervals
    <3>4. QED
      BY <1>0, <1>3, <2>2, <3>2, <3>3 DEF restart, StartTimer, StaleNow, TimerTypeOK
  <2>4. ActiveIsScheduled'
    BY <1>0, <1>3, <2>2 DEF restart, StartTimer, TimerTypeOK, ActiveIsScheduled, InHeap, INVALID_INDEX
  <2>5. QED
    BY <2>2, <2>3, <2>4 DEF TimersConsistent
<1>4. ASSUME NEW t \in Timers, NEW i \in Intervals, set_interval(t, i) PROVE TimersConsistent'
  BY <1>0, <1>4 DEF set_interval, timeoutVars, historyVars, TimersConsistent, TimerTypeOK,
      IndexConsistent, ActiveIsScheduled
<1>5. ASSUME NEW t \in Timers, TimerEventTooLate(t) PROVE TimersConsistent'
  BY <1>0, <1>5 DEF TimerEventTooLate, timerVars, timeoutVars, TimersConsistent, TimerTypeOK,
      IndexConsistent, ActiveIsScheduled
<1>6. ASSUME NEW t \in Timers, TimerEventSingleShot(t) PROVE TimersConsistent'
  <2>1. /\ m_index' = IndexWithout(t, INVALID_INDEX) /\ m_scheduled_timeouts' = WithoutTimeout(t)
        /\ timer_failed' = (timer_failed \/ WrongTimeout(t))
    BY <1>6 DEF TimerEventSingleShot
  <2>2. /\ m_scheduled_timeouts' \in Seq(Timers)
        /\ m_index' \in [Timers -> -Len(m_scheduled_timeouts') .. INVALID_INDEX]
        /\ m_index'[t] = INVALID_INDEX
        /\ \A u \in Timers \ {t} : m_index'[u] = INVALID_INDEX <=> m_index[u] = INVALID_INDEX
        /\ timer_failed' = FALSE
        /\ IndexConsistent'
    BY <1>0, <2>1, Removed
  <2>3. TimerTypeOK'
    BY <1>0, <1>6, <2>2 DEF TimerEventSingleShot, TimerTypeOK
  <2>4. ActiveIsScheduled'
    BY <1>0, <1>6, <2>2 DEF TimerEventSingleShot, TimerTypeOK, ActiveIsScheduled
  <2>5. QED
    BY <2>2, <2>3, <2>4 DEF TimersConsistent
<1>7. ASSUME NEW t \in Timers, TimerEventRepeating(t) PROVE TimersConsistent'
  BY <1>0, <1>7 DEF TimerEventRepeating, timerVars, timeoutVars, TimersConsistent, TimerTypeOK,
      IndexConsistent, ActiveIsScheduled
<1>8. ASSUME NEW t \in Timers, TimerEventDirty(t) PROVE TimersConsistent'
  <2>1. /\ m_index' = IndexWithout(t, InHeap) /\ m_scheduled_timeouts' = WithoutTimeout(t)
        /\ timer_failed' = (timer_failed \/ WrongTimeout(t))
    BY <1>8 DEF TimerEventDirty
  <2>2. /\ m_scheduled_timeouts' \in Seq(Timers)
        /\ m_index' \in [Timers -> -Len(m_scheduled_timeouts') .. INVALID_INDEX]
        /\ m_index'[t] = InHeap
        /\ \A u \in Timers \ {t} : m_index'[u] = INVALID_INDEX <=> m_index[u] = INVALID_INDEX
        /\ timer_failed' = FALSE
        /\ IndexConsistent'
    BY <1>0, <2>1, Removed
  <2>3. TimerTypeOK'
    <3>1. m_interval_ms[t] \in Intervals /\ m_interval_ms[t] \in -MaxInterval .. MaxInterval
      BY <1>0 DEF Intervals, TimerTypeOK
    <3>2. due' \in [Timers -> -MaxInterval .. MaxInterval]
      BY <1>0, <1>8, <3>1 DEF TimerEventDirty, StartTimer, TimerTypeOK
    <3>3. interval' \in [Timers -> Intervals] /\ age' \in [Timers -> Intervals]
          /\ m_interval_ms' \in [Timers -> Intervals]
      BY <1>0, <1>8, <3>1 DEF TimerEventDirty, StartTimer, TimerTypeOK, Intervals
    <3>4. QED
      BY <1>0, <1>8, <2>2, <3>2, <3>3 DEF TimerEventDirty, StartTimer, TimerTypeOK
  <2>4. ActiveIsScheduled'
    BY <1>0, <1>8, <2>2 DEF TimerEventDirty, StartTimer, TimerTypeOK, ActiveIsScheduled, InHeap,
        INVALID_INDEX
  <2>5. QED
    BY <2>2, <2>3, <2>4 DEF TimersConsistent
<1>9. CASE Absolutize
  <2>1. TimerTypeOK'
    BY <1>0, <1>9 DEF Absolutize, timerVars, historyVars, TimerTypeOK, InHeap, INVALID_INDEX
  <2>2. IndexConsistent'
    BY <1>0, <1>9 DEF Absolutize, historyVars, TimerTypeOK, IndexConsistent, InHeap, INVALID_INDEX
  <2>3. ActiveIsScheduled'
    BY <1>0, <1>9 DEF Absolutize, timerVars, TimerTypeOK, ActiveIsScheduled, InHeap, INVALID_INDEX
  <2>4. QED
    BY <2>1, <2>2, <2>3 DEF TimersConsistent
<1>10. ASSUME NEW t \in Timers, FireExpired(t) PROVE TimersConsistent'
  <2>1. /\ m_index[t] = InHeap /\ NextDue(t) \in -MaxInterval .. MaxInterval
    BY <1>0, <1>10, NextDueFact DEF FireExpired
  <2>2. CASE NextDue(t) # 0
    <3>1. m_index' = m_index /\ m_scheduled_timeouts' = m_scheduled_timeouts
      BY <1>0, <1>10, <2>1, <2>2 DEF FireExpired, TimerTypeOK
    <3>2. TimerTypeOK'
      BY <1>0, <1>10, <2>1, <3>1 DEF FireExpired, timerVars, historyVars, TimerTypeOK
    <3>3. IndexConsistent' /\ ActiveIsScheduled'
      BY <1>0, <1>10, <3>1 DEF FireExpired, timerVars, historyVars, IndexConsistent,
          ActiveIsScheduled
    <3>4. QED
      BY <3>2, <3>3 DEF TimersConsistent
  <2>3. CASE NextDue(t) = 0
    <3>1. /\ m_index' = [m_index EXCEPT ![t] = -1 - Len(m_scheduled_timeouts)]
          /\ m_scheduled_timeouts' = Append(m_scheduled_timeouts, t)
      BY <1>10, <2>3 DEF FireExpired
    <3>2. /\ m_scheduled_timeouts' \in Seq(Timers)
          /\ Len(m_scheduled_timeouts') = Len(m_scheduled_timeouts) + 1
          /\ m_scheduled_timeouts'[Len(m_scheduled_timeouts) + 1] = t
          /\ \A i \in 1 .. Len(m_scheduled_timeouts) :
                m_scheduled_timeouts'[i] = m_scheduled_timeouts[i]
      BY <1>0, <3>1 DEF TimerTypeOK
    <3>3. TimerTypeOK'
      <4>1. m_index' \in [Timers -> -Len(m_scheduled_timeouts') .. INVALID_INDEX]
        BY <1>0, <3>1, <3>2 DEF TimerTypeOK, INVALID_INDEX
      <4>2. QED
        BY <1>0, <1>10, <2>1, <3>2, <4>1 DEF FireExpired, timerVars, historyVars, TimerTypeOK
    <3>4. IndexConsistent'
      <4>1. \A i \in 1 .. Len(m_scheduled_timeouts) : m_scheduled_timeouts[i] \in Timers \ {t}
        BY <1>0, <2>1 DEF TimerTypeOK, IndexConsistent, InHeap
      <4> DEFINE n == Len(m_scheduled_timeouts)
      <4>0. /\ n \in Nat /\ \A u \in Timers : m_index[u] \in -n .. INVALID_INDEX
            /\ \A u \in Timers : m_index'[u] = IF u = t THEN -1 - n ELSE m_index[u]
        BY <1>0, <3>1 DEF TimerTypeOK
      <4>2. ASSUME NEW i \in 1 .. n + 1
            PROVE  m_index'[m_scheduled_timeouts'[i]] = -i
        <5>1. CASE i = n + 1
          BY <3>2, <4>0, <5>1
        <5>2. CASE i \in 1 .. n
          BY <1>0, <3>2, <4>0, <4>1, <5>2 DEF IndexConsistent
        <5>3. QED
          BY <4>0, <5>1, <5>2
      <4>3. ASSUME NEW u \in Timers, m_index'[u] < 0
            PROVE  /\ -m_index'[u] <= n + 1
                   /\ m_scheduled_timeouts'[-m_index'[u]] = u
        <5>1. CASE u = t
          BY <3>2, <4>0, <5>1
        <5>2. CASE u # t
          <6>1. m_index'[u] = m_index[u] /\ -m_index[u] \in 1 .. n
                /\ m_scheduled_timeouts[-m_index[u]] = u
            BY <1>0, <4>0, <4>3, <5>2 DEF IndexConsistent, INVALID_INDEX
          <6>2. QED
            BY <3>2, <6>1, <4>0
        <5>3. QED
          BY <5>1, <5>2
      <4>4. QED
        BY <1>0, <1>10, <3>2, <4>2, <4>3 DEF FireExpired, historyVars, IndexConsistent
    <3>5. ActiveIsScheduled'
      BY <1>0, <1>10, <2>1, <3>1 DEF FireExpired, timerVars, TimerTypeOK, ActiveIsScheduled, InHeap,
          INVALID_INDEX
    <3>6. QED
      BY <3>3, <3>4, <3>5 DEF TimersConsistent
  <2>4. QED
    BY <2>2, <2>3
<1>11. CASE Tick
  <2>1. TimerTypeOK'
    BY <1>0, <1>11 DEF Tick, timerVars, TimerTypeOK, Intervals
  <2>2. IndexConsistent' /\ ActiveIsScheduled'
    BY <1>0, <1>11 DEF Tick, timerVars, IndexConsistent, ActiveIsScheduled
  <2>3. QED
    BY <2>1, <2>2 DEF TimersConsistent
<1>12. CASE OtherHandler \/ HandlerReturns \/ PollReturns \/ FireDone
  BY <1>0, <1>12 DEF OtherHandler, HandlerReturns, PollReturns, FireDone, timerVars, timeoutVars,
      historyVars, TimersConsistent, TimerTypeOK, IndexConsistent, ActiveIsScheduled
<1>13. CASE UNCHANGED timingVars
  BY <1>0, <1>13 DEF timingVars, timerVars, timeoutVars, historyVars, TimersConsistent, TimerTypeOK,
      IndexConsistent, ActiveIsScheduled
<1>14. QED
  BY <1>1, <1>2, <1>3, <1>4, <1>5, <1>6, <1>7, <1>8, <1>9, <1>10, <1>11, <1>12, <1>13
     DEF TimerNext, TimerLoopStep, Call

(* Every step keeps the relation of the time that is left, the time that   *)
(* has passed and the events that are queued.                              *)
LEMMA DueStep == TimerIInv /\ [TimerNext]_timingVars => DueInv' /\ EventInv'
<1> SUFFICES ASSUME TimerIInv, [TimerNext]_timingVars PROVE DueInv' /\ EventInv'
  OBVIOUS
<1>0. TimerTypeOK /\ IndexConsistent /\ ActiveIsScheduled /\ DueInv /\ EventInv
  BY DEF TimerIInv, TimersConsistent
<1>t. /\ \A t \in Timers : /\ m_active[t] \in BOOLEAN /\ interval[t] \in Int /\ due[t] \in Int
                           /\ age[t] \in Int /\ age[t] >= 0 /\ m_index[t] \in Int
                           /\ interval[t] <= MaxInterval
                           /\ m_interval_ms[t] \in Int /\ m_interval_ms[t] >= 0
      /\ events \subseteq Timers /\ MaxInterval \in Nat
  BY <1>0, TimerAssumption DEF TimerTypeOK, Intervals, INVALID_INDEX
<1>1. ASSUME NEW t \in Timers, NEW i \in Intervals, start(t, i) PROVE DueInv' /\ EventInv'
  <2>1. i \in Int /\ i >= 0
    BY TimerAssumption DEF Intervals
  <2>2. /\ m_active' = [m_active EXCEPT ![t] = TRUE] /\ interval' = [interval EXCEPT ![t] = i]
        /\ due' = [due EXCEPT ![t] = i] /\ age' = [age EXCEPT ![t] = 0]
        /\ m_index' = [m_index EXCEPT ![t] = InHeap]
        /\ events' = events /\ stale' = stale \union (events \intersect {t})
    BY <1>1 DEF start, StartTimer, StaleNow
  <2>3. DueInv'
    BY <1>0, <1>t, <2>1, <2>2 DEF TimerTypeOK, DueInv, InHeap
  <2>4. EventInv'
    BY <1>0, <1>t, <2>2 DEF TimerTypeOK, EventInv
  <2>5. QED
    BY <2>3, <2>4
<1>2. ASSUME NEW t \in Timers, stop(t) PROVE DueInv' /\ EventInv'
  <2>1. /\ m_index' = IndexWithout(t, INVALID_INDEX) /\ m_scheduled_timeouts' = WithoutTimeout(t)
        /\ timer_failed' = (timer_failed \/ WrongTimeout(t))
    BY <1>2 DEF stop
  <2>2. \A u \in Timers \ {t} : m_index'[u] < 0 <=> m_index[u] < 0
    BY <1>0, <2>1, Removed
  <2>3. /\ m_active' = [m_active EXCEPT ![t] = FALSE] /\ interval' = interval /\ due' = due
        /\ age' = age /\ events' = events /\ stale' = stale \union (events \intersect {t})
    BY <1>2 DEF stop, StaleNow
  <2>4. DueInv'
    BY <1>0, <1>t, <2>2, <2>3 DEF TimerTypeOK, DueInv
  <2>5. EventInv'
    BY <1>0, <1>t, <2>3 DEF TimerTypeOK, EventInv
  <2>6. QED
    BY <2>4, <2>5
<1>3. ASSUME NEW t \in Timers, NEW i \in Intervals, restart(t, i) PROVE DueInv' /\ EventInv'
  <2>1. /\ m_index' = IndexWithout(t, InHeap) /\ m_scheduled_timeouts' = WithoutTimeout(t)
        /\ timer_failed' = (timer_failed \/ WrongTimeout(t))
    BY <1>3 DEF restart
  <2>2. m_index'[t] = InHeap /\ \A u \in Timers \ {t} : m_index'[u] < 0 <=> m_index[u] < 0
    BY <1>0, <2>1, Removed
  <2>3. i \in Int /\ i >= 0
    BY TimerAssumption DEF Intervals
  <2>4. /\ m_active' = [m_active EXCEPT ![t] = TRUE] /\ interval' = [interval EXCEPT ![t] = i]
        /\ due' = [due EXCEPT ![t] = i] /\ age' = [age EXCEPT ![t] = 0]
        /\ events' = events /\ stale' = stale \union (events \intersect {t})
    BY <1>3 DEF restart, StartTimer, StaleNow
  <2>5. DueInv'
    BY <1>0, <1>t, <2>2, <2>3, <2>4 DEF TimerTypeOK, DueInv, InHeap
  <2>6. EventInv'
    BY <1>0, <1>t, <2>4 DEF TimerTypeOK, EventInv
  <2>7. QED
    BY <2>5, <2>6
<1>4. ASSUME NEW t \in Timers, NEW i \in Intervals, set_interval(t, i) PROVE DueInv' /\ EventInv'
  BY <1>0, <1>4 DEF set_interval, timeoutVars, historyVars, DueInv, EventInv
<1>5. ASSUME NEW t \in Timers, TimerEventTooLate(t) PROVE DueInv' /\ EventInv'
  BY <1>0, <1>5 DEF TimerEventTooLate, timerVars, timeoutVars, DueInv, EventInv
<1>6. ASSUME NEW t \in Timers, TimerEventSingleShot(t) PROVE DueInv' /\ EventInv'
  <2>1. /\ m_index' = IndexWithout(t, INVALID_INDEX) /\ m_scheduled_timeouts' = WithoutTimeout(t)
        /\ timer_failed' = (timer_failed \/ WrongTimeout(t))
    BY <1>6 DEF TimerEventSingleShot
  <2>2. \A u \in Timers \ {t} : m_index'[u] < 0 <=> m_index[u] < 0
    BY <1>0, <2>1, Removed
  <2>3. /\ m_active' = [m_active EXCEPT ![t] = FALSE] /\ interval' = interval /\ due' = due
        /\ age' = age /\ events' = events \ {t} /\ stale' = stale \ {t}
    BY <1>6 DEF TimerEventSingleShot
  <2>4. DueInv'
    BY <1>0, <1>t, <2>2, <2>3 DEF TimerTypeOK, DueInv
  <2>5. EventInv'
    BY <1>0, <1>t, <2>3 DEF TimerTypeOK, EventInv
  <2>6. QED
    BY <2>4, <2>5
<1>7. ASSUME NEW t \in Timers, TimerEventRepeating(t) PROVE DueInv' /\ EventInv'
  BY <1>0, <1>7 DEF TimerEventRepeating, timerVars, timeoutVars, DueInv, EventInv
<1>8. ASSUME NEW t \in Timers, TimerEventDirty(t) PROVE DueInv' /\ EventInv'
  <2>1. /\ m_index' = IndexWithout(t, InHeap) /\ m_scheduled_timeouts' = WithoutTimeout(t)
        /\ timer_failed' = (timer_failed \/ WrongTimeout(t))
    BY <1>8 DEF TimerEventDirty
  <2>2. m_index'[t] = InHeap /\ \A u \in Timers \ {t} : m_index'[u] < 0 <=> m_index[u] < 0
    BY <1>0, <2>1, Removed
  <2>4. /\ m_active' = [m_active EXCEPT ![t] = TRUE]
        /\ interval' = [interval EXCEPT ![t] = m_interval_ms[t]]
        /\ due' = [due EXCEPT ![t] = m_interval_ms[t]] /\ age' = [age EXCEPT ![t] = 0]
        /\ events' = events \ {t} /\ stale' = stale \ {t}
    BY <1>8 DEF TimerEventDirty, StartTimer
  <2>5. DueInv'
    BY <1>0, <1>t, <2>2, <2>4 DEF TimerTypeOK, DueInv, InHeap
  <2>6. EventInv'
    BY <1>0, <1>t, <2>4 DEF TimerTypeOK, EventInv
  <2>7. QED
    BY <2>5, <2>6
<1>9. CASE Absolutize
  BY <1>0, <1>t, <1>9 DEF Absolutize, timerVars, historyVars, TimerTypeOK, DueInv, EventInv, InHeap
<1>10. ASSUME NEW t \in Timers, FireExpired(t) PROVE DueInv' /\ EventInv'
  <2>1. m_index[t] = InHeap /\ due[t] <= 0 /\ (NextDue(t) = 0 => interval[t] = 0)
    BY <1>0, <1>10, NextDueFact DEF FireExpired
  <2>2. m_active[t] /\ age[t] >= interval[t]
    BY <1>0, <1>t, <2>1 DEF ActiveIsScheduled, DueInv, InHeap, INVALID_INDEX
  <2>3. /\ \A u \in Timers \ {t} : m_index'[u] = m_index[u] /\ due'[u] = due[u]
        /\ m_index'[t] < 0 => interval[t] = 0
    BY <1>0, <1>10, <2>1 DEF FireExpired, TimerTypeOK, InHeap
  <2>4. DueInv'
    BY <1>0, <1>10, <2>2, <2>3 DEF FireExpired, timerVars, historyVars, DueInv
  <2>5. EventInv'
    BY <1>0, <1>10, <2>2 DEF FireExpired, timerVars, historyVars, EventInv
  <2>6. QED
    BY <2>4, <2>5
<1>11. CASE Tick
  <2>1. \A t \in Timers : age'[t] = IF age[t] < MaxInterval THEN age[t] + 1 ELSE age[t]
    BY <1>11 DEF Tick
  <2>2. \A t \in Timers : m_index[t] = InHeap \/ m_index[t] = INVALID_INDEX \/ m_index[t] < 0
    BY <1>0 DEF TimerTypeOK, InHeap, INVALID_INDEX
  <2>3. \A t \in Timers : \/ due'[t] = due[t]
                          \/ m_index[t] = InHeap /\ due'[t] = due[t] - 1
    BY <1>11 DEF Tick
  <2>4. \A t \in Timers : due'[t] = due[t] /\ due[t] > 0 => m_index[t] # InHeap
    BY <1>t, <1>11 DEF Tick
  <2>5. DueInv'
    BY <1>0, <1>t, <1>11, <2>1, <2>2, <2>3 DEF Tick, timerVars, DueInv
  <2>6. EventInv'
    BY <1>0, <1>t, <1>11, <2>1 DEF Tick, timerVars, EventInv
  <2>7. QED
    BY <2>5, <2>6
<1>12. CASE OtherHandler \/ HandlerReturns \/ PollReturns \/ FireDone
  BY <1>0, <1>12 DEF OtherHandler, HandlerReturns, PollReturns, FireDone, timerVars, timeoutVars,
      historyVars, DueInv, EventInv
<1>13. CASE UNCHANGED timingVars
  BY <1>0, <1>13 DEF timingVars, timerVars, timeoutVars, historyVars, DueInv, EventInv
<1>14. QED
  BY <1>1, <1>2, <1>3, <1>4, <1>5, <1>6, <1>7, <1>8, <1>9, <1>10, <1>11, <1>12, <1>13
     DEF TimerNext, TimerLoopStep, Call

(* TimerIInv is an invariant of the timers. *)
LEMMA TimerInvariance == TimerSpec => []TimerIInv
<1>1. TimerInit => TimerIInv
  <2> SUFFICES ASSUME TimerInit PROVE TimerIInv
    OBVIOUS
  <2>1. TimerTypeOK
    <3>1. 0 \in Intervals /\ 0 \in -MaxInterval .. MaxInterval
      BY TimerAssumption DEF Intervals
    <3>2. m_scheduled_timeouts \in Seq(Timers) /\ Len(m_scheduled_timeouts) = 0
      BY DEF TimerInit
    <3>3. m_index \in [Timers -> -Len(m_scheduled_timeouts) .. INVALID_INDEX]
      BY <3>2 DEF TimerInit, INVALID_INDEX
    <3>4. due \in [Timers -> -MaxInterval .. MaxInterval]
      BY <3>1 DEF TimerInit
    <3>5. QED
      BY <3>1, <3>2, <3>3, <3>4 DEF TimerInit, TimerTypeOK
  <2>2. IndexConsistent /\ ActiveIsScheduled
    BY DEF TimerInit, IndexConsistent, ActiveIsScheduled, INVALID_INDEX
  <2>3. DueInv /\ EventInv
    BY DEF TimerInit, DueInv, EventInv
  <2>4. QED
    BY <2>1, <2>2, <2>3 DEF TimerIInv, TimersConsistent
<1>2. TimerIInv /\ [TimerNext]_timingVars => TimerIInv'
  BY ConsistentStep, DueStep DEF TimerIInv
<1>3. QED
  BY <1>1, <1>2, PTL DEF TimerSpec

-----------------------------------------------------------------------------

(* The timers, their receivers and the TimeoutSet always agree, and no     *)
(* VERIFY of unschedule() and start_timer() fails.                         *)
THEOREM Consistent == TimerSpec => []TimersConsistent
<1>1. TimerIInv => TimersConsistent
  BY DEF TimerIInv
<1>2. QED
  BY <1>1, TimerInvariance, PTL

(* on_timeout is never called before the interval of the timer has passed, *)
(* unless the event is one of an earlier run of the timer.                 *)
THEOREM NotEarly == TimerSpec => EarlyOnlyByStaleEvent
<1> DEFINE OnTime == \A t \in Timers :
                       t \in events \ events' /\ m_timer_id[t] /\ t \notin stale
                         => age[t] >= interval[t]
<1>1. TimerIInv => OnTime
  BY DEF TimerIInv, EventInv
<1>2. TimerIInv /\ [TimerNext]_timingVars => [OnTime]_timingVars
  BY <1>1
<1>3. QED
  BY <1>2, TimerInvariance, PTL DEF TimerSpec, EarlyOnlyByStaleEvent

=============================================================================

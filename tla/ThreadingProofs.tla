--------------------------- MODULE ThreadingProofs ---------------------------
(***************************************************************************)
(* The safety properties of BackgroundAction and of WorkerThread.          *)
(*                                                                         *)
(* BackgroundAction: CallbackOnce, for any number of actions and of calls  *)
(* of quit_background_thread().  It is not inductive: an action that is in *)
(* the queue twice, or that has two events, is called twice a few steps    *)
(* later.  QueueInv says that the actions wait in the order in which they  *)
(* were constructed, EventInv that each has at most one event, and         *)
(* CancelInv what is known of an action that was cancelled in time, until  *)
(* it has reported.                                                        *)
(***************************************************************************)
EXTENDS BackgroundAction, WorkerThread, FiniteSetTheorems, TLAPS

Increasing(q) == \A i, j \in DOMAIN q : i < j => q[i] < q[j]

QueueInv ==
    /\ Increasing(s_all_actions) /\ Increasing(actions)
    /\ \A i \in DOMAIN actions, j \in DOMAIN s_all_actions : actions[i] < s_all_actions[j]
    /\ \A a \in Unfinished : a <= constructed
    /\ thread \in {"action", "complete", "error", "canceled"} => actions # <<>>

EventInv ==
    /\ \A i, j \in DOMAIN events : i # j => events[i][1] # events[j][1]
    /\ \A i \in DOMAIN events : events[i][1] <= constructed
    /\ \A a \in Actions : a > constructed => completed[a] + errored[a] = 0

CancelInv ==
    \A a \in intime :
        /\ a \in Actions /\ a <= constructed
        /\ a \in Undecided => Canceled(a)
        /\ thread \in {"complete", "error"} => a # Head(actions)
        /\ \A i \in DOMAIN events : events[i][1] = a => events[i][2] # "complete"

(* An action that used the pointer to a loop that is gone has reported, and *)
(* had not been cancelled in time.                                         *)
DanglingInv ==
    \A a \in dangling : a <= constructed /\ a \notin Unfinished /\ a \notin intime

(* What CallbackOnce says of the calls. *)
CallInv ==
    \A a \in Actions :
        /\ completed[a] <= 1 /\ errored[a] <= 1
        /\ a \in intime => completed[a] = 0
        /\ a \in Unfinished => completed[a] + errored[a] = 0
        /\ \A i \in DOMAIN events : events[i][1] = a =>
             a \notin Unfinished /\ completed[a] + errored[a] = 0

IInv == TypeOK /\ CallInv /\ QueueInv /\ EventInv /\ CancelInv

-----------------------------------------------------------------------------
(***************************************************************************)
(* Sequences.                                                              *)
(***************************************************************************)

(* What is in a sequence to which an element is appended. *)
LEMMA RangeOfAppend ==
    ASSUME NEW S, NEW q \in Seq(S), NEW x \in S
    PROVE  /\ Append(q, x) \in Seq(S) /\ Len(Append(q, x)) = Len(q) + 1
           /\ Append(q, x)[Len(q) + 1] = x
           /\ \A i \in 1 .. Len(q) : Append(q, x)[i] = q[i]
           /\ Range(Append(q, x)) = Range(q) \union {x}
<1>1. /\ Append(q, x) \in Seq(S) /\ Len(Append(q, x)) = Len(q) + 1
      /\ Append(q, x)[Len(q) + 1] = x
      /\ \A i \in 1 .. Len(q) : Append(q, x)[i] = q[i]
  OBVIOUS
<1>2. DOMAIN q = 1 .. Len(q) /\ DOMAIN Append(q, x) = 1 .. Len(q) + 1 /\ Len(q) \in Nat
  BY <1>1
<1>3. ASSUME NEW y PROVE y \in Range(Append(q, x)) <=> y \in Range(q) \union {x}
  BY <1>1, <1>2 DEF Range
<1>4. QED
  BY <1>1, <1>3

(* What is left of a sequence without its first element. *)
LEMMA RangeOfTail ==
    ASSUME NEW S, NEW q \in Seq(S), q # <<>>
    PROVE  /\ Tail(q) \in Seq(S) /\ Head(q) \in S /\ Len(q) \in Nat \ {0}
           /\ Len(Tail(q)) = Len(q) - 1 /\ Head(q) = q[1]
           /\ \A i \in 1 .. Len(q) - 1 : Tail(q)[i] = q[i + 1]
           /\ Range(q) = {Head(q)} \union Range(Tail(q))
<1>1. /\ Tail(q) \in Seq(S) /\ Head(q) \in S /\ Len(q) \in Nat \ {0}
      /\ Len(Tail(q)) = Len(q) - 1 /\ Head(q) = q[1]
      /\ \A i \in 1 .. Len(q) - 1 : Tail(q)[i] = q[i + 1]
  OBVIOUS
<1>2. DOMAIN q = 1 .. Len(q) /\ DOMAIN Tail(q) = 1 .. Len(q) - 1
  BY <1>1
<1>3. ASSUME NEW y \in Range(q) PROVE y \in {Head(q)} \union Range(Tail(q))
  <2>1. PICK i \in 1 .. Len(q) : y = q[i]
    BY <1>2 DEF Range
  <2>2. i = 1 \/ i - 1 \in 1 .. Len(q) - 1
    BY <1>1
  <2>3. i # 1 => y = Tail(q)[i - 1]
    BY <1>1, <2>1, <2>2
  <2>4. QED
    BY <1>1, <1>2, <2>1, <2>2, <2>3 DEF Range
<1>4. ASSUME NEW y \in {Head(q)} \union Range(Tail(q)) PROVE y \in Range(q)
  <2>1. CASE y = Head(q)
    BY <1>1, <1>2, <2>1 DEF Range
  <2>2. CASE y \in Range(Tail(q))
    <3>1. PICK i \in 1 .. Len(q) - 1 : y = q[i + 1]
      BY <1>1, <1>2, <2>2 DEF Range
    <3>2. i + 1 \in 1 .. Len(q)
      BY <1>1
    <3>3. QED
      BY <1>2, <3>1, <3>2 DEF Range
  <2>3. QED
    BY <2>1, <2>2
<1>5. QED
  BY <1>1, <1>3, <1>4

(* What stays in order. *)
LEMMA IncreasingTail ==
    ASSUME NEW q \in Seq(Actions), q # <<>>, Increasing(q)
    PROVE  /\ Increasing(Tail(q)) /\ Head(q) \notin Range(Tail(q))
<1>1. /\ Len(q) \in Nat \ {0} /\ Head(q) = q[1] /\ DOMAIN q = 1 .. Len(q)
      /\ DOMAIN Tail(q) = 1 .. Len(q) - 1
      /\ \A i \in 1 .. Len(q) - 1 : Tail(q)[i] = q[i + 1]
  BY RangeOfTail
<1>2. \A i \in 1 .. Len(q) : q[i] \in Nat
  BY <1>1, ActionAssumption DEF Actions
<1>3. Increasing(Tail(q))
  BY <1>1 DEF Increasing
<1>4. \A i \in 1 .. Len(q) - 1 : q[1] < q[i + 1]
  BY <1>1 DEF Increasing
<1>5. \A i \in 1 .. Len(q) - 1 : q[1] # Tail(q)[i]
  BY <1>1, <1>2, <1>4
<1>6. QED
  BY <1>1, <1>3, <1>5 DEF Range

(* A sequence in order has as many elements as places. *)
LEMMA IncreasingCount ==
    ASSUME NEW q \in Seq(Actions), Increasing(q)
    PROVE  IsFiniteSet(Range(q)) /\ Cardinality(Range(q)) = Len(q)
<1>1. DOMAIN q = 1 .. Len(q) /\ Len(q) \in Nat /\ \A i \in 1 .. Len(q) : q[i] \in Nat
  BY ActionAssumption DEF Actions
<1>2. q \in [1 .. Len(q) -> Range(q)]
  BY <1>1 DEF Range
<1>3. \A i, j \in 1 .. Len(q) : q[i] = q[j] => i = j
  BY <1>1 DEF Increasing
<1>4. \A y \in Range(q) : \E i \in 1 .. Len(q) : q[i] = y
  BY <1>1 DEF Range
<1>5. q \in Bijection(1 .. Len(q), Range(q))
  BY <1>1, <1>2, <1>3, <1>4 DEF Bijection, Injection, Surjection, IsInjective
<1>6. ExistsBijection(1 .. Len(q), Range(q))
  BY <1>5 DEF ExistsBijection
<1>7. QED
  BY <1>1, <1>6, FS_CountingElements, FS_NatBijection

(* An action is in one place only. *)
LEMMA OnePlace ==
    ASSUME TypeOK, QueueInv
    PROVE  Cardinality(Unfinished) = Len(s_all_actions) + Len(actions)
<1>1. s_all_actions \in Seq(Actions) /\ actions \in Seq(Actions)
  BY DEF TypeOK
<1>2. /\ IsFiniteSet(Range(s_all_actions)) /\ Cardinality(Range(s_all_actions)) = Len(s_all_actions)
      /\ IsFiniteSet(Range(actions)) /\ Cardinality(Range(actions)) = Len(actions)
  BY <1>1, IncreasingCount DEF QueueInv
<1>3. Range(s_all_actions) \intersect Range(actions) = {}
  <2>1. ASSUME NEW i \in DOMAIN actions, NEW j \in DOMAIN s_all_actions
        PROVE  actions[i] # s_all_actions[j]
    <3>1. actions[i] \in Nat /\ s_all_actions[j] \in Nat /\ actions[i] < s_all_actions[j]
      BY <1>1, ActionAssumption DEF QueueInv, Actions
    <3>2. QED
      BY <3>1
  <2>2. QED
    BY <2>1 DEF Range
<1>4. Cardinality(Range(s_all_actions) \intersect Range(actions)) = 0
  BY <1>3, FS_EmptySet, Zenon
<1>5. Cardinality(Unfinished) = Cardinality(Range(s_all_actions)) + Cardinality(Range(actions))
                                 - Cardinality(Range(s_all_actions) \intersect Range(actions))
  BY <1>2, FS_Union, Zenon DEF Unfinished
<1>6. Len(s_all_actions) \in Nat /\ Len(actions) \in Nat
  BY <1>1
<1>7. QED
  BY <1>2, <1>4, <1>5, <1>6

(* The three forms of Undecided. *)
LEMMA UndecidedIs ==
    ASSUME TypeOK, QueueInv
    PROVE  /\ Undecided \subseteq Unfinished
           /\ thread \notin {"complete", "error", "canceled"} => Undecided = Unfinished
           /\ thread \in {"complete", "error", "canceled"} =>
                Head(actions) \in Unfinished /\ Undecided = Unfinished \ {Head(actions)}
<1>1. CASE thread \notin {"complete", "error", "canceled"}
  BY <1>1 DEF Undecided
<1>2. CASE thread \in {"complete", "error", "canceled"}
  <2>1. actions # <<>> /\ actions \in Seq(Actions) /\ Increasing(actions)
        /\ s_all_actions \in Seq(Actions)
    BY <1>2 DEF QueueInv, TypeOK
  <2>2. /\ Range(actions) = {Head(actions)} \union Range(Tail(actions))
        /\ Head(actions) \notin Range(Tail(actions))
        /\ Head(actions) = actions[1] /\ 1 \in DOMAIN actions
    BY <2>1, RangeOfTail, IncreasingTail
  <2>3. Head(actions) \notin Range(s_all_actions)
    <3>1. \A j \in DOMAIN s_all_actions : actions[1] < s_all_actions[j]
      BY <2>2 DEF QueueInv
    <3>2. actions[1] \in Nat /\ \A j \in DOMAIN s_all_actions : s_all_actions[j] \in Nat
      BY <2>1, <2>2, ActionAssumption DEF Actions
    <3>3. \A j \in DOMAIN s_all_actions : actions[1] # s_all_actions[j]
      BY <3>1, <3>2
    <3>4. QED
      BY <2>2, <3>3 DEF Range
  <2>4. Undecided = Range(s_all_actions) \union Range(Tail(actions))
    BY <1>2 DEF Undecided
  <2>5. QED
    BY <1>2, <2>2, <2>3, <2>4 DEF Unfinished
<1>3. QED
  BY <1>1, <1>2
-----------------------------------------------------------------------------
(***************************************************************************)
(* The steps.                                                              *)
(***************************************************************************)

(* Steps that neither move an action nor decide about one. *)
LEMMA Unmoved ==
    ASSUME IInv, TypeOK',
           UNCHANGED <<constructed, s_all_actions, actions, events, m_canceled, rejected,
                       completed, errored, intime>>,
           \/ thread' = thread
           \/ thread \notin {"complete", "error", "canceled"}
              /\ thread' \notin {"complete", "error", "canceled"},
           thread' = "action" => actions # <<>>
    PROVE  IInv'
<1>1. Unfinished' = Unfinished
  BY DEF Unfinished
<1>2. Undecided' = Undecided
  BY <1>1 DEF Undecided
<1>3. CallInv'
  BY <1>1 DEF IInv, CallInv
<1>4. QueueInv'
  BY <1>1 DEF IInv, QueueInv, Increasing
<1>5. EventInv'
  BY DEF IInv, EventInv
<1>6. CancelInv'
  BY <1>2 DEF IInv, CancelInv, Canceled
<1>7. QED
  BY <1>3, <1>4, <1>5, <1>6 DEF IInv

(* Steps that take the first action out of the vector of the thread. *)
LEMMA Popped ==
    ASSUME TypeOK, QueueInv, actions # <<>>,
           actions' = Tail(actions), UNCHANGED <<s_all_actions, constructed>>, thread' = "batch"
    PROVE  /\ actions' \in Seq(Actions) /\ Head(actions) \in Unfinished
           /\ Unfinished' = Unfinished \ {Head(actions)} /\ Undecided' = Unfinished'
           /\ QueueInv'
<1> DEFINE n == Len(actions)
<1>1. actions \in Seq(Actions) /\ s_all_actions \in Seq(Actions) /\ Increasing(actions)
  BY DEF TypeOK, QueueInv
<1>2. /\ Tail(actions) \in Seq(Actions) /\ n \in Nat \ {0} /\ Head(actions) = actions[1]
      /\ Head(actions) \in Actions
      /\ \A i \in 1 .. n - 1 : Tail(actions)[i] = actions[i + 1]
      /\ DOMAIN actions = 1 .. n /\ DOMAIN Tail(actions) = 1 .. n - 1
      /\ Range(actions) = {Head(actions)} \union Range(Tail(actions))
  BY <1>1, RangeOfTail
<1>3. Increasing(Tail(actions)) /\ Head(actions) \notin Range(Tail(actions))
  BY <1>1, IncreasingTail
<1>4. \A j \in DOMAIN s_all_actions : Head(actions) # s_all_actions[j]
  <2>1. ASSUME NEW j \in DOMAIN s_all_actions PROVE Head(actions) # s_all_actions[j]
    <3>1. actions[1] < s_all_actions[j]
      BY <1>2 DEF QueueInv
    <3>2. actions[1] \in Nat /\ s_all_actions[j] \in Nat
      BY <1>1, <1>2, ActionAssumption DEF Actions
    <3>3. QED
      BY <1>2, <3>1, <3>2
  <2>2. QED
    BY <2>1
<1>5. Head(actions) \notin Range(s_all_actions)
  BY <1>4 DEF Range
<1>6. Unfinished' = Unfinished \ {Head(actions)} /\ Head(actions) \in Unfinished
  BY <1>2, <1>3, <1>5 DEF Unfinished
<1>7. Undecided' = Unfinished'
  BY DEF Undecided
<1>8. QueueInv'
  <2>1. \A i \in DOMAIN Tail(actions), j \in DOMAIN s_all_actions :
            Tail(actions)[i] < s_all_actions[j]
    BY <1>2 DEF QueueInv
  <2>2. \A a \in Unfinished' : a <= constructed
    BY <1>6 DEF QueueInv
  <2>3. QED
    BY <1>3, <2>1, <2>2 DEF QueueInv
<1>9. QED
  BY <1>2, <1>6, <1>7, <1>8

(* The type is kept by every step. *)
LEMMA TypeStep == TypeOK /\ QueueInv /\ [Next]_vars => TypeOK'
<1> SUFFICES ASSUME TypeOK, QueueInv, [Next]_vars PROVE TypeOK'
  OBVIOUS
<1> USE ActionAssumption
<1>1. CASE LoopCheck \/ WaitForActions \/ BatchDone \/ RunAction
  <2>1. /\ UNCHANGED <<constructed, quits, s_all_actions, actions, owner, loop, events, m_canceled,
                       rejected, jobs, completed, errored, should_run, dangling>>
        /\ thread' \in {"lock", "exited", "wait", "top", "action"}
        /\ actions' # <<>> => thread' = "action"
    BY <1>1 DEF LoopCheck, WaitForActions, BatchDone, RunAction, TypeOK
  <2>2. QED
    BY <2>1 DEF TypeOK
<1>2. CASE TakeActions
  BY <1>2 DEF TakeActions, TypeOK
<1>3. CASE SkipAction
  BY <1>3, RangeOfTail DEF SkipAction, TypeOK
<1>4. ASSUME NEW a \in Actions, NEW fails \in BOOLEAN, ActionReturns(a, fails) PROVE TypeOK'
  BY <1>4 DEF ActionReturns, TypeOK
<1>5. ASSUME NEW a \in Actions, FinishComplete(a) \/ FinishError(a) PROVE TypeOK'
  <2>1. actions # <<>> /\ actions' = Tail(actions)
    BY <1>5 DEF FinishComplete, FinishError, QueueInv
  <2>2. actions' \in Seq(Actions)
    BY <2>1, RangeOfTail DEF TypeOK
  <2>3. /\ <<a, "complete">> \in Actions \X {"complete", "error"}
        /\ <<a, "error">> \in Actions \X {"complete", "error"}
    OBVIOUS
  <2>4. events' \in Seq(Actions \X {"complete", "error"})
    <3>1. \/ events' = events \/ events' = Append(events, <<a, "complete">>)
          \/ events' = Append(events, <<a, "error">>)
      BY <1>5 DEF FinishComplete, FinishError, Defer
    <3>2. events \in Seq(Actions \X {"complete", "error"})
      BY DEF TypeOK
    <3>3. \A x \in Actions \X {"complete", "error"} :
              Append(events, x) \in Seq(Actions \X {"complete", "error"})
      BY <3>2, RangeOfAppend
    <3>4. QED
      BY <2>3, <3>1, <3>2, <3>3, Zenon
  <2>5. rejected' \subseteq Actions /\ dangling' \subseteq Actions /\ thread' = "batch"
    BY <1>5 DEF FinishComplete, FinishError, Defer, Rejected, TypeOK
  <2>6. UNCHANGED <<constructed, s_all_actions, should_run, owner, quits, loop, jobs, m_canceled,
                    completed, errored>>
    BY <1>5 DEF FinishComplete, FinishError
  <2>7. QED
    BY <2>2, <2>4, <2>5, <2>6 DEF TypeOK
<1>6. ASSUME NEW a \in Actions, FinishCanceled(a) PROVE TypeOK'
  <2>1. actions # <<>> /\ actions' = Tail(actions)
    BY <1>6 DEF FinishCanceled, QueueInv
  <2>2. actions' \in Seq(Actions)
    BY <2>1, RangeOfTail DEF TypeOK
  <2>3. errored' \in [Actions -> Nat] /\ rejected' \subseteq Actions
    BY <1>6 DEF FinishCanceled, Rejected, TypeOK
  <2>4. QED
    BY <1>6, <2>2, <2>3 DEF FinishCanceled, TypeOK
<1>7. CASE Construct
  <2>1. constructed + 1 \in Actions /\ constructed' \in 0 .. MaxActions
    BY <1>7 DEF Construct, TypeOK, Actions
  <2>2. s_all_actions' \in Seq(Actions)
    BY <1>7, <2>1 DEF Construct, TypeOK
  <2>3. QED
    BY <1>7, <2>1, <2>2 DEF Construct, Started, Broadcast, TypeOK
<1>8. ASSUME NEW a \in Actions, cancel(a) PROVE TypeOK'
  BY <1>8 DEF cancel, TypeOK
<1>9. CASE ForgetSettled \/ DestroyLoop
  <2>1. CASE ForgetSettled
    BY <2>1 DEF ForgetSettled, TypeOK
  <2>2. CASE DestroyLoop
    BY <2>2 DEF DestroyLoop, TypeOK
  <2>3. QED
    BY <1>9, <2>1, <2>2
<1>10. ASSUME NEW fails \in BOOLEAN, RunComplete(fails) PROVE TypeOK'
  <2>1. events # <<>> /\ events' = Tail(events)
    BY <1>10 DEF RunComplete
  <2>2. events' \in Seq(Actions \X {"complete", "error"}) /\ Head(events)[1] \in Actions
    BY <2>1, RangeOfTail DEF TypeOK
  <2>3. /\ completed' = [completed EXCEPT ![Head(events)[1]] = @ + 1]
        /\ errored' = [errored EXCEPT ![Head(events)[1]] = IF fails THEN @ + 1 ELSE @]
        /\ rejected' \subseteq rejected
    BY <1>10 DEF RunComplete, Resolved
  <2>4. completed' \in [Actions -> Nat]
    BY <2>2, <2>3 DEF TypeOK
  <2>5. errored' \in [Actions -> Nat]
    BY <2>2, <2>3 DEF TypeOK
  <2>6. rejected' \subseteq Actions
    BY <2>3 DEF TypeOK
  <2>7. QED
    BY <1>10, <2>2, <2>4, <2>5, <2>6 DEF RunComplete, TypeOK
<1>11. CASE RunError
  <2>1. events # <<>> /\ events' = Tail(events)
    BY <1>11 DEF RunError
  <2>2. events' \in Seq(Actions \X {"complete", "error"}) /\ Head(events)[1] \in Actions
    BY <2>1, RangeOfTail DEF TypeOK
  <2>3. errored' \in [Actions -> Nat]
    BY <1>11, <2>2, SMTT(30) DEF RunError, TypeOK
  <2>4. QED
    BY <1>11, <2>2, <2>3 DEF RunError, TypeOK
<1>12. CASE QuitLoop
  <2>1. rejected' \subseteq Actions /\ jobs' \subseteq WithComplete
    BY <1>12 DEF QuitLoop, Rejected, TypeOK, Actions
  <2>2. QED
    BY <1>12, <2>1 DEF QuitLoop, TypeOK
<1>13. CASE QuitStore
  BY <1>13 DEF QuitStore, InHandler, TypeOK
<1>14. CASE QuitBroadcast
  BY <1>14 DEF QuitBroadcast, Broadcast, TypeOK
<1>15. CASE QuitJoin
  BY <1>15 DEF QuitJoin, TypeOK
<1>16. CASE UNCHANGED vars
  BY <1>16 DEF vars, TypeOK
<1>17. QED
  BY <1>1, <1>2, <1>3, <1>4, <1>5, <1>6, <1>7, <1>8, <1>9, <1>10, <1>11, <1>12, <1>13, <1>14,
     <1>15, <1>16 DEF Next, ThreadStep, LoopStep, QuitStep

(* The indices of the events. *)
LEMMA EventIndices ==
    ASSUME TypeOK
    PROVE  /\ DOMAIN events = 1 .. Len(events) /\ Len(events) \in Nat
           /\ \A i \in DOMAIN events : events[i][1] \in Actions
BY DEF TypeOK

(* The first event is handled: every other one moves up. *)
LEMMA EventTaken ==
    ASSUME TypeOK, CallInv, EventInv, events # <<>>, events' = Tail(events)
    PROVE  /\ Head(events)[1] \in Actions /\ Head(events)[1] <= constructed
           /\ Head(events)[1] \notin Unfinished
           /\ completed[Head(events)[1]] + errored[Head(events)[1]] = 0
           /\ 1 \in DOMAIN events /\ Head(events) = events[1]
           /\ \A i \in DOMAIN events' : /\ i \in Nat /\ i + 1 \in DOMAIN events
                                        /\ events'[i] = events[i + 1]
                                        /\ events'[i][1] # Head(events)[1]
<1>1. /\ 1 \in DOMAIN events /\ Head(events) = events[1] /\ events[1][1] \in Actions
      /\ DOMAIN events = 1 .. Len(events) /\ DOMAIN events' = 1 .. Len(events) - 1
      /\ Len(events) \in Nat
      /\ \A i \in 1 .. Len(events) - 1 : events'[i] = events[i + 1]
  <2>1. events \in Seq(Actions \X {"complete", "error"})
    BY DEF TypeOK
  <2>2. QED
    BY <2>1, RangeOfTail, EventIndices
<1>2. /\ events[1][1] <= constructed /\ events[1][1] \notin Unfinished
      /\ completed[events[1][1]] + errored[events[1][1]] = 0
  BY <1>1 DEF CallInv, EventInv
<1>3. \A i \in DOMAIN events' : i \in Nat /\ i + 1 \in DOMAIN events /\ 1 # i + 1
  BY <1>1
<1>4. \A i \in DOMAIN events' : events[1][1] # events[i + 1][1]
  BY <1>1, <1>3 DEF EventInv
<1>5. QED
  BY <1>1, <1>2, <1>3, <1>4

(* An action that has ended is reported to its loop, or is not. *)
LEMMA Reported ==
    ASSUME IInv, TypeOK', actions # <<>>, thread \in {"complete", "error"}, thread' = "batch",
           actions' = Tail(actions),
           UNCHANGED <<constructed, s_all_actions, completed, errored, intime, m_canceled>>,
           rejected \subseteq rejected',
           \/ events' = events
           \/ /\ events' = Append(events, <<Head(actions), thread>>)
    PROVE  IInv'
<1> DEFINE a == Head(actions)
           n == Len(events)
<1>0. TypeOK /\ CallInv /\ QueueInv /\ EventInv /\ CancelInv
  BY DEF IInv
<1>1. /\ a \in Unfinished /\ Unfinished' = Unfinished \ {a} /\ Undecided' = Unfinished'
      /\ QueueInv'
  BY <1>0, Popped
<1>2. Undecided = Unfinished \ {a}
  BY <1>0, UndecidedIs
<1>3. a \in Actions /\ a <= constructed /\ completed[a] + errored[a] = 0
  <2>1. a \in Actions
    BY <1>0, RangeOfTail DEF TypeOK
  <2>2. QED
    BY <1>0, <1>1, <2>1 DEF QueueInv, CallInv
<1>4. \A i \in DOMAIN events : events[i][1] # a
  BY <1>0, <1>1, <1>3 DEF CallInv
<1>5. \A i \in DOMAIN events' : \/ i \in DOMAIN events /\ events'[i] = events[i]
                                \/ i = n + 1 /\ events'[i] = <<a, thread>>
  <2>1. CASE events' = events
    BY <2>1
  <2>2. CASE events' = Append(events, <<a, thread>>)
    <3>1. <<a, thread>> \in Actions \X {"complete", "error"} /\ n \in Nat
          /\ events \in Seq(Actions \X {"complete", "error"}) /\ DOMAIN events = 1 .. n
      BY <1>0, <1>3, SMTT(30) DEF TypeOK
    <3>2. /\ DOMAIN events' = 1 .. n + 1 /\ events'[n + 1] = <<a, thread>>
          /\ \A i \in 1 .. n : events'[i] = events[i]
      BY <2>2, <3>1, RangeOfAppend
    <3>3. QED
      BY <3>1, <3>2
  <2>3. QED
    BY <2>1, <2>2
<1>6. CallInv'
  BY <1>0, <1>1, <1>3, <1>4, <1>5 DEF CallInv
<1>7. EventInv'
  <2>1. \A i \in DOMAIN events' : events'[i][1] <= constructed
    BY <1>0, <1>3, <1>5 DEF EventInv
  <2>2. ASSUME NEW i \in DOMAIN events', NEW j \in DOMAIN events', i # j
        PROVE  events'[i][1] # events'[j][1]
    BY <1>0, <1>4, <1>5, <2>2 DEF EventInv
  <2>3. QED
    BY <1>0, <2>1, <2>2 DEF EventInv
<1>8. CancelInv'
  <2>1. ASSUME NEW b \in intime
        PROVE  /\ b \in Actions /\ b <= constructed /\ (b \in Undecided' => Canceled(b)')
    BY <1>0, <1>1, <1>2 DEF CancelInv, Canceled
  <2>2. ASSUME NEW b \in intime, NEW i \in DOMAIN events', events'[i][1] = b
        PROVE  events'[i][2] # "complete"
    BY <1>0, <1>5, <2>2 DEF CancelInv
  <2>3. QED
    BY <2>1, <2>2 DEF CancelInv
<1>9. QED
  BY <1>1, <1>6, <1>7, <1>8 DEF IInv

(* Every step keeps the invariant. *)
LEMMA Step == IInv /\ [Next]_vars => IInv'
<1> SUFFICES ASSUME IInv, [Next]_vars PROVE IInv'
  OBVIOUS
<1>0. TypeOK /\ CallInv /\ QueueInv /\ EventInv /\ CancelInv
  BY DEF IInv
<1>t. TypeOK'
  BY <1>0, TypeStep
<1>u. /\ Undecided \subseteq Unfinished
      /\ thread \notin {"complete", "error", "canceled"} => Undecided = Unfinished
      /\ thread \in {"complete", "error", "canceled"} =>
           Head(actions) \in Unfinished /\ Undecided = Unfinished \ {Head(actions)}
  BY <1>0, UndecidedIs
<1>n. /\ \A a \in Actions : a \in Nat /\ completed[a] \in Nat /\ errored[a] \in Nat
      /\ constructed \in Nat
  BY <1>0, ActionAssumption DEF TypeOK, Actions
<1>1. CASE LoopCheck \/ WaitForActions \/ BatchDone \/ RunAction
  <2>1. /\ UNCHANGED <<constructed, s_all_actions, actions, events, m_canceled, rejected,
                       completed, errored, intime>>
        /\ thread \notin {"complete", "error", "canceled"}
        /\ thread' \notin {"complete", "error", "canceled"}
        /\ thread' = "action" => actions # <<>>
    BY <1>1 DEF LoopCheck, WaitForActions, BatchDone, RunAction
  <2>2. QED
    BY <1>t, <2>1, Unmoved
<1>2. CASE ForgetSettled \/ DestroyLoop \/ QuitStore \/ QuitBroadcast \/ UNCHANGED vars
  <2>1. /\ UNCHANGED <<constructed, s_all_actions, actions, events, m_canceled, rejected,
                       completed, errored, intime>>
        /\ thread' = thread \/ (thread = "wait" /\ thread' = "lock")
    BY <1>2 DEF ForgetSettled, DestroyLoop, QuitStore, QuitBroadcast, Broadcast, vars
  <2>2. thread' = "action" => actions # <<>>
    BY <1>0, <2>1 DEF QueueInv
  <2>3. QED
    BY <1>t, <2>1, <2>2, Unmoved
<1>3. CASE TakeActions
  <2>1. /\ UNCHANGED <<constructed, events, m_canceled, rejected, completed, errored, intime>>
        /\ actions = <<>> /\ actions' = s_all_actions /\ s_all_actions' = <<>>
        /\ thread = "lock" /\ thread' = "batch"
    BY <1>0, <1>3 DEF TakeActions, TypeOK
  <2>2. Unfinished' = Unfinished
    BY <2>1 DEF Unfinished, Range
  <2>3. Undecided' = Undecided
    BY <2>1, <2>2 DEF Undecided
  <2>4. QueueInv'
    BY <1>0, <2>1, <2>2 DEF QueueInv, Increasing
  <2>5. CallInv' /\ EventInv'
    BY <1>0, <2>1, <2>2 DEF CallInv, EventInv
  <2>6. CancelInv'
    BY <1>0, <2>1, <2>3 DEF CancelInv, Canceled
  <2>7. QED
    BY <1>t, <2>4, <2>5, <2>6 DEF IInv
<1>4. CASE SkipAction
  <2>1. /\ UNCHANGED <<constructed, s_all_actions, events, m_canceled, rejected, completed,
                       errored, intime>>
        /\ actions # <<>> /\ actions' = Tail(actions) /\ thread = "batch" /\ thread' = "batch"
    BY <1>4 DEF SkipAction
  <2>2. /\ Unfinished' = Unfinished \ {Head(actions)} /\ Undecided' = Unfinished' /\ QueueInv'
    BY <1>0, <2>1, Popped
  <2>3. CallInv' /\ EventInv'
    BY <1>0, <2>1, <2>2 DEF CallInv, EventInv
  <2>4. CancelInv'
    BY <1>0, <1>u, <2>1, <2>2 DEF CancelInv, Canceled
  <2>5. QED
    BY <1>t, <2>2, <2>3, <2>4 DEF IInv
<1>5. ASSUME NEW a \in Actions, NEW fails \in BOOLEAN, ActionReturns(a, fails) PROVE IInv'
  <2>1. /\ UNCHANGED <<constructed, s_all_actions, actions, events, rejected, completed, errored,
                       intime>>
        /\ thread = "action" /\ a = Head(actions) /\ thread' \in {"complete", "error", "canceled"}
        /\ Canceled(a) => thread' = "canceled"
        /\ m_canceled \subseteq m_canceled'
    BY <1>5 DEF ActionReturns
  <2>2. Unfinished' = Unfinished
    BY <2>1 DEF Unfinished
  <2>3. actions # <<>>
    BY <1>0, <2>1 DEF QueueInv
  <2>4. QueueInv'
    BY <1>0, <2>1, <2>2, <2>3 DEF QueueInv, Increasing
  <2>5. Undecided' \subseteq Undecided /\ a \in Undecided
    <3>1. Range(actions) = {a} \union Range(Tail(actions))
      BY <1>0, <2>1, <2>3, RangeOfTail DEF TypeOK
    <3>2. QED
      BY <1>u, <2>1, <3>1 DEF Undecided, Unfinished
  <2>6. CallInv' /\ EventInv'
    BY <1>0, <2>1, <2>2 DEF CallInv, EventInv
  <2>7. CancelInv'
    BY <1>0, <2>1, <2>5 DEF CancelInv, Canceled
  <2>8. QED
    BY <1>t, <2>4, <2>6, <2>7 DEF IInv
<1>6. ASSUME NEW a \in Actions, FinishComplete(a) \/ FinishError(a) PROVE IInv'
  <2>1. /\ thread \in {"complete", "error"} /\ thread' = "batch" /\ actions' = Tail(actions)
        /\ UNCHANGED <<constructed, s_all_actions, completed, errored, intime, m_canceled>>
        /\ rejected \subseteq rejected'
        /\ events' = events \/ events' = Append(events, <<Head(actions), thread>>)
    BY <1>6 DEF FinishComplete, FinishError, Defer, Rejected
  <2>2. actions # <<>>
    BY <1>0, <2>1 DEF QueueInv
  <2>3. QED
    BY <1>t, <2>1, <2>2, Reported
<1>7. ASSUME NEW a \in Actions, FinishCanceled(a) PROVE IInv'
  <2>1. /\ thread \in {"canceled", "error"} /\ thread' = "batch" /\ actions' = Tail(actions)
        /\ a = Head(actions)
        /\ UNCHANGED <<constructed, s_all_actions, events, completed, intime, m_canceled>>
        /\ rejected \subseteq rejected' /\ errored' = [errored EXCEPT ![a] = @ + 1]
    BY <1>7 DEF FinishCanceled, Rejected
  <2>2. actions # <<>>
    BY <1>0, <2>1 DEF QueueInv
  <2>3. /\ a \in Unfinished /\ Unfinished' = Unfinished \ {a} /\ Undecided' = Unfinished'
        /\ QueueInv'
    BY <1>0, <2>1, <2>2, Popped
  <2>4. a <= constructed /\ completed[a] = 0 /\ errored[a] = 0
    BY <1>0, <1>n, <2>3 DEF QueueInv, CallInv
  <2>5. \A b \in Actions : errored'[b] = IF b = a THEN 1 ELSE errored[b]
    BY <1>0, <2>1, <2>4 DEF TypeOK
  <2>6. CallInv'
    BY <1>0, <1>n, <2>1, <2>3, <2>4, <2>5 DEF CallInv
  <2>7. EventInv'
    BY <1>0, <1>n, <2>1, <2>4, <2>5 DEF EventInv
  <2>8. CancelInv'
    BY <1>0, <1>u, <2>1, <2>3 DEF CancelInv, Canceled
  <2>9. QED
    BY <1>t, <2>3, <2>6, <2>7, <2>8 DEF IInv
<1>8. CASE Construct
  <2> DEFINE c == constructed + 1
             n == Len(s_all_actions)
  <2>1. /\ UNCHANGED <<actions, events, m_canceled, rejected, completed, errored, intime>>
        /\ constructed' = c /\ s_all_actions' = Append(s_all_actions, c)
        /\ \/ thread' = thread
           \/ thread \in {"none", "wait"} /\ thread' \in {"top", "lock"}
    <3>1. thread' = IF thread = "none" THEN "top" ELSE IF thread = "wait" THEN "lock" ELSE thread
      BY <1>8 DEF Construct, Started, Broadcast
    <3>2. QED
      BY <1>8, <3>1 DEF Construct
  <2>2. c \in Actions /\ c \in Nat /\ c > constructed
    BY <1>0, <1>8, ActionAssumption DEF Construct, TypeOK, Actions
  <2>3. /\ s_all_actions \in Seq(Actions) /\ n \in Nat /\ DOMAIN s_all_actions = 1 .. n
        /\ actions \in Seq(Actions)
    BY <1>0 DEF TypeOK
  <2>4. /\ DOMAIN s_all_actions' = 1 .. n + 1 /\ s_all_actions'[n + 1] = c
        /\ \A i \in 1 .. n : s_all_actions'[i] = s_all_actions[i]
        /\ Range(s_all_actions') = Range(s_all_actions) \union {c}
    BY <2>1, <2>2, <2>3, RangeOfAppend
  <2>5. Unfinished' = Unfinished \union {c}
    BY <2>1, <2>4 DEF Unfinished
  <2>6. Undecided' = Undecided \union {c}
    BY <2>1, <2>4, <2>5 DEF Undecided
  <2>7. /\ \A i \in DOMAIN s_all_actions : s_all_actions[i] < c
        /\ \A i \in DOMAIN actions : actions[i] < c
    <3>1. \A b \in Unfinished : b < c
      <4>1. Unfinished \subseteq Actions
        BY <2>3 DEF Unfinished, Range
      <4>2. QED
        BY <1>0, <1>n, <4>1 DEF QueueInv
    <3>2. QED
      BY <3>1 DEF Unfinished, Range
  <2>8. QueueInv'
    <3>1. Increasing(s_all_actions')
      BY <1>0, <2>3, <2>4, <2>7 DEF QueueInv, Increasing
    <3>2. \A i \in DOMAIN actions, j \in DOMAIN s_all_actions' : actions[i] < s_all_actions'[j]
      BY <1>0, <2>3, <2>4, <2>7 DEF QueueInv
    <3>3. \A b \in Unfinished' : b <= c
      <4>1. Unfinished \subseteq Actions
        BY <2>3 DEF Unfinished, Range
      <4>2. QED
        BY <1>0, <1>n, <2>2, <2>5, <4>1 DEF QueueInv
    <3>4. QED
      BY <1>0, <2>1, <3>1, <3>2, <3>3 DEF QueueInv
  <2>9. \A i \in DOMAIN events : events[i][1] # c /\ events[i][1] <= c
    BY <1>0, <1>n, <2>2, EventIndices DEF EventInv
  <2>10. CallInv'
    BY <1>0, <2>1, <2>2, <2>5, <2>9 DEF CallInv, EventInv
  <2>11. EventInv'
    BY <1>0, <1>n, <2>1, <2>9 DEF EventInv
  <2>12. CancelInv'
    <3>1. ASSUME NEW b \in intime PROVE b <= c /\ b # c
      BY <1>0, <1>n, <2>2 DEF CancelInv
    <3>2. QED
      BY <1>0, <2>1, <2>6, <3>1 DEF CancelInv, Canceled
  <2>13. QED
    BY <1>t, <2>8, <2>10, <2>11, <2>12 DEF IInv
<1>9. ASSUME NEW a \in Actions, cancel(a) PROVE IInv'
  <2>1. /\ UNCHANGED <<constructed, s_all_actions, actions, thread, events, rejected, completed,
                       errored>>
        /\ m_canceled' = m_canceled \union {a}
        /\ intime' = intime \/ (a \in Undecided /\ intime' = intime \union {a})
    BY <1>9 DEF cancel
  <2>2. Unfinished' = Unfinished /\ Undecided' = Undecided
    BY <2>1 DEF Unfinished, Undecided
  <2>3. QueueInv' /\ EventInv'
    BY <1>0, <2>1, <2>2 DEF QueueInv, EventInv, Increasing
  <2>4. CallInv'
    BY <1>0, <1>n, <1>u, <2>1, <2>2 DEF CallInv
  <2>5. CancelInv'
    <3>1. a \in Undecided => /\ a <= constructed /\ (thread \in {"complete", "error"} => a # Head(actions))
                             /\ \A i \in DOMAIN events : events[i][1] # a
      BY <1>0, <1>u DEF QueueInv, CallInv
    <3>2. QED
      BY <1>0, <2>1, <2>2, <3>1 DEF CancelInv, Canceled
  <2>6. QED
    BY <1>t, <2>3, <2>4, <2>5 DEF IInv
<1>10. ASSUME NEW fails \in BOOLEAN, RunComplete(fails) PROVE IInv'
  <2> DEFINE a == Head(events)[1]
  <2>1. /\ UNCHANGED <<constructed, s_all_actions, actions, thread, m_canceled, intime>>
        /\ completed' = [completed EXCEPT ![a] = @ + 1]
        /\ errored' = [errored EXCEPT ![a] = IF fails THEN @ + 1 ELSE @]
        /\ rejected' = rejected \ {a}
        /\ events # <<>> /\ events' = Tail(events) /\ Head(events)[2] = "complete"
    BY <1>10 DEF RunComplete, Resolved
  <2>2. /\ a \in Actions /\ a <= constructed /\ a \notin Unfinished
        /\ completed[a] + errored[a] = 0 /\ 1 \in DOMAIN events /\ Head(events) = events[1]
        /\ \A i \in DOMAIN events' : /\ i \in Nat /\ i + 1 \in DOMAIN events
                                     /\ events'[i] = events[i + 1] /\ events'[i][1] # a
    BY <1>0, <2>1, EventTaken
  <2>3. Unfinished' = Unfinished /\ Undecided' = Undecided
    BY <2>1 DEF Unfinished, Undecided
  <2>4. /\ completed[a] = 0 /\ errored[a] = 0
        /\ \A b \in Actions : completed'[b] = IF b = a THEN 1 ELSE completed[b]
        /\ \A b \in Actions : errored'[b] = IF b = a /\ fails THEN 1 ELSE errored[b]
    BY <1>0, <1>n, <2>1, <2>2, SMTT(30) DEF TypeOK
  <2>5. QueueInv'
    BY <1>0, <2>1, <2>3 DEF QueueInv, Increasing
  <2>6. a \notin intime
    BY <1>0, <2>1, <2>2 DEF CancelInv
  <2>7. CallInv'
    BY <1>0, <1>n, <2>1, <2>2, <2>3, <2>4, <2>6 DEF CallInv
  <2>8. EventInv'
    <3>1. ASSUME NEW i \in DOMAIN events', NEW j \in DOMAIN events', i # j
          PROVE  events'[i][1] # events'[j][1]
      BY <1>0, <2>2, <3>1 DEF EventInv
    <3>2. QED
      BY <1>0, <1>n, <2>1, <2>2, <2>4, <3>1 DEF EventInv
  <2>9. CancelInv'
    BY <1>0, <1>u, <2>1, <2>2, <2>3 DEF CancelInv, Canceled
  <2>10. QED
    BY <1>t, <2>5, <2>7, <2>8, <2>9 DEF IInv
<1>11. CASE RunError
  <2> DEFINE a == Head(events)[1]
  <2>1. /\ UNCHANGED <<constructed, s_all_actions, actions, thread, m_canceled, intime, completed,
                       rejected>>
        /\ errored' = [errored EXCEPT ![a] = @ + 1]
        /\ events # <<>> /\ events' = Tail(events)
    BY <1>11 DEF RunError
  <2>2. /\ a \in Actions /\ a <= constructed /\ a \notin Unfinished
        /\ completed[a] + errored[a] = 0
        /\ \A i \in DOMAIN events' : /\ i \in Nat /\ i + 1 \in DOMAIN events
                                     /\ events'[i] = events[i + 1] /\ events'[i][1] # a
    BY <1>0, <2>1, EventTaken
  <2>3. Unfinished' = Unfinished /\ Undecided' = Undecided
    BY <2>1 DEF Unfinished, Undecided
  <2>4. /\ completed[a] = 0 /\ errored[a] = 0
        /\ \A b \in Actions : errored'[b] = IF b = a THEN 1 ELSE errored[b]
    BY <1>0, <1>n, <2>1, <2>2, SMTT(30) DEF TypeOK
  <2>5. QueueInv'
    BY <1>0, <2>1, <2>3 DEF QueueInv, Increasing
  <2>7. CallInv'
    BY <1>0, <1>n, <2>1, <2>2, <2>3, <2>4 DEF CallInv
  <2>8. EventInv'
    <3>1. ASSUME NEW i \in DOMAIN events', NEW j \in DOMAIN events', i # j
          PROVE  events'[i][1] # events'[j][1]
      BY <1>0, <2>2, <3>1 DEF EventInv
    <3>2. QED
      BY <1>0, <1>n, <2>1, <2>2, <2>4, <3>1 DEF EventInv
  <2>9. CancelInv'
    BY <1>0, <2>1, <2>2, <2>3 DEF CancelInv, Canceled
  <2>10. QED
    BY <1>t, <2>5, <2>7, <2>8, <2>9 DEF IInv
<1>12. CASE QuitLoop
  <2>1. /\ UNCHANGED <<constructed, s_all_actions, actions, thread, events, m_canceled, completed,
                       errored>>
        /\ rejected' = rejected \union jobs
        /\ intime' = intime \union (jobs \intersect Undecided)
    BY <1>12 DEF QuitLoop, Rejected
  <2>2. Unfinished' = Unfinished /\ Undecided' = Undecided
    BY <2>1 DEF Unfinished, Undecided
  <2>3. QueueInv' /\ EventInv'
    BY <1>0, <2>1, <2>2 DEF QueueInv, EventInv, Increasing
  <2>4. CallInv'
    BY <1>0, <1>n, <1>u, <2>1, <2>2 DEF CallInv
  <2>5. CancelInv'
    <3>1. \A b \in jobs : b \in Actions
      BY <1>0, ActionAssumption DEF TypeOK, Actions
    <3>2. \A b \in jobs \intersect Undecided :
              /\ b \in Actions /\ b <= constructed /\ (thread \in {"complete", "error"} => b # Head(actions))
              /\ \A i \in DOMAIN events : events[i][1] # b
      BY <1>0, <1>u, <3>1 DEF QueueInv, CallInv
    <3>3. QED
      BY <1>0, <2>1, <2>2, <3>2 DEF CancelInv, Canceled
  <2>6. QED
    BY <1>t, <2>3, <2>4, <2>5 DEF IInv
<1>13. CASE QuitJoin
  <2>1. /\ UNCHANGED <<constructed, actions, events, m_canceled, rejected, completed, errored,
                       intime>>
        /\ s_all_actions' = <<>> /\ thread = "exited" /\ thread' = "none"
    BY <1>13 DEF QuitJoin
  <2>2. Unfinished' \subseteq Unfinished /\ Undecided' = Unfinished'
    BY <2>1 DEF Unfinished, Undecided, Range
  <2>3. QueueInv'
    BY <1>0, <2>1, <2>2 DEF QueueInv, Increasing
  <2>4. CallInv' /\ EventInv'
    BY <1>0, <2>1, <2>2 DEF CallInv, EventInv
  <2>5. CancelInv'
    BY <1>0, <1>u, <2>1, <2>2 DEF CancelInv, Canceled
  <2>6. QED
    BY <1>t, <2>3, <2>4, <2>5 DEF IInv
<1>14. QED
  BY <1>1, <1>2, <1>3, <1>4, <1>5, <1>6, <1>7, <1>8, <1>9, <1>10, <1>11, <1>12, <1>13
     DEF Next, ThreadStep, LoopStep, QuitStep

(* DanglingInv is kept too: an action is added to dangling when it reports, *)
(* and only an action that has not reported can still be cancelled in time. *)
LEMMA DanglingStep == IInv /\ DanglingInv /\ [Next]_vars => DanglingInv'
<1> SUFFICES ASSUME IInv, DanglingInv, [Next]_vars PROVE DanglingInv'
  OBVIOUS
<1>0. TypeOK /\ QueueInv /\ CancelInv
  BY DEF IInv
<1>u. /\ Undecided \subseteq Unfinished
      /\ thread \notin {"complete", "error", "canceled"} => Undecided = Unfinished
  BY <1>0, UndecidedIs
<1>n. dangling \subseteq Actions /\ constructed \in Nat /\ \A a \in Actions : a \in Nat
  BY <1>0, ActionAssumption DEF TypeOK, Actions
<1>1. CASE \/ LoopCheck \/ WaitForActions \/ BatchDone \/ RunAction \/ ForgetSettled
           \/ DestroyLoop \/ QuitStore \/ QuitBroadcast \/ LoopStep \/ UNCHANGED vars
           \/ \E a \in Actions, fails \in BOOLEAN : ActionReturns(a, fails)
  <2>1. UNCHANGED <<constructed, s_all_actions, actions, intime, dangling>>
    BY <1>1 DEF LoopCheck, WaitForActions, BatchDone, RunAction, ForgetSettled, DestroyLoop,
       QuitStore, QuitBroadcast, LoopStep, RunError, RunComplete, ActionReturns, vars
  <2>2. QED
    BY <2>1 DEF DanglingInv, Unfinished
<1>2. CASE TakeActions \/ QuitJoin
  <2>1. /\ UNCHANGED <<constructed, intime, dangling>>
        /\ s_all_actions' = <<>> /\ actions' \in {actions, s_all_actions}
    BY <1>2 DEF TakeActions, QuitJoin
  <2>2. Unfinished' \subseteq Unfinished
    BY <2>1 DEF Unfinished, Range
  <2>3. QED
    BY <2>1, <2>2 DEF DanglingInv
<1>3. ASSUME NEW a \in Actions, SkipAction \/ FinishCanceled(a)
      PROVE  DanglingInv'
  <2>1. /\ UNCHANGED <<constructed, s_all_actions, intime, dangling>> /\ actions # <<>>
        /\ actions' = Tail(actions) /\ thread' = "batch"
    BY <1>0, <1>3 DEF SkipAction, FinishCanceled, QueueInv
  <2>2. Unfinished' \subseteq Unfinished
    BY <1>0, <2>1, Popped
  <2>3. QED
    BY <2>1, <2>2 DEF DanglingInv
<1>4. ASSUME NEW a \in Actions, FinishComplete(a) \/ FinishError(a) PROVE DanglingInv'
  <2>1. /\ UNCHANGED <<constructed, s_all_actions, intime>> /\ actions # <<>>
        /\ actions' = Tail(actions) /\ thread' = "batch" /\ thread \in {"complete", "error"}
        /\ a = Head(actions) /\ dangling' \in {dangling, dangling \union {a}}
    BY <1>0, <1>4 DEF FinishComplete, FinishError, Defer, QueueInv
  <2>2. Unfinished' = Unfinished \ {a} /\ a \in Unfinished
    BY <1>0, <2>1, Popped
  <2>3. a <= constructed /\ a \notin intime
    BY <1>0, <2>1, <2>2 DEF QueueInv, CancelInv
  <2>4. QED
    BY <2>1, <2>2, <2>3 DEF DanglingInv
<1>5. CASE Construct
  <2> DEFINE c == constructed + 1
  <2>1. /\ UNCHANGED <<actions, intime, dangling>> /\ constructed' = c
        /\ s_all_actions' = Append(s_all_actions, c)
    BY <1>5 DEF Construct
  <2>2. c \in Actions
    BY <1>0, <1>5, ActionAssumption DEF Construct, TypeOK, Actions
  <2>3. Range(s_all_actions') = Range(s_all_actions) \union {c}
    BY <1>0, <2>1, <2>2, RangeOfAppend DEF TypeOK
  <2>4. Unfinished' = Unfinished \union {c}
    BY <2>1, <2>3 DEF Unfinished
  <2>5. QED
    BY <1>n, <2>1, <2>4 DEF DanglingInv
<1>6. ASSUME NEW a \in Actions, cancel(a) PROVE DanglingInv'
  <2>1. /\ UNCHANGED <<constructed, s_all_actions, actions, dangling>>
        /\ intime' \subseteq intime \union Undecided
    BY <1>6 DEF cancel
  <2>2. QED
    BY <1>u, <2>1 DEF DanglingInv, Unfinished
<1>7. CASE QuitLoop
  <2>1. /\ UNCHANGED <<constructed, s_all_actions, actions, dangling>>
        /\ intime' \subseteq intime \union Undecided
    BY <1>7 DEF QuitLoop
  <2>2. QED
    BY <1>u, <2>1 DEF DanglingInv, Unfinished
<1>8. CASE SkipAction
  <2>1. Head(actions) \in Actions
    BY <1>0, <1>8, RangeOfTail DEF SkipAction, TypeOK
  <2>2. QED
    BY <1>3, <1>8, <2>1
<1>9. QED
  BY <1>1, <1>2, <1>3, <1>4, <1>5, <1>6, <1>7, <1>8 DEF Next, ThreadStep, QuitStep

(* IInv and DanglingInv are invariants. *)
LEMMA Invariance == Spec => [](IInv /\ DanglingInv)
<1>1. Init => IInv
  <2> SUFFICES ASSUME Init PROVE IInv
    OBVIOUS
  <2>1. TypeOK
    BY ActionAssumption DEF Init, TypeOK
  <2>2. Unfinished = {} /\ intime = {} /\ DOMAIN events = {}
    BY DEF Init, Unfinished, Range
  <2>3. CallInv /\ EventInv /\ CancelInv
    BY <2>2 DEF Init, CallInv, EventInv, CancelInv
  <2>4. QueueInv
    BY <2>2 DEF Init, QueueInv, Increasing
  <2>5. QED
    BY <2>1, <2>3, <2>4 DEF IInv
<1>2. Init => DanglingInv
  BY DEF Init, DanglingInv
<1>3. QED
  BY <1>1, <1>2, Step, DanglingStep, PTL DEF Spec

-----------------------------------------------------------------------------

(* Every action is in one place only and its callbacks are called once;    *)
(* one that was cancelled, or whose loop was quit, before it had returned  *)
(* never completes and never uses the pointer to a loop that is gone.      *)
THEOREM CallbacksOnce == Spec => []CallbackOnce
<1>1. IInv /\ DanglingInv => CallbackOnce
  BY OnePlace DEF IInv, CallInv, CallbackOnce, DanglingInv
<1>2. QED
  BY <1>1, Invariance, PTL

-----------------------------------------------------------------------------
(***************************************************************************)
(* WorkerThread, for every set of clients and any number of tasks.  The    *)
(* inductive invariant adds to the properties that a client's ticket is    *)
(* the number of a task that has been started, and that nobody is inside a *)
(* member function once the destructor has begun.                          *)
(***************************************************************************)
Tickets == \A c \in Clients : ticket[c] <= started

Destroyed ==
    /\ destructor # "outside" => \A c \in Clients : client[c] = "outside"
    /\ m_stop \/ m_state = "Stopped" => destructor # "outside"

WTIInv == WTTypeOK /\ OneTaskAtATime /\ ErrorAccounted /\ Tickets /\ Destroyed

(* A broadcast changes the place of nobody who is not waiting. *)
LEMMA AwakeFact ==
    /\ Awake("outside") = "outside" /\ Awake("top") = "top" /\ Awake("wait") = "top"
    /\ Awake("task") = "task" /\ Awake("exited") = "exited" /\ Awake("joined") = "joined"
BY DEF Awake

(* What a broadcast does to the three kinds of threads. *)
LEMMA BroadcastFact ==
    /\ WTTypeOK /\ BroadcastClients =>
         /\ client' \in [Clients -> {"outside", "top", "wait"}]
         /\ \A c \in Clients : client'[c] = "outside" <=> client[c] = "outside"
    /\ WTTypeOK /\ BroadcastWorker =>
         /\ worker' \in {"top", "task", "wait", "exited"}
         /\ worker' = "task" <=> worker = "task"
    /\ WTTypeOK /\ BroadcastOwner =>
         /\ destructor' \in {"outside", "top", "wait", "joined"}
         /\ destructor' = "outside" <=> destructor = "outside"
BY DEF WTTypeOK, BroadcastClients, BroadcastWorker, BroadcastOwner, Awake

(* Every step preserves the inductive invariant. *)
LEMMA WTStep == WTIInv /\ [WTNext]_wtVars => WTIInv'
<1> SUFFICES ASSUME WTIInv, [WTNext]_wtVars PROVE WTIInv'
  OBVIOUS
<1> USE WorkerAssumption, BroadcastFact
<1>1. CASE WorkerStop
  BY <1>1 DEF WTIInv, WTTypeOK, OneTaskAtATime, ErrorAccounted, Tickets, Destroyed, Pending, WorkerStop
<1>2. CASE WorkerTakeTask
  BY <1>2 DEF WTIInv, WTTypeOK, OneTaskAtATime, ErrorAccounted, Tickets, Destroyed, Pending, WorkerTakeTask
<1>3. CASE WorkerWait
  BY <1>3 DEF WTIInv, WTTypeOK, OneTaskAtATime, ErrorAccounted, Tickets, Destroyed, Pending, WorkerWait
<1>4. ASSUME NEW result \in {"Idle", "Error"}, WorkerFinish(result) PROVE WTIInv'
  BY <1>4 DEF WTIInv, WTTypeOK, OneTaskAtATime, ErrorAccounted, Tickets, Destroyed, Pending, WorkerFinish
<1>5. ASSUME NEW c \in Clients, start_task(c) PROVE WTIInv'
  <2>1. WTTypeOK'
    BY <1>5 DEF WTIInv, WTTypeOK, start_task, Accepted, StartsWork
  <2>2. OneTaskAtATime'
    BY <1>5 DEF WTIInv, WTTypeOK, OneTaskAtATime, Pending, start_task, Accepted, StartsWork
  <2>3. ErrorAccounted'
    BY <1>5 DEF WTIInv, WTTypeOK, ErrorAccounted, start_task, Accepted, StartsWork
  <2>4. Tickets' /\ Destroyed'
    BY <1>5 DEF WTIInv, WTTypeOK, Tickets, Destroyed, start_task, Accepted, StartsWork
  <2>5. QED
    BY <2>1, <2>2, <2>3, <2>4 DEF WTIInv
<1>6. ASSUME NEW c \in Clients, wait_until_task_is_finished(c) PROVE WTIInv'
  BY <1>6 DEF WTIInv, WTTypeOK, OneTaskAtATime, ErrorAccounted, Tickets, Destroyed, Pending,
      wait_until_task_is_finished
<1>7. ASSUME NEW c \in Clients, ClientStep(c) PROVE WTIInv'
  BY <1>7 DEF WTIInv, WTTypeOK, OneTaskAtATime, ErrorAccounted, Tickets, Destroyed, Pending,
      ClientStep, WaitForTask, WaitReturnsError, WaitReturns
<1>8. CASE Destroy
  BY <1>8 DEF WTIInv, WTTypeOK, OneTaskAtATime, ErrorAccounted, Tickets, Destroyed, Pending, Destroy, MayDestroy
<1>9. CASE OwnerStep
  BY <1>9 DEF WTIInv, WTTypeOK, OneTaskAtATime, ErrorAccounted, Tickets, Destroyed, Pending,
      OwnerStep, DestroyWait, DestroyJoin
<1>10. CASE SpuriousWakeup
  BY <1>10 DEF WTIInv, WTTypeOK, OneTaskAtATime, ErrorAccounted, Tickets, Destroyed, Pending, SpuriousWakeup
<1>11. CASE UNCHANGED wtVars
  BY <1>11 DEF WTIInv, WTTypeOK, OneTaskAtATime, ErrorAccounted, Tickets, Destroyed, Pending, wtVars
<1>12. QED
  BY <1>1, <1>2, <1>3, <1>4, <1>5, <1>6, <1>7, <1>8, <1>9, <1>10, <1>11 DEF WTNext, WorkerStep

(* The inductive invariant holds in every reachable state. *)
THEOREM WTInvariance == WTSpec => []WTIInv
<1>1. WTInit => WTIInv
  <2> SUFFICES ASSUME WTInit PROVE WTIInv
    OBVIOUS
  <2>1. WTTypeOK
    BY DEF WTInit, WTTypeOK
  <2>2. OneTaskAtATime /\ ErrorAccounted
    BY DEF WTInit, OneTaskAtATime, ErrorAccounted, Pending
  <2>3. Tickets /\ Destroyed
    BY DEF WTInit, Tickets, Destroyed
  <2>4. QED
    BY <2>1, <2>2, <2>3 DEF WTIInv
<1>2. QED
  BY <1>1, WTStep, PTL DEF WTSpec

(* Types, and the state is Working exactly while the worker runs a task. *)
THEOREM WTTypeCorrect == WTSpec => []WTTypeOK
<1>1. WTIInv => WTTypeOK
  BY DEF WTIInv
<1>2. QED
  BY <1>1, WTInvariance, PTL

(* The tasks start_task() has accepted are run one at a time and once. *)
THEOREM OneTask == WTSpec => []OneTaskAtATime
<1>1. WTIInv => OneTaskAtATime
  BY DEF WTIInv
<1>2. QED
  BY <1>1, WTInvariance, PTL

(* No error of a task is lost and none is returned twice. *)
THEOREM Errors == WTSpec => []ErrorAccounted
<1>1. WTIInv => ErrorAccounted
  BY DEF WTIInv
<1>2. QED
  BY <1>1, WTInvariance, PTL

(* A wait returns only when the task its caller started has finished: the  *)
(* client leaves in a state in which every accepted task has finished.     *)
THEOREM WaitSound == WTSpec => WaitMeansDone
<1> DEFINE Sound == \A c \in Clients :
                      client[c] = "top" /\ client'[c] = "outside" => finished >= ticket[c]
<1>1. WTIInv /\ [WTNext]_wtVars => [Sound]_wtVars
  <2> SUFFICES ASSUME WTIInv, WTNext, NEW c \in Clients,
                      client[c] = "top", client'[c] = "outside"
               PROVE  finished >= ticket[c]
    OBVIOUS
  <2>1. destructor = "outside" /\ m_state # "Stopped"
    BY DEF WTIInv, Destroyed
  <2>2. ~Pending
    BY <2>1, BroadcastFact DEF WTIInv, WTTypeOK, WTNext, WorkerStep, WorkerStop, WorkerTakeTask, WorkerWait,
        WorkerFinish, start_task, wait_until_task_is_finished, ClientStep, WaitForTask,
        WaitReturnsError, WaitReturns, Pending, Destroy, MayDestroy, OwnerStep, DestroyWait, DestroyJoin,
        SpuriousWakeup
  <2>3. QED
    BY <2>1, <2>2 DEF WTIInv, WTTypeOK, OneTaskAtATime, Tickets
<1>2. QED
  BY <1>1, WTInvariance, PTL DEF WTSpec, WaitMeansDone

=============================================================================

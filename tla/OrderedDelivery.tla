--------------------------- MODULE OrderedDelivery ---------------------------
(***************************************************************************)
(* What Core::EventLoop promises to the code that posts events to a        *)
(* thread: every event is delivered at most once, in the order of posting, *)
(* except that the events which a nested loop finds set aside by the       *)
(* handler that started it wait until that handler has returned.           *)
(*                                                                         *)
(* Events are numbered in the order in which they enter the queue.         *)
(***************************************************************************)
EXTENDS Naturals

VARIABLES
    posted,     \* number of events posted so far
    done,       \* the events that were delivered, or dropped for want of a receiver
    aside       \* the events that a running handler keeps from its nested loop

vars == <<posted, done, aside>>

Init == posted = 0 /\ done = {} /\ aside = {}

Waiting == (1 .. posted) \ (done \union aside)

Post ==
    /\ posted' = posted + 1
    /\ UNCHANGED <<done, aside>>

(* The oldest event that is not set aside; its handler may post more. *)
Deliver ==
    /\ \E e \in Waiting :
         /\ \A f \in Waiting : e <= f
         /\ done' = done \union {e}
    /\ posted' \in {posted, posted + 1}
    /\ aside' = aside

(* The handler of the oldest event starts a nested loop. *)
DeliverNested ==
    \E e \in Waiting, kept \in SUBSET Waiting :
        /\ \A f \in Waiting : e <= f
        /\ \A f \in kept : \A g \in Waiting \ (kept \union {e}) : f < g
        /\ e \notin kept
        /\ done' = done \union {e}
        /\ aside' = aside \union kept
        /\ posted' = posted

(* The nested loop returns: the events its handler kept can be delivered. *)
Unnest ==
    /\ aside' \subseteq aside
    /\ \A f \in aside', g \in aside \ aside' : f < g
    /\ UNCHANGED <<posted, done>>

Next == Post \/ Deliver \/ DeliverNested \/ Unnest

Spec == Init /\ [][Next]_vars
=============================================================================

--------------------------- MODULE MessageChannel ---------------------------
(***************************************************************************)
(* What the two ends of an IPC connection may rely on.  Messages arrive    *)
(* once and in the order in which they were posted, except that responses  *)
(* and the other messages may overtake each other: a caller that blocks in *)
(* send_sync() takes the response to its request out of turn.  Messages    *)
(* are lost only when the connection fails, and then only a tail of those  *)
(* that are on their way to an end.                                        *)
(***************************************************************************)
EXTENDS Naturals, Sequences, SequencesExt

CONSTANTS Ends, Messages, IsResponse(_)

VARIABLES
    pending,    \* for each end, the messages on their way to it
    failed      \* has an end been shut down, or its process died?

channelVars == <<pending, failed>>

Init ==
    /\ pending = [e \in Ends |-> <<>>]
    /\ failed = FALSE

Post(e) ==
    /\ \E m \in Messages : pending' = [pending EXCEPT ![e] = Append(@, m)]
    /\ UNCHANGED failed

(* The i-th message is the oldest of its class. *)
Deliver(e, i) ==
    /\ \A j \in 1 .. i - 1 : IsResponse(pending[e][j]) # IsResponse(pending[e][i])
    /\ pending' = [pending EXCEPT ![e] = RemoveAt(@, i)]
    /\ UNCHANGED failed

Fail ==
    /\ failed' = TRUE
    /\ \A e \in Ends : IsPrefix(pending'[e], pending[e])
    /\ DOMAIN pending' = Ends

Next ==
    \/ \E e \in Ends : Post(e) \/ \E i \in DOMAIN pending[e] : Deliver(e, i)
    \/ Fail

Spec == Init /\ [][Next]_channelVars

=============================================================================

----------------------------- MODULE Connection -----------------------------
(***************************************************************************)
(* An IPC connection (Libraries/LibIPC): a ConnectionToServer in one       *)
(* process and a ConnectionFromClient in another, each with its event loop *)
(* and its send thread, and the stream socket between them.                *)
(*                                                                         *)
(* A message is written to the stream in MessageParts parts, so the reader *)
(* can find a part of one.  A process may die at any step.  The sockets    *)
(* block (Process.cpp and the services' main.cpp set them so): a send is   *)
(* never given up for lack of space.  Handlers do not run nested loops.    *)
(***************************************************************************)
EXTENDS Naturals, Sequences, SequencesExt

CONSTANTS
    MaxPosts,       \* bound: messages posted by an end, responses apart
    MessageParts,   \* the number of writes a message takes
    SyncEnds,       \* the ends that make synchronous calls
    MayDie          \* the ends whose process may die

ASSUME ConnectionAssumption ==
    /\ MaxPosts \in Nat /\ MessageParts \in Nat \ {0}
    /\ SyncEnds \subseteq {"client", "server"}
    /\ MayDie \subseteq {"client", "server"}

VARIABLES
    queue,          \* m_send_queue->messages
    sending,        \* the parts the send thread has still to write
    wire,           \* the parts in the socket, by the end that reads them
    open,           \* m_transport.is_open()
    enabled,        \* is the notifier of the socket enabled?
    m_unprocessed_bytes, m_unprocessed_messages,
    tasks,          \* the event queue of the end's thread
    place,          \* "loop", "handling" (messages) or "waiting" (in send_sync)
    handling,       \* the local vector of handle_messages()
    owed,           \* the request whose handler has not yet returned, or 0
    alive,          \* does the process live?
    posted,         \* history: messages posted, responses apart
    delivered,      \* history: messages given to handlers
    died            \* history: times die() was called, up to MaxDeaths

sender   == <<queue, sending>>
socket   == <<wire, open, enabled>>
received == <<m_unprocessed_bytes, m_unprocessed_messages>>
loop     == <<tasks, place, handling, owed>>
history  == <<posted, delivered, died>>
vars     == <<sender, socket, received, loop, alive, history>>

Ends == {"client", "server"}
Peer(e) == IF e = "client" THEN "server" ELSE "client"

(* id is the number of the message among those its sender posts; of a      *)
(* response, the number of the request.                                    *)
Messages == [kind : {"async", "request", "response"}, id : 1 .. MaxPosts]
IsResponse(m) == m.kind = "response"

(* Bounds on the deferred calls of a kind, and on the calls of die(), that *)
(* a caller that spins in send_sync() piles up; a third one adds nothing.  *)
MaxDeferred == 2
MaxDeaths == 2

Init ==
    /\ queue = [e \in Ends |-> <<>>]
    /\ sending = [e \in Ends |-> <<>>]
    /\ wire = [e \in Ends |-> <<>>]
    /\ open = [e \in Ends |-> TRUE]
    /\ enabled = [e \in Ends |-> TRUE]
    /\ m_unprocessed_bytes = [e \in Ends |-> <<>>]
    /\ m_unprocessed_messages = [e \in Ends |-> <<>>]
    /\ tasks = [e \in Ends |-> <<>>]
    /\ place = [e \in Ends |-> "loop"]
    /\ handling = [e \in Ends |-> <<>>]
    /\ owed = [e \in Ends |-> 0]
    /\ alive = [e \in Ends |-> TRUE]
    /\ posted = [e \in Ends |-> 0]
    /\ delivered = [e \in Ends |-> 0]
    /\ died = [e \in Ends |-> 0]

-----------------------------------------------------------------------------
(***************************************************************************)
(* The send thread.                                                        *)
(***************************************************************************)

(* transfer_message(): the parts of a message. *)
Parts(m) == [i \in 1 .. MessageParts |-> [msg |-> m, part |-> i]]

SendTake(e) ==
    /\ alive[e]
    /\ sending[e] = <<>> /\ queue[e] # <<>>
    /\ sending' = [sending EXCEPT ![e] = Parts(Head(queue[e]))]
    /\ queue' = [queue EXCEPT ![e] = Tail(@)]
    /\ UNCHANGED <<socket, received, loop, history, alive>>

SendPart(e) ==
    /\ alive[e]
    /\ sending[e] # <<>>
    /\ open[e] /\ open[Peer(e)] /\ alive[Peer(e)]
    /\ wire' = [wire EXCEPT ![Peer(e)] = Append(@, Head(sending[e]))]
    /\ sending' = [sending EXCEPT ![e] = Tail(@)]
    /\ UNCHANGED <<received, loop, history, queue, open, enabled, alive>>

(* ENOTCONN or EPIPE: the rest of the message is dropped, and the thread   *)
(* goes on with the next one.                                              *)
SendFails(e) ==
    /\ alive[e]
    /\ sending[e] # <<>>
    /\ ~(open[e] /\ open[Peer(e)] /\ alive[Peer(e)])
    /\ sending' = [sending EXCEPT ![e] = <<>>]
    /\ UNCHANGED <<socket, received, loop, history, queue, alive>>

-----------------------------------------------------------------------------
(***************************************************************************)
(* Receiving.                                                              *)
(***************************************************************************)

AtEOF(e) == ~(alive[Peer(e)] /\ open[Peer(e)])
Readable(e) == wire[e] # <<>> \/ AtEOF(e)

(* try_parse_messages(): the size in front of a message says how many      *)
(* parts it takes; the whole messages in the bytes, and the index after    *)
(* them.                                                                   *)
Whole(bytes) ==
    [i \in 1 .. Len(bytes) \div MessageParts |-> bytes[i * MessageParts].msg]

IndexAfter(bytes) == Len(bytes) - (Len(bytes) % MessageParts)

(* Mutated form: the bytes stashed away are forgotten. *)
BytesUnstashed(e) == IF open[e] THEN wire[e] ELSE <<>>

(* read_as_much_as_possible_from_transport_without_blocking() *)
Bytes(e) == m_unprocessed_bytes[e] \o (IF open[e] THEN wire[e] ELSE <<>>)
EOFSeen(e) == open[e] /\ AtEOF(e)
DrainFails(e) == EOFSeen(e) /\ Bytes(e) = <<>>

(* deferred_invoke() *)
Deferred(e, task) ==
    IF Len(SelectSeq(tasks[e], LAMBDA t : t = task)) < MaxDeferred THEN <<task>> ELSE <<>>

(* Mutated form: a deferred call is not made. *)
NotDeferred(e) == <<>>

(* The deferred shutdown() and handle_messages(), in this order. *)
ShutdownTasks(e) == IF EOFSeen(e) THEN Deferred(e, "shutdown") ELSE <<>>

Received(e) == m_unprocessed_messages[e] \o Whole(Bytes(e))

HandleTasks(e) ==
    IF Received(e) # <<>> /\ ~DrainFails(e) THEN Deferred(e, "handle") ELSE <<>>

(* drain_messages_from_peer(), apart from m_unprocessed_messages.  At the  *)
(* end of the stream the notifier is disabled.                             *)
Drain(e, rest) ==
    /\ wire' = [wire EXCEPT ![e] = IF open[e] THEN <<>> ELSE @]
    /\ m_unprocessed_bytes' = [m_unprocessed_bytes EXCEPT ![e] =
                                 SubSeq(Bytes(e), IndexAfter(Bytes(e)) + 1, Len(Bytes(e)))]
    /\ enabled' = [enabled EXCEPT ![e] = @ /\ ~EOFSeen(e)]
    /\ tasks' = [tasks EXCEPT ![e] = rest \o ShutdownTasks(e) \o HandleTasks(e)]

-----------------------------------------------------------------------------
(***************************************************************************)
(* The event loop of an end.                                               *)
(***************************************************************************)

Runs(e, task) == alive[e] /\ place[e] = "loop" /\ tasks[e] # <<>> /\ Head(tasks[e]) = task

(* wait_for_events() makes the readable socket a NotifierActivation. *)
Poll(e) ==
    /\ alive[e] /\ place[e] = "loop"
    /\ enabled[e] /\ Readable(e)
    /\ ~Contains(tasks[e], "hook")
    /\ tasks' = [tasks EXCEPT ![e] = Append(@, "hook")]
    /\ UNCHANGED <<sender, socket, received, history, place, handling, owed, alive>>

(* The read hook of a ConnectionFromClient drains; that of ConnectionBase  *)
(* also handles the messages, and finds nothing in the deferred call.  An  *)
(* activation already queued is delivered to a disabled notifier, too.     *)
ReadHookServer(e) ==
    /\ e = "server"
    /\ Runs(e, "hook")
    /\ Drain(e, Tail(tasks[e]))
    /\ m_unprocessed_messages' = [m_unprocessed_messages EXCEPT ![e] = Received(e)]
    /\ UNCHANGED <<sender, history, open, place, handling, owed, alive>>

ReadHookClient(e) ==
    /\ e = "client"
    /\ Runs(e, "hook")
    /\ Drain(e, Tail(tasks[e]))
    /\ handling' = [handling EXCEPT ![e] = Received(e)]
    /\ m_unprocessed_messages' = [m_unprocessed_messages EXCEPT ![e] = <<>>]
    /\ place' = [place EXCEPT ![e] = "handling"]
    /\ UNCHANGED <<sender, history, open, owed, alive>>

handle_messages(e) ==
    /\ Runs(e, "handle")
    /\ tasks' = [tasks EXCEPT ![e] = Tail(@)]
    /\ handling' = [handling EXCEPT ![e] = m_unprocessed_messages[e]]
    /\ m_unprocessed_messages' = [m_unprocessed_messages EXCEPT ![e] = <<>>]
    /\ place' = [place EXCEPT ![e] = "handling"]
    /\ UNCHANGED <<sender, socket, history, m_unprocessed_bytes, owed, alive>>

(* Closing drops what the socket holds for this end. *)
shutdown(e) ==
    /\ Runs(e, "shutdown")
    /\ tasks' = [tasks EXCEPT ![e] = Tail(@)]
    /\ open' = [open EXCEPT ![e] = FALSE]
    /\ enabled' = [enabled EXCEPT ![e] = FALSE]
    /\ wire' = [wire EXCEPT ![e] = <<>>]
    /\ died' = [died EXCEPT ![e] = IF @ < MaxDeaths THEN @ + 1 ELSE @]
    /\ UNCHANGED <<sender, received, place, handling, owed, alive, posted, delivered>>

-----------------------------------------------------------------------------
(***************************************************************************)
(* Handlers and application code.                                          *)
(***************************************************************************)

(* The stub ignores a response nobody has waited for: it has the magic of  *)
(* the other endpoint.                                                     *)
HandleNext(e) ==
    /\ alive[e] /\ place[e] = "handling"
    /\ handling[e] # <<>> /\ owed[e] = 0
    /\ handling' = [handling EXCEPT ![e] = Tail(@)]
    /\ LET m == Head(handling[e]) IN
         /\ owed' = [owed EXCEPT ![e] = IF m.kind = "request" THEN m.id ELSE 0]
         /\ delivered' = [delivered EXCEPT ![e] = IF IsResponse(m) THEN @ ELSE @ + 1]
    /\ UNCHANGED <<sender, socket, received, tasks, place, alive, posted, died>>

(* The handler of a request returns; handle_messages() posts the response. *)
Respond(e) ==
    /\ alive[e] /\ place[e] = "handling"
    /\ owed[e] # 0
    /\ owed' = [owed EXCEPT ![e] = 0]
    /\ queue' = [queue EXCEPT ![e] =
                   IF open[e] THEN Append(@, [kind |-> "response", id |-> owed[e]]) ELSE @]
    /\ UNCHANGED <<socket, received, history, sending, tasks, place, handling, alive>>

HandlingDone(e) ==
    /\ alive[e] /\ place[e] = "handling"
    /\ handling[e] = <<>> /\ owed[e] = 0
    /\ place' = [place EXCEPT ![e] = "loop"]
    /\ UNCHANGED <<sender, socket, received, history, tasks, handling, owed, alive>>

Enqueue(e, kind) ==
    /\ alive[e] /\ place[e] # "waiting"
    /\ open[e]
    /\ posted[e] < MaxPosts
    /\ posted' = [posted EXCEPT ![e] = @ + 1]
    /\ queue' = [queue EXCEPT ![e] = Append(@, [kind |-> kind, id |-> posted[e] + 1])]

(* post_message(), which fails and changes nothing if the socket is closed. *)
post_message(e) ==
    /\ Enqueue(e, "async")
    /\ UNCHANGED <<socket, received, loop, sending, alive, delivered, died>>

send_sync_but_allow_failure(e) ==
    /\ e \in SyncEnds
    /\ Enqueue(e, "request")
    /\ place' = [place EXCEPT ![e] = "waiting"]
    /\ UNCHANGED <<socket, received, sending, tasks, handling, owed, alive, delivered, died>>

(* wait_for_specific_endpoint_message_impl() *)
ResponseIndex(e) == SelectInSeq(m_unprocessed_messages[e], IsResponse)

WaitTakes(e) ==
    /\ alive[e] /\ place[e] = "waiting"
    /\ ResponseIndex(e) # 0
    /\ m_unprocessed_messages' =
         [m_unprocessed_messages EXCEPT ![e] = RemoveAt(@, ResponseIndex(e))]
    /\ place' = [place EXCEPT ![e] = "handling"]
    /\ UNCHANGED <<sender, socket, history, m_unprocessed_bytes, tasks, handling, owed, alive>>

(* Mutated form: the caller gives up when what it has read is not the      *)
(* response.                                                               *)
GivesUp(e) == TRUE

EndsWait(e) == DrainFails(e)

WaitDrains(e) ==
    /\ alive[e] /\ place[e] = "waiting"
    /\ ResponseIndex(e) = 0
    /\ open[e]
    /\ Readable(e)
    /\ Drain(e, tasks[e])
    /\ m_unprocessed_messages' = [m_unprocessed_messages EXCEPT ![e] = Received(e)]
    /\ place' = [place EXCEPT ![e] = IF EndsWait(e) THEN "handling" ELSE "waiting"]
    /\ UNCHANGED <<sender, history, open, handling, owed, alive>>

(* A process dies; what its threads have not written is gone. *)
Die(e) ==
    /\ e \in MayDie
    /\ alive[e]
    /\ alive' = [alive EXCEPT ![e] = FALSE]
    /\ queue' = [queue EXCEPT ![e] = <<>>]
    /\ sending' = [sending EXCEPT ![e] = <<>>]
    /\ wire' = [wire EXCEPT ![e] = <<>>]
    /\ UNCHANGED <<received, loop, history, open, enabled>>

-----------------------------------------------------------------------------

SendThread(e) == SendTake(e) \/ SendPart(e) \/ SendFails(e)

MainThread(e) ==
    \/ ReadHookServer(e) \/ ReadHookClient(e) \/ handle_messages(e) \/ shutdown(e)
    \/ HandleNext(e) \/ Respond(e) \/ HandlingDone(e)
    \/ WaitTakes(e) \/ WaitDrains(e)

Next ==
    \E e \in Ends :
        \/ SendThread(e) \/ MainThread(e) \/ Poll(e)
        \/ post_message(e) \/ send_sync_but_allow_failure(e)
        \/ Die(e)

(***************************************************************************)
(* Both threads of a living process run, handlers return, and the loop     *)
(* polls after every batch of events.  Nobody has to post or to die.       *)
(***************************************************************************)
Fairness ==
    \A e \in Ends : WF_vars(SendThread(e)) /\ WF_vars(MainThread(e)) /\ SF_vars(Poll(e))

Spec == Init /\ [][Next]_vars /\ Fairness

-----------------------------------------------------------------------------
(***************************************************************************)
(* Properties.                                                             *)
(***************************************************************************)

(* Types; between two calls m_unprocessed_bytes holds less than a message. *)
TypeOK ==
    /\ \A e \in Ends :
         /\ queue[e] \in Seq(Messages)
         /\ m_unprocessed_messages[e] \in Seq(Messages)
         /\ handling[e] \in Seq(Messages)
         /\ tasks[e] \in Seq({"hook", "handle", "shutdown"})
         /\ Len(m_unprocessed_bytes[e]) < MessageParts
         /\ place[e] = "waiting" => e \in SyncEnds
    /\ open \in [Ends -> BOOLEAN] /\ enabled \in [Ends -> BOOLEAN]
    /\ alive \in [Ends -> BOOLEAN]
    /\ place \in [Ends -> {"loop", "handling", "waiting"}]
    /\ owed \in [Ends -> Nat] /\ posted \in [Ends -> 0 .. MaxPosts]
    /\ delivered \in [Ends -> Nat] /\ died \in [Ends -> 0 .. MaxDeaths]

(* Does e read and write its socket? *)
Live(e) == alive[e] /\ open[e]

(* The messages on their way to e: in the vectors of its connection, in    *)
(* its socket, and in the send thread and the queue of its peer.           *)
Incoming(e) ==
    IF Live(Peer(e)) THEN Whole(Bytes(e) \o sending[Peer(e)]) \o queue[Peer(e)]
                     ELSE Whole(Bytes(e))

Pending(e) ==
    IF ~alive[e] THEN <<>>
    ELSE handling[e] \o m_unprocessed_messages[e] \o (IF open[e] THEN Incoming(e) ELSE <<>>)

Failed == \E e \in Ends : ~alive[e] \/ ~open[e]

Channel == INSTANCE MessageChannel
             WITH pending <- [e \in Ends |-> Pending(e)], failed <- Failed

(* Through the queue of the send thread, parts of messages in the stream   *)
(* and the stash, the deferred calls and the scan of send_sync(), messages *)
(* reach the other end once and in order; a failure loses a tail of them.  *)
MessagesInOrder == Channel!Spec

(* A synchronous caller gets the response to its own request, although     *)
(* wait_for_specific_endpoint_message() only looks at the type of it.      *)
OwnResponse ==
    /\ TypeOK
    /\ \A e \in Ends :
         place[e] = "waiting" /\ ResponseIndex(e) # 0 =>
             m_unprocessed_messages[e][ResponseIndex(e)].id = posted[e]

(* The peer has died within a message it sent. *)
CutOff(e) == ~alive[Peer(e)] /\ IndexAfter(Bytes(e)) # Len(Bytes(e))

(* Nobody waits for ever.  A message that is posted gets to the peer's     *)
(* handlers, unless the connection fails.  A synchronous call returns or   *)
(* the caller dies, unless the peer has died within a message: then the    *)
(* stashed part makes every further read a success, and the caller reads   *)
(* the end of the stream for ever.  (With both ends calling it would fail  *)
(* too: neither handles requests.)  When a process has died, die() is      *)
(* called on the connection of its peer, also if the end of the stream was *)
(* read inside a synchronous call.                                         *)
NobodyWaitsForever ==
    /\ \A e \in Ends, n \in 1 .. MaxPosts : posted[e] = n ~> delivered[Peer(e)] >= n \/ Failed
    /\ \A e \in Ends :
         /\ place[e] = "waiting" ~> place[e] # "waiting" \/ ~alive[e] \/ CutOff(e)
         /\ ~alive[Peer(e)] ~> \/ died[e] > 0 \/ ~alive[e]
                               \/ CutOff(e) /\ place[e] = "waiting"

=============================================================================

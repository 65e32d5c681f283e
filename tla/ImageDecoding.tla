---------------------------- MODULE ImageDecoding ----------------------------
(***************************************************************************)
(* Decoding images in a process of its own.  WebContent asks with a        *)
(* synchronous decode_image, which returns an id, and keeps a promise      *)
(* under that id until did_decode_image or did_fail_to_decode_image comes; *)
(* the ImageDecoder process decodes on its background thread.  When that   *)
(* process dies the browser starts another and sends WebContent a socket   *)
(* to it.  Connections keep the order of messages, a response may overtake *)
(* them (MessageChannel); what a BackgroundAction does is that module's    *)
(* subject, here it reports once, on the main thread unless it was         *)
(* cancelled.                                                              *)
(***************************************************************************)
EXTENDS Naturals, Sequences

CONSTANTS
    Images,             \* the calls of decode_image
    MaxGenerations,     \* bound: ImageDecoder processes that are started
    None

Generations == 1 .. MaxGenerations

ASSUME ImageAssumption == MaxGenerations \in Nat \ {0} /\ None \notin Images \cup Nat \cup (Nat \X Images)

VARIABLES
    called,     \* the images for which decode_image() was called
    calling,    \* the one whose call waits for its response, or None
    response,   \* the id in that response, or None
    outcomes,   \* for each image, how its promise was settled, in order
    client,     \* WebContent's Client objects, one per ImageDecoder process
    inbox,      \* the messages on their way to each of them
    current,    \* ImageCodecPlugin::m_client
    exited,     \* has WebContent closed its connections?
    sockets,    \* connect_to_image_decoder messages on their way to WebContent
    service,    \* the ImageDecoder process
    background  \* its background thread

webContent == <<called, calling, outcomes, client, current, exited>>
channels   == <<response, inbox, sockets>>
vars       == <<webContent, channels, service, background>>

FirstId    == 0

NewService(g) == [generation |-> g, alive |-> TRUE, asked |-> None, entering |-> None,
                  next_id |-> FirstId, pending_jobs |-> {}, deferred |-> <<>>, dying |-> "no",
                  canceled |-> {}, raced |-> FALSE]
NewBackground == [queue |-> <<>>, running |-> None]
NewClient(state) == [state |-> state, pending |-> {}]

Init ==
    /\ called = {} /\ calling = None /\ response = None /\ exited = FALSE
    /\ outcomes = [i \in Images |-> <<>>]
    /\ client = [g \in Generations |-> NewClient(IF g = 1 THEN "open" ELSE "none")]
    /\ inbox = [g \in Generations |-> <<>>]
    /\ current = 1 /\ sockets = <<>>
    /\ service = NewService(1) /\ background = NewBackground

-----------------------------------------------------------------------------
(* WebContent.  A promise is resolved with the image it is given. *)

Runs       == ~exited /\ calling = None

Settle(images, outcome) ==
    outcomes' = [i \in Images |-> IF i \in images THEN Append(outcomes[i], outcome) ELSE outcomes[i]]

(* No data or no buffer for it, or the connection is closed. *)
RejectAtOnce(i) ==
    /\ Runs /\ i \notin called
    /\ called' = called \cup {i}
    /\ Settle({i}, "rejected")
    /\ UNCHANGED <<calling, client, current, exited, channels, service, background>>

decode_image(i) ==
    /\ Runs /\ i \notin called
    /\ client[current].state # "closed"
    /\ called' = called \cup {i} /\ calling' = i
    /\ service' = IF service.alive /\ service.generation = current
                  THEN [service EXCEPT !.asked = i] ELSE service
    /\ UNCHANGED <<outcomes, client, current, exited, channels, background>>

(* schedule_shutdown() of the connection, when its end has been read *)
Ended(g) == ~service.alive \/ service.generation # g
AfterEof(c) == IF c.state = "open" THEN [c EXCEPT !.state = "eof"] ELSE c

(* The response may have been read together with the end of the stream,    *)
(* and with messages that are handled later.                               *)
CallReturns ==
    /\ calling # None /\ response # None
    /\ LET entered == [client[current] EXCEPT !.pending = @ \cup {<<response, calling>>}] IN
          \E c \in {entered} \cup (IF Ended(current) THEN {AfterEof(entered)} ELSE {}) :
             client' = [client EXCEPT ![current] = c]
    /\ calling' = None /\ response' = None
    /\ UNCHANGED <<called, outcomes, current, exited, inbox, sockets, service, background>>

CallFails ==
    /\ calling # None /\ response = None /\ Ended(current)
    /\ Settle({calling}, "rejected")
    /\ client' = [client EXCEPT ![current] = AfterEof(@)]
    /\ calling' = None
    /\ UNCHANGED <<called, current, exited, channels, service, background>>

(* did_decode_image (some of whose bitmaps may be missing) or              *)
(* did_fail_to_decode_image                                                *)
Get(g, id)  == client                  \* mutant
Take(g, id) == [client EXCEPT ![g].pending = {e \in @ : e[1] # id}]

HandleMessage(g) ==
    /\ Runs /\ inbox[g] # <<>> /\ client[g].state \in {"open", "eof"}
    /\ LET message == Head(inbox[g])
           images  == {e[2] : e \in {x \in client[g].pending : x[1] = message.id}}
       IN  /\ Settle(images, message.result)
           /\ client' = Take(g, message.id)
    /\ inbox' = [inbox EXCEPT ![g] = Tail(@)]
    /\ UNCHANGED <<called, calling, current, exited, response, sockets, service, background>>

(* The read hook reads the end of the stream after it has handled the      *)
(* messages before it; the shutdown is deferred.                           *)
ReadEof(g) ==
    /\ Runs /\ client[g].state = "open" /\ Ended(g) /\ inbox[g] = <<>>
    /\ client' = [client EXCEPT ![g] = AfterEof(@)]
    /\ UNCHANGED <<called, calling, outcomes, current, exited, channels, service, background>>

(* die() rejects all that is pending.  A message that is handled later     *)
(* finds no promise.                                                       *)
PendingOf(g)   == {e[2] : e \in client[g].pending}
RejectNone(g)  == UNCHANGED outcomes     \* mutant
RejectAll(g)   == Settle(PendingOf(g), "rejected")

shutdown(g) ==
    /\ Runs /\ client[g].state = "eof"
    /\ RejectAll(g)
    /\ client' = [client EXCEPT ![g] = NewClient("closed")]
    /\ inbox' = [inbox EXCEPT ![g] = <<>>]
    /\ UNCHANGED <<called, calling, current, exited, response, sockets, service, background>>

(* reinitialize_image_decoder(): set_client() drops the plugin's reference *)
(* to the old client.  A deferred shutdown keeps it; without one it is     *)
(* destroyed, and what is pending in it is never settled.                  *)
Dropped(c) == IF c.state = "open" THEN [c EXCEPT !.state = "destroyed"] ELSE c

connect_to_image_decoder ==
    /\ Runs /\ sockets # <<>>
    /\ current' = Head(sockets) /\ sockets' = Tail(sockets)
    /\ client' = [client EXCEPT ![current] = Dropped(@), ![Head(sockets)] = NewClient("open")]
    /\ UNCHANGED <<called, calling, outcomes, exited, response, inbox, service, background>>

WebContentExits ==
    /\ Runs
    /\ exited' = TRUE
    /\ UNCHANGED <<called, calling, outcomes, client, current, channels, service, background>>

-----------------------------------------------------------------------------
(* The main thread of ImageDecoder *)

Serves == service.alive /\ service.dying = "no" /\ service.entering = None
Send(id, result) ==
    inbox' = [inbox EXCEPT ![service.generation] = Append(@, [id |-> id, result |-> result])]

(* decode_image(): the buffer is invalid, or a job is made, which the      *)
(* background thread may take before it is entered in m_pending_jobs.      *)
RefuseImage ==
    /\ Serves /\ service.asked # None
    /\ Send(service.next_id, "rejected") /\ response' = service.next_id
    /\ service' = [service EXCEPT !.asked = None, !.next_id = @ + 1]
    /\ UNCHANGED <<webContent, sockets, background>>

make_decode_image_job ==
    /\ Serves /\ service.asked # None
    /\ service' = [service EXCEPT !.entering = service.next_id, !.next_id = @ + 1]
    /\ background' = [background EXCEPT !.queue = Append(@, <<service.next_id, service.asked>>)]
    /\ UNCHANGED <<webContent, channels>>

EnterJob ==
    /\ service.alive /\ service.entering # None
    /\ service' = [service EXCEPT !.asked = None, !.entering = None,
                                  !.pending_jobs = @ \cup {service.entering}]
    /\ response' = service.entering
    /\ UNCHANGED <<webContent, inbox, sockets, background>>

(* The completion or error callback of a job, deferred to this thread.     *)
(* After die() the connection is closed and nothing is sent.               *)
RunDeferred ==
    /\ service.alive /\ service.dying # "canceling" /\ service.entering = None
    /\ service.deferred # <<>>
    /\ LET d == Head(service.deferred) IN
          /\ service' = [service EXCEPT !.deferred = Tail(@), !.pending_jobs = @ \ {d.id}]
          /\ IF service.dying = "no" THEN Send(d.id, d.result) ELSE UNCHANGED inbox
    /\ UNCHANGED <<webContent, response, sockets, background>>

(* die(), when WebContent has closed the connection: every job is          *)
(* cancelled, one after the other, then m_pending_jobs is cleared.  If the *)
(* background thread has changed the table meanwhile, the iteration may    *)
(* miss any of them (or crash, which is ServiceDies).                      *)
DieBegins ==
    /\ Serves /\ exited
    /\ service' = [service EXCEPT !.dying = "canceling"]
    /\ UNCHANGED <<webContent, channels, background>>

DieCancels ==
    /\ service.alive /\ service.dying = "canceling"
    /\ \E id \in service.pending_jobs \ service.canceled :
          service' = [service EXCEPT !.canceled = @ \cup {id}]
    /\ UNCHANGED <<webContent, channels, background>>

DieClears ==
    /\ service.alive /\ service.dying = "canceling"
    /\ service.raced \/ service.pending_jobs \subseteq service.canceled
    /\ service' = [service EXCEPT !.dying = "done", !.pending_jobs = {}]
    /\ UNCHANGED <<webContent, channels, background>>

-----------------------------------------------------------------------------
(* The background thread of ImageDecoder *)

TakeJob ==
    /\ service.alive /\ background.running = None /\ background.queue # <<>>
    /\ background' = [queue |-> Tail(background.queue), running |-> Head(background.queue)]
    /\ UNCHANGED <<webContent, channels, service>>

(* The job is decoded, or fails.  The result of one that was not cancelled *)
(* goes to the main thread, the error callback of a cancelled one runs     *)
(* here and removes the job, also while die() goes through the jobs.       *)
RemoveHere(id) ==
    [service EXCEPT !.pending_jobs = @ \ {id}, !.raced = @ \/ service.dying = "canceling"]
Deferred(id, result) ==
    [service EXCEPT !.deferred = Append(@, [id |-> id, result |-> result])]

ReportHere(id, result) ==      \* mutant
    IF id \in service.canceled \/ result = "rejected" THEN RemoveHere(id) ELSE Deferred(id, result)

Report(id, result) ==
    IF id \in service.canceled THEN RemoveHere(id) ELSE Deferred(id, result)

FinishJob ==
    /\ service.alive /\ background.running # None
    /\ LET id == background.running[1] IN
          \E result \in {background.running[2], "rejected"} : service' = Report(id, result)
    /\ background' = [background EXCEPT !.running = None]
    /\ UNCHANGED <<webContent, channels>>

-----------------------------------------------------------------------------
(* The ImageDecoder process ends.  A tail of its messages is lost. *)
ServiceDies ==
    /\ service.alive
    /\ service' = [NewService(service.generation) EXCEPT !.alive = FALSE]
    /\ background' = NewBackground
    /\ \E n \in 0 .. Len(inbox[service.generation]) :
          inbox' = [inbox EXCEPT ![service.generation] = SubSeq(@, 1, n)]
    /\ response' \in {response, None}
    /\ UNCHANGED <<webContent, sockets>>

(* The browser: process_did_exit() and launch_image_decoder_server() *)
Relaunch ==
    /\ ~service.alive /\ service.generation < MaxGenerations
    /\ service' = NewService(service.generation + 1)
    /\ sockets' = Append(sockets, service.generation + 1)
    /\ UNCHANGED <<webContent, response, inbox, background>>

-----------------------------------------------------------------------------
WebContentStep ==
    \/ CallReturns \/ CallFails \/ connect_to_image_decoder
    \/ \E g \in Generations : HandleMessage(g) \/ ReadEof(g) \/ shutdown(g)

ServiceStep ==
    \/ RefuseImage \/ make_decode_image_job \/ EnterJob \/ RunDeferred
    \/ DieBegins \/ DieCancels \/ DieClears

Next ==
    \/ WebContentStep \/ ServiceStep \/ TakeJob \/ FinishJob
    \/ WebContentExits \/ ServiceDies \/ Relaunch
    \/ \E i \in Images : RejectAtOnce(i) \/ decode_image(i)

(* Each thread goes on, and a decoder ends. *)
Spec ==
    /\ Init /\ [][Next]_vars
    /\ WF_vars(WebContentStep) /\ WF_vars(ServiceStep) /\ WF_vars(TakeJob) /\ WF_vars(FinishJob)
    /\ WF_vars(connect_to_image_decoder)

-----------------------------------------------------------------------------
Outcome == Images \cup {"rejected"}
Ids     == Nat

TypeOK ==
    /\ called \subseteq Images /\ calling \in called \cup {None} /\ response \in Ids \cup {None}
    /\ outcomes \in [Images -> Seq(Outcome)]
    /\ client \in [Generations -> [state : {"none", "open", "eof", "closed", "destroyed"},
                                   pending : SUBSET (Ids \X Images)]]
    /\ inbox \in [Generations -> Seq([id : Ids, result : Outcome])]
    /\ current \in Generations /\ exited \in BOOLEAN /\ sockets \in Seq(Generations)
    /\ service.pending_jobs \subseteq Ids /\ service.canceled \subseteq Ids

(* A promise is settled at most once, though decode_image(), the two       *)
(* messages and die() all settle promises and Promise does not check, and  *)
(* it is resolved with its own image, though the ids of every process      *)
(* start at 0.                                                             *)
SettledOnce == \A i \in Images : outcomes[i] \in {<<>>, <<i>>, <<"rejected">>}

(* While the connection is up, whatever WebContent waits for is still      *)
(* being worked on: there is a job for every pending promise, or an answer *)
(* to it, although the answer can be sent before the promise is entered.   *)
PendingIsServed ==
    \A g \in Generations :
        client[g].state = "open" /\ ~Ended(g) /\ ~exited =>
            \A e \in client[g].pending :
                \/ e[1] \in service.pending_jobs
                \/ \E k \in DOMAIN inbox[g] : inbox[g][k].id = e[1]

(* Ids, promises and jobs agree across the two processes and a restart.    *)
PromisesTracked == TypeOK /\ SettledOnce /\ PendingIsServed

Working  == {j[1] : j \in {background.queue[k] : k \in DOMAIN background.queue}
                            \cup ({background.running} \ {None})}
Reported == {service.deferred[k].id : k \in DOMAIN service.deferred}

(* m_pending_jobs is what ImageDecoder works on.  While the client is      *)
(* connected it holds the jobs that wait, run or have their callback to    *)
(* come, and no other, although a job may be over before it is entered and *)
(* both threads remove jobs.  And when die() is through, whatever is left  *)
(* of the jobs is cancelled, unless the background thread has changed the  *)
(* table under its iteration.                                              *)
JobsTracked ==
    /\ service.alive /\ service.dying = "no" =>
          /\ service.pending_jobs \cup ({service.entering} \ {None}) = Working \cup Reported
          /\ Working \cap Reported = {}
    /\ service.dying = "done" /\ ~service.raced => Working \subseteq service.canceled

(* Every promise is settled, also when ImageDecoder dies, unless WebContent *)
(* ends or set_client() has destroyed the client object that holds it.     *)
PromisesSettle ==
    \A i \in Images : i \in called ~>
        \/ outcomes[i] # <<>> \/ exited
        \/ \E g \in Generations : client[g].state = "destroyed" /\ i \in PendingOf(g)

=============================================================================

--------------------------- MODULE RequestProtocol ---------------------------
(***************************************************************************)
(* Network requests: the ResourceLoader of a WebContent process, the       *)
(* Request objects of LibRequests and the RequestServer process.  A        *)
(* request is answered over two channels: request_started (it carries the  *)
(* read end of a pipe), headers_became_available and request_finished come *)
(* over the IPC connection, the body comes through the pipe.  Messages     *)
(* keep their order, the answer to the synchronous stop_request may        *)
(* overtake the others (MessageChannel); the two channels are not ordered. *)
(*                                                                         *)
(* A failed VERIFY ends its process: `crash` names the function.  What     *)
(* happens after that is not modelled.                                     *)
(***************************************************************************)
EXTENDS Integers, Sequences, FiniteSets

CONSTANTS
    Requests,           \* the request ids
    Buffered,           \* those of ResourceLoader::load(), the others are unbuffered
    MayBeMalformed,     \* those whose URL may be invalid
    MayTimeOut,         \* those loaded with a timeout (only load() takes one)
    MayBeRefused,       \* those whose response may have a status of 400 to 599
    MainResources,      \* those of load() that are for a main resource
    MayDie,             \* may the RequestServer process be killed?
    LongBodies,         \* the requests whose body takes more than one write
    MaxChunks,          \* bound: writes of body data per long body
    PipeSize,           \* the chunks a pipe holds
    MaxPreconnects,     \* bound: calls of preconnect()
    None

ASSUME RequestAssumption ==
    /\ IsFiniteSet(Requests)
    /\ MayTimeOut \subseteq Buffered /\ Buffered \subseteq Requests
    /\ MayBeRefused \subseteq Requests /\ MainResources \subseteq Buffered
    /\ MayBeMalformed \subseteq Requests /\ LongBodies \subseteq Requests /\ MayDie \in BOOLEAN
    /\ {MaxChunks, PipeSize, MaxPreconnects} \subseteq Nat
    /\ MaxChunks > 0 /\ PipeSize > 0 /\ None \notin Requests \cup {"request", "connect_only"}

VARIABLES
    request,        \* the Request objects, and the loader's use of them
    pendingLoads,   \* ResourceLoader::m_pending_loads
    waiting,        \* the request whose stop() waits for its answer, or None
    response,       \* is that answer on its way?
    toServer,       \* the messages on their way to RequestServer
    toClient,       \* the asynchronous messages on their way to WebContent
    server,         \* the ActiveRequests
    writing,        \* the request whose on_data_received() spins on a full pipe
    preconnects,    \* the calls of ensure_connection() so far
    alive,          \* does the RequestServer process run?
    crash,          \* the function whose VERIFY failed, or "none"
    dropped         \* the requests that the server forgot without request_finished

clientVars == <<request, pendingLoads, waiting, preconnects>>
serverVars == <<server, writing, alive, dropped>>
channels   == <<toServer, toClient, response>>
vars       == <<clientVars, serverVars, channels, crash>>

(* A Request: `live` says that the callbacks and m_internal_stream_data    *)
(* are set, `known` that it is in RequestClient::m_requests, `active` that *)
(* it is in ResourceLoader::m_active_requests, `fd` that m_fd is set;      *)
(* `cleanup` is 3 while the callback given to load() runs, and then counts *)
(* the deferred invocations that will remove the request from there.       *)
(* `read` counts the chunks given to on_data_available, and `refused` says *)
(* that the response code it was told is one of 400 to 599.                *)
NewRequest == [loaded |-> FALSE, valid |-> TRUE, live |-> FALSE, known |-> FALSE, active |-> FALSE,
               fd |-> FALSE, eof |-> FALSE, done |-> FALSE, error |-> FALSE,
               called |-> FALSE, headers |-> 0, refused |-> FALSE, read |-> 0, cleanup |-> 0,
               timer |-> FALSE, outcomes |-> <<>>]

(* An ActiveRequest; `refused` is what curl will say of the response code. *)
(* It, `written` and `ended` are kept after the ActiveRequest is gone.     *)
NewServer == [kind |-> None, got_all_headers |-> FALSE, refused |-> FALSE, written |-> 0,
              ended |-> "no"]

Init ==
    /\ request = [r \in Requests |-> NewRequest]
    /\ pendingLoads = 0
    /\ server = [r \in Requests |-> NewServer]
    /\ waiting = None /\ writing = None
    /\ toServer = <<>> /\ toClient = <<>> /\ response = FALSE
    /\ preconnects = 0 /\ alive = TRUE /\ crash = "none" /\ dropped = {}

(* `error` is the network error of request_finished; in the message with   *)
(* the headers it says that the response code is one of 400 to 599.        *)
Message(t, r)     == [type |-> t, id |-> r, error |-> FALSE]
Finished(r, error) == [type |-> "request_finished", id |-> r, error |-> error]

(* The ends of the pipe of r.  stop() destroys the stream, which closes    *)
(* the read end; the destructor of ActiveRequest closes the write end.     *)
ReaderOpen(r) ==
    \/ request[r].live /\ request[r].fd
    \/ \E i \in DOMAIN toClient : toClient[i] = Message("request_started", r)
WriterOpen(r) == server[r].kind = "request"
InPipe(r)     == server[r].written - request[r].read

-----------------------------------------------------------------------------
(* WebContent.  Its only thread is blocked while stop() waits. *)

ClientRuns == crash = "none" /\ waiting = None

Post(t, r) == toServer' = IF alive THEN Append(toServer, Message(t, r)) ELSE <<>>

(* load() or load_unbuffered(), start_network_request() and start_request() *)
Load(r) ==
    /\ ClientRuns
    /\ ~request[r].loaded
    /\ \E valid \in IF r \in MayBeMalformed THEN BOOLEAN ELSE {TRUE} :
          request' = [request EXCEPT ![r] = [@ EXCEPT !.loaded = TRUE, !.valid = valid, !.live = TRUE,
                                                      !.known = TRUE, !.active = TRUE,
                                                      !.timer = r \in MayTimeOut]]
    /\ pendingLoads' = pendingLoads + 1
    /\ Post("start_request", r)
    /\ UNCHANGED <<waiting, preconnects, serverVars, toClient, response, crash>>

(* What on_buffered_request_finished of load() makes an error, and what    *)
(* protocol_complete of load_unbuffered() does: the latter leaves the      *)
(* response code to its user.                                              *)
LoadFailed(q, r) ==
    \/ q.error
    \/ r \in Buffered /\ q.refused /\ (q.read = 0 \/ r \notin MainResources)

(* The loader's callback.  That of load() begins: a nested event loop in   *)
(* it runs everything else, and only when it has returned is               *)
(* finish_network_request() deferred.  load_unbuffered() calls             *)
(* finish_network_request() before its callback, which does not spin.      *)
Complete(q, r) ==
    [q EXCEPT !.called = TRUE,
              !.outcomes = Append(@, IF LoadFailed(q, r) THEN "error" ELSE "success"),
              !.cleanup = IF r \in Buffered THEN 3 ELSE 1]

(* The ScopeGuard of on_buffered_request_finished. *)
CallbackReturns(r) ==
    /\ ClientRuns
    /\ request[r].cleanup = 3
    /\ request' = [request EXCEPT ![r].cleanup = 2]
    /\ UNCHANGED <<pendingLoads, waiting, preconnects, serverVars, channels, crash>>

(* InternalStreamData::on_finish: the user's callback once, at the end of  *)
(* the stream.                                                             *)
FinishUnread(q) == ~q.called      \* mutant
FinishNow(q)    == ~q.called /\ q.eof

OnFinish(q, r) ==
    /\ request' = [request EXCEPT ![r] = IF FinishNow(q) THEN Complete(q, r) ELSE q]
    /\ pendingLoads' = pendingLoads - (IF FinishNow(q) /\ r \notin Buffered THEN 1 ELSE 0)

Delivered(t) ==
    /\ ClientRuns
    /\ toClient # <<>> /\ Head(toClient).type = t
    /\ toClient' = Tail(toClient)
    /\ UNCHANGED <<waiting, preconnects, serverVars, toServer, response>>

(* set_request_fd() dereferences m_internal_stream_data, which stop() has  *)
(* cleared.                                                                *)
request_started ==
    /\ Delivered("request_started")
    /\ LET r == Head(toClient).id IN
          IF ~request[r].known THEN UNCHANGED <<request, crash>>
          ELSE /\ request' = [request EXCEPT ![r].fd = TRUE]
               /\ crash' = IF request[r].live THEN crash ELSE "set_request_fd"
    /\ UNCHANGED pendingLoads

headers_became_available ==
    /\ Delivered("headers_became_available")
    /\ LET r == Head(toClient).id IN
          request' = IF request[r].known /\ request[r].live
                     THEN [request EXCEPT ![r].headers = @ + 1, ![r].refused = Head(toClient).error]
                     ELSE request
    /\ UNCHANGED <<pendingLoads, crash>>

(* did_finish(), then the request leaves m_requests; that it leaves only   *)
(* after a callback that spins could be seen by nobody but stop(), which   *)
(* fails then.  on_finish asks read_stream for its end, which is null when *)
(* the request never started.                                              *)
DidFinishUnmarked(q, error) == [q EXCEPT !.known = FALSE, !.error = error]     \* mutant
DidFinish(q, error) == [q EXCEPT !.known = FALSE, !.done = TRUE, !.error = error]

request_finished ==
    /\ Delivered("request_finished")
    /\ LET r == Head(toClient).id
           q == request[r]
       IN  IF q.known /\ q.live
           THEN /\ OnFinish(DidFinish(q, Head(toClient).error), r)
                /\ crash' = IF q.fd THEN crash ELSE "on_finish"
           ELSE /\ request' = [request EXCEPT ![r].known = FALSE]
                /\ UNCHANGED <<pendingLoads, crash>>

(* The read notifier's on_activation: reads until the pipe is empty or at  *)
(* its end.  It is one step: what the server writes during the loop is     *)
(* read as if it had been written before.  There is no guard on the pipe:  *)
(* a nested event loop polls again before a queued activation is handled,  *)
(* so one may come when everything has been read and the notifier closed.  *)
ReadAll(q, r) == [q EXCEPT !.read = server[r].written, !.eof = ~WriterOpen(r)]

ReadPipe(r) ==
    /\ ClientRuns
    /\ request[r].live /\ request[r].fd
    /\ LET q == ReadAll(request[r], r) IN
          IF q.done THEN OnFinish(q, r)
          ELSE request' = [request EXCEPT ![r] = q] /\ UNCHANGED pendingLoads
    /\ UNCHANGED <<waiting, preconnects, serverVars, channels, crash>>

(* The request is destroyed with its last reference, which may be the      *)
(* timer's.                                                                *)
Unreferenced(q) == [q EXCEPT !.live = q.timer]

(* finish_network_request() and the removal that it defers *)
RunCleanup(r) ==
    /\ ClientRuns
    /\ request[r].cleanup \in {1, 2}
    /\ IF request[r].cleanup = 2
       THEN /\ pendingLoads' = pendingLoads - 1
            /\ request' = [request EXCEPT ![r].cleanup = 1]
            /\ UNCHANGED crash
       ELSE /\ request' = [request EXCEPT ![r] = Unreferenced([@ EXCEPT !.cleanup = 0, !.active = FALSE])]
            /\ crash' = IF request[r].active THEN crash ELSE "finish_network_request"
            /\ UNCHANGED pendingLoads
    /\ UNCHANGED <<waiting, preconnects, serverVars, channels>>

(* The timer of load() calls stop() and then the timeout callback.  The    *)
(* timer is not stopped when the request finishes.                         *)
Stopped(q) == [q EXCEPT !.live = FALSE, !.timer = FALSE]
TimedOut(q) == [q EXCEPT !.outcomes = Append(@, "timeout")]

TimeOut(r) ==
    /\ ClientRuns
    /\ request[r].timer /\ request[r].cleanup # 3
    /\ IF ~request[r].known
       THEN /\ request' = [request EXCEPT ![r] = TimedOut(Stopped(@))]
            /\ UNCHANGED <<waiting, toServer>>
       ELSE /\ request' = [request EXCEPT ![r] = Stopped(@)]
            /\ waiting' = r
            /\ Post("stop_request", r)
    /\ UNCHANGED <<pendingLoads, preconnects, serverVars, toClient, response, crash>>

(* The timer fires in a nested event loop of the callback: stop() destroys *)
(* m_internal_stream_data, whose on_finish is being executed, and          *)
(* Function::clear() verifies that this does not happen.                   *)
TimeOutInCallback(r) ==
    /\ ClientRuns
    /\ request[r].timer /\ request[r].cleanup = 3
    /\ crash' = "stop"
    /\ UNCHANGED <<clientVars, serverVars, channels>>

StopAnswered ==
    /\ crash = "none" /\ waiting # None /\ response
    /\ request' = [request EXCEPT ![waiting] = TimedOut(@)]
    /\ waiting' = None /\ response' = FALSE
    /\ UNCHANGED <<pendingLoads, preconnects, serverVars, toServer, toClient, crash>>

(* send_sync() verifies that there is an answer. *)
StopFails ==
    /\ crash = "none" /\ waiting # None /\ ~response /\ ~alive
    /\ crash' = "send_sync"
    /\ UNCHANGED <<clientVars, serverVars, channels>>

-----------------------------------------------------------------------------
(* RequestServer.  Its only thread is busy while on_data_received() spins. *)

ServerRuns == crash = "none" /\ alive /\ writing = None

Received(t) ==
    /\ ServerRuns
    /\ toServer # <<>> /\ Head(toServer).type = t
    /\ toServer' = Tail(toServer)
    /\ UNCHANGED <<clientVars, alive, writing, crash>>

(* A request that was given an ActiveRequest leaves m_active_requests      *)
(* without an answer when another one takes its id.                        *)
Replaced(r) == IF server[r].kind = "request" THEN {r} ELSE {}

start_request ==
    /\ Received("start_request")
    /\ LET r == Head(toServer).id IN
          \/ /\ ~request[r].valid
             /\ toClient' = Append(toClient, Finished(r, TRUE))
             /\ UNCHANGED <<server, dropped>>
          \/ /\ request[r].valid
             /\ dropped' = dropped \cup {r}             \* no curl handle or no pipe
             /\ UNCHANGED <<server, toClient>>
          \/ /\ request[r].valid
             /\ toClient' = Append(toClient, Message("request_started", r))
             /\ \E refused \in IF r \in MayBeRefused THEN BOOLEAN ELSE {FALSE} :
                   server' = [server EXCEPT ![r] = [NewServer EXCEPT !.kind = "request",
                                                                     !.refused = refused]]
             /\ UNCHANGED dropped
    /\ UNCHANGED response

GetActive(r)  == server                                   \* mutant
TakeActive(r) == [server EXCEPT ![r].kind = None]

stop_request ==
    /\ Received("stop_request")
    /\ LET r == Head(toServer).id IN
          /\ server' = TakeActive(r)
          /\ dropped' = dropped \cup Replaced(r)
    /\ response' = TRUE
    /\ UNCHANGED toClient

(* preconnect() and ensure_connection().  The id of a connect-only request *)
(* is any i32; r is the one that it hits.  The message changes nothing     *)
(* before it is handled and WebContent may send it at any time, so sending *)
(* and handling it are one step.                                           *)
ensure_connection(r) ==
    /\ ServerRuns
    /\ preconnects < MaxPreconnects
    /\ preconnects' = preconnects + 1
    /\ server' = [server EXCEPT ![r].kind = "connect_only"]
    /\ dropped' = dropped \cup Replaced(r)
    /\ UNCHANGED <<request, pendingLoads, waiting, channels, alive, writing, crash>>

(* flush_headers_if_needed() *)
Headers(r) ==
    IF server[r].got_all_headers THEN <<>>
    ELSE <<[type |-> "headers_became_available", id |-> r, error |-> server[r].refused]>>

(* curl has body data.  A write to a pipe that nobody can read fails and   *)
(* is not expected to; a write to a full one is tried again and again.     *)
Fits(r)      == InPipe(r) < PipeSize

Write(r) ==
    IF ~ReaderOpen(r)
    THEN crash' = "on_data_received" /\ UNCHANGED <<server, writing>>
    ELSE /\ server' = [server EXCEPT ![r].got_all_headers = TRUE,
                                     ![r].written = IF Fits(r) THEN @ + 1 ELSE @]
         /\ writing' = IF Fits(r) THEN None ELSE r
         /\ UNCHANGED crash

on_data_received(r) ==
    /\ ServerRuns
    /\ server[r].kind = "request" /\ server[r].written < (IF r \in LongBodies THEN MaxChunks ELSE 1)
    /\ toClient' = toClient \o Headers(r)
    /\ Write(r)
    /\ UNCHANGED <<clientVars, toServer, response, alive, dropped>>

RetryWrite ==
    /\ crash = "none" /\ alive /\ writing # None
    /\ Write(writing)
    /\ UNCHANGED <<clientVars, channels, alive, dropped>>

(* check_active_requests(): curl reports that a transfer has ended. *)
FinishMessages(r, error) == Headers(r) \o <<Finished(r, error)>>

check_active_requests(r) ==
    /\ ServerRuns
    /\ server[r].kind # None
    /\ IF server[r].kind = "connect_only"
       THEN server' = [server EXCEPT ![r].kind = None] /\ UNCHANGED toClient
       ELSE \E error \in BOOLEAN :
               /\ toClient' = toClient \o FinishMessages(r, error)
               /\ server' = [server EXCEPT ![r].kind = None, ![r].got_all_headers = TRUE,
                                           ![r].ended = IF error THEN "error" ELSE "success"]
    /\ UNCHANGED <<clientVars, toServer, response, writing, alive, dropped, crash>>

(* The process ends: its pipes are closed, the messages for it and a tail  *)
(* of those it has posted are lost.  RequestClient::die() does nothing.    *)
ServerDies ==
    /\ MayDie /\ crash = "none" /\ alive
    /\ alive' = FALSE /\ writing' = None /\ toServer' = <<>>
    /\ server' = [r \in Requests |-> [server[r] EXCEPT !.kind = None, !.got_all_headers = FALSE]]
    /\ \E n \in 0 .. Len(toClient) : toClient' = SubSeq(toClient, 1, n)
    /\ response' \in {response, FALSE}
    /\ UNCHANGED <<clientVars, dropped, crash>>

-----------------------------------------------------------------------------
ClientStep ==
    \/ request_started \/ headers_became_available \/ request_finished
    \/ StopAnswered \/ StopFails
    \/ \E r \in Requests : ReadPipe(r) \/ CallbackReturns(r) \/ RunCleanup(r)

ServerStep ==
    \/ start_request \/ stop_request \/ RetryWrite
    \/ \E r \in Requests : check_active_requests(r)

Next ==
    \/ ClientStep \/ ServerStep
    \/ ServerDies
    \/ \E r \in Requests :
          \/ Load(r) \/ TimeOut(r) \/ TimeOutInCallback(r)
          \/ on_data_received(r) \/ ensure_connection(r)

(* Both event loops go on, curl ends every transfer and callbacks return. *)
Fairness ==
    /\ WF_vars(StopAnswered \/ StopFails) /\ WF_vars(RetryWrite)
    /\ \A r \in Requests :
          /\ WF_vars(ReadPipe(r)) /\ WF_vars(CallbackReturns(r)) /\ WF_vars(RunCleanup(r))
          /\ WF_vars(check_active_requests(r))
    /\ WF_vars(request_started \/ headers_became_available \/ request_finished)
    /\ WF_vars(start_request \/ stop_request)

Spec == Init /\ [][Next]_vars /\ Fairness

-----------------------------------------------------------------------------
RequestType ==
    [loaded : BOOLEAN, valid : BOOLEAN, live : BOOLEAN, known : BOOLEAN, active : BOOLEAN,
     fd : BOOLEAN, eof : BOOLEAN, done : BOOLEAN, error : BOOLEAN, called : BOOLEAN,
     headers : 0 .. 1, refused : BOOLEAN, read : 0 .. MaxChunks, cleanup : 0 .. 3, timer : BOOLEAN,
     outcomes : Seq({"success", "error", "timeout"})]

ServerType == [kind : {None, "request", "connect_only"}, got_all_headers : BOOLEAN,
               refused : BOOLEAN, written : 0 .. MaxChunks, ended : {"no", "success", "error"}]

TypeOK ==
    /\ request \in [Requests -> RequestType] /\ server \in [Requests -> ServerType]
    /\ pendingLoads \in 0 .. Cardinality(Requests)
    /\ \A r \in Requests : InPipe(r) \in 0 .. PipeSize
    /\ waiting \in Requests \cup {None} /\ writing \in Requests \cup {None}
    /\ dropped \subseteq Requests /\ {alive, response} \subseteq BOOLEAN
    /\ crash \in {"none", "set_request_fd", "on_finish", "on_data_received", "send_sync", "stop"}

(* A load that ends has had its whole response: the headers once and every *)
(* chunk that curl gave to the server, although the body and               *)
(* request_finished come over two channels.  Its outcome is the right one: *)
(* success if curl succeeded, except that load() treats a response of 400  *)
(* to 599 as an error unless it is the main resource and has a body - the  *)
(* body that the server received, not what had been read of it by then.    *)
FinishIsComplete ==
    \A r \in Requests : request[r].called =>
        /\ request[r].headers = 1
        /\ request[r].read = server[r].written
        /\ server[r].ended # "no"
        /\ request[r].outcomes[1] = "success" <=>
             /\ server[r].ended = "success"
             /\ r \in Buffered /\ server[r].refused =>
                  r \in MainResources /\ server[r].written > 0

(* The user of load() gets its success or error callback at most once and  *)
(* never after the timeout callback, whatever was queued or on its way     *)
(* when stop() was called.                                                 *)
CallbacksInOrder ==
    \A r \in Requests :
        /\ \A i, j \in DOMAIN request[r].outcomes :
              request[r].outcomes[i] # "timeout" /\ request[r].outcomes[j] # "timeout" => i = j
        /\ \A i \in DOMAIN request[r].outcomes :
              request[r].outcomes[i] = "timeout" => i = Len(request[r].outcomes)

(* When stop() has returned, RequestServer has no transfer for the request *)
(* any more, and never starts one: start_request was handled before.       *)
StopReleases ==
    \A r \in Requests :
        "timeout" \in {request[r].outcomes[i] : i \in DOMAIN request[r].outcomes} =>
            server[r].kind # "request" /\ Message("start_request", r) \notin
                {toServer[i] : i \in DOMAIN toServer}

(* m_pending_loads counts the active requests whose finish_network_request *)
(* has not run.                                                            *)
PendingLoadsExact ==
    pendingLoads = Cardinality({r \in Requests : request[r].active /\ request[r].cleanup # 1})

(* What the loader reports of its requests is right: the response is whole, *)
(* the callbacks come once and in order, and the count is exact.           *)
LoadsAccounted == TypeOK /\ FinishIsComplete /\ CallbacksInOrder /\ PendingLoadsExact

(* No assertion on the way of a request fails: VERIFY_NOT_REACHED() after  *)
(* the write of on_data_received(), the VERIFY of OwnPtr::operator-> in    *)
(* set_request_fd() and on_finish, the VERIFY of send_sync() and that of   *)
(* Function::clear() under stop().                                         *)
AssertionsHold == crash = "none"

(* WebContent waits for the answer to stop_request, which RequestServer    *)
(* will not read before WebContent has read the pipe it spins on.          *)
Deadlocked == waiting # None /\ writing # None

(* Every load leaves the loader's set of active requests, and the server's *)
(* spinning ends.  The exceptions are those of the code: the request timed *)
(* out, RequestServer dropped it without an answer, died or was caught in  *)
(* the deadlock, or an assertion failed.                                   *)
LoadsEnd ==
    /\ \A r \in Requests : request[r].loaded ~>
         \/ ~request[r].active
         \/ r \in dropped \/ ~request[r].live
         \/ ~alive \/ Deadlocked \/ crash # "none"
    /\ (writing # None) ~> (writing = None \/ Deadlocked \/ crash # "none")

=============================================================================

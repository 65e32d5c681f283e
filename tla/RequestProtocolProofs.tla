------------------------ MODULE RequestProtocolProofs ------------------------
(***************************************************************************)
(* Proofs about RequestProtocol, for any finite set of requests, bodies of *)
(* any length, any size of the pipes and any number of preconnects.        *)
(***************************************************************************)
EXTENDS RequestProtocol, FiniteSetTheorems, SequenceTheorems, TLAPS

-----------------------------------------------------------------------------
(***************************************************************************)
(* The messages on their way.                                              *)
(***************************************************************************)
ServerMessages == [type : {"start_request", "stop_request"}, id : Requests, error : {FALSE}]

ClientMessages ==
    [type : {"request_started"}, id : Requests, error : {FALSE}]
    \cup [type : {"headers_became_available", "request_finished"}, id : Requests, error : BOOLEAN]

Before ==
    {<<"start_request", "stop_request">>,
     <<"request_started", "headers_became_available">>, <<"request_started", "request_finished">>,
     <<"headers_became_available", "request_finished">>}

(* The messages of a request keep the order of its life, so none is twice  *)
(* in a channel.                                                           *)
Ordered(ch) ==
    \A i, j \in DOMAIN ch : i < j /\ ch[i].id = ch[j].id => <<ch[i].type, ch[j].type>> \in Before

Has(ch, m) == \E i \in DOMAIN ch : ch[i] = m

Refused(r)     == [type |-> "headers_became_available", id |-> r, error |-> TRUE]
Accepted(r)    == [type |-> "headers_became_available", id |-> r, error |-> FALSE]
HeadersOf(r)   == IF server[r].refused THEN Refused(r) ELSE Accepted(r)
Failed(r)      == Finished(r, TRUE)
Succeeded(r)   == Finished(r, FALSE)

Start(r)       == Has(toServer, Message("start_request", r))
Stop(r)        == Has(toServer, Message("stop_request", r))
Started(r)     == Has(toClient, Message("request_started", r))
HeadersMsg(r)  == Has(toClient, Refused(r)) \/ Has(toClient, Accepted(r))
FailedMsg(r)   == Has(toClient, Failed(r))
SucceededMsg(r) == Has(toClient, Succeeded(r))
NoAnswer(r)    == ~Started(r) /\ ~HeadersMsg(r) /\ ~FailedMsg(r) /\ ~SucceededMsg(r)

-----------------------------------------------------------------------------
(***************************************************************************)
(* The inductive invariant, by the phases of a request.                    *)
(***************************************************************************)
Bound(r) == IF r \in LongBodies THEN MaxChunks ELSE 1

Fields == {"loaded", "valid", "live", "known", "active", "fd", "eof", "done", "error", "called",
           "headers", "refused", "read", "cleanup", "timer", "outcomes"}
Same(t, q, changed) == \A f \in Fields \ changed : t[f] = q[f]

(* The server will not write to the pipe of r any more. *)
Over(r) == server[r].kind # "request" /\ ~Start(r)

Fresh(r) == ~request[r].loaded =>
    /\ request[r] = NewRequest /\ waiting # r
    /\ ~Start(r) /\ ~Stop(r) /\ NoAnswer(r)
    /\ server[r].kind # "request" /\ server[r].written = 0

Starting(r) == Start(r) =>
    /\ ~request[r].fd /\ request[r].headers = 0 /\ NoAnswer(r)
    /\ server[r].kind # "request" /\ server[r].written = 0

Serving(r) == server[r].kind = "request" =>
    /\ request[r].loaded /\ request[r].valid /\ alive /\ ~Start(r)
    /\ ~FailedMsg(r) /\ ~SucceededMsg(r)
    /\ ~server[r].got_all_headers /\ crash = "none" => request[r].headers = 0 /\ ~HeadersMsg(r)
    /\ server[r].got_all_headers /\ request[r].known /\ request[r].live =>
         request[r].headers = 1 \/ HeadersMsg(r)

Ending(r) ==
    /\ FailedMsg(r) /\ request[r].valid => server[r].ended = "error"
    /\ SucceededMsg(r) /\ request[r].valid => server[r].ended = "success"
    /\ FailedMsg(r) \/ SucceededMsg(r) =>
         /\ Over(r)
         /\ request[r].valid /\ request[r].known /\ request[r].live =>
              request[r].headers = 1 \/ HeadersMsg(r)

Answered(r) ==
    /\ HeadersMsg(r) => request[r].headers = 0
    /\ Started(r) => request[r].valid
    /\ request[r].fd => request[r].valid /\ ~Start(r)
    /\ request[r].loaded /\ ~request[r].known => Over(r)
    /\ request[r].done /\ request[r].valid =>
         request[r].headers = 1 /\ server[r].ended = (IF request[r].error THEN "error" ELSE "success")

Finishing(r) ==
    /\ request[r].done => ~request[r].known
    /\ request[r].called => request[r].done /\ request[r].eof
    /\ request[r].eof => request[r].fd /\ Over(r) /\ request[r].read = server[r].written
    /\ ~request[r].fd => request[r].read = 0

(* What the user has been told. *)
Verdict(q, r) == IF LoadFailed(q, r) THEN "error" ELSE "success"

Told(r) ==
    \/ ~request[r].called /\ request[r].outcomes = <<>>
    \/ request[r].called /\ request[r].outcomes = <<Verdict(request[r], r)>>
    \/ request[r].called /\ request[r].outcomes = <<Verdict(request[r], r), "timeout">> /\ ~request[r].live
    \/ ~request[r].called /\ request[r].outcomes = <<"timeout">> /\ ~request[r].live /\ Over(r)

Settled(r) ==
    /\ Told(r)
    /\ request[r].timer => request[r].live
    /\ waiting = r => ~request[r].called /\ request[r].outcomes = <<>> /\ ~request[r].live

Cleaning(r) ==
    /\ request[r].cleanup # 0 => request[r].called /\ request[r].active
    /\ request[r].loaded /\ ~request[r].called => request[r].active

RInv(r) ==
    /\ Fresh(r) /\ Starting(r) /\ Serving(r) /\ Ending(r) /\ Answered(r) /\ Finishing(r)
    /\ Settled(r) /\ Cleaning(r)

(* The synchronous call, and the write that spins. *)
Stopping ==
    /\ \A r \in Requests : Stop(r) => waiting = r /\ ~response
    /\ response => waiting \in Requests /\ Over(waiting)

Spinning == writing # None =>
    /\ server[writing].kind = "request" /\ server[writing].got_all_headers
    /\ server[writing].written < Bound(writing)

Channels ==
    /\ toServer \in Seq(ServerMessages) /\ Ordered(toServer)
    /\ toClient \in Seq(ClientMessages) /\ Ordered(toClient)

IInv ==
    /\ TypeOK /\ Channels /\ Stopping /\ Spinning /\ PendingLoadsExact
    /\ \A r \in Requests : RInv(r)

-----------------------------------------------------------------------------
(***************************************************************************)
(* Channels.                                                               *)
(***************************************************************************)

(* A posted message is the last one of its channel. *)
LEMMA AppendFact ==
    ASSUME NEW S, NEW ch \in Seq(S), NEW m \in S
    PROVE  /\ Append(ch, m) \in Seq(S)
           /\ \A x : Has(Append(ch, m), x) <=> Has(ch, x) \/ x = m
<1>1. /\ Append(ch, m) \in Seq(S) /\ DOMAIN Append(ch, m) = 1 .. Len(ch) + 1
      /\ DOMAIN ch = 1 .. Len(ch) /\ Len(ch) \in Nat
  OBVIOUS
<1>2. ASSUME NEW x, Has(Append(ch, m), x) PROVE Has(ch, x) \/ x = m
  BY <1>1, <1>2 DEF Has
<1>3. ASSUME NEW x, Has(ch, x) PROVE Has(Append(ch, m), x)
  BY <1>1, <1>3 DEF Has
<1>4. Has(Append(ch, m), m)
  <2>1. Append(ch, m)[Len(ch) + 1] = m /\ Len(ch) + 1 \in 1 .. Len(ch) + 1
    BY <1>1
  <2> QED
    BY <2>1, <1>1 DEF Has
<1> QED
  BY <1>1, <1>2, <1>3, <1>4

(* A channel stays in order when the messages of the same request that are *)
(* in it belong before the new one.                                        *)
LEMMA AppendOrdered ==
    ASSUME NEW S, NEW ch \in Seq(S), NEW m \in S, Ordered(ch),
           \A x : Has(ch, x) /\ x.id = m.id => <<x.type, m.type>> \in Before
    PROVE  Ordered(Append(ch, m))
<1>1. /\ DOMAIN Append(ch, m) = 1 .. Len(ch) + 1 /\ DOMAIN ch = 1 .. Len(ch) /\ Len(ch) \in Nat
      /\ Append(ch, m)[Len(ch) + 1] = m /\ \A i \in 1 .. Len(ch) : Append(ch, m)[i] = ch[i]
  OBVIOUS
<1> SUFFICES ASSUME NEW i \in 1 .. Len(ch) + 1, NEW j \in 1 .. Len(ch) + 1, i < j,
                    Append(ch, m)[i].id = Append(ch, m)[j].id
             PROVE  <<Append(ch, m)[i].type, Append(ch, m)[j].type>> \in Before
  BY <1>1 DEF Ordered
<1>2. i \in 1 .. Len(ch) /\ Append(ch, m)[i] = ch[i] /\ Has(ch, ch[i])
  BY <1>1 DEF Has
<1>3. CASE j \in 1 .. Len(ch)
  <2>1. Append(ch, m)[j] = ch[j] /\ ch[i].id = ch[j].id
    BY <1>1, <1>2, <1>3
  <2> QED
    BY <2>1, <1>1, <1>2, <1>3 DEF Ordered
<1>4. CASE j = Len(ch) + 1
  <2>1. Append(ch, m)[j] = m /\ ch[i].id = m.id
    BY <1>1, <1>2, <1>4
  <2> QED
    BY <2>1, <1>2
<1>5. j \in 1 .. Len(ch) \/ j = Len(ch) + 1
  BY <1>1
<1> QED
  BY <1>3, <1>4, <1>5

(* A message that is taken from an ordered channel is gone, and what is    *)
(* left of its request belongs after it.                                   *)
LEMMA TailFact ==
    ASSUME NEW S, NEW ch \in Seq(S), ch # <<>>, Ordered(ch)
    PROVE  /\ Tail(ch) \in Seq(S) /\ Ordered(Tail(ch))
           /\ Head(ch) \in S /\ Has(ch, Head(ch))
           /\ \A x : Has(Tail(ch), x) <=> Has(ch, x) /\ x # Head(ch)
           /\ \A x : Has(Tail(ch), x) /\ x.id = Head(ch).id => <<Head(ch).type, x.type>> \in Before
<1>1. /\ Tail(ch) \in Seq(S) /\ Head(ch) \in S /\ Head(ch) = ch[1]
      /\ DOMAIN ch = 1 .. Len(ch) /\ Len(ch) \in Nat /\ Len(ch) > 0
      /\ DOMAIN Tail(ch) = 1 .. Len(ch) - 1
      /\ \A i \in 1 .. Len(ch) - 1 : Tail(ch)[i] = ch[i + 1]
  OBVIOUS
<1>2. Has(ch, Head(ch))
  BY <1>1 DEF Has
<1>3. Ordered(Tail(ch))
  <2> SUFFICES ASSUME NEW i \in 1 .. Len(ch) - 1, NEW j \in 1 .. Len(ch) - 1, i < j,
                      ch[i + 1].id = ch[j + 1].id
               PROVE  <<ch[i + 1].type, ch[j + 1].type>> \in Before
    BY <1>1 DEF Ordered
  <2>1. i + 1 \in 1 .. Len(ch) /\ j + 1 \in 1 .. Len(ch) /\ i + 1 < j + 1
    BY <1>1
  <2> QED
    BY <2>1, <1>1 DEF Ordered
<1>4. ASSUME NEW x, Has(Tail(ch), x)
      PROVE  Has(ch, x) /\ (x.id = ch[1].id => <<ch[1].type, x.type>> \in Before)
  <2>1. PICK i \in 1 .. Len(ch) - 1 : ch[i + 1] = x
    BY <1>1, <1>4 DEF Has
  <2>2. i + 1 \in 1 .. Len(ch) /\ 1 \in 1 .. Len(ch) /\ 1 < i + 1
    BY <1>1
  <2> QED
    BY <2>1, <2>2, <1>1 DEF Has, Ordered
<1>5. \A t : <<t, t>> \notin Before
  BY DEF Before
<1>6. ASSUME NEW x, Has(ch, x), x # Head(ch) PROVE Has(Tail(ch), x)
  <2>1. PICK i \in 1 .. Len(ch) : ch[i] = x
    BY <1>1, <1>6 DEF Has
  <2>2. i # 1 /\ i - 1 \in 1 .. Len(ch) - 1 /\ (i - 1) + 1 = i
    BY <2>1, <1>1, <1>6
  <2> QED
    BY <2>1, <2>2, <1>1 DEF Has
<1> QED
  BY <1>1, <1>2, <1>3, <1>4, <1>5, <1>6

(* When the tail of a channel is lost, a message that is left still has    *)
(* those of its request before it.                                         *)
LEMMA PrefixFact ==
    ASSUME NEW S, NEW ch \in Seq(S), NEW n \in 0 .. Len(ch), Ordered(ch)
    PROVE  /\ SubSeq(ch, 1, n) \in Seq(S) /\ Ordered(SubSeq(ch, 1, n))
           /\ \A x : Has(SubSeq(ch, 1, n), x) => Has(ch, x)
           /\ \A x, y : /\ Has(SubSeq(ch, 1, n), y) /\ Has(ch, x) /\ x.id = y.id
                       /\ <<x.type, y.type>> \in Before
                       => Has(SubSeq(ch, 1, n), x)
<1>1. /\ SubSeq(ch, 1, n) \in Seq(S) /\ DOMAIN SubSeq(ch, 1, n) = 1 .. n
      /\ DOMAIN ch = 1 .. Len(ch) /\ Len(ch) \in Nat /\ n \in Nat /\ n <= Len(ch)
      /\ \A i \in 1 .. n : SubSeq(ch, 1, n)[i] = ch[i]
  OBVIOUS
<1>2. Ordered(SubSeq(ch, 1, n))
  BY <1>1 DEF Ordered
<1>3. ASSUME NEW x, Has(SubSeq(ch, 1, n), x) PROVE Has(ch, x)
  BY <1>1, <1>3 DEF Has
<1>4. ASSUME NEW x, NEW y, Has(SubSeq(ch, 1, n), y), Has(ch, x), x.id = y.id,
             <<x.type, y.type>> \in Before
      PROVE  Has(SubSeq(ch, 1, n), x)
  <2>1. PICK j \in 1 .. n : ch[j] = y
    BY <1>1, <1>4 DEF Has
  <2>2. PICK i \in 1 .. Len(ch) : ch[i] = x
    BY <1>1, <1>4 DEF Has
  <2>3. CASE i \in 1 .. n
    BY <2>2, <2>3, <1>1 DEF Has
  <2>4. CASE i > n
    <3>1. j < i /\ j \in 1 .. Len(ch)
      BY <2>4, <1>1
    <3>2. <<y.type, x.type>> \in Before
      BY <3>1, <2>1, <2>2, <1>1, <1>4 DEF Ordered
    <3> QED
      BY <3>2, <1>4 DEF Before
  <2> QED
    BY <2>3, <2>4, <1>1
<1> QED
  BY <1>1, <1>2, <1>3, <1>4

(* Post(): the new message is the only one, and nothing else is, if the    *)
(* server is dead.                                                         *)
LEMMA PostFact ==
    ASSUME Channels, NEW r \in Requests, NEW t \in {"start_request", "stop_request"}, Post(t, r),
           \A x : Has(toServer, x) /\ x.id = r => <<x.type, t>> \in Before
    PROVE  /\ toServer' \in Seq(ServerMessages) /\ Ordered(toServer')
           /\ \A x : Has(toServer', x) => Has(toServer, x) \/ x = Message(t, r)
<1>1. Message(t, r) \in ServerMessages /\ Message(t, r).id = r /\ Message(t, r).type = t
  BY DEF Message, ServerMessages
<1>2. CASE ~alive
  <2>1. toServer' = <<>> /\ DOMAIN toServer' = {}
    BY <1>2 DEF Post
  <2> QED
    BY <2>1 DEF Ordered, Has
<1>3. CASE alive
  <2>1. toServer' = Append(toServer, Message(t, r))
    BY <1>3 DEF Post
  <2>2. toServer \in Seq(ServerMessages) /\ Ordered(toServer)
    BY DEF Channels
  <2>3. Ordered(Append(toServer, Message(t, r)))
    BY <2>2, <1>1, AppendOrdered
  <2> QED
    BY <1>1, <2>1, <2>2, <2>3, AppendFact
<1> QED
  BY <1>2, <1>3

(* Messages are told apart by their type, their request and the verdict. *)
LEMMA MessageFact ==
    /\ \A t, r : Message(t, r).type = t /\ Message(t, r).id = r
    /\ \A r : /\ Failed(r).type = "request_finished" /\ Failed(r).id = r
              /\ Failed(r).error
    /\ \A r : /\ Succeeded(r).type = "request_finished" /\ Succeeded(r).id = r
              /\ ~Succeeded(r).error
    /\ \A r : /\ Refused(r).type = "headers_became_available" /\ Refused(r).id = r
              /\ Refused(r).error
    /\ \A r : /\ Accepted(r).type = "headers_became_available" /\ Accepted(r).id = r
              /\ ~Accepted(r).error
BY DEF Message, Finished, Failed, Succeeded, Refused, Accepted

-----------------------------------------------------------------------------
(***************************************************************************)
(* Requests that a step does not concern.                                  *)
(***************************************************************************)
SameMessages(r) ==
    /\ Start(r)' => Start(r)
    /\ Stop(r)' => Stop(r)
    /\ Started(r)' => Started(r)
    /\ FailedMsg(r)' => FailedMsg(r)
    /\ SucceededMsg(r)' => SucceededMsg(r)
    /\ HeadersMsg(r)' <=> HeadersMsg(r)

(* A request keeps its invariant when neither side's record of it changes  *)
(* and nothing is posted for it.                                           *)
LEMMA Frame ==
    ASSUME NEW r \in Requests, RInv(r), request'[r] = request[r], server'[r] = server[r],
           SameMessages(r), alive' = alive, crash = "none", waiting' = r => waiting = r
    PROVE  RInv(r)'
<1> USE DEF RInv, SameMessages
<1>1. Over(r) => Over(r)'
  BY DEF Over
<1>2. NoAnswer(r) => NoAnswer(r)'
  BY DEF NoAnswer
<1>3. Fresh(r)' /\ Starting(r)'
  BY <1>2 DEF Fresh, Starting
<1>4. Serving(r)'
  <2> SUFFICES ASSUME server'[r].kind = "request"
               PROVE  Serving(r)'
    BY DEF Serving
  <2>1. server[r].kind = "request"
    OBVIOUS
  <2>2. request'[r].loaded /\ request'[r].valid /\ alive' /\ ~Start(r)'
    BY <2>1, Zenon DEF Serving
  <2>3. ~FailedMsg(r)' /\ ~SucceededMsg(r)'
    BY <2>1 DEF Serving
  <2>4. ~server'[r].got_all_headers /\ crash' = "none" => request'[r].headers = 0 /\ ~HeadersMsg(r)'
    BY <2>1 DEF Serving
  <2>5. server'[r].got_all_headers /\ request'[r].known /\ request'[r].live =>
          request'[r].headers = 1 \/ HeadersMsg(r)'
    BY <2>1 DEF Serving
  <2> QED
    BY <2>2, <2>3, <2>4, <2>5 DEF Serving
<1>5. Ending(r)'
  BY <1>1, Zenon DEF Ending
<1>6. Answered(r)' /\ Finishing(r)'
  BY <1>1 DEF Answered, Finishing
<1>7. Settled(r)' /\ Cleaning(r)'
  BY <1>1 DEF Settled, Told, Verdict, LoadFailed, Cleaning
<1> QED
  BY <1>3, <1>4, <1>5, <1>6, <1>7

-----------------------------------------------------------------------------
(***************************************************************************)
(* What posting and taking a message does.                                 *)
(***************************************************************************)

(* A message on its way to the server is a start_request or a stop_request. *)
LEMMA ServerMessage ==
    ASSUME Channels, NEW x, Has(toServer, x)
    PROVE  /\ x \in ServerMessages /\ x.id \in Requests
           /\ x = Message("start_request", x.id) \/ x = Message("stop_request", x.id)
<1>1. x \in ServerMessages
  BY DEF Channels, Has
<1> QED
  BY <1>1 DEF ServerMessages, Message

(* A message on its way to the client is one of the three answers. *)
LEMMA ClientMessage ==
    ASSUME NEW ch \in Seq(ClientMessages), NEW x, Has(ch, x)
    PROVE  /\ x \in ClientMessages /\ x.id \in Requests
           /\ \/ x = Message("request_started", x.id)
              \/ x = Refused(x.id) \/ x = Accepted(x.id)
              \/ x = Failed(x.id) \/ x = Succeeded(x.id)
<1>1. x \in ClientMessages
  BY DEF Has
<1>2. CASE x \in [type : {"request_started"}, id : Requests, error : {FALSE}]
  BY <1>1, <1>2 DEF Message
<1>3. CASE x \in [type : {"headers_became_available", "request_finished"}, id : Requests, error : BOOLEAN]
  BY <1>1, <1>3 DEF Finished, Failed, Succeeded, Refused, Accepted
<1> QED
  BY <1>1, <1>2, <1>3 DEF ClientMessages

(* start_request is posted once, before any other message of the request. *)
LEMMA PostStart ==
    ASSUME Channels, NEW r \in Requests, Post("start_request", r), ~Start(r), ~Stop(r)
    PROVE  /\ toServer' \in Seq(ServerMessages) /\ Ordered(toServer')
           /\ \A x \in Requests : (Start(x)' => Start(x) \/ x = r) /\ (Stop(x)' => Stop(x))
<1>1. ASSUME NEW x, Has(toServer, x), x.id = r PROVE FALSE
  BY <1>1, ServerMessage DEF Start, Stop
<1>2. /\ toServer' \in Seq(ServerMessages) /\ Ordered(toServer')
      /\ \A x : Has(toServer', x) => Has(toServer, x) \/ x = Message("start_request", r)
  BY <1>1, PostFact
<1> QED
  BY <1>2, MessageFact DEF Start, Stop

(* stop_request is posted once, and start_request is not behind it. *)
LEMMA PostStop ==
    ASSUME Channels, NEW r \in Requests, Post("stop_request", r), ~Stop(r)
    PROVE  /\ toServer' \in Seq(ServerMessages) /\ Ordered(toServer')
           /\ \A x \in Requests : (Start(x)' => Start(x)) /\ (Stop(x)' => Stop(x) \/ x = r)
<1>1. ASSUME NEW x, Has(toServer, x), x.id = r PROVE <<x.type, "stop_request">> \in Before
  <2>1. x = Message("start_request", r)
    BY <1>1, ServerMessage DEF Stop
  <2> QED
    BY <2>1, MessageFact DEF Before
<1>2. /\ toServer' \in Seq(ServerMessages) /\ Ordered(toServer')
      /\ \A x : Has(toServer', x) => Has(toServer, x) \/ x = Message("stop_request", r)
  BY <1>1, PostFact
<1> QED
  BY <1>2, MessageFact DEF Start, Stop

(* The server takes the first message: it is the only one of its kind, and *)
(* no start_request comes after a stop_request.                            *)
LEMMA TakeServer ==
    ASSUME Channels, toServer # <<>>, toServer' = Tail(toServer)
    PROVE  /\ toServer' \in Seq(ServerMessages) /\ Ordered(toServer')
           /\ \A x \in Requests : (Start(x)' => Start(x)) /\ (Stop(x)' => Stop(x))
           /\ Head(toServer).id \in Requests
           /\ Head(toServer).type = "start_request" =>
                Start(Head(toServer).id) /\ ~Has(toServer', Message("start_request", Head(toServer).id))
           /\ Head(toServer).type = "stop_request" =>
                /\ Stop(Head(toServer).id) /\ ~Has(toServer', Message("stop_request", Head(toServer).id))
                /\ ~Has(toServer', Message("start_request", Head(toServer).id))
<1> DEFINE m == Head(toServer)
<1>1. /\ toServer' \in Seq(ServerMessages) /\ Ordered(toServer') /\ Has(toServer, m)
      /\ \A x : Has(toServer', x) <=> Has(toServer, x) /\ x # m
      /\ \A x : Has(toServer', x) /\ x.id = m.id => <<m.type, x.type>> \in Before
  BY TailFact DEF Channels
<1>2. m.id \in Requests /\ (m = Message("start_request", m.id) \/ m = Message("stop_request", m.id))
  BY <1>1, ServerMessage
<1>3. ASSUME m.type = "start_request"
      PROVE  Start(m.id) /\ ~Has(toServer', Message("start_request", m.id))
  BY <1>1, <1>2, <1>3, MessageFact DEF Start
<1>4. ASSUME m.type = "stop_request"
      PROVE  /\ Stop(m.id) /\ ~Has(toServer', Message("stop_request", m.id))
             /\ ~Has(toServer', Message("start_request", m.id))
  <2>1. <<"stop_request", "start_request">> \notin Before
    BY DEF Before
  <2> QED
    BY <1>1, <1>2, <1>4, <2>1, MessageFact DEF Stop
<1>5. \A x \in Requests : (Start(x)' => Start(x)) /\ (Stop(x)' => Stop(x))
  BY <1>1 DEF Start, Stop
<1> QED
  BY <1>1, <1>2, <1>3, <1>4, <1>5

(* The client takes the first message.  No headers come after the end. *)
LEMMA TakeClient ==
    ASSUME Channels, toClient # <<>>, toClient' = Tail(toClient)
    PROVE  /\ toClient' \in Seq(ClientMessages) /\ Ordered(toClient')
           /\ Head(toClient).id \in Requests
           /\ \A x \in Requests :
                /\ Started(x)' => Started(x)
                /\ FailedMsg(x)' => FailedMsg(x)
                /\ SucceededMsg(x)' => SucceededMsg(x)
                /\ HeadersMsg(x)' <=>
                     HeadersMsg(x) /\ ~(Head(toClient).type = "headers_became_available" /\ x = Head(toClient).id)
           /\ Head(toClient).type = "request_started" => Started(Head(toClient).id)
           /\ Head(toClient).type = "headers_became_available" =>
                /\ HeadersMsg(Head(toClient).id) /\ Head(toClient).error \in BOOLEAN
                /\ Head(toClient).error => Has(toClient, Refused(Head(toClient).id))
                /\ ~Head(toClient).error => Has(toClient, Accepted(Head(toClient).id))
           /\ Head(toClient).type = "request_finished" =>
                /\ Head(toClient).error \in BOOLEAN
                /\ Head(toClient).error => FailedMsg(Head(toClient).id)
                /\ ~Head(toClient).error => SucceededMsg(Head(toClient).id)
                /\ ~HeadersMsg(Head(toClient).id)
<1> DEFINE m == Head(toClient)
<1>1. /\ toClient' \in Seq(ClientMessages) /\ Ordered(toClient') /\ Has(toClient, m)
      /\ \A x : Has(toClient', x) <=> Has(toClient, x) /\ x # m
      /\ \A x : Has(toClient', x) /\ x.id = m.id => <<m.type, x.type>> \in Before
  BY TailFact DEF Channels
<1>2. /\ m.id \in Requests
      /\ \/ m = Message("request_started", m.id)
         \/ m = Refused(m.id) \/ m = Accepted(m.id)
         \/ m = Failed(m.id) \/ m = Succeeded(m.id)
  BY <1>1, ClientMessage DEF Channels
<1>3. \A x \in Requests :
        /\ Started(x)' => Started(x)
        /\ FailedMsg(x)' => FailedMsg(x)
        /\ SucceededMsg(x)' => SucceededMsg(x)
        /\ HeadersMsg(x)' <=> HeadersMsg(x) /\ ~(m.type = "headers_became_available" /\ x = m.id)
  <2> SUFFICES ASSUME NEW x \in Requests
               PROVE  /\ Started(x)' => Started(x)
                      /\ FailedMsg(x)' => FailedMsg(x)
                      /\ SucceededMsg(x)' => SucceededMsg(x)
                      /\ HeadersMsg(x)' <=>
                           HeadersMsg(x) /\ ~(m.type = "headers_became_available" /\ x = m.id)
    OBVIOUS
  <2>1. /\ Started(x)' => Started(x)
        /\ FailedMsg(x)' => FailedMsg(x)
        /\ SucceededMsg(x)' => SucceededMsg(x)
        /\ HeadersMsg(x)' => HeadersMsg(x)
    BY <1>1 DEF Started, FailedMsg, SucceededMsg, HeadersMsg
  <2>2. CASE m.type = "headers_became_available" /\ x = m.id
    <3>1. <<"headers_became_available", "headers_became_available">> \notin Before
      BY DEF Before
    <3>2. ~HeadersMsg(x)'
      BY <1>1, <2>2, <3>1, MessageFact DEF HeadersMsg
    <3> QED
      BY <2>1, <2>2, <3>2
  <2>3. CASE ~(m.type = "headers_became_available" /\ x = m.id)
    <3>1. m # Refused(x) /\ m # Accepted(x)
      BY <2>3, MessageFact
    <3>2. HeadersMsg(x) => HeadersMsg(x)'
      BY <1>1, <3>1 DEF HeadersMsg
    <3> QED
      BY <2>1, <2>3, <3>2
  <2> QED
    BY <2>2, <2>3
<1>4. ASSUME m.type = "request_started" PROVE Started(m.id)
  BY <1>1, <1>2, <1>4, MessageFact DEF Started
<1>5. ASSUME m.type = "headers_became_available"
      PROVE  /\ HeadersMsg(m.id) /\ m.error \in BOOLEAN
             /\ m.error => Has(toClient, Refused(m.id))
             /\ ~m.error => Has(toClient, Accepted(m.id))
  <2>1. m = Refused(m.id) \/ m = Accepted(m.id)
    BY <1>2, <1>5, MessageFact
  <2>2. CASE m = Refused(m.id)
    <3>1. m.error = TRUE
      BY <2>2 DEF Refused
    <3> QED
      BY <2>2, <3>1, <1>1 DEF HeadersMsg
  <2>3. CASE m = Accepted(m.id)
    <3>1. m.error = FALSE
      BY <2>3 DEF Accepted
    <3> QED
      BY <2>3, <3>1, <1>1 DEF HeadersMsg
  <2> QED
    BY <2>1, <2>2, <2>3
<1>6. ASSUME m.type = "request_finished"
      PROVE  /\ m.error \in BOOLEAN
             /\ m.error => FailedMsg(m.id)
             /\ ~m.error => SucceededMsg(m.id)
             /\ ~HeadersMsg(m.id)
  <2>1. m = Failed(m.id) \/ m = Succeeded(m.id)
    BY <1>2, <1>6, MessageFact
  <2>2. m.error \in BOOLEAN /\ (m.error => FailedMsg(m.id)) /\ (~m.error => SucceededMsg(m.id))
    <3>1. CASE m = Failed(m.id)
      <4>1. m.error = TRUE
        BY <3>1 DEF Failed, Finished
      <4> QED
        BY <3>1, <4>1, <1>1 DEF FailedMsg
    <3>2. CASE m = Succeeded(m.id)
      <4>1. m.error = FALSE
        BY <3>2 DEF Succeeded, Finished
      <4> QED
        BY <3>2, <4>1, <1>1 DEF SucceededMsg
    <3> QED
      BY <2>1, <3>1, <3>2
  <2>3. ~HeadersMsg(m.id)
    <3>1. <<"request_finished", "headers_became_available">> \notin Before
      BY DEF Before
    <3> QED
      BY <3>1, <1>1, <1>6, MessageFact DEF HeadersMsg
  <2> QED
    BY <2>2, <2>3
<1> QED
  BY <1>1, <1>2, <1>3, <1>4, <1>5, <1>6

-----------------------------------------------------------------------------
(***************************************************************************)
(* m_pending_loads.                                                        *)
(***************************************************************************)
Counts(q) == q.active /\ q.cleanup # 1

(* A step that counts the same requests leaves the counter exact. *)
LEMMA CountSame ==
    ASSUME PendingLoadsExact, pendingLoads' = pendingLoads,
           \A x \in Requests : Counts(request'[x]) <=> Counts(request[x])
    PROVE  PendingLoadsExact' /\ pendingLoads' \in 0 .. Cardinality(Requests)
<1> DEFINE A == {x \in Requests : request[x].active /\ request[x].cleanup # 1}
           B == {x \in Requests : request'[x].active /\ request'[x].cleanup # 1}
<1>1. A = B
  BY DEF Counts
<1>2. Cardinality(A) \in Nat /\ Cardinality(A) <= Cardinality(Requests) /\ Cardinality(Requests) \in Nat
  BY RequestAssumption, FS_Subset, FS_CardinalityType
<1>3. pendingLoads' = Cardinality(B) /\ pendingLoads' = Cardinality(A)
  BY <1>1 DEF PendingLoadsExact
<1> QED
  BY <1>2, <1>3 DEF PendingLoadsExact

(* A request more is counted. *)
LEMMA CountMore ==
    ASSUME PendingLoadsExact, NEW r \in Requests, pendingLoads' = pendingLoads + 1,
           ~Counts(request[r]), Counts(request'[r]),
           \A x \in Requests \ {r} : request'[x] = request[x]
    PROVE  PendingLoadsExact' /\ pendingLoads' \in 0 .. Cardinality(Requests)
<1> DEFINE A == {x \in Requests : request[x].active /\ request[x].cleanup # 1}
           B == {x \in Requests : request'[x].active /\ request'[x].cleanup # 1}
<1>1. B = A \cup {r} /\ r \notin A
  BY DEF Counts
<1>2. /\ IsFiniteSet(A) /\ Cardinality(A) \in Nat
      /\ Cardinality(B) \in Nat /\ Cardinality(B) <= Cardinality(Requests) /\ Cardinality(Requests) \in Nat
  BY RequestAssumption, FS_Subset, FS_CardinalityType
<1>3. Cardinality(A \cup {r}) = Cardinality(A) + 1
  BY <1>1, <1>2, FS_AddElement
<1>4. pendingLoads' = Cardinality(B)
  BY <1>1, <1>3 DEF PendingLoadsExact
<1> QED
  BY <1>2, <1>4 DEF PendingLoadsExact

(* A request less is counted. *)
LEMMA CountLess ==
    ASSUME PendingLoadsExact, NEW r \in Requests, pendingLoads' = pendingLoads - 1,
           Counts(request[r]), ~Counts(request'[r]),
           \A x \in Requests \ {r} : request'[x] = request[x]
    PROVE  PendingLoadsExact' /\ pendingLoads' \in 0 .. Cardinality(Requests)
<1> DEFINE A == {x \in Requests : request[x].active /\ request[x].cleanup # 1}
           B == {x \in Requests : request'[x].active /\ request'[x].cleanup # 1}
<1>1. A = B \cup {r} /\ r \notin B
  BY DEF Counts
<1>2. /\ IsFiniteSet(B) /\ Cardinality(B) \in Nat
      /\ Cardinality(B) <= Cardinality(Requests) /\ Cardinality(Requests) \in Nat
  BY RequestAssumption, FS_Subset, FS_CardinalityType
<1>3. Cardinality(B \cup {r}) = Cardinality(B) + 1
  BY <1>1, <1>2, FS_AddElement
<1>4. pendingLoads' = Cardinality(B)
  <2>1. pendingLoads = Cardinality(A)
    BY DEF PendingLoadsExact
  <2>2. pendingLoads = Cardinality(B) + 1
    BY <1>1, <1>3, <2>1
  <2> HIDE DEF A, B
  <2> QED
    BY <1>2, <2>2
<1> QED
  BY <1>2, <1>4 DEF PendingLoadsExact

-----------------------------------------------------------------------------
(***************************************************************************)
(* The steps of WebContent.                                                *)
(***************************************************************************)

(* The types that a step of the client has to see to, when the server's    *)
(* records stay as they are and the records of the requests are of their   *)
(* type.                                                                   *)
LEMMA ClientTypes ==
    ASSUME TypeOK, UNCHANGED <<server, writing, dropped, alive>>,
           request' \in [Requests -> RequestType],
           pendingLoads' \in 0 .. Cardinality(Requests),
           \A x \in Requests : request'[x].read = request[x].read \/ request'[x].read = server[x].written,
           waiting' \in Requests \cup {None}, response' \in BOOLEAN,
           crash' \in {"none", "set_request_fd", "on_finish", "on_data_received", "send_sync", "stop"}
    PROVE  TypeOK'
<1>1. ASSUME NEW x \in Requests PROVE InPipe(x)' \in 0 .. PipeSize
  <2>1. server'[x].written = server[x].written
    BY Zenon
  <2>2. InPipe(x) \in 0 .. PipeSize /\ InPipe(x) = server[x].written - request[x].read
    BY DEF TypeOK, InPipe
  <2>3. InPipe(x)' = server[x].written - request'[x].read
    BY <2>1 DEF InPipe
  <2>4. request[x].read \in Int /\ server[x].written \in Int /\ PipeSize \in Nat
    <3>1. request[x] \in RequestType /\ server[x] \in ServerType /\ PipeSize \in Nat /\ MaxChunks \in Nat
      BY RequestAssumption DEF TypeOK
    <3>2. request[x].read \in 0 .. MaxChunks /\ server[x].written \in 0 .. MaxChunks
      BY <3>1 DEF RequestType, ServerType
    <3> QED
      BY <3>1, <3>2
  <2> QED
    BY <2>2, <2>3, <2>4
<1>2. /\ server' \in [Requests -> ServerType] /\ writing' \in Requests \cup {None}
      /\ dropped' \subseteq Requests
  BY DEF TypeOK
<1>3. {alive', response'} \subseteq BOOLEAN
  BY Zenon DEF TypeOK
<1> QED
  BY <1>1, <1>2, <1>3 DEF TypeOK

(* load() and load_unbuffered() *)
LEMMA LoadStep ==
    ASSUME IInv, NEW r \in Requests, Load(r)
    PROVE  IInv'
<1>1. /\ TypeOK /\ Channels /\ Stopping /\ Spinning /\ PendingLoadsExact
      /\ \A x \in Requests : RInv(x)
  BY DEF IInv
<1>2. /\ crash = "none" /\ waiting = None /\ ~request[r].loaded /\ pendingLoads' = pendingLoads + 1
      /\ Post("start_request", r)
      /\ UNCHANGED <<waiting, server, writing, alive, dropped, toClient, response, crash>>
  BY DEF Load, ClientRuns, serverVars
<1>3. PICK valid \in BOOLEAN :
        request' = [request EXCEPT ![r] = [@ EXCEPT !.loaded = TRUE, !.valid = valid, !.live = TRUE,
                                                    !.known = TRUE, !.active = TRUE,
                                                    !.timer = r \in MayTimeOut]]
  BY DEF Load
<1>4. /\ request[r] = NewRequest /\ ~Start(r) /\ ~Stop(r) /\ NoAnswer(r)
      /\ server[r].kind # "request" /\ server[r].written = 0
  BY <1>1, <1>2 DEF RInv, Fresh
<1>5. /\ request'[r] = [NewRequest EXCEPT !.loaded = TRUE, !.valid = valid, !.live = TRUE,
                                          !.known = TRUE, !.active = TRUE, !.timer = r \in MayTimeOut]
      /\ \A x \in Requests \ {r} : request'[x] = request[x]
      /\ DOMAIN request' = Requests
  BY <1>1, <1>3, <1>4 DEF TypeOK
<1>6. /\ request'[r] \in RequestType
      /\ request'[r].loaded /\ request'[r].live /\ request'[r].known /\ request'[r].active
      /\ ~request'[r].fd /\ ~request'[r].eof /\ ~request'[r].done /\ ~request'[r].called
      /\ request'[r].headers = 0 /\ request'[r].read = 0 /\ request'[r].cleanup = 0
      /\ request'[r].outcomes = <<>>
  <2>1. 0 \in 0 .. MaxChunks /\ 0 \in 0 .. 1 /\ 0 \in 0 .. 3 /\ <<>> \in Seq({"success", "error", "timeout"})
    BY RequestAssumption
  <2> DEFINE timer == r \in MayTimeOut
  <2>2. timer \in BOOLEAN
    OBVIOUS
  <2>3. request'[r] = [loaded |-> TRUE, valid |-> valid, live |-> TRUE, known |-> TRUE, active |-> TRUE,
               fd |-> FALSE, eof |-> FALSE, done |-> FALSE, error |-> FALSE,
               called |-> FALSE, headers |-> 0, refused |-> FALSE, read |-> 0, cleanup |-> 0,
               timer |-> timer, outcomes |-> <<>>]
    BY <1>5, <2>2, ZenonT(40) DEF NewRequest
  <2> HIDE DEF timer
  <2>4. request'[r] \in RequestType
    BY <2>1, <2>2, <2>3 DEF RequestType
  <2> QED
    BY <2>3, <2>4
<1>7. /\ toServer' \in Seq(ServerMessages) /\ Ordered(toServer')
      /\ \A x \in Requests : (Start(x)' => Start(x) \/ x = r) /\ (Stop(x)' => Stop(x))
  BY <1>1, <1>2, <1>4, PostStart
<1>8. \A x : /\ Started(x)' <=> Started(x)
             /\ HeadersMsg(x)' <=> HeadersMsg(x)
             /\ FailedMsg(x)' <=> FailedMsg(x)
             /\ SucceededMsg(x)' <=> SucceededMsg(x)
  BY <1>2 DEF Started, HeadersMsg, FailedMsg, SucceededMsg
<1>9. RInv(r)'
  <2>1. server'[r] = server[r] /\ NoAnswer(r)'
    BY <1>2, <1>4, <1>8 DEF NoAnswer
  <2>2. Fresh(r)' /\ Starting(r)' /\ Serving(r)' /\ Ending(r)'
    BY <2>1, <1>4, <1>6 DEF Fresh, Starting, Serving, Ending, NoAnswer
  <2>3. Answered(r)' /\ Finishing(r)' /\ Cleaning(r)'
    BY <2>1, <1>4, <1>6 DEF Answered, Finishing, Cleaning, NoAnswer
  <2>4. Settled(r)'
    BY <1>2, <1>6, RequestAssumption DEF Settled, Told, Verdict, LoadFailed
  <2> QED
    BY <2>2, <2>3, <2>4 DEF RInv
<1>10. ASSUME NEW x \in Requests PROVE RInv(x)'
  <2>1. CASE x = r
    BY <1>9, <2>1
  <2>2. CASE x # r
    <3>1. SameMessages(x)
      BY <1>7, <1>8, <2>2 DEF SameMessages
    <3>2. request'[x] = request[x] /\ server'[x] = server[x] /\ alive' = alive /\ waiting' = waiting
      BY <1>2, <1>5, <2>2
    <3> QED
      BY <1>1, <1>2, <3>1, <3>2, Frame
  <2> QED
    BY <2>1, <2>2
<1>11. PendingLoadsExact' /\ pendingLoads' \in 0 .. Cardinality(Requests)
  <2>1. ~Counts(request[r]) /\ Counts(request'[r])
    BY <1>4, <1>6 DEF Counts, NewRequest
  <2> QED
    BY <2>1, <1>1, <1>2, <1>5, CountMore
<1>12. TypeOK'
  <2>1. request' \in [Requests -> RequestType]
    BY <1>1, <1>3, <1>5, <1>6 DEF TypeOK
  <2>2. \A x \in Requests : request'[x].read = request[x].read \/ request'[x].read = server[x].written
    BY <1>4, <1>5, <1>6
  <2>3. /\ waiting' \in Requests \cup {None} /\ response' \in BOOLEAN
        /\ crash' \in {"none", "set_request_fd", "on_finish", "on_data_received", "send_sync", "stop"}
    BY <1>1, <1>2, Zenon DEF TypeOK
  <2> QED
    BY <1>1, <1>2, <1>11, <2>1, <2>2, <2>3, ClientTypes
<1>13. Stopping'
  BY <1>1, <1>2, <1>7, RequestAssumption DEF Stopping
<1>14. Spinning'
  BY <1>1, <1>2 DEF Spinning
<1>15. Channels'
  BY <1>1, <1>2, <1>7 DEF Channels
<1> QED
  BY <1>10, <1>11, <1>12, <1>13, <1>14, <1>15 DEF IInv

(* A step that counts its request as before. *)
LEMMA CountKept ==
    ASSUME TypeOK, PendingLoadsExact, pendingLoads' = pendingLoads,
           NEW r \in Requests, request' = [request EXCEPT ![r] = request'[r]],
           Counts(request'[r]) <=> Counts(request[r])
    PROVE  PendingLoadsExact' /\ pendingLoads' \in 0 .. Cardinality(Requests)
<1>1. ASSUME NEW x \in Requests PROVE Counts(request'[x]) <=> Counts(request[x])
  <2>1. CASE x = r
    BY <2>1
  <2>2. CASE x # r
    <3>1. request'[x] = request[x]
      BY <2>2 DEF TypeOK
    <3> QED
      BY <3>1
  <2> QED
    BY <2>1, <2>2
<1> QED
  BY <1>1, CountSame

(* A step of the client that concerns one request. *)
LEMMA ClientStepOf ==
    ASSUME IInv, NEW r \in Requests, crash = "none", UNCHANGED <<server, writing, dropped, alive>>,
           request'[r] \in RequestType, request' = [request EXCEPT ![r] = request'[r]],
           request'[r].read = request[r].read \/ request'[r].read = server[r].written,
           \A x \in Requests \ {r} : SameMessages(x) /\ (waiting' = x => waiting = x),
           PendingLoadsExact', pendingLoads' \in 0 .. Cardinality(Requests),
           waiting' \in Requests \cup {None}, response' \in BOOLEAN,
           crash' \in {"none", "set_request_fd", "on_finish", "on_data_received", "send_sync", "stop"},
           Channels', Stopping', RInv(r)'
    PROVE  IInv'
<1>1. TypeOK /\ Spinning /\ \A x \in Requests : RInv(x)
  BY DEF IInv
<1>2. /\ request' \in [Requests -> RequestType]
      /\ \A x \in Requests \ {r} : request'[x] = request[x]
  BY <1>1 DEF TypeOK
<1>3. TypeOK'
  BY <1>1, <1>2, ClientTypes
<1>4. Spinning'
  BY <1>1 DEF Spinning
<1>5. ASSUME NEW x \in Requests PROVE RInv(x)'
  <2>1. CASE x = r
    BY <2>1
  <2>2. CASE x # r
    <3>1. request'[x] = request[x] /\ server'[x] = server[x] /\ alive' = alive
      BY <1>2, <2>2
    <3> QED
      BY <1>1, <2>2, <3>1, Frame
  <2> QED
    BY <2>1, <2>2
<1> QED
  BY <1>3, <1>4, <1>5 DEF IInv

(* What every delivery of an answer leaves alone. *)
LEMMA DeliveredFact ==
    ASSUME IInv, NEW t, Delivered(t)
    PROVE  /\ crash = "none" /\ waiting = None /\ toClient # <<>> /\ Head(toClient).type = t
           /\ UNCHANGED <<server, writing, dropped, alive, waiting, toServer, response>>
           /\ toClient' = Tail(toClient) /\ Channels' /\ Stopping'
           /\ waiting' \in Requests \cup {None} /\ response' \in BOOLEAN
           /\ \A x : (Start(x)' <=> Start(x)) /\ (Stop(x)' <=> Stop(x)) /\ (Over(x)' <=> Over(x))
<1>1. /\ crash = "none" /\ waiting = None /\ toClient # <<>> /\ Head(toClient).type = t
      /\ UNCHANGED <<server, writing, dropped, alive, waiting, toServer, response>>
      /\ toClient' = Tail(toClient)
  BY DEF Delivered, ClientRuns, serverVars
<1>2. TypeOK /\ Channels /\ Stopping
  BY DEF IInv
<1>3. Channels'
  BY <1>1, <1>2, TakeClient DEF Channels
<1>4. \A x : (Start(x)' <=> Start(x)) /\ (Stop(x)' <=> Stop(x)) /\ (Over(x)' <=> Over(x))
  BY <1>1 DEF Start, Stop, Over
<1>5. Stopping'
  BY <1>1, <1>2, <1>4, RequestAssumption DEF Stopping
<1>6. waiting' \in Requests \cup {None} /\ response' \in BOOLEAN
  BY <1>1, <1>2, Zenon DEF TypeOK
<1> QED
  BY <1>1, <1>3, <1>4, <1>5, <1>6

(* request_started *)
LEMMA RequestStartedStep ==
    ASSUME IInv, request_started
    PROVE  IInv'
<1>1. Delivered("request_started")
  BY DEF request_started
<1>2. /\ crash = "none" /\ waiting = None /\ toClient # <<>> /\ Head(toClient).type = "request_started"
      /\ UNCHANGED <<server, writing, dropped, alive, waiting, toServer, response>>
      /\ toClient' = Tail(toClient) /\ Channels' /\ Stopping'
      /\ waiting' \in Requests \cup {None} /\ response' \in BOOLEAN
      /\ \A x : (Start(x)' <=> Start(x)) /\ (Stop(x)' <=> Stop(x)) /\ (Over(x)' <=> Over(x))
  BY <1>1, DeliveredFact
<1>3. /\ TypeOK /\ Channels /\ PendingLoadsExact /\ \A x \in Requests : RInv(x)
  BY DEF IInv
<1>a. Head(toClient).id \in Requests
  BY <1>2, <1>3, TakeClient
<1>b. PICK r \in Requests : r = Head(toClient).id
  BY <1>a
<1>4. /\ Started(r)
      /\ \A x \in Requests :
           /\ Started(x)' => Started(x)
           /\ FailedMsg(x)' => FailedMsg(x)
           /\ SucceededMsg(x)' => SucceededMsg(x)
           /\ HeadersMsg(x)' <=> HeadersMsg(x)
  <2>1. "request_started" # "headers_became_available"
    OBVIOUS
  <2> QED
    BY <1>b, <1>2, <1>3, <2>1, TakeClient
<1>5. \A x \in Requests : SameMessages(x)
  BY <1>2, <1>4 DEF SameMessages
<1>6. /\ request' = [request EXCEPT ![r].fd = TRUE] \/ request' = request
      /\ pendingLoads' = pendingLoads
      /\ crash' \in {"none", "set_request_fd"}
  BY <1>b, <1>2 DEF request_started
<1>7. /\ request' = [request EXCEPT ![r] = request'[r]]
      /\ request'[r] \in RequestType
      /\ request'[r] = request[r] \/ request'[r] = [request[r] EXCEPT !.fd = TRUE]
  <2>1. request[r] \in RequestType
    BY <1>3, <1>4 DEF TypeOK
  <2>2. [request[r] EXCEPT !.fd = TRUE] \in RequestType
    BY <2>1 DEF RequestType
  <2> QED
    BY <1>3, <1>4, <1>6, <2>1, <2>2 DEF TypeOK
<1>8. RInv(r)'
  <2>1. RInv(r) /\ request[r] \in RequestType
    BY <1>3, <1>4 DEF TypeOK
  <2>2. CASE request'[r] = request[r]
    BY <1>2, <1>4, <1>5, <2>1, <2>2, Frame
  <2>3. CASE request'[r] = [request[r] EXCEPT !.fd = TRUE]
    <3>1. request'[r].fd /\ Same(request'[r], request[r], {"fd"})
      BY <2>1, <2>3 DEF RequestType, Same, Fields
    <3>3. request[r].loaded /\ request[r].valid /\ ~Start(r) /\ server'[r] = server[r] /\ crash = "none"
      BY <1>2, <1>4, <2>1 DEF RInv, Fresh, NoAnswer, Answered, Starting
    <3>4. (NoAnswer(r) => NoAnswer(r)') /\ (Over(r)' <=> Over(r)) /\ ~Start(r)'
      BY <1>2, <1>4, <3>3 DEF NoAnswer
    <3>5. Fresh(r)' /\ Starting(r)' /\ Finishing(r)'
      BY <2>1, <3>1, <3>3, <3>4 DEF Same, Fields, RInv, Fresh, Starting, Finishing
    <3>6. Serving(r)'
      BY <1>2, <1>4, <2>1, <3>1, <3>3, <3>4, SMT DEF Same, Fields, RInv, Serving
    <3>7. Ending(r)' /\ Answered(r)'
      BY <1>2, <1>4, <2>1, <3>1, <3>3, <3>4 DEF Same, Fields, RInv, Ending, Answered
    <3>8. Settled(r)' /\ Cleaning(r)'
      BY <1>2, <2>1, <3>1, <3>3, <3>4 DEF Same, Fields, RInv, Settled, Told, Verdict, LoadFailed, Cleaning
    <3> QED
      BY <3>5, <3>6, <3>7, <3>8 DEF RInv
  <2> QED
    BY <1>7, <2>2, <2>3
<1>9. PendingLoadsExact' /\ pendingLoads' \in 0 .. Cardinality(Requests)
  <2>1. Counts(request'[r]) <=> Counts(request[r])
    BY <1>3, <1>7 DEF Counts, TypeOK, RequestType
  <2> QED
    BY <1>3, <1>6, <1>7, <2>1, CountKept
<1>10. request'[r].read = request[r].read
  BY <1>3, <1>4, <1>7 DEF TypeOK, RequestType
<1>11. crash' \in {"none", "set_request_fd", "on_finish", "on_data_received", "send_sync", "stop"}
  BY <1>6
<1> QED
  BY <1>2, <1>4, <1>5, <1>7, <1>8, <1>9, <1>10, <1>11, ClientStepOf

(* headers_became_available *)
LEMMA HeadersStep ==
    ASSUME IInv, headers_became_available
    PROVE  IInv'
<1>1. Delivered("headers_became_available")
  BY DEF headers_became_available
<1>2. /\ crash = "none" /\ waiting = None /\ toClient # <<>>
      /\ Head(toClient).type = "headers_became_available"
      /\ UNCHANGED <<server, writing, dropped, alive, waiting, toServer, response>>
      /\ toClient' = Tail(toClient) /\ Channels' /\ Stopping'
      /\ waiting' \in Requests \cup {None} /\ response' \in BOOLEAN
      /\ \A x : (Start(x)' <=> Start(x)) /\ (Stop(x)' <=> Stop(x)) /\ (Over(x)' <=> Over(x))
  BY <1>1, DeliveredFact
<1>3. /\ TypeOK /\ Channels /\ PendingLoadsExact /\ \A x \in Requests : RInv(x)
  BY DEF IInv
<1>4. Head(toClient).id \in Requests
  BY <1>2, <1>3, TakeClient
<1>5. PICK r \in Requests : r = Head(toClient).id
  BY <1>4
<1>6. /\ HeadersMsg(r)
      /\ \A x \in Requests :
           /\ Started(x)' => Started(x)
           /\ FailedMsg(x)' => FailedMsg(x)
           /\ SucceededMsg(x)' => SucceededMsg(x)
           /\ HeadersMsg(x)' <=> HeadersMsg(x) /\ x # r
  BY <1>2, <1>3, <1>5, TakeClient
<1>7. \A x \in Requests \ {r} : SameMessages(x)
  BY <1>2, <1>6 DEF SameMessages
<1>8. RInv(r) /\ request[r] \in RequestType
  BY <1>3 DEF TypeOK
<1>9. /\ request[r].loaded /\ request[r].headers = 0 /\ ~Start(r)
      /\ server[r].kind = "request" => server[r].got_all_headers
  BY <1>2, <1>6, <1>8 DEF RInv, Fresh, NoAnswer, Starting, Answered, Serving
<1>10. /\ request' = [request EXCEPT ![r] = request'[r]]
       /\ request'[r] = IF request[r].known /\ request[r].live
                        THEN [request[r] EXCEPT !.headers = 1, !.refused = Head(toClient).error]
                        ELSE request[r]
       /\ pendingLoads' = pendingLoads /\ crash' = crash
  <2>1. /\ request' = IF request[r].known /\ request[r].live
                      THEN [request EXCEPT ![r].headers = @ + 1, ![r].refused = Head(toClient).error]
                      ELSE request
        /\ pendingLoads' = pendingLoads /\ crash' = crash
    BY <1>5 DEF headers_became_available
  <2>2. CASE request[r].known /\ request[r].live
    <3>1. request'[r] = [request[r] EXCEPT !.headers = 0 + 1, !.refused = Head(toClient).error]
      BY <1>3, <1>9, <2>1, <2>2 DEF TypeOK
    <3>2. 0 + 1 = 1
      OBVIOUS
    <3> QED
      BY <1>3, <2>1, <2>2, <3>1, <3>2 DEF TypeOK
  <2>3. CASE ~(request[r].known /\ request[r].live)
    BY <1>3, <2>1, <2>3 DEF TypeOK
  <2> QED
    BY <2>2, <2>3
<1>a. Head(toClient).error \in BOOLEAN
  BY <1>2, <1>3, TakeClient
<1>b. ~request[r].called
  BY <1>8, <1>9 DEF RInv, Finishing, Answered
<1>11. /\ request'[r] \in RequestType /\ Same(request'[r], request[r], {"headers", "refused"})
       /\ request'[r].headers = IF request[r].known /\ request[r].live THEN 1 ELSE 0
  <2>1. CASE request[r].known /\ request[r].live
    <3>a. PICK b \in BOOLEAN : b = Head(toClient).error
      BY <1>a
    <3>1. request'[r] = [request[r] EXCEPT !.headers = 1, !.refused = b] /\ 1 \in 0 .. 1
      BY <1>10, <2>1, <3>a
    <3>2. request'[r] \in RequestType
      BY <1>8, <3>1 DEF RequestType
    <3>3. Same(request'[r], request[r], {"headers", "refused"}) /\ request'[r].headers = 1
      BY <1>8, <3>1 DEF RequestType, Same, Fields
    <3> QED
      BY <2>1, <3>2, <3>3
  <2>2. CASE ~(request[r].known /\ request[r].live)
    BY <1>8, <1>9, <1>10, <2>2 DEF Same
  <2> QED
    BY <2>1, <2>2
<1>12. RInv(r)'
  <2>1. (NoAnswer(r) => NoAnswer(r)') /\ (Over(r)' <=> Over(r)) /\ ~Start(r)' /\ server'[r] = server[r]
    BY <1>2, <1>6, <1>9 DEF NoAnswer
  <2>2. Fresh(r)' /\ Starting(r)' /\ Finishing(r)'
    BY <1>8, <1>9, <1>11, <2>1 DEF Same, Fields, RInv, Fresh, Starting, Finishing
  <2>3. Serving(r)'
    BY <1>2, <1>6, <1>8, <1>9, <1>11, <2>1 DEF Same, Fields, RInv, Serving
  <2>4. Ending(r)'
    BY <1>2, <1>6, <1>8, <1>9, <1>11, <2>1 DEF Same, Fields, RInv, Ending
  <2>5. Answered(r)'
    BY <1>2, <1>6, <1>8, <1>9, <1>11, <2>1 DEF Same, Fields, RInv, Answered, Finishing
  <2>6. Settled(r)' /\ Cleaning(r)'
    BY <1>2, <1>8, <1>9, <1>b, <1>11, <2>1 DEF Same, Fields, RInv, Settled, Told, Verdict, LoadFailed, Cleaning
  <2> QED
    BY <2>2, <2>3, <2>4, <2>5, <2>6 DEF RInv
<1>13. PendingLoadsExact' /\ pendingLoads' \in 0 .. Cardinality(Requests)
  <2>1. Counts(request'[r]) <=> Counts(request[r])
    BY <1>11 DEF Counts, Same, Fields
  <2> QED
    BY <1>3, <1>10, <2>1, CountKept
<1>14. /\ request'[r].read = request[r].read
       /\ crash' \in {"none", "set_request_fd", "on_finish", "on_data_received", "send_sync", "stop"}
  BY <1>2, <1>10, <1>11 DEF Same, Fields
<1>15. \A x \in Requests \ {r} : SameMessages(x) /\ (waiting' = x => waiting = x)
  BY <1>2, <1>7
<1> QED
  BY <1>2, <1>10, <1>11, <1>12, <1>13, <1>14, <1>15, ClientStepOf

(* The loader's callback is called: the request has had all there is to    *)
(* its response, and the user has not been told anything yet.              *)
LEMMA Completed ==
    ASSUME IInv, NEW r \in Requests, crash = "none", waiting = None, waiting' = None,
           UNCHANGED server, request' = [request EXCEPT ![r] = request'[r]], request'[r] \in RequestType,
           Same(request'[r], request[r],
                {"known", "done", "error", "eof", "read", "called", "outcomes", "cleanup"}),
           request[r].loaded, request[r].live, ~request[r].called, request[r].fd, request[r].headers = 1,
           Over(r), Over(r)', ~Start(r)', ~HeadersMsg(r)',
           Started(r)' => Started(r), FailedMsg(r)' => FailedMsg(r), SucceededMsg(r)' => SucceededMsg(r),
           request'[r].called, request'[r].done, request'[r].eof, ~request'[r].known,
           request'[r].read = server[r].written,
           server[r].ended = (IF request'[r].error THEN "error" ELSE "success"),
           request'[r].outcomes = Append(request[r].outcomes, Verdict(request'[r], r)),
           request'[r].cleanup = (IF r \in Buffered THEN 3 ELSE 1),
           pendingLoads' = pendingLoads - (IF r \notin Buffered THEN 1 ELSE 0)
    PROVE  RInv(r)' /\ PendingLoadsExact' /\ pendingLoads' \in 0 .. Cardinality(Requests)
<1>1. TypeOK /\ PendingLoadsExact /\ RInv(r) /\ pendingLoads \in Int
  BY DEF IInv, TypeOK
<1>2. request[r].outcomes = <<>> /\ request[r].active /\ request[r].cleanup = 0 /\ request[r].valid
  BY <1>1 DEF RInv, Settled, Told, Verdict, LoadFailed, Cleaning, Answered
<1>3. request'[r].outcomes = <<Verdict(request'[r], r)>> /\ server'[r] = server[r]
  BY <1>2
<1>4. Fresh(r)' /\ Starting(r)' /\ Finishing(r)'
  BY <1>1, <1>3 DEF Same, Fields, RInv, Fresh, Starting, Finishing
<1>5. Serving(r)'
  BY <1>1, <1>3 DEF Serving, Over
<1>6. Ending(r)'
  BY <1>1, <1>3 DEF Same, Fields, RInv, Ending
<1>7. Answered(r)'
  BY <1>1, <1>2, <1>3 DEF Same, Fields, RInv, Answered
<1>8. Settled(r)' /\ Cleaning(r)'
  BY <1>1, <1>2, <1>3, RequestAssumption DEF Same, Fields, RInv, Settled, Told, Verdict, LoadFailed, Cleaning
<1>9. RInv(r)'
  BY <1>4, <1>5, <1>6, <1>7, <1>8 DEF RInv
<1>10. request'[r].active = request[r].active /\ \A x \in Requests \ {r} : request'[x] = request[x]
  BY <1>1 DEF Same, Fields, TypeOK
<1>11. CASE r \in Buffered
  <2>1. pendingLoads' = pendingLoads /\ (Counts(request'[r]) <=> Counts(request[r]))
    BY <1>1, <1>2, <1>10, <1>11 DEF Counts
  <2> QED
    BY <1>1, <1>9, <2>1, CountKept
<1>12. CASE r \notin Buffered
  <2>1. pendingLoads' = pendingLoads - 1 /\ ~Counts(request'[r]) /\ Counts(request[r])
    BY <1>1, <1>2, <1>10, <1>12 DEF Counts
  <2> QED
    BY <1>1, <1>9, <1>10, <2>1, CountLess
<1> QED
  BY <1>11, <1>12

(* The outcome is a matter of these three fields. *)
LEMMA VerdictSame ==
    ASSUME NEW q, NEW t, NEW r, t.error = q.error, t.refused = q.refused, t.read = q.read
    PROVE  Verdict(t, r) = Verdict(q, r)
BY DEF Verdict, LoadFailed

(* What Complete() changes. *)
LEMMA CompleteFact ==
    ASSUME NEW q \in RequestType, NEW r
    PROVE  /\ Complete(q, r).called /\ Same(Complete(q, r), q, {"called", "outcomes", "cleanup"})
           /\ Complete(q, r).outcomes = Append(q.outcomes, Verdict(q, r))
           /\ Complete(q, r).cleanup = (IF r \in Buffered THEN 3 ELSE 1)
           /\ Complete(q, r) \in RequestType
<1> DEFINE v == Verdict(q, r)
           n == IF r \in Buffered THEN 3 ELSE 1
<1>1. v \in {"success", "error", "timeout"} /\ q.outcomes \in Seq({"success", "error", "timeout"}) /\ n \in 0 .. 3
  BY DEF RequestType, Verdict
<1>2. Append(q.outcomes, v) \in Seq({"success", "error", "timeout"})
  BY <1>1
<1>3. Complete(q, r) = [q EXCEPT !.called = TRUE, !.outcomes = Append(q.outcomes, v), !.cleanup = n]
  BY DEF Complete, Verdict
<1> HIDE DEF v, n
<1>4. Complete(q, r) \in RequestType
  BY <1>1, <1>2, <1>3 DEF RequestType
<1>5. /\ Complete(q, r).called /\ Same(Complete(q, r), q, {"called", "outcomes", "cleanup"})
      /\ Complete(q, r).outcomes = Append(q.outcomes, v) /\ Complete(q, r).cleanup = n
  BY <1>3 DEF RequestType, Same, Fields
<1> QED
  BY <1>4, <1>5 DEF v, n

(* request_finished *)
LEMMA FinishedStep ==
    ASSUME IInv, request_finished
    PROVE  IInv'
<1>1. Delivered("request_finished")
  BY DEF request_finished
<1>2. /\ crash = "none" /\ waiting = None /\ toClient # <<>>
      /\ Head(toClient).type = "request_finished"
      /\ UNCHANGED <<server, writing, dropped, alive, waiting, toServer, response>>
      /\ toClient' = Tail(toClient) /\ Channels' /\ Stopping'
      /\ waiting' \in Requests \cup {None} /\ response' \in BOOLEAN
      /\ \A x : (Start(x)' <=> Start(x)) /\ (Stop(x)' <=> Stop(x)) /\ (Over(x)' <=> Over(x))
  BY <1>1, DeliveredFact
<1>3. /\ TypeOK /\ Channels /\ PendingLoadsExact /\ \A x \in Requests : RInv(x)
  BY DEF IInv
<1>4. Head(toClient).id \in Requests /\ Head(toClient).error \in BOOLEAN
  BY <1>2, <1>3, TakeClient
<1>5. PICK r \in Requests, e \in BOOLEAN : r = Head(toClient).id /\ e = Head(toClient).error
  BY <1>4
<1>6. /\ e => FailedMsg(r)
      /\ ~e => SucceededMsg(r)
      /\ ~HeadersMsg(r)
      /\ \A x \in Requests :
           /\ Started(x)' => Started(x)
           /\ FailedMsg(x)' => FailedMsg(x)
           /\ SucceededMsg(x)' => SucceededMsg(x)
           /\ HeadersMsg(x)' <=> HeadersMsg(x)
  <2>1. "request_finished" # "headers_became_available"
    OBVIOUS
  <2> QED
    BY <1>2, <1>3, <1>5, <2>1, TakeClient
<1>7. /\ \A x \in Requests : SameMessages(x)
      /\ \A x \in Requests \ {r} : SameMessages(x) /\ (waiting' = x => waiting = x)
  BY <1>2, <1>6 DEF SameMessages
<1>8. RInv(r) /\ request[r] \in RequestType
  BY <1>3 DEF TypeOK
<1>9. /\ Over(r) /\ request[r].loaded
      /\ request[r].valid => server[r].ended = (IF e THEN "error" ELSE "success")
      /\ request[r].valid /\ request[r].known /\ request[r].live => request[r].headers = 1
  BY <1>6, <1>8 DEF RInv, Ending, Fresh, NoAnswer
<1>10. (NoAnswer(r) => NoAnswer(r)') /\ (Over(r)' <=> Over(r)) /\ ~Start(r)' /\ server'[r] = server[r]
  BY <1>2, <1>6, <1>9 DEF NoAnswer, Over
<1>11. CASE ~(request[r].known /\ request[r].live)
  <2>1. request' = [request EXCEPT ![r].known = FALSE] /\ pendingLoads' = pendingLoads /\ crash' = crash
    BY <1>5, <1>11 DEF request_finished
  <2>2. /\ request' = [request EXCEPT ![r] = request'[r]]
        /\ request'[r] = [request[r] EXCEPT !.known = FALSE]
    BY <1>3, <2>1 DEF TypeOK
  <2>3. request'[r] \in RequestType /\ ~request'[r].known /\ Same(request'[r], request[r], {"known"})
    BY <1>8, <2>2 DEF RequestType, Same, Fields
  <2>4. RInv(r)'
    <3>1. Fresh(r)' /\ Starting(r)' /\ Finishing(r)'
      BY <1>8, <1>9, <1>10, <2>3 DEF Same, Fields, RInv, Fresh, Starting, Finishing
    <3>2. Serving(r)'
      BY <1>9, <1>10 DEF Serving, Over
    <3>3. Ending(r)'
      BY <1>6, <1>8, <1>9, <1>10, <2>3 DEF Same, Fields, RInv, Ending
    <3>4. Answered(r)'
      BY <1>6, <1>8, <1>9, <1>10, <2>3 DEF Same, Fields, RInv, Answered, Finishing
    <3>5. Settled(r)' /\ Cleaning(r)'
      BY <1>2, <1>8, <1>9, <1>10, <2>3 DEF Same, Fields, RInv, Settled, Told, Verdict, LoadFailed, Cleaning
    <3> QED
      BY <3>1, <3>2, <3>3, <3>4, <3>5 DEF RInv
  <2>5. PendingLoadsExact' /\ pendingLoads' \in 0 .. Cardinality(Requests)
    <3>1. Counts(request'[r]) <=> Counts(request[r])
      BY <2>3 DEF Counts, Same, Fields
    <3> QED
      BY <1>3, <2>1, <2>2, <3>1, CountKept
  <2>6. /\ request'[r].read = request[r].read
        /\ crash' \in {"none", "set_request_fd", "on_finish", "on_data_received", "send_sync", "stop"}
    BY <1>2, <2>1, <2>3 DEF Same, Fields
  <2> QED
    BY <1>2, <1>7, <2>2, <2>3, <2>4, <2>5, <2>6, ClientStepOf
<1>12. CASE request[r].known /\ request[r].live
  <2> DEFINE q == DidFinish(request[r], e)
  <2>1. /\ OnFinish(q, r)
        /\ crash' = IF request[r].fd THEN crash ELSE "on_finish"
    BY <1>5, <1>12 DEF request_finished
  <2>2. /\ q \in RequestType /\ Same(q, request[r], {"known", "done", "error"})
        /\ ~q.known /\ q.done /\ q.error = e
    BY <1>8 DEF DidFinish, RequestType, Same, Fields
  <2>3. ~request[r].called /\ ~request[r].done /\ ~q.called
    BY <1>8, <1>12, <2>2 DEF RInv, Finishing, Same, Fields
  <2>4. crash' \in {"none", "set_request_fd", "on_finish", "on_data_received", "send_sync", "stop"}
    BY <1>2, <2>1
  <2>5. CASE ~q.eof
    <3>1. request' = [request EXCEPT ![r] = q] /\ pendingLoads' = pendingLoads
      BY <1>3, <2>1, <2>5 DEF OnFinish, FinishNow, TypeOK
    <3>2. request' = [request EXCEPT ![r] = request'[r]] /\ request'[r] = q
      BY <1>3, <3>1 DEF TypeOK
    <3> HIDE DEF q
    <3>3. RInv(r)'
      <4>1. Fresh(r)' /\ Starting(r)' /\ Finishing(r)'
        BY <1>8, <1>9, <1>10, <2>2, <3>2 DEF Same, Fields, RInv, Fresh, Starting, Finishing
      <4>2. Serving(r)'
        BY <1>9, <1>10 DEF Serving, Over
      <4>3. Ending(r)'
        BY <1>6, <1>8, <1>9, <1>10, <2>2, <3>2 DEF Same, Fields, RInv, Ending
      <4>4. Answered(r)'
        BY <1>6, <1>8, <1>9, <1>10, <1>12, <2>2, <3>2 DEF Same, Fields, RInv, Answered
      <4>5. Settled(r)' /\ Cleaning(r)'
        BY <1>2, <1>8, <1>9, <1>10, <2>2, <2>3, <3>2 DEF Same, Fields, RInv, Settled, Told, Cleaning
      <4> QED
        BY <4>1, <4>2, <4>3, <4>4, <4>5 DEF RInv
    <3>4. PendingLoadsExact' /\ pendingLoads' \in 0 .. Cardinality(Requests)
      <4>1. Counts(request'[r]) <=> Counts(request[r])
        BY <2>2, <3>2 DEF Counts, Same, Fields
      <4> QED
        BY <1>3, <3>1, <3>2, <4>1, CountKept
    <3>5. request'[r].read = request[r].read
      BY <2>2, <3>2 DEF Same, Fields
    <3> QED
      BY <1>2, <1>7, <2>2, <2>4, <3>2, <3>3, <3>4, <3>5, ClientStepOf
  <2>6. CASE q.eof
    <3>1. /\ request' = [request EXCEPT ![r] = Complete(q, r)]
          /\ pendingLoads' = pendingLoads - (IF r \notin Buffered THEN 1 ELSE 0)
      BY <1>3, <2>1, <2>3, <2>6 DEF OnFinish, FinishNow
    <3>2. request' = [request EXCEPT ![r] = request'[r]] /\ request'[r] = Complete(q, r)
      BY <1>3, <3>1 DEF TypeOK
    <3> HIDE DEF q
    <3>3. /\ request'[r].called /\ Same(request'[r], q, {"called", "outcomes", "cleanup"})
          /\ request'[r].outcomes = Append(q.outcomes, Verdict(q, r))
          /\ request'[r].cleanup = (IF r \in Buffered THEN 3 ELSE 1)
          /\ request'[r] \in RequestType
      BY <2>2, <3>2, CompleteFact
    <3>4. /\ Same(request'[r], request[r],
                  {"known", "done", "error", "eof", "read", "called", "outcomes", "cleanup"})
          /\ request'[r].done /\ request'[r].eof /\ ~request'[r].known /\ request'[r].error = e
          /\ request'[r].read = request[r].read /\ request[r].eof
          /\ request'[r].outcomes = Append(request[r].outcomes, Verdict(request'[r], r))
      <4>1. /\ request'[r].error = q.error /\ request'[r].refused = q.refused /\ request'[r].read = q.read
            /\ q.outcomes = request[r].outcomes
        BY <2>2, <3>3 DEF Same, Fields
      <4>2. Verdict(request'[r], r) = Verdict(q, r)
        BY <4>1, VerdictSame
      <4> QED
        BY <2>2, <2>6, <3>3, <4>1, <4>2 DEF Same, Fields
    <3>5. /\ request[r].fd /\ request[r].valid /\ request[r].headers = 1
          /\ request[r].read = server[r].written
      BY <1>8, <1>9, <1>12, <3>4 DEF RInv, Finishing, Answered
    <3>6. RInv(r)' /\ PendingLoadsExact' /\ pendingLoads' \in 0 .. Cardinality(Requests)
      BY <1>2, <1>6, <1>9, <1>10, <1>12, <2>3, <3>1, <3>2, <3>3, <3>4, <3>5, Completed
    <3> QED
      BY <1>2, <1>7, <2>4, <3>2, <3>3, <3>4, <3>6, ClientStepOf
  <2> QED
    BY <2>5, <2>6
<1> QED
  BY <1>11, <1>12

(* A step that posts and takes nothing. *)
LEMMA NoMessages ==
    ASSUME UNCHANGED <<toServer, toClient>>
    PROVE  /\ \A x : SameMessages(x) /\ (NoAnswer(x)' <=> NoAnswer(x))
           /\ \A x : /\ Start(x)' <=> Start(x)
                     /\ Stop(x)' <=> Stop(x)
                     /\ Started(x)' <=> Started(x)
                     /\ HeadersMsg(x)' <=> HeadersMsg(x)
                     /\ FailedMsg(x)' <=> FailedMsg(x)
                     /\ SucceededMsg(x)' <=> SucceededMsg(x)
           /\ Channels => Channels'
<1>1. \A x : /\ Start(x)' <=> Start(x)
             /\ Stop(x)' <=> Stop(x)
             /\ Started(x)' <=> Started(x)
             /\ HeadersMsg(x)' <=> HeadersMsg(x)
             /\ FailedMsg(x)' <=> FailedMsg(x)
             /\ SucceededMsg(x)' <=> SucceededMsg(x)
  BY DEF Start, Stop, Started, HeadersMsg, FailedMsg, SucceededMsg
<1>2. Channels => Channels'
  BY DEF Channels
<1> QED
  BY <1>1, <1>2 DEF SameMessages, NoAnswer

(* What ReadAll() changes. *)
LEMMA ReadAllFact ==
    ASSUME TypeOK, NEW q \in RequestType, NEW r \in Requests
    PROVE  /\ Same(ReadAll(q, r), q, {"read", "eof"}) /\ ReadAll(q, r) \in RequestType
           /\ ReadAll(q, r).read = server[r].written
           /\ ReadAll(q, r).eof <=> server[r].kind # "request"
<1>1. server[r].written \in 0 .. MaxChunks
  BY DEF TypeOK, ServerType
<1>2. (~WriterOpen(r)) \in BOOLEAN /\ (~WriterOpen(r) <=> server[r].kind # "request")
  BY DEF WriterOpen
<1>3. ReadAll(q, r) = [q EXCEPT !.read = server[r].written, !.eof = ~WriterOpen(r)]
  BY DEF ReadAll
<1> QED
  BY <1>1, <1>2, <1>3 DEF RequestType, Same, Fields

(* The read notifier's on_activation. *)
LEMMA ReadPipeStep ==
    ASSUME IInv, NEW r \in Requests, ReadPipe(r)
    PROVE  IInv'
<1> DEFINE q == ReadAll(request[r], r)
<1>1. /\ crash = "none" /\ waiting = None /\ request[r].live /\ request[r].fd
      /\ UNCHANGED <<server, writing, dropped, alive, waiting, toServer, toClient, response, crash>>
      /\ IF q.done THEN OnFinish(q, r)
         ELSE request' = [request EXCEPT ![r] = q] /\ UNCHANGED pendingLoads
  BY DEF ReadPipe, ClientRuns, serverVars, channels
<1>2. /\ TypeOK /\ Channels /\ Stopping /\ PendingLoadsExact /\ RInv(r) /\ request[r] \in RequestType
  BY DEF IInv, TypeOK
<1>3. /\ Same(q, request[r], {"read", "eof"}) /\ q \in RequestType
      /\ q.read = server[r].written /\ (q.eof <=> server[r].kind # "request")
  BY <1>2, ReadAllFact
<1>4. \A x \in Requests \ {r} : SameMessages(x) /\ (waiting' = x => waiting = x)
  BY <1>1, NoMessages
<1>5. /\ \A x : (Start(x)' <=> Start(x)) /\ (Stop(x)' <=> Stop(x)) /\ (Over(x)' <=> Over(x))
      /\ Channels' /\ (NoAnswer(r)' <=> NoAnswer(r)) /\ (Started(r)' <=> Started(r))
      /\ (HeadersMsg(r)' <=> HeadersMsg(r)) /\ (FailedMsg(r)' <=> FailedMsg(r))
      /\ (SucceededMsg(r)' <=> SucceededMsg(r)) /\ server'[r] = server[r]
  BY <1>1, <1>2, NoMessages DEF Over
<1>6. Stopping'
  BY <1>1, <1>2, <1>5, RequestAssumption DEF Stopping
<1>7. /\ waiting' \in Requests \cup {None} /\ response' \in BOOLEAN
      /\ crash' \in {"none", "set_request_fd", "on_finish", "on_data_received", "send_sync", "stop"}
  BY <1>1, <1>2, Zenon DEF TypeOK
<1>8. request[r].loaded /\ request[r].valid /\ ~Start(r)
  BY <1>1, <1>2 DEF RInv, Fresh, NewRequest, Answered
<1>9. request[r].called => q.called /\ q.eof /\ q.done
  BY <1>2, <1>3 DEF RInv, Finishing, Over, Same, Fields
<1>10. CASE q.done /\ FinishNow(q)
  <2>1. /\ request' = [request EXCEPT ![r] = Complete(q, r)]
        /\ pendingLoads' = pendingLoads - (IF r \notin Buffered THEN 1 ELSE 0)
    BY <1>1, <1>10 DEF OnFinish
  <2>2. request' = [request EXCEPT ![r] = request'[r]] /\ request'[r] = Complete(q, r)
    BY <1>2, <2>1 DEF TypeOK
  <2>3. q.done /\ q.eof /\ ~q.called
    BY <1>10 DEF FinishNow
  <2> HIDE DEF q
  <2>4. /\ request'[r].called /\ Same(request'[r], q, {"called", "outcomes", "cleanup"})
        /\ request'[r].outcomes = Append(q.outcomes, Verdict(q, r))
        /\ request'[r].cleanup = (IF r \in Buffered THEN 3 ELSE 1)
        /\ request'[r] \in RequestType
    BY <1>3, <2>2, CompleteFact
  <2>5. /\ Same(request'[r], request[r],
                {"known", "done", "error", "eof", "read", "called", "outcomes", "cleanup"})
        /\ request'[r].done /\ request'[r].eof /\ request'[r].error = request[r].error
        /\ request'[r].known = request[r].known /\ request[r].done /\ ~request[r].called
        /\ request'[r].read = server[r].written
        /\ request'[r].outcomes = Append(request[r].outcomes, Verdict(request'[r], r))
    <3>1. /\ request'[r].error = q.error /\ request'[r].refused = q.refused /\ request'[r].read = q.read
          /\ q.outcomes = request[r].outcomes
      BY <1>3, <2>4 DEF Same, Fields
    <3>2. Verdict(request'[r], r) = Verdict(q, r)
      BY <3>1, VerdictSame
    <3> QED
      BY <1>3, <2>3, <2>4, <3>1, <3>2 DEF Same, Fields
  <2>6. /\ ~request[r].known /\ Over(r) /\ request[r].headers = 1
        /\ server[r].ended = (IF request'[r].error THEN "error" ELSE "success")
    BY <1>2, <1>8, <2>5 DEF RInv, Finishing, Answered
  <2>7. ~HeadersMsg(r) /\ ~request'[r].known
    BY <1>2, <2>5, <2>6 DEF RInv, Answered
  <2>8. RInv(r)' /\ PendingLoadsExact' /\ pendingLoads' \in 0 .. Cardinality(Requests)
    BY <1>1, <1>5, <1>8, <2>1, <2>2, <2>4, <2>5, <2>6, <2>7, Completed
  <2> QED
    BY <1>1, <1>4, <1>5, <1>6, <1>7, <2>2, <2>4, <2>5, <2>8, ClientStepOf
<1>11. CASE ~(q.done /\ FinishNow(q))
  <2>1. request' = [request EXCEPT ![r] = q] /\ pendingLoads' = pendingLoads
    BY <1>1, <1>2, <1>11 DEF OnFinish, TypeOK
  <2>2. request' = [request EXCEPT ![r] = request'[r]] /\ request'[r] = q
    BY <1>2, <2>1 DEF TypeOK
  <2> HIDE DEF q
  <2>3. RInv(r)'
    <3>1. Fresh(r)' /\ Starting(r)'
      BY <1>2, <1>3, <1>5, <1>8, <2>2 DEF Same, Fields, Fresh, Starting
    <3>2. Finishing(r)'
      BY <1>1, <1>2, <1>3, <1>5, <1>8, <1>9, <2>2 DEF Same, Fields, RInv, Finishing, Over
    <3>3. Serving(r)'
      BY <1>1, <1>2, <1>3, <1>5, <1>8, <2>2 DEF Same, Fields, RInv, Serving
    <3>4. Ending(r)'
      BY <1>2, <1>3, <1>5, <1>8, <2>2 DEF Same, Fields, RInv, Ending
    <3>5. Answered(r)'
      BY <1>2, <1>3, <1>5, <1>8, <2>2 DEF Same, Fields, RInv, Answered
    <3>6. Settled(r)' /\ Cleaning(r)'
      <4>1. Told(r)'
        <5>1. CASE request[r].called
          <6>1. request[r].read = server[r].written
            BY <1>2, <5>1 DEF RInv, Finishing
          <6>2. /\ request'[r].error = request[r].error /\ request'[r].refused = request[r].refused
                /\ request'[r].read = request[r].read /\ request'[r].called
                /\ request'[r].outcomes = request[r].outcomes /\ request'[r].live = request[r].live
            BY <1>3, <2>2, <5>1, <6>1 DEF Same, Fields
          <6>3. Verdict(request'[r], r) = Verdict(request[r], r)
            BY <6>2, VerdictSame
          <6> QED
            BY <1>2, <5>1, <6>2, <6>3 DEF RInv, Settled, Told
        <5>2. CASE ~request[r].called
          BY <1>2, <1>3, <1>5, <2>2, <5>2 DEF Same, Fields, RInv, Settled, Told
        <5> QED
          BY <5>1, <5>2
      <4> QED
        BY <1>1, <1>2, <1>3, <1>5, <1>8, <2>2, <4>1, RequestAssumption DEF Same, Fields, RInv, Settled, Cleaning
    <3> QED
      BY <3>1, <3>2, <3>3, <3>4, <3>5, <3>6 DEF RInv
  <2>4. PendingLoadsExact' /\ pendingLoads' \in 0 .. Cardinality(Requests)
    <3>1. Counts(request'[r]) <=> Counts(request[r])
      BY <1>3, <2>2 DEF Counts, Same, Fields
    <3> QED
      BY <1>2, <2>1, <2>2, <3>1, CountKept
  <2> QED
    BY <1>1, <1>3, <1>4, <1>5, <1>6, <1>7, <2>2, <2>3, <2>4, ClientStepOf
<1> QED
  BY <1>10, <1>11

(* What every step without messages leaves alone. *)
LEMMA QuietFact ==
    ASSUME IInv, UNCHANGED <<server, alive, waiting, toServer, toClient, response>>
    PROVE  /\ \A x : SameMessages(x) /\ (NoAnswer(x)' <=> NoAnswer(x)) /\ server'[x] = server[x]
           /\ \A x : (Start(x)' <=> Start(x)) /\ (Stop(x)' <=> Stop(x)) /\ (Over(x)' <=> Over(x))
           /\ \A x : /\ Started(x)' <=> Started(x)
                     /\ HeadersMsg(x)' <=> HeadersMsg(x)
                     /\ FailedMsg(x)' <=> FailedMsg(x)
                     /\ SucceededMsg(x)' <=> SucceededMsg(x)
           /\ Channels' /\ Stopping'
           /\ waiting' \in Requests \cup {None} /\ response' \in BOOLEAN
<1>1. TypeOK /\ Channels /\ Stopping
  BY DEF IInv
<1>2. \A x : (Start(x)' <=> Start(x)) /\ (Stop(x)' <=> Stop(x)) /\ (Over(x)' <=> Over(x))
  BY NoMessages DEF Over
<1>3. Stopping'
  BY <1>1, <1>2, RequestAssumption DEF Stopping
<1>4. waiting' \in Requests \cup {None} /\ response' \in BOOLEAN
  BY <1>1, Zenon DEF TypeOK
<1> QED
  BY <1>1, <1>2, <1>3, <1>4, NoMessages

(* A request keeps its invariant when its Request object is destroyed, or  *)
(* when it only loses callbacks and gets a later outcome.                  *)
LEMMA LessLive ==
    ASSUME NEW r \in Requests, RInv(r), crash = "none", server'[r] = server[r], alive' = alive,
           Same(request'[r], request[r], {"live", "timer", "active", "cleanup", "outcomes"}),
           request'[r].live => request[r].live, request[r].loaded,
           Start(r)' => Start(r), NoAnswer(r) => NoAnswer(r)', Over(r) => Over(r)',
           Started(r)' => Started(r), HeadersMsg(r)' <=> HeadersMsg(r),
           FailedMsg(r)' => FailedMsg(r), SucceededMsg(r)' => SucceededMsg(r),
           Settled(r)', Cleaning(r)'
    PROVE  RInv(r)'
<1>1. Fresh(r)' /\ Starting(r)' /\ Finishing(r)'
  BY DEF Same, Fields, RInv, Fresh, Starting, Finishing
<1>2. Serving(r)'
  BY DEF Same, Fields, RInv, Serving
<1>3. Ending(r)'
  BY DEF Same, Fields, RInv, Ending
<1>4. Answered(r)'
  BY DEF Same, Fields, RInv, Answered
<1> QED
  BY <1>1, <1>2, <1>3, <1>4 DEF RInv

(* The callback of load() returns. *)
LEMMA CallbackReturnsStep ==
    ASSUME IInv, NEW r \in Requests, CallbackReturns(r)
    PROVE  IInv'
<1>1. /\ crash = "none" /\ waiting = None /\ request[r].cleanup = 3
      /\ request' = [request EXCEPT ![r].cleanup = 2]
      /\ UNCHANGED <<pendingLoads, server, writing, dropped, alive, waiting, toServer, toClient, response, crash>>
  BY DEF CallbackReturns, ClientRuns, serverVars, channels
<1>2. /\ TypeOK /\ Channels /\ Stopping /\ PendingLoadsExact /\ RInv(r) /\ request[r] \in RequestType
  BY DEF IInv, TypeOK
<1>3. /\ \A x : SameMessages(x) /\ (NoAnswer(x)' <=> NoAnswer(x)) /\ server'[x] = server[x]
      /\ \A x : (Start(x)' <=> Start(x)) /\ (Stop(x)' <=> Stop(x)) /\ (Over(x)' <=> Over(x))
      /\ \A x : /\ Started(x)' <=> Started(x)
                /\ HeadersMsg(x)' <=> HeadersMsg(x)
                /\ FailedMsg(x)' <=> FailedMsg(x)
                /\ SucceededMsg(x)' <=> SucceededMsg(x)
      /\ Channels' /\ Stopping'
      /\ waiting' \in Requests \cup {None} /\ response' \in BOOLEAN
  BY <1>1, QuietFact
<1>4. request[r].called /\ request[r].active /\ request[r].loaded
  BY <1>1, <1>2 DEF RInv, Cleaning, Fresh, NewRequest
<1>5. /\ request' = [request EXCEPT ![r] = request'[r]]
      /\ request'[r] = [request[r] EXCEPT !.cleanup = 2]
  BY <1>1, <1>2 DEF TypeOK
<1>6. /\ request'[r] \in RequestType /\ request'[r].cleanup = 2
      /\ Same(request'[r], request[r], {"cleanup"})
  BY <1>2, <1>5 DEF RequestType, Same, Fields
<1>7. Settled(r)' /\ Cleaning(r)'
  BY <1>1, <1>2, <1>3, <1>4, <1>6, RequestAssumption
  DEF Same, Fields, RInv, Settled, Told, Verdict, LoadFailed, Cleaning
<1>8. RInv(r)'
  <2>1. /\ Same(request'[r], request[r], {"live", "timer", "active", "cleanup", "outcomes"})
        /\ request'[r].live => request[r].live
    BY <1>6 DEF Same, Fields
  <2> QED
    BY <1>1, <1>2, <1>3, <1>4, <1>7, <2>1, LessLive
<1>9. PendingLoadsExact' /\ pendingLoads' \in 0 .. Cardinality(Requests)
  <2>1. Counts(request'[r]) <=> Counts(request[r])
    BY <1>1, <1>6 DEF Counts, Same, Fields
  <2> QED
    BY <1>1, <1>2, <1>5, <2>1, CountKept
<1>10. /\ request'[r].read = request[r].read
       /\ crash' \in {"none", "set_request_fd", "on_finish", "on_data_received", "send_sync", "stop"}
       /\ \A x \in Requests \ {r} : SameMessages(x) /\ (waiting' = x => waiting = x)
  BY <1>1, <1>3, <1>6 DEF Same, Fields
<1> QED
  BY <1>1, <1>3, <1>5, <1>6, <1>8, <1>9, <1>10, ClientStepOf

(* finish_network_request() and the removal that it defers *)
LEMMA RunCleanupStep ==
    ASSUME IInv, NEW r \in Requests, RunCleanup(r)
    PROVE  IInv'
<1>1. /\ crash = "none" /\ waiting = None /\ request[r].cleanup \in {1, 2}
      /\ UNCHANGED <<server, writing, dropped, alive, waiting, toServer, toClient, response>>
  BY DEF RunCleanup, ClientRuns, serverVars, channels
<1>2. /\ TypeOK /\ Channels /\ Stopping /\ PendingLoadsExact /\ RInv(r) /\ request[r] \in RequestType
  BY DEF IInv, TypeOK
<1>3. /\ \A x : SameMessages(x) /\ (NoAnswer(x)' <=> NoAnswer(x)) /\ server'[x] = server[x]
      /\ \A x : (Start(x)' <=> Start(x)) /\ (Stop(x)' <=> Stop(x)) /\ (Over(x)' <=> Over(x))
      /\ \A x : /\ Started(x)' <=> Started(x)
                /\ HeadersMsg(x)' <=> HeadersMsg(x)
                /\ FailedMsg(x)' <=> FailedMsg(x)
                /\ SucceededMsg(x)' <=> SucceededMsg(x)
      /\ Channels' /\ Stopping'
      /\ waiting' \in Requests \cup {None} /\ response' \in BOOLEAN
  BY <1>1, QuietFact
<1>4. /\ request[r].called /\ request[r].active /\ request[r].loaded
      /\ request[r].cleanup \in {1, 2} /\ (request[r].timer => request[r].live)
  BY <1>1, <1>2 DEF RInv, Cleaning, Fresh, NewRequest, RequestType, Settled
<1>5. /\ request' = [request EXCEPT ![r] = request'[r]] /\ crash' = crash
      /\ request'[r] \in RequestType
      /\ Same(request'[r], request[r], {"live", "active", "cleanup"})
      /\ request'[r].live => request[r].live
      /\ request'[r].timer => request'[r].live
      /\ request'[r].cleanup # 0 => request'[r].active
      /\ PendingLoadsExact' /\ pendingLoads' \in 0 .. Cardinality(Requests)
  <2>1. CASE request[r].cleanup = 2
    <3>1. /\ request' = [request EXCEPT ![r].cleanup = 1] /\ crash' = crash
          /\ pendingLoads' = pendingLoads - 1
      BY <2>1 DEF RunCleanup
    <3>2. /\ request' = [request EXCEPT ![r] = request'[r]]
          /\ request'[r] = [request[r] EXCEPT !.cleanup = 1]
          /\ \A x \in Requests \ {r} : request'[x] = request[x]
      BY <1>2, <3>1 DEF TypeOK
    <3>3. /\ request'[r] \in RequestType /\ request'[r].cleanup = 1
          /\ Same(request'[r], request[r], {"cleanup"})
      BY <1>2, <3>2 DEF RequestType, Same, Fields
    <3>4. /\ Same(request'[r], request[r], {"live", "active", "cleanup"})
          /\ request'[r].live = request[r].live /\ request'[r].timer = request[r].timer
          /\ request'[r].active = request[r].active
      BY <3>3 DEF Same, Fields
    <3>5. Counts(request[r]) /\ ~Counts(request'[r])
      BY <1>4, <2>1, <3>3 DEF Counts
    <3>6. PendingLoadsExact' /\ pendingLoads' \in 0 .. Cardinality(Requests)
      BY <1>2, <3>1, <3>2, <3>5, CountLess
    <3> QED
      BY <1>4, <3>1, <3>2, <3>3, <3>4, <3>6
  <2>2. CASE request[r].cleanup = 1
    <3>1. /\ request' = [request EXCEPT ![r] = Unreferenced([request[r] EXCEPT !.cleanup = 0, !.active = FALSE])]
          /\ crash' = crash /\ pendingLoads' = pendingLoads
      BY <1>4, <2>2 DEF RunCleanup
    <3>2. /\ request' = [request EXCEPT ![r] = request'[r]]
          /\ request'[r] = Unreferenced([request[r] EXCEPT !.cleanup = 0, !.active = FALSE])
      BY <1>2, <3>1 DEF TypeOK
    <3>3. request'[r] = [request[r] EXCEPT !.cleanup = 0, !.active = FALSE, !.live = request[r].timer]
      BY <1>2, <3>2 DEF Unreferenced, RequestType
    <3>4. /\ request'[r] \in RequestType /\ request'[r].cleanup = 0 /\ ~request'[r].active
          /\ request'[r].live = request[r].timer
          /\ Same(request'[r], request[r], {"live", "active", "cleanup"})
      <4>1. 0 \in 0 .. 3 /\ request[r].timer \in BOOLEAN
        BY <1>2 DEF RequestType
      <4>2. request'[r] \in RequestType
        BY <1>2, <3>3, <4>1 DEF RequestType
      <4>3. /\ request'[r].cleanup = 0 /\ ~request'[r].active
            /\ Same(request'[r], request[r], {"live", "active", "cleanup"})
        BY <1>2, <3>3 DEF RequestType, Same, Fields
      <4>4. request'[r].live = request[r].timer
        BY <1>2, <3>3 DEF RequestType
      <4> QED
        BY <4>2, <4>3, <4>4
    <3>5. request'[r].timer = request[r].timer
      BY <3>4 DEF Same, Fields
    <3>6. PendingLoadsExact' /\ pendingLoads' \in 0 .. Cardinality(Requests)
      <4>1. Counts(request'[r]) <=> Counts(request[r])
        BY <2>2, <3>4 DEF Counts
      <4> QED
        BY <1>2, <3>1, <3>2, <4>1, CountKept
    <3> QED
      BY <1>4, <3>1, <3>2, <3>4, <3>5, <3>6
  <2> QED
    BY <1>4, <2>1, <2>2
<1>6. Settled(r)' /\ Cleaning(r)'
  <2>1. Told(r)'
    BY <1>2, <1>3, <1>4, <1>5 DEF Same, Fields, RInv, Settled, Told, Verdict, LoadFailed
  <2>2. Cleaning(r)'
    BY <1>4, <1>5 DEF Same, Fields, Cleaning
  <2> QED
    BY <1>1, <1>5, <2>1, <2>2, RequestAssumption DEF Settled
<1>7. RInv(r)'
  <2>1. Same(request'[r], request[r], {"live", "timer", "active", "cleanup", "outcomes"})
    BY <1>5 DEF Same, Fields
  <2> QED
    BY <1>1, <1>2, <1>3, <1>4, <1>5, <1>6, <2>1, LessLive
<1>8. /\ request'[r].read = request[r].read
      /\ crash' \in {"none", "set_request_fd", "on_finish", "on_data_received", "send_sync", "stop"}
  BY <1>1, <1>5 DEF Same, Fields
<1>9. \A x \in Requests \ {r} : SameMessages(x) /\ (waiting' = x => waiting = x)
  BY <1>1, <1>3
<1> QED
  BY <1>1, <1>3, <1>5, <1>7, <1>8, <1>9, ClientStepOf

(* The outcome that comes second. *)
LEMMA AppendSecond == \A x, y : Append(<<>>, y) = <<y>> /\ Append(<<x>>, y) = <<x, y>>
<1> SUFFICES ASSUME NEW x, NEW y PROVE Append(<<>>, y) = <<y>> /\ Append(<<x>>, y) = <<x, y>>
  OBVIOUS
<1>1. <<x>> \in Seq({x, y}) /\ y \in {x, y} /\ <<x, y>> \in Seq({x, y}) /\ Append(<<x>>, y) \in Seq({x, y})
  OBVIOUS
<1>2. Len(<<x>>) = 1 /\ Len(<<x, y>>) = 2 /\ Len(Append(<<x>>, y)) = 2
  BY <1>1
<1>3. /\ Append(<<x>>, y)[1] = x /\ Append(<<x>>, y)[2] = y
      /\ <<x, y>>[1] = x /\ <<x, y>>[2] = y
  BY <1>1, <1>2
<1>4. \A i \in 1 .. 2 : i = 1 \/ i = 2
  OBVIOUS
<1>5. Append(<<>>, y) = <<y>>
  OBVIOUS
<1> DEFINE a == Append(<<x>>, y)
           b == <<x, y>>
<1>6. a \in Seq({x, y}) /\ b \in Seq({x, y}) /\ Len(a) = Len(b) /\ \A i \in 1 .. Len(a) : a[i] = b[i]
  BY <1>1, <1>2, <1>3, <1>4
<1>7. a = b
  <2> HIDE DEF a, b
  <2> QED
    BY <1>6, SeqEqual
<1> QED
  BY <1>5, <1>7

(* What the timer and its answer make of a request. *)
LEMMA TimeOutFact ==
    ASSUME NEW q \in RequestType
    PROVE  /\ Stopped(q) \in RequestType /\ ~Stopped(q).live /\ ~Stopped(q).timer
           /\ Same(Stopped(q), q, {"live", "timer"})
           /\ TimedOut(q) \in RequestType /\ TimedOut(q).outcomes = Append(q.outcomes, "timeout")
           /\ Same(TimedOut(q), q, {"outcomes"})
<1>1. q.outcomes \in Seq({"success", "error", "timeout"}) /\ "timeout" \in {"success", "error", "timeout"}
  BY DEF RequestType
<1>2. Append(q.outcomes, "timeout") \in Seq({"success", "error", "timeout"})
  BY <1>1
<1>3. TimedOut(q) = [q EXCEPT !.outcomes = Append(q.outcomes, "timeout")]
  BY DEF TimedOut
<1>4. TimedOut(q) \in RequestType
  BY <1>2, <1>3 DEF RequestType
<1>5. TimedOut(q).outcomes = Append(q.outcomes, "timeout") /\ Same(TimedOut(q), q, {"outcomes"})
  BY <1>3 DEF RequestType, Same, Fields
<1>6. /\ Stopped(q) \in RequestType /\ ~Stopped(q).live /\ ~Stopped(q).timer
      /\ Same(Stopped(q), q, {"live", "timer"})
  BY DEF Stopped, RequestType, Same, Fields
<1> QED
  BY <1>4, <1>5, <1>6

(* The timer of load() *)
LEMMA TimeOutStep ==
    ASSUME IInv, NEW r \in Requests, TimeOut(r)
    PROVE  IInv'
<1>1. /\ crash = "none" /\ waiting = None /\ request[r].timer
      /\ UNCHANGED <<pendingLoads, server, writing, dropped, alive, toClient, response, crash>>
  BY DEF TimeOut, ClientRuns, serverVars
<1>2. /\ TypeOK /\ Channels /\ Stopping /\ PendingLoadsExact /\ RInv(r) /\ request[r] \in RequestType
  BY DEF IInv, TypeOK
<1>3. request[r].live /\ request[r].loaded
  BY <1>1, <1>2 DEF RInv, Settled, Fresh, NewRequest
<1>4. ~response /\ \A x \in Requests : ~Stop(x)
  BY <1>1, <1>2, RequestAssumption DEF Stopping
<1>5. CASE ~request[r].known
  <2>1. request' = [request EXCEPT ![r] = TimedOut(Stopped(request[r]))] /\ UNCHANGED <<waiting, toServer>>
    BY <1>5 DEF TimeOut
  <2>2. request' = [request EXCEPT ![r] = request'[r]] /\ request'[r] = TimedOut(Stopped(request[r]))
    BY <1>2, <2>1 DEF TypeOK
  <2>3. /\ request'[r] \in RequestType /\ ~request'[r].live /\ ~request'[r].timer
        /\ request'[r].outcomes = Append(request[r].outcomes, "timeout")
        /\ Same(request'[r], request[r], {"live", "timer", "outcomes"})
    <3> DEFINE q == Stopped(request[r])
    <3>1. q \in RequestType /\ ~q.live /\ ~q.timer /\ Same(q, request[r], {"live", "timer"})
      BY <1>2, TimeOutFact
    <3>2. /\ TimedOut(q) \in RequestType /\ TimedOut(q).outcomes = Append(q.outcomes, "timeout")
          /\ Same(TimedOut(q), q, {"outcomes"})
      BY <3>1, TimeOutFact
    <3>3. request'[r] = TimedOut(q)
      BY <2>2
    <3> HIDE DEF q
    <3> QED
      BY <3>1, <3>2, <3>3 DEF Same, Fields
  <2>4. /\ \A x : SameMessages(x) /\ (NoAnswer(x)' <=> NoAnswer(x)) /\ server'[x] = server[x]
        /\ \A x : (Start(x)' <=> Start(x)) /\ (Stop(x)' <=> Stop(x)) /\ (Over(x)' <=> Over(x))
        /\ \A x : /\ Started(x)' <=> Started(x)
                  /\ HeadersMsg(x)' <=> HeadersMsg(x)
                  /\ FailedMsg(x)' <=> FailedMsg(x)
                  /\ SucceededMsg(x)' <=> SucceededMsg(x)
        /\ Channels' /\ Stopping'
        /\ waiting' \in Requests \cup {None} /\ response' \in BOOLEAN
    BY <1>1, <2>1, QuietFact
  <2>5. Settled(r)' /\ Cleaning(r)'
    <3>1. Over(r)'
      BY <1>2, <1>3, <1>5, <2>4 DEF RInv, Answered
    <3>2. request'[r].called = request[r].called /\ request'[r].active = request[r].active
          /\ request'[r].loaded = request[r].loaded /\ request'[r].cleanup = request[r].cleanup
          /\ request'[r].error = request[r].error /\ request'[r].refused = request[r].refused
          /\ request'[r].read = request[r].read
      BY <2>3 DEF Same, Fields
    <3>a. Verdict(request'[r], r) = Verdict(request[r], r)
      BY <3>2, VerdictSame
    <3>3. \/ ~request[r].called /\ request[r].outcomes = <<>>
          \/ request[r].called /\ request[r].outcomes = <<Verdict(request[r], r)>>
      BY <1>2, <1>3 DEF RInv, Settled, Told
    <3>4. /\ Append(<<>>, "timeout") = <<"timeout">>
          /\ Append(<<Verdict(request[r], r)>>, "timeout") = <<Verdict(request[r], r), "timeout">>
      BY AppendSecond
    <3>5. Told(r)'
      BY <2>3, <2>4, <3>1, <3>2, <3>a, <3>3, <3>4 DEF Told
    <3>6. Cleaning(r)'
      BY <1>2, <3>2 DEF RInv, Cleaning
    <3> QED
      BY <1>1, <2>1, <2>3, <3>5, <3>6, RequestAssumption DEF Settled
  <2>6. RInv(r)'
    <3>1. Same(request'[r], request[r], {"live", "timer", "active", "cleanup", "outcomes"})
      BY <2>3 DEF Same, Fields
    <3> QED
      BY <1>1, <1>2, <1>3, <2>3, <2>4, <2>5, <3>1, LessLive
  <2>7. PendingLoadsExact' /\ pendingLoads' \in 0 .. Cardinality(Requests)
    <3>1. Counts(request'[r]) <=> Counts(request[r])
      BY <2>3 DEF Counts, Same, Fields
    <3> QED
      BY <1>1, <1>2, <2>2, <3>1, CountKept
  <2>8. /\ request'[r].read = request[r].read
        /\ crash' \in {"none", "set_request_fd", "on_finish", "on_data_received", "send_sync", "stop"}
    BY <1>1, <2>3 DEF Same, Fields
  <2>9. \A x \in Requests \ {r} : SameMessages(x) /\ (waiting' = x => waiting = x)
    BY <2>1, <2>4
  <2> QED
    BY <1>1, <2>2, <2>3, <2>4, <2>6, <2>7, <2>8, <2>9, ClientStepOf
<1>6. CASE request[r].known
  <2>1. /\ request' = [request EXCEPT ![r] = Stopped(request[r])] /\ waiting' = r
        /\ Post("stop_request", r)
    BY <1>6 DEF TimeOut
  <2>2. request' = [request EXCEPT ![r] = request'[r]] /\ request'[r] = Stopped(request[r])
    BY <1>2, <2>1 DEF TypeOK
  <2>3. /\ request'[r] \in RequestType /\ ~request'[r].live /\ ~request'[r].timer
        /\ Same(request'[r], request[r], {"live", "timer"})
    BY <1>2, <2>2, TimeOutFact
  <2>4. /\ toServer' \in Seq(ServerMessages) /\ Ordered(toServer')
        /\ \A x \in Requests : (Start(x)' => Start(x)) /\ (Stop(x)' => Stop(x) \/ x = r)
    BY <1>2, <1>4, <2>1, PostStop
  <2>5. \A x : /\ Started(x)' <=> Started(x)
               /\ HeadersMsg(x)' <=> HeadersMsg(x)
               /\ FailedMsg(x)' <=> FailedMsg(x)
               /\ SucceededMsg(x)' <=> SucceededMsg(x)
               /\ server'[x] = server[x]
    BY <1>1 DEF Started, HeadersMsg, FailedMsg, SucceededMsg
  <2>6. \A x \in Requests : (Over(x) => Over(x)') /\ (NoAnswer(x) => NoAnswer(x)')
    BY <2>4, <2>5 DEF Over, NoAnswer
  <2>7. Settled(r)' /\ Cleaning(r)'
    <3>1. /\ request'[r].called = request[r].called /\ request'[r].active = request[r].active
          /\ request'[r].loaded = request[r].loaded /\ request'[r].cleanup = request[r].cleanup
          /\ request'[r].outcomes = request[r].outcomes
      BY <2>3 DEF Same, Fields
    <3>2. ~request[r].called /\ request[r].outcomes = <<>>
      BY <1>2, <1>3, <1>6 DEF RInv, Finishing, Settled, Told, Verdict, LoadFailed
    <3> QED
      BY <1>2, <2>3, <3>1, <3>2 DEF RInv, Settled, Told, Verdict, LoadFailed, Cleaning
  <2>8. RInv(r)'
    <3>1. Same(request'[r], request[r], {"live", "timer", "active", "cleanup", "outcomes"})
      BY <2>3 DEF Same, Fields
    <3> QED
      BY <1>1, <1>2, <1>3, <2>3, <2>4, <2>5, <2>6, <2>7, <3>1, LessLive
  <2>9. PendingLoadsExact' /\ pendingLoads' \in 0 .. Cardinality(Requests)
    <3>1. Counts(request'[r]) <=> Counts(request[r])
      BY <2>3 DEF Counts, Same, Fields
    <3> QED
      BY <1>1, <1>2, <2>2, <3>1, CountKept
  <2>10. /\ request'[r].read = request[r].read
         /\ crash' \in {"none", "set_request_fd", "on_finish", "on_data_received", "send_sync", "stop"}
    BY <1>1, <2>3 DEF Same, Fields
  <2>11. \A x \in Requests \ {r} : SameMessages(x) /\ (waiting' = x => waiting = x)
    BY <2>1, <2>4, <2>5 DEF SameMessages
  <2>12. Channels' /\ Stopping'
    <3>1. Stopping'
      BY <1>1, <1>4, <2>1, <2>4 DEF Stopping
    <3> QED
      BY <1>1, <1>2, <2>4, <3>1 DEF Channels
  <2>13. waiting' \in Requests \cup {None} /\ response' \in BOOLEAN
    BY <1>1, <1>2, <2>1, Zenon DEF TypeOK
  <2> QED
    BY <1>1, <2>2, <2>3, <2>8, <2>9, <2>10, <2>11, <2>12, <2>13, ClientStepOf
<1> QED
  BY <1>2, <1>5, <1>6

(* stop() has its answer. *)
LEMMA StopAnsweredStep ==
    ASSUME IInv, StopAnswered
    PROVE  IInv'
<1>1. /\ crash = "none" /\ waiting # None /\ response /\ waiting' = None /\ response' = FALSE
      /\ request' = [request EXCEPT ![waiting] = TimedOut(@)]
      /\ UNCHANGED <<pendingLoads, server, writing, dropped, alive, toServer, toClient, crash>>
  BY DEF StopAnswered, serverVars
<1>2. TypeOK /\ Channels /\ Stopping /\ PendingLoadsExact /\ \A x \in Requests : RInv(x)
  BY DEF IInv
<1>3. PICK r \in Requests : r = waiting
  BY <1>1, <1>2 DEF TypeOK
<1>4. RInv(r) /\ request[r] \in RequestType /\ Over(r) /\ \A x \in Requests : ~Stop(x)
  BY <1>1, <1>2, <1>3 DEF Stopping, TypeOK
<1>5. ~request[r].called /\ request[r].outcomes = <<>> /\ ~request[r].live /\ request[r].loaded /\ ~request[r].timer
  BY <1>3, <1>4 DEF RInv, Settled, Fresh
<1>6. request' = [request EXCEPT ![r] = request'[r]] /\ request'[r] = TimedOut(request[r])
  BY <1>1, <1>2, <1>3 DEF TypeOK
<1>7. /\ request'[r] \in RequestType /\ request'[r].outcomes = Append(request[r].outcomes, "timeout")
      /\ Same(request'[r], request[r], {"outcomes"})
  BY <1>4, <1>6, TimeOutFact
<1>8. request'[r].outcomes = <<"timeout">>
  BY <1>5, <1>7, AppendSecond
<1>9. /\ \A x : SameMessages(x) /\ (NoAnswer(x)' <=> NoAnswer(x)) /\ server'[x] = server[x]
      /\ \A x : (Start(x)' <=> Start(x)) /\ (Stop(x)' <=> Stop(x)) /\ (Over(x)' <=> Over(x))
      /\ \A x : /\ Started(x)' <=> Started(x)
                /\ HeadersMsg(x)' <=> HeadersMsg(x)
                /\ FailedMsg(x)' <=> FailedMsg(x)
                /\ SucceededMsg(x)' <=> SucceededMsg(x)
      /\ Channels'
  BY <1>1, <1>2, NoMessages DEF Over
<1>10. Settled(r)' /\ Cleaning(r)'
  <2>1. /\ request'[r].called = request[r].called /\ request'[r].active = request[r].active
        /\ request'[r].loaded = request[r].loaded /\ request'[r].cleanup = request[r].cleanup
        /\ request'[r].live = request[r].live /\ request'[r].timer = request[r].timer
    BY <1>7 DEF Same, Fields
  <2>2. Told(r)'
    BY <1>4, <1>5, <1>8, <1>9, <2>1 DEF Told, Verdict, LoadFailed
  <2>3. Cleaning(r)'
    BY <1>4, <2>1 DEF RInv, Cleaning
  <2> QED
    BY <1>1, <1>5, <2>1, <2>2, <2>3, RequestAssumption DEF Settled
<1>11. RInv(r)'
  <2>1. /\ Same(request'[r], request[r], {"live", "timer", "active", "cleanup", "outcomes"})
        /\ request'[r].live => request[r].live
    BY <1>7 DEF Same, Fields
  <2> QED
    BY <1>1, <1>4, <1>5, <1>9, <1>10, <2>1, LessLive
<1>12. PendingLoadsExact' /\ pendingLoads' \in 0 .. Cardinality(Requests)
  <2>1. Counts(request'[r]) <=> Counts(request[r])
    BY <1>7 DEF Counts, Same, Fields
  <2> QED
    BY <1>1, <1>2, <1>6, <2>1, CountKept
<1>13. /\ request'[r].read = request[r].read
       /\ crash' \in {"none", "set_request_fd", "on_finish", "on_data_received", "send_sync", "stop"}
  BY <1>1, <1>7 DEF Same, Fields
<1>14. \A x \in Requests \ {r} : SameMessages(x) /\ (waiting' = x => waiting = x)
  BY <1>1, <1>9, RequestAssumption
<1>15. Stopping' /\ waiting' \in Requests \cup {None} /\ response' \in BOOLEAN
  BY <1>1, <1>4, <1>9 DEF Stopping
<1> QED
  BY <1>1, <1>6, <1>7, <1>9, <1>11, <1>12, <1>13, <1>14, <1>15, ClientStepOf

(* A VERIFY fails: in send_sync(), or in Function::clear() when the timer  *)
(* fires in a callback of load().                                          *)
LEMMA CrashStep ==
    ASSUME IInv, crash = "none", crash' \in {"send_sync", "stop"},
           UNCHANGED <<clientVars, serverVars, channels>>
    PROVE  IInv'
<1>1. /\ crash = "none"
      /\ crash' \in {"none", "set_request_fd", "on_finish", "on_data_received", "send_sync", "stop"}
      /\ UNCHANGED <<request, pendingLoads, server, writing, dropped, alive, waiting, toServer, toClient, response>>
  BY DEF clientVars, serverVars, channels
<1>2. TypeOK /\ Channels /\ Stopping /\ Spinning /\ PendingLoadsExact /\ \A x \in Requests : RInv(x)
  BY DEF IInv
<1>3. (\A x : SameMessages(x)) /\ Channels' /\ Stopping'
  BY <1>1, QuietFact
<1>4. ASSUME NEW x \in Requests PROVE RInv(x)'
  BY <1>1, <1>2, <1>3, Frame
<1>5. PendingLoadsExact' /\ pendingLoads' \in 0 .. Cardinality(Requests)
  BY <1>1, <1>2, CountSame
<1>6. Spinning'
  BY <1>1, <1>2 DEF Spinning
<1>7. waiting' \in Requests \cup {None} /\ response' \in BOOLEAN /\ request' \in [Requests -> RequestType]
  BY <1>1, <1>2, Zenon DEF TypeOK
<1>8. TypeOK'
  BY <1>1, <1>2, <1>5, <1>7, ClientTypes
<1> QED
  BY <1>3, <1>4, <1>5, <1>6, <1>8 DEF IInv

(* send_sync() fails. *)
LEMMA StopFailsStep ==
    ASSUME IInv, StopFails
    PROVE  IInv'
BY CrashStep DEF StopFails

(* The timer fires in a callback of load(). *)
LEMMA TimeOutInCallbackStep ==
    ASSUME IInv, NEW r \in Requests, TimeOutInCallback(r)
    PROVE  IInv'
BY CrashStep DEF TimeOutInCallback, ClientRuns

-----------------------------------------------------------------------------
(***************************************************************************)
(* The steps of RequestServer.                                             *)
(***************************************************************************)

(* A step of the server that concerns one request. *)
LEMMA ServerStepOf ==
    ASSUME IInv, NEW r \in Requests, crash = "none", UNCHANGED <<request, pendingLoads, waiting, alive>>,
           server'[r] \in ServerType, server' = [server EXCEPT ![r] = server'[r]],
           server'[r].written - request[r].read \in 0 .. PipeSize,
           \A x \in Requests \ {r} : SameMessages(x),
           response' \in BOOLEAN, writing' \in Requests \cup {None}, dropped' \subseteq Requests,
           crash' \in {"none", "set_request_fd", "on_finish", "on_data_received", "send_sync", "stop"},
           Channels', Stopping', Spinning', RInv(r)'
    PROVE  IInv'
<1>1. TypeOK /\ PendingLoadsExact /\ \A x \in Requests : RInv(x)
  BY DEF IInv
<1>2. /\ server' \in [Requests -> ServerType]
      /\ \A x \in Requests \ {r} : server'[x] = server[x]
  BY <1>1 DEF TypeOK
<1>3. PendingLoadsExact' /\ pendingLoads' \in 0 .. Cardinality(Requests)
  BY <1>1, CountSame
<1>4. ASSUME NEW x \in Requests PROVE InPipe(x)' \in 0 .. PipeSize
  <2>1. CASE x = r
    BY <2>1 DEF InPipe
  <2>2. CASE x # r
    <3>1. server'[x] = server[x] /\ request'[x] = request[x] /\ InPipe(x) \in 0 .. PipeSize
      BY <1>1, <1>2, <2>2 DEF TypeOK
    <3> QED
      BY <3>1 DEF InPipe
  <2> QED
    BY <2>1, <2>2
<1>5. {alive', response'} \subseteq BOOLEAN
  BY <1>1, Zenon DEF TypeOK
<1>6. TypeOK'
  BY <1>1, <1>2, <1>3, <1>4, <1>5 DEF TypeOK
<1>7. ASSUME NEW x \in Requests PROVE RInv(x)'
  <2>1. CASE x = r
    BY <2>1
  <2>2. CASE x # r
    <3>1. request'[x] = request[x] /\ server'[x] = server[x] /\ alive' = alive /\ waiting' = waiting
      BY <1>2, <2>2
    <3> QED
      BY <1>1, <2>2, <3>1, Frame
  <2> QED
    BY <2>1, <2>2
<1> QED
  BY <1>3, <1>6, <1>7 DEF IInv

(* The server has forgotten a request, or never had it. *)
LEMMA Forgotten ==
    ASSUME NEW r \in Requests, RInv(r), request'[r] = request[r], server'[r].kind # "request",
           server'[r].written = server[r].written, server'[r].ended = server[r].ended,
           Start(r)' => Start(r), Stop(r)' => Stop(r), Started(r)' => Started(r),
           FailedMsg(r)' => FailedMsg(r), SucceededMsg(r)' => SucceededMsg(r),
           HeadersMsg(r)' => HeadersMsg(r),
           FailedMsg(r)' \/ SucceededMsg(r)' => (HeadersMsg(r)' <=> HeadersMsg(r)),
           waiting' = r => waiting = r
    PROVE  RInv(r)'
<1>1. (Over(r) => Over(r)') /\ (NoAnswer(r) => NoAnswer(r)')
  BY DEF Over, NoAnswer
<1>2. Fresh(r)' /\ Starting(r)' /\ Serving(r)'
  BY <1>1 DEF RInv, Fresh, Starting, Serving
<1>3. Ending(r)'
  BY <1>1 DEF RInv, Ending
<1>4. Answered(r)' /\ Finishing(r)'
  BY <1>1 DEF RInv, Answered, Finishing
<1>5. Settled(r)' /\ Cleaning(r)'
  BY <1>1 DEF RInv, Settled, Told, Verdict, LoadFailed, Cleaning
<1> QED
  BY <1>2, <1>3, <1>4, <1>5 DEF RInv

(* A message that the server posts comes after those of its request that   *)
(* are on their way.                                                       *)
LEMMA PostAnswer ==
    ASSUME NEW ch \in Seq(ClientMessages), Ordered(ch), NEW r \in Requests,
           NEW m \in {Message("request_started", r), Refused(r), Accepted(r),
                      Failed(r), Succeeded(r)},
           ~Has(ch, Failed(r)), ~Has(ch, Succeeded(r)),
           m.type \in {"request_started", "headers_became_available"} =>
               ~Has(ch, Refused(r)) /\ ~Has(ch, Accepted(r)),
           m.type = "request_started" => ~Has(ch, Message("request_started", r))
    PROVE  /\ Append(ch, m) \in Seq(ClientMessages) /\ Ordered(Append(ch, m))
           /\ \A x : Has(Append(ch, m), x) <=> Has(ch, x) \/ x = m
<1>1. m \in ClientMessages /\ m.id = r
      /\ m.type \in {"request_started", "headers_became_available", "request_finished"}
  <2>1. m.id = r /\ m.type \in {"request_started", "headers_became_available", "request_finished"}
    BY MessageFact
  <2>2. /\ Message("request_started", r) \in ClientMessages
        /\ Refused(r) \in ClientMessages /\ Accepted(r) \in ClientMessages
    BY DEF ClientMessages, Message, Refused, Accepted
  <2>3. Failed(r) \in ClientMessages /\ Succeeded(r) \in ClientMessages
    BY DEF ClientMessages, Failed, Succeeded, Finished
  <2> QED
    BY <2>1, <2>2, <2>3
<1>2. ASSUME NEW x, Has(ch, x), x.id = m.id PROVE <<x.type, m.type>> \in Before
  <2>1. \/ x = Message("request_started", r) \/ x = Refused(r) \/ x = Accepted(r)
    BY <1>1, <1>2, ClientMessage
  <2>2. CASE x = Message("request_started", r)
    BY <1>1, <1>2, <2>2, MessageFact DEF Before
  <2>3. CASE x = Refused(r) \/ x = Accepted(r)
    BY <1>1, <1>2, <2>3, MessageFact DEF Before
  <2> QED
    BY <2>1, <2>2, <2>3
<1>3. Ordered(Append(ch, m))
  BY <1>1, <1>2, AppendOrdered
<1> QED
  BY <1>1, <1>3, AppendFact

(* What a posted message changes for the requests: nothing but itself. *)
LEMMA PostedFact ==
    ASSUME NEW r, NEW m \in {Message("request_started", r), Refused(r), Accepted(r),
                             Failed(r), Succeeded(r)},
           \A x : Has(toClient', x) <=> Has(toClient, x) \/ x = m
    PROVE  \A x : /\ Started(x)' <=> Started(x) \/ (x = r /\ m = Message("request_started", r))
                  /\ HeadersMsg(x)' <=> HeadersMsg(x) \/ (x = r /\ m \in {Refused(r), Accepted(r)})
                  /\ FailedMsg(x)' <=> FailedMsg(x) \/ (x = r /\ m = Failed(r))
                  /\ SucceededMsg(x)' <=> SucceededMsg(x) \/ (x = r /\ m = Succeeded(r))
<1>1. ASSUME NEW x
      PROVE  /\ m = Message("request_started", x) <=> x = r /\ m = Message("request_started", r)
             /\ m = Refused(x) <=> x = r /\ m = Refused(r)
             /\ m = Accepted(x) <=> x = r /\ m = Accepted(r)
             /\ m = Failed(x) <=> x = r /\ m = Failed(r)
             /\ m = Succeeded(x) <=> x = r /\ m = Succeeded(r)
  <2>1. m.id = r
    BY MessageFact
  <2> QED
    BY <2>1, MessageFact
<1> QED
  BY <1>1 DEF Started, HeadersMsg, FailedMsg, SucceededMsg

(* A message that the server takes leaves the answers alone. *)
LEMMA ReceivedFact ==
    ASSUME IInv, NEW t \in {"start_request", "stop_request"}, Received(t)
    PROVE  /\ crash = "none" /\ alive /\ writing = None
           /\ UNCHANGED <<request, pendingLoads, waiting, preconnects, alive, writing, crash>>
           /\ toServer' \in Seq(ServerMessages) /\ Ordered(toServer')
           /\ \A x \in Requests : (Start(x)' => Start(x)) /\ (Stop(x)' => Stop(x))
           /\ Head(toServer).id \in Requests
           /\ t = "start_request" =>
                Start(Head(toServer).id) /\ ~Has(toServer', Message("start_request", Head(toServer).id))
           /\ t = "stop_request" =>
                /\ Stop(Head(toServer).id) /\ ~Has(toServer', Message("stop_request", Head(toServer).id))
                /\ ~Has(toServer', Message("start_request", Head(toServer).id))
<1>1. /\ crash = "none" /\ alive /\ writing = None
      /\ toServer # <<>> /\ Head(toServer).type = t /\ toServer' = Tail(toServer)
      /\ UNCHANGED <<request, pendingLoads, waiting, preconnects, alive, writing, crash>>
  BY DEF Received, ServerRuns, clientVars
<1>2. Channels
  BY DEF IInv
<1> QED
  BY <1>1, <1>2, TakeServer

(* start_request() *)
LEMMA StartRequestStep ==
    ASSUME IInv, start_request
    PROVE  IInv'
<1>1. Received("start_request") /\ UNCHANGED response
  BY DEF start_request
<1>2. PICK r \in Requests : r = Head(toServer).id
  BY <1>1, ReceivedFact
<1>3. /\ crash = "none" /\ alive /\ writing = None
      /\ UNCHANGED <<request, pendingLoads, waiting, alive, writing, crash>>
      /\ toServer' \in Seq(ServerMessages) /\ Ordered(toServer')
      /\ \A x \in Requests : (Start(x)' => Start(x)) /\ (Stop(x)' => Stop(x))
      /\ Start(r) /\ ~Start(r)'
  BY <1>1, <1>2, ReceivedFact DEF Start
<1>4. /\ TypeOK /\ Channels /\ Stopping /\ RInv(r)
      /\ request[r] \in RequestType /\ server[r] \in ServerType
  BY DEF IInv, TypeOK
<1>5. /\ ~request[r].fd /\ request[r].headers = 0 /\ NoAnswer(r) /\ request[r].read = 0
      /\ server[r].kind # "request" /\ server[r].written = 0
      /\ request[r].loaded /\ request[r].known /\ ~request[r].done /\ ~request[r].called
      /\ ~request[r].eof /\ request[r].outcomes = <<>>
  BY <1>3, <1>4 DEF RInv, Starting, Fresh, Answered, Finishing, Settled, Told, Over
<1>6. response => waiting # r
  BY <1>3, <1>4 DEF Stopping, Over
<1>7. /\ ~Started(r) /\ ~HeadersMsg(r) /\ ~FailedMsg(r) /\ ~SucceededMsg(r)
      /\ toClient \in Seq(ClientMessages) /\ Ordered(toClient)
  BY <1>4, <1>5 DEF NoAnswer, Channels
<1>8. /\ response' \in BOOLEAN /\ writing' \in Requests \cup {None} /\ Spinning'
      /\ crash' \in {"none", "set_request_fd", "on_finish", "on_data_received", "send_sync", "stop"}
  <2>1. response' \in BOOLEAN
    BY <1>1, <1>4, Zenon DEF TypeOK
  <2> QED
    BY <1>3, <2>1 DEF Spinning
<1>9. ASSUME \A x \in Requests \ {r} : server'[x] = server[x]
      PROVE  Stopping'
  <2>1. ASSUME response PROVE waiting \in Requests /\ Over(waiting)'
    BY <1>3, <1>4, <1>6, <1>9, <2>1 DEF Stopping, Over
  <2> QED
    BY <1>1, <1>3, <1>4, <2>1 DEF Stopping
<1>10. CASE ~request[r].valid /\ toClient' = Append(toClient, Finished(r, TRUE)) /\ UNCHANGED <<server, dropped>>
  <2>1. /\ toClient' \in Seq(ClientMessages) /\ Ordered(toClient')
        /\ \A x : Has(toClient', x) <=> Has(toClient, x) \/ x = Failed(r)
    <3>1. Failed(r).type = "request_finished"
      BY MessageFact
    <3>2. ~Has(toClient, Failed(r)) /\ ~Has(toClient, Succeeded(r))
      BY <1>7 DEF FailedMsg, SucceededMsg
    <3>3. /\ Append(toClient, Failed(r)) \in Seq(ClientMessages)
          /\ Ordered(Append(toClient, Failed(r)))
          /\ \A x : Has(Append(toClient, Failed(r)), x) <=> Has(toClient, x) \/ x = Failed(r)
      BY <1>7, <3>1, <3>2, PostAnswer
    <3>4. toClient' = Append(toClient, Failed(r))
      BY <1>10 DEF Failed
    <3> QED
      BY <3>3, <3>4
  <2>2. \A x : /\ Started(x)' <=> Started(x)
               /\ HeadersMsg(x)' <=> HeadersMsg(x)
               /\ FailedMsg(x)' <=> FailedMsg(x) \/ x = r
               /\ SucceededMsg(x)' <=> SucceededMsg(x)
    <3>1. Failed(r) # Message("request_started", r) /\ Failed(r) \notin {Refused(r), Accepted(r)}
          /\ Failed(r) # Succeeded(r)
      BY MessageFact
    <3> QED
      BY <2>1, <3>1, PostedFact
  <2>3. Channels' /\ \A x \in Requests \ {r} : SameMessages(x)
    BY <1>3, <2>1, <2>2 DEF Channels, SameMessages
  <2>4. RInv(r)'
    <3>1. request'[r] = request[r] /\ server'[r] = server[r] /\ Over(r)'
      BY <1>3, <1>5, <1>10 DEF Over
    <3>2. Fresh(r)' /\ Starting(r)' /\ Serving(r)'
      BY <1>3, <1>5, <3>1 DEF Fresh, Starting, Serving
    <3>3. Ending(r)' /\ Answered(r)' /\ Finishing(r)'
      BY <1>4, <1>5, <1>7, <1>10, <2>2, <3>1 DEF RInv, Ending, Answered, Finishing
    <3>4. Settled(r)' /\ Cleaning(r)'
      BY <1>3, <1>4, <1>5, <3>1 DEF RInv, Settled, Told, Verdict, LoadFailed, Cleaning
    <3> QED
      BY <3>2, <3>3, <3>4 DEF RInv
  <2>5. /\ server'[r] \in ServerType /\ server' = [server EXCEPT ![r] = server'[r]]
        /\ server'[r].written - request[r].read \in 0 .. PipeSize /\ dropped' \subseteq Requests
    BY <1>4, <1>5, <1>10, RequestAssumption DEF TypeOK
  <2> QED
    BY <1>3, <1>8, <1>9, <1>10, <2>3, <2>4, <2>5, <1>1, ServerStepOf
<1>11. CASE dropped' = dropped \cup {r} /\ UNCHANGED <<server, toClient>>
  <2>1. \A x : /\ Started(x)' <=> Started(x)
               /\ HeadersMsg(x)' <=> HeadersMsg(x)
               /\ FailedMsg(x)' <=> FailedMsg(x)
               /\ SucceededMsg(x)' <=> SucceededMsg(x)
    BY <1>11 DEF Started, HeadersMsg, FailedMsg, SucceededMsg
  <2>2. Channels' /\ \A x \in Requests \ {r} : SameMessages(x)
    BY <1>3, <1>7, <1>11, <2>1 DEF Channels, SameMessages
  <2>3. RInv(r)'
    BY <1>3, <1>4, <1>5, <1>11, <2>1, Forgotten
  <2>4. /\ server'[r] \in ServerType /\ server' = [server EXCEPT ![r] = server'[r]]
        /\ server'[r].written - request[r].read \in 0 .. PipeSize /\ dropped' \subseteq Requests
    BY <1>4, <1>5, <1>11, RequestAssumption DEF TypeOK
  <2> QED
    BY <1>3, <1>8, <1>9, <1>11, <2>2, <2>3, <2>4, <1>1, ServerStepOf
<1>12. CASE /\ request[r].valid /\ toClient' = Append(toClient, Message("request_started", r))
            /\ \E b \in BOOLEAN :
                  server' = [server EXCEPT ![r] = [NewServer EXCEPT !.kind = "request", !.refused = b]]
            /\ UNCHANGED dropped
  <2>1. /\ toClient' \in Seq(ClientMessages) /\ Ordered(toClient')
        /\ \A x : Has(toClient', x) <=> Has(toClient, x) \/ x = Message("request_started", r)
    <3>1. /\ ~Has(toClient, Failed(r)) /\ ~Has(toClient, Succeeded(r))
          /\ ~Has(toClient, Refused(r)) /\ ~Has(toClient, Accepted(r))
          /\ ~Has(toClient, Message("request_started", r))
      BY <1>7 DEF FailedMsg, SucceededMsg, Started, HeadersMsg
    <3> DEFINE m == Message("request_started", r)
    <3>2. /\ Append(toClient, m) \in Seq(ClientMessages) /\ Ordered(Append(toClient, m))
          /\ \A x : Has(Append(toClient, m), x) <=> Has(toClient, x) \/ x = m
      BY <1>7, <3>1, PostAnswer
    <3> QED
      BY <1>12, <3>2
  <2>2. \A x : /\ Started(x)' <=> Started(x) \/ x = r
               /\ HeadersMsg(x)' <=> HeadersMsg(x)
               /\ FailedMsg(x)' <=> FailedMsg(x)
               /\ SucceededMsg(x)' <=> SucceededMsg(x)
    <3>1. /\ Message("request_started", r) \notin {Refused(r), Accepted(r)}
          /\ Message("request_started", r) # Failed(r) /\ Message("request_started", r) # Succeeded(r)
      BY MessageFact
    <3> QED
      BY <2>1, <3>1, PostedFact
  <2>3. Channels' /\ \A x \in Requests \ {r} : SameMessages(x)
    BY <1>3, <2>1, <2>2 DEF Channels, SameMessages
  <2>4. /\ server'[r] \in ServerType /\ server'[r].kind = "request" /\ server'[r].written = 0
        /\ ~server'[r].got_all_headers
        /\ \A x \in Requests \ {r} : server'[x] = server[x]
        /\ server' = [server EXCEPT ![r] = server'[r]]
    <3>a. PICK b \in BOOLEAN :
            server' = [server EXCEPT ![r] = [NewServer EXCEPT !.kind = "request", !.refused = b]]
      BY <1>12
    <3>1. /\ server'[r] = [kind |-> "request", got_all_headers |-> FALSE, refused |-> b, written |-> 0,
                           ended |-> "no"]
          /\ \A x \in Requests \ {r} : server'[x] = server[x]
          /\ server' = [server EXCEPT ![r] = server'[r]]
      BY <1>4, <3>a DEF TypeOK, NewServer
    <3>2. 0 \in 0 .. MaxChunks
      BY RequestAssumption
    <3> QED
      BY <3>1, <3>2 DEF ServerType
  <2>5. RInv(r)'
    <3>1. request'[r] = request[r]
      BY <1>3
    <3>2. Fresh(r)' /\ Starting(r)'
      BY <1>3, <1>5, <3>1 DEF Fresh, Starting
    <3>3. Serving(r)'
      <4>1. request'[r].loaded /\ request'[r].valid /\ ~Start(r)' /\ ~FailedMsg(r)' /\ ~SucceededMsg(r)'
        BY <1>3, <1>5, <1>7, <1>12, <2>2, <3>1
      <4>2. alive'
        BY <1>3, Zenon
      <4> QED
        BY <1>5, <1>7, <2>2, <2>4, <3>1, <4>1, <4>2 DEF Serving
    <3>4. Ending(r)' /\ Answered(r)' /\ Finishing(r)'
      BY <1>5, <1>7, <1>12, <2>2, <3>1 DEF Ending, Answered, Finishing
    <3>5. Settled(r)' /\ Cleaning(r)'
      BY <1>3, <1>4, <1>5, <3>1 DEF RInv, Settled, Told, Verdict, LoadFailed, Cleaning
    <3> QED
      BY <3>2, <3>3, <3>4, <3>5 DEF RInv
  <2>6. server'[r].written - request[r].read \in 0 .. PipeSize /\ dropped' \subseteq Requests
    BY <1>4, <1>5, <1>12, <2>4, RequestAssumption DEF TypeOK
  <2> QED
    BY <1>3, <1>8, <1>9, <2>3, <2>4, <2>5, <2>6, <1>1, ServerStepOf
<1> QED
  BY <1>2, <1>10, <1>11, <1>12 DEF start_request

(* stop_request() *)
LEMMA StopRequestStep ==
    ASSUME IInv, stop_request
    PROVE  IInv'
<1>1. Received("stop_request") /\ response' = TRUE /\ UNCHANGED toClient
  BY DEF stop_request
<1>2. PICK r \in Requests : r = Head(toServer).id
  BY <1>1, ReceivedFact
<1>3. /\ crash = "none" /\ alive /\ writing = None
      /\ UNCHANGED <<request, pendingLoads, waiting, alive, writing, crash>>
      /\ toServer' \in Seq(ServerMessages) /\ Ordered(toServer')
      /\ \A x \in Requests : (Start(x)' => Start(x)) /\ (Stop(x)' => Stop(x))
      /\ Stop(r) /\ ~Stop(r)' /\ ~Start(r)'
  BY <1>1, <1>2, ReceivedFact DEF Start, Stop
<1>4. /\ TypeOK /\ Channels /\ Stopping /\ RInv(r) /\ server[r] \in ServerType
  BY DEF IInv, TypeOK
<1>5. server' = [server EXCEPT ![r].kind = None] /\ dropped' = dropped \cup Replaced(r)
  BY <1>2 DEF stop_request, TakeActive
<1>6. /\ server' = [server EXCEPT ![r] = server'[r]] /\ server'[r] \in ServerType
      /\ server'[r].kind = None /\ server'[r].written = server[r].written
      /\ server'[r].ended = server[r].ended /\ dropped' \subseteq Requests
  BY <1>4, <1>5 DEF TypeOK, ServerType, Replaced
<1>7. server'[r].kind # "request"
  BY <1>6, RequestAssumption
<1>8. \A x : /\ Started(x)' <=> Started(x)
             /\ HeadersMsg(x)' <=> HeadersMsg(x)
             /\ FailedMsg(x)' <=> FailedMsg(x)
             /\ SucceededMsg(x)' <=> SucceededMsg(x)
  BY <1>1 DEF Started, HeadersMsg, FailedMsg, SucceededMsg
<1>9. Channels' /\ \A x \in Requests \ {r} : SameMessages(x)
  BY <1>1, <1>3, <1>4, <1>8 DEF Channels, SameMessages
<1>10. waiting = r /\ Over(r)' /\ Stopping'
  <2>1. waiting = r /\ Over(r)' /\ \A x \in Requests : ~Stop(x)'
    BY <1>3, <1>4, <1>7 DEF Stopping, Over
  <2> QED
    BY <1>3, <2>1 DEF Stopping
<1>11. RInv(r)'
  BY <1>3, <1>4, <1>6, <1>7, <1>8, Forgotten
<1>12. server'[r].written - request[r].read \in 0 .. PipeSize
  BY <1>4, <1>6 DEF TypeOK, InPipe
<1>13. /\ response' \in BOOLEAN /\ writing' \in Requests \cup {None} /\ Spinning'
       /\ crash' \in {"none", "set_request_fd", "on_finish", "on_data_received", "send_sync", "stop"}
  BY <1>1, <1>3 DEF Spinning
<1> QED
  BY <1>3, <1>6, <1>9, <1>10, <1>11, <1>12, <1>13, ServerStepOf

(* A request loses or changes its place in the server by a step without    *)
(* messages.                                                               *)
LEMMA QuietlyForgotten ==
    ASSUME IInv, NEW r \in Requests, crash = "none", writing = None,
           UNCHANGED <<request, pendingLoads, waiting, toServer, toClient, response, alive, writing, crash>>,
           NEW k \in {None, "connect_only"}, server' = [server EXCEPT ![r].kind = k],
           dropped' \subseteq Requests
    PROVE  IInv'
<1>1. /\ TypeOK /\ Channels /\ Stopping /\ RInv(r) /\ server[r] \in ServerType
  BY DEF IInv, TypeOK
<1>2. /\ server' = [server EXCEPT ![r] = server'[r]] /\ server'[r] \in ServerType
      /\ server'[r].kind = k /\ server'[r].written = server[r].written
      /\ server'[r].ended = server[r].ended
      /\ \A x \in Requests \ {r} : server'[x] = server[x]
  BY <1>1 DEF TypeOK, ServerType
<1>3. server'[r].kind # "request"
  BY <1>2, RequestAssumption
<1>4. /\ \A x : SameMessages(x)
      /\ \A x : /\ Start(x)' <=> Start(x)
                /\ Stop(x)' <=> Stop(x)
                /\ Started(x)' <=> Started(x)
                /\ HeadersMsg(x)' <=> HeadersMsg(x)
                /\ FailedMsg(x)' <=> FailedMsg(x)
                /\ SucceededMsg(x)' <=> SucceededMsg(x)
      /\ Channels'
  BY <1>1, NoMessages
<1>5. \A x \in Requests : Over(x) => Over(x)'
  BY <1>2, <1>3, <1>4 DEF Over
<1>6. Stopping'
  BY <1>1, <1>4, <1>5 DEF Stopping
<1>7. RInv(r)'
  BY <1>1, <1>2, <1>3, <1>4, Forgotten
<1>8. server'[r].written - request[r].read \in 0 .. PipeSize
  BY <1>1, <1>2 DEF TypeOK, InPipe
<1>9. response' \in BOOLEAN
  BY <1>1, Zenon DEF TypeOK
<1>10. /\ writing' \in Requests \cup {None} /\ Spinning'
       /\ crash' \in {"none", "set_request_fd", "on_finish", "on_data_received", "send_sync", "stop"}
  BY DEF Spinning
<1> QED
  BY <1>2, <1>4, <1>6, <1>7, <1>8, <1>9, <1>10, ServerStepOf

(* preconnect() and ensure_connection() *)
LEMMA EnsureConnectionStep ==
    ASSUME IInv, NEW r \in Requests, ensure_connection(r)
    PROVE  IInv'
<1>1. /\ crash = "none" /\ writing = None /\ server' = [server EXCEPT ![r].kind = "connect_only"]
      /\ dropped' = dropped \cup Replaced(r)
      /\ UNCHANGED <<request, pendingLoads, waiting, toServer, toClient, response, alive, writing, crash>>
  BY DEF ensure_connection, ServerRuns, channels
<1>2. dropped' \subseteq Requests
  BY <1>1 DEF IInv, TypeOK, Replaced
<1> QED
  BY <1>1, <1>2, QuietlyForgotten

(* What is known of a request that the server is serving. *)
LEMMA ServedFact ==
    ASSUME IInv, NEW r \in Requests, server[r].kind = "request"
    PROVE  /\ request[r].loaded /\ request[r].valid /\ request[r].known /\ ~request[r].done
           /\ ~request[r].called /\ ~request[r].eof /\ request[r].outcomes = <<>>
           /\ ~Start(r) /\ ~FailedMsg(r) /\ ~SucceededMsg(r) /\ alive
           /\ response => waiting # r
<1>1. RInv(r) /\ Stopping
  BY DEF IInv
<1>2. /\ request[r].loaded /\ request[r].valid /\ ~Start(r) /\ ~FailedMsg(r) /\ ~SucceededMsg(r)
      /\ alive
  BY <1>1 DEF RInv, Serving
<1>3. ~Over(r)
  BY DEF Over
<1>4. request[r].known /\ ~request[r].done /\ ~request[r].called /\ ~request[r].eof
  BY <1>1, <1>2, <1>3 DEF RInv, Answered, Finishing
<1>5. request[r].outcomes = <<>>
  BY <1>1, <1>3, <1>4 DEF RInv, Settled, Told, Verdict, LoadFailed
<1> QED
  BY <1>1, <1>2, <1>3, <1>4, <1>5 DEF Stopping

(* The message with the headers *)
LEMMA HeadersOfFact ==
    ASSUME NEW r \in Requests, server[r] \in ServerType
    PROVE  /\ HeadersOf(r) = Refused(r) \/ HeadersOf(r) = Accepted(r)
           /\ HeadersOf(r) \in {Message("request_started", r), Refused(r), Accepted(r), Failed(r), Succeeded(r)}
           /\ HeadersOf(r) \in {Refused(r), Accepted(r)}
           /\ HeadersOf(r) \in ClientMessages /\ HeadersOf(r).type = "headers_became_available"
           /\ \A x : /\ HeadersOf(r) # Message("request_started", x)
                     /\ HeadersOf(r) # Failed(x) /\ HeadersOf(r) # Succeeded(x)
                     /\ HeadersOf(r) = Refused(x) \/ HeadersOf(r) = Accepted(x) <=> x = r
           /\ ~server[r].got_all_headers => Headers(r) = <<HeadersOf(r)>>
<1>1. HeadersOf(r) = Refused(r) \/ HeadersOf(r) = Accepted(r)
  BY DEF HeadersOf
<1>2. Refused(r) \in ClientMessages /\ Accepted(r) \in ClientMessages
  BY DEF Refused, Accepted, ClientMessages
<1>3. \A x : /\ HeadersOf(r) # Message("request_started", x)
             /\ HeadersOf(r) # Failed(x) /\ HeadersOf(r) # Succeeded(x)
             /\ HeadersOf(r) = Refused(x) \/ HeadersOf(r) = Accepted(x) <=> x = r
  BY <1>1, MessageFact
<1>4. ASSUME ~server[r].got_all_headers PROVE Headers(r) = <<HeadersOf(r)>>
  <2>1. Headers(r) = <<[type |-> "headers_became_available", id |-> r, error |-> server[r].refused]>>
    BY <1>4 DEF Headers
  <2>2. server[r].refused \in BOOLEAN
    BY DEF ServerType
  <2>3. CASE server[r].refused = TRUE
    BY <2>1, <2>3 DEF HeadersOf, Refused
  <2>4. CASE server[r].refused = FALSE
    BY <2>1, <2>4 DEF HeadersOf, Accepted
  <2> QED
    BY <2>2, <2>3, <2>4
<1>5. HeadersOf(r).type = "headers_became_available"
  BY <1>1, MessageFact
<1> QED
  BY <1>1, <1>2, <1>3, <1>4, <1>5

(* flush_headers_if_needed() *)
LEMMA HeadersFact ==
    ASSUME IInv, crash = "none", NEW r \in Requests, server[r].kind = "request"
    PROVE  /\ toClient \o Headers(r) \in Seq(ClientMessages) /\ Ordered(toClient \o Headers(r))
           /\ server[r].got_all_headers => toClient \o Headers(r) = toClient
           /\ ~server[r].got_all_headers =>
                /\ request[r].headers = 0
                /\ \A x : Has(toClient \o Headers(r), x) <=>
                            Has(toClient, x) \/ x = HeadersOf(r)
<1>1. /\ toClient \in Seq(ClientMessages) /\ Ordered(toClient) /\ RInv(r)
      /\ ~FailedMsg(r) /\ ~SucceededMsg(r) /\ server[r].got_all_headers \in BOOLEAN
      /\ server[r] \in ServerType
  BY ServedFact DEF IInv, Channels, TypeOK, ServerType
<1>2. CASE server[r].got_all_headers
  <2>1. Headers(r) = <<>> /\ toClient \o <<>> = toClient
    BY <1>1, <1>2, ConcatEmptySeq DEF Headers
  <2> QED
    BY <1>1, <1>2, <2>1
<1>3. CASE ~server[r].got_all_headers
  <2>1. request[r].headers = 0 /\ ~HeadersMsg(r)
    BY <1>1, <1>3 DEF RInv, Serving
  <2>2. HeadersOf(r) \in ClientMessages
    BY <1>1, HeadersOfFact
  <2>3. Headers(r) = <<HeadersOf(r)>>
    BY <1>1, <1>3, HeadersOfFact
  <2>4. toClient \o Headers(r) = Append(toClient, HeadersOf(r))
    BY <1>1, <2>2, <2>3, AppendIsConcat
  <2>5. LET c == Append(toClient, HeadersOf(r))
        IN  /\ c \in Seq(ClientMessages) /\ Ordered(c)
            /\ \A x : Has(c, x) <=> Has(toClient, x) \/ x = HeadersOf(r)
    <3>1. /\ ~Has(toClient, Failed(r)) /\ ~Has(toClient, Succeeded(r))
          /\ ~Has(toClient, Refused(r)) /\ ~Has(toClient, Accepted(r))
      BY <1>1, <2>1 DEF FailedMsg, SucceededMsg, HeadersMsg
    <3>2. /\ HeadersOf(r) \in {Message("request_started", r), Refused(r), Accepted(r), Failed(r), Succeeded(r)}
          /\ HeadersOf(r).type # "request_started"
      BY <1>1, HeadersOfFact
    <3> QED
      BY <1>1, <3>1, <3>2, PostAnswer
  <2> QED
    BY <1>3, <2>1, <2>4, <2>5
<1> QED
  BY <1>1, <1>2, <1>3

(* on_data_received(), when it is called and when it tries again *)
LEMMA WriteStep ==
    ASSUME IInv, crash = "none", NEW r \in Requests, server[r].kind = "request",
           server[r].written < Bound(r), writing \in {None, r}, Write(r),
           toClient' = toClient \o Headers(r),
           UNCHANGED <<request, pendingLoads, waiting, toServer, response, alive, dropped>>
    PROVE  IInv'
<1>1. /\ TypeOK /\ Channels /\ Stopping /\ Spinning /\ RInv(r)
      /\ server[r] \in ServerType /\ request[r] \in RequestType
  BY DEF IInv, TypeOK
<1>2. /\ request[r].loaded /\ request[r].valid /\ request[r].known /\ ~request[r].done
      /\ ~request[r].called /\ ~request[r].eof /\ request[r].outcomes = <<>>
      /\ ~Start(r) /\ ~FailedMsg(r) /\ ~SucceededMsg(r) /\ alive
      /\ response => waiting # r
  BY ServedFact
<1>3. /\ toClient' \in Seq(ClientMessages) /\ Ordered(toClient')
      /\ server[r].got_all_headers => toClient' = toClient
      /\ ~server[r].got_all_headers =>
           /\ request[r].headers = 0
           /\ \A x : Has(toClient', x) <=> Has(toClient, x) \/ x = HeadersOf(r)
  BY HeadersFact
<1>4. \A x : /\ Started(x)' <=> Started(x)
             /\ HeadersMsg(x)' <=> HeadersMsg(x) \/ (x = r /\ ~server[r].got_all_headers)
             /\ FailedMsg(x)' <=> FailedMsg(x)
             /\ SucceededMsg(x)' <=> SucceededMsg(x)
  <2>1. CASE server[r].got_all_headers
    BY <1>3, <2>1 DEF Started, HeadersMsg, FailedMsg, SucceededMsg
  <2>2. CASE ~server[r].got_all_headers
    <3>1. /\ HeadersOf(r) \in {Message("request_started", r), Refused(r), Accepted(r), Failed(r), Succeeded(r)}
          /\ HeadersOf(r) # Message("request_started", r) /\ HeadersOf(r) \in {Refused(r), Accepted(r)}
          /\ HeadersOf(r) # Failed(r) /\ HeadersOf(r) # Succeeded(r)
      BY <1>1, HeadersOfFact
    <3> QED
      BY <1>3, <2>2, <3>1, PostedFact
  <2> QED
    BY <2>1, <2>2
<1>5. \A x : (Start(x)' <=> Start(x)) /\ (Stop(x)' <=> Stop(x))
  BY DEF Start, Stop
<1>6. Channels' /\ \A x \in Requests \ {r} : SameMessages(x)
  BY <1>1, <1>3, <1>4, <1>5 DEF Channels, SameMessages
<1>7. request'[r] = request[r] /\ waiting' = waiting /\ response' \in BOOLEAN /\ alive' /\ dropped' \subseteq Requests
  <2>1. response' \in BOOLEAN /\ alive'
    BY <1>1, <1>2, Zenon DEF TypeOK
  <2> QED
    BY <1>1, <2>1 DEF TypeOK
<1>8. /\ server'[r] \in ServerType /\ server' = [server EXCEPT ![r] = server'[r]]
      /\ \A x \in Requests \ {r} : server'[x] = server[x]
      /\ server'[r].kind = "request" /\ server'[r].ended = server[r].ended
      /\ server'[r].got_all_headers \/ (crash' # "none" /\ server'[r].got_all_headers = server[r].got_all_headers)
      /\ server'[r].written - request[r].read \in 0 .. PipeSize
      /\ writing' \in Requests \cup {None} /\ Spinning'
      /\ crash' \in {"none", "set_request_fd", "on_finish", "on_data_received", "send_sync", "stop"}
  <2>1. /\ InPipe(r) \in 0 .. PipeSize /\ InPipe(r) = server[r].written - request[r].read
        /\ server[r].written \in 0 .. MaxChunks /\ request[r].read \in 0 .. MaxChunks
        /\ PipeSize \in Nat /\ MaxChunks \in Nat /\ Bound(r) \in Nat /\ Bound(r) <= MaxChunks
    BY <1>1, RequestAssumption DEF TypeOK, InPipe, ServerType, RequestType, Bound
  <2>2. CASE crash' = "on_data_received" /\ UNCHANGED <<server, writing>>
    <3>1. Spinning'
      BY <1>1, <2>2 DEF Spinning, Bound
    <3> QED
      BY <1>1, <2>1, <2>2, <3>1 DEF TypeOK
  <2>3. CASE Fits(r) /\ server' = [server EXCEPT ![r].got_all_headers = TRUE, ![r].written = @ + 1]
             /\ writing' = None /\ UNCHANGED crash
    <3>1. /\ server' = [server EXCEPT ![r] = server'[r]]
          /\ server'[r] = [server[r] EXCEPT !.got_all_headers = TRUE, !.written = server[r].written + 1]
          /\ \A x \in Requests \ {r} : server'[x] = server[x]
      BY <1>1, <2>3 DEF TypeOK
    <3>2. /\ server[r].written + 1 \in 0 .. MaxChunks
          /\ (server[r].written + 1) - request[r].read \in 0 .. PipeSize
      <4> DEFINE w == server[r].written
                 d == request[r].read
                 b == Bound(r)
      <4>1. /\ w \in Nat /\ d \in Nat /\ b \in Nat /\ w < b /\ b <= MaxChunks
            /\ w - d \in 0 .. PipeSize /\ w - d < PipeSize /\ PipeSize \in Nat /\ MaxChunks \in Nat
        BY <2>1, <2>3 DEF Fits
      <4> HIDE DEF w, d, b
      <4>2. w + 1 \in 0 .. MaxChunks /\ (w + 1) - d \in 0 .. PipeSize
        BY <4>1
      <4> QED
        BY <4>2 DEF w, d
    <3>3. server'[r] \in ServerType /\ server'[r].written = server[r].written + 1
          /\ server'[r].kind = "request" /\ server'[r].ended = server[r].ended
          /\ server'[r].got_all_headers
      BY <1>1, <3>1, <3>2 DEF ServerType
    <3> QED
      BY <2>3, <3>1, <3>2, <3>3 DEF Spinning
  <2>4. CASE ~Fits(r) /\ server' = [server EXCEPT ![r].got_all_headers = TRUE, ![r].written = @]
             /\ writing' = r /\ UNCHANGED crash
    <3>1. /\ server' = [server EXCEPT ![r] = server'[r]]
          /\ server'[r] = [server[r] EXCEPT !.got_all_headers = TRUE]
          /\ \A x \in Requests \ {r} : server'[x] = server[x]
      BY <1>1, <2>4 DEF TypeOK, ServerType
    <3>2. server'[r] \in ServerType /\ server'[r].written = server[r].written
          /\ server'[r].kind = "request" /\ server'[r].ended = server[r].ended
          /\ server'[r].got_all_headers
      BY <1>1, <3>1 DEF ServerType
    <3>3. Spinning'
      BY <2>4, <3>2 DEF Spinning, Bound
    <3> QED
      BY <2>1, <2>4, <3>1, <3>2, <3>3
  <2> QED
    BY <2>2, <2>3, <2>4 DEF Write
<1>9. Stopping'
  <2>1. ASSUME response PROVE waiting \in Requests /\ Over(waiting)'
    BY <1>1, <1>2, <1>5, <1>8, <2>1 DEF Stopping, Over
  <2> QED
    BY <1>1, <1>5, <2>1 DEF Stopping
<1>10. RInv(r)'
  <2>1. Fresh(r)' /\ Starting(r)'
    BY <1>2, <1>5, <1>7 DEF Fresh, Starting
  <2>2. Serving(r)'
    <3>1. server[r].got_all_headers /\ request[r].known /\ request[r].live => request[r].headers = 1 \/ HeadersMsg(r)
      BY <1>1 DEF RInv, Serving
    <3>2. request'[r].loaded /\ request'[r].valid /\ ~Start(r)' /\ ~FailedMsg(r)' /\ ~SucceededMsg(r)'
      BY <1>2, <1>4, <1>5, <1>7
    <3>3. server'[r].got_all_headers /\ request'[r].known /\ request'[r].live => request'[r].headers = 1 \/ HeadersMsg(r)'
      BY <1>4, <1>7, <3>1
    <3> QED
      BY <1>7, <1>8, <3>2, <3>3 DEF Serving
  <2>3. Ending(r)' /\ Finishing(r)'
    BY <1>1, <1>2, <1>4, <1>7 DEF RInv, Ending, Finishing
  <2>4. Answered(r)'
    <3>1. HeadersMsg(r)' => request'[r].headers = 0
      BY <1>1, <1>3, <1>4, <1>7 DEF RInv, Answered
    <3> QED
      BY <1>1, <1>2, <1>4, <1>5, <1>7, <3>1 DEF RInv, Answered
  <2>5. Settled(r)' /\ Cleaning(r)'
    BY <1>1, <1>2, <1>7 DEF RInv, Settled, Told, Verdict, LoadFailed, Cleaning
  <2> QED
    BY <2>1, <2>2, <2>3, <2>4, <2>5 DEF RInv
<1> QED
  BY <1>6, <1>7, <1>8, <1>9, <1>10, ServerStepOf

(* on_data_received() *)
LEMMA OnDataReceivedStep ==
    ASSUME IInv, NEW r \in Requests, on_data_received(r)
    PROVE  IInv'
<1>1. /\ crash = "none" /\ writing = None /\ server[r].kind = "request"
      /\ server[r].written < Bound(r) /\ Write(r) /\ toClient' = toClient \o Headers(r)
      /\ UNCHANGED <<request, pendingLoads, waiting, toServer, response, alive, dropped>>
  BY DEF on_data_received, ServerRuns, clientVars, Bound
<1> QED
  BY <1>1, WriteStep

(* The write is tried again. *)
LEMMA RetryWriteStep ==
    ASSUME IInv, RetryWrite
    PROVE  IInv'
<1>1. /\ crash = "none" /\ writing # None /\ Write(writing)
      /\ UNCHANGED <<request, pendingLoads, waiting, toServer, toClient, response, alive, dropped>>
  BY DEF RetryWrite, clientVars, channels
<1>2. PICK r \in Requests : r = writing
  BY <1>1 DEF IInv, TypeOK
<1>3. server[r].kind = "request" /\ server[r].got_all_headers /\ server[r].written < Bound(r)
  BY <1>1, <1>2 DEF IInv, Spinning
<1>4. Write(r) /\ toClient' = toClient \o Headers(r)
  BY <1>1, <1>2, <1>3, HeadersFact
<1> QED
  BY <1>1, <1>2, <1>3, <1>4, WriteStep

(* What is left of an ActiveRequest that has been answered. *)
Ended(s, verdict) == [s EXCEPT !.kind = None, !.got_all_headers = TRUE, !.ended = verdict]

(* The record keeps its type and the number of chunks written. *)
LEMMA EndedFact ==
    ASSUME NEW s \in ServerType, NEW verdict \in {"error", "success"}
    PROVE  /\ Ended(s, verdict) \in ServerType /\ Ended(s, verdict).kind = None
           /\ Ended(s, verdict).ended = verdict /\ Ended(s, verdict).written = s.written
BY DEF ServerType, Ended

(* check_active_requests(): the answer of a request. *)
LEMMA AnswerStep ==
    ASSUME IInv, crash = "none", NEW r \in Requests, server[r].kind = "request", writing = None,
           NEW verdict \in {"error", "success"}, NEW m, m = (IF verdict = "error" THEN Failed(r) ELSE Succeeded(r)),
           toClient' = toClient \o (Headers(r) \o <<m>>),
           server' = [server EXCEPT ![r].kind = None, ![r].got_all_headers = TRUE, ![r].ended = verdict],
           UNCHANGED <<request, pendingLoads, waiting, toServer, response, writing, alive, dropped, crash>>
    PROVE  IInv'
<1>1. /\ TypeOK /\ Channels /\ Stopping /\ RInv(r)
      /\ server[r] \in ServerType /\ request[r] \in RequestType
  BY DEF IInv, TypeOK
<1>2. /\ request[r].loaded /\ request[r].valid /\ request[r].known /\ ~request[r].done
      /\ ~request[r].called /\ ~request[r].eof /\ request[r].outcomes = <<>>
      /\ ~Start(r) /\ ~FailedMsg(r) /\ ~SucceededMsg(r)
      /\ response => waiting # r
  BY ServedFact
<1>3. /\ m \in {Failed(r), Succeeded(r)} /\ m.type = "request_finished"
      /\ verdict = "error" => m = Failed(r) /\ m # Succeeded(r)
      /\ verdict = "success" => m = Succeeded(r) /\ m # Failed(r)
      /\ \A x : m # Message("request_started", x) /\ m # Refused(x) /\ m # Accepted(x)
      /\ \A x : (m = Failed(x) <=> x = r /\ verdict = "error") /\ (m = Succeeded(x) <=> x = r /\ verdict = "success")
  BY MessageFact
<1>4. m \in ClientMessages
  BY <1>3 DEF ClientMessages, Failed, Succeeded, Finished
<1> DEFINE c == toClient \o Headers(r)
<1>5. /\ c \in Seq(ClientMessages) /\ Ordered(c)
      /\ server[r].got_all_headers => c = toClient
      /\ ~server[r].got_all_headers =>
           /\ request[r].headers = 0
           /\ \A x : Has(c, x) <=> Has(toClient, x) \/ x = HeadersOf(r)
  BY HeadersFact
<1>6. toClient' = Append(c, m)
  <2>1. toClient \in Seq(ClientMessages) /\ <<m>> \in Seq(ClientMessages) /\ Headers(r) \in Seq(ClientMessages)
    <3>1. HeadersOf(r) \in ClientMessages /\ (~server[r].got_all_headers => Headers(r) = <<HeadersOf(r)>>)
      BY <1>1, HeadersOfFact
    <3>2. <<m>> \in Seq(ClientMessages) /\ <<HeadersOf(r)>> \in Seq(ClientMessages)
          /\ <<>> \in Seq(ClientMessages)
      BY <1>4, <3>1
    <3> QED
      BY <1>1, <3>1, <3>2 DEF Channels, Headers
  <2>2. toClient \o (Headers(r) \o <<m>>) = c \o <<m>>
    BY <2>1, ConcatAssociative
  <2> HIDE DEF c
  <2>3. Append(c, m) = c \o <<m>>
    BY <1>4, <1>5, AppendIsConcat
  <2> QED
    BY <2>2, <2>3
<1>7. /\ ~Has(c, Failed(r)) /\ ~Has(c, Succeeded(r))
      /\ \A x : Has(c, x) <=> Has(toClient, x) \/ (x = HeadersOf(r) /\ ~server[r].got_all_headers)
  <2> HIDE DEF c
  <2>1. \A x : Has(c, x) <=> Has(toClient, x) \/ (x = HeadersOf(r) /\ ~server[r].got_all_headers)
    BY <1>5
  <2> QED
    BY <2>1, <1>1, <1>2, HeadersOfFact DEF FailedMsg, SucceededMsg
<1> HIDE DEF c
<1>8. /\ toClient' \in Seq(ClientMessages) /\ Ordered(toClient')
      /\ \A x : Has(toClient', x) <=> Has(c, x) \/ x = m
  <2>1. /\ m \in {Message("request_started", r), Refused(r), Accepted(r), Failed(r), Succeeded(r)}
        /\ m.type \notin {"request_started", "headers_became_available"} /\ m.type # "request_started"
    BY <1>3
  <2>2. /\ Append(c, m) \in Seq(ClientMessages) /\ Ordered(Append(c, m))
        /\ \A x : Has(Append(c, m), x) <=> Has(c, x) \/ x = m
    BY <2>1, <1>5, <1>7, PostAnswer
  <2> QED
    BY <2>2, <1>6
<1>9. \A x : /\ Started(x)' <=> Started(x)
             /\ HeadersMsg(x)' <=> HeadersMsg(x) \/ (x = r /\ ~server[r].got_all_headers)
             /\ FailedMsg(x)' <=> FailedMsg(x) \/ (x = r /\ verdict = "error")
             /\ SucceededMsg(x)' <=> SucceededMsg(x) \/ (x = r /\ verdict = "success")
  <2> SUFFICES ASSUME NEW x
               PROVE  /\ Started(x)' <=> Started(x)
                      /\ HeadersMsg(x)' <=> HeadersMsg(x) \/ (x = r /\ ~server[r].got_all_headers)
                      /\ FailedMsg(x)' <=> FailedMsg(x) \/ (x = r /\ verdict = "error")
                      /\ SucceededMsg(x)' <=> SucceededMsg(x) \/ (x = r /\ verdict = "success")
    OBVIOUS
  <2>1. \A y : Has(toClient', y) <=>
          Has(toClient, y) \/ (y = HeadersOf(r) /\ ~server[r].got_all_headers) \/ y = m
    BY <1>7, <1>8
  <2>a. /\ HeadersOf(r) # Message("request_started", x)
        /\ HeadersOf(r) # Failed(x) /\ HeadersOf(r) # Succeeded(x)
        /\ HeadersOf(r) = Refused(x) \/ HeadersOf(r) = Accepted(x) <=> x = r
    BY <1>1, HeadersOfFact
  <2>2. Started(x)' <=> Started(x)
    BY <1>3, <2>1, <2>a DEF Started
  <2>3. HeadersMsg(x)' <=> HeadersMsg(x) \/ (x = r /\ ~server[r].got_all_headers)
    BY <1>3, <2>1, <2>a DEF HeadersMsg
  <2>4. FailedMsg(x)' <=> FailedMsg(x) \/ (x = r /\ verdict = "error")
    BY <1>3, <2>1, <2>a DEF FailedMsg
  <2>5. SucceededMsg(x)' <=> SucceededMsg(x) \/ (x = r /\ verdict = "success")
    BY <1>3, <2>1, <2>a DEF SucceededMsg
  <2> QED
    BY <2>2, <2>3, <2>4, <2>5
<1>10. \A x : (Start(x)' <=> Start(x)) /\ (Stop(x)' <=> Stop(x))
  BY DEF Start, Stop
<1>11. Channels' /\ \A x \in Requests \ {r} : SameMessages(x)
  BY <1>1, <1>8, <1>9, <1>10 DEF Channels, SameMessages
<1>12. /\ server'[r] \in ServerType /\ server' = [server EXCEPT ![r] = server'[r]]
       /\ \A x \in Requests \ {r} : server'[x] = server[x]
       /\ server'[r].kind # "request" /\ server'[r].ended = verdict
       /\ server'[r].written = server[r].written
  <2>1. /\ server' = [server EXCEPT ![r] = server'[r]]
        /\ server'[r] = Ended(server[r], verdict)
        /\ \A x \in Requests \ {r} : server'[x] = server[x]
    BY <1>1 DEF TypeOK, Ended
  <2>2. server'[r] \in ServerType /\ server'[r].kind = None /\ server'[r].ended = verdict
        /\ server'[r].written = server[r].written
    BY <1>1, <2>1, EndedFact
  <2> QED
    BY <2>1, <2>2, RequestAssumption
<1>13. request'[r] = request[r] /\ Over(r)'
  BY <1>2, <1>10, <1>12 DEF Over
<1>14. Stopping'
  <2>1. ASSUME response PROVE waiting \in Requests /\ Over(waiting)'
    BY <1>1, <1>2, <1>10, <1>12, <2>1 DEF Stopping, Over
  <2> QED
    BY <1>1, <1>10, <2>1 DEF Stopping
<1>15. RInv(r)'
  <2>1. Fresh(r)' /\ Starting(r)' /\ Serving(r)'
    BY <1>2, <1>10, <1>12, <1>13 DEF Fresh, Starting, Serving
  <2>2. Ending(r)'
    <3>1. request[r].known /\ request[r].live => request[r].headers = 1 \/ HeadersMsg(r)'
      BY <1>1, <1>9 DEF RInv, Serving
    <3> QED
      BY <1>2, <1>9, <1>12, <1>13, <3>1 DEF Ending
  <2>3. Answered(r)'
    <3>1. HeadersMsg(r)' => request[r].headers = 0
      BY <1>1, <1>5, <1>9 DEF RInv, Answered
    <3> QED
      BY <1>2, <1>10, <1>13, <3>1 DEF Answered
  <2>4. Finishing(r)' /\ Settled(r)' /\ Cleaning(r)'
    BY <1>1, <1>2, <1>13 DEF RInv, Finishing, Settled, Told, Verdict, LoadFailed, Cleaning
  <2> QED
    BY <2>1, <2>2, <2>3, <2>4 DEF RInv
<1>16. server'[r].written - request[r].read \in 0 .. PipeSize
  BY <1>1, <1>12 DEF TypeOK, InPipe
<1>17. response' \in BOOLEAN
  BY <1>1, Zenon DEF TypeOK
<1>18. /\ writing' \in Requests \cup {None} /\ Spinning' /\ dropped' \subseteq Requests
       /\ crash' \in {"none", "set_request_fd", "on_finish", "on_data_received", "send_sync", "stop"}
  BY <1>1 DEF Spinning, TypeOK
<1> QED
  BY <1>11, <1>12, <1>14, <1>15, <1>16, <1>17, <1>18, ServerStepOf

(* check_active_requests() *)
LEMMA CheckActiveRequestsStep ==
    ASSUME IInv, NEW r \in Requests, check_active_requests(r)
    PROVE  IInv'
<1>1. /\ crash = "none" /\ writing = None /\ server[r].kind # None
      /\ UNCHANGED <<request, pendingLoads, waiting, toServer, response, writing, alive, dropped, crash>>
  BY DEF check_active_requests, ServerRuns, clientVars
<1>2. server[r] \in ServerType /\ dropped \subseteq Requests
  BY DEF IInv, TypeOK
<1>3. CASE server[r].kind = "connect_only"
  <2>1. server' = [server EXCEPT ![r].kind = None] /\ UNCHANGED toClient /\ dropped' \subseteq Requests
    BY <1>1, <1>2, <1>3 DEF check_active_requests
  <2> QED
    BY <1>1, <2>1, QuietlyForgotten
<1>4. CASE server[r].kind = "request"
  <2>1. PICK error \in BOOLEAN :
          /\ toClient' = toClient \o FinishMessages(r, error)
          /\ server' = [server EXCEPT ![r].kind = None, ![r].got_all_headers = TRUE,
                                      ![r].ended = IF error THEN "error" ELSE "success"]
    BY <1>4 DEF check_active_requests
  <2>2. CASE error = TRUE
    <3>1. FinishMessages(r, error) = Headers(r) \o <<Failed(r)>>
      BY <2>2 DEF FinishMessages, Failed
    <3>2. server' = [server EXCEPT ![r].kind = None, ![r].got_all_headers = TRUE, ![r].ended = "error"]
      BY <2>1, <2>2
    <3> QED
      BY <1>1, <1>4, <2>1, <3>1, <3>2, AnswerStep
  <2>3. CASE error = FALSE
    <3>1. FinishMessages(r, error) = Headers(r) \o <<Succeeded(r)>>
      BY <2>3 DEF FinishMessages, Succeeded
    <3>2. server' = [server EXCEPT ![r].kind = None, ![r].got_all_headers = TRUE, ![r].ended = "success"]
      BY <2>1, <2>3
    <3> QED
      BY <1>1, <1>4, <2>1, <3>1, <3>2, AnswerStep
  <2> QED
    BY <2>2, <2>3
<1> QED
  BY <1>1, <1>2, <1>3, <1>4 DEF ServerType

(* The server dies. *)
LEMMA ServerDiesStep ==
    ASSUME IInv, ServerDies
    PROVE  IInv'
<1>1. /\ crash = "none" /\ alive' = FALSE /\ writing' = None /\ toServer' = <<>>
      /\ server' = [r \in Requests |-> [server[r] EXCEPT !.kind = None, !.got_all_headers = FALSE]]
      /\ response' \in {response, FALSE}
      /\ UNCHANGED <<request, pendingLoads, waiting, dropped, crash>>
  BY DEF ServerDies, clientVars
<1>2. PICK n \in 0 .. Len(toClient) : toClient' = SubSeq(toClient, 1, n)
  BY DEF ServerDies
<1>3. TypeOK /\ Channels /\ Stopping /\ PendingLoadsExact /\ \A x \in Requests : RInv(x)
  BY DEF IInv
<1>4. ASSUME NEW x \in Requests
      PROVE  /\ server'[x] \in ServerType /\ server'[x].kind # "request"
             /\ server'[x].written = server[x].written /\ server'[x].ended = server[x].ended
  <2>1. server[x] \in ServerType
    BY <1>3 DEF TypeOK
  <2>2. server'[x] = [server[x] EXCEPT !.kind = None, !.got_all_headers = FALSE]
    BY <1>1
  <2>3. server'[x] \in ServerType /\ server'[x].kind = None
        /\ server'[x].written = server[x].written /\ server'[x].ended = server[x].ended
    BY <2>1, <2>2 DEF ServerType
  <2> QED
    BY <2>3, RequestAssumption
<1>5. DOMAIN toServer' = {} /\ toServer' \in Seq(ServerMessages) /\ Ordered(toServer')
      /\ \A x : ~Start(x)' /\ ~Stop(x)'
  <2>1. toServer' = <<>>
    BY <1>1
  <2>2. DOMAIN toServer' = {} /\ toServer' \in Seq(ServerMessages)
    BY <2>1
  <2> QED
    BY <2>2 DEF Ordered, Start, Stop, Has
<1>6. /\ toClient' \in Seq(ClientMessages) /\ Ordered(toClient')
      /\ \A x : Has(toClient', x) => Has(toClient, x)
      /\ \A x, y : /\ Has(toClient', y) /\ Has(toClient, x) /\ x.id = y.id
                   /\ <<x.type, y.type>> \in Before
                   => Has(toClient', x)
  BY <1>2, <1>3, PrefixFact DEF Channels
<1>7. ASSUME NEW x \in Requests
      PROVE  /\ Started(x)' => Started(x)
             /\ FailedMsg(x)' => FailedMsg(x)
             /\ SucceededMsg(x)' => SucceededMsg(x)
             /\ HeadersMsg(x)' => HeadersMsg(x)
             /\ FailedMsg(x)' \/ SucceededMsg(x)' => (HeadersMsg(x)' <=> HeadersMsg(x))
  <2>1. <<"headers_became_available", "request_finished">> \in Before
    BY DEF Before
  <2>2. ASSUME FailedMsg(x)' \/ SucceededMsg(x)', HeadersMsg(x) PROVE HeadersMsg(x)'
    BY <1>6, <2>1, <2>2, MessageFact DEF FailedMsg, SucceededMsg, HeadersMsg
  <2>3. /\ Started(x)' => Started(x)
        /\ FailedMsg(x)' => FailedMsg(x)
        /\ SucceededMsg(x)' => SucceededMsg(x)
        /\ HeadersMsg(x)' => HeadersMsg(x)
    BY <1>6 DEF Started, FailedMsg, SucceededMsg, HeadersMsg
  <2> QED
    BY <2>2, <2>3
<1>8. ASSUME NEW x \in Requests PROVE RInv(x)'
  <2>1. request'[x] = request[x] /\ RInv(x) /\ waiting' = waiting
    BY <1>1, <1>3
  <2> QED
    BY <1>4, <1>5, <1>7, <2>1, Forgotten
<1>9. Stopping'
  <2>1. \A x \in Requests : Over(x)'
    BY <1>4, <1>5 DEF Over
  <2>2. response' => response
    BY <1>1
  <2> QED
    BY <1>1, <1>3, <1>5, <2>1, <2>2 DEF Stopping
<1>10. PendingLoadsExact' /\ pendingLoads' \in 0 .. Cardinality(Requests)
  BY <1>1, <1>3, CountSame
<1>11. ASSUME NEW x \in Requests PROVE InPipe(x)' \in 0 .. PipeSize
  <2>1. request'[x] = request[x] /\ InPipe(x) \in 0 .. PipeSize
    BY <1>1, <1>3 DEF TypeOK
  <2> QED
    BY <1>4, <2>1 DEF InPipe
<1>12. {alive', response'} \subseteq BOOLEAN
  <2>1. response \in BOOLEAN
    BY <1>3 DEF TypeOK
  <2> QED
    BY <1>1, <2>1
<1>13. server' \in [Requests -> ServerType]
  <2>1. server' = [x \in Requests |-> server'[x]]
    BY <1>1
  <2> QED
    BY <1>4, <2>1
<1>14. TypeOK'
  <2>1. /\ request' \in [Requests -> RequestType] /\ waiting' \in Requests \cup {None}
        /\ writing' \in Requests \cup {None} /\ dropped' \subseteq Requests
        /\ crash' \in {"none", "set_request_fd", "on_finish", "on_data_received", "send_sync", "stop"}
    BY <1>1, <1>3 DEF TypeOK
  <2> QED
    BY <1>10, <1>11, <1>12, <1>13, <2>1 DEF TypeOK
<1>15. Channels' /\ Spinning'
  BY <1>1, <1>5, <1>6 DEF Channels, Spinning
<1> QED
  BY <1>8, <1>9, <1>10, <1>14, <1>15 DEF IInv

-----------------------------------------------------------------------------
(***************************************************************************)
(* The theorems.                                                           *)
(***************************************************************************)

(* No request has been loaded yet. *)
LEMMA InitIInv == Init => IInv
<1> SUFFICES ASSUME Init PROVE IInv
  OBVIOUS
<1>1. /\ request = [r \in Requests |-> NewRequest] /\ server = [r \in Requests |-> NewServer]
      /\ pendingLoads = 0 /\ waiting = None /\ writing = None
      /\ toServer = <<>> /\ toClient = <<>> /\ response = FALSE
      /\ alive = TRUE /\ crash = "none" /\ dropped = {}
  BY DEF Init
<1>2. \A x : ~Has(toServer, x) /\ ~Has(toClient, x)
  BY <1>1 DEF Has
<1>3. NewRequest \in RequestType
  <2>1. 0 \in 0 .. 1 /\ 0 \in 0 .. 3 /\ 0 \in 0 .. MaxChunks /\ <<>> \in Seq({"success", "error", "timeout"})
    BY RequestAssumption
  <2> QED
    BY <2>1 DEF NewRequest, RequestType
<1>4. NewServer \in ServerType
  <2>1. 0 \in 0 .. MaxChunks
    BY RequestAssumption
  <2> QED
    BY <2>1 DEF NewServer, ServerType
<1>5. PendingLoadsExact /\ pendingLoads \in 0 .. Cardinality(Requests)
  <2> DEFINE A == {r \in Requests : request[r].active /\ request[r].cleanup # 1}
  <2>1. A = {}
    BY <1>1 DEF NewRequest
  <2>2. Cardinality({}) = 0 /\ Cardinality(Requests) \in Nat
    BY RequestAssumption, FS_EmptySet, FS_CardinalityType
  <2>3. pendingLoads = Cardinality(A)
    <3> HIDE DEF A
    <3> QED
      BY <1>1, <2>1, <2>2
  <2> QED
    BY <1>1, <2>2, <2>3 DEF PendingLoadsExact
<1>6. TypeOK
  <2>1. \A r \in Requests : InPipe(r) \in 0 .. PipeSize
    BY <1>1, RequestAssumption DEF InPipe, NewRequest, NewServer
  <2>2. request \in [Requests -> RequestType] /\ server \in [Requests -> ServerType]
    BY <1>1, <1>3, <1>4
  <2> QED
    BY <1>1, <1>5, <2>1, <2>2 DEF TypeOK
<1>7. Channels
  <2>1. toServer \in Seq(ServerMessages) /\ toClient \in Seq(ClientMessages)
    BY <1>1
  <2>2. DOMAIN toServer = {} /\ DOMAIN toClient = {}
    BY <1>1
  <2> QED
    BY <2>1, <2>2 DEF Channels, Ordered
<1>8. Stopping /\ Spinning
  BY <1>1, <1>2 DEF Stopping, Spinning, Stop
<1>9. ASSUME NEW r \in Requests PROVE RInv(r)
  <2>1. request[r] = NewRequest /\ server[r] = NewServer
    BY <1>1
  <2>2. /\ ~NewRequest.loaded /\ ~NewRequest.fd /\ ~NewRequest.eof /\ ~NewRequest.done /\ ~NewRequest.called
        /\ ~NewRequest.timer /\ NewRequest.read = 0 /\ NewRequest.cleanup = 0 /\ NewRequest.outcomes = <<>>
    BY DEF NewRequest
  <2>3. NewServer.kind # "request" /\ NewServer.written = 0
    BY RequestAssumption DEF NewServer
  <2>4. ~Start(r) /\ ~Stop(r) /\ ~Started(r) /\ ~HeadersMsg(r) /\ ~FailedMsg(r) /\ ~SucceededMsg(r)
    BY <1>2 DEF Start, Stop, Started, HeadersMsg, FailedMsg, SucceededMsg
  <2>5. Fresh(r) /\ Starting(r) /\ Serving(r)
    BY <1>1, <2>1, <2>3, <2>4, RequestAssumption DEF Fresh, Starting, Serving, NoAnswer
  <2>6. Ending(r) /\ Answered(r) /\ Finishing(r)
    BY <2>1, <2>2, <2>4 DEF Ending, Answered, Finishing
  <2>7. Settled(r) /\ Cleaning(r)
    BY <1>1, <2>1, <2>2, RequestAssumption DEF Settled, Told, Verdict, LoadFailed, Cleaning
  <2> QED
    BY <2>5, <2>6, <2>7 DEF RInv
<1> QED
  BY <1>5, <1>6, <1>7, <1>8, <1>9 DEF IInv

(* Every step preserves the invariant. *)
LEMMA NextIInv == IInv /\ [Next]_vars => IInv'
<1> SUFFICES ASSUME IInv, [Next]_vars PROVE IInv'
  OBVIOUS
<1>1. CASE ClientStep
  BY <1>1, RequestStartedStep, HeadersStep, FinishedStep, StopAnsweredStep, StopFailsStep,
     ReadPipeStep, CallbackReturnsStep, RunCleanupStep DEF ClientStep
<1>2. CASE ServerStep
  BY <1>2, StartRequestStep, StopRequestStep, RetryWriteStep, CheckActiveRequestsStep DEF ServerStep
<1>3. CASE ServerDies
  BY <1>3, ServerDiesStep
<1>4. CASE \E r \in Requests : \/ Load(r) \/ TimeOut(r) \/ TimeOutInCallback(r)
                               \/ on_data_received(r) \/ ensure_connection(r)
  BY <1>4, LoadStep, TimeOutStep, TimeOutInCallbackStep, OnDataReceivedStep, EnsureConnectionStep
<1>5. CASE UNCHANGED vars
  <2>1. UNCHANGED <<request, pendingLoads, waiting, response, toServer, toClient, server, writing,
                    alive, crash, dropped>>
    BY <1>5 DEF vars, clientVars, serverVars, channels
  <2>2. (\A x : SameMessages(x)) /\ Channels' /\ Stopping'
    BY <2>1, QuietFact
  <2>3. TypeOK' /\ Spinning' /\ PendingLoadsExact'
    <3>1. TypeOK /\ Spinning /\ PendingLoadsExact
      BY DEF IInv
    <3>2. PendingLoadsExact' /\ Spinning'
      BY <2>1, <3>1 DEF PendingLoadsExact, Spinning, Bound
    <3>3. TypeOK'
      BY <2>1, <3>1, Zenon DEF TypeOK, InPipe
    <3> QED
      BY <3>2, <3>3
  <2>4. ASSUME NEW x \in Requests PROVE RInv(x)'
    <3>1. RInv(x)
      BY DEF IInv
    <3> QED
      BY <2>1, <3>1, ZenonT(30)
      DEF RInv, Fresh, Starting, Serving, Ending, Answered, Finishing, Settled, Told, Verdict, LoadFailed, Cleaning, Over,
          NoAnswer, Start, Stop, Started, HeadersMsg, FailedMsg, SucceededMsg
  <2> QED
    BY <2>2, <2>3, <2>4 DEF IInv
<1> QED
  BY <1>1, <1>2, <1>3, <1>4, <1>5 DEF Next

-----------------------------------------------------------------------------
(***************************************************************************)
(* What the loader was told of the response code.                          *)
(***************************************************************************)

(* The messages and the Request agree with what curl said. *)
RefusedInv ==
    \A r \in Requests :
        /\ Has(toClient, Refused(r)) => server[r].refused
        /\ Has(toClient, Accepted(r)) => ~server[r].refused
        /\ request[r].headers = 1 => (request[r].refused <=> server[r].refused)

(* A step that posts no headers and leaves what was said alone. *)
LEMMA RefusedFrame ==
    ASSUME RefusedInv,
           \A x : Has(toClient', x) => Has(toClient, x) \/ x.type # "headers_became_available",
           \A r \in Requests :
               /\ request'[r].headers = request[r].headers
               /\ request'[r].refused = request[r].refused
               /\ server'[r].refused = server[r].refused
    PROVE  RefusedInv'
<1> SUFFICES ASSUME NEW r \in Requests
             PROVE  /\ Has(toClient', Refused(r)) => server'[r].refused
                    /\ Has(toClient', Accepted(r)) => ~server'[r].refused
                    /\ request'[r].headers = 1 => (request'[r].refused <=> server'[r].refused)
  BY DEF RefusedInv
<1>1. /\ Has(toClient, Refused(r)) => server[r].refused
      /\ Has(toClient, Accepted(r)) => ~server[r].refused
      /\ request[r].headers = 1 => (request[r].refused <=> server[r].refused)
  BY DEF RefusedInv
<1>2. /\ Has(toClient', Refused(r)) => Has(toClient, Refused(r))
      /\ Has(toClient', Accepted(r)) => Has(toClient, Accepted(r))
  BY MessageFact
<1> QED
  BY <1>1, <1>2

(* A step of the client other than headers_became_available *)
LEMMA RefusedRequest ==
    ASSUME TypeOK, RefusedInv, \A x : Has(toClient', x) => Has(toClient, x), UNCHANGED server,
           NEW r \in Requests, request' = [request EXCEPT ![r] = request'[r]],
           request'[r].headers = request[r].headers, request'[r].refused = request[r].refused
    PROVE  RefusedInv'
<1>2. \A x \in Requests : /\ request'[x].headers = request[x].headers
                          /\ request'[x].refused = request[x].refused
                          /\ server'[x].refused = server[x].refused
  BY DEF TypeOK
<1> QED
  BY <1>2, RefusedFrame

(* on_finish leaves it alone. *)
LEMMA OnFinishRefused ==
    ASSUME TypeOK, NEW r \in Requests, NEW q \in RequestType, OnFinish(q, r)
    PROVE  /\ request' = [request EXCEPT ![r] = request'[r]]
           /\ request'[r].headers = q.headers /\ request'[r].refused = q.refused
<1>1. /\ request' = [request EXCEPT ![r] = request'[r]]
      /\ request'[r] = q \/ request'[r] = Complete(q, r)
  BY DEF OnFinish, TypeOK
<1>2. Same(Complete(q, r), q, {"called", "outcomes", "cleanup"})
  BY CompleteFact
<1> QED
  BY <1>1, <1>2 DEF Same, Fields

(* The steps of WebContent *)
LEMMA RefusedClient ==
    ASSUME IInv, RefusedInv, ClientStep
    PROVE  RefusedInv'
<1>1. TypeOK /\ Channels /\ \A x \in Requests : RInv(x)
  BY DEF IInv
<1>2. CASE request_started
  <2>1. Delivered("request_started")
    BY <1>2 DEF request_started
  <2>2. toClient # <<>> /\ toClient' = Tail(toClient) /\ UNCHANGED server
    BY <2>1, DeliveredFact
  <2>a. \A x : Has(toClient', x) => Has(toClient, x)
    BY <1>1, <2>2, TailFact DEF Channels
  <2>3. PICK r \in Requests : r = Head(toClient).id
    BY <1>1, <2>2, TakeClient
  <2>4. request' = [request EXCEPT ![r].fd = TRUE] \/ request' = request
    BY <1>2, <2>3 DEF request_started
  <2>5. /\ request' = [request EXCEPT ![r] = request'[r]]
        /\ request'[r].headers = request[r].headers /\ request'[r].refused = request[r].refused
    BY <1>1, <2>4 DEF TypeOK, RequestType
  <2> QED
    BY <1>1, <2>2, <2>a, <2>5, RefusedRequest
<1>3. CASE headers_became_available
  <2>1. Delivered("headers_became_available")
    BY <1>3 DEF headers_became_available
  <2>2. /\ toClient # <<>> /\ toClient' = Tail(toClient) /\ UNCHANGED server
        /\ Head(toClient).type = "headers_became_available"
    BY <2>1, DeliveredFact
  <2>a. \A x : Has(toClient', x) => Has(toClient, x)
    BY <1>1, <2>2, TailFact DEF Channels
  <2>3. PICK r \in Requests, b \in BOOLEAN : r = Head(toClient).id /\ b = Head(toClient).error
    BY <1>1, <2>2, TakeClient
  <2>4. /\ b => Has(toClient, Refused(r))
        /\ ~b => Has(toClient, Accepted(r))
    BY <1>1, <2>2, <2>3, TakeClient
  <2>5. b <=> server[r].refused
    BY <2>4 DEF RefusedInv
  <2>6. CASE request[r].known /\ request[r].live
    <3>1. request' = [request EXCEPT ![r].headers = @ + 1, ![r].refused = b]
      BY <1>3, <2>3, <2>6 DEF headers_became_available
    <3>2. request'[r].refused = b /\ \A x \in Requests \ {r} : request'[x] = request[x]
      BY <1>1, <3>1 DEF TypeOK, RequestType
    <3>3. \A x : Has(toClient', x) => Has(toClient, x)
      BY <1>1, <2>2, TailFact DEF Channels
    <3>4. ASSUME NEW x \in Requests
          PROVE  /\ Has(toClient', Refused(x)) => server'[x].refused
                 /\ Has(toClient', Accepted(x)) => ~server'[x].refused
                 /\ request'[x].headers = 1 => (request'[x].refused <=> server'[x].refused)
      <4>1. /\ Has(toClient, Refused(x)) => server[x].refused
            /\ Has(toClient, Accepted(x)) => ~server[x].refused
            /\ request[x].headers = 1 => (request[x].refused <=> server[x].refused)
        BY DEF RefusedInv
      <4>2. server'[x].refused = server[x].refused
        BY <2>2
      <4> QED
        BY <2>5, <3>2, <3>3, <4>1, <4>2
    <3> QED
      BY <3>4 DEF RefusedInv
  <2>7. CASE ~(request[r].known /\ request[r].live)
    <3>1. request' = [request EXCEPT ![r] = request'[r]] /\ request'[r] = request[r]
      BY <1>1, <1>3, <2>3, <2>7 DEF headers_became_available, TypeOK
    <3> QED
      BY <1>1, <2>2, <2>a, <3>1, RefusedRequest
  <2> QED
    BY <2>6, <2>7
<1>4. CASE request_finished
  <2>1. Delivered("request_finished")
    BY <1>4 DEF request_finished
  <2>2. /\ toClient # <<>> /\ toClient' = Tail(toClient) /\ UNCHANGED server
        /\ Head(toClient).type = "request_finished"
    BY <2>1, DeliveredFact
  <2>a. \A x : Has(toClient', x) => Has(toClient, x)
    BY <1>1, <2>2, TailFact DEF Channels
  <2>3. PICK r \in Requests, e \in BOOLEAN : r = Head(toClient).id /\ e = Head(toClient).error
    BY <1>1, <2>2, TakeClient
  <2>4. request[r] \in RequestType
    BY <1>1 DEF TypeOK
  <2>5. CASE request[r].known /\ request[r].live
    <3> DEFINE q == DidFinish(request[r], e)
    <3>1. OnFinish(q, r)
      BY <1>4, <2>3, <2>5 DEF request_finished
    <3>2. q \in RequestType /\ q.headers = request[r].headers /\ q.refused = request[r].refused
      BY <2>4 DEF DidFinish, RequestType
    <3> HIDE DEF q
    <3>3. /\ request' = [request EXCEPT ![r] = request'[r]]
          /\ request'[r].headers = request[r].headers /\ request'[r].refused = request[r].refused
      BY <1>1, <3>1, <3>2, OnFinishRefused
    <3> QED
      BY <1>1, <2>2, <2>a, <3>3, RefusedRequest
  <2>6. CASE ~(request[r].known /\ request[r].live)
    <3>1. request' = [request EXCEPT ![r].known = FALSE]
      BY <1>4, <2>3, <2>6 DEF request_finished
    <3>2. /\ request' = [request EXCEPT ![r] = request'[r]]
          /\ request'[r].headers = request[r].headers /\ request'[r].refused = request[r].refused
      BY <1>1, <3>1 DEF TypeOK, RequestType
    <3> QED
      BY <1>1, <2>2, <2>a, <3>2, RefusedRequest
  <2> QED
    BY <2>5, <2>6
<1>5. CASE StopAnswered
  <2>1. /\ waiting # None /\ request' = [request EXCEPT ![waiting] = TimedOut(request[waiting])]
        /\ toClient' = toClient /\ UNCHANGED server
    BY <1>5 DEF StopAnswered, serverVars
  <2>2. waiting \in Requests /\ request[waiting] \in RequestType
    BY <1>1, <2>1 DEF TypeOK
  <2>3. /\ request' = [request EXCEPT ![waiting] = request'[waiting]]
        /\ request'[waiting] = TimedOut(request[waiting])
    BY <1>1, <2>1, <2>2 DEF TypeOK
  <2>4. Same(TimedOut(request[waiting]), request[waiting], {"outcomes"})
    BY <2>2, TimeOutFact
  <2>5. /\ request'[waiting].headers = request[waiting].headers
        /\ request'[waiting].refused = request[waiting].refused
    BY <2>3, <2>4 DEF Same, Fields
  <2>a. \A x : Has(toClient', x) => Has(toClient, x)
    BY <2>1
  <2> QED
    BY <1>1, <2>a, <2>1, <2>2, <2>3, <2>5, RefusedRequest
<1>6. CASE StopFails
  BY <1>6, RefusedFrame DEF StopFails, clientVars, serverVars, channels
<1>7. ASSUME NEW r \in Requests, ReadPipe(r) PROVE RefusedInv'
  <2> DEFINE q == ReadAll(request[r], r)
  <2>1. /\ toClient' = toClient /\ UNCHANGED server
        /\ IF q.done THEN OnFinish(q, r)
           ELSE request' = [request EXCEPT ![r] = q] /\ UNCHANGED pendingLoads
    BY <1>7 DEF ReadPipe, serverVars, channels
  <2>2. q \in RequestType /\ Same(q, request[r], {"read", "eof"})
    BY <1>1, ReadAllFact DEF TypeOK
  <2> HIDE DEF q
  <2>3. /\ request' = [request EXCEPT ![r] = request'[r]]
        /\ request'[r].headers = q.headers /\ request'[r].refused = q.refused
    BY <1>1, <2>1, <2>2, OnFinishRefused DEF TypeOK
  <2>4. q.headers = request[r].headers /\ q.refused = request[r].refused
    BY <2>2 DEF Same, Fields
  <2>a. \A x : Has(toClient', x) => Has(toClient, x)
    BY <2>1
  <2> QED
    BY <1>1, <2>a, <2>1, <2>3, <2>4, RefusedRequest
<1>8. ASSUME NEW r \in Requests, CallbackReturns(r) PROVE RefusedInv'
  <2>1. /\ request' = [request EXCEPT ![r].cleanup = 2] /\ toClient' = toClient /\ UNCHANGED server
    BY <1>8 DEF CallbackReturns, serverVars, channels
  <2>2. /\ request' = [request EXCEPT ![r] = request'[r]]
        /\ request'[r].headers = request[r].headers /\ request'[r].refused = request[r].refused
    BY <1>1, <2>1 DEF TypeOK, RequestType
  <2>a. \A x : Has(toClient', x) => Has(toClient, x)
    BY <2>1
  <2> QED
    BY <1>1, <2>a, <2>1, <2>2, RefusedRequest
<1>9. ASSUME NEW r \in Requests, RunCleanup(r) PROVE RefusedInv'
  <2>1. /\ \/ request' = [request EXCEPT ![r].cleanup = 1]
           \/ request' = [request EXCEPT ![r] = Unreferenced([request[r] EXCEPT !.cleanup = 0, !.active = FALSE])]
        /\ toClient' = toClient /\ UNCHANGED server
    BY <1>9 DEF RunCleanup, serverVars, channels
  <2>2. /\ request' = [request EXCEPT ![r] = request'[r]]
        /\ request'[r].headers = request[r].headers /\ request'[r].refused = request[r].refused
    BY <1>1, <2>1 DEF TypeOK, RequestType, Unreferenced
  <2>a. \A x : Has(toClient', x) => Has(toClient, x)
    BY <2>1
  <2> QED
    BY <1>1, <2>a, <2>1, <2>2, RefusedRequest
<1> QED
  BY <1>2, <1>3, <1>4, <1>5, <1>6, <1>7, <1>8, <1>9 DEF ClientStep

(* The steps of RequestServer that post the headers *)
LEMMA RefusedHeaders ==
    ASSUME IInv, RefusedInv, crash = "none", NEW r \in Requests, server[r].kind = "request", UNCHANGED request,
           \A x \in Requests : server'[x].refused = server[x].refused,
           \A x : Has(toClient', x) => \/ Has(toClient, x) \/ x = HeadersOf(r)
                                      \/ x.type = "request_finished"
    PROVE  RefusedInv'
<1> SUFFICES ASSUME NEW x \in Requests
             PROVE  /\ Has(toClient', Refused(x)) => server'[x].refused
                    /\ Has(toClient', Accepted(x)) => ~server'[x].refused
                    /\ request'[x].headers = 1 => (request'[x].refused <=> server'[x].refused)
  BY DEF RefusedInv
<1>1. /\ Has(toClient, Refused(x)) => server[x].refused
      /\ Has(toClient, Accepted(x)) => ~server[x].refused
      /\ request[x].headers = 1 => (request[x].refused <=> server[x].refused)
  BY DEF RefusedInv
<1>2. HeadersOf(r) = Refused(x) => x = r /\ server[x].refused
  BY MessageFact DEF HeadersOf
<1>3. HeadersOf(r) = Accepted(x) => x = r /\ ~server[x].refused
  BY MessageFact DEF HeadersOf
<1>4. /\ Has(toClient', Refused(x)) => Has(toClient, Refused(x)) \/ HeadersOf(r) = Refused(x)
      /\ Has(toClient', Accepted(x)) => Has(toClient, Accepted(x)) \/ HeadersOf(r) = Accepted(x)
  BY MessageFact
<1> QED
  BY <1>1, <1>2, <1>3, <1>4

(* on_data_received() *)
LEMMA RefusedWrite ==
    ASSUME IInv, RefusedInv, crash = "none", NEW r \in Requests, server[r].kind = "request", Write(r),
           toClient' = toClient \o Headers(r), UNCHANGED request
    PROVE  RefusedInv'
<1>1. TypeOK /\ server[r].got_all_headers \in BOOLEAN
  BY DEF IInv, TypeOK, ServerType
<1>2. \A x : Has(toClient', x) => Has(toClient, x) \/ x = HeadersOf(r)
  BY <1>1, HeadersFact
<1>3. \A x \in Requests : server'[x].refused = server[x].refused
  <2>1. \/ server' = server
        \/ \E n : server' = [server EXCEPT ![r].got_all_headers = TRUE, ![r].written = n]
    BY <1>1 DEF Write, TypeOK
  <2> QED
    BY <1>1, <2>1 DEF TypeOK, ServerType
<1> QED
  BY <1>2, <1>3, RefusedHeaders

(* The steps of RequestServer *)
LEMMA RefusedServer ==
    ASSUME IInv, RefusedInv, ServerStep
    PROVE  RefusedInv'
<1>1. TypeOK /\ Channels /\ Spinning /\ \A x \in Requests : RInv(x)
  BY DEF IInv
<1>2. CASE start_request
  <2>1. Received("start_request")
    BY <1>2 DEF start_request
  <2>2. PICK r \in Requests : r = Head(toServer).id /\ Start(r)
    BY <2>1, ReceivedFact
  <2>3. request[r].headers = 0 /\ NoAnswer(r) /\ UNCHANGED request /\ toClient \in Seq(ClientMessages)
    BY <1>1, <2>1, <2>2, ReceivedFact DEF RInv, Starting, Channels
  <2>4. CASE toClient' = Append(toClient, Finished(r, TRUE)) /\ UNCHANGED server
    <3>1. Finished(r, TRUE) \in ClientMessages /\ Finished(r, TRUE).type = "request_finished"
      BY DEF Finished, ClientMessages
    <3>2. \A x : Has(toClient', x) => Has(toClient, x) \/ x.type # "headers_became_available"
      BY <2>3, <2>4, <3>1, AppendFact
    <3> QED
      BY <2>3, <2>4, <3>2, RefusedFrame
  <2>5. CASE UNCHANGED <<server, toClient>>
    BY <2>3, <2>5, RefusedFrame
  <2>6. CASE /\ toClient' = Append(toClient, Message("request_started", r))
             /\ \E b \in BOOLEAN :
                   server' = [server EXCEPT ![r] = [NewServer EXCEPT !.kind = "request", !.refused = b]]
    <3>1. Message("request_started", r) \in ClientMessages
      BY DEF Message, ClientMessages
    <3>2. \A x : Has(toClient', x) => Has(toClient, x) \/ x = Message("request_started", r)
      BY <2>3, <2>6, <3>1, AppendFact
    <3>3. ASSUME NEW x \in Requests
          PROVE  /\ Has(toClient', Refused(x)) => Has(toClient, Refused(x))
                 /\ Has(toClient', Accepted(x)) => Has(toClient, Accepted(x))
      BY <3>2, MessageFact
    <3>4. \A x \in Requests \ {r} : server'[x] = server[x]
      BY <1>1, <2>6 DEF TypeOK
    <3>5. ~Has(toClient, Refused(r)) /\ ~Has(toClient, Accepted(r)) /\ request'[r].headers = 0
      BY <2>3 DEF NoAnswer, HeadersMsg
    <3>6. ASSUME NEW x \in Requests \ {r}
          PROVE  /\ Has(toClient', Refused(x)) => server'[x].refused
                 /\ Has(toClient', Accepted(x)) => ~server'[x].refused
                 /\ request'[x].headers = 1 => (request'[x].refused <=> server'[x].refused)
      <4>1. /\ Has(toClient, Refused(x)) => server[x].refused
            /\ Has(toClient, Accepted(x)) => ~server[x].refused
            /\ request[x].headers = 1 => (request[x].refused <=> server[x].refused)
        BY DEF RefusedInv
      <4> QED
        BY <2>3, <3>3, <3>4, <4>1
    <3> QED
      BY <3>3, <3>5, <3>6 DEF RefusedInv
  <2> QED
    BY <1>2, <2>2, <2>4, <2>5, <2>6 DEF start_request
<1>3. CASE stop_request
  <2>1. Received("stop_request") /\ toClient' = toClient
    BY <1>3 DEF stop_request
  <2>2. PICK r \in Requests : r = Head(toServer).id
    BY <2>1, ReceivedFact
  <2>3. server' = [server EXCEPT ![r].kind = None] /\ UNCHANGED request
    BY <1>3, <2>1, <2>2, ReceivedFact DEF stop_request, TakeActive
  <2>4. \A x \in Requests : server'[x].refused = server[x].refused
    BY <1>1, <2>3 DEF TypeOK, ServerType
  <2> QED
    BY <2>1, <2>3, <2>4, RefusedFrame
<1>4. CASE RetryWrite
  <2>1. /\ crash = "none" /\ writing # None /\ Write(writing) /\ toClient' = toClient /\ UNCHANGED request
    BY <1>4 DEF RetryWrite, clientVars, channels
  <2>2. /\ writing \in Requests /\ server[writing].kind = "request" /\ server[writing].got_all_headers
        /\ toClient \in Seq(ClientMessages)
    BY <1>1, <2>1 DEF TypeOK, Spinning, Channels
  <2>3. toClient \o Headers(writing) = toClient
    BY <2>1, <2>2, HeadersFact
  <2> QED
    BY <2>1, <2>2, <2>3, RefusedWrite
<1>5. ASSUME NEW r \in Requests, check_active_requests(r) PROVE RefusedInv'
  <2>1. crash = "none" /\ server[r].kind # None /\ UNCHANGED request /\ server[r] \in ServerType
    BY <1>1, <1>5 DEF check_active_requests, ServerRuns, clientVars, TypeOK
  <2>2. CASE server[r].kind = "connect_only"
    <3>1. server' = [server EXCEPT ![r].kind = None] /\ toClient' = toClient
      BY <1>5, <2>2 DEF check_active_requests
    <3>2. \A x \in Requests : server'[x].refused = server[x].refused
      BY <1>1, <3>1 DEF TypeOK, ServerType
    <3> QED
      BY <2>1, <3>1, <3>2, RefusedFrame
  <2>3. CASE server[r].kind = "request"
    <3>1. PICK error \in BOOLEAN :
            /\ toClient' = toClient \o FinishMessages(r, error)
            /\ server' = [server EXCEPT ![r].kind = None, ![r].got_all_headers = TRUE,
                                        ![r].ended = IF error THEN "error" ELSE "success"]
      BY <1>5, <2>3 DEF check_active_requests
    <3> DEFINE m == Finished(r, error)
               c == toClient \o Headers(r)
    <3>2. m \in ClientMessages /\ m.type = "request_finished"
      BY DEF Finished, ClientMessages
    <3>3. c \in Seq(ClientMessages) /\ \A x : Has(c, x) => Has(toClient, x) \/ x = HeadersOf(r)
      BY <2>1, <2>3, HeadersFact DEF ServerType
    <3>4. toClient' = Append(c, m)
      <4>1. HeadersOf(r) \in ClientMessages /\ (~server[r].got_all_headers => Headers(r) = <<HeadersOf(r)>>)
        BY <2>1, HeadersOfFact
      <4>2. <<HeadersOf(r)>> \in Seq(ClientMessages) /\ <<>> \in Seq(ClientMessages) /\ <<m>> \in Seq(ClientMessages)
        BY <3>2, <4>1
      <4>3. Headers(r) \in Seq(ClientMessages) /\ toClient \in Seq(ClientMessages)
        BY <1>1, <4>1, <4>2 DEF Headers, Channels
      <4>4. toClient \o (Headers(r) \o <<m>>) = c \o <<m>>
        BY <4>2, <4>3, ConcatAssociative
      <4>5. toClient' = toClient \o (Headers(r) \o <<m>>)
        BY <3>1 DEF FinishMessages
      <4> HIDE DEF c, m
      <4>6. Append(c, m) = c \o <<m>>
        BY <3>2, <3>3, AppendIsConcat
      <4> QED
        BY <4>4, <4>5, <4>6
    <3> HIDE DEF m, c
    <3>5. \A x : Has(toClient', x) => Has(toClient, x) \/ x = HeadersOf(r) \/ x.type = "request_finished"
      BY <3>2, <3>3, <3>4, AppendFact
    <3>6. \A x \in Requests : server'[x].refused = server[x].refused
      BY <1>1, <3>1 DEF TypeOK, ServerType
    <3> QED
      BY <2>1, <2>3, <3>5, <3>6, RefusedHeaders
  <2> QED
    BY <2>1, <2>2, <2>3 DEF ServerType
<1> QED
  BY <1>2, <1>3, <1>4, <1>5 DEF ServerStep

(* Every step preserves it. *)
LEMMA NextRefused == IInv /\ RefusedInv /\ [Next]_vars => RefusedInv'
<1> SUFFICES ASSUME IInv, RefusedInv, [Next]_vars PROVE RefusedInv'
  OBVIOUS
<1>1. TypeOK /\ Channels /\ \A x \in Requests : RInv(x)
  BY DEF IInv
<1>2. CASE ServerDies
  <2>1. UNCHANGED request
    BY <1>2 DEF ServerDies, clientVars
  <2>2. PICK n \in 0 .. Len(toClient) : toClient' = SubSeq(toClient, 1, n)
    BY <1>2 DEF ServerDies
  <2>3. \A x : Has(toClient', x) => Has(toClient, x)
    BY <1>1, <2>2, PrefixFact DEF Channels
  <2>4. ASSUME NEW x \in Requests PROVE server'[x].refused = server[x].refused
    BY <1>1, <1>2 DEF ServerDies, TypeOK, ServerType
  <2> QED
    BY <2>1, <2>3, <2>4, RefusedFrame
<1>3. ASSUME NEW r \in Requests, Load(r) PROVE RefusedInv'
  <2>1. PICK valid \in BOOLEAN :
          request' = [request EXCEPT ![r] = [@ EXCEPT !.loaded = TRUE, !.valid = valid, !.live = TRUE,
                                                      !.known = TRUE, !.active = TRUE,
                                                      !.timer = r \in MayTimeOut]]
    BY <1>3 DEF Load
  <2>2. toClient' = toClient /\ UNCHANGED server
    BY <1>3 DEF Load, serverVars
  <2>3. /\ request' = [request EXCEPT ![r] = request'[r]]
        /\ request'[r].headers = request[r].headers /\ request'[r].refused = request[r].refused
    BY <1>1, <2>1 DEF TypeOK, RequestType
  <2>a. \A x : Has(toClient', x) => Has(toClient, x)
    BY <2>2
  <2> QED
    BY <1>1, <2>a, <2>2, <2>3, RefusedRequest
<1>4. ASSUME NEW r \in Requests, TimeOut(r) PROVE RefusedInv'
  <2>1. /\ toClient' = toClient /\ UNCHANGED server
        /\ \/ request' = [request EXCEPT ![r] = TimedOut(Stopped(request[r]))]
           \/ request' = [request EXCEPT ![r] = Stopped(request[r])]
    BY <1>4 DEF TimeOut, serverVars
  <2>2. request[r] \in RequestType
    BY <1>1 DEF TypeOK
  <2> DEFINE q == Stopped(request[r])
  <2>3. q \in RequestType /\ Same(q, request[r], {"live", "timer"})
    BY <2>2, TimeOutFact
  <2>4. Same(TimedOut(q), q, {"outcomes"})
    BY <2>3, TimeOutFact
  <2>5. /\ request' = [request EXCEPT ![r] = request'[r]]
        /\ request'[r] = q \/ request'[r] = TimedOut(q)
    BY <1>1, <2>1 DEF TypeOK
  <2> HIDE DEF q
  <2>6. request'[r].headers = request[r].headers /\ request'[r].refused = request[r].refused
    BY <2>3, <2>4, <2>5 DEF Same, Fields
  <2>a. \A x : Has(toClient', x) => Has(toClient, x)
    BY <2>1
  <2> QED
    BY <1>1, <2>a, <2>1, <2>5, <2>6, RefusedRequest
<1>5. ASSUME NEW r \in Requests, TimeOutInCallback(r) PROVE RefusedInv'
  BY <1>5, RefusedFrame DEF TimeOutInCallback, clientVars, serverVars, channels
<1>6. ASSUME NEW r \in Requests, on_data_received(r) PROVE RefusedInv'
  BY <1>6, RefusedWrite DEF on_data_received, ServerRuns, clientVars
<1>7. ASSUME NEW r \in Requests, ensure_connection(r) PROVE RefusedInv'
  <2>1. /\ server' = [server EXCEPT ![r].kind = "connect_only"] /\ UNCHANGED request /\ toClient' = toClient
    BY <1>7 DEF ensure_connection, channels
  <2>2. \A x \in Requests : server'[x].refused = server[x].refused
    BY <1>1, <2>1 DEF TypeOK, ServerType
  <2> QED
    BY <2>1, <2>2, RefusedFrame
<1>8. CASE UNCHANGED vars
  BY <1>8, RefusedFrame DEF vars, clientVars, serverVars, channels
<1> QED
  BY <1>2, <1>3, <1>4, <1>5, <1>6, <1>7, <1>8, RefusedClient, RefusedServer DEF Next

(* The two invariants hold in every reachable state. *)
THEOREM Invariance == Spec => [](IInv /\ RefusedInv)
<1>1. Init => RefusedInv
  <2> SUFFICES ASSUME Init PROVE RefusedInv
    OBVIOUS
  <2>1. ASSUME NEW x PROVE ~Has(toClient, x)
    BY DEF Init, Has
  <2>2. \A r \in Requests : request[r].headers = 0
    BY DEF Init, NewRequest
  <2> QED
    BY <2>1, <2>2 DEF RefusedInv
<1> QED
  BY <1>1, InitIInv, NextIInv, NextRefused, PTL DEF Spec

(* In every reachable state a load that has ended has had its headers once *)
(* and the whole body, and its outcome is the one that curl's verdict and  *)
(* the response code call for; its callbacks come once and in order; and   *)
(* m_pending_loads is exact.                                               *)
THEOREM Accounted == Spec => []LoadsAccounted
<1>1. ASSUME IInv, RefusedInv PROVE LoadsAccounted
  <2>1. TypeOK /\ PendingLoadsExact /\ \A r \in Requests : RInv(r)
    BY <1>1 DEF IInv
  <2>2. ASSUME NEW r \in Requests, request[r].called
        PROVE  /\ request[r].headers = 1 /\ request[r].read = server[r].written /\ server[r].ended # "no"
               /\ request[r].outcomes[1] = "success" <=>
                    /\ server[r].ended = "success"
                    /\ r \in Buffered /\ server[r].refused => r \in MainResources /\ server[r].written > 0
    <3>1. /\ request[r].done /\ request[r].eof /\ request[r].fd /\ request[r].valid
          /\ request[r].read = server[r].written
      BY <2>1, <2>2 DEF RInv, Finishing, Answered
    <3>2. request[r].headers = 1 /\ server[r].ended = (IF request[r].error THEN "error" ELSE "success")
      BY <2>1, <3>1 DEF RInv, Answered
    <3>3. request[r].refused <=> server[r].refused
      BY <1>1, <3>2 DEF RefusedInv
    <3>4. request[r].outcomes[1] = Verdict(request[r], r)
      <4>1. \/ request[r].outcomes = <<Verdict(request[r], r)>>
            \/ request[r].outcomes = <<Verdict(request[r], r), "timeout">>
        BY <2>1, <2>2 DEF RInv, Settled, Told
      <4> QED
        BY <4>1
    <3>5. Verdict(request[r], r) = "success" <=> ~LoadFailed(request[r], r)
      BY DEF Verdict
    <3>6. request[r].read \in Nat
      BY <2>1, RequestAssumption DEF TypeOK, RequestType
    <3>7. LoadFailed(request[r], r) <=>
            \/ request[r].error
            \/ r \in Buffered /\ server[r].refused /\ ~(r \in MainResources /\ server[r].written > 0)
      BY <3>1, <3>3, <3>6 DEF LoadFailed
    <3> QED
      BY <3>1, <3>2, <3>4, <3>5, <3>7
  <2>3. ASSUME NEW r \in Requests
        PROVE  /\ \A i, j \in DOMAIN request[r].outcomes :
                     request[r].outcomes[i] # "timeout" /\ request[r].outcomes[j] # "timeout" => i = j
               /\ \A i \in DOMAIN request[r].outcomes :
                     request[r].outcomes[i] = "timeout" => i = Len(request[r].outcomes)
    <3> DEFINE v == Verdict(request[r], r)
               o == request[r].outcomes
    <3>1. o = <<>> \/ o = <<v>> \/ o = <<v, "timeout">> \/ o = <<"timeout">>
      BY <2>1 DEF RInv, Settled, Told
    <3>2. v # "timeout"
      BY DEF Verdict
    <3> HIDE DEF v, o
    <3>3. CASE o = <<v, "timeout">>
      <4>1. DOMAIN o = {1, 2} /\ Len(o) = 2 /\ o[1] = v /\ o[2] = "timeout"
        BY <3>3
      <4> QED
        BY <3>2, <4>1 DEF o
    <3>4. CASE o = <<>>
      BY <3>4 DEF o
    <3>5. CASE o = <<v>> \/ o = <<"timeout">>
      <4>1. DOMAIN o = {1} /\ Len(o) = 1
        BY <3>5
      <4> QED
        BY <4>1 DEF o
    <3> QED
      BY <3>1, <3>3, <3>4, <3>5
  <2> QED
    BY <2>1, <2>2, <2>3 DEF LoadsAccounted, FinishIsComplete, CallbacksInOrder
<1> QED
  BY <1>1, Invariance, PTL

(* In every reachable state RequestServer has no transfer, and gets none,  *)
(* for a request whose stop() has returned.                                *)
THEOREM Released == Spec => []StopReleases
<1>1. ASSUME IInv PROVE StopReleases
  <2> SUFFICES ASSUME NEW r \in Requests, NEW i \in DOMAIN request[r].outcomes,
                      request[r].outcomes[i] = "timeout"
               PROVE  server[r].kind # "request" /\ ~Start(r)
    BY DEF StopReleases, Start, Has
  <2>1. TypeOK /\ RInv(r)
    BY <1>1 DEF IInv
  <2>2. request[r].called => Over(r)
    BY <2>1 DEF RInv, Finishing
  <2>3. ~request[r].called => Over(r)
    <3>1. request[r].outcomes # <<>>
      OBVIOUS
    <3> QED
      BY <2>1, <3>1 DEF RInv, Settled, Told, Verdict, LoadFailed
  <2>4. request[r].called \in BOOLEAN
    BY <2>1 DEF TypeOK, RequestType
  <2> QED
    BY <2>2, <2>3, <2>4 DEF Over
<1> QED
  BY <1>1, Invariance, PTL

=============================================================================

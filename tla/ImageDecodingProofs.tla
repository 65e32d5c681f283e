------------------------- MODULE ImageDecodingProofs -------------------------
(***************************************************************************)
(* The safety properties of ImageDecoding, for every set of images and     *)
(* any number of ImageDecoder processes.                                   *)
(*                                                                         *)
(* A promise is settled once because it is in one place only (OneOwner),   *)
(* and with its own image because whatever an ImageDecoder process still   *)
(* has to say under an id is about the image that WebContent knows by that *)
(* id (Matching), which needs the ids of a process to be new (Fresh) and   *)
(* nothing to be known of the processes that are still to come (Later).    *)
(* The table of jobs is what the process works on because a job has one    *)
(* place (JobsOnce) and is cancelled by die() only (Table).                *)
(***************************************************************************)
EXTENDS ImageDecoding, TLAPS

Service == [generation : Generations, alive : BOOLEAN, asked : Images \cup {None},
            entering : Ids \cup {None}, next_id : Nat, pending_jobs : SUBSET Ids,
            deferred : Seq([id : Ids, result : Outcome]),
            dying : {"no", "canceling", "done"}, canceled : SUBSET Ids, raced : BOOLEAN]

Background == [queue : Seq(Ids \X Images), running : (Ids \X Images) \cup {None}]

(* The types of the ImageDecoder process, and what its state tells about   *)
(* the call that WebContent waits in.                                      *)
ServiceInv ==
    /\ service \in Service /\ background \in Background
    /\ response # None => calling # None
    /\ service.asked # None =>
         /\ service.alive /\ service.generation = current
         /\ calling = service.asked /\ response = None
    /\ service.entering # None => service.asked # None /\ service.dying = "no"
    /\ ~exited => service.dying = "no" /\ service.canceled = {}

(* The ids that WebContent has for process g or will have when the call    *)
(* that is handled has returned, each with its image.                      *)
Known(g) ==
    client[g].pending
        \cup (IF g = current /\ response # None THEN {<<response, calling>>} ELSE {})
        \cup (IF g = service.generation /\ service.entering # None
              THEN {<<service.entering, service.asked>>} ELSE {})

ElementsOf(q) == {q[k] : k \in DOMAIN q}

Jobs == ElementsOf(background.queue) \cup ({background.running} \ {None})

(* What process g has sent or has still to say, about which id. *)
Results(g) ==
    ElementsOf(inbox[g]) \cup
        (IF g = service.generation
         THEN ElementsOf(service.deferred) \cup {[id |-> j[1], result |-> j[2]] : j \in Jobs}
         ELSE {})

(* A promise that is not settled is in one place: the call that is made,   *)
(* or one entry of one client.                                             *)
OneOwner ==
    /\ \A i \in Images \ called : outcomes[i] = <<>>
    /\ calling # None => outcomes[calling] = <<>> /\ \A g \in Generations : calling \notin PendingOf(g)
    /\ \A g \in Generations : \A e \in client[g].pending :
         /\ e[2] \in called /\ outcomes[e[2]] = <<>>
         /\ \A h \in Generations : \A f \in client[h].pending : e[2] = f[2] => g = h /\ e = f

Matching ==
    \A g \in Generations : \A e \in Known(g) :
        /\ \A r \in Results(g) : r.id = e[1] => r.result \in {e[2], "rejected"}
        /\ \A f \in Known(g) : e[1] = f[1] => e = f

Fresh ==
    \A g \in Generations : service.alive /\ g = service.generation =>
        /\ \A e \in Known(g) : e[1] < service.next_id
        /\ \A r \in Results(g) : r.id < service.next_id

Later ==
    /\ current <= service.generation
    /\ \A g \in Generations : g > service.generation => client[g].pending = {} /\ inbox[g] = <<>>
    /\ \A k \in DOMAIN sockets : sockets[k] <= service.generation
    /\ ~service.alive => service.deferred = <<>> /\ Jobs = {}

(* PendingIsServed, the promise of the present call included. *)
Served ==
    \A g \in Generations :
        client[g].state = "open" /\ ~Ended(g) /\ ~exited =>
            \A e \in Known(g) : \/ e[1] \in service.pending_jobs \cup {service.entering}
                                \/ \E m \in ElementsOf(inbox[g]) : m.id = e[1]

IInv ==
    /\ TypeOK /\ ServiceInv /\ SettledOnce /\ OneOwner /\ Matching /\ Fresh /\ Later /\ Served

-----------------------------------------------------------------------------
(***************************************************************************)
(* Sequences.                                                              *)
(***************************************************************************)

(* What is in a sequence that grows. *)
LEMMA ElementsOfAppend ==
    ASSUME NEW S, NEW q \in Seq(S), NEW x \in S
    PROVE  /\ Append(q, x) \in Seq(S) /\ DOMAIN q \subseteq DOMAIN Append(q, x)
           /\ \A k \in DOMAIN q : Append(q, x)[k] = q[k]
           /\ Len(q) + 1 \in DOMAIN Append(q, x) /\ Append(q, x)[Len(q) + 1] = x
           /\ ElementsOf(Append(q, x)) = ElementsOf(q) \cup {x}
<1>1. /\ Append(q, x) \in Seq(S) /\ Len(Append(q, x)) = Len(q) + 1 /\ Len(q) \in Nat
      /\ Append(q, x)[Len(q) + 1] = x
      /\ \A i \in 1 .. Len(q) : Append(q, x)[i] = q[i]
  OBVIOUS
<1>2. DOMAIN q = 1 .. Len(q) /\ DOMAIN Append(q, x) = 1 .. Len(q) + 1
  BY <1>1
<1>3. ASSUME NEW y PROVE y \in ElementsOf(Append(q, x)) <=> y \in ElementsOf(q) \cup {x}
  BY <1>1, <1>2 DEF ElementsOf
<1>4. QED
  BY <1>1, <1>2, <1>3

(* What is in a sequence that loses its first element, or a tail. *)
LEMMA ElementsOfTail ==
    ASSUME NEW S, NEW q \in Seq(S), q # <<>>
    PROVE  /\ Tail(q) \in Seq(S) /\ Head(q) \in S /\ Head(q) \in ElementsOf(q)
           /\ ElementsOf(Tail(q)) \subseteq ElementsOf(q)
           /\ \A k \in DOMAIN q : q[k] = Head(q) \/ q[k] \in ElementsOf(Tail(q))
<1>1. /\ Tail(q) \in Seq(S) /\ Head(q) \in S /\ Len(q) \in Nat \ {0}
      /\ Len(Tail(q)) = Len(q) - 1 /\ Head(q) = q[1]
      /\ \A i \in 1 .. Len(q) - 1 : Tail(q)[i] = q[i + 1]
  OBVIOUS
<1>2. DOMAIN q = 1 .. Len(q) /\ DOMAIN Tail(q) = 1 .. Len(q) - 1
  BY <1>1
<1>3. ASSUME NEW k \in DOMAIN q, k # 1 PROVE q[k] \in ElementsOf(Tail(q))
  <2>1. k - 1 \in 1 .. Len(q) - 1 /\ Tail(q)[k - 1] = q[k]
    BY <1>1, <1>2, <1>3
  <2>2. QED
    BY <1>2, <2>1 DEF ElementsOf
<1>4. ASSUME NEW k \in DOMAIN Tail(q) PROVE Tail(q)[k] \in ElementsOf(q)
  <2>1. k + 1 \in 1 .. Len(q) /\ Tail(q)[k] = q[k + 1]
    BY <1>1, <1>2
  <2>2. QED
    BY <1>2, <2>1 DEF ElementsOf
<1>5. Head(q) \in ElementsOf(q)
  BY <1>1, <1>2 DEF ElementsOf
<1>6. ElementsOf(Tail(q)) \subseteq ElementsOf(q)
  BY <1>4 DEF ElementsOf
<1>7. QED
  BY <1>1, <1>3, <1>5, <1>6

(* A prefix of a queue, which is what survives of the messages of a service *)
(* that has died, holds nothing else.                                      *)
LEMMA ElementsOfPrefix ==
    ASSUME NEW S, NEW q \in Seq(S), NEW n \in 0 .. Len(q)
    PROVE  /\ SubSeq(q, 1, n) \in Seq(S)
           /\ ElementsOf(SubSeq(q, 1, n)) \subseteq ElementsOf(q)
<1>1. /\ SubSeq(q, 1, n) \in Seq(S) /\ Len(SubSeq(q, 1, n)) = n /\ n <= Len(q) /\ Len(q) \in Nat
      /\ \A i \in 1 .. n : SubSeq(q, 1, n)[i] = q[i]
  OBVIOUS
<1>2. DOMAIN q = 1 .. Len(q) /\ DOMAIN SubSeq(q, 1, n) = 1 .. n
  BY <1>1
<1>3. QED
  BY <1>1, <1>2 DEF ElementsOf

-----------------------------------------------------------------------------
(***************************************************************************)
(* Types.                                                                  *)
(***************************************************************************)

(* A promise that is settled gets one more outcome. *)
LEMMA SettleType ==
    ASSUME TypeOK, NEW images \in SUBSET Images, NEW outcome \in Outcome, Settle(images, outcome)
    PROVE  /\ outcomes' \in [Images -> Seq(Outcome)]
           /\ \A i \in Images : outcomes'[i] = IF i \in images THEN Append(outcomes[i], outcome)
                                               ELSE outcomes[i]
<1>1. outcomes' = [i \in Images |-> IF i \in images THEN Append(outcomes[i], outcome)
                                    ELSE outcomes[i]]
  BY DEF Settle
<1>2. ASSUME NEW i \in Images
      PROVE  (IF i \in images THEN Append(outcomes[i], outcome) ELSE outcomes[i]) \in Seq(Outcome)
  BY DEF TypeOK
<1>3. QED
  BY <1>1, <1>2

(* The types are kept by the steps of WebContent. *)
LEMMA ClientTypes ==
    ASSUME TypeOK, ServiceInv,
           WebContentStep \/ WebContentExits \/ \E i \in Images : RejectAtOnce(i) \/ decode_image(i)
    PROVE  TypeOK'
<1> USE ImageAssumption DEF Ids
<1> DEFINE Client == [state : {"none", "open", "eof", "closed", "destroyed"},
                      pending : SUBSET (Ids \X Images)]
<1>0. /\ client \in [Generations -> Client] /\ current \in Generations
      /\ \A g \in Generations : client[g] \in Client
  BY DEF TypeOK
<1>e. \A c \in Client : AfterEof(c) \in Client /\ Dropped(c) \in Client
  BY DEF AfterEof, Dropped
<1>n. NewClient("open") \in Client /\ NewClient("closed") \in Client
  BY DEF NewClient
<1>1. ASSUME NEW i \in Images, RejectAtOnce(i) PROVE TypeOK'
  <2>1. outcomes' \in [Images -> Seq(Outcome)]
    BY <1>1, SettleType DEF RejectAtOnce, Outcome
  <2>2. QED
    BY <1>1, <2>1 DEF RejectAtOnce, channels, TypeOK
<1>2. ASSUME NEW i \in Images, decode_image(i) PROVE TypeOK'
  <2>1. service'.pending_jobs = service.pending_jobs /\ service'.canceled = service.canceled
    BY <1>2 DEF decode_image, ServiceInv, Service
  <2>2. QED
    BY <1>2, <2>1 DEF decode_image, channels, TypeOK
<1>3. CASE CallReturns
  <2>1. response \in Ids /\ calling \in Images
    BY <1>3 DEF CallReturns, TypeOK
  <2> DEFINE entered == [client[current] EXCEPT !.pending = @ \cup {<<response, calling>>}]
  <2>2. entered \in Client
    BY <1>0, <2>1
  <2>3. client' = [client EXCEPT ![current] = entered]
        \/ client' = [client EXCEPT ![current] = AfterEof(entered)]
    BY <1>3 DEF CallReturns
  <2>4. AfterEof(entered) \in Client
    BY <1>e, <2>2
  <2> HIDE DEF entered
  <2>5. client' \in [Generations -> Client]
    <3>1. client \in [Generations -> Client]
      BY <1>0
    <3>2. CASE client' = [client EXCEPT ![current] = entered]
      BY <2>2, <3>1, <3>2
    <3>3. CASE client' = [client EXCEPT ![current] = AfterEof(entered)]
      BY <2>4, <3>1, <3>3
    <3>4. QED
      BY <2>3, <3>2, <3>3
  <2>6. QED
    BY <1>3, <2>5 DEF CallReturns, TypeOK
<1>4. CASE CallFails
  <2>1. outcomes' \in [Images -> Seq(Outcome)]
    BY <1>4, SettleType DEF CallFails, Outcome, TypeOK
  <2>2. client' \in [Generations -> Client]
    BY <1>0, <1>4, <1>e DEF CallFails
  <2>3. QED
    BY <1>4, <2>1, <2>2 DEF CallFails, channels, TypeOK
<1>5. ASSUME NEW g \in Generations, HandleMessage(g) PROVE TypeOK'
  <2> DEFINE message == Head(inbox[g])
             images == {e[2] : e \in {x \in client[g].pending : x[1] = message.id}}
  <2>1. inbox[g] \in Seq([id : Ids, result : Outcome]) /\ inbox[g] # <<>>
    BY <1>5 DEF HandleMessage, TypeOK
  <2>2. message \in [id : Ids, result : Outcome] /\ Tail(inbox[g]) \in Seq([id : Ids, result : Outcome])
    BY <2>1, ElementsOfTail
  <2>3. images \subseteq Images
    BY <1>0
  <2>4. outcomes' \in [Images -> Seq(Outcome)]
    BY <1>5, <2>2, <2>3, SettleType DEF HandleMessage
  <2>5. client' \in [Generations -> Client]
    BY <1>0, <1>5 DEF HandleMessage, Take
  <2>6. inbox' \in [Generations -> Seq([id : Ids, result : Outcome])]
    BY <1>5, <2>2 DEF HandleMessage, TypeOK
  <2>7. QED
    BY <1>5, <2>4, <2>5, <2>6 DEF HandleMessage, TypeOK
<1>6. ASSUME NEW g \in Generations, ReadEof(g) PROVE TypeOK'
  <2>1. client' \in [Generations -> Client]
    BY <1>0, <1>6, <1>e DEF ReadEof
  <2>2. QED
    BY <1>6, <2>1 DEF ReadEof, channels, TypeOK
<1>7. ASSUME NEW g \in Generations, shutdown(g) PROVE TypeOK'
  <2>1. PendingOf(g) \subseteq Images
    BY <1>0 DEF PendingOf
  <2>2. outcomes' \in [Images -> Seq(Outcome)]
    BY <1>7, <2>1, SettleType DEF shutdown, RejectAll, Outcome
  <2>3. client' \in [Generations -> Client]
    BY <1>0, <1>7, <1>n DEF shutdown
  <2>4. inbox' \in [Generations -> Seq([id : Ids, result : Outcome])]
    <3>1. <<>> \in Seq([id : Ids, result : Outcome])
      OBVIOUS
    <3>2. QED
      BY <1>7, <3>1 DEF shutdown, TypeOK
  <2>5. QED
    BY <1>7, <2>2, <2>3, <2>4 DEF shutdown, TypeOK
<1>8. CASE connect_to_image_decoder
  <2>1. Head(sockets) \in Generations /\ Tail(sockets) \in Seq(Generations)
    BY <1>8, ElementsOfTail DEF connect_to_image_decoder, TypeOK
  <2>2. client' \in [Generations -> Client]
    <3>1. Dropped(client[current]) \in Client
      BY <1>0, <1>e
    <3>2. QED
      BY <1>0, <1>8, <1>n, <2>1, <3>1 DEF connect_to_image_decoder
  <2>3. QED
    BY <1>8, <2>1, <2>2 DEF connect_to_image_decoder, TypeOK
<1>9. CASE WebContentExits
  BY <1>9 DEF WebContentExits, channels, TypeOK
<1>10. QED
  BY <1>1, <1>2, <1>3, <1>4, <1>5, <1>6, <1>7, <1>8, <1>9 DEF WebContentStep

(* The types are kept by the steps of ImageDecoder and of the browser. *)
LEMMA ServiceTypes ==
    ASSUME TypeOK, ServiceInv,
           ServiceStep \/ TakeJob \/ FinishJob \/ ServiceDies \/ Relaunch
    PROVE  TypeOK' /\ ServiceInv'
<1> USE ImageAssumption DEF Ids
<1> DEFINE Message == [id : Ids, result : Outcome]
<1>0. /\ service \in Service /\ background \in Background
      /\ service.generation \in Generations /\ service.next_id \in Nat
      /\ service.pending_jobs \subseteq Ids /\ service.canceled \subseteq Ids
      /\ service.deferred \in Seq(Message) /\ background.queue \in Seq(Ids \X Images)
      /\ background.running \in (Ids \X Images) \cup {None}
      /\ service.asked \in Images \cup {None}
  BY DEF ServiceInv, Service, Background
<1>i. inbox \in [Generations -> Seq(Message)]
  BY DEF TypeOK
<1>s. ASSUME NEW id \in Ids, NEW result \in Outcome, Send(id, result)
      PROVE  inbox' \in [Generations -> Seq(Message)]
  <2>1. [id |-> id, result |-> result] \in Message
    BY <1>s
  <2>2. Append(inbox[service.generation], [id |-> id, result |-> result]) \in Seq(Message)
    BY <1>0, <1>i, <2>1, ElementsOfAppend
  <2>3. QED
    BY <1>s, <1>0, <1>i, <2>2 DEF Send
<1>1. CASE RefuseImage
  <2>1. /\ response' = service.next_id /\ service.asked # None /\ service.entering = None
        /\ service' = [service EXCEPT !.asked = None, !.next_id = @ + 1]
        /\ Send(service.next_id, "rejected")
        /\ UNCHANGED <<called, calling, outcomes, client, current, exited, sockets, background>>
    BY <1>1 DEF RefuseImage, Serves, webContent
  <2>2. inbox' \in [Generations -> Seq(Message)]
    BY <1>0, <1>s, <2>1 DEF Outcome
  <2>3. service.next_id + 1 \in Nat
    BY <1>0
  <2>4. /\ service' \in Service /\ service'.asked = None /\ service'.entering = None
        /\ service'.dying = service.dying /\ service'.canceled = service.canceled
        /\ service'.pending_jobs = service.pending_jobs
    BY <1>0, <2>1, <2>3 DEF Service
  <2>5. TypeOK'
    BY <1>0, <2>1, <2>2, <2>4 DEF TypeOK
  <2>6. QED
    BY <2>1, <2>4, <2>5 DEF ServiceInv
<1>j. CASE make_decode_image_job
  <2>1. /\ service.asked # None /\ service.asked \in Images /\ service.dying = "no"
        /\ service' = [service EXCEPT !.entering = service.next_id, !.next_id = @ + 1]
        /\ background' = [background EXCEPT !.queue = Append(@, <<service.next_id, service.asked>>)]
        /\ UNCHANGED <<called, calling, outcomes, client, current, exited, response, inbox, sockets>>
    BY <1>0, <1>j DEF make_decode_image_job, Serves, webContent, channels
  <2>2. background' \in Background
    <3>1. <<service.next_id, service.asked>> \in Ids \X Images
      BY <1>0, <2>1
    <3>2. Append(background.queue, <<service.next_id, service.asked>>) \in Seq(Ids \X Images)
      BY <1>0, <3>1, ElementsOfAppend
    <3>3. QED
      BY <1>0, <2>1, <3>2 DEF Background
  <2>3. service.next_id + 1 \in Nat
    BY <1>0
  <2>4. /\ service' \in Service /\ service'.asked = service.asked
        /\ service'.alive = service.alive /\ service'.generation = service.generation
        /\ service'.dying = service.dying /\ service'.canceled = service.canceled
        /\ service'.pending_jobs = service.pending_jobs
    BY <1>0, <2>1, <2>3 DEF Service
  <2>5. TypeOK'
    BY <2>1, <2>4 DEF TypeOK
  <2>6. QED
    BY <2>1, <2>2, <2>4, <2>5 DEF ServiceInv
<1>t. CASE EnterJob
  <2>1. /\ service.entering # None /\ service.entering \in Ids /\ response' = service.entering
        /\ service' = [service EXCEPT !.asked = None, !.entering = None,
                                      !.pending_jobs = @ \cup {service.entering}]
        /\ UNCHANGED <<called, calling, outcomes, client, current, exited, inbox, sockets, background>>
    BY <1>t DEF EnterJob, ServiceInv, Service, webContent
  <2>2. /\ service' \in Service /\ service'.asked = None /\ service'.entering = None
        /\ service'.dying = service.dying /\ service'.canceled = service.canceled
        /\ service'.pending_jobs = service.pending_jobs \cup {service.entering}
    BY <1>0, <2>1 DEF Service
  <2>3. service.asked # None /\ calling # None
    BY <2>1 DEF ServiceInv, TypeOK
  <2>4. TypeOK'
    BY <1>0, <2>1, <2>2 DEF TypeOK
  <2>5. QED
    BY <2>1, <2>2, <2>3, <2>4 DEF ServiceInv
<1>2. CASE RunDeferred
  <2> DEFINE d == Head(service.deferred)
  <2>0. service.deferred # <<>>
    BY <1>2 DEF RunDeferred
  <2>1. d \in Message /\ Tail(service.deferred) \in Seq(Message) /\ d.id \in Ids
        /\ d.result \in Outcome
    <3>1. service.deferred \in Seq(Message)
      BY <1>0
    <3>2. d \in Message /\ Tail(service.deferred) \in Seq(Message)
      BY <2>0, <3>1, ElementsOfTail, Zenon
    <3>3. QED
      BY <3>2
  <2>2. /\ service' = [service EXCEPT !.deferred = Tail(@), !.pending_jobs = @ \ {d.id}]
        /\ inbox' = inbox \/ Send(d.id, d.result)
        /\ UNCHANGED <<called, calling, outcomes, client, current, exited, response, sockets,
                       background>>
    BY <1>2 DEF RunDeferred, webContent
  <2>3. /\ service' \in Service /\ service'.asked = service.asked /\ service'.alive = service.alive
        /\ service'.generation = service.generation /\ service'.entering = service.entering
        /\ service'.dying = service.dying /\ service'.canceled = service.canceled
        /\ service'.pending_jobs = service.pending_jobs \ {d.id}
    BY <1>0, <2>1, <2>2 DEF Service
  <2>4. inbox' \in [Generations -> Seq(Message)]
    BY <1>i, <1>s, <2>1, <2>2
  <2>5. TypeOK'
    BY <1>0, <2>2, <2>3, <2>4 DEF TypeOK
  <2>6. QED
    BY <2>2, <2>3, <2>5 DEF ServiceInv
<1>3. CASE DieBegins \/ DieCancels \/ DieClears
  <2>1. UNCHANGED <<called, calling, outcomes, client, current, exited, response, inbox, sockets,
                    background>>
    BY <1>3 DEF DieBegins, DieCancels, DieClears, webContent, channels
  <2>2. exited /\ service.entering = None
    BY <1>3 DEF DieBegins, DieCancels, DieClears, ServiceInv, Serves
  <2>3. /\ service' \in Service /\ service'.asked = service.asked /\ service'.alive = service.alive
        /\ service'.generation = service.generation
        /\ service'.pending_jobs \subseteq Ids /\ service'.canceled \subseteq Ids
        /\ service'.entering = service.entering
    <3>1. CASE DieBegins
      BY <1>0, <3>1 DEF DieBegins, Service
    <3>2. CASE DieCancels
      <4>1. PICK id \in service.pending_jobs \ service.canceled :
                service' = [service EXCEPT !.canceled = @ \cup {id}]
        BY <3>2 DEF DieCancels
      <4>2. QED
        BY <1>0, <4>1 DEF Service
    <3>3. CASE DieClears
      BY <1>0, <3>3 DEF DieClears, Service
    <3>4. QED
      BY <1>3, <3>1, <3>2, <3>3
  <2>4. TypeOK'
    BY <2>1, <2>3 DEF TypeOK
  <2>5. QED
    BY <2>1, <2>2, <2>3, <2>4 DEF ServiceInv
<1>4. CASE TakeJob
  <2>1. background' = [queue |-> Tail(background.queue), running |-> Head(background.queue)]
        /\ background.queue # <<>>
        /\ UNCHANGED <<called, calling, outcomes, client, current, exited, response, inbox, sockets,
                       service>>
    BY <1>4 DEF TakeJob, webContent, channels
  <2>2. Tail(background.queue) \in Seq(Ids \X Images) /\ Head(background.queue) \in Ids \X Images
    BY <1>0, <2>1, ElementsOfTail
  <2>3. background' \in Background
    BY <2>1, <2>2 DEF Background
  <2>4. QED
    BY <2>1, <2>3 DEF TypeOK, ServiceInv
<1>5. CASE FinishJob
  <2> DEFINE id == background.running[1]
  <2>1. PICK result \in {background.running[2], "rejected"} : service' = Report(id, result)
    BY <1>5 DEF FinishJob
  <2>2. /\ background' = [background EXCEPT !.running = None] /\ background.running # None
        /\ UNCHANGED <<called, calling, outcomes, client, current, exited, response, inbox, sockets>>
    BY <1>5 DEF FinishJob, webContent, channels
  <2>3. id \in Ids /\ result \in Outcome
    BY <1>0, <2>2 DEF Outcome
  <2>4. Append(service.deferred, [id |-> id, result |-> result]) \in Seq(Message)
    <3>1. [id |-> id, result |-> result] \in Message
      BY <2>3
    <3>2. QED
      BY <1>0, <3>1, ElementsOfAppend
  <2>5. /\ service' \in Service /\ service'.asked = service.asked /\ service'.alive = service.alive
        /\ service'.generation = service.generation /\ service'.entering = service.entering
        /\ service'.dying = service.dying /\ service'.canceled = service.canceled
        /\ service'.pending_jobs \subseteq Ids
    <3>1. CASE service' = Deferred(id, result)
      BY <1>0, <2>4, <3>1 DEF Deferred, Service
    <3>2. CASE service' = RemoveHere(id)
      <4>1. (service.raced \/ service.dying = "canceling") \in BOOLEAN
        OBVIOUS
      <4>2. QED
        BY <1>0, <3>2, <4>1 DEF RemoveHere, Service
    <3>3. QED
      BY <2>1, <3>1, <3>2 DEF Report
  <2>6. background' \in Background
    BY <1>0, <2>2 DEF Background
  <2>7. TypeOK'
    BY <1>0, <2>2, <2>5 DEF TypeOK
  <2>8. QED
    BY <2>2, <2>5, <2>6, <2>7 DEF ServiceInv
<1>n. /\ \A g \in Generations : NewService(g) \in Service
      /\ NewBackground \in Background
  BY DEF NewService, Service, FirstId, NewBackground, Background
<1>6. CASE ServiceDies
  <2>1. PICK n \in 0 .. Len(inbox[service.generation]) :
           inbox' = [inbox EXCEPT ![service.generation] = SubSeq(@, 1, n)]
    BY <1>6 DEF ServiceDies
  <2>2. SubSeq(inbox[service.generation], 1, n) \in Seq(Message)
    BY <1>0, <1>i, ElementsOfPrefix
  <2>3. inbox' \in [Generations -> Seq(Message)]
    BY <1>0, <1>i, <2>1, <2>2
  <2>4. /\ UNCHANGED <<called, calling, outcomes, client, current, exited, sockets>>
        /\ service' = [NewService(service.generation) EXCEPT !.alive = FALSE]
        /\ background' = NewBackground /\ response' \in {response, None}
    BY <1>6 DEF ServiceDies, webContent
  <2>5. /\ service' \in Service /\ service'.asked = None /\ service'.dying = "no"
        /\ service'.canceled = {} /\ service'.pending_jobs = {} /\ service'.entering = None
    <3>1. NewService(service.generation) \in Service
      BY <1>0, <1>n
    <3>2. /\ NewService(service.generation).asked = None
          /\ NewService(service.generation).dying = "no"
          /\ NewService(service.generation).canceled = {}
          /\ NewService(service.generation).pending_jobs = {}
          /\ NewService(service.generation).entering = None
      BY DEF NewService
    <3>3. QED
      BY <2>4, <3>1, <3>2 DEF Service
  <2>6. TypeOK'
    BY <2>3, <2>4, <2>5 DEF TypeOK
  <2>7. QED
    BY <1>n, <2>4, <2>5, <2>6 DEF ServiceInv
<1>7. CASE Relaunch
  <2>1. service.generation + 1 \in Generations
    BY <1>0, <1>7 DEF Relaunch, Generations
  <2>2. /\ UNCHANGED <<called, calling, outcomes, client, current, exited, response, inbox,
                       background>>
        /\ service' = NewService(service.generation + 1)
        /\ sockets' = Append(sockets, service.generation + 1)
    BY <1>7 DEF Relaunch, webContent
  <2>3. sockets' \in Seq(Generations)
    BY <2>1, <2>2 DEF TypeOK
  <2>4. /\ service' \in Service /\ service'.asked = None /\ service'.dying = "no"
        /\ service'.canceled = {} /\ service'.pending_jobs = {} /\ service'.entering = None
    BY <1>n, <2>1, <2>2 DEF NewService
  <2>5. TypeOK'
    BY <2>2, <2>3, <2>4 DEF TypeOK
  <2>6. QED
    BY <2>2, <2>4, <2>5 DEF ServiceInv
<1>8. QED
  BY <1>1, <1>j, <1>t, <1>2, <1>3, <1>4, <1>5, <1>6, <1>7 DEF ServiceStep

(* What the steps of WebContent leave of ServiceInv. *)
LEMMA ClientService ==
    ASSUME TypeOK, ServiceInv,
           WebContentStep \/ WebContentExits \/ \E i \in Images : RejectAtOnce(i) \/ decode_image(i)
    PROVE  ServiceInv'
<1> USE ImageAssumption
<1>1. ASSUME NEW i \in Images, decode_image(i) PROVE ServiceInv'
  <2>1. /\ calling = None /\ calling' = i /\ response' = response /\ current' = current
        /\ exited' = exited /\ background' = background
        /\ service' = IF service.alive /\ service.generation = current
                      THEN [service EXCEPT !.asked = i] ELSE service
    BY <1>1 DEF decode_image, Runs, channels
  <2>2. response = None /\ service.asked = None
    BY <2>1 DEF ServiceInv, TypeOK, Service
  <2>3. CASE service.alive /\ service.generation = current
    <3>1. /\ service' \in Service /\ service'.asked = i /\ service'.alive
          /\ service'.generation = current /\ service'.dying = service.dying
          /\ service'.canceled = service.canceled
      BY <2>1, <2>3 DEF ServiceInv, Service
    <3>2. QED
      BY <2>1, <2>2, <3>1 DEF ServiceInv
  <2>4. CASE ~(service.alive /\ service.generation = current)
    BY <2>1, <2>2, <2>4 DEF ServiceInv
  <2>5. QED
    BY <2>3, <2>4
<1>2. ASSUME ~\E i \in Images : decode_image(i) PROVE ServiceInv'
  <2>1. UNCHANGED <<service, background>> /\ (exited => exited')
    <3>1. CASE CallReturns \/ CallFails \/ connect_to_image_decoder
      BY <3>1 DEF CallReturns, CallFails, connect_to_image_decoder
    <3>2. ASSUME NEW g \in Generations, HandleMessage(g) \/ ReadEof(g) \/ shutdown(g)
          PROVE  UNCHANGED <<service, background>> /\ (exited => exited')
      <4>1. CASE HandleMessage(g)
        BY <4>1 DEF HandleMessage
      <4>2. CASE ReadEof(g) \/ shutdown(g)
        BY <4>2 DEF ReadEof, shutdown
      <4>3. QED
        BY <3>2, <4>1, <4>2
    <3>3. CASE WebContentExits
      BY <3>3 DEF WebContentExits
    <3>6. ASSUME NEW i \in Images, RejectAtOnce(i)
          PROVE  UNCHANGED <<service, background>> /\ (exited => exited')
      BY <3>6 DEF RejectAtOnce
    <3>4. WebContentStep \/ WebContentExits \/ \E i \in Images : RejectAtOnce(i)
      BY <1>2
    <3>5. QED
      BY <3>1, <3>2, <3>3, <3>4, <3>6 DEF WebContentStep
  <2>2. CASE UNCHANGED <<calling, response, current>>
    BY <2>1, <2>2 DEF ServiceInv
  <2>3. CASE CallReturns \/ CallFails
    <3>1. service.asked = None /\ calling' = None /\ response' = None /\ current' = current
      BY <2>3 DEF CallReturns, CallFails, ServiceInv, Ended, channels
    <3>2. QED
      BY <2>1, <3>1 DEF ServiceInv
  <2>4. CASE connect_to_image_decoder
    <3>1. calling = None /\ calling' = None /\ response' = response
      BY <2>4 DEF connect_to_image_decoder, Runs
    <3>2. service.asked = None
      BY <3>1 DEF ServiceInv, Service
    <3>3. QED
      BY <2>1, <3>1, <3>2 DEF ServiceInv
  <2>5. QED
    BY <1>2, <2>2, <2>3, <2>4 DEF WebContentStep, HandleMessage, ReadEof, shutdown, WebContentExits,
       RejectAtOnce, channels
<1>3. QED
  BY <1>1, <1>2
-----------------------------------------------------------------------------
(***************************************************************************)
(* Ids and promises.                                                       *)
(***************************************************************************)

(* Steps that leave fewer ids and add nothing new to what is said of them. *)
LEMMA Fewer ==
    ASSUME Matching, Fresh, TypeOK, ServiceInv,
           \A g \in Generations : Known(g)' \subseteq Known(g),
           \A g \in Generations : \A s \in Results(g)' : \E r \in Results(g) :
               r.id = s.id /\ s.result \in {r.result, "rejected"},
           service'.alive => /\ service.alive /\ service'.generation = service.generation
                             /\ service'.next_id = service.next_id
    PROVE  Matching' /\ Fresh'
<1>1. Matching'
  <2> SUFFICES ASSUME NEW g \in Generations, NEW e \in Known(g)'
               PROVE  /\ \A s \in Results(g)' : s.id = e[1] => s.result \in {e[2], "rejected"}
                      /\ \A f \in Known(g)' : e[1] = f[1] => e = f
    BY DEF Matching
  <2>1. e \in Known(g)
    OBVIOUS
  <2>2. \A f \in Known(g)' : e[1] = f[1] => e = f
    BY <2>1 DEF Matching
  <2>3. ASSUME NEW s \in Results(g)', s.id = e[1] PROVE s.result \in {e[2], "rejected"}
    <3>1. PICK r \in Results(g) : r.id = s.id /\ s.result \in {r.result, "rejected"}
      OBVIOUS
    <3>2. r.result \in {e[2], "rejected"}
      BY <2>1, <2>3, <3>1 DEF Matching
    <3>3. QED
      BY <3>1, <3>2
  <2>4. QED
    BY <2>2, <2>3
<1>2. Fresh'
  <2> SUFFICES ASSUME NEW g \in Generations, service'.alive, g = service'.generation
               PROVE  /\ \A e \in Known(g)' : e[1] < service'.next_id
                      /\ \A s \in Results(g)' : s.id < service'.next_id
    BY DEF Fresh
  <2>1. /\ service.alive /\ g = service.generation /\ service'.next_id = service.next_id
    OBVIOUS
  <2>2. \A e \in Known(g)' : e[1] < service.next_id
    BY <2>1 DEF Fresh
  <2>3. ASSUME NEW s \in Results(g)' PROVE s.id < service.next_id
    <3>1. PICK r \in Results(g) : r.id = s.id
      OBVIOUS
    <3>2. QED
      BY <2>1, <3>1 DEF Fresh
  <2>4. QED
    BY <2>1, <2>2, <2>3
<1>3. QED
  BY <1>1, <1>2

(* What a step of WebContent leaves of what ImageDecoder says. *)
LEMMA FewerMessages ==
    ASSUME Matching, Fresh, TypeOK, ServiceInv,
           background' = background, service'.deferred = service.deferred,
           service'.generation = service.generation, service'.next_id = service.next_id,
           service'.alive = service.alive,
           \A g \in Generations : ElementsOf(inbox'[g]) \subseteq ElementsOf(inbox[g]),
           \A g \in Generations : Known(g)' \subseteq Known(g)
    PROVE  Matching' /\ Fresh'
<1>1. Jobs' = Jobs
  BY DEF Jobs
<1>2. ElementsOf(service'.deferred) = ElementsOf(service.deferred)
  OBVIOUS
<1>3. \A g \in Generations : Results(g)' \subseteq Results(g)
  BY <1>1, <1>2 DEF Results
<1>4. \A g \in Generations : \A s \in Results(g)' : \E r \in Results(g) :
          r.id = s.id /\ s.result \in {r.result, "rejected"}
  BY <1>3
<1>5. QED
  BY <1>4, Fewer

(* Promises that were not settled are settled with a legal outcome. *)
LEMMA SettlesOnce ==
    ASSUME TypeOK, SettledOnce, NEW images \in SUBSET Images, NEW outcome \in Outcome,
           \A i \in images : outcomes[i] = <<>> /\ outcome \in {i, "rejected"},
           Settle(images, outcome)
    PROVE  SettledOnce' /\ \A i \in Images \ images : outcomes'[i] = outcomes[i]
<1>1. \A i \in Images : outcomes'[i] = IF i \in images THEN Append(outcomes[i], outcome)
                                       ELSE outcomes[i]
  BY SettleType
<1>2. Append(<<>>, outcome) = <<outcome>>
  OBVIOUS
<1>3. ASSUME NEW i \in Images PROVE outcomes'[i] \in {<<>>, <<i>>, <<"rejected">>}
  <2>1. CASE i \in images
    BY <1>1, <1>2, <2>1
  <2>2. CASE i \notin images
    BY <1>1, <2>2 DEF SettledOnce
  <2>3. QED
    BY <2>1, <2>2
<1>4. QED
  BY <1>1, <1>3 DEF SettledOnce

(* The ids of a client whose entries grow no further. *)
LEMMA KnownFewer ==
    ASSUME \A g \in Generations : client'[g].pending \subseteq client[g].pending,
           response' = response, calling' = calling, current' = current \/ response = None,
           service' = service
    PROVE  \A g \in Generations : Known(g)' \subseteq Known(g)
BY DEF Known

(* The steps of WebContent but for messages keep the rest of the           *)
(* invariant.                                                              *)
LEMMA CallSteps ==
    ASSUME IInv, TypeOK',
           \/ CallReturns \/ CallFails \/ WebContentExits
           \/ \E i \in Images : RejectAtOnce(i) \/ decode_image(i)
    PROVE  SettledOnce' /\ OneOwner' /\ Matching' /\ Fresh' /\ Later' /\ Served'
<1> USE ImageAssumption
<1>0. TypeOK /\ ServiceInv /\ SettledOnce /\ OneOwner /\ Matching /\ Fresh /\ Later /\ Served
  BY DEF IInv
<1>p. \A g \in Generations : \A e \in client[g].pending :
          e \in Ids \X Images /\ e[2] \in Images /\ e[2] \in PendingOf(g)
  BY <1>0, SMTT(30) DEF TypeOK, PendingOf
<1>c. client \in [Generations -> [state : {"none", "open", "eof", "closed", "destroyed"},
                                  pending : SUBSET (Ids \X Images)]]
      /\ current \in Generations
  BY <1>0 DEF TypeOK
<1>1. ASSUME NEW i \in Images, RejectAtOnce(i)
      PROVE  SettledOnce' /\ OneOwner' /\ Matching' /\ Fresh' /\ Later' /\ Served'
  <2>1. /\ calling = None /\ i \notin called /\ called' = called \cup {i} /\ Settle({i}, "rejected")
        /\ UNCHANGED <<calling, client, current, exited, response, inbox, sockets, service,
                       background>>
    BY <1>1 DEF RejectAtOnce, Runs, channels
  <2>2. SettledOnce' /\ \A j \in Images \ {i} : outcomes'[j] = outcomes[j]
    BY <1>0, <2>1, SettlesOnce, ZenonT(40) DEF OneOwner, Outcome
  <2>3. OneOwner'
    BY <1>0, <1>p, <2>1, <2>2 DEF OneOwner
  <2>4. \A g \in Generations : Known(g)' \subseteq Known(g)
    BY <2>1, KnownFewer
  <2>5. Matching' /\ Fresh'
    BY <1>0, <2>1, <2>4, FewerMessages
  <2>6. Later'
    BY <1>0, <2>1 DEF Later, Jobs
  <2>7. Served'
    BY <1>0, <2>1, <2>4 DEF Served, Ended
  <2>8. QED
    BY <2>2, <2>3, <2>5, <2>6, <2>7
<1>2. ASSUME NEW i \in Images, decode_image(i)
      PROVE  SettledOnce' /\ OneOwner' /\ Matching' /\ Fresh' /\ Later' /\ Served'
  <2>1. /\ calling = None /\ i \notin called /\ called' = called \cup {i} /\ calling' = i
        /\ UNCHANGED <<outcomes, client, current, exited, response, inbox, sockets, background>>
        /\ service' = service \/ service' = [service EXCEPT !.asked = i]
    BY <1>2 DEF decode_image, Runs, channels
  <2>2. /\ service'.alive = service.alive /\ service'.generation = service.generation
        /\ service'.deferred = service.deferred /\ service'.next_id = service.next_id
        /\ service'.pending_jobs = service.pending_jobs /\ service'.entering = service.entering
    BY <1>0, <2>1 DEF ServiceInv, Service
  <2>3. response = None /\ service.entering = None
    BY <1>0, <2>1 DEF ServiceInv, Service
  <2>4. SettledOnce'
    BY <1>0, <2>1 DEF SettledOnce
  <2>5. OneOwner'
    <3>1. outcomes[i] = <<>> /\ \A g \in Generations : i \notin PendingOf(g)
      BY <1>0, <2>1 DEF OneOwner, PendingOf
    <3>2. \A g \in Generations : PendingOf(g)' = PendingOf(g)
      BY <2>1 DEF PendingOf
    <3>3. QED
      BY <1>0, <2>1, <3>1, <3>2 DEF OneOwner
  <2>6. \A g \in Generations : Known(g)' \subseteq Known(g)
    BY <2>1, <2>2, <2>3 DEF Known
  <2>7. Matching' /\ Fresh'
    BY <1>0, <2>1, <2>2, <2>6, FewerMessages
  <2>8. Later'
    BY <1>0, <2>1, <2>2 DEF Later, Jobs
  <2>9. Served'
    BY <1>0, <2>1, <2>2, <2>6 DEF Served, Ended
  <2>10. QED
    BY <2>4, <2>5, <2>7, <2>8, <2>9
<1>3. CASE CallReturns
  <2> DEFINE entered == [client[current] EXCEPT !.pending = @ \cup {<<response, calling>>}]
  <2>1. /\ calling # None /\ response # None /\ calling' = None /\ response' = None
        /\ UNCHANGED <<called, outcomes, current, exited, inbox, sockets, service, background>>
        /\ \/ client' = [client EXCEPT ![current] = entered]
           \/ client' = [client EXCEPT ![current] = AfterEof(entered)]
    BY <1>3 DEF CallReturns
  <2>2. /\ \A g \in Generations : client'[g].pending =
              client[g].pending \cup (IF g = current THEN {<<response, calling>>} ELSE {})
        /\ \A g \in Generations : client'[g].state = "open" => client[g].state = "open"
    <3>1. /\ entered.pending = client[current].pending \cup {<<response, calling>>}
          /\ entered.state = client[current].state
          /\ AfterEof(entered).pending = entered.pending
          /\ AfterEof(entered).state = "open" => client[current].state = "open"
      BY <1>c DEF AfterEof
    <3>2. QED
      BY <1>c, <2>1, <3>1
  <2>3. SettledOnce'
    BY <1>0, <2>1 DEF SettledOnce
  <2>4. calling \in called /\ outcomes[calling] = <<>>
        /\ \A g \in Generations : \A e \in client[g].pending : e[2] # calling
    BY <1>0, <1>p, <2>1 DEF OneOwner, TypeOK, PendingOf
  <2>5. OneOwner'
    <3>1. \A g \in Generations : \A e \in client'[g].pending :
             \/ e \in client[g].pending
             \/ g = current /\ e = <<response, calling>>
      BY <2>2
    <3>2. \A g \in Generations : \A e \in client'[g].pending :
             e[2] \in called /\ outcomes[e[2]] = <<>>
      BY <1>0, <2>4, <3>1 DEF OneOwner
    <3>3. ASSUME NEW g \in Generations, NEW e \in client'[g].pending,
                 NEW h \in Generations, NEW f \in client'[h].pending, e[2] = f[2]
          PROVE  g = h /\ e = f
      <4>1. CASE e \in client[g].pending /\ f \in client[h].pending
        BY <1>0, <3>3, <4>1 DEF OneOwner
      <4>2. CASE ~(e \in client[g].pending /\ f \in client[h].pending)
        BY <2>4, <3>1, <3>3, <4>2
      <4>3. QED
        BY <4>1, <4>2
    <3>4. QED
      BY <1>0, <2>1, <3>2, <3>3 DEF OneOwner
  <2>6. \A g \in Generations : Known(g)' \subseteq Known(g)
    BY <2>1, <2>2 DEF Known
  <2>7. Matching' /\ Fresh'
    BY <1>0, <2>1, <2>6, FewerMessages
  <2>8. Later'
    <3>1. \A g \in Generations : g > service.generation => client[g].pending = {} /\ inbox[g] = <<>>
      BY <1>0 DEF Later
    <3>2. current \in Nat /\ service.generation \in Nat /\ current <= service.generation
      BY <1>0, <1>c DEF Later, ServiceInv, Service, Generations
    <3>3. \A g \in Generations : g > service.generation => g # current
      BY <3>2 DEF Generations
    <3>4. \A g \in Generations : g > service.generation => client'[g].pending = {}
      BY <2>2, <3>1, <3>3
    <3>5. QED
      BY <1>0, <2>1, <3>1, <3>4 DEF Later, Jobs
  <2>9. Served'
    BY <1>0, <2>1, <2>2, <2>6 DEF Served, Ended
  <2>10. QED
    BY <2>3, <2>5, <2>7, <2>8, <2>9
<1>4. CASE CallFails
  <2>1. /\ calling # None /\ response = None /\ calling' = None /\ Settle({calling}, "rejected")
        /\ client' = [client EXCEPT ![current] = AfterEof(@)]
        /\ UNCHANGED <<called, current, exited, response, inbox, sockets, service, background>>
    BY <1>4 DEF CallFails, channels
  <2>2. /\ \A g \in Generations : client'[g].pending = client[g].pending
        /\ \A g \in Generations : client'[g].state = "open" => client[g].state = "open"
    BY <1>c, <2>1 DEF AfterEof
  <2>3. calling \in Images /\ calling \in called /\ outcomes[calling] = <<>>
        /\ \A g \in Generations : \A e \in client[g].pending : e[2] # calling
    BY <1>0, <1>p, <2>1 DEF OneOwner, TypeOK, PendingOf
  <2>4. SettledOnce' /\ \A j \in Images \ {calling} : outcomes'[j] = outcomes[j]
    BY <1>0, <2>1, <2>3, SettlesOnce DEF Outcome
  <2>5. OneOwner'
    BY <1>0, <1>p, <2>1, <2>2, <2>3, <2>4 DEF OneOwner
  <2>6. \A g \in Generations : Known(g)' \subseteq Known(g)
    BY <2>1, <2>2 DEF Known
  <2>7. Matching' /\ Fresh'
    BY <1>0, <2>1, <2>6, FewerMessages
  <2>8. Later'
    BY <1>0, <2>1, <2>2 DEF Later, Jobs
  <2>9. Served'
    BY <1>0, <2>1, <2>2, <2>6 DEF Served, Ended
  <2>10. QED
    BY <2>4, <2>5, <2>7, <2>8, <2>9
<1>5. CASE WebContentExits
  <2>1. exited' /\ UNCHANGED <<called, calling, outcomes, client, current, response, inbox, sockets,
                               service, background>>
    BY <1>5 DEF WebContentExits, channels
  <2>2. SettledOnce' /\ OneOwner'
    BY <1>0, <2>1 DEF SettledOnce, OneOwner, PendingOf
  <2>3. \A g \in Generations : Known(g)' \subseteq Known(g)
    BY <2>1, KnownFewer
  <2>4. Matching' /\ Fresh'
    BY <1>0, <2>1, <2>3, FewerMessages
  <2>5. Later' /\ Served'
    BY <1>0, <2>1 DEF Later, Jobs, Served
  <2>6. QED
    BY <2>2, <2>4, <2>5
<1>6. QED
  BY <1>1, <1>2, <1>3, <1>4, <1>5

(* So do the messages, the end of the stream and a new connection. *)
LEMMA ConnectionSteps ==
    ASSUME IInv, TypeOK',
           \/ connect_to_image_decoder
           \/ \E g \in Generations : HandleMessage(g) \/ ReadEof(g) \/ shutdown(g)
    PROVE  SettledOnce' /\ OneOwner' /\ Matching' /\ Fresh' /\ Later' /\ Served'
<1> USE ImageAssumption
<1>0. TypeOK /\ ServiceInv /\ SettledOnce /\ OneOwner /\ Matching /\ Fresh /\ Later /\ Served
  BY DEF IInv
<1>p. \A g \in Generations : \A e \in client[g].pending :
          e \in Ids \X Images /\ e[2] \in Images /\ e[2] \in PendingOf(g)
  BY <1>0 DEF TypeOK, PendingOf
<1>c. client \in [Generations -> [state : {"none", "open", "eof", "closed", "destroyed"},
                                  pending : SUBSET (Ids \X Images)]]
      /\ current \in Generations /\ inbox \in [Generations -> Seq([id : Ids, result : Outcome])]
  BY <1>0 DEF TypeOK
<1>r. calling = None => response = None /\ service.entering = None
  BY <1>0 DEF ServiceInv, Service
<1>1. ASSUME NEW g \in Generations, HandleMessage(g)
      PROVE  SettledOnce' /\ OneOwner' /\ Matching' /\ Fresh' /\ Later' /\ Served'
  <2> DEFINE message == Head(inbox[g])
             images == {e[2] : e \in {x \in client[g].pending : x[1] = message.id}}
  <2>1. /\ calling = None /\ inbox[g] # <<>>
        /\ Settle(images, message.result) /\ client' = Take(g, message.id)
        /\ inbox' = [inbox EXCEPT ![g] = Tail(@)]
        /\ UNCHANGED <<called, calling, current, exited, response, sockets, service, background>>
    BY <1>1 DEF HandleMessage, Runs
  <2>2. /\ message \in [id : Ids, result : Outcome] /\ message \in ElementsOf(inbox[g])
        /\ ElementsOf(Tail(inbox[g])) \subseteq ElementsOf(inbox[g])
        /\ \A k \in DOMAIN inbox[g] : inbox[g][k] = message
                                        \/ inbox[g][k] \in ElementsOf(Tail(inbox[g]))
    BY <1>c, <2>1, ElementsOfTail
  <2>3. /\ \A h \in Generations : client'[h].state = client[h].state
        /\ client'[g].pending = {e \in client[g].pending : e[1] # message.id}
        /\ \A h \in Generations \ {g} : client'[h].pending = client[h].pending
    BY <1>c, <2>1 DEF Take
  <2>4. images \subseteq Images /\ message.result \in Outcome
    BY <1>p, <2>2
  <2>5. \A i \in images : outcomes[i] = <<>> /\ message.result \in {i, "rejected"}
    <3> SUFFICES ASSUME NEW i \in images
                 PROVE  outcomes[i] = <<>> /\ message.result \in {i, "rejected"}
      OBVIOUS
    <3>1. PICK e \in client[g].pending : e[1] = message.id /\ i = e[2]
      OBVIOUS
    <3>2. e \in Known(g) /\ message \in Results(g)
      BY <2>2 DEF Known, Results
    <3>3. QED
      BY <1>0, <3>1, <3>2 DEF OneOwner, Matching
  <2>6. SettledOnce' /\ \A i \in Images \ images : outcomes'[i] = outcomes[i]
    BY <1>0, <2>1, <2>4, <2>5, SettlesOnce
  <2>7. \A h \in Generations : client'[h].pending \subseteq client[h].pending
    BY <2>3
  <2>8. \A h \in Generations : \A e \in client'[h].pending : e[2] \notin images
    BY <1>0, <2>3, <2>7 DEF OneOwner
  <2>9. images \subseteq called
    BY <1>0 DEF OneOwner
  <2>10. OneOwner'
    <3>1. \A h \in Generations : \A e \in client'[h].pending :
             e[2] \in called /\ outcomes'[e[2]] = <<>>
      BY <1>0, <1>p, <2>6, <2>7, <2>8 DEF OneOwner
    <3>2. \A i \in Images \ called : outcomes'[i] = <<>>
      BY <1>0, <2>6, <2>9 DEF OneOwner
    <3>3. \A h1, h2 \in Generations : \A e \in client'[h1].pending : \A f \in client'[h2].pending :
              e[2] = f[2] => h1 = h2 /\ e = f
      BY <1>0, <2>7 DEF OneOwner
    <3>4. QED
      BY <2>1, <3>1, <3>2, <3>3 DEF OneOwner
  <2>11. \A h \in Generations : Known(h)' \subseteq Known(h)
    BY <2>1, <2>7, KnownFewer
  <2>12. /\ inbox'[g] = Tail(inbox[g])
         /\ \A h \in Generations \ {g} : inbox'[h] = inbox[h]
    BY <1>c, <2>1
  <2>13. Matching' /\ Fresh'
    <3>1. \A h \in Generations : ElementsOf(inbox'[h]) \subseteq ElementsOf(inbox[h])
      BY <2>2, <2>12
    <3>2. QED
      BY <1>0, <2>1, <2>11, <3>1, FewerMessages
  <2>14. Later'
    <3>1. \A h \in Generations : h > service.generation =>
              client'[h].pending = {} /\ inbox'[h] = <<>>
      BY <1>0, <2>1, <2>7, <2>12 DEF Later
    <3>2. QED
      BY <1>0, <2>1, <3>1 DEF Later, Jobs
  <2>15. Served'
    <3> SUFFICES ASSUME NEW h \in Generations, client'[h].state = "open", ~Ended(h)', ~exited',
                        NEW e \in Known(h)'
                 PROVE  \/ e[1] \in service.pending_jobs \cup {service.entering}
                        \/ \E m \in ElementsOf(inbox'[h]) : m.id = e[1]
      BY <2>1 DEF Served
    <3>1. \/ e[1] \in service.pending_jobs \cup {service.entering}
          \/ \E m \in ElementsOf(inbox[h]) : m.id = e[1]
      BY <1>0, <2>1, <2>3, <2>11 DEF Served, Ended
    <3>2. CASE h = g
      <4>1. e[1] # message.id
        BY <1>r, <2>1, <2>3, <3>2 DEF Known
      <4>2. ASSUME NEW m \in ElementsOf(inbox[g]), m.id = e[1] PROVE m \in ElementsOf(Tail(inbox[g]))
        BY <2>2, <4>1, <4>2 DEF ElementsOf
      <4>3. QED
        BY <2>12, <3>1, <3>2, <4>2
    <3>3. CASE h # g
      BY <2>12, <3>1, <3>3
    <3>4. QED
      BY <3>2, <3>3
  <2>16. QED
    BY <2>6, <2>10, <2>13, <2>14, <2>15
<1>2. ASSUME NEW g \in Generations, ReadEof(g)
      PROVE  SettledOnce' /\ OneOwner' /\ Matching' /\ Fresh' /\ Later' /\ Served'
  <2>1. /\ client' = [client EXCEPT ![g] = AfterEof(@)]
        /\ UNCHANGED <<called, calling, outcomes, current, exited, response, inbox, sockets, service,
                       background>>
    BY <1>2 DEF ReadEof, channels
  <2>2. /\ \A h \in Generations : client'[h].pending = client[h].pending
        /\ \A h \in Generations : client'[h].state = "open" => client[h].state = "open"
    BY <1>c, <2>1 DEF AfterEof
  <2>3. SettledOnce'
    BY <1>0, <2>1 DEF SettledOnce
  <2>4. OneOwner'
    BY <1>0, <2>1, <2>2 DEF OneOwner, PendingOf
  <2>5. \A h \in Generations : Known(h)' \subseteq Known(h)
    BY <2>1, <2>2, KnownFewer
  <2>6. Matching' /\ Fresh'
    BY <1>0, <2>1, <2>5, FewerMessages
  <2>7. Later'
    BY <1>0, <2>1, <2>2 DEF Later, Jobs
  <2>8. Served'
    BY <1>0, <2>1, <2>2, <2>5 DEF Served, Ended
  <2>9. QED
    BY <2>3, <2>4, <2>6, <2>7, <2>8
<1>3. ASSUME NEW g \in Generations, shutdown(g)
      PROVE  SettledOnce' /\ OneOwner' /\ Matching' /\ Fresh' /\ Later' /\ Served'
  <2>1. /\ calling = None /\ Settle(PendingOf(g), "rejected")
        /\ client' = [client EXCEPT ![g] = NewClient("closed")]
        /\ inbox' = [inbox EXCEPT ![g] = <<>>]
        /\ UNCHANGED <<called, calling, current, exited, response, sockets, service, background>>
    BY <1>3 DEF shutdown, Runs, RejectAll
  <2>2. /\ client'[g].pending = {} /\ client'[g].state = "closed"
        /\ \A h \in Generations \ {g} : client'[h] = client[h]
        /\ inbox'[g] = <<>> /\ \A h \in Generations \ {g} : inbox'[h] = inbox[h]
    BY <1>c, <2>1 DEF NewClient
  <2>3. \A h \in Generations : client'[h].pending \subseteq client[h].pending
    BY <2>2
  <2>4. /\ PendingOf(g) \subseteq Images /\ PendingOf(g) \subseteq called
        /\ \A i \in PendingOf(g) : outcomes[i] = <<>>
    BY <1>0, <1>p DEF OneOwner, PendingOf
  <2>5. SettledOnce' /\ \A i \in Images \ PendingOf(g) : outcomes'[i] = outcomes[i]
    BY <1>0, <2>1, <2>4, SettlesOnce DEF Outcome
  <2>6. \A h \in Generations : \A e \in client'[h].pending : e[2] \notin PendingOf(g)
    BY <1>0, <2>2 DEF OneOwner, PendingOf
  <2>7. OneOwner'
    <3>1. \A h \in Generations : \A e \in client'[h].pending :
             e[2] \in called /\ outcomes'[e[2]] = <<>>
      BY <1>0, <1>p, <2>3, <2>5, <2>6 DEF OneOwner
    <3>2. \A i \in Images \ called : outcomes'[i] = <<>>
      BY <1>0, <2>4, <2>5 DEF OneOwner
    <3>3. \A h1, h2 \in Generations : \A e \in client'[h1].pending : \A f \in client'[h2].pending :
              e[2] = f[2] => h1 = h2 /\ e = f
      BY <1>0, <2>3 DEF OneOwner
    <3>4. QED
      BY <2>1, <3>1, <3>2, <3>3 DEF OneOwner
  <2>8. \A h \in Generations : Known(h)' \subseteq Known(h)
    BY <2>1, <2>3, KnownFewer
  <2>9. Matching' /\ Fresh'
    <3>1. ElementsOf(<<>>) = {}
      BY DEF ElementsOf
    <3>2. \A h \in Generations : ElementsOf(inbox'[h]) \subseteq ElementsOf(inbox[h])
      BY <2>2, <3>1
    <3>3. QED
      BY <1>0, <2>1, <2>8, <3>2, FewerMessages
  <2>10. Later'
    BY <1>0, <2>1, <2>2 DEF Later, Jobs
  <2>11. Served'
    <3> SUFFICES ASSUME NEW h \in Generations, client'[h].state = "open", ~Ended(h)', ~exited',
                        NEW e \in Known(h)'
                 PROVE  \/ e[1] \in service.pending_jobs \cup {service.entering}
                        \/ \E m \in ElementsOf(inbox'[h]) : m.id = e[1]
      BY <2>1 DEF Served
    <3>1. h # g /\ client'[h] = client[h] /\ inbox'[h] = inbox[h]
      BY <2>2
    <3>2. QED
      BY <1>0, <2>1, <2>8, <3>1 DEF Served, Ended
  <2>12. QED
    BY <2>5, <2>7, <2>9, <2>10, <2>11
<1>4. CASE connect_to_image_decoder
  <2>1. /\ calling = None /\ sockets # <<>> /\ current' = Head(sockets) /\ sockets' = Tail(sockets)
        /\ client' = [client EXCEPT ![current] = Dropped(@), ![Head(sockets)] = NewClient("open")]
        /\ UNCHANGED <<called, calling, outcomes, exited, response, inbox, service, background>>
    BY <1>4 DEF connect_to_image_decoder, Runs
  <2>2. /\ Head(sockets) \in Generations /\ Head(sockets) \in ElementsOf(sockets)
        /\ ElementsOf(Tail(sockets)) \subseteq ElementsOf(sockets)
    BY <1>0, <2>1, ElementsOfTail DEF TypeOK
  <2>3. /\ client'[Head(sockets)] = NewClient("open")
        /\ \A h \in Generations \ {Head(sockets)} : /\ client'[h].pending = client[h].pending
                                                    /\ client'[h].state = "open" => client[h].state = "open"
    BY <1>c, <2>1, <2>2 DEF Dropped
  <2>4. /\ client'[Head(sockets)].pending = {}
        /\ \A h \in Generations : client'[h].pending \subseteq client[h].pending
    BY <2>3 DEF NewClient
  <2>5. SettledOnce'
    BY <1>0, <2>1 DEF SettledOnce
  <2>6. OneOwner'
    <3>1. \A h \in Generations : \A e \in client'[h].pending :
             e[2] \in called /\ outcomes[e[2]] = <<>>
      BY <1>0, <2>4 DEF OneOwner
    <3>2. \A h1, h2 \in Generations : \A e \in client'[h1].pending : \A f \in client'[h2].pending :
              e[2] = f[2] => h1 = h2 /\ e = f
      BY <1>0, <2>4 DEF OneOwner
    <3>3. \A i \in Images \ called : outcomes[i] = <<>>
      BY <1>0 DEF OneOwner
    <3>4. called' = called /\ calling' = None /\ outcomes' = outcomes
      BY <2>1
    <3>5. QED
      BY <3>1, <3>2, <3>3, <3>4 DEF OneOwner
  <2>7. \A h \in Generations : Known(h)' \subseteq Known(h)
    BY <1>r, <2>1, <2>4, KnownFewer
  <2>8. Matching' /\ Fresh'
    BY <1>0, <2>1, <2>7, FewerMessages
  <2>9. Later'
    <3>1. \A x \in ElementsOf(sockets) : x <= service.generation
      BY <1>0 DEF Later, ElementsOf
    <3>2. /\ Head(sockets) <= service.generation
          /\ \A k \in DOMAIN Tail(sockets) : Tail(sockets)[k] <= service.generation
      BY <2>2, <3>1 DEF ElementsOf
    <3>3. QED
      BY <1>0, <2>1, <2>4, <3>2 DEF Later, Jobs
  <2>10. Served'
    <3> SUFFICES ASSUME NEW h \in Generations, client'[h].state = "open", ~Ended(h)', ~exited',
                        NEW e \in Known(h)'
                 PROVE  \/ e[1] \in service.pending_jobs \cup {service.entering}
                        \/ \E m \in ElementsOf(inbox[h]) : m.id = e[1]
      BY <2>1 DEF Served
    <3>1. h # Head(sockets)
      BY <1>r, <2>1, <2>4 DEF Known
    <3>2. QED
      BY <1>0, <2>1, <2>3, <2>7, <3>1 DEF Served, Ended
  <2>11. QED
    BY <2>5, <2>6, <2>8, <2>9, <2>10
<1>5. QED
  BY <1>1, <1>2, <1>3, <1>4

(* The steps of ImageDecoder and of the browser keep it too.  They leave   *)
(* the promises alone; decode_image() gives out an id that was not in use. *)
LEMMA ServiceSteps ==
    ASSUME IInv, TypeOK', ServiceInv',
           ServiceStep \/ TakeJob \/ FinishJob \/ ServiceDies \/ Relaunch
    PROVE  SettledOnce' /\ OneOwner' /\ Matching' /\ Fresh' /\ Later' /\ Served'
<1> USE ImageAssumption
<1> DEFINE Message == [id : Ids, result : Outcome]
           G == service.generation
<1>0. TypeOK /\ ServiceInv /\ SettledOnce /\ OneOwner /\ Matching /\ Fresh /\ Later /\ Served
  BY DEF IInv
<1>c. /\ inbox \in [Generations -> Seq(Message)] /\ current \in Generations
      /\ service \in Service /\ background \in Background
      /\ G \in Generations /\ service.next_id \in Nat
      /\ service.deferred \in Seq(Message) /\ background.queue \in Seq(Ids \X Images)
      /\ background.running \in (Ids \X Images) \cup {None}
  BY <1>0 DEF TypeOK, ServiceInv, Service, Background
<1>w. UNCHANGED <<called, calling, outcomes, client, current, exited>>
  BY DEF ServiceStep, RefuseImage, make_decode_image_job, EnterJob, RunDeferred, DieBegins, DieCancels, DieClears, TakeJob, FinishJob,
     ServiceDies, Relaunch, webContent
<1>o. SettledOnce' /\ OneOwner'
  BY <1>0, <1>w DEF SettledOnce, OneOwner, PendingOf
<1>f. ASSUME NEW id, NEW result, Send(id, result), [id |-> id, result |-> result] \in Message
      PROVE  /\ ElementsOf(inbox'[G]) = ElementsOf(inbox[G]) \cup {[id |-> id, result |-> result]}
             /\ \A g \in Generations \ {G} : inbox'[g] = inbox[g]
  <2>1. /\ inbox'[G] = Append(inbox[G], [id |-> id, result |-> result])
        /\ \A g \in Generations \ {G} : inbox'[g] = inbox[g]
    BY <1>c, <1>f DEF Send
  <2>2. inbox[G] \in Seq(Message)
    BY <1>c
  <2>3. ElementsOf(Append(inbox[G], [id |-> id, result |-> result])) =
          ElementsOf(inbox[G]) \cup {[id |-> id, result |-> result]}
    <3> HIDE DEF Message
    <3>1. QED
      BY <1>f, <2>2, ElementsOfAppend
  <2>4. QED
    BY <2>1, <2>3
<1>1. CASE RefuseImage \/ make_decode_image_job
  <2> DEFINE id == service.next_id
             new == <<id, calling>>
  <2>1. /\ service.asked # None /\ service.entering = None /\ sockets' = sockets
        /\ \/ /\ Send(id, "rejected") /\ background' = background /\ response' = id
              /\ service' = [service EXCEPT !.asked = None, !.next_id = @ + 1]
           \/ /\ service' = [service EXCEPT !.entering = id, !.next_id = @ + 1]
              /\ background' = [background EXCEPT !.queue = Append(@, <<id, service.asked>>)]
              /\ inbox' = inbox /\ response' = response
    BY <1>1 DEF RefuseImage, make_decode_image_job, Serves, channels
  <2>2. /\ service.alive /\ G = current /\ calling = service.asked /\ response = None
        /\ calling \in Images /\ id \in Ids
    BY <1>0, <1>c, <2>1 DEF ServiceInv, Service, Ids
  <2>3. /\ service'.alive /\ service'.generation = G /\ service'.next_id = id + 1
        /\ service'.deferred = service.deferred /\ service'.pending_jobs = service.pending_jobs
        /\ \/ service'.entering = None /\ response' = id
           \/ service'.entering = id /\ service'.asked = calling /\ response' = None
    BY <1>c, <2>1, <2>2 DEF Service
  <2>4. \A g \in Generations : \A e \in Known(g)' :
            e \in Known(g) \/ (g = G /\ e = new)
    BY <1>w, <2>1, <2>2, <2>3 DEF Known
  <2>5. /\ \A g \in Generations : \A s \in Results(g)' :
              \/ s \in Results(g)
              \/ g = G /\ s.id = id /\ s.result \in {calling, "rejected"}
        /\ \A g \in Generations \ {G} : inbox'[g] = inbox[g]
        /\ ElementsOf(inbox[G]) \subseteq ElementsOf(inbox'[G])
        /\ id = service'.entering \/ \E m \in ElementsOf(inbox'[G]) : m.id = id
    <3>1. CASE Send(id, "rejected") /\ background' = background
      <4>1. [id |-> id, result |-> "rejected"] \in Message
        BY <2>2 DEF Outcome
      <4>2. /\ ElementsOf(inbox'[G]) = ElementsOf(inbox[G]) \cup {[id |-> id, result |-> "rejected"]}
            /\ \A g \in Generations \ {G} : inbox'[g] = inbox[g]
        BY <1>f, <3>1, <4>1
      <4>3. Jobs' = Jobs
        BY <3>1 DEF Jobs
      <4>4. \A g \in Generations : \A s \in Results(g)' :
              s \in Results(g) \/ (g = G /\ s = [id |-> id, result |-> "rejected"])
        BY <2>3, <4>2, <4>3 DEF Results
      <4>6. \A g \in Generations : \A s \in Results(g)' :
              \/ s \in Results(g)
              \/ g = G /\ s.id = id /\ s.result \in {calling, "rejected"}
        BY <4>4
      <4>7. \E m \in ElementsOf(inbox'[G]) : m.id = id
        <5>1. [id |-> id, result |-> "rejected"] \in ElementsOf(inbox'[G])
          BY <4>2
        <5> WITNESS [id |-> id, result |-> "rejected"] \in ElementsOf(inbox'[G])
        <5>2. QED
          OBVIOUS
      <4>8. ElementsOf(inbox[G]) \subseteq ElementsOf(inbox'[G])
        BY <4>2
      <4>9. QED
        BY <4>2, <4>6, <4>7, <4>8
    <3>2. CASE /\ service' = [service EXCEPT !.entering = id, !.next_id = @ + 1]
               /\ background' = [background EXCEPT !.queue = Append(@, <<id, service.asked>>)]
               /\ inbox' = inbox
      <4>1. <<id, calling>> \in Ids \X Images
        BY <2>2
      <4>2. ElementsOf(Append(background.queue, <<id, calling>>)) =
              ElementsOf(background.queue) \cup {<<id, calling>>}
        <5> DEFINE Job == Ids \X Images
        <5>1. background.queue \in Seq(Job) /\ <<id, calling>> \in Job
          BY <1>c, <4>1
        <5> HIDE DEF Job
        <5>2. QED
          BY <5>1, ElementsOfAppend
      <4>3. /\ background'.queue = Append(background.queue, <<id, calling>>)
            /\ background'.running = background.running
        BY <1>c, <2>2, <3>2 DEF Background
      <4>4. Jobs' \subseteq Jobs \cup {<<id, calling>>}
        BY <4>2, <4>3 DEF Jobs
      <4>5. \A g \in Generations : \A s \in Results(g)' :
              s \in Results(g) \/ (g = G /\ s = [id |-> id, result |-> calling])
        BY <2>3, <3>2, <4>4 DEF Results
      <4>6. service'.entering = id
        BY <1>c, <3>2 DEF Service
      <4>7. QED
        BY <3>2, <4>5, <4>6
    <3>3. QED
      BY <2>1, <3>1, <3>2
  <2>6. /\ \A e \in Known(G) : e[1] < id /\ e[1] \in Nat
        /\ \A r \in Results(G) : r.id < id
    <3>1. Known(G) \subseteq Ids \X Images
      BY <1>0, <1>c, <2>1, <2>2 DEF Known, TypeOK
    <3>2. QED
      BY <1>0, <1>c, <2>2, <3>1 DEF Fresh, Ids
  <2>7. Matching'
    <3> SUFFICES ASSUME NEW g \in Generations, NEW e \in Known(g)'
                 PROVE  /\ \A s \in Results(g)' : s.id = e[1] => s.result \in {e[2], "rejected"}
                        /\ \A f \in Known(g)' : e[1] = f[1] => e = f
      BY DEF Matching
    <3>1. id \in Nat /\ ~(id < id) /\ new[1] = id /\ new[2] = calling
      BY <1>c
    <3>2. ASSUME NEW f \in Known(g)', e[1] = f[1] PROVE e = f
      <4>1. CASE e \in Known(g) /\ f \in Known(g)
        BY <1>0, <3>2, <4>1 DEF Matching
      <4>2. CASE e \notin Known(g)
        BY <2>4, <2>6, <3>1, <3>2, <4>2
      <4>3. CASE f \notin Known(g)
        BY <2>4, <2>6, <3>1, <3>2, <4>3
      <4>4. QED
        BY <4>1, <4>2, <4>3
    <3>3. ASSUME NEW s \in Results(g)', s.id = e[1] PROVE s.result \in {e[2], "rejected"}
      <4>1. CASE e \in Known(g) /\ s \in Results(g)
        BY <1>0, <3>3, <4>1 DEF Matching
      <4>2. CASE e \notin Known(g)
        BY <2>4, <2>5, <2>6, <3>1, <3>3, <4>2
      <4>3. CASE e \in Known(g) /\ s \notin Results(g)
        BY <2>5, <2>6, <3>1, <3>3, <4>3
      <4>4. QED
        BY <4>1, <4>2, <4>3
    <3>4. QED
      BY <3>2, <3>3
  <2>8. Fresh'
    <3>1. ASSUME NEW g \in Generations, g = G
          PROVE  /\ \A e \in Known(g)' : e[1] < id + 1
                 /\ \A s \in Results(g)' : s.id < id + 1
      <4>1. id \in Nat /\ new[1] = id
        BY <1>c
      <4>2. \A e \in Known(g)' : e[1] < id + 1
        BY <2>4, <2>6, <3>1, <4>1
      <4>3. \A r \in Results(G) : r.id \in Nat
        <5>1. \A m \in ElementsOf(inbox[G]) \cup ElementsOf(service.deferred) : m \in Message
          <6>1. inbox[G] \in Seq(Message) /\ service.deferred \in Seq(Message)
            BY <1>c
          <6>2. /\ \A k \in DOMAIN inbox[G] : inbox[G][k] \in Message
                /\ \A k \in DOMAIN service.deferred : service.deferred[k] \in Message
            <7> HIDE DEF Message
            <7>1. QED
              BY <6>1
          <6>3. QED
            BY <6>2 DEF ElementsOf
        <5>2. \A j \in Jobs : j \in Ids \X Images
          BY <1>c DEF Jobs, ElementsOf
        <5>3. QED
          BY <5>1, <5>2 DEF Results, Ids
      <4>4. \A s \in Results(g)' : s.id < id + 1
        BY <2>5, <2>6, <3>1, <4>1, <4>3
      <4>5. QED
        BY <4>2, <4>4
    <3>2. QED
      BY <2>3, <3>1 DEF Fresh
  <2>9. Later'
    BY <1>0, <1>c, <1>w, <2>1, <2>2, <2>3, <2>5 DEF Later, Generations
  <2>10. Served'
    <3> SUFFICES ASSUME NEW g \in Generations, client'[g].state = "open", ~Ended(g)', ~exited',
                        NEW e \in Known(g)'
                 PROVE  \/ e[1] \in service'.pending_jobs \cup {service'.entering}
                        \/ \E m \in ElementsOf(inbox'[g]) : m.id = e[1]
      BY DEF Served
    <3>1. g = G
      BY <2>3 DEF Ended
    <3>2. CASE e = new
      BY <2>5, <3>1, <3>2
    <3>3. CASE e \in Known(g)
      <4>1. e[1] \in service.pending_jobs \cup {None} \/ \E m \in ElementsOf(inbox[g]) : m.id = e[1]
        BY <1>0, <1>w, <2>1, <2>2, <3>1, <3>3 DEF Served, Ended
      <4>2. e[1] # None
        BY <2>6, <3>1, <3>3
      <4>3. QED
        BY <2>3, <2>5, <3>1, <4>1, <4>2
    <3>4. QED
      BY <2>4, <3>2, <3>3
  <2>11. QED
    BY <1>o, <2>7, <2>8, <2>9, <2>10
<1>k. ASSUME response' \in {response, None},
             \/ service'.entering = None
             \/ /\ service'.entering = service.entering /\ service'.asked = service.asked
                /\ service'.generation = service.generation
      PROVE  \A g \in Generations : Known(g)' \subseteq Known(g)
  BY <1>w, <1>k DEF Known
<1>j. CASE EnterJob
  <2>1. /\ service.alive /\ service.entering # None /\ response' = service.entering
        /\ service' = [service EXCEPT !.asked = None, !.entering = None,
                                      !.pending_jobs = @ \cup {service.entering}]
        /\ UNCHANGED <<inbox, sockets, background>>
    BY <1>j DEF EnterJob
  <2>2. /\ service'.alive /\ service'.generation = G /\ service'.next_id = service.next_id
        /\ service'.deferred = service.deferred /\ service'.entering = None
        /\ service'.pending_jobs = service.pending_jobs \cup {service.entering}
    BY <1>c, <2>1 DEF Service
  <2>3. G = current /\ calling = service.asked
    BY <1>0, <2>1 DEF ServiceInv
  <2>4. \A g \in Generations : Known(g)' \subseteq Known(g)
    BY <1>w, <2>1, <2>2, <2>3 DEF Known
  <2>5. Matching' /\ Fresh'
    BY <1>0, <2>1, <2>2, <2>4, FewerMessages
  <2>6. Later'
    BY <1>0, <1>w, <2>1, <2>2 DEF Later, Jobs
  <2>7. Served'
    BY <1>0, <1>w, <2>1, <2>2, <2>4 DEF Served, Ended
  <2>8. QED
    BY <1>o, <2>5, <2>6, <2>7
<1>2. CASE RunDeferred
  <2> DEFINE d == Head(service.deferred)
  <2>1. /\ service.alive /\ service.deferred # <<>>
        /\ service' = [service EXCEPT !.deferred = Tail(@), !.pending_jobs = @ \ {d.id}]
        /\ IF service.dying = "no" THEN Send(d.id, d.result) ELSE inbox' = inbox
        /\ UNCHANGED <<response, sockets, background>>
    BY <1>2 DEF RunDeferred
  <2>2. /\ service'.alive /\ service'.generation = G /\ service'.next_id = service.next_id
        /\ service'.deferred = Tail(service.deferred)
        /\ service'.entering = service.entering /\ service'.asked = service.asked
        /\ service'.pending_jobs = service.pending_jobs \ {d.id}
    BY <1>c, <2>1 DEF Service
  <2>3. /\ d \in Message /\ d \in ElementsOf(service.deferred)
        /\ ElementsOf(Tail(service.deferred)) \subseteq ElementsOf(service.deferred)
    BY <1>c, <2>1, ElementsOfTail, Zenon
  <2>4. /\ ElementsOf(inbox'[G]) = ElementsOf(inbox[G]) \cup
                                     (IF service.dying = "no" THEN {d} ELSE {})
        /\ \A g \in Generations \ {G} : inbox'[g] = inbox[g]
    <3>1. d = [id |-> d.id, result |-> d.result]
      BY <2>3
    <3>2. CASE service.dying = "no"
      BY <1>f, <2>1, <2>3, <3>1, <3>2
    <3>3. CASE service.dying # "no"
      BY <2>1, <3>3
    <3>4. QED
      BY <3>2, <3>3
  <2>5. Jobs' = Jobs
    BY <2>1 DEF Jobs
  <2>6. \A g \in Generations : Results(g)' \subseteq Results(g)
    BY <2>2, <2>3, <2>4, <2>5 DEF Results
  <2>7. \A g \in Generations : Known(g)' \subseteq Known(g)
    BY <1>k, <2>1, <2>2
  <2>8. Matching' /\ Fresh'
    <3>1. \A g \in Generations : \A s \in Results(g)' : \E r \in Results(g) :
              r.id = s.id /\ s.result \in {r.result, "rejected"}
      BY <2>6
    <3>2. QED
      BY <1>0, <2>1, <2>2, <2>7, <3>1, Fewer
  <2>9. Later'
    BY <1>0, <1>c, <1>w, <2>1, <2>2, <2>4, SMTT(30) DEF Later, Generations
  <2>10. Served'
    <3> SUFFICES ASSUME NEW g \in Generations, client'[g].state = "open", ~Ended(g)', ~exited',
                        NEW e \in Known(g)'
                 PROVE  \/ e[1] \in service'.pending_jobs \cup {service'.entering}
                        \/ \E m \in ElementsOf(inbox'[g]) : m.id = e[1]
      BY DEF Served
    <3>1. g = G /\ service.dying = "no"
      BY <1>0, <1>w, <2>2 DEF Ended, ServiceInv
    <3>2. \/ e[1] \in service.pending_jobs \cup {service.entering}
          \/ \E m \in ElementsOf(inbox[g]) : m.id = e[1]
      BY <1>0, <1>w, <2>1, <2>7, <3>1 DEF Served, Ended
    <3>3. ElementsOf(inbox'[g]) = ElementsOf(inbox[g]) \cup {d}
      BY <2>4, <3>1
    <3>4. QED
      BY <2>2, <3>2, <3>3
  <2>11. QED
    BY <1>o, <2>8, <2>9, <2>10
<1>3. CASE DieBegins \/ DieCancels \/ DieClears
  <2>1. /\ service.alive /\ UNCHANGED <<response, inbox, sockets, background>>
    BY <1>3 DEF DieBegins, DieCancels, DieClears, Serves, channels
  <2>2. exited
    BY <1>0, <1>3 DEF DieBegins, DieCancels, DieClears, ServiceInv
  <2>3. /\ service'.alive /\ service'.generation = G /\ service'.next_id = service.next_id
        /\ service'.deferred = service.deferred
        /\ service'.entering = service.entering /\ service'.asked = service.asked
    BY <1>c, <1>3, <2>1 DEF DieBegins, DieCancels, DieClears, Service
  <2>4. \A g \in Generations : Known(g)' \subseteq Known(g)
    BY <1>k, <2>1, <2>3
  <2>5. Matching' /\ Fresh'
    BY <1>0, <2>1, <2>3, <2>4, FewerMessages
  <2>6. Later'
    BY <1>0, <1>w, <2>1, <2>3 DEF Later, Jobs
  <2>7. Served'
    BY <1>w, <2>2 DEF Served
  <2>8. QED
    BY <1>o, <2>5, <2>6, <2>7
<1>4. CASE TakeJob
  <2>1. /\ service.alive /\ background.queue # <<>>
        /\ background' = [queue |-> Tail(background.queue), running |-> Head(background.queue)]
        /\ UNCHANGED <<response, inbox, sockets, service>>
    BY <1>4 DEF TakeJob, channels
  <2>2. /\ Head(background.queue) \in ElementsOf(background.queue)
        /\ ElementsOf(Tail(background.queue)) \subseteq ElementsOf(background.queue)
    BY <1>c, <2>1, ElementsOfTail, Zenon
  <2>3. Jobs' \subseteq Jobs
    BY <2>1, <2>2 DEF Jobs
  <2>4. \A g \in Generations : Results(g)' \subseteq Results(g)
    BY <2>1, <2>3 DEF Results
  <2>5. \A g \in Generations : Known(g)' \subseteq Known(g)
    BY <1>k, <2>1
  <2>6. Matching' /\ Fresh'
    <3>1. \A g \in Generations : \A s \in Results(g)' : \E r \in Results(g) :
              r.id = s.id /\ s.result \in {r.result, "rejected"}
      BY <2>4
    <3>2. QED
      BY <1>0, <2>1, <2>5, <3>1, Fewer
  <2>7. Later'
    BY <1>0, <1>w, <2>1 DEF Later
  <2>8. Served'
    BY <1>0, <1>w, <2>1, <2>5 DEF Served, Ended
  <2>9. QED
    BY <1>o, <2>6, <2>7, <2>8
<1>5. CASE FinishJob
  <2> DEFINE id == background.running[1]
             image == background.running[2]
  <2>1. PICK result \in {image, "rejected"} : service' = Report(id, result)
    BY <1>5 DEF FinishJob
  <2>2. /\ background' = [background EXCEPT !.running = None] /\ background.running # None
        /\ service.alive /\ UNCHANGED <<response, inbox, sockets>>
    BY <1>5 DEF FinishJob, channels
  <2>3. id \in Ids /\ image \in Images /\ [id |-> id, result |-> result] \in Message
    BY <1>c, <2>2 DEF Outcome
  <2>4. ElementsOf(Append(service.deferred, [id |-> id, result |-> result])) =
          ElementsOf(service.deferred) \cup {[id |-> id, result |-> result]}
    <3>1. service.deferred \in Seq(Message)
      BY <1>c
    <3> HIDE DEF Message
    <3>2. QED
      BY <2>3, <3>1, ElementsOfAppend
  <2>5. /\ service'.alive /\ service'.generation = G /\ service'.next_id = service.next_id
        /\ service'.deferred \in {service.deferred,
                                  Append(service.deferred, [id |-> id, result |-> result])}
        /\ service'.entering = service.entering /\ service'.asked = service.asked
        /\ ~exited => service'.pending_jobs = service.pending_jobs
    BY <1>0, <1>c, <2>1, <2>2 DEF Report, RemoveHere, Deferred, Service, ServiceInv
  <2>6. ElementsOf(service'.deferred) \subseteq
          ElementsOf(service.deferred) \cup {[id |-> id, result |-> result]}
    BY <2>4, <2>5
  <2>7. background'.queue = background.queue /\ background'.running = None
    BY <1>c, <2>2 DEF Background
  <2>8. Jobs' \subseteq Jobs /\ background.running \in Jobs
    BY <2>2, <2>7 DEF Jobs
  <2>9. \A g \in Generations : \A s \in Results(g)' :
            s \in Results(g) \/ (g = G /\ s = [id |-> id, result |-> result])
    BY <2>2, <2>5, <2>6, <2>8 DEF Results
  <2>10. [id |-> id, result |-> image] \in Results(G)
    BY <2>8 DEF Results
  <2>11. \A g \in Generations : \A s \in Results(g)' : \E r \in Results(g) :
            r.id = s.id /\ s.result \in {r.result, "rejected"}
    BY <2>9, <2>10
  <2>12. \A g \in Generations : Known(g)' \subseteq Known(g)
    BY <1>k, <2>2, <2>5
  <2>13. Matching' /\ Fresh'
    BY <1>0, <2>2, <2>5, <2>11, <2>12, Fewer
  <2>14. Later'
    BY <1>0, <1>w, <2>2, <2>5 DEF Later
  <2>15. Served'
    <3> SUFFICES ASSUME NEW g \in Generations, client'[g].state = "open", ~Ended(g)', ~exited',
                        NEW e \in Known(g)'
                 PROVE  \/ e[1] \in service'.pending_jobs \cup {service'.entering}
                        \/ \E m \in ElementsOf(inbox'[g]) : m.id = e[1]
      BY DEF Served
    <3>1. g = G /\ service'.pending_jobs = service.pending_jobs
      BY <1>w, <2>5 DEF Ended
    <3>2. \/ e[1] \in service.pending_jobs \cup {service.entering}
          \/ \E m \in ElementsOf(inbox[g]) : m.id = e[1]
      BY <1>0, <1>w, <2>2, <2>12, <3>1 DEF Served, Ended
    <3>3. QED
      BY <2>2, <2>5, <3>1, <3>2
  <2>16. QED
    BY <1>o, <2>13, <2>14, <2>15
<1>e. ElementsOf(<<>>) = {}
  BY DEF ElementsOf
<1>6. CASE ServiceDies
  <2>1. PICK n \in 0 .. Len(inbox[G]) : inbox' = [inbox EXCEPT ![G] = SubSeq(@, 1, n)]
    BY <1>6 DEF ServiceDies
  <2>2. /\ service' = [NewService(G) EXCEPT !.alive = FALSE]
        /\ background' = NewBackground /\ response' \in {response, None} /\ sockets' = sockets
    BY <1>6 DEF ServiceDies
  <2>3. /\ service'.alive = FALSE /\ service'.generation = G /\ service'.deferred = <<>>
        /\ service'.entering = None
    BY <2>2 DEF NewService
  <2>4. Jobs' = {}
    BY <1>e, <2>2 DEF Jobs, NewBackground
  <2>5. /\ ElementsOf(inbox'[G]) \subseteq ElementsOf(inbox[G])
        /\ \A g \in Generations \ {G} : inbox'[g] = inbox[g]
    <3>1. inbox'[G] = SubSeq(inbox[G], 1, n) /\ \A g \in Generations \ {G} : inbox'[g] = inbox[g]
      BY <1>c, <2>1
    <3>2. QED
      BY <1>c, <3>1, ElementsOfPrefix
  <2>6. \A g \in Generations : Results(g)' \subseteq Results(g)
    BY <1>e, <2>3, <2>4, <2>5 DEF Results
  <2>7. \A g \in Generations : Known(g)' \subseteq Known(g)
    BY <1>k, <2>2, <2>3
  <2>8. Matching' /\ Fresh'
    <3>1. \A g \in Generations : \A s \in Results(g)' : \E r \in Results(g) :
              r.id = s.id /\ s.result \in {r.result, "rejected"}
      BY <2>6
    <3>2. QED
      BY <1>0, <2>3, <2>7, <3>1, Fewer
  <2>9. Later'
    BY <1>0, <1>c, <1>w, <2>2, <2>3, <2>4, <2>5 DEF Later, Generations
  <2>10. Served'
    BY <2>3 DEF Served, Ended
  <2>11. QED
    BY <1>o, <2>8, <2>9, <2>10
<1>7. CASE Relaunch
  <2>1. /\ ~service.alive /\ service' = NewService(G + 1) /\ sockets' = Append(sockets, G + 1)
        /\ UNCHANGED <<response, inbox, background>> /\ G + 1 \in Generations
    <3>1. /\ ~service.alive /\ service' = NewService(G + 1) /\ sockets' = Append(sockets, G + 1)
          /\ UNCHANGED <<response, inbox, background>> /\ G < MaxGenerations
      BY <1>7 DEF Relaunch
    <3>2. G + 1 \in Generations
      <4>1. G \in Generations
        BY <1>c
      <4>2. MaxGenerations \in Nat
        BY ImageAssumption
      <4>3. QED
        BY <3>1, <4>1, <4>2 DEF Generations
    <3>3. QED
      BY <3>1, <3>2
  <2>2. /\ service'.generation = G + 1 /\ service'.deferred = <<>> /\ service'.alive
        /\ service'.entering = None /\ service.entering = None
    BY <1>0, <2>1 DEF NewService, ServiceInv
  <2>3. Jobs = {} /\ Jobs' = {} /\ service.deferred = <<>>
    BY <1>0, <2>1 DEF Later, Jobs
  <2>4. \A g \in Generations : Known(g)' = Known(g)
    BY <1>w, <2>1, <2>2 DEF Known
  <2>5. \A g \in Generations : Results(g)' \subseteq Results(g)
    BY <1>e, <2>1, <2>2, <2>3 DEF Results
  <2>6. \A g \in Generations : g = G + 1 => Known(g)' = {} /\ Results(g)' = {}
    <3> SUFFICES ASSUME NEW g \in Generations, g = G + 1 PROVE Known(g)' = {} /\ Results(g)' = {}
      OBVIOUS
    <3>1. G \in Nat /\ g > G /\ g # current
      <4>1. G \in Nat /\ g > G
        BY <1>c DEF Generations
      <4>2. QED
        BY <1>0, <1>c, <4>1 DEF Generations, Later
    <3>2. client[g].pending = {} /\ inbox[g] = <<>>
      BY <1>0, <3>1 DEF Later
    <3>3. QED
      BY <1>e, <1>w, <2>1, <2>2, <2>3, <3>1, <3>2 DEF Known, Results
  <2>7. Matching'
    BY <1>0, <2>4, <2>5 DEF Matching
  <2>8. Fresh'
    BY <2>2, <2>6 DEF Fresh
  <2>9. Later'
    <3>1. \A k \in DOMAIN sockets' : sockets'[k] <= G + 1
      <4>1. sockets \in Seq(Generations) /\ G \in Nat
        BY <1>0, <1>c, SMTT(30) DEF TypeOK, Generations
      <4>2. ElementsOf(sockets') = ElementsOf(sockets) \cup {G + 1}
        BY <2>1, <4>1, ElementsOfAppend
      <4>3. \A x \in ElementsOf(sockets) : x <= G /\ x \in Nat
        BY <1>0, <4>1 DEF Later, ElementsOf, Generations
      <4>4. \A x \in ElementsOf(sockets') : x <= G + 1
        BY <4>1, <4>2, <4>3
      <4>5. QED
        BY <4>4 DEF ElementsOf
    <3>2. current \in Nat /\ G \in Nat /\ current <= G
      BY <1>0, <1>c DEF Later, Generations
    <3>3. \A g \in Generations : g > G + 1 => client[g].pending = {} /\ inbox[g] = <<>>
      BY <1>0, <3>2 DEF Later, Generations
    <3>4. current <= G + 1
      BY <3>2
    <3>5. QED
      BY <1>w, <2>1, <2>2, <3>1, <3>3, <3>4 DEF Later
  <2>10. Served'
    BY <2>2, <2>6 DEF Served, Ended
  <2>11. QED
    BY <1>o, <2>7, <2>8, <2>9, <2>10
<1>8. QED
  BY <1>1, <1>j, <1>2, <1>3, <1>4, <1>5, <1>6, <1>7 DEF ServiceStep

-----------------------------------------------------------------------------

(* IInv holds at first and is kept by every step. *)
LEMMA Invariance == Spec => []IInv
<1>1. Init => IInv
  <2> SUFFICES ASSUME Init PROVE IInv
    OBVIOUS
  <2>0. /\ 1 \in Generations /\ service = NewService(1) /\ background = NewBackground
        /\ \A g \in Generations : client[g].pending = {} /\ inbox[g] = <<>>
        /\ response = None /\ calling = None /\ current = 1
    BY ImageAssumption DEF Init, Generations, NewClient
  <2>1. TypeOK
    <3>1. \A g \in Generations : client[g] \in [state : {"none", "open", "eof", "closed", "destroyed"},
                                                pending : SUBSET (Ids \X Images)]
      BY DEF Init, NewClient
    <3>2. client \in [Generations -> [state : {"none", "open", "eof", "closed", "destroyed"},
                                      pending : SUBSET (Ids \X Images)]]
      BY <3>1 DEF Init
    <3>3. /\ outcomes \in [Images -> Seq(Outcome)]
          /\ inbox \in [Generations -> Seq([id : Ids, result : Outcome])]
          /\ sockets \in Seq(Generations)
      BY DEF Init
    <3>4. service.pending_jobs = {} /\ service.canceled = {}
      BY <2>0 DEF NewService
    <3>5. QED
      BY <2>0, <3>2, <3>3, <3>4 DEF Init, TypeOK
  <2>2. ServiceInv
    BY <2>0 DEF ServiceInv, Service, Background, NewService, NewBackground, FirstId, Ids
  <2>3. SettledOnce /\ OneOwner
    BY <2>0 DEF Init, SettledOnce, OneOwner
  <2>4. \A g \in Generations : Known(g) = {}
    BY <2>0 DEF Known, NewService
  <2>5. ElementsOf(<<>>) = {}
    BY DEF ElementsOf
  <2>6. Jobs = {} /\ service.deferred = <<>> /\ service.generation = 1
    BY <2>0, <2>5 DEF Jobs, NewBackground, NewService
  <2>7. \A g \in Generations : Results(g) = {}
    BY <2>0, <2>5, <2>6 DEF Results
  <2>8. Matching /\ Fresh /\ Served
    BY <2>4, <2>7 DEF Matching, Fresh, Served
  <2>9. Later
    <3>1. current <= 1 /\ DOMAIN sockets = {}
      BY DEF Init
    <3>2. QED
      BY <2>0, <2>6, <3>1 DEF Later
  <2>10. QED
    BY <2>1, <2>2, <2>3, <2>8, <2>9 DEF IInv
<1>2. IInv /\ [Next]_vars => IInv'
  <2> SUFFICES ASSUME IInv, [Next]_vars PROVE IInv'
    OBVIOUS
  <2>0. TypeOK /\ ServiceInv
    BY DEF IInv
  <2>1. CASE WebContentStep \/ WebContentExits
             \/ \E i \in Images : RejectAtOnce(i) \/ decode_image(i)
    <3>1. TypeOK' /\ ServiceInv'
      BY <2>0, <2>1, ClientTypes, ClientService
    <3>2. CASE \/ CallReturns \/ CallFails \/ WebContentExits
               \/ \E i \in Images : RejectAtOnce(i) \/ decode_image(i)
      BY <3>1, <3>2, CallSteps DEF IInv
    <3>3. CASE \/ connect_to_image_decoder
               \/ \E g \in Generations : HandleMessage(g) \/ ReadEof(g) \/ shutdown(g)
      BY <3>1, <3>3, ConnectionSteps DEF IInv
    <3>4. QED
      BY <2>1, <3>2, <3>3 DEF WebContentStep
  <2>2. CASE ServiceStep \/ TakeJob \/ FinishJob \/ ServiceDies \/ Relaunch
    BY <2>0, <2>2, ServiceTypes, ServiceSteps DEF IInv
  <2>3. CASE UNCHANGED vars
    <3>1. UNCHANGED <<called, calling, outcomes, client, current, exited, response, inbox, sockets,
                      service, background>>
      BY <2>3 DEF vars, webContent, channels
    <3>2. TypeOK' /\ ServiceInv' /\ SettledOnce'
      BY <3>1 DEF IInv, TypeOK, ServiceInv, SettledOnce
    <3>3. OneOwner' /\ Matching' /\ Fresh'
      BY <3>1 DEF IInv, OneOwner, PendingOf, Matching, Fresh, Known, Results, Jobs
    <3>4. Later' /\ Served'
      BY <3>1 DEF IInv, Later, Served, Jobs, Known, Ended
    <3>5. QED
      BY <3>2, <3>3, <3>4 DEF IInv
  <2>4. QED
    BY <2>1, <2>2, <2>3 DEF Next
<1>3. QED
  BY <1>1, <1>2, PTL DEF Spec

(* Ids, promises and jobs agree across the two processes and a restart:    *)
(* every promise is settled at most once and with its own image, and what  *)
(* WebContent waits for is being worked on or answered.                    *)
THEOREM Tracked == Spec => []PromisesTracked
<1>1. IInv => PromisesTracked
  <2> SUFFICES ASSUME IInv PROVE PromisesTracked
    OBVIOUS
  <2>1. PendingIsServed
    <3> SUFFICES ASSUME NEW g \in Generations, client[g].state = "open", ~Ended(g), ~exited,
                        NEW e \in client[g].pending
                 PROVE  \/ e[1] \in service.pending_jobs
                        \/ \E k \in DOMAIN inbox[g] : inbox[g][k].id = e[1]
      BY DEF PendingIsServed
    <3>1. e \in Known(g)
      BY DEF Known
    <3>2. \/ e[1] \in service.pending_jobs \cup {service.entering}
          \/ \E m \in ElementsOf(inbox[g]) : m.id = e[1]
      BY <3>1 DEF IInv, Served
    <3>3. e[1] # service.entering
      <4>1. e[1] \in Nat /\ e[2] \in PendingOf(g) /\ g = service.generation
        BY DEF IInv, TypeOK, PendingOf, Ended, Ids
      <4>2. CASE service.entering = None
        BY <4>1, <4>2, ImageAssumption
      <4>3. CASE service.entering # None
        <5>1. <<service.entering, service.asked>> \in Known(g) /\ calling = service.asked
              /\ calling # None
          BY <4>1, <4>3 DEF Known, IInv, ServiceInv
        <5>2. e[1] = service.entering => e = <<service.entering, service.asked>>
          BY <3>1, <5>1 DEF IInv, Matching
        <5>3. calling \notin PendingOf(g)
          BY <5>1 DEF IInv, OneOwner
        <5>4. QED
          BY <4>1, <5>1, <5>2, <5>3
      <4>4. QED
        BY <4>2, <4>3
    <3>4. QED
      BY <3>2, <3>3 DEF ElementsOf
  <2>2. QED
    BY <2>1 DEF IInv, PromisesTracked
<1>2. QED
  BY <1>1, Invariance, PTL

-----------------------------------------------------------------------------
(***************************************************************************)
(* The table of jobs.  A job has one place: it waits, runs or has its      *)
(* callback to come (JobsOnce).  What is removed from the table is gone    *)
(* from the jobs then, and what is left when die() clears the table is     *)
(* what it has cancelled (Table).                                          *)
(***************************************************************************)

JobsOnce ==
    /\ \A j, k \in DOMAIN background.queue :
          background.queue[j][1] = background.queue[k][1] => j = k
    /\ background.running # None =>
          \A j \in DOMAIN background.queue : background.queue[j][1] # background.running[1]
    /\ \A j, k \in DOMAIN service.deferred : service.deferred[j].id = service.deferred[k].id => j = k
    /\ Working \cap Reported = {}

Table ==
    /\ service.dying = "no" => service.canceled = {}
    /\ service.alive /\ service.dying = "no" =>
          service.pending_jobs \cup ({service.entering} \ {None}) = Working \cup Reported
    /\ service.dying = "canceling" /\ ~service.raced => Working \subseteq service.pending_jobs
    /\ service.dying = "done" /\ ~service.raced => Working \subseteq service.canceled

TableInv == (service.alive => JobsOnce) /\ Table

(* The ids of the jobs, by their places. *)
LEMMA JobIds ==
    /\ \A id : id \in Working <=> \/ \E k \in DOMAIN background.queue : id = background.queue[k][1]
                                  \/ background.running # None /\ id = background.running[1]
    /\ \A id : id \in Reported <=> \E k \in DOMAIN service.deferred : id = service.deferred[k].id
BY DEF Working, Reported

(* Every job has an id that was given out. *)
LEMMA JobsKnown ==
    ASSUME IInv, service.alive
    PROVE  \A id \in Working \cup Reported : id \in Nat /\ id < service.next_id
<1>1. /\ service.deferred \in Seq([id : Ids, result : Outcome])
      /\ background.queue \in Seq(Ids \X Images) /\ background.running \in (Ids \X Images) \cup {None}
      /\ service.generation \in Generations
  BY DEF IInv, ServiceInv, Service, Background
<1>2. \A r \in Results(service.generation) : r.id < service.next_id
  BY <1>1 DEF IInv, Fresh
<1>3. ASSUME NEW k \in DOMAIN service.deferred
      PROVE  service.deferred[k].id \in Nat /\ service.deferred[k].id < service.next_id
  <2>1. service.deferred[k] \in Results(service.generation)
    BY DEF Results, ElementsOf
  <2>2. service.deferred[k] \in [id : Ids, result : Outcome]
    <3>1. ASSUME NEW S, NEW s \in Seq(S), NEW n \in DOMAIN s PROVE s[n] \in S
      OBVIOUS
    <3>2. QED
      BY <1>1, <3>1, Zenon
  <2>3. QED
    BY <1>2, <2>1, <2>2 DEF Ids
<1>4. ASSUME NEW j \in Jobs PROVE j[1] \in Nat /\ j[1] < service.next_id
  <2>1. [id |-> j[1], result |-> j[2]] \in Results(service.generation)
    BY DEF Results
  <2>2. j \in Ids \X Images
    BY <1>1 DEF Jobs, ElementsOf
  <2>3. QED
    BY <1>2, <2>1, <2>2 DEF Ids
<1>5. Working = {j[1] : j \in Jobs}
  BY DEF Working, Jobs, ElementsOf
<1>6. QED
  BY <1>3, <1>4, <1>5 DEF Reported

(* A new job, and its entry in the table. *)
LEMMA TableGrows ==
    ASSUME IInv, TableInv, make_decode_image_job \/ EnterJob
    PROVE  TableInv'
<1> DEFINE id == service.next_id
           q == background.queue
<1>0. /\ service \in Service /\ background \in Background /\ q \in Seq(Ids \X Images)
      /\ service.next_id \in Nat /\ service.entering \in Ids \cup {None}
  BY DEF IInv, ServiceInv, Service, Background
<1>1. CASE make_decode_image_job
  <2>1. /\ service.alive /\ service.dying = "no" /\ service.entering = None /\ service.asked \in Images
        /\ service' = [service EXCEPT !.entering = id, !.next_id = @ + 1]
        /\ background' = [background EXCEPT !.queue = Append(@, <<id, service.asked>>)]
    BY <1>0, <1>1 DEF make_decode_image_job, Serves, Service
  <2>2. /\ service'.alive /\ service'.dying = "no" /\ service'.entering = id
        /\ service'.pending_jobs = service.pending_jobs /\ service'.deferred = service.deferred
        /\ background'.running = background.running /\ service'.canceled = service.canceled
        /\ background'.queue = Append(q, <<id, service.asked>>)
    BY <1>0, <2>1 DEF Service, Background
  <2>3. /\ DOMAIN q = 1 .. Len(q) /\ DOMAIN background'.queue = 1 .. Len(q) + 1 /\ Len(q) \in Nat
        /\ \A k \in 1 .. Len(q) : background'.queue[k] = q[k]
        /\ background'.queue[Len(q) + 1] = <<id, service.asked>>
    BY <1>0, <2>1, <2>2 DEF Ids
  <2>4. Reported' = Reported /\ Working' = Working \cup {id}
    <3>1. Reported' = Reported
      BY <2>2 DEF Reported
    <3>2. ASSUME NEW x PROVE x \in Working' <=> x \in Working \/ x = id
      <4>1. x \in Working' <=> \/ \E k \in DOMAIN background'.queue : x = background'.queue[k][1]
                               \/ background'.running # None /\ x = background'.running[1]
        BY DEF Working
      <4>2. (\E k \in DOMAIN background'.queue : x = background'.queue[k][1])
               <=> x = id \/ \E k \in DOMAIN q : x = q[k][1]
        <5>1. \A k \in 1 .. Len(q) : background'.queue[k][1] = q[k][1] /\ k \in 1 .. Len(q) + 1
          BY <2>3
        <5>2. background'.queue[Len(q) + 1][1] = id /\ Len(q) + 1 \in 1 .. Len(q) + 1
          BY <2>3
        <5>3. \A k \in 1 .. Len(q) + 1 : k \in 1 .. Len(q) \/ k = Len(q) + 1
          BY <2>3
        <5>4. QED
          BY <2>3, <5>1, <5>2, <5>3
      <4>3. QED
        BY <2>2, <4>1, <4>2, JobIds
    <3>3. QED
      BY <3>1, <3>2
  <2>5. \A x \in Working \cup Reported : x # id
    BY <1>0, <2>1, JobsKnown
  <2>6. JobsOnce /\ service.pending_jobs = Working \cup Reported
    BY <2>1 DEF TableInv, Table
  <2>7. \A k \in DOMAIN q : q[k][1] # id
    BY <2>5, JobIds
  <2>8. background.running # None => background.running[1] # id
    BY <2>5, JobIds
  <2>9. JobsOnce'
    <3>1. \A j, k \in DOMAIN background'.queue :
             background'.queue[j][1] = background'.queue[k][1] => j = k
      <4>1. SUFFICES ASSUME NEW j \in 1 .. Len(q) + 1, NEW k \in 1 .. Len(q) + 1,
                            background'.queue[j][1] = background'.queue[k][1]
                     PROVE  j = k
        BY <2>3
      <4>2. ASSUME NEW l \in 1 .. Len(q) PROVE background'.queue[l][1] = q[l][1] /\ q[l][1] # id
        BY <2>3, <2>7
      <4>3. background'.queue[Len(q) + 1][1] = id
        BY <2>3
      <4>4. CASE j \in 1 .. Len(q) /\ k \in 1 .. Len(q)
        <5>1. q[j][1] = q[k][1] /\ j \in DOMAIN q /\ k \in DOMAIN q
          BY <2>3, <4>1, <4>2, <4>4
        <5>2. QED
          BY <2>6, <5>1 DEF JobsOnce
      <4>5. (j \in 1 .. Len(q) \/ j = Len(q) + 1) /\ (k \in 1 .. Len(q) \/ k = Len(q) + 1)
        BY <2>3
      <4>6. QED
        BY <4>1, <4>2, <4>3, <4>4, <4>5
    <3>2. background'.running # None =>
             \A j \in DOMAIN background'.queue : background'.queue[j][1] # background'.running[1]
      BY <2>2, <2>3, <2>6, <2>8 DEF JobsOnce
    <3>3. \A j, k \in DOMAIN service'.deferred :
             service'.deferred[j].id = service'.deferred[k].id => j = k
      BY <2>2, <2>6 DEF JobsOnce
    <3>4. Working' \cap Reported' = {}
      BY <2>4, <2>5, <2>6 DEF JobsOnce
    <3>5. QED
      BY <3>1, <3>2, <3>3, <3>4 DEF JobsOnce
  <2>10. id # None
    BY <1>0, ImageAssumption
  <2>11. Table'
    BY <2>1, <2>2, <2>4, <2>6, <2>10 DEF TableInv, Table
  <2>12. QED
    BY <2>9, <2>11 DEF TableInv
<1>2. CASE EnterJob
  <2>1. /\ service.alive /\ service.entering # None /\ background' = background
        /\ service' = [service EXCEPT !.asked = None, !.entering = None,
                                      !.pending_jobs = @ \cup {service.entering}]
    BY <1>2 DEF EnterJob
  <2>2. /\ service'.alive = service.alive /\ service'.dying = service.dying /\ service'.entering = None
        /\ service'.pending_jobs = service.pending_jobs \cup {service.entering}
        /\ service'.deferred = service.deferred /\ service'.canceled = service.canceled
    BY <1>0, <2>1 DEF Service
  <2>3. Working' = Working /\ Reported' = Reported
    BY <2>1, <2>2 DEF Working, Reported
  <2>4. service.dying = "no"
    BY <2>1 DEF IInv, ServiceInv
  <2>5. JobsOnce'
    BY <2>1, <2>2, <2>3 DEF TableInv, JobsOnce
  <2>6. Table'
    BY <2>1, <2>2, <2>3, <2>4 DEF TableInv, Table
  <2>7. QED
    BY <2>5, <2>6 DEF TableInv
<1>3. QED
  BY <1>1, <1>2

(* The main thread runs a callback, and die() cancels the jobs. *)
LEMMA TableShrinks ==
    ASSUME IInv, TableInv, RunDeferred \/ DieBegins \/ DieCancels \/ DieClears
    PROVE  TableInv'
<1>0. /\ service \in Service /\ service.deferred \in Seq([id : Ids, result : Outcome])
      /\ service.raced \in BOOLEAN
  BY DEF IInv, ServiceInv, Service
<1>1. CASE RunDeferred
  <2> DEFINE q == service.deferred
             d == Head(q)
  <2>1. /\ service.alive /\ service.dying # "canceling" /\ service.entering = None /\ q # <<>>
        /\ service' = [service EXCEPT !.deferred = Tail(@), !.pending_jobs = @ \ {d.id}]
        /\ background' = background
    BY <1>1 DEF RunDeferred
  <2>2. /\ service'.alive = service.alive /\ service'.dying = service.dying
        /\ service'.entering = None /\ service'.raced = service.raced
        /\ service'.canceled = service.canceled
        /\ service'.pending_jobs = service.pending_jobs \ {d.id} /\ service'.deferred = Tail(q)
    BY <1>0, <2>1 DEF Service
  <2>3. /\ Len(q) \in Nat \ {0} /\ DOMAIN q = 1 .. Len(q) /\ DOMAIN Tail(q) = 1 .. Len(q) - 1
        /\ d = q[1] /\ \A k \in 1 .. Len(q) - 1 : Tail(q)[k] = q[k + 1]
    BY <1>0, <2>1
  <2>4. JobsOnce
    BY <2>1 DEF TableInv
  <2>5. Working' = Working
    BY <2>1 DEF Working
  <2>6. Reported' = Reported \ {d.id} /\ d.id \in Reported
    <3>1. ASSUME NEW x PROVE x \in Reported' <=> x \in Reported /\ x # d.id
      <4>1. x \in Reported' <=> \E k \in 1 .. Len(q) - 1 : x = q[k + 1].id
        <5>1. x \in Reported' <=> \E k \in DOMAIN Tail(q) : x = Tail(q)[k].id
          BY <2>2 DEF Reported
        <5>2. QED
          BY <2>3, <5>1
      <4>2. x \in Reported <=> \E k \in 1 .. Len(q) : x = q[k].id
        BY <2>3 DEF Reported
      <4>3. ASSUME x \in Reported' PROVE x \in Reported /\ x # d.id
        <5>1. PICK k \in 1 .. Len(q) - 1 : x = q[k + 1].id
          BY <4>1, <4>3
        <5>2. k + 1 \in DOMAIN q /\ k + 1 # 1 /\ 1 \in DOMAIN q
          BY <2>3
        <5>3. QED
          BY <2>3, <2>4, <4>2, <5>1, <5>2 DEF JobsOnce
      <4>4. ASSUME x \in Reported, x # d.id PROVE x \in Reported'
        <5>1. PICK k \in 1 .. Len(q) : x = q[k].id
          BY <4>2, <4>4
        <5>2. k - 1 \in 1 .. Len(q) - 1 /\ (k - 1) + 1 = k
          BY <2>3, <4>4, <5>1
        <5>3. QED
          BY <4>1, <5>1, <5>2
      <4>5. QED
        BY <4>3, <4>4
    <3>2. d.id \in Reported
      BY <2>3 DEF Reported
    <3>3. QED
      BY <3>1, <3>2
  <2>7. JobsOnce'
    <3>1. ASSUME NEW j \in DOMAIN service'.deferred, NEW k \in DOMAIN service'.deferred,
                 service'.deferred[j].id = service'.deferred[k].id
          PROVE  j = k
      <4>1. /\ j + 1 \in DOMAIN q /\ k + 1 \in DOMAIN q /\ j \in Nat /\ k \in Nat
            /\ service'.deferred[j] = q[j + 1] /\ service'.deferred[k] = q[k + 1]
        BY <2>2, <2>3
      <4>2. j + 1 = k + 1
        BY <2>4, <3>1, <4>1 DEF JobsOnce
      <4>3. QED
        BY <4>1, <4>2
    <3>2. QED
      BY <2>1, <2>4, <2>5, <2>6, <3>1 DEF JobsOnce
  <2>8. Table'
    <3>1. d.id \notin Working
      BY <2>4, <2>6 DEF JobsOnce
    <3>2. CASE service.dying = "no"
      <4>1. service.pending_jobs = Working \cup Reported
        BY <2>1, <3>2 DEF TableInv, Table
      <4>2. service'.pending_jobs = Working' \cup Reported'
        BY <2>2, <2>5, <2>6, <3>1, <4>1
      <4>3. QED
        BY <2>2, <3>2, <4>2 DEF TableInv, Table
    <3>3. CASE service.dying # "no"
      BY <2>1, <2>2, <2>5, <3>3 DEF TableInv, Table
    <3>4. QED
      BY <3>2, <3>3
  <2>9. QED
    BY <2>7, <2>8 DEF TableInv
<1>2. CASE DieBegins \/ DieCancels \/ DieClears
  <2>1. /\ service.alive /\ background' = background
        /\ service'.alive /\ service'.deferred = service.deferred
    BY <1>0, <1>2 DEF DieBegins, DieCancels, DieClears, Serves, Service
  <2>2. Working' = Working /\ Reported' = Reported
    BY <2>1 DEF Working, Reported
  <2>3. JobsOnce'
    BY <2>1, <2>2 DEF TableInv, JobsOnce
  <2>4. CASE DieBegins
    <3>1. /\ service.dying = "no" /\ service.entering = None /\ service'.dying = "canceling"
          /\ service'.pending_jobs = service.pending_jobs
      BY <1>0, <2>4 DEF DieBegins, Serves, Service
    <3>2. service.pending_jobs = Working \cup Reported
      BY <2>1, <3>1 DEF TableInv, Table
    <3>3. QED
      BY <2>2, <2>3, <3>1, <3>2 DEF TableInv, Table
  <2>5. CASE DieCancels
    <3>1. /\ service.dying = "canceling" /\ service'.dying = "canceling"
          /\ service'.pending_jobs = service.pending_jobs /\ service'.raced = service.raced
      BY <1>0, <2>5 DEF DieCancels, Service
    <3>2. QED
      BY <2>2, <2>3, <3>1 DEF TableInv, Table
  <2>6. CASE DieClears
    <3>1. /\ service.dying = "canceling" /\ service'.dying = "done"
          /\ service'.canceled = service.canceled /\ service'.raced = service.raced
          /\ service.raced \/ service.pending_jobs \subseteq service.canceled
      BY <1>0, <2>6 DEF DieClears, Service
    <3>2. QED
      BY <2>2, <2>3, <3>1 DEF TableInv, Table
  <2>7. QED
    BY <1>2, <2>4, <2>5, <2>6
<1>3. QED
  BY <1>1, <1>2

(* The background thread takes a job and reports it. *)
LEMMA TableWorks ==
    ASSUME IInv, TableInv, TakeJob \/ FinishJob
    PROVE  TableInv'
<1> DEFINE q == background.queue
<1>0. /\ service \in Service /\ background \in Background /\ q \in Seq(Ids \X Images)
      /\ background.running \in (Ids \X Images) \cup {None} /\ service.raced \in BOOLEAN
      /\ service.deferred \in Seq([id : Ids, result : Outcome])
  BY DEF IInv, ServiceInv, Service, Background
<1>a. service.alive /\ JobsOnce
  BY DEF TakeJob, FinishJob, TableInv
<1>1. CASE TakeJob
  <2>1. /\ background.running = None /\ q # <<>> /\ service' = service
        /\ background'.queue = Tail(q) /\ background'.running = Head(q)
    BY <1>1 DEF TakeJob
  <2>2. /\ Len(q) \in Nat \ {0} /\ DOMAIN q = 1 .. Len(q) /\ DOMAIN Tail(q) = 1 .. Len(q) - 1
        /\ Head(q) = q[1] /\ \A k \in 1 .. Len(q) - 1 : Tail(q)[k] = q[k + 1]
        /\ Head(q) \in Ids \X Images
    BY <1>0, <2>1
  <2>3. Head(q) # None
    BY <2>2, ImageAssumption DEF Ids
  <2>4. Working' = Working /\ Reported' = Reported
    <3>1. ASSUME NEW x PROVE x \in Working' <=> x \in Working
      <4>1. x \in Working' <=> \/ \E k \in DOMAIN background'.queue : x = background'.queue[k][1]
                               \/ background'.running # None /\ x = background'.running[1]
        BY DEF Working
      <4>2. x \in Working' <=> \/ \E k \in 1 .. Len(q) - 1 : x = q[k + 1][1]
                               \/ x = q[1][1]
        BY <2>1, <2>2, <2>3, <4>1
      <4>3. x \in Working <=> \E k \in 1 .. Len(q) : x = q[k][1]
        BY <2>1, <2>2, JobIds
      <4>4. ASSUME NEW k \in 1 .. Len(q), x = q[k][1] PROVE x \in Working'
        <5>1. k = 1 \/ (k - 1 \in 1 .. Len(q) - 1 /\ (k - 1) + 1 = k)
          BY <2>2
        <5>2. QED
          BY <4>2, <4>4, <5>1
      <4>5. ASSUME NEW k \in 1 .. Len(q) - 1, x = q[k + 1][1] PROVE x \in Working
        <5>1. k + 1 \in 1 .. Len(q)
          BY <2>2
        <5>2. QED
          BY <4>3, <4>5, <5>1
      <4>6. 1 \in 1 .. Len(q)
        BY <2>2
      <4>7. QED
        BY <4>2, <4>3, <4>4, <4>5, <4>6
    <3>2. QED
      BY <2>1, <3>1 DEF Reported
  <2>5. JobsOnce'
    <3>1. ASSUME NEW j \in DOMAIN background'.queue
          PROVE  /\ background'.queue[j][1] # background'.running[1]
                 /\ \A k \in DOMAIN background'.queue :
                       background'.queue[j][1] = background'.queue[k][1] => j = k
      <4>1. j + 1 \in DOMAIN q /\ j \in Nat /\ background'.queue[j] = q[j + 1] /\ j + 1 # 1
            /\ 1 \in DOMAIN q
        BY <2>1, <2>2
      <4>2. background'.queue[j][1] # background'.running[1]
        <5>1. q[j + 1][1] # q[1][1]
          BY <1>a, <4>1 DEF JobsOnce
        <5>2. QED
          BY <2>1, <2>2, <4>1, <5>1
      <4>3. ASSUME NEW k \in DOMAIN background'.queue,
                   background'.queue[j][1] = background'.queue[k][1]
            PROVE  j = k
        <5>1. k + 1 \in DOMAIN q /\ k \in Nat /\ background'.queue[k] = q[k + 1]
          BY <2>1, <2>2
        <5>2. j + 1 = k + 1
          BY <1>a, <4>1, <4>3, <5>1 DEF JobsOnce
        <5>3. QED
          BY <4>1, <5>1, <5>2
      <4>4. QED
        BY <4>2, <4>3
    <3>2. QED
      BY <1>a, <2>1, <2>4, <3>1 DEF JobsOnce
  <2>6. Table'
    BY <2>1, <2>4 DEF TableInv, Table
  <2>7. QED
    BY <2>5, <2>6 DEF TableInv
<1>2. CASE FinishJob
  <2> DEFINE id == background.running[1]
             p == service.deferred
  <2>1. /\ background.running # None /\ background' = [background EXCEPT !.running = None]
        /\ \E result \in {background.running[2], "rejected"} : service' = Report(id, result)
    BY <1>2 DEF FinishJob
  <2>2. background'.queue = q /\ background'.running = None
    BY <1>0, <2>1 DEF Background
  <2>3. Working' = Working \ {id} /\ id \in Working /\ id \notin Reported
    <3>1. id \in Working /\ \A k \in DOMAIN q : q[k][1] # id
      BY <1>a, <2>1, JobIds DEF JobsOnce
    <3>2. ASSUME NEW x PROVE x \in Working' <=> x \in Working /\ x # id
      <4>1. x \in Working' <=> \E k \in DOMAIN q : x = q[k][1]
        BY <2>2 DEF Working
      <4>2. QED
        BY <2>1, <3>1, <4>1, JobIds
    <3>3. QED
      BY <1>a, <3>1, <3>2 DEF JobsOnce
  <2>4. CASE id \in service.canceled
    <3>1. service' = RemoveHere(id)
      BY <2>1, <2>4 DEF Report
    <3>2. /\ service'.alive = service.alive /\ service'.dying = service.dying
          /\ service'.canceled = service.canceled /\ service'.deferred = p
          /\ service'.raced = (service.raced \/ service.dying = "canceling")
      BY <1>0, <3>1 DEF RemoveHere, Service
    <3>3. service.dying # "no"
      BY <2>4 DEF TableInv, Table
    <3>4. Reported' = Reported
      BY <3>2 DEF Reported
    <3>5. JobsOnce'
      BY <1>a, <2>2, <2>3, <3>2, <3>4 DEF JobsOnce
    <3>6. Table'
      BY <2>3, <3>2, <3>3 DEF TableInv, Table
    <3>7. QED
      BY <3>5, <3>6 DEF TableInv
  <2>5. CASE id \notin service.canceled
    <3>1. PICK result \in {background.running[2], "rejected"} : service' = Deferred(id, result)
      BY <2>1, <2>5 DEF Report
    <3> DEFINE m == [id |-> id, result |-> result]
    <3>2. /\ service'.alive = service.alive /\ service'.dying = service.dying
          /\ service'.canceled = service.canceled /\ service'.deferred = Append(p, m)
          /\ service'.raced = service.raced /\ service'.pending_jobs = service.pending_jobs
          /\ service'.entering = service.entering
      BY <1>0, <3>1 DEF Deferred, Service
    <3>3. m \in [id : Ids, result : Outcome] /\ m.id = id
      BY <1>0, <2>1 DEF Outcome
    <3> HIDE DEF m
    <3>4. /\ Len(p) \in Nat /\ DOMAIN p = 1 .. Len(p) /\ DOMAIN Append(p, m) = 1 .. Len(p) + 1
          /\ \A k \in 1 .. Len(p) : Append(p, m)[k] = p[k] /\ Append(p, m)[Len(p) + 1] = m
          /\ Append(p, m)[Len(p) + 1] = m
      BY <1>0, <3>3
    <3>5. Reported' = Reported \cup {id}
      <4>1. ASSUME NEW x PROVE x \in Reported' <=> x \in Reported \/ x = id
        <5>1. x \in Reported' <=> \E k \in 1 .. Len(p) + 1 : x = Append(p, m)[k].id
          BY <3>2, <3>4 DEF Reported
        <5>2. x \in Reported <=> \E k \in 1 .. Len(p) : x = p[k].id
          BY <3>4 DEF Reported
        <5>3. QED
          BY <3>3, <3>4, <5>1, <5>2
      <4>2. QED
        BY <4>1
    <3>6. \A k \in 1 .. Len(p) : p[k].id # id
      BY <2>3, <3>4 DEF Reported
    <3>7. \A j, k \in DOMAIN service'.deferred :
             service'.deferred[j].id = service'.deferred[k].id => j = k
      BY <1>a, <3>2, <3>3, <3>4, <3>6 DEF JobsOnce
    <3>8. JobsOnce'
      BY <1>a, <2>2, <2>3, <3>5, <3>7 DEF JobsOnce
    <3>9. Working' \cup Reported' = Working \cup Reported
      BY <2>3, <3>5
    <3>10. Table'
      BY <2>3, <3>2, <3>9 DEF TableInv, Table
    <3>11. QED
      BY <3>8, <3>10 DEF TableInv
  <2>6. QED
    BY <2>4, <2>5
<1>3. QED
  BY <1>1, <1>2

(* While the client is connected, m_pending_jobs holds the jobs that wait, *)
(* run or have their callback to come and no other; and die() leaves no    *)
(* job that is not cancelled, unless the background thread has changed the *)
(* table under it.                                                         *)
THEOREM TableTracksJobs == Spec => []JobsTracked
<1>1. Init => TableInv
  <2> SUFFICES ASSUME Init PROVE TableInv
    OBVIOUS
  <2>1. /\ service = NewService(1) /\ background = NewBackground
        /\ background.queue = <<>> /\ background.running = None
        /\ service.deferred = <<>> /\ service.pending_jobs = {} /\ service.entering = None
        /\ service.dying = "no" /\ service.canceled = {}
    BY DEF Init, NewService, NewBackground
  <2>2. Working = {} /\ Reported = {}
    BY <2>1 DEF Working, Reported
  <2>3. QED
    BY <2>1, <2>2 DEF TableInv, JobsOnce, Table
<1>2. IInv /\ TableInv /\ [Next]_vars => TableInv'
  <2> SUFFICES ASSUME IInv, TableInv, [Next]_vars PROVE TableInv'
    OBVIOUS
  <2>0. service \in Service
    BY DEF IInv, ServiceInv
  <2>a. ASSUME background' = background, service'.alive = service.alive,
               service'.dying = service.dying, service'.entering = service.entering,
               service'.pending_jobs = service.pending_jobs, service'.deferred = service.deferred,
               service'.canceled = service.canceled, service'.raced = service.raced
        PROVE  TableInv'
    <3>1. Working' = Working /\ Reported' = Reported
      BY <2>a DEF Working, Reported
    <3>2. (service.alive => JobsOnce)' = (service.alive => JobsOnce)
      BY <2>a, <3>1 DEF JobsOnce
    <3>3. Table'
      BY <2>a, <3>1 DEF TableInv, Table
    <3>4. QED
      BY <3>2, <3>3 DEF TableInv
  <2>1. CASE UNCHANGED <<service, background>>
    BY <2>1, <2>a
  <2>2. CASE \E i \in Images : RejectAtOnce(i) \/ decode_image(i)
    <3>1. /\ background' = background
          /\ service' = service \/ \E i \in Images : service' = [service EXCEPT !.asked = i]
      BY <2>2 DEF RejectAtOnce, decode_image
    <3>2. QED
      BY <2>0, <2>a, <3>1 DEF Service
  <2>3. CASE WebContentStep \/ WebContentExits
    BY <2>1, <2>3 DEF WebContentStep, CallReturns, CallFails, connect_to_image_decoder,
       HandleMessage, ReadEof, shutdown, WebContentExits
  <2>4. CASE RefuseImage
    <3>1. background' = background /\ service' = [service EXCEPT !.asked = None, !.next_id = @ + 1]
      BY <2>4 DEF RefuseImage
    <3>2. QED
      BY <2>0, <2>a, <3>1 DEF Service
  <2>5. CASE make_decode_image_job \/ EnterJob
    BY <2>5, TableGrows
  <2>6. CASE RunDeferred \/ DieBegins \/ DieCancels \/ DieClears
    BY <2>6, TableShrinks
  <2>7. CASE TakeJob \/ FinishJob
    BY <2>7, TableWorks
  <2>8. CASE ServiceDies
    <3>1. ~service'.alive /\ service'.dying = "no" /\ service'.canceled = {}
      BY <2>8 DEF ServiceDies, NewService
    <3>2. QED
      BY <3>1 DEF TableInv, Table
  <2>9. CASE Relaunch
    <3>1. /\ ~service.alive /\ background' = background /\ service'.deferred = <<>>
          /\ service'.pending_jobs = {} /\ service'.entering = None /\ service'.dying = "no"
          /\ service'.canceled = {}
      BY <2>9 DEF Relaunch, NewService
    <3>2. Jobs = {}
      BY <3>1 DEF IInv, Later
    <3>3. DOMAIN background.queue = {} /\ background.running = None
      BY <3>2 DEF Jobs, ElementsOf
    <3>4. Working' = {} /\ Reported' = {}
      BY <3>1, <3>3 DEF Working, Reported
    <3>5. QED
      BY <3>1, <3>3, <3>4 DEF TableInv, JobsOnce, Table
  <2>10. CASE UNCHANGED vars
    BY <2>1, <2>10 DEF vars
  <2>11. QED
    BY <2>2, <2>3, <2>4, <2>5, <2>6, <2>7, <2>8, <2>9, <2>10 DEF Next, ServiceStep
<1>3. TableInv => JobsTracked
  BY DEF TableInv, Table, JobsOnce, JobsTracked
<1>4. QED
  BY <1>1, <1>2, <1>3, Invariance, PTL DEF Spec

=============================================================================

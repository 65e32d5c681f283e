-------------------------- MODULE ConnectionProofs --------------------------
(***************************************************************************)
(* Proofs about Connection, for messages of any number of parts and any    *)
(* number of messages, whichever ends make synchronous calls and may die.  *)
(***************************************************************************)
EXTENDS Connection, SequenceTheorems, TLAPS

-----------------------------------------------------------------------------
(***************************************************************************)
(* The inductive invariant.                                                *)
(***************************************************************************)
Part == [msg : Messages, part : 1 .. MessageParts]

Types ==
    /\ queue \in [Ends -> Seq(Messages)]
    /\ sending \in [Ends -> Seq(Part)]
    /\ wire \in [Ends -> Seq(Part)]
    /\ m_unprocessed_bytes \in [Ends -> Seq(Part)]
    /\ m_unprocessed_messages \in [Ends -> Seq(Messages)]
    /\ handling \in [Ends -> Seq(Messages)]
    /\ tasks \in [Ends -> Seq({"hook", "handle", "shutdown"})]
    /\ owed \in [Ends -> 0 .. MaxPosts]

(* What is on its way to e: in its stash, in its socket and with the send  *)
(* thread of its peer.                                                     *)
Stream(e) == Bytes(e) \o sending[Peer(e)]

(* A stream that is not cut off ends with a whole message. *)
Aligned(e) == Live(e) /\ Live(Peer(e)) => \E k \in Nat : Len(Stream(e)) = k * MessageParts

Placed(e) ==
    /\ place[e] = "loop" => handling[e] = <<>> /\ owed[e] = 0
    /\ place[e] = "waiting" => open[e]

(* The messages of a kind in a sequence, by their indices. *)
Of(s, kind) == {i \in DOMAIN s : s[i].kind = kind}
AtMostOne(I) == \A i, j \in I : i = j

(* A synchronous call is in one place: it is a request on its way to the   *)
(* peer, or being handled there, or it is a response on its way back.      *)
Answering(toCaller, handled, at, id) ==
    /\ Of(handled, "response") = {}
    /\ AtMostOne(Of(toCaller, "response"))
    /\ \A i \in Of(toCaller, "response") : at = "waiting" /\ toCaller[i].id = id

Asking(toPeer, toCaller, at, id, owes) ==
    /\ AtMostOne(Of(toPeer, "request"))
    /\ \A i \in Of(toPeer, "request") :
         at = "waiting" /\ toPeer[i].id = id /\ owes = 0 /\ Of(toCaller, "response") = {}
    /\ owes # 0 => at = "waiting" /\ owes = id /\ Of(toCaller, "response") = {}

Called(e) ==
    /\ alive[e] => Answering(Pending(e), handling[e], place[e], posted[e])
    /\ Live(e) /\ Live(Peer(e)) =>
         Asking(Pending(Peer(e)), Pending(e), place[e], posted[e], owed[Peer(e)])

(* What a caller finds is its answer, also if it has died since. *)
Found(e) ==
    /\ AtMostOne(Of(m_unprocessed_messages[e], "response"))
    /\ \A i \in Of(m_unprocessed_messages[e], "response") :
         place[e] = "waiting" /\ m_unprocessed_messages[e][i].id = posted[e]

IInv ==
    /\ TypeOK /\ Types
    /\ \A e \in Ends : Aligned(e) /\ Placed(e) /\ Called(e) /\ Found(e)

-----------------------------------------------------------------------------
(***************************************************************************)
(* Messages and their parts.                                               *)
(***************************************************************************)

(* The elements of a concatenation. *)
LEMMA ConcatFact ==
    ASSUME NEW S, NEW s \in Seq(S), NEW t \in Seq(S)
    PROVE  /\ s \o t \in Seq(S) /\ Len(s \o t) = Len(s) + Len(t)
           /\ Len(s) \in Nat /\ Len(t) \in Nat
           /\ \A i \in 1 .. Len(s) : (s \o t)[i] = s[i]
           /\ \A i \in Len(s) + 1 .. Len(s) + Len(t) : (s \o t)[i] = t[i - Len(s)]
           /\ \A i \in 1 .. Len(t) : (s \o t)[Len(s) + i] = t[i]
<1>1. s \o t \in Seq(S) /\ Len(s \o t) = Len(s) + Len(t) /\ Len(s) \in Nat /\ Len(t) \in Nat
  OBVIOUS
<1>2. \A i \in 1 .. Len(s) + Len(t) : (s \o t)[i] = IF i <= Len(s) THEN s[i] ELSE t[i - Len(s)]
  BY ConcatProperties
<1>3. \A i \in 1 .. Len(s) : (s \o t)[i] = s[i]
  BY <1>1, <1>2
<1>4. \A i \in Len(s) + 1 .. Len(s) + Len(t) : (s \o t)[i] = t[i - Len(s)]
  BY <1>1, <1>2
<1>5. \A i \in 1 .. Len(t) : (s \o t)[Len(s) + i] = t[i]
  <2> SUFFICES ASSUME NEW i \in 1 .. Len(t) PROVE (s \o t)[Len(s) + i] = t[i]
    OBVIOUS
  <2>1. Len(s) + i \in Len(s) + 1 .. Len(s) + Len(t) /\ (Len(s) + i) - Len(s) = i
    BY <1>1
  <2> QED
    BY <1>4, <2>1
<1> QED
  BY <1>1, <1>3, <1>4, <1>5

(* Concatenation is associative. *)
LEMMA AssocFact ==
    ASSUME NEW S, NEW s \in Seq(S), NEW t \in Seq(S), NEW u \in Seq(S)
    PROVE  (s \o t) \o u = s \o (t \o u)
BY ConcatAssociative

(* Concatenation of parts is associative, in the form that quantifies. *)
LEMMA AssocParts == \A s, t, u \in Seq(Part) : (s \o t) \o u = s \o (t \o u)
BY AssocFact

(* The same of messages. *)
LEMMA AssocMessages == \A s, t, u \in Seq(Messages) : (s \o t) \o u = s \o (t \o u)
BY AssocFact

(* A part of a sequence. *)
LEMMA SubFact ==
    ASSUME NEW S, NEW s \in Seq(S), NEW m \in 1 .. Len(s) + 1, NEW n \in m - 1 .. Len(s)
    PROVE  /\ SubSeq(s, m, n) \in Seq(S) /\ Len(SubSeq(s, m, n)) = (n - m) + 1
           /\ \A i \in 1 .. (n - m) + 1 : SubSeq(s, m, n)[i] = s[(m + i) - 1]
<1>1. m \in Int /\ n \in Int /\ Len(s) \in Nat /\ \A i \in m .. n : s[i] \in S
  OBVIOUS
<1>2. /\ SubSeq(s, m, n) \in Seq(S)
      /\ Len(SubSeq(s, m, n)) = IF m <= n THEN n - m + 1 ELSE 0
      /\ \A i \in 1 .. n - m + 1 : SubSeq(s, m, n)[i] = s[m + i - 1]
  BY <1>1, SubSeqProperties
<1>3. (IF m <= n THEN n - m + 1 ELSE 0) = (n - m) + 1
  BY <1>1
<1> QED
  BY <1>2, <1>3

(* Division by the number of parts. *)
LEMMA DivFact ==
    ASSUME NEW k \in Nat, NEW j \in 0 .. MessageParts - 1
    PROVE  (k * MessageParts + j) \div MessageParts = k /\ (k * MessageParts + j) % MessageParts = j
<1>1. MessageParts \in Nat /\ MessageParts > 0
  BY ConnectionAssumption
<1> QED
  BY <1>1

(* Every length is that of some messages and a part of one. *)
LEMMA DivExists ==
    ASSUME NEW n \in Nat
    PROVE  \E k \in Nat, j \in 0 .. MessageParts - 1 : n = k * MessageParts + j
<1>1. MessageParts \in Nat /\ MessageParts > 0
  BY ConnectionAssumption
<1>2. n = (n \div MessageParts) * MessageParts + (n % MessageParts)
  BY <1>1
<1>3. n \div MessageParts \in Nat /\ n % MessageParts \in 0 .. MessageParts - 1
  BY <1>1
<1> QED
  BY <1>2, <1>3

(* Multiples of the number of parts. *)
LEMMA TimesFact ==
    ASSUME NEW i \in Nat, NEW k \in Nat
    PROVE  /\ i * MessageParts \in Nat
           /\ i <= k => i * MessageParts <= k * MessageParts
           /\ i > 0 => i * MessageParts > 0
           /\ i < k => i * MessageParts + MessageParts <= k * MessageParts
           /\ (i + k) * MessageParts = i * MessageParts + k * MessageParts
<1>1. MessageParts \in Nat /\ MessageParts > 0
  BY ConnectionAssumption
<1>2. i * MessageParts \in Nat
  BY <1>1
<1>3. i <= k => i * MessageParts <= k * MessageParts
  BY <1>1
<1>4. i > 0 => i * MessageParts > 0
  BY <1>1
<1>5. i < k => i * MessageParts + MessageParts <= k * MessageParts
  BY <1>1
<1>6. (i + k) * MessageParts = i * MessageParts + k * MessageParts
  BY <1>1
<1> QED
  BY <1>2, <1>3, <1>4, <1>5, <1>6

(* The whole messages of a stream are those at the ends of the messages. *)
LEMMA WholeFact ==
    ASSUME NEW b \in Seq(Part), NEW k \in Nat, NEW j \in 0 .. MessageParts - 1,
           Len(b) = k * MessageParts + j
    PROVE  /\ Whole(b) \in Seq(Messages) /\ Len(Whole(b)) = k
           /\ \A i \in 1 .. k : i * MessageParts \in 1 .. Len(b) /\ Whole(b)[i] = b[i * MessageParts].msg
           /\ IndexAfter(b) = k * MessageParts
<1>1. MessageParts \in Nat /\ MessageParts > 0 /\ Len(b) \in Nat
  BY ConnectionAssumption
<1>2. Len(b) \div MessageParts = k /\ Len(b) % MessageParts = j
  BY DivFact
<1>3. Whole(b) = [i \in 1 .. k |-> b[i * MessageParts].msg]
  BY <1>2 DEF Whole
<1>4. ASSUME NEW i \in 1 .. k
      PROVE  i * MessageParts \in 1 .. Len(b) /\ b[i * MessageParts].msg \in Messages
  <2> i \in Nat /\ i > 0 /\ i <= k
    OBVIOUS
  <2>1. i * MessageParts \in Nat /\ i * MessageParts > 0 /\ i * MessageParts <= k * MessageParts
    BY TimesFact
  <2>2. i * MessageParts \in 1 .. Len(b)
    BY <1>1, <2>1, TimesFact
  <2>3. b[i * MessageParts] \in Part
    BY <2>2
  <2> QED
    BY <2>2, <2>3 DEF Part
<1>5. Whole(b) \in Seq(Messages) /\ Len(Whole(b)) = k
  BY <1>3, <1>4
<1>6. IndexAfter(b) = k * MessageParts
  BY <1>1, <1>2, TimesFact DEF IndexAfter
<1> QED
  BY <1>3, <1>4, <1>5, <1>6

(* What is parsed is a sequence of messages. *)
LEMMA WholeType ==
    ASSUME NEW b \in Seq(Part)
    PROVE  Whole(b) \in Seq(Messages)
<1>1. Len(b) \in Nat
  OBVIOUS
<1>2. PICK k \in Nat, j \in 0 .. MessageParts - 1 : Len(b) = k * MessageParts + j
  BY <1>1, DivExists
<1> QED
  BY <1>2, WholeFact

(* A stream is parsed from the front. *)
LEMMA WholeSplit ==
    ASSUME NEW a \in Seq(Part), NEW b \in Seq(Part), NEW k \in Nat, Len(a) = k * MessageParts
    PROVE  Whole(a \o b) = Whole(a) \o Whole(b)
<1>1. Len(a) \in Nat /\ Len(b) \in Nat /\ a \o b \in Seq(Part) /\ Len(a \o b) = Len(a) + Len(b)
      /\ MessageParts \in Nat /\ MessageParts > 0
  BY ConnectionAssumption
<1>2. PICK n \in Nat, j \in 0 .. MessageParts - 1 : Len(b) = n * MessageParts + j
  BY <1>1, DivExists
<1>3. /\ Whole(b) \in Seq(Messages) /\ Len(Whole(b)) = n
      /\ \A i \in 1 .. n : i * MessageParts \in 1 .. Len(b) /\ Whole(b)[i] = b[i * MessageParts].msg
  BY <1>2, WholeFact
<1>4. /\ Whole(a) \in Seq(Messages) /\ Len(Whole(a)) = k
      /\ \A i \in 1 .. k : i * MessageParts \in 1 .. Len(a) /\ Whole(a)[i] = a[i * MessageParts].msg
  <2>1. 0 \in 0 .. MessageParts - 1 /\ Len(a) = k * MessageParts + 0
    BY <1>1
  <2> QED
    BY <2>1, WholeFact
<1>5. k + n \in Nat /\ Len(a \o b) = (k + n) * MessageParts + j
  <2>1. (k + n) * MessageParts = k * MessageParts + n * MessageParts
    BY TimesFact
  <2>2. k * MessageParts \in Nat /\ n * MessageParts \in Nat
    BY TimesFact
  <2> QED
    BY <1>1, <1>2, <2>1, <2>2
<1>6. /\ Whole(a \o b) \in Seq(Messages) /\ Len(Whole(a \o b)) = k + n
      /\ \A i \in 1 .. k + n : /\ i * MessageParts \in 1 .. Len(a \o b)
                               /\ Whole(a \o b)[i] = (a \o b)[i * MessageParts].msg
  BY <1>1, <1>5, WholeFact
<1>7. /\ Whole(a) \o Whole(b) \in Seq(Messages) /\ Len(Whole(a) \o Whole(b)) = k + n
      /\ \A i \in 1 .. k : (Whole(a) \o Whole(b))[i] = Whole(a)[i]
      /\ \A i \in k + 1 .. k + n : (Whole(a) \o Whole(b))[i] = Whole(b)[i - k]
  <2>1. \A i \in 1 .. Len(Whole(a)) : (Whole(a) \o Whole(b))[i] = Whole(a)[i]
    BY <1>3, <1>4, ConcatFact
  <2>3. Len(Whole(a) \o Whole(b)) = Len(Whole(a)) + Len(Whole(b))
    BY <1>3, <1>4, ConcatFact
  <2>4. Whole(a) \o Whole(b) \in Seq(Messages)
    BY <1>3, <1>4, ConcatFact
  <2>2. \A i \in Len(Whole(a)) + 1 .. Len(Whole(a)) + Len(Whole(b)) :
           (Whole(a) \o Whole(b))[i] = Whole(b)[i - Len(Whole(a))]
    BY <1>3, <1>4, ConcatFact, SMTT(30)
  <2> QED
    BY <1>3, <1>4, <2>1, <2>2, <2>3, <2>4
<1>8. ASSUME NEW i \in 1 .. k + n PROVE Whole(a \o b)[i] = (Whole(a) \o Whole(b))[i]
  <2>1. CASE i \in 1 .. k
    <3>1. i * MessageParts \in 1 .. Len(a)
      BY <1>4, <2>1
    <3>2. (a \o b)[i * MessageParts] = a[i * MessageParts]
      BY <3>1, ConcatFact
    <3> QED
      BY <1>4, <1>6, <1>7, <2>1, <3>2
  <2>2. CASE i \in k + 1 .. k + n
    <3>1. i - k \in 1 .. n /\ i - k \in Nat
      BY <2>2
    <3>2. i * MessageParts = k * MessageParts + (i - k) * MessageParts
      <4>1. (k + (i - k)) * MessageParts = k * MessageParts + (i - k) * MessageParts
        BY <3>1, TimesFact
      <4>2. k + (i - k) = i
        OBVIOUS
      <4> QED
        BY <4>1, <4>2
    <3>3. (i - k) * MessageParts \in 1 .. Len(b)
      BY <1>3, <3>1
    <3> DEFINE d == (i - k) * MessageParts
               f == i * MessageParts
    <3>4. d \in 1 .. Len(b) /\ f = Len(a) + d
      BY <3>2, <3>3
    <3> HIDE DEF d, f
    <3>5. (a \o b)[f] = b[d]
      BY <3>4, ConcatFact, SMTT(30)
    <3>6. (a \o b)[i * MessageParts] = b[(i - k) * MessageParts]
      BY <3>5 DEF d, f
    <3> QED
      <4>1. Whole(a \o b)[i] = (a \o b)[i * MessageParts].msg
        BY <1>6
      <4>2. (Whole(a) \o Whole(b))[i] = Whole(b)[i - k]
        BY <1>7, <2>2
      <4>3. Whole(b)[i - k] = b[(i - k) * MessageParts].msg
        BY <1>3, <3>1
      <4> QED
        BY <3>6, <4>1, <4>2, <4>3
  <2>3. i \in 1 .. k \/ i \in k + 1 .. k + n
    OBVIOUS
  <2> QED
    BY <2>1, <2>2, <2>3
<1> DEFINE x == Whole(a \o b)
           y == Whole(a) \o Whole(b)
<1>9. x \in Seq(Messages) /\ y \in Seq(Messages) /\ Len(x) = Len(y) /\ \A i \in 1 .. Len(x) : x[i] = y[i]
  BY <1>6, <1>7, <1>8
<1> HIDE DEF x, y
<1>10. x = y
  BY <1>9, SeqEqual
<1> QED
  BY <1>10 DEF x, y

(* The parts of a message are parsed as that message. *)
LEMMA PartsFact ==
    ASSUME NEW m \in Messages
    PROVE  Parts(m) \in Seq(Part) /\ Len(Parts(m)) = MessageParts /\ Whole(Parts(m)) = <<m>>
<1>1. MessageParts \in Nat /\ MessageParts > 0
  BY ConnectionAssumption
<1>2. Parts(m) \in Seq(Part)
  BY <1>1 DEF Parts, Part
<1>3. Len(Parts(m)) = MessageParts
  BY <1>1 DEF Parts
<1>4. 1 * MessageParts = MessageParts /\ Len(Parts(m)) = 1 * MessageParts + 0 /\ 0 \in 0 .. MessageParts - 1
  BY <1>1, <1>3
<1>5. /\ Whole(Parts(m)) \in Seq(Messages) /\ Len(Whole(Parts(m))) = 1
      /\ Whole(Parts(m))[1] = Parts(m)[1 * MessageParts].msg
  <2> HIDE DEF Parts
  <2>1. Whole(Parts(m)) \in Seq(Messages)
    BY <1>2, WholeType
  <2>2. Len(Whole(Parts(m))) = 1
    BY <1>2, <1>4, WholeFact
  <2>3. 1 \in 1 .. 1
    OBVIOUS
  <2>4. \A i \in 1 .. 1 : Whole(Parts(m))[i] = Parts(m)[i * MessageParts].msg
    BY <1>2, <1>4, WholeFact
  <2> QED
    BY <2>1, <2>2, <2>3, <2>4
<1>6. Whole(Parts(m))[1] = m
  <2>1. MessageParts \in 1 .. MessageParts
    BY <1>1
  <2>2. Parts(m)[MessageParts] = [msg |-> m, part |-> MessageParts]
    BY <2>1 DEF Parts
  <2> QED
    BY <1>4, <1>5, <2>2
<1> DEFINE w == Whole(Parts(m))
<1>7. w \in Seq(Messages) /\ Len(w) = 1 /\ w[1] = m
  BY <1>5, <1>6
<1> HIDE DEF w
<1>8. <<m>> \in Seq(Messages) /\ Len(<<m>>) = 1 /\ <<m>>[1] = m
  OBVIOUS
<1>9. \A i \in 1 .. Len(w) : w[i] = <<m>>[i]
  BY <1>7, <1>8
<1>10. w = <<m>>
  BY <1>7, <1>8, <1>9, SeqEqual
<1> QED
  BY <1>2, <1>3, <1>10 DEF w

(* A part of a message is no message. *)
LEMMA WholeShort ==
    ASSUME NEW b \in Seq(Part), Len(b) < MessageParts
    PROVE  Whole(b) = <<>>
<1>1. MessageParts \in Nat /\ MessageParts > 0 /\ Len(b) \in Nat
  BY ConnectionAssumption
<1>2. Len(b) \in 0 .. MessageParts - 1 /\ Len(b) = 0 * MessageParts + Len(b)
  BY <1>1
<1>3. Whole(b) \in Seq(Messages) /\ Len(Whole(b)) = 0
  BY <1>2, WholeFact
<1> QED
  BY <1>3, EmptySeq

(* What is parsed from a stream that is cut off comes first in what is     *)
(* parsed from the stream.                                                 *)
LEMMA WholePrefix ==
    ASSUME NEW a \in Seq(Part), NEW b \in Seq(Part)
    PROVE  /\ Len(Whole(a)) <= Len(Whole(a \o b))
           /\ \A i \in 1 .. Len(Whole(a)) : Whole(a)[i] = Whole(a \o b)[i]
<1>1. /\ Len(a) \in Nat /\ Len(b) \in Nat /\ MessageParts \in Nat /\ MessageParts > 0
      /\ Len(a \o b) = Len(a) + Len(b)
  BY ConcatFact, ConnectionAssumption
<1>2. a \o b \in Seq(Part)
  BY ConcatFact
<1>3. PICK k \in Nat, j \in 0 .. MessageParts - 1 : Len(a) = k * MessageParts + j
  BY <1>1, DivExists
<1>4. PICK n \in Nat, h \in 0 .. MessageParts - 1 : Len(a \o b) = n * MessageParts + h
  <2>1. Len(a \o b) \in Nat
    BY <1>1
  <2> QED
    BY <2>1, DivExists
<1>5. k <= n
  <2> SUFFICES ASSUME n < k PROVE FALSE
    BY <1>3, <1>4
  <2>1. n * MessageParts + MessageParts <= k * MessageParts
    BY TimesFact
  <2>2. n * MessageParts \in Nat /\ k * MessageParts \in Nat
    BY TimesFact
  <2> DEFINE nm == n * MessageParts
             km == k * MessageParts
  <2>3. /\ nm \in Nat /\ km \in Nat /\ nm + MessageParts <= km
        /\ Len(a) = km + j /\ Len(a) + Len(b) = nm + h
    BY <1>1, <1>3, <1>4, <2>1, <2>2
  <2> HIDE DEF nm, km
  <2> QED
    BY <1>1, <2>3
<1>6. /\ Len(Whole(a)) = k
      /\ \A i \in 1 .. k : i * MessageParts \in 1 .. Len(a) /\ Whole(a)[i] = a[i * MessageParts].msg
  BY <1>3, WholeFact
<1>7. /\ Len(Whole(a \o b)) = n
      /\ \A i \in 1 .. n : Whole(a \o b)[i] = (a \o b)[i * MessageParts].msg
  BY <1>2, <1>4, WholeFact
<1>8. ASSUME NEW i \in 1 .. k PROVE Whole(a)[i] = Whole(a \o b)[i]
  <2>1. i \in 1 .. n /\ i * MessageParts \in 1 .. Len(a)
    BY <1>5, <1>6
  <2>2. (a \o b)[i * MessageParts] = a[i * MessageParts]
    BY <2>1, ConcatFact
  <2> QED
    BY <1>6, <1>7, <2>1, <2>2
<1> QED
  BY <1>5, <1>6, <1>7, <1>8

(* try_parse_messages() and what is stashed away: nothing is lost or       *)
(* parsed twice.                                                           *)
LEMMA DrainFact ==
    ASSUME NEW b \in Seq(Part), NEW c \in Seq(Part), NEW rest,
           rest = SubSeq(b, IndexAfter(b) + 1, Len(b))
    PROVE  /\ rest \in Seq(Part)
           /\ Len(rest) < MessageParts
           /\ Whole(b \o c) = Whole(b) \o Whole(rest \o c)
           /\ \E k \in Nat : Len(b) = k * MessageParts + Len(rest)
<1>1. Len(b) \in Nat /\ MessageParts \in Nat /\ MessageParts > 0
  BY ConnectionAssumption
<1>2. PICK k \in Nat, j \in 0 .. MessageParts - 1 : Len(b) = k * MessageParts + j
  BY <1>1, DivExists
<1>3. IndexAfter(b) = k * MessageParts /\ Whole(b) \in Seq(Messages)
  BY <1>2, WholeFact
<1> DEFINE n == k * MessageParts
           a == SubSeq(b, 1, n)
<1>4. n \in Nat /\ n <= Len(b) /\ Len(b) = n + j
  <2>1. n \in Nat
    BY TimesFact
  <2>2. Len(b) = n + j
    BY <1>2
  <2> HIDE DEF n
  <2> QED
    BY <1>1, <2>1, <2>2
<1>5. rest = SubSeq(b, n + 1, Len(b))
  BY <1>3
<1> HIDE DEF n
<1>6. a \in Seq(Part) /\ Len(a) = n
  <2>1. Len(a) = n
    BY <1>1, <1>4
  <2>2. a \in Seq(Part)
    BY <1>1, <1>4
  <2> QED
    BY <2>1, <2>2
<1>7. rest \in Seq(Part) /\ Len(rest) = j
  <2>1. n + 1 \in 1 .. Len(b) + 1 /\ Len(b) \in (n + 1) - 1 .. Len(b) /\ (Len(b) - (n + 1)) + 1 = j
    BY <1>1, <1>4
  <2>2. /\ SubSeq(b, n + 1, Len(b)) \in Seq(Part)
        /\ Len(SubSeq(b, n + 1, Len(b))) = (Len(b) - (n + 1)) + 1
    BY <2>1, SubFact, Zenon
  <2> QED
    BY <1>5, <2>1, <2>2, Zenon
<1>8. a \o rest = b
  <2>1. 1 \in 1 .. Len(b) + 1 /\ n \in 1 - 1 .. Len(b) /\ Len(b) \in n .. Len(b)
    BY <1>1, <1>4
  <2>2. SubSeq(b, 1, n) \o SubSeq(b, n + 1, Len(b)) = SubSeq(b, 1, Len(b))
    BY <2>1, ConcatAdjacentSubSeq
  <2>3. SubSeq(b, 1, Len(b)) = b
    BY SubSeqFull
  <2> QED
    BY <1>5, <2>2, <2>3
<1> HIDE DEF a
<1>9. b \o c = a \o (rest \o c) /\ rest \o c \in Seq(Part)
  <2>1. (a \o rest) \o c = a \o (rest \o c)
    BY <1>6, <1>7, AssocParts
  <2>2. rest \o c \in Seq(Part)
    BY <1>7, ConcatFact
  <2> QED
    BY <1>8, <2>1, <2>2
<1>10. Whole(a \o (rest \o c)) = Whole(a) \o Whole(rest \o c)
  BY <1>6, <1>9, WholeSplit DEF n
<1>11. Whole(b) = Whole(a)
  <2>1. Whole(a \o rest) = Whole(a) \o Whole(rest)
    BY <1>6, <1>7, WholeSplit DEF n
  <2>2. Whole(rest) = <<>>
    <3>1. Len(rest) < MessageParts
      BY <1>1, <1>7
    <3> QED
      BY <1>7, <3>1, WholeShort, Zenon
  <2>3. Whole(a) \in Seq(Messages)
    BY <1>6, WholeType
  <2>4. Whole(a) \o <<>> = Whole(a)
    BY <2>3, ConcatEmptySeq
  <2> QED
    BY <1>8, <2>1, <2>2, <2>4
<1>12. Whole(b \o c) = Whole(b) \o Whole(rest \o c)
  BY <1>9, <1>10, <1>11
<1>13. Len(rest) < MessageParts /\ Len(b) = k * MessageParts + Len(rest)
  BY <1>1, <1>2, <1>7
<1> QED
  BY <1>7, <1>12, <1>13

Rest(b) == SubSeq(b, IndexAfter(b) + 1, Len(b))

(* DrainFact for all stashes: the rest of the bytes is less than a         *)
(* message, and no message is lost by taking the whole ones out.           *)
LEMMA DrainAll ==
    \A b, c \in Seq(Part) :
        /\ Rest(b) \in Seq(Part)
        /\ Len(Rest(b)) < MessageParts
        /\ Whole(b \o c) = Whole(b) \o Whole(Rest(b) \o c)
        /\ \E k \in Nat : Len(b) = k * MessageParts + Len(Rest(b))
<1> TAKE b, c \in Seq(Part)
<1>1. PICK r : r = SubSeq(b, IndexAfter(b) + 1, Len(b))
  OBVIOUS
<1>2. /\ r \in Seq(Part) /\ Len(r) < MessageParts
      /\ Whole(b \o c) = Whole(b) \o Whole(r \o c)
      /\ \E k \in Nat : Len(b) = k * MessageParts + Len(r)
  BY <1>1, DrainFact, ZenonT(40)
<1> QED
  BY <1>1, <1>2 DEF Rest

-----------------------------------------------------------------------------
(***************************************************************************)
(* Synchronous calls under changes of the messages on their way.           *)
(***************************************************************************)

(* The messages of s are some of those of t. *)
Within(s, t) ==
    \E f \in [DOMAIN s -> DOMAIN t] :
        /\ \A i, j \in DOMAIN s : f[i] = f[j] => i = j
        /\ \A i \in DOMAIN s : s[i] = t[f[i]]

(* With messages gone, there is no new one of a kind. *)
LEMMA WithinOf ==
    ASSUME NEW s, NEW t, NEW kind, Within(s, t)
    PROVE  /\ Of(t, kind) = {} => Of(s, kind) = {}
           /\ AtMostOne(Of(t, kind)) => AtMostOne(Of(s, kind))
           /\ \A i \in Of(s, kind) : \E j \in Of(t, kind) : s[i] = t[j]
<1>1. PICK f \in [DOMAIN s -> DOMAIN t] :
         /\ \A i, j \in DOMAIN s : f[i] = f[j] => i = j
         /\ \A i \in DOMAIN s : s[i] = t[f[i]]
  BY DEF Within
<1>2. \A i \in Of(s, kind) : i \in DOMAIN s /\ f[i] \in Of(t, kind) /\ s[i] = t[f[i]]
  BY <1>1 DEF Of
<1>3. Of(t, kind) = {} => Of(s, kind) = {}
  BY <1>2
<1>4. AtMostOne(Of(t, kind)) => AtMostOne(Of(s, kind))
  BY <1>1, <1>2 DEF AtMostOne
<1> QED
  BY <1>2, <1>3, <1>4

(* A caller is still answered at most once when messages are gone. *)
LEMMA WithinAnswering ==
    ASSUME NEW P, NEW Q, NEW h, NEW g, NEW at, NEW id,
           Answering(P, h, at, id), Within(Q, P), Of(g, "response") = {}
    PROVE  Answering(Q, g, at, id)
<1>1. AtMostOne(Of(Q, "response"))
  BY WithinOf DEF Answering
<1>2. \A i \in Of(Q, "response") : \E j \in Of(P, "response") : Q[i] = P[j]
  BY WithinOf
<1> QED
  BY <1>1, <1>2 DEF Answering

(* It has still asked at most once when messages are gone on either way. *)
LEMMA WithinAsking ==
    ASSUME NEW P, NEW Q, NEW R, NEW T, NEW at, NEW id, NEW owes,
           Asking(P, R, at, id, owes), Within(Q, P), Within(T, R)
    PROVE  Asking(Q, T, at, id, owes)
<1>1. AtMostOne(Of(Q, "request"))
  BY WithinOf DEF Asking
<1>2. \A i \in Of(Q, "request") : \E j \in Of(P, "request") : Q[i] = P[j]
  BY WithinOf
<1>3. Of(R, "response") = {} => Of(T, "response") = {}
  BY WithinOf
<1> QED
  BY <1>1, <1>2, <1>3 DEF Asking

(* Which sequences are within which. *)
LEMMA WithinSame == \A s : Within(s, s)
<1> SUFFICES ASSUME NEW s PROVE Within(s, s)
  OBVIOUS
<1> DEFINE f == [i \in DOMAIN s |-> i]
<1>1. f \in [DOMAIN s -> DOMAIN s]
  OBVIOUS
<1> QED
  BY <1>1 DEF Within

(* A run of consecutive messages of a sequence is within it. *)
LEMMA WithinMiddle ==
    ASSUME NEW s \in Seq(Messages), NEW t \in Seq(Messages), NEW k \in Nat, k + Len(s) <= Len(t),
           \A i \in 1 .. Len(s) : s[i] = t[k + i]
    PROVE  Within(s, t)
<1> DEFINE f == [i \in 1 .. Len(s) |-> k + i]
<1>1. DOMAIN s = 1 .. Len(s) /\ DOMAIN t = 1 .. Len(t) /\ Len(s) \in Nat /\ Len(t) \in Nat
  OBVIOUS
<1>2. f \in [DOMAIN s -> DOMAIN t]
  BY <1>1
<1>3. \A i, j \in DOMAIN s : f[i] = f[j] => i = j
  BY <1>1
<1>4. \A i \in DOMAIN s : s[i] = t[f[i]]
  BY <1>1
<1> HIDE DEF f
<1> QED
  BY <1>2, <1>3, <1>4 DEF Within

(* Both parts of a concatenation are within it. *)
LEMMA WithinConcat ==
    ASSUME NEW s \in Seq(Messages), NEW t \in Seq(Messages)
    PROVE  Within(s, s \o t) /\ Within(t, s \o t)
<1>1. /\ s \o t \in Seq(Messages) /\ Len(s \o t) = Len(s) + Len(t)
      /\ Len(s) \in Nat /\ Len(t) \in Nat
  BY ConcatFact
<1>2. \A i \in 1 .. Len(s) : s[i] = (s \o t)[0 + i]
  <2> SUFFICES ASSUME NEW i \in 1 .. Len(s) PROVE s[i] = (s \o t)[0 + i]
    OBVIOUS
  <2>1. 0 + i = i
    BY <1>1
  <2> QED
    BY <2>1, ConcatFact
<1>3. \A i \in 1 .. Len(t) : t[i] = (s \o t)[Len(s) + i]
  BY ConcatFact
<1> DEFINE c == s \o t
<1>4. /\ c \in Seq(Messages) /\ 0 + Len(s) <= Len(c) /\ Len(s) + Len(t) <= Len(c) /\ 0 \in Nat
      /\ \A i \in 1 .. Len(s) : s[i] = c[0 + i]
      /\ \A i \in 1 .. Len(t) : t[i] = c[Len(s) + i]
  BY <1>1, <1>2, <1>3
<1> HIDE DEF c
<1>5. Within(s, c)
  BY <1>4, WithinMiddle
<1>6. Within(t, c)
  BY <1>1, <1>4, WithinMiddle
<1> QED
  BY <1>5, <1>6 DEF c

(* Being within another sequence is transitive. *)
LEMMA WithinTrans ==
    ASSUME NEW s, NEW t, NEW u, Within(s, t), Within(t, u)
    PROVE  Within(s, u)
<1>1. PICK f \in [DOMAIN s -> DOMAIN t] :
         /\ \A i, j \in DOMAIN s : f[i] = f[j] => i = j
         /\ \A i \in DOMAIN s : s[i] = t[f[i]]
  BY DEF Within
<1>2. PICK g \in [DOMAIN t -> DOMAIN u] :
         /\ \A i, j \in DOMAIN t : g[i] = g[j] => i = j
         /\ \A i \in DOMAIN t : t[i] = u[g[i]]
  BY DEF Within
<1> DEFINE h == [i \in DOMAIN s |-> g[f[i]]]
<1>3. h \in [DOMAIN s -> DOMAIN u]
  BY <1>1, <1>2
<1>4. \A i, j \in DOMAIN s : h[i] = h[j] => i = j
  BY <1>1, <1>2
<1>5. \A i \in DOMAIN s : s[i] = u[h[i]]
  BY <1>1, <1>2
<1> HIDE DEF h
<1> QED
  BY <1>3, <1>4, <1>5 DEF Within

(* A sequence without one of its elements. *)
LEMMA RemoveFact ==
    ASSUME NEW s \in Seq(Messages), NEW k \in 1 .. Len(s)
    PROVE  /\ RemoveAt(s, k) \in Seq(Messages) /\ Len(RemoveAt(s, k)) = Len(s) - 1
           /\ \A i \in 1 .. k - 1 : RemoveAt(s, k)[i] = s[i]
           /\ \A i \in k .. Len(s) - 1 : RemoveAt(s, k)[i] = s[i + 1]
<1> DEFINE a == SubSeq(s, 1, k - 1)
           b == SubSeq(s, k + 1, Len(s))
<1>1. Len(s) \in Nat /\ k \in Nat /\ k > 0
  OBVIOUS
<1>2. /\ a \in Seq(Messages) /\ Len(a) = k - 1 /\ \A i \in 1 .. k - 1 : a[i] = s[i]
  <2>1. 1 \in 1 .. Len(s) + 1 /\ k - 1 \in 1 - 1 .. Len(s) /\ ((k - 1) - 1) + 1 = k - 1
    BY <1>1
  <2>2. a \in Seq(Messages) /\ Len(a) = ((k - 1) - 1) + 1
    BY <2>1, SubFact
  <2>3. \A i \in 1 .. ((k - 1) - 1) + 1 : a[i] = s[(1 + i) - 1]
    BY <2>1, SubFact
  <2> HIDE DEF a
  <2>4. \A i \in 1 .. k - 1 : (1 + i) - 1 = i
    BY <1>1
  <2> QED
    BY <2>1, <2>2, <2>3, <2>4
<1>3. /\ b \in Seq(Messages) /\ Len(b) = Len(s) - k /\ \A i \in 1 .. Len(s) - k : b[i] = s[k + i]
  <2>1. k + 1 \in 1 .. Len(s) + 1 /\ Len(s) \in (k + 1) - 1 .. Len(s) /\ (Len(s) - (k + 1)) + 1 = Len(s) - k
    BY <1>1
  <2>2. b \in Seq(Messages) /\ Len(b) = (Len(s) - (k + 1)) + 1
    BY <2>1, SubFact
  <2>3. \A i \in 1 .. (Len(s) - (k + 1)) + 1 : b[i] = s[((k + 1) + i) - 1]
    BY <2>1, SubFact
  <2> HIDE DEF b
  <2>4. \A i \in 1 .. Len(s) - k : ((k + 1) + i) - 1 = k + i
    BY <1>1
  <2> QED
    BY <2>1, <2>2, <2>3, <2>4
<1>4. RemoveAt(s, k) = a \o b
  BY DEF RemoveAt
<1> HIDE DEF a, b
<1>5. a \o b \in Seq(Messages) /\ Len(a \o b) = Len(a) + Len(b)
  BY <1>2, <1>3, ConcatFact
<1>6. /\ \A i \in 1 .. Len(a) : (a \o b)[i] = a[i]
      /\ \A i \in Len(a) + 1 .. Len(a) + Len(b) : (a \o b)[i] = b[i - Len(a)]
  BY <1>2, <1>3, ConcatFact
<1>7. Len(a \o b) = Len(s) - 1
  BY <1>1, <1>2, <1>3, <1>5
<1>8. \A i \in 1 .. k - 1 : (a \o b)[i] = s[i]
  BY <1>2, <1>6
<1>9. ASSUME NEW i \in k .. Len(s) - 1 PROVE (a \o b)[i] = s[i + 1]
  <2>1. /\ i \in Len(a) + 1 .. Len(a) + Len(b) /\ i - Len(a) \in 1 .. Len(s) - k
        /\ k + (i - Len(a)) = i + 1
    BY <1>1, <1>2, <1>3
  <2> QED
    BY <1>3, <1>6, <2>1
<1> QED
  BY <1>4, <1>5, <1>7, <1>8, <1>9

(* What is left when a message is taken out, and that it was the only one  *)
(* of its kind.                                                            *)
LEMMA RemoveWithin ==
    ASSUME NEW s \in Seq(Messages), NEW k \in 1 .. Len(s), NEW kind
    PROVE  /\ Within(RemoveAt(s, k), s)
           /\ AtMostOne(Of(s, kind)) /\ s[k].kind = kind => Of(RemoveAt(s, k), kind) = {}
<1> DEFINE r == RemoveAt(s, k)
           f == [i \in 1 .. Len(s) - 1 |-> IF i < k THEN i ELSE i + 1]
<1>1. /\ r \in Seq(Messages) /\ Len(r) = Len(s) - 1 /\ Len(s) \in Nat /\ k \in Nat
      /\ \A i \in 1 .. k - 1 : r[i] = s[i]
      /\ \A i \in k .. Len(s) - 1 : r[i] = s[i + 1]
  BY RemoveFact
<1> HIDE DEF r
<1>2. DOMAIN r = 1 .. Len(s) - 1 /\ DOMAIN s = 1 .. Len(s)
  BY <1>1
<1>3. f \in [DOMAIN r -> DOMAIN s]
  BY <1>1, <1>2
<1>4. \A i, j \in DOMAIN r : f[i] = f[j] => i = j
  BY <1>1, <1>2
<1>5. ASSUME NEW i \in DOMAIN r PROVE r[i] = s[f[i]] /\ f[i] # k
  <2>1. CASE i < k
    BY <1>1, <1>2, <2>1
  <2>2. CASE ~(i < k)
    BY <1>1, <1>2, <2>2
  <2> QED
    BY <2>1, <2>2
<1> HIDE DEF f
<1>6. Within(r, s)
  BY <1>3, <1>4, <1>5 DEF Within
<1>7. ASSUME AtMostOne(Of(s, kind)), s[k].kind = kind PROVE Of(r, kind) = {}
  <2> SUFFICES ASSUME NEW i \in Of(r, kind) PROVE FALSE
    OBVIOUS
  <2>1. i \in DOMAIN r /\ r[i].kind = kind
    BY DEF Of
  <2>2. f[i] \in DOMAIN s /\ s[f[i]].kind = kind /\ f[i] # k
    BY <1>3, <1>5, <2>1
  <2>3. f[i] \in Of(s, kind) /\ k \in Of(s, kind)
    BY <1>2, <1>7, <2>2 DEF Of
  <2> QED
    BY <1>7, <2>2, <2>3 DEF AtMostOne
<1> QED
  BY <1>6, <1>7 DEF r

(* Taking a message out of the first part of a concatenation. *)
LEMMA RemoveLeft ==
    ASSUME NEW s \in Seq(Messages), NEW t \in Seq(Messages), NEW k \in 1 .. Len(s)
    PROVE  RemoveAt(s \o t, k) = RemoveAt(s, k) \o t
<1> DEFINE c == s \o t
           r == RemoveAt(s, k)
           x == RemoveAt(c, k)
           y == r \o t
<1>1. /\ c \in Seq(Messages) /\ Len(c) = Len(s) + Len(t)
      /\ Len(s) \in Nat /\ Len(t) \in Nat /\ k \in Nat /\ k > 0 /\ k <= Len(s)
  BY ConcatFact
<1>2. /\ \A i \in 1 .. Len(s) : c[i] = s[i]
      /\ \A i \in Len(s) + 1 .. Len(s) + Len(t) : c[i] = t[i - Len(s)]
  BY ConcatFact
<1>3. /\ r \in Seq(Messages) /\ Len(r) = Len(s) - 1
      /\ \A i \in 1 .. k - 1 : r[i] = s[i]
      /\ \A i \in k .. Len(s) - 1 : r[i] = s[i + 1]
  BY RemoveFact
<1> HIDE DEF c, r
<1>4. k \in 1 .. Len(c)
  BY <1>1
<1>5. /\ x \in Seq(Messages) /\ Len(x) = Len(c) - 1
      /\ \A i \in 1 .. k - 1 : x[i] = c[i]
      /\ \A i \in k .. Len(c) - 1 : x[i] = c[i + 1]
  BY <1>1, <1>4, RemoveFact
<1>6. y \in Seq(Messages) /\ Len(y) = Len(r) + Len(t)
  BY <1>3, ConcatFact
<1>7. /\ \A i \in 1 .. Len(r) : y[i] = r[i]
      /\ \A i \in Len(r) + 1 .. Len(r) + Len(t) : y[i] = t[i - Len(r)]
  BY <1>3, ConcatFact
<1> HIDE DEF x, y
<1>8. Len(x) = Len(y)
  BY <1>1, <1>3, <1>5, <1>6
<1>9. ASSUME NEW i \in 1 .. Len(x) PROVE x[i] = y[i]
  <2>1. CASE i < k
    <3>1. i \in 1 .. k - 1 /\ i \in 1 .. Len(s) /\ i \in 1 .. Len(r)
      BY <1>1, <1>3, <2>1
    <3> QED
      BY <1>2, <1>3, <1>5, <1>7, <3>1
  <2>2. CASE i >= k /\ i < Len(s)
    <3>1. i \in k .. Len(c) - 1 /\ i + 1 \in 1 .. Len(s) /\ i \in 1 .. Len(r) /\ i \in k .. Len(s) - 1
      BY <1>1, <1>3, <2>2
    <3> QED
      BY <1>2, <1>3, <1>5, <1>7, <3>1
  <2>3. CASE i >= Len(s)
    <3>1. /\ i \in k .. Len(c) - 1 /\ i + 1 \in Len(s) + 1 .. Len(s) + Len(t)
          /\ i \in Len(r) + 1 .. Len(r) + Len(t) /\ (i + 1) - Len(s) = i - Len(r)
      BY <1>1, <1>3, <1>5, <2>3
    <3> QED
      BY <1>2, <1>5, <1>7, <3>1
  <2> QED
    BY <1>1, <2>1, <2>2, <2>3
<1>10. x = y
  BY <1>5, <1>6, <1>8, <1>9, SeqEqual
<1> QED
  BY <1>10 DEF x, y, c, r

(* Taking a message out of the second part of a concatenation. *)
LEMMA RemoveRight ==
    ASSUME NEW s \in Seq(Messages), NEW t \in Seq(Messages), NEW k \in 1 .. Len(t)
    PROVE  RemoveAt(s \o t, Len(s) + k) = s \o RemoveAt(t, k)
<1> DEFINE c == s \o t
           r == RemoveAt(t, k)
           n == Len(s) + k
           x == RemoveAt(c, n)
           y == s \o r
<1>1. /\ c \in Seq(Messages) /\ Len(c) = Len(s) + Len(t)
      /\ Len(s) \in Nat /\ Len(t) \in Nat /\ k \in Nat /\ k > 0 /\ k <= Len(t)
  BY ConcatFact
<1>2. /\ \A i \in 1 .. Len(s) : c[i] = s[i]
      /\ \A i \in Len(s) + 1 .. Len(s) + Len(t) : c[i] = t[i - Len(s)]
  BY ConcatFact
<1>3. /\ r \in Seq(Messages) /\ Len(r) = Len(t) - 1
      /\ \A i \in 1 .. k - 1 : r[i] = t[i]
      /\ \A i \in k .. Len(t) - 1 : r[i] = t[i + 1]
  BY RemoveFact
<1> HIDE DEF c, r
<1>4. n \in 1 .. Len(c) /\ n = Len(s) + k
  BY <1>1
<1> HIDE DEF n
<1>5. /\ x \in Seq(Messages) /\ Len(x) = Len(c) - 1
      /\ \A i \in 1 .. n - 1 : x[i] = c[i]
      /\ \A i \in n .. Len(c) - 1 : x[i] = c[i + 1]
  BY <1>1, <1>4, RemoveFact
<1>6. y \in Seq(Messages) /\ Len(y) = Len(s) + Len(r)
  BY <1>3, ConcatFact
<1>7. /\ \A i \in 1 .. Len(s) : y[i] = s[i]
      /\ \A i \in Len(s) + 1 .. Len(s) + Len(r) : y[i] = r[i - Len(s)]
  BY <1>3, ConcatFact
<1> HIDE DEF x, y
<1>8. Len(x) = Len(y)
  BY <1>1, <1>3, <1>5, <1>6
<1>9. ASSUME NEW i \in 1 .. Len(x) PROVE x[i] = y[i]
  <2>1. CASE i <= Len(s)
    <3>1. i \in 1 .. n - 1 /\ i \in 1 .. Len(s)
      BY <1>1, <1>4, <2>1
    <3> QED
      BY <1>2, <1>5, <1>7, <3>1
  <2>2. CASE i > Len(s) /\ i < n
    <3>1. /\ i \in 1 .. n - 1 /\ i \in Len(s) + 1 .. Len(s) + Len(t)
          /\ i \in Len(s) + 1 .. Len(s) + Len(r) /\ i - Len(s) \in 1 .. k - 1
      BY <1>1, <1>3, <1>4, <2>2
    <3> QED
      BY <1>2, <1>3, <1>5, <1>7, <3>1
  <2>3. CASE i >= n
    <3>1. /\ i \in n .. Len(c) - 1 /\ i + 1 \in Len(s) + 1 .. Len(s) + Len(t)
          /\ i \in Len(s) + 1 .. Len(s) + Len(r) /\ (i + 1) - Len(s) = (i - Len(s)) + 1
          /\ i - Len(s) \in k .. Len(t) - 1
      BY <1>1, <1>3, <1>4, <1>5, <2>3
    <3>2. x[i] = c[i + 1]
      BY <1>5, <3>1
    <3>3. c[i + 1] = t[(i + 1) - Len(s)]
      BY <1>2, <3>1
    <3>4. r[i - Len(s)] = t[(i - Len(s)) + 1]
      BY <1>3, <3>1
    <3>5. y[i] = r[i - Len(s)]
      BY <1>7, <3>1
    <3> QED
      BY <3>1, <3>2, <3>3, <3>4, <3>5
  <2> QED
    BY <1>1, <1>4, <2>1, <2>2, <2>3
<1>10. x = y
  BY <1>5, <1>6, <1>8, <1>9, SeqEqual
<1> QED
  BY <1>10 DEF x, y, c, r, n

(* Taking the first message out leaves the tail. *)
LEMMA RemoveHead ==
    ASSUME NEW s \in Seq(Messages), s # <<>>
    PROVE  RemoveAt(s, 1) = Tail(s)
<1>1. Len(s) \in Nat /\ Len(s) > 0
  BY EmptySeq
<1>2. 1 \in 1 .. Len(s)
  BY <1>1
<1>3. /\ RemoveAt(s, 1) \in Seq(Messages) /\ Len(RemoveAt(s, 1)) = Len(s) - 1
      /\ \A i \in 1 .. Len(s) - 1 : RemoveAt(s, 1)[i] = s[i + 1]
  BY <1>2, RemoveFact
<1>4. /\ Tail(s) \in Seq(Messages) /\ Len(Tail(s)) = Len(s) - 1
      /\ \A i \in 1 .. Len(Tail(s)) : Tail(s)[i] = s[i + 1]
  BY HeadTailProperties
<1>5. \A x, y \in Seq(Messages) : Len(x) = Len(y) /\ (\A i \in 1 .. Len(x) : x[i] = y[i]) => x = y
  BY SeqEqual
<1> QED
  BY <1>3, <1>4, <1>5

(* The beginning of a sequence. *)
Starts(s, t) == Len(s) <= Len(t) /\ \A i \in 1 .. Len(s) : s[i] = t[i]

(* A beginning is a prefix, and its messages are within the sequence. *)
LEMMA StartsPrefix ==
    ASSUME NEW s \in Seq(Messages), NEW t \in Seq(Messages), Starts(s, t)
    PROVE  IsPrefix(s, t) /\ Within(s, t)
<1>1. Len(s) \in Nat /\ Len(t) \in Nat /\ Len(s) <= Len(t) /\ \A i \in 1 .. Len(s) : s[i] = t[i]
  BY DEF Starts
<1> DEFINE p == SubSeq(t, 1, Len(s))
<1>2. p \in Seq(Messages) /\ Len(p) = Len(s) /\ \A i \in 1 .. Len(s) : p[i] = t[i]
  <2>1. 1 \in 1 .. Len(t) + 1 /\ Len(s) \in 1 - 1 .. Len(t) /\ (Len(s) - 1) + 1 = Len(s)
    BY <1>1
  <2>2. p \in Seq(Messages) /\ Len(p) = (Len(s) - 1) + 1
    BY <2>1, SubFact
  <2>3. \A i \in 1 .. (Len(s) - 1) + 1 : p[i] = t[(1 + i) - 1]
    BY <2>1, SubFact
  <2> HIDE DEF p
  <2>4. \A i \in 1 .. Len(s) : (1 + i) - 1 = i
    BY <1>1
  <2> QED
    BY <2>1, <2>2, <2>3, <2>4
<1> HIDE DEF p
<1>3. s = p
  BY <1>1, <1>2, SeqEqual
<1>4. SubSeq(s, 1, Len(s)) = s
  BY SubSeqFull
<1>5. IsPrefix(s, t)
  BY <1>1, <1>3, <1>4 DEF IsPrefix, p
<1>6. Within(s, t)
  <2>1. 0 \in Nat /\ 0 + Len(s) <= Len(t) /\ \A i \in 1 .. Len(s) : s[i] = t[0 + i]
    BY <1>1
  <2> QED
    BY <2>1, WithinMiddle
<1> QED
  BY <1>5, <1>6

(* The beginning of a sequence and concatenation. *)
LEMMA StartsConcat ==
    ASSUME NEW s \in Seq(Messages), NEW t \in Seq(Messages), NEW u \in Seq(Messages), Starts(s, t)
    PROVE  Starts(s, t \o u) /\ Starts(u \o s, u \o t)
<1>1. /\ Len(s) \in Nat /\ Len(t) \in Nat /\ Len(u) \in Nat
      /\ Len(s) <= Len(t) /\ \A i \in 1 .. Len(s) : s[i] = t[i]
  BY DEF Starts
<1>2. Starts(s, t \o u)
  <2>1. Len(t \o u) = Len(t) + Len(u) /\ \A i \in 1 .. Len(t) : (t \o u)[i] = t[i]
    BY ConcatFact
  <2> QED
    BY <1>1, <2>1 DEF Starts
<1>3. Starts(u \o s, u \o t)
  <2>1. /\ Len(u \o s) = Len(u) + Len(s) /\ Len(u \o t) = Len(u) + Len(t)
        /\ \A i \in 1 .. Len(u) : (u \o s)[i] = u[i]
        /\ \A i \in 1 .. Len(u) : (u \o t)[i] = u[i]
    BY ConcatFact
  <2>2. \A i \in Len(u) + 1 .. Len(u) + Len(s) : (u \o s)[i] = s[i - Len(u)]
    BY ConcatFact
  <2>3. \A i \in Len(u) + 1 .. Len(u) + Len(t) : (u \o t)[i] = t[i - Len(u)]
    BY ConcatFact
  <2>4. ASSUME NEW i \in 1 .. Len(u) + Len(s) PROVE (u \o s)[i] = (u \o t)[i]
    <3>1. CASE i \in 1 .. Len(u)
      BY <2>1, <3>1
    <3>2. CASE i \in Len(u) + 1 .. Len(u) + Len(s)
      <4>1. i \in Len(u) + 1 .. Len(u) + Len(t) /\ i - Len(u) \in 1 .. Len(s)
        BY <1>1, <3>2
      <4> QED
        BY <1>1, <2>2, <2>3, <3>2, <4>1
    <3>3. i \in 1 .. Len(u) \/ i \in Len(u) + 1 .. Len(u) + Len(s)
      BY <1>1
    <3> QED
      BY <3>1, <3>2, <3>3
  <2> QED
    BY <1>1, <2>1, <2>4 DEF Starts
<1> QED
  BY <1>2, <1>3

(* A sequence begins with itself and with nothing. *)
LEMMA StartsSame ==
    ASSUME NEW s \in Seq(Messages)
    PROVE  Starts(s, s) /\ Starts(<<>>, s)
<1>1. Len(s) \in Nat /\ Len(<<>>) = 0
  OBVIOUS
<1> QED
  BY <1>1 DEF Starts

(* A message more. *)
LEMMA AppendFact ==
    ASSUME NEW s \in Seq(Messages), NEW m \in Messages
    PROVE  /\ Append(s, m) \in Seq(Messages) /\ Len(Append(s, m)) = Len(s) + 1 /\ Len(s) \in Nat
           /\ Append(s, m)[Len(s) + 1] = m
           /\ \A i \in 1 .. Len(s) : Append(s, m)[i] = s[i]
           /\ Append(s, m) = s \o <<m>>
<1>1. Append(s, m) \in Seq(Messages)
  OBVIOUS
<1>2. /\ Len(Append(s, m)) = Len(s) + 1 /\ Len(s) \in Nat /\ Append(s, m)[Len(s) + 1] = m
      /\ \A i \in 1 .. Len(s) : Append(s, m)[i] = s[i]
  OBVIOUS
<1>3. Append(s, m) = s \o <<m>>
  BY AppendIsConcat
<1> QED
  BY <1>1, <1>2, <1>3

(* The messages of a kind after one is appended. *)
LEMMA AppendOf ==
    ASSUME NEW s \in Seq(Messages), NEW m \in Messages, NEW kind
    PROVE  /\ m.kind # kind => Of(Append(s, m), kind) = Of(s, kind)
           /\ m.kind = kind /\ Of(s, kind) = {} => Of(Append(s, m), kind) = {Len(s) + 1}
           /\ \A i \in Of(s, kind) : Append(s, m)[i] = s[i]
<1> DEFINE a == Append(s, m)
<1>1. /\ a \in Seq(Messages) /\ Len(a) = Len(s) + 1 /\ Len(s) \in Nat
      /\ a[Len(s) + 1] = m /\ \A i \in 1 .. Len(s) : a[i] = s[i]
  BY AppendFact
<1> HIDE DEF a
<1>2. DOMAIN a = 1 .. Len(s) + 1 /\ DOMAIN s = 1 .. Len(s)
  BY <1>1
<1>3. m.kind # kind => Of(a, kind) = Of(s, kind)
  BY <1>1, <1>2 DEF Of
<1>4. m.kind = kind /\ Of(s, kind) = {} => Of(a, kind) = {Len(s) + 1}
  BY <1>1, <1>2 DEF Of
<1>5. \A i \in Of(s, kind) : a[i] = s[i]
  BY <1>1, <1>2 DEF Of
<1> QED
  BY <1>3, <1>4, <1>5 DEF a

(* Another message, or one of another kind, changes nothing. *)
LEMMA AppendAnswering ==
    ASSUME NEW s \in Seq(Messages), NEW m \in Messages, NEW h, NEW at, NEW id, m.kind # "response",
           Answering(s, h, at, id)
    PROVE  Answering(Append(s, m), h, at, id)
<1>1. /\ Of(Append(s, m), "response") = Of(s, "response")
      /\ \A i \in Of(s, "response") : Append(s, m)[i] = s[i]
  BY AppendOf
<1> QED
  BY <1>1 DEF Answering

(* Posting something other than a request asks nothing. *)
LEMMA AppendAsking ==
    ASSUME NEW s \in Seq(Messages), NEW m \in Messages, NEW P, NEW at, NEW id, NEW owes, m.kind # "request",
           Asking(s, P, at, id, owes)
    PROVE  Asking(Append(s, m), P, at, id, owes)
<1>1. /\ Of(Append(s, m), "request") = Of(s, "request")
      /\ \A i \in Of(s, "request") : Append(s, m)[i] = s[i]
  BY AppendOf
<1> QED
  BY <1>1 DEF Asking

(* An end that does not wait has no call out, and one that has called      *)
(* neither is answered nor has asked before.                               *)
LEMMA NoCall ==
    ASSUME NEW P, NEW h, NEW at, NEW id, at # "waiting", Answering(P, h, at, id)
    PROVE  /\ Of(P, "response") = {}
           /\ \A pl, n : Answering(P, h, pl, n)
BY DEF Answering, AtMostOne

(* An end that does not wait has no request at its peer. *)
LEMMA NotAsked ==
    ASSUME NEW Q, NEW P, NEW at, NEW id, NEW owes, at # "waiting", Asking(Q, P, at, id, owes)
    PROVE  Of(Q, "request") = {} /\ owes = 0 /\ \A pl, n : Asking(Q, P, pl, n, owes)
BY DEF Asking, AtMostOne

-----------------------------------------------------------------------------
(***************************************************************************)
(* The messages on their way, under each action.                           *)
(***************************************************************************)

(* There are two ends. *)
LEMMA PeerFact ==
    ASSUME NEW e \in Ends
    PROVE  /\ Peer(e) \in Ends /\ Peer(e) # e /\ Peer(Peer(e)) = e
           /\ \A x \in Ends : x = e \/ x = Peer(e)
BY DEF Ends, Peer

(* The types of what is on its way to an end. *)
LEMMA StreamTypes ==
    ASSUME Types, NEW e \in Ends
    PROVE  /\ handling[e] \in Seq(Messages) /\ m_unprocessed_messages[e] \in Seq(Messages)
           /\ queue[e] \in Seq(Messages) /\ sending[e] \in Seq(Part) /\ wire[e] \in Seq(Part)
           /\ m_unprocessed_bytes[e] \in Seq(Part)
           /\ Bytes(e) \in Seq(Part) /\ Incoming(e) \in Seq(Messages) /\ Pending(e) \in Seq(Messages)
<1>1. /\ handling[e] \in Seq(Messages) /\ m_unprocessed_messages[e] \in Seq(Messages)
      /\ queue[e] \in Seq(Messages) /\ sending[e] \in Seq(Part) /\ wire[e] \in Seq(Part)
      /\ m_unprocessed_bytes[e] \in Seq(Part)
  BY DEF Types
<1>2. /\ Peer(e) \in Ends
  BY PeerFact
<1>3. queue[Peer(e)] \in Seq(Messages) /\ sending[Peer(e)] \in Seq(Part)
  BY <1>2 DEF Types
<1>4. Bytes(e) \in Seq(Part)
  <2>1. <<>> \in Seq(Part)
    OBVIOUS
  <2>2. (IF open[e] THEN wire[e] ELSE <<>>) \in Seq(Part)
    BY <1>1, <2>1
  <2> QED
    BY <1>1, <2>2, ConcatFact DEF Bytes
<1>5. Bytes(e) \o sending[Peer(e)] \in Seq(Part)
  BY <1>3, <1>4, ConcatFact
<1>6. Whole(Bytes(e)) \in Seq(Messages) /\ Whole(Bytes(e) \o sending[Peer(e)]) \in Seq(Messages)
  BY <1>4, <1>5, WholeType
<1>7. Whole(Bytes(e) \o sending[Peer(e)]) \o queue[Peer(e)] \in Seq(Messages)
  BY <1>3, <1>6, ConcatFact
<1>8. Incoming(e) \in Seq(Messages)
  BY <1>6, <1>7 DEF Incoming
<1>9. Pending(e) \in Seq(Messages)
  <2>1. <<>> \in Seq(Messages)
    OBVIOUS
  <2>2. (IF open[e] THEN Incoming(e) ELSE <<>>) \in Seq(Messages)
    BY <1>8, <2>1
  <2>3. handling[e] \o m_unprocessed_messages[e] \in Seq(Messages)
    BY <1>1, ConcatFact
  <2>4. handling[e] \o m_unprocessed_messages[e] \o (IF open[e] THEN Incoming(e) ELSE <<>>) \in Seq(Messages)
    BY <2>2, <2>3, ConcatFact
  <2> QED
    BY <2>1, <2>4 DEF Pending
<1> QED
  BY <1>1, <1>4, <1>8, <1>9

(* What a step leaves alone. *)
LEMMA IncomingSame ==
    ASSUME NEW x \in Ends, m_unprocessed_bytes'[x] = m_unprocessed_bytes[x], wire'[x] = wire[x],
           open'[x] = open[x], alive'[Peer(x)] = alive[Peer(x)], open'[Peer(x)] = open[Peer(x)],
           sending'[Peer(x)] = sending[Peer(x)], queue'[Peer(x)] = queue[Peer(x)]
    PROVE  Incoming(x)' = Incoming(x)
BY DEF Incoming, Bytes, Live

(* What is on its way to an end depends on its vectors and what comes in. *)
LEMMA PendingSame ==
    ASSUME NEW x \in Ends, handling'[x] = handling[x],
           m_unprocessed_messages'[x] = m_unprocessed_messages[x],
           open'[x] = open[x], alive'[x] = alive[x],
           Live(x) => Incoming(x)' = Incoming(x)
    PROVE  Pending(x)' = Pending(x)
BY DEF Pending, Live

(* A stream that is not written stays aligned. *)
LEMMA AlignedSame ==
    ASSUME NEW x \in Ends, Aligned(x),
           m_unprocessed_bytes'[x] = m_unprocessed_bytes[x], wire'[x] = wire[x],
           open'[x] = open[x], sending'[Peer(x)] = sending[Peer(x)],
           Live(x)' => Live(x), Live(Peer(x))' => Live(Peer(x))
    PROVE  Aligned(x)'
BY DEF Aligned, Stream, Bytes

(* The send thread: the message it takes, the part it writes. *)
LEMMA TakeFact ==
    ASSUME NEW b \in Seq(Part), NEW q \in Seq(Messages), q # <<>>,
           NEW k \in Nat, Len(b) = k * MessageParts
    PROVE  /\ Whole(b \o Parts(Head(q))) \o Tail(q) = Whole(b) \o q
           /\ Len(b \o Parts(Head(q))) = (k + 1) * MessageParts
           /\ Parts(Head(q)) \in Seq(Part)
<1>1. Head(q) \in Messages /\ Tail(q) \in Seq(Messages) /\ <<Head(q)>> \o Tail(q) = q
  OBVIOUS
<1> DEFINE h == Head(q)
           p == Parts(h)
           w == Whole(b)
<1>2. p \in Seq(Part) /\ Len(p) = MessageParts /\ Whole(p) = <<h>>
  BY <1>1, PartsFact
<1> HIDE DEF p
<1>3. Whole(b \o p) = w \o Whole(p)
  BY <1>2, WholeSplit
<1>4. w \in Seq(Messages) /\ <<h>> \in Seq(Messages)
  <2>1. w \in Seq(Messages)
    BY WholeType
  <2>2. <<h>> \in Seq(Messages)
    BY <1>1
  <2> QED
    BY <2>1, <2>2
<1>5. (w \o <<h>>) \o Tail(q) = w \o (<<h>> \o Tail(q))
  BY <1>1, <1>4, AssocMessages
<1>6. Len(b \o p) = (k + 1) * MessageParts
  <2>1. Len(b \o p) = Len(b) + Len(p)
    BY <1>2, ConcatFact
  <2>2. (k + 1) * MessageParts = k * MessageParts + 1 * MessageParts /\ 1 * MessageParts = MessageParts
    BY TimesFact, ConnectionAssumption
  <2> QED
    BY <1>2, <2>1, <2>2
<1>7. Whole(b \o p) \o Tail(q) = w \o q
  BY <1>1, <1>2, <1>3, <1>5
<1> QED
  BY <1>2, <1>6, <1>7 DEF p

(* A part that is written moves from the send thread into the socket. *)
LEMMA WriteFact ==
    ASSUME NEW b \in Seq(Part), NEW w \in Seq(Part), NEW s \in Seq(Part), s # <<>>
    PROVE  (b \o Append(w, Head(s))) \o Tail(s) = (b \o w) \o s
<1>1. Head(s) \in Part /\ Tail(s) \in Seq(Part) /\ <<Head(s)>> \o Tail(s) = s
  OBVIOUS
<1> DEFINE h == <<Head(s)>>
           t == Tail(s)
<1>2. h \in Seq(Part) /\ t \in Seq(Part) /\ h \o t = s
  BY <1>1
<1>3. Append(w, Head(s)) = w \o h
  BY <1>1, AppendIsConcat
<1> HIDE DEF h, t
<1>4. b \o (w \o h) = (b \o w) \o h
  BY <1>2, AssocParts, ZenonT(40)
<1>5. b \o w \in Seq(Part)
  BY ConcatFact
<1>6. ((b \o w) \o h) \o t = (b \o w) \o (h \o t)
  BY <1>2, <1>5, AssocParts
<1>7. (b \o Append(w, Head(s))) \o t = (b \o w) \o s
  BY <1>2, <1>3, <1>4, <1>6
<1> QED
  BY <1>7 DEF t

(* A step that keeps the messages on their way, and streams that end with  *)
(* whole messages.                                                         *)
Quiet == \A x \in Ends : Pending(x)' = Pending(x)
Keeps == \A x \in Ends : Aligned(x)'

(* Taking a message from the queue makes it parts of the same stream. *)
LEMMA SendTakeQuiet ==
    ASSUME IInv, NEW e \in Ends, SendTake(e)
    PROVE  Quiet /\ Keeps
<1> DEFINE p == Peer(e)
<1>1. p \in Ends /\ p # e /\ Peer(p) = e /\ \A x \in Ends : x = e \/ x = p
  BY PeerFact
<1>2. /\ handling' = handling /\ m_unprocessed_messages' = m_unprocessed_messages
      /\ m_unprocessed_bytes' = m_unprocessed_bytes /\ wire' = wire
      /\ open' = open /\ alive' = alive
  BY DEF SendTake, socket, received, loop
<1>3. Types /\ Aligned(e) /\ Aligned(p)
  BY <1>1 DEF IInv
<1>4. /\ sending'[p] = sending[p] /\ queue'[p] = queue[p]
      /\ sending[e] = <<>> /\ queue[e] # <<>>
      /\ sending'[e] = Parts(Head(queue[e])) /\ queue'[e] = Tail(queue[e])
  BY <1>1, <1>3 DEF SendTake, Types
<1>5. (Live(e)' <=> Live(e)) /\ (Live(p)' <=> Live(p)) /\ Bytes(p)' = Bytes(p)
  BY <1>2 DEF Live, Bytes
<1>6. Bytes(p) \in Seq(Part) /\ queue[e] \in Seq(Messages)
  BY <1>1, <1>3, StreamTypes
<1>7. ASSUME Live(p), Live(e)
      PROVE  Incoming(p)' = Incoming(p) /\ \E k \in Nat : Len(Bytes(p) \o Parts(Head(queue[e]))) = k * MessageParts
  <2>1. Bytes(p) \o <<>> = Bytes(p)
    BY <1>6, ConcatEmptySeq
  <2>2. PICK k \in Nat : Len(Bytes(p)) = k * MessageParts
    BY <1>1, <1>3, <1>4, <1>7, <2>1 DEF Aligned, Stream
  <2>3. /\ Whole(Bytes(p) \o Parts(Head(queue[e]))) \o Tail(queue[e]) = Whole(Bytes(p)) \o queue[e]
        /\ Len(Bytes(p) \o Parts(Head(queue[e]))) = (k + 1) * MessageParts
    BY <1>4, <1>6, <2>2, TakeFact
  <2>4. k + 1 \in Nat
    OBVIOUS
  <2>5. Incoming(p) = Whole(Bytes(p)) \o queue[e]
    BY <1>1, <1>4, <1>7, <2>1 DEF Incoming
  <2>6. Incoming(p)' = Whole(Bytes(p)' \o sending'[e]) \o queue'[e]
    BY <1>1, <1>5, <1>7 DEF Incoming
  <2> QED
    BY <1>4, <1>5, <2>3, <2>4, <2>5, <2>6
<1>8. Pending(p)' = Pending(p)
  <2>1. CASE Live(e)
    BY <1>1, <1>2, <1>7, <2>1, PendingSame
  <2>2. CASE ~Live(e)
    <3>1. Incoming(p)' = Incoming(p)
      BY <1>1, <1>5, <2>2 DEF Incoming
    <3> QED
      BY <1>1, <1>2, <3>1, PendingSame
  <2> QED
    BY <2>1, <2>2
<1>9. Pending(e)' = Pending(e)
  <2>1. Incoming(e)' = Incoming(e)
    BY <1>2, <1>4, IncomingSame
  <2> QED
    BY <1>2, <2>1, PendingSame
<1>10. Aligned(e)'
  BY <1>2, <1>3, <1>4, <1>5, AlignedSame
<1>11. Aligned(p)'
  BY <1>1, <1>4, <1>5, <1>7 DEF Aligned, Stream
<1> QED
  BY <1>1, <1>8, <1>9, <1>10, <1>11 DEF Quiet, Keeps

(* Writing a part leaves the stream as it is. *)
LEMMA SendPartQuiet ==
    ASSUME IInv, NEW e \in Ends, SendPart(e)
    PROVE  Quiet /\ Keeps
<1> DEFINE p == Peer(e)
<1>1. p \in Ends /\ p # e /\ Peer(p) = e /\ \A x \in Ends : x = e \/ x = p
  BY PeerFact
<1>2. /\ handling' = handling /\ m_unprocessed_messages' = m_unprocessed_messages
      /\ m_unprocessed_bytes' = m_unprocessed_bytes /\ queue' = queue
      /\ open' = open /\ alive' = alive
  BY DEF SendPart, received, loop
<1>3. Types /\ Aligned(e) /\ Aligned(p)
  BY <1>1 DEF IInv
<1>4. /\ sending'[p] = sending[p] /\ wire'[e] = wire[e]
      /\ sending[e] # <<>> /\ open[e] /\ open[p]
      /\ sending'[e] = Tail(sending[e]) /\ wire'[p] = Append(wire[p], Head(sending[e]))
  BY <1>1, <1>3 DEF SendPart, Types
<1>5. (Live(e)' <=> Live(e)) /\ (Live(p)' <=> Live(p))
  BY <1>2 DEF Live
<1>6. m_unprocessed_bytes[p] \in Seq(Part) /\ wire[p] \in Seq(Part) /\ sending[e] \in Seq(Part)
  BY <1>1, <1>3, StreamTypes
<1>7. Bytes(p)' \o sending'[e] = Bytes(p) \o sending[e]
  <2>1. Bytes(p)' = m_unprocessed_bytes[p] \o wire'[p] /\ Bytes(p) = m_unprocessed_bytes[p] \o wire[p]
    BY <1>2, <1>4 DEF Bytes
  <2>2. (m_unprocessed_bytes[p] \o Append(wire[p], Head(sending[e]))) \o Tail(sending[e])
          = (m_unprocessed_bytes[p] \o wire[p]) \o sending[e]
    BY <1>4, <1>6, WriteFact
  <2> QED
    BY <1>4, <2>1, <2>2
<1>8. Pending(p)' = Pending(p)
  <2>1. Live(e)
    BY <1>4 DEF SendPart, Live
  <2>2. Incoming(p)' = Incoming(p)
    BY <1>1, <1>2, <1>5, <1>7, <2>1 DEF Incoming
  <2> QED
    BY <1>1, <1>2, <2>2, PendingSame
<1>9. Pending(e)' = Pending(e)
  <2>1. Incoming(e)' = Incoming(e)
    BY <1>2, <1>4, IncomingSame
  <2> QED
    BY <1>2, <2>1, PendingSame
<1>10. Aligned(e)'
  BY <1>2, <1>3, <1>4, <1>5, AlignedSame
<1>11. Aligned(p)'
  BY <1>1, <1>3, <1>5, <1>7 DEF Aligned, Stream
<1> QED
  BY <1>1, <1>8, <1>9, <1>10, <1>11 DEF Quiet, Keeps

(* A write fails only when the stream is not counted any more. *)
LEMMA SendFailsQuiet ==
    ASSUME IInv, NEW e \in Ends, SendFails(e)
    PROVE  Quiet /\ Keeps
<1> DEFINE p == Peer(e)
<1>1. p \in Ends /\ p # e /\ Peer(p) = e /\ \A x \in Ends : x = e \/ x = p
  BY PeerFact
<1>2. /\ handling' = handling /\ m_unprocessed_messages' = m_unprocessed_messages
      /\ m_unprocessed_bytes' = m_unprocessed_bytes /\ wire' = wire /\ queue' = queue
      /\ open' = open /\ alive' = alive
  BY DEF SendFails, socket, received, loop
<1>3. Types /\ Aligned(e) /\ Aligned(p)
  BY <1>1 DEF IInv
<1>4. sending'[p] = sending[p]
  BY <1>1, <1>3 DEF SendFails, Types
<1>5. (Live(e)' <=> Live(e)) /\ (Live(p)' <=> Live(p)) /\ ~(Live(e) /\ Live(p)) /\ Bytes(p)' = Bytes(p)
  BY <1>2 DEF SendFails, Live, Bytes
<1>8. Pending(p)' = Pending(p)
  <2>1. Live(p) => Incoming(p)' = Incoming(p)
    BY <1>1, <1>5 DEF Incoming
  <2> QED
    BY <1>1, <1>2, <2>1, PendingSame
<1>9. Pending(e)' = Pending(e)
  <2>1. Incoming(e)' = Incoming(e)
    BY <1>2, <1>4, IncomingSame
  <2> QED
    BY <1>2, <2>1, PendingSame
<1>10. Aligned(e)' /\ Aligned(p)'
  BY <1>1, <1>5 DEF Aligned
<1> QED
  BY <1>1, <1>8, <1>9, <1>10 DEF Quiet, Keeps

(* A step that leaves the streams and the vectors alone. *)
LEMMA FrameQuiet ==
    ASSUME IInv, UNCHANGED <<sender, wire, open, received, handling, alive>>
    PROVE  Quiet /\ Keeps
<1>1. /\ handling' = handling /\ m_unprocessed_messages' = m_unprocessed_messages
      /\ m_unprocessed_bytes' = m_unprocessed_bytes /\ wire' = wire /\ queue' = queue
      /\ open' = open /\ alive' = alive /\ sending' = sending
  BY DEF received, sender
<1>2. ASSUME NEW x \in Ends PROVE Pending(x)' = Pending(x) /\ Aligned(x)'
  <2>1. Incoming(x)' = Incoming(x)
    BY <1>1, IncomingSame
  <2>2. Pending(x)' = Pending(x)
    BY <1>1, <2>1, PendingSame
  <2>3. Aligned(x)'
    <3>1. Aligned(x)
      BY DEF IInv
    <3> QED
      BY <1>1, <3>1 DEF Aligned, Stream, Bytes, Live
  <2> QED
    BY <2>2, <2>3
<1> QED
  BY <1>2 DEF Quiet, Keeps

(* A stream from which whole messages are taken still ends with one. *)
LEMMA RestAligned ==
    ASSUME NEW n \in Nat, NEW r \in Nat, NEW s \in Nat, NEW j \in Nat, NEW k \in Nat,
           n = j * MessageParts + r, n + s = k * MessageParts, r < MessageParts
    PROVE  \E i \in Nat : r + s = i * MessageParts
<1> DEFINE jm == j * MessageParts
           km == k * MessageParts
<1>1. jm \in Nat /\ km \in Nat /\ n = jm + r /\ n + s = km /\ MessageParts \in Nat
  BY TimesFact, ConnectionAssumption
<1>2. j <= k
  <2> SUFFICES ASSUME k < j PROVE FALSE
    OBVIOUS
  <2>1. km + MessageParts <= jm
    BY TimesFact
  <2> HIDE DEF jm, km
  <2>2. MessageParts > 0
    BY ConnectionAssumption
  <2> QED
    BY <1>1, <2>1, <2>2
<1>3. k - j \in Nat /\ (k - j) + j = k
  BY <1>2
<1>4. ((k - j) + j) * MessageParts = (k - j) * MessageParts + jm
  BY <1>3, TimesFact
<1>5. (k - j) * MessageParts \in Nat
  BY <1>3, TimesFact
<1> DEFINE im == (k - j) * MessageParts
<1>6. im \in Nat /\ km = im + jm
  BY <1>3, <1>4, <1>5
<1> HIDE DEF im, jm, km
<1>7. r + s = im
  BY <1>1, <1>6
<1> QED
  BY <1>3, <1>7 DEF im

(* Moving messages from the stream to the vectors keeps their order. *)
Vectors(e) == handling[e] \o m_unprocessed_messages[e]
WithReceived(e) == handling[e] \o Received(e)

(* Reading appends the whole messages of the bytes to the vectors. *)
LEMMA ReceivedFact ==
    ASSUME Types, NEW e \in Ends
    PROVE  \A y \in Seq(Messages) : WithReceived(e) \o y = Vectors(e) \o (Whole(Bytes(e)) \o y)
<1> TAKE y \in Seq(Messages)
<1>1. handling[e] \in Seq(Messages) /\ m_unprocessed_messages[e] \in Seq(Messages) /\ Bytes(e) \in Seq(Part)
  BY StreamTypes
<1>2. Whole(Bytes(e)) \in Seq(Messages)
  BY <1>1, WholeType
<1>3. PICK h, u, w : h = handling[e] /\ u = m_unprocessed_messages[e] /\ w = Whole(Bytes(e))
  OBVIOUS
<1>4. h \in Seq(Messages) /\ u \in Seq(Messages) /\ w \in Seq(Messages)
  BY <1>1, <1>2, <1>3
<1>5. h \o (u \o w) = (h \o u) \o w
  BY <1>4, AssocMessages
<1>6. h \o u \in Seq(Messages)
  BY <1>4, ConcatFact
<1>7. ((h \o u) \o w) \o y = (h \o u) \o (w \o y)
  BY <1>4, <1>6, AssocMessages
<1>8. WithReceived(e) = h \o (u \o w) /\ Vectors(e) = h \o u
  BY <1>3 DEF Vectors, WithReceived, Received
<1> QED
  BY <1>3, <1>5, <1>7, <1>8

(* drain_messages_from_peer() moves messages and loses none: the stash     *)
(* keeps the beginning of a message that is not complete.                  *)
LEMMA DrainQuiet ==
    ASSUME IInv, NEW e \in Ends, NEW rest, Drain(e, rest), UNCHANGED <<sender, open, alive>>,
           handling'[Peer(e)] = handling[Peer(e)],
           m_unprocessed_messages'[Peer(e)] = m_unprocessed_messages[Peer(e)],
           Vectors(e)' = WithReceived(e)
    PROVE  Quiet /\ Keeps
<1> DEFINE p == Peer(e)
           b == Bytes(e)
           r == SubSeq(b, IndexAfter(b) + 1, Len(b))
           w == Whole(b)
           s == sending[p]
           q == queue[p]
<1>1. p \in Ends /\ p # e /\ Peer(p) = e /\ \A x \in Ends : x = e \/ x = p
  BY PeerFact
<1>2. open' = open /\ alive' = alive /\ sending' = sending /\ queue' = queue
  BY DEF sender
<1>3. Types /\ Aligned(e) /\ Aligned(p) /\ Len(m_unprocessed_bytes[e]) < MessageParts
  BY <1>1 DEF IInv, TypeOK
<1>4. /\ wire'[p] = wire[p] /\ m_unprocessed_bytes'[p] = m_unprocessed_bytes[p]
      /\ m_unprocessed_bytes'[e] = r
      /\ open[e] => wire'[e] = <<>>
      /\ ~open[e] => wire'[e] = wire[e]
  BY <1>1, <1>3 DEF Drain, Types
<1>5. (Live(e)' <=> Live(e)) /\ (Live(p)' <=> Live(p))
  BY <1>2 DEF Live
<1>6. /\ b \in Seq(Part) /\ s \in Seq(Part) /\ q \in Seq(Messages)
      /\ handling[e] \in Seq(Messages) /\ m_unprocessed_messages[e] \in Seq(Messages)
      /\ m_unprocessed_bytes[e] \in Seq(Part)
  BY <1>1, <1>3, StreamTypes
<1>7. w \in Seq(Messages)
  BY <1>6, WholeType
<1>8. /\ r \in Seq(Part) /\ Len(r) < MessageParts
      /\ Whole(b \o s) = w \o Whole(r \o s)
      /\ \E k \in Nat : Len(b) = k * MessageParts + Len(r)
  <2> HIDE DEF b, r, s
  <2> QED
    BY <1>6, DrainAll DEF w, r, Rest
<1> HIDE DEF b, r
<1>9. Whole(r) = <<>> /\ Bytes(e)' = r
  <2>1. Whole(r) = <<>>
    BY <1>8, WholeShort
  <2>2. r \o <<>> = r
    BY <1>8, ConcatEmptySeq
  <2>3. Bytes(e)' = r \o <<>>
    BY <1>2, <1>4 DEF Bytes
  <2> QED
    BY <2>1, <2>2, <2>3
<1>10. Pending(p)' = Pending(p)
  <2>1. Incoming(p)' = Incoming(p)
    BY <1>1, <1>2, <1>4, IncomingSame
  <2> QED
    BY <1>1, <1>2, <2>1, PendingSame
<1>11. Aligned(p)'
  BY <1>1, <1>2, <1>3, <1>4, <1>5, AlignedSame
<1> DEFINE y == IF open[e] THEN Incoming(e)' ELSE <<>>
           x == IF open[e] THEN Incoming(e) ELSE <<>>
<1>12. y \in Seq(Messages) /\ w \o y = x
  <2>1. CASE open[e] /\ Live(p)
    <3>1. Incoming(e)' = Whole(r \o s) \o q
      BY <1>2, <1>5, <1>9, <2>1 DEF Incoming
    <3>2. Incoming(e) = Whole(b \o s) \o q
      BY <2>1 DEF Incoming, b
    <3>3. r \o s \in Seq(Part)
      BY <1>6, <1>8, ConcatFact
    <3>4. Whole(r \o s) \in Seq(Messages)
      BY <3>3, WholeType
    <3>5. (w \o Whole(r \o s)) \o q = w \o (Whole(r \o s) \o q)
      BY <1>6, <1>7, <3>4, AssocMessages
    <3>6. Whole(r \o s) \o q \in Seq(Messages)
      BY <1>6, <3>4, ConcatFact
    <3> QED
      BY <1>8, <2>1, <3>1, <3>2, <3>5, <3>6
  <2>2. CASE open[e] /\ ~Live(p)
    <3>1. Incoming(e)' = <<>>
      BY <1>5, <1>9, <2>2 DEF Incoming
    <3>2. Incoming(e) = w
      BY <2>2 DEF Incoming, b
    <3>3. w \o <<>> = w /\ <<>> \in Seq(Messages)
      BY <1>7, ConcatEmptySeq
    <3> QED
      BY <2>2, <3>1, <3>2, <3>3
  <2>3. CASE ~open[e]
    <3>1. b = m_unprocessed_bytes[e]
      <4>1. b = m_unprocessed_bytes[e] \o <<>>
        BY <2>3 DEF Bytes, b
      <4> QED
        BY <1>6, <4>1, ConcatEmptySeq
    <3>2. w = <<>>
      BY <1>3, <1>6, <3>1, WholeShort
    <3>3. <<>> \o <<>> = <<>> /\ <<>> \in Seq(Messages)
      OBVIOUS
    <3> QED
      BY <2>3, <3>2, <3>3
  <2> QED
    BY <2>1, <2>2, <2>3
<1> HIDE DEF w
<1>13. Pending(e)' = Pending(e)
  <2>1. CASE alive[e]
    <3>1. Pending(e) = Vectors(e) \o x
      BY <2>1 DEF Pending, Vectors
    <3>2. Pending(e)' = Vectors(e)' \o y
      BY <1>2, <2>1 DEF Pending, Vectors
    <3> HIDE DEF x, y
    <3>3. WithReceived(e) \o y = Vectors(e) \o (w \o y)
      BY <1>3, <1>12, ReceivedFact DEF w, b
    <3> QED
      BY <1>12, <3>1, <3>2, <3>3
  <2>2. CASE ~alive[e]
    BY <1>2, <2>2 DEF Pending
  <2> QED
    BY <2>1, <2>2
<1>14. Aligned(e)'
  <2> SUFFICES ASSUME Live(e)', Live(p)' PROVE \E k \in Nat : Len(Bytes(e)' \o sending'[p]) = k * MessageParts
    BY DEF Aligned, Stream
  <2>1. PICK k \in Nat : Len(b \o s) = k * MessageParts
    BY <1>3, <1>5 DEF Aligned, Stream, b
  <2>2. PICK j \in Nat : Len(b) = j * MessageParts + Len(r)
    BY <1>8
  <2>3. Len(b \o s) = Len(b) + Len(s) /\ Len(b) \in Nat /\ Len(s) \in Nat
    BY <1>6, ConcatFact
  <2>4. Len(r \o s) = Len(r) + Len(s) /\ Len(r) \in Nat
    BY <1>6, <1>8, ConcatFact
  <2>5. \E i \in Nat : Len(r) + Len(s) = i * MessageParts
    <3>1. Len(b) + Len(s) = k * MessageParts /\ Len(r) < MessageParts
      BY <1>8, <2>1, <2>3
    <3> DEFINE n == Len(b)
               t == Len(s)
               m == Len(r)
    <3>2. /\ n \in Nat /\ t \in Nat /\ m \in Nat /\ n = j * MessageParts + m
          /\ n + t = k * MessageParts /\ m < MessageParts
      BY <2>2, <2>3, <2>4, <3>1
    <3> HIDE DEF n, t, m
    <3>3. \E i \in Nat : m + t = i * MessageParts
      BY <3>2, RestAligned
    <3> QED
      BY <3>3 DEF t, m
  <2> QED
    BY <1>2, <1>9, <2>4, <2>5
<1> QED
  BY <1>1, <1>10, <1>11, <1>13, <1>14 DEF Quiet, Keeps

(* Moving messages from one vector to the other keeps their order. *)
LEMMA MoveQuiet ==
    ASSUME IInv, NEW e \in Ends, UNCHANGED <<sender, wire, open, m_unprocessed_bytes, alive>>,
           handling'[Peer(e)] = handling[Peer(e)],
           m_unprocessed_messages'[Peer(e)] = m_unprocessed_messages[Peer(e)],
           Vectors(e)' = Vectors(e)
    PROVE  Quiet /\ Keeps
<1> DEFINE p == Peer(e)
<1>1. p \in Ends /\ \A x \in Ends : x = e \/ x = p
  BY PeerFact
<1>2. /\ open' = open /\ alive' = alive /\ sending' = sending /\ queue' = queue
      /\ wire' = wire /\ m_unprocessed_bytes' = m_unprocessed_bytes
  BY DEF sender
<1>3. ASSUME NEW x \in Ends PROVE Incoming(x)' = Incoming(x) /\ Aligned(x)'
  <2>1. Incoming(x)' = Incoming(x)
    BY <1>2, IncomingSame
  <2>2. Aligned(x)
    BY DEF IInv
  <2>3. Aligned(x)'
    BY <1>2, <2>2 DEF Aligned, Stream, Bytes, Live
  <2> QED
    BY <2>1, <2>3
<1>4. Pending(p)' = Pending(p)
  BY <1>1, <1>2, <1>3, PendingSame
<1>5. Pending(e)' = Pending(e)
  <2>1. Incoming(e)' = Incoming(e)
    BY <1>3
  <2> QED
    BY <1>2, <2>1 DEF Pending, Vectors
<1> QED
  BY <1>1, <1>3, <1>4, <1>5 DEF Quiet, Keeps

(* What is received are messages. *)
LEMMA ReceivedType ==
    ASSUME Types, NEW e \in Ends
    PROVE  Received(e) \in Seq(Messages)
<1>1. m_unprocessed_messages[e] \in Seq(Messages) /\ Bytes(e) \in Seq(Part)
  BY StreamTypes
<1>2. Whole(Bytes(e)) \in Seq(Messages)
  BY <1>1, WholeType
<1> QED
  BY <1>1, <1>2, ConcatFact DEF Received

(* The read hook of a ConnectionFromClient moves messages. *)
LEMMA ReadHookServerQuiet ==
    ASSUME IInv, NEW e \in Ends, ReadHookServer(e)
    PROVE  Quiet /\ Keeps
<1>1. Peer(e) \in Ends /\ Peer(e) # e /\ Types
  BY PeerFact DEF IInv
<1>2. Drain(e, Tail(tasks[e])) /\ UNCHANGED <<sender, open, alive>> /\ handling' = handling
  BY DEF ReadHookServer
<1>3. /\ m_unprocessed_messages'[e] = Received(e)
      /\ m_unprocessed_messages'[Peer(e)] = m_unprocessed_messages[Peer(e)]
  BY <1>1 DEF ReadHookServer, Types
<1>4. Vectors(e)' = WithReceived(e)
  BY <1>2, <1>3 DEF Vectors, WithReceived
<1> QED
  BY <1>2, <1>3, <1>4, DrainQuiet

(* The read hook of ConnectionBase moves messages, and handling was empty. *)
LEMMA ReadHookClientQuiet ==
    ASSUME IInv, NEW e \in Ends, ReadHookClient(e)
    PROVE  Quiet /\ Keeps
<1>1. Peer(e) \in Ends /\ Peer(e) # e /\ Types /\ Placed(e)
  BY PeerFact DEF IInv
<1>2. Drain(e, Tail(tasks[e])) /\ UNCHANGED <<sender, open, alive>> /\ place[e] = "loop"
  BY DEF ReadHookClient, Runs
<1>3. /\ m_unprocessed_messages'[e] = <<>> /\ handling'[e] = Received(e)
      /\ m_unprocessed_messages'[Peer(e)] = m_unprocessed_messages[Peer(e)]
      /\ handling'[Peer(e)] = handling[Peer(e)]
  BY <1>1 DEF ReadHookClient, Types
<1>4. handling[e] = <<>>
  BY <1>1, <1>2 DEF Placed
<1>5. Received(e) \o <<>> = <<>> \o Received(e)
  BY <1>1, ReceivedType, ConcatEmptySeq
<1>6. Vectors(e)' = WithReceived(e)
  BY <1>3, <1>4, <1>5 DEF Vectors, WithReceived
<1> QED
  BY <1>2, <1>3, <1>6, DrainQuiet

(* handle_messages() moves the vector into its local one, which was empty. *)
LEMMA handle_messagesQuiet ==
    ASSUME IInv, NEW e \in Ends, handle_messages(e)
    PROVE  Quiet /\ Keeps
<1>1. Peer(e) \in Ends /\ Peer(e) # e /\ Types /\ Placed(e)
  BY PeerFact DEF IInv
<1>2. UNCHANGED <<sender, wire, open, m_unprocessed_bytes, alive>> /\ place[e] = "loop"
  BY DEF handle_messages, Runs, socket
<1>3. /\ m_unprocessed_messages'[e] = <<>> /\ handling'[e] = m_unprocessed_messages[e]
      /\ m_unprocessed_messages'[Peer(e)] = m_unprocessed_messages[Peer(e)]
      /\ handling'[Peer(e)] = handling[Peer(e)]
  BY <1>1 DEF handle_messages, Types
<1>4. handling[e] = <<>>
  BY <1>1, <1>2 DEF Placed
<1>5. m_unprocessed_messages[e] \o <<>> = <<>> \o m_unprocessed_messages[e]
  BY <1>1, StreamTypes, ConcatEmptySeq
<1>6. Vectors(e)' = Vectors(e)
  BY <1>3, <1>4, <1>5 DEF Vectors
<1> QED
  BY <1>2, <1>3, <1>6, MoveQuiet

(* Reading inside a synchronous call moves messages. *)
LEMMA WaitDrainsQuiet ==
    ASSUME IInv, NEW e \in Ends, WaitDrains(e)
    PROVE  Quiet /\ Keeps
<1>1. Peer(e) \in Ends /\ Peer(e) # e /\ Types
  BY PeerFact DEF IInv
<1>2. Drain(e, tasks[e]) /\ UNCHANGED <<sender, open, alive>> /\ handling' = handling
  BY DEF WaitDrains
<1>3. /\ m_unprocessed_messages'[e] = Received(e)
      /\ m_unprocessed_messages'[Peer(e)] = m_unprocessed_messages[Peer(e)]
  BY <1>1 DEF WaitDrains, Types
<1>4. Vectors(e)' = WithReceived(e)
  BY <1>2, <1>3 DEF Vectors, WithReceived
<1> QED
  BY <1>2, <1>3, <1>4, DrainQuiet

(* A message is taken out of the vectors. *)
Takes(e, k) ==
    /\ k \in DOMAIN Pending(e) /\ Pending(e)' = RemoveAt(Pending(e), k)
    /\ Pending(Peer(e))' = Pending(Peer(e))

(* Everything but the vectors of e stays. *)
LEMMA TakesFrame ==
    ASSUME IInv, NEW e \in Ends, UNCHANGED <<sender, wire, open, m_unprocessed_bytes, alive>>,
           handling'[Peer(e)] = handling[Peer(e)],
           m_unprocessed_messages'[Peer(e)] = m_unprocessed_messages[Peer(e)]
    PROVE  /\ Keeps /\ Pending(Peer(e))' = Pending(Peer(e))
           /\ alive[e] => \E x \in Seq(Messages) :
                            Pending(e) = Vectors(e) \o x /\ Pending(e)' = Vectors(e)' \o x
<1> DEFINE p == Peer(e)
<1>1. p \in Ends /\ Types
  BY PeerFact DEF IInv
<1>2. /\ open' = open /\ alive' = alive /\ sending' = sending /\ queue' = queue
      /\ wire' = wire /\ m_unprocessed_bytes' = m_unprocessed_bytes
  BY DEF sender
<1>3. ASSUME NEW x \in Ends PROVE Incoming(x)' = Incoming(x) /\ Aligned(x)'
  <2>1. Incoming(x)' = Incoming(x)
    BY <1>2, IncomingSame
  <2>2. Aligned(x)
    BY DEF IInv
  <2>3. Aligned(x)'
    BY <1>2, <2>2 DEF Aligned, Stream, Bytes, Live
  <2> QED
    BY <2>1, <2>3
<1>4. Pending(p)' = Pending(p)
  BY <1>1, <1>2, <1>3, PendingSame
<1>5. ASSUME alive[e]
      PROVE  \E x \in Seq(Messages) : Pending(e) = Vectors(e) \o x /\ Pending(e)' = Vectors(e)' \o x
  <2>1. Incoming(e)' = Incoming(e) /\ Incoming(e) \in Seq(Messages)
    BY <1>1, <1>3, StreamTypes
  <2>2. PICK x : x = IF open[e] THEN Incoming(e) ELSE <<>>
    OBVIOUS
  <2>3. <<>> \in Seq(Messages)
    OBVIOUS
  <2>4. x \in Seq(Messages)
    BY <2>1, <2>2, <2>3
  <2>5. Pending(e) = Vectors(e) \o x
    BY <1>5, <2>2 DEF Pending, Vectors
  <2>6. Pending(e)' = Vectors(e)' \o x
    BY <1>2, <1>5, <2>1, <2>2 DEF Pending, Vectors
  <2> QED
    BY <2>4, <2>5, <2>6
<1> QED
  BY <1>3, <1>4, <1>5 DEF Keeps

(* A handler takes the first of the messages on their way. *)
LEMMA HandleNextTakes ==
    ASSUME IInv, NEW e \in Ends, HandleNext(e)
    PROVE  Takes(e, 1) /\ Keeps /\ Pending(e)[1] = Head(handling[e])
<1>1. Peer(e) \in Ends /\ Peer(e) # e /\ Types
  BY PeerFact DEF IInv
<1>2. /\ UNCHANGED <<sender, wire, open, m_unprocessed_bytes, alive>> /\ alive[e]
      /\ m_unprocessed_messages' = m_unprocessed_messages
  BY DEF HandleNext, socket, received
<1>3. handling[e] # <<>> /\ handling'[e] = Tail(handling[e]) /\ handling'[Peer(e)] = handling[Peer(e)]
  BY <1>1 DEF HandleNext, Types
<1>4. /\ Keeps /\ Pending(Peer(e))' = Pending(Peer(e))
      /\ \E x \in Seq(Messages) : Pending(e) = Vectors(e) \o x /\ Pending(e)' = Vectors(e)' \o x
  BY <1>2, <1>3, TakesFrame
<1>5. PICK x \in Seq(Messages) : Pending(e) = Vectors(e) \o x /\ Pending(e)' = Vectors(e)' \o x
  BY <1>4
<1>6. PICK h, u : h = handling[e] /\ u = m_unprocessed_messages[e]
  OBVIOUS
<1>7. h \in Seq(Messages) /\ u \in Seq(Messages) /\ h # <<>>
  BY <1>1, <1>3, <1>6, StreamTypes
<1>8. Vectors(e) = h \o u /\ Vectors(e)' = Tail(h) \o u
  BY <1>2, <1>3, <1>6 DEF Vectors
<1>9. h \o u \in Seq(Messages) /\ 1 \in 1 .. Len(h) /\ 1 \in 1 .. Len(h \o u) /\ (h \o u)[1] = Head(h)
  <2>1. Len(h) \in Nat /\ Len(u) \in Nat /\ Len(h \o u) = Len(h) + Len(u) /\ h \o u \in Seq(Messages)
    BY <1>7, ConcatFact
  <2>2. Len(h) > 0 /\ h[1] = Head(h)
    BY <1>7, EmptySeq
  <2>3. 1 \in 1 .. Len(h)
    BY <2>1, <2>2
  <2>4. (h \o u)[1] = h[1]
    BY <1>7, <2>3, ConcatFact
  <2> QED
    BY <2>1, <2>2, <2>3, <2>4
<1>10. RemoveAt(h \o u, 1) = Tail(h) \o u
  <2>1. RemoveAt(h \o u, 1) = RemoveAt(h, 1) \o u
    BY <1>7, <1>9, RemoveLeft
  <2> QED
    BY <1>7, <2>1, RemoveHead
<1> DEFINE v == h \o u
<1>11. /\ v \in Seq(Messages) /\ 1 \in 1 .. Len(v) /\ v[1] = Head(h) /\ RemoveAt(v, 1) = Tail(h) \o u
       /\ Pending(e) = v \o x /\ Pending(e)' = (Tail(h) \o u) \o x
  BY <1>5, <1>8, <1>9, <1>10
<1> HIDE DEF v
<1>12. RemoveAt(v \o x, 1) = RemoveAt(v, 1) \o x
  BY <1>11, RemoveLeft
<1>13. (v \o x)[1] = v[1] /\ 1 \in DOMAIN (v \o x)
  <2>1. v \o x \in Seq(Messages) /\ Len(v \o x) = Len(v) + Len(x) /\ Len(v) \in Nat /\ Len(x) \in Nat
    BY <1>11, ConcatFact
  <2>2. (v \o x)[1] = v[1]
    BY <1>11, ConcatFact
  <2>3. 1 \in 1 .. Len(v \o x)
    BY <1>11, <2>1
  <2> QED
    BY <2>1, <2>2, <2>3, LenProperties
<1>14. Takes(e, 1)
  BY <1>4, <1>11, <1>12, <1>13 DEF Takes
<1>15. Pending(e)[1] = Head(handling[e])
  BY <1>6, <1>11, <1>13
<1> QED
  BY <1>4, <1>14, <1>15

(* wait_for_specific_endpoint_message(): the response it finds. *)
LEMMA ResponseIndexFact ==
    ASSUME Types, NEW e \in Ends, AtMostOne(Of(m_unprocessed_messages[e], "response"))
    PROVE  /\ ResponseIndex(e) = 0 <=> Of(m_unprocessed_messages[e], "response") = {}
           /\ ResponseIndex(e) # 0 => ResponseIndex(e) \in Of(m_unprocessed_messages[e], "response")
<1>1. PICK u : u = m_unprocessed_messages[e]
  OBVIOUS
<1>2. u \in Seq(Messages) /\ DOMAIN u = 1 .. Len(u) /\ Len(u) \in Nat
  BY <1>1, StreamTypes
<1> DEFINE I == {i \in 1 .. Len(u) : IsResponse(u[i])}
<1>3. I = Of(u, "response")
  BY <1>2 DEF Of, IsResponse
<1>4. ResponseIndex(e) = IF I # {} THEN Min(I) ELSE 0
  BY <1>1 DEF ResponseIndex, SelectInSeq
<1>5. I \subseteq 1 .. Len(u)
  OBVIOUS
<1>6. \A i, j \in I : i = j
  BY <1>1, <1>3 DEF AtMostOne
<1> HIDE DEF I
<1>7. ASSUME I # {} PROVE Min(I) \in I
  <2>1. PICK i \in I : TRUE
    BY <1>7
  <2>2. \A y \in I : i <= y
    BY <1>2, <1>5, <1>6
  <2> QED
    BY <2>1, <2>2 DEF Min
<1>8. 0 \notin I
  BY <1>2, <1>5
<1> QED
  BY <1>1, <1>3, <1>4, <1>7, <1>8

(* A caller takes the first response; none is in the vector of a handler   *)
(* that waits.                                                             *)
LEMMA WaitTakesTakes ==
    ASSUME IInv, NEW e \in Ends, WaitTakes(e)
    PROVE  /\ Keeps
           /\ \E k : /\ Takes(e, k) /\ IsResponse(Pending(e)[k])
                     /\ \A j \in 1 .. k - 1 : ~IsResponse(Pending(e)[j])
<1>1. Peer(e) \in Ends /\ Peer(e) # e /\ Types /\ Found(e) /\ Called(e)
  BY PeerFact DEF IInv
<1>2. /\ UNCHANGED <<sender, wire, open, m_unprocessed_bytes, alive>> /\ alive[e]
      /\ handling' = handling /\ ResponseIndex(e) # 0
  BY DEF WaitTakes, socket
<1>3. /\ m_unprocessed_messages'[e] = RemoveAt(m_unprocessed_messages[e], ResponseIndex(e))
      /\ m_unprocessed_messages'[Peer(e)] = m_unprocessed_messages[Peer(e)]
  BY <1>1 DEF WaitTakes, Types
<1>4. /\ Keeps /\ Pending(Peer(e))' = Pending(Peer(e))
      /\ \E x \in Seq(Messages) : Pending(e) = Vectors(e) \o x /\ Pending(e)' = Vectors(e)' \o x
  BY <1>2, <1>3, TakesFrame
<1>5. PICK x \in Seq(Messages) : Pending(e) = Vectors(e) \o x /\ Pending(e)' = Vectors(e)' \o x
  BY <1>4
<1>6. PICK h, u, i : h = handling[e] /\ u = m_unprocessed_messages[e] /\ i = ResponseIndex(e)
  OBVIOUS
<1>7. h \in Seq(Messages) /\ u \in Seq(Messages)
  BY <1>1, <1>6, StreamTypes
<1>8. Vectors(e) = h \o u /\ Vectors(e)' = h \o RemoveAt(u, i)
  BY <1>2, <1>3, <1>6 DEF Vectors
<1>9. i \in 1 .. Len(u) /\ IsResponse(u[i])
  <2>1. i \in Of(u, "response")
    BY <1>1, <1>2, <1>6, ResponseIndexFact DEF Found
  <2> QED
    BY <1>7, <2>1 DEF Of, IsResponse
<1> DEFINE v == h \o u
           k == Len(h) + i
           P == v \o x
<1>10. /\ v \in Seq(Messages) /\ Len(v) = Len(h) + Len(u) /\ Len(h) \in Nat /\ Len(u) \in Nat
       /\ v[k] = u[i]
  BY <1>7, <1>9, ConcatFact
<1>11. RemoveAt(v, k) = h \o RemoveAt(u, i)
  BY <1>7, <1>9, RemoveRight
<1>12. k \in 1 .. Len(v) /\ k \in Nat
  BY <1>9, <1>10
<1>13. Pending(e) = P /\ Pending(e)' = RemoveAt(v, k) \o x
  BY <1>5, <1>8, <1>11
<1> HIDE DEF v, k
<1>14. RemoveAt(P, k) = RemoveAt(v, k) \o x
  BY <1>10, <1>12, RemoveLeft
<1>15. /\ P \in Seq(Messages) /\ Len(P) = Len(v) + Len(x) /\ Len(x) \in Nat
       /\ P[k] = v[k]
  <2>1. P \in Seq(Messages)
    BY <1>10, ConcatFact
  <2>2. Len(P) = Len(v) + Len(x) /\ Len(x) \in Nat
    BY <1>10, ConcatFact
  <2>3. \A n \in 1 .. Len(v) : P[n] = v[n]
    BY <1>10, ConcatFact
  <2> QED
    BY <1>12, <2>1, <2>2, <2>3
<1> HIDE DEF P
<1>16. k \in DOMAIN P /\ DOMAIN P = 1 .. Len(P)
  BY <1>10, <1>12, <1>15
<1>17. IsResponse(P[k])
  BY <1>9, <1>10, <1>15
<1>18. ASSUME NEW j \in 1 .. k - 1 PROVE ~IsResponse(P[j])
  <2>1. j \in DOMAIN P /\ j # k
    BY <1>12, <1>16
  <2>2. AtMostOne(Of(P, "response"))
    BY <1>1, <1>2, <1>13 DEF Called, Answering
  <2>3. k \in Of(P, "response")
    BY <1>16, <1>17 DEF Of, IsResponse
  <2> QED
    BY <2>1, <2>2, <2>3 DEF Of, AtMostOne, IsResponse
<1>19. Takes(e, k)
  BY <1>4, <1>13, <1>14, <1>16 DEF Takes
<1> QED
  BY <1>4, <1>13, <1>17, <1>18, <1>19

(* A message is posted. *)
LEMMA Posted ==
    ASSUME IInv, NEW e \in Ends, NEW m \in Messages, alive[e], open[e],
           UNCHANGED <<sending, wire, open, received, handling, alive>>,
           queue' = [queue EXCEPT ![e] = Append(@, m)]
    PROVE  /\ Keeps /\ Pending(e)' = Pending(e)
           /\ Live(Peer(e)) => Pending(Peer(e))' = Append(Pending(Peer(e)), m)
           /\ ~Live(Peer(e)) => Pending(Peer(e))' = Pending(Peer(e))
<1> DEFINE p == Peer(e)
<1>1. p \in Ends /\ p # e /\ Peer(p) = e /\ Types
  BY PeerFact DEF IInv
<1>2. /\ handling' = handling /\ m_unprocessed_messages' = m_unprocessed_messages
      /\ m_unprocessed_bytes' = m_unprocessed_bytes /\ wire' = wire
      /\ open' = open /\ alive' = alive /\ sending' = sending
  BY DEF received
<1>3. queue'[p] = queue[p] /\ queue'[e] = Append(queue[e], m)
  BY <1>1 DEF Types
<1>4. Keeps
  <2> SUFFICES ASSUME NEW x \in Ends PROVE Aligned(x)'
    BY DEF Keeps
  <2>1. Aligned(x)
    BY DEF IInv
  <2> QED
    BY <1>2, <2>1 DEF Aligned, Stream, Bytes, Live
<1>5. Pending(e)' = Pending(e)
  <2>1. Incoming(e)' = Incoming(e)
    BY <1>2, <1>3, IncomingSame
  <2> QED
    BY <1>2, <2>1, PendingSame
<1>6. ~Live(p) => Pending(p)' = Pending(p)
  BY <1>1, <1>2, PendingSame
<1>7. ASSUME Live(p) PROVE Pending(p)' = Append(Pending(p), m)
  <2>1. PICK w, q, v : /\ w = Whole(Bytes(p) \o sending[e]) /\ q = queue[e] /\ v = Vectors(p)
    OBVIOUS
  <2>2. /\ w \in Seq(Messages) /\ q \in Seq(Messages) /\ v \in Seq(Messages)
    <3>1. /\ Bytes(p) \in Seq(Part) /\ sending[e] \in Seq(Part) /\ queue[e] \in Seq(Messages)
          /\ handling[p] \in Seq(Messages) /\ m_unprocessed_messages[p] \in Seq(Messages)
      BY <1>1, StreamTypes
    <3>2. Bytes(p) \o sending[e] \in Seq(Part)
      BY <3>1, ConcatFact
    <3>3. w \in Seq(Messages)
      BY <2>1, <3>2, WholeType
    <3>4. Vectors(p) \in Seq(Messages)
      BY <3>1, ConcatFact DEF Vectors
    <3> QED
      BY <2>1, <3>1, <3>3, <3>4
  <2>3. Live(e) /\ Live(e)' /\ open[p] /\ alive[p]
    BY <1>2, <1>7 DEF Live
  <2>4. Incoming(p) = w \o q
    BY <1>1, <2>1, <2>3 DEF Incoming
  <2>5. Incoming(p)' = w \o Append(q, m)
    BY <1>1, <1>2, <1>3, <2>1, <2>3 DEF Incoming, Bytes
  <2>6. Pending(p) = v \o (w \o q) /\ Pending(p)' = v \o (w \o Append(q, m))
    BY <1>2, <2>1, <2>3, <2>4, <2>5 DEF Pending, Vectors
  <2>7. Append(q, m) = q \o <<m>> /\ <<m>> \in Seq(Messages)
    BY <2>2, AppendFact
  <2>8. w \o q \in Seq(Messages) /\ v \o (w \o q) \in Seq(Messages)
    <3>1. w \o q \in Seq(Messages)
      BY <2>2, ConcatFact
    <3>2. v \o (w \o q) \in Seq(Messages)
      BY <2>2, <3>1, ConcatFact
    <3> QED
      BY <3>1, <3>2
  <2>9. w \o (q \o <<m>>) = (w \o q) \o <<m>>
    BY <2>2, <2>7, AssocMessages
  <2>10. v \o ((w \o q) \o <<m>>) = (v \o (w \o q)) \o <<m>>
    BY <2>2, <2>7, <2>8, AssocMessages
  <2>11. Append(v \o (w \o q), m) = (v \o (w \o q)) \o <<m>>
    BY <2>8, AppendFact
  <2> QED
    BY <2>6, <2>7, <2>9, <2>10, <2>11
<1> QED
  BY <1>4, <1>5, <1>6, <1>7

(* A failure: only a tail of the messages on their way is lost. *)
LEMMA Cut ==
    ASSUME IInv, NEW e \in Ends, handling' = handling, m_unprocessed_messages' = m_unprocessed_messages,
           m_unprocessed_bytes' = m_unprocessed_bytes,
           wire'[Peer(e)] = wire[Peer(e)], alive'[Peer(e)] = alive[Peer(e)], open'[Peer(e)] = open[Peer(e)],
           ~Live(e)', alive'[e] = alive[e] \/ ~alive'[e]
    PROVE  /\ Keeps
           /\ \A x \in Ends : Pending(x)' \in Seq(Messages) /\ Starts(Pending(x)', Pending(x))
<1> DEFINE p == Peer(e)
<1>1. p \in Ends /\ p # e /\ Peer(p) = e /\ Types /\ \A x \in Ends : x = e \/ x = p
  BY PeerFact DEF IInv
<1>2. Keeps
  BY <1>1 DEF Keeps, Aligned
<1>3. /\ Pending(e) \in Seq(Messages) /\ Pending(p) \in Seq(Messages) /\ Bytes(p) \in Seq(Part)
      /\ sending[e] \in Seq(Part) /\ queue[e] \in Seq(Messages)
      /\ Incoming(e) \in Seq(Messages) /\ Incoming(p) \in Seq(Messages)
  BY <1>1, StreamTypes
<1>4. Vectors(e) \in Seq(Messages) /\ Vectors(p) \in Seq(Messages)
  <2>1. /\ handling[e] \in Seq(Messages) /\ m_unprocessed_messages[e] \in Seq(Messages)
        /\ handling[p] \in Seq(Messages) /\ m_unprocessed_messages[p] \in Seq(Messages)
    BY <1>1, StreamTypes
  <2> QED
    BY <2>1, ConcatFact DEF Vectors
<1>5. <<>> \in Seq(Messages)
  OBVIOUS
<1>6. Pending(e)' \in Seq(Messages) /\ Starts(Pending(e)', Pending(e))
  <2>1. CASE ~alive'[e]
    <3>1. Pending(e)' = <<>>
      BY <2>1 DEF Pending
    <3> QED
      BY <1>3, <1>5, <3>1, StartsSame
  <2>2. CASE alive'[e]
    <3>1. alive[e] /\ ~open'[e]
      BY <2>2 DEF Live
    <3>2. Pending(e)' = Vectors(e) \o <<>>
      BY <2>2, <3>1 DEF Pending, Vectors
    <3>3. PICK x : x = IF open[e] THEN Incoming(e) ELSE <<>>
      OBVIOUS
    <3>4. x \in Seq(Messages)
      BY <1>3, <1>5, <3>3
    <3>5. Pending(e) = Vectors(e) \o x
      BY <3>1, <3>3 DEF Pending, Vectors
    <3>6. Starts(<<>>, x)
      BY <3>4, StartsSame
    <3>7. Starts(Vectors(e) \o <<>>, Vectors(e) \o x)
      BY <1>4, <1>5, <3>4, <3>6, StartsConcat
    <3>8. Vectors(e) \o <<>> \in Seq(Messages)
      BY <1>4, <1>5, ConcatFact
    <3> QED
      BY <3>2, <3>5, <3>7, <3>8
  <2> QED
    BY <2>1, <2>2
<1>7. Pending(p)' \in Seq(Messages) /\ Starts(Pending(p)', Pending(p))
  <2>1. CASE ~alive[p]
    <3>1. Pending(p)' = <<>>
      BY <2>1 DEF Pending
    <3> QED
      BY <1>3, <1>5, <3>1, StartsSame
  <2>2. CASE alive[p] /\ ~open[p]
    <3>1. Pending(p)' = Pending(p)
      BY <2>2 DEF Pending
    <3> QED
      BY <1>3, <3>1, StartsSame
  <2>3. CASE alive[p] /\ open[p]
    <3>1. Incoming(p)' = Whole(Bytes(p))
      BY <1>1 DEF Incoming, Bytes
    <3>2. Pending(p) = Vectors(p) \o Incoming(p) /\ Pending(p)' = Vectors(p) \o Whole(Bytes(p))
      BY <2>3, <3>1 DEF Pending, Vectors
    <3>3. Whole(Bytes(p)) \in Seq(Messages)
      BY <1>3, WholeType
    <3>4. Starts(Whole(Bytes(p)), Incoming(p))
      <4>1. CASE Live(e)
        <5>1. Incoming(p) = Whole(Bytes(p) \o sending[e]) \o queue[e]
          BY <1>1, <4>1 DEF Incoming
        <5>2. Starts(Whole(Bytes(p)), Whole(Bytes(p) \o sending[e]))
          BY <1>3, WholePrefix DEF Starts
        <5>3. Bytes(p) \o sending[e] \in Seq(Part)
          BY <1>3, ConcatFact
        <5>4. Whole(Bytes(p) \o sending[e]) \in Seq(Messages)
          BY <5>3, WholeType
        <5> QED
          BY <1>3, <3>3, <5>1, <5>2, <5>4, StartsConcat
      <4>2. CASE ~Live(e)
        BY <1>1, <3>3, <4>2, StartsSame DEF Incoming
      <4> QED
        BY <4>1, <4>2
    <3>5. Starts(Vectors(p) \o Whole(Bytes(p)), Vectors(p) \o Incoming(p))
      BY <1>3, <1>4, <3>3, <3>4, StartsConcat
    <3>6. Vectors(p) \o Whole(Bytes(p)) \in Seq(Messages)
      BY <1>4, <3>3, ConcatFact
    <3> QED
      BY <3>2, <3>5, <3>6
  <2> QED
    BY <2>1, <2>2, <2>3
<1> QED
  BY <1>1, <1>2, <1>6, <1>7

-----------------------------------------------------------------------------
(***************************************************************************)
(* Types.                                                                  *)
(***************************************************************************)
Tasks == {"hook", "handle", "shutdown"}
Flags == open \in [Ends -> BOOLEAN] /\ enabled \in [Ends -> BOOLEAN] /\ alive \in [Ends -> BOOLEAN]
Counts == posted \in [Ends -> 0 .. MaxPosts] /\ delivered \in [Ends -> Nat] /\ died \in [Ends -> 0 .. MaxDeaths]
Places ==
    /\ place \in [Ends -> {"loop", "handling", "waiting"}]
    /\ \A e \in Ends : place[e] = "waiting" => e \in SyncEnds
Stashes == \A e \in Ends : Len(m_unprocessed_bytes[e]) < MessageParts
AllTypes == Types /\ Flags /\ Counts /\ Places /\ Stashes

(* TypeOK in parts that can be shown one by one. *)
LEMMA TypeParts == TypeOK /\ Types <=> AllTypes
<1>1. ASSUME TypeOK, Types PROVE AllTypes
  BY <1>1 DEF TypeOK, AllTypes, Flags, Counts, Places, Stashes
<1>2. ASSUME AllTypes PROVE TypeOK /\ Types
  <2>1. Types /\ Flags /\ Counts /\ Places /\ Stashes
    BY <1>2 DEF AllTypes
  <2>2. MaxPosts \in Nat
    BY ConnectionAssumption
  <2>3. owed \in [Ends -> Nat]
    BY <2>1, <2>2 DEF Types
  <2>4. ASSUME NEW e \in Ends
        PROVE  /\ queue[e] \in Seq(Messages) /\ m_unprocessed_messages[e] \in Seq(Messages)
               /\ handling[e] \in Seq(Messages) /\ tasks[e] \in Seq({"hook", "handle", "shutdown"})
    BY <2>1 DEF Types
  <2>5. TypeOK
    BY <2>1, <2>3, <2>4 DEF TypeOK, Flags, Counts, Places, Stashes
  <2> QED
    BY <2>1, <2>5
<1> QED
  BY <1>1, <1>2

(* A deferred call is one task or none. *)
LEMMA DeferredType ==
    ASSUME NEW e, NEW task \in Tasks
    PROVE  Deferred(e, task) \in Seq(Tasks)
<1>1. Deferred(e, task) = <<task>> \/ Deferred(e, task) = <<>>
  BY DEF Deferred
<1>2. <<task>> \in Seq(Tasks) /\ <<>> \in Seq(Tasks)
  OBVIOUS
<1> QED
  BY <1>1, <1>2

(* What drain_messages_from_peer() leaves is of its type. *)
LEMMA DrainTypes ==
    ASSUME AllTypes, NEW e \in Ends, NEW rest \in Seq(Tasks), Drain(e, rest)
    PROVE  /\ wire' \in [Ends -> Seq(Part)] /\ m_unprocessed_bytes' \in [Ends -> Seq(Part)]
           /\ Stashes' /\ enabled' \in [Ends -> BOOLEAN] /\ tasks' \in [Ends -> Seq(Tasks)]
<1>1. Types /\ Flags /\ Stashes
  BY DEF AllTypes
<1>2. wire' \in [Ends -> Seq(Part)]
  <2>1. (IF open[e] THEN <<>> ELSE wire[e]) \in Seq(Part)
    <3>1. <<>> \in Seq(Part) /\ wire[e] \in Seq(Part)
      BY <1>1 DEF Types
    <3> QED
      BY <3>1
  <2> QED
    BY <1>1, <2>1 DEF Drain, Types
<1>3. Rest(Bytes(e)) \in Seq(Part) /\ Len(Rest(Bytes(e))) < MessageParts
  <2>1. Bytes(e) \in Seq(Part)
    BY <1>1, StreamTypes
  <2> QED
    BY <2>1, DrainAll
<1>4. m_unprocessed_bytes' = [m_unprocessed_bytes EXCEPT ![e] = Rest(Bytes(e))]
  BY DEF Drain, Rest
<1>5. m_unprocessed_bytes' \in [Ends -> Seq(Part)]
  BY <1>1, <1>3, <1>4 DEF Types
<1>6. Stashes'
  BY <1>1, <1>3, <1>4 DEF Types, Stashes
<1>7. enabled' \in [Ends -> BOOLEAN]
  <2>1. enabled' = [enabled EXCEPT ![e] = enabled[e] /\ ~EOFSeen(e)]
    BY DEF Drain
  <2>2. (enabled[e] /\ ~EOFSeen(e)) \in BOOLEAN
    OBVIOUS
  <2> QED
    BY <1>1, <2>1, <2>2 DEF Flags
<1>8. tasks' \in [Ends -> Seq(Tasks)]
  <2>1. "shutdown" \in Tasks /\ "handle" \in Tasks /\ <<>> \in Seq(Tasks)
    BY DEF Tasks
  <2>2. ShutdownTasks(e) \in Seq(Tasks)
    BY <2>1, DeferredType DEF ShutdownTasks
  <2>3. HandleTasks(e) \in Seq(Tasks)
    BY <2>1, DeferredType DEF HandleTasks
  <2>4. rest \o ShutdownTasks(e) \in Seq(Tasks)
    BY <2>2, ConcatFact
  <2>5. rest \o ShutdownTasks(e) \o HandleTasks(e) \in Seq(Tasks)
    BY <2>3, <2>4, ConcatFact
  <2>6. tasks' = [tasks EXCEPT ![e] = rest \o ShutdownTasks(e) \o HandleTasks(e)]
    BY DEF Drain
  <2> QED
    BY <1>1, <2>5, <2>6 DEF Types, Tasks
<1> QED
  BY <1>2, <1>5, <1>6, <1>7, <1>8

(* Every action keeps the types. *)
LEMMA SendTakeTypes ==
    ASSUME IInv, NEW e \in Ends, SendTake(e)
    PROVE  AllTypes'
<1>1. AllTypes /\ Types /\ Flags /\ Counts /\ Places /\ Stashes
  BY TypeParts DEF IInv, AllTypes
<1>2. UNCHANGED <<wire, open, enabled, m_unprocessed_bytes, m_unprocessed_messages, tasks, place, handling, owed, alive, posted, delivered, died>>
  BY DEF SendTake, sender, socket, received, loop, history
<1>3. sending' \in [Ends -> Seq(Part)]
  <2>1. Head(queue[e]) \in Messages
    BY <1>1 DEF SendTake, Types
  <2>2. Parts(Head(queue[e])) \in Seq(Part)
    BY <2>1, PartsFact
  <2> QED
    BY <1>1, <2>2 DEF SendTake, Types
<1>4. queue' \in [Ends -> Seq(Messages)]
  BY <1>1 DEF SendTake, Types, Tasks
<1>5. Types'
  BY <1>1, <1>2, <1>3, <1>4 DEF Types, Tasks
<1>6. Flags'
  BY <1>1, <1>2, <1>3, <1>4 DEF Flags
<1>7. Counts'
  BY <1>1, <1>2, <1>3, <1>4 DEF Counts
<1>8. Places'
  BY <1>1, <1>2, <1>3, <1>4 DEF Places
<1>9. Stashes'
  BY <1>1, <1>2, <1>3, <1>4 DEF Stashes
<1> QED
  BY <1>5, <1>6, <1>7, <1>8, <1>9 DEF AllTypes

(* SendPart keeps the types. *)
LEMMA SendPartTypes ==
    ASSUME IInv, NEW e \in Ends, SendPart(e)
    PROVE  AllTypes'
<1>1. AllTypes /\ Types /\ Flags /\ Counts /\ Places /\ Stashes
  BY TypeParts DEF IInv, AllTypes
<1>2. UNCHANGED <<queue, open, enabled, m_unprocessed_bytes, m_unprocessed_messages, tasks, place, handling, owed, alive, posted, delivered, died>>
  BY DEF SendPart, sender, socket, received, loop, history
<1>3. wire' \in [Ends -> Seq(Part)]
  <2>1. Peer(e) \in Ends
    BY PeerFact
  <2>2. Head(sending[e]) \in Part
    BY <1>1 DEF SendPart, Types
  <2>3. Append(wire[Peer(e)], Head(sending[e])) \in Seq(Part)
    BY <1>1, <2>1, <2>2 DEF Types
  <2> QED
    BY <1>1, <2>1, <2>3 DEF SendPart, Types
<1>4. sending' \in [Ends -> Seq(Part)]
  BY <1>1 DEF SendPart, Types, Tasks
<1>5. Types'
  BY <1>1, <1>2, <1>3, <1>4 DEF Types, Tasks
<1>6. Flags'
  BY <1>1, <1>2, <1>3, <1>4 DEF Flags
<1>7. Counts'
  BY <1>1, <1>2, <1>3, <1>4 DEF Counts
<1>8. Places'
  BY <1>1, <1>2, <1>3, <1>4 DEF Places
<1>9. Stashes'
  BY <1>1, <1>2, <1>3, <1>4 DEF Stashes
<1> QED
  BY <1>5, <1>6, <1>7, <1>8, <1>9 DEF AllTypes

(* SendFails keeps the types. *)
LEMMA SendFailsTypes ==
    ASSUME IInv, NEW e \in Ends, SendFails(e)
    PROVE  AllTypes'
<1>1. AllTypes /\ Types /\ Flags /\ Counts /\ Places /\ Stashes
  BY TypeParts DEF IInv, AllTypes
<1>2. UNCHANGED <<queue, wire, open, enabled, m_unprocessed_bytes, m_unprocessed_messages, tasks, place, handling, owed, alive, posted, delivered, died>>
  BY DEF SendFails, sender, socket, received, loop, history
<1>3. sending' \in [Ends -> Seq(Part)]
  BY <1>1 DEF SendFails, Types, Tasks
<1>4. Types'
  BY <1>1, <1>2, <1>3 DEF Types, Tasks
<1>5. Flags'
  BY <1>1, <1>2, <1>3 DEF Flags
<1>6. Counts'
  BY <1>1, <1>2, <1>3 DEF Counts
<1>7. Places'
  BY <1>1, <1>2, <1>3 DEF Places
<1>8. Stashes'
  BY <1>1, <1>2, <1>3 DEF Stashes
<1> QED
  BY <1>4, <1>5, <1>6, <1>7, <1>8 DEF AllTypes

(* Poll keeps the types. *)
LEMMA PollTypes ==
    ASSUME IInv, NEW e \in Ends, Poll(e)
    PROVE  AllTypes'
<1>1. AllTypes /\ Types /\ Flags /\ Counts /\ Places /\ Stashes
  BY TypeParts DEF IInv, AllTypes
<1>2. UNCHANGED <<queue, sending, wire, open, enabled, m_unprocessed_bytes, m_unprocessed_messages, place, handling, owed, alive, posted, delivered, died>>
  BY DEF Poll, sender, socket, received, loop, history
<1>3. tasks' \in [Ends -> Seq(Tasks)]
  BY <1>1 DEF Poll, Types, Tasks
<1>4. Types'
  BY <1>1, <1>2, <1>3 DEF Types, Tasks
<1>5. Flags'
  BY <1>1, <1>2, <1>3 DEF Flags
<1>6. Counts'
  BY <1>1, <1>2, <1>3 DEF Counts
<1>7. Places'
  BY <1>1, <1>2, <1>3 DEF Places
<1>8. Stashes'
  BY <1>1, <1>2, <1>3 DEF Stashes
<1> QED
  BY <1>4, <1>5, <1>6, <1>7, <1>8 DEF AllTypes

(* ReadHookServer keeps the types. *)
LEMMA ReadHookServerTypes ==
    ASSUME IInv, NEW e \in Ends, ReadHookServer(e)
    PROVE  AllTypes'
<1>1. AllTypes /\ Types /\ Flags /\ Counts /\ Places /\ Stashes
  BY TypeParts DEF IInv, AllTypes
<1>2. UNCHANGED <<queue, sending, open, place, handling, owed, alive, posted, delivered, died>>
  BY DEF ReadHookServer, sender, socket, received, loop, history
<1>3. Drain(e, Tail(tasks[e])) /\ Tail(tasks[e]) \in Seq(Tasks)
  BY <1>1 DEF ReadHookServer, Types, Tasks, Runs
<1>4. /\ wire' \in [Ends -> Seq(Part)] /\ m_unprocessed_bytes' \in [Ends -> Seq(Part)]
      /\ Stashes' /\ enabled' \in [Ends -> BOOLEAN] /\ tasks' \in [Ends -> Seq(Tasks)]
  BY <1>1, <1>3, DrainTypes
<1>5. m_unprocessed_messages' \in [Ends -> Seq(Messages)]
  <2>1. Received(e) \in Seq(Messages)
    BY <1>1, ReceivedType
  <2> QED
    BY <1>1, <2>1 DEF ReadHookServer, Types
<1>6. Types'
  BY <1>1, <1>2, <1>4, <1>5 DEF Types, Tasks
<1>7. Flags'
  BY <1>1, <1>2, <1>4, <1>5 DEF Flags
<1>8. Counts'
  BY <1>1, <1>2, <1>4, <1>5 DEF Counts
<1>9. Places'
  BY <1>1, <1>2, <1>4, <1>5 DEF Places
<1>10. Stashes'
  BY <1>1, <1>2, <1>4, <1>5 DEF Stashes
<1> QED
  BY <1>6, <1>7, <1>8, <1>9, <1>10 DEF AllTypes

(* ReadHookClient keeps the types. *)
LEMMA ReadHookClientTypes ==
    ASSUME IInv, NEW e \in Ends, ReadHookClient(e)
    PROVE  AllTypes'
<1>1. AllTypes /\ Types /\ Flags /\ Counts /\ Places /\ Stashes
  BY TypeParts DEF IInv, AllTypes
<1>2. UNCHANGED <<queue, sending, open, owed, alive, posted, delivered, died>>
  BY DEF ReadHookClient, sender, socket, received, loop, history
<1>3. Drain(e, Tail(tasks[e])) /\ Tail(tasks[e]) \in Seq(Tasks)
  BY <1>1 DEF ReadHookClient, Types, Tasks, Runs
<1>4. /\ wire' \in [Ends -> Seq(Part)] /\ m_unprocessed_bytes' \in [Ends -> Seq(Part)]
      /\ Stashes' /\ enabled' \in [Ends -> BOOLEAN] /\ tasks' \in [Ends -> Seq(Tasks)]
  BY <1>1, <1>3, DrainTypes
<1>5. handling' \in [Ends -> Seq(Messages)]
  <2>1. Received(e) \in Seq(Messages)
    BY <1>1, ReceivedType
  <2> QED
    BY <1>1, <2>1 DEF ReadHookClient, Types
<1>6. m_unprocessed_messages' \in [Ends -> Seq(Messages)]
  BY <1>1 DEF ReadHookClient, Types, Tasks
<1>7. place' \in [Ends -> {"loop", "handling", "waiting"}]
  BY <1>1 DEF ReadHookClient, Places
<1>8. Types'
  BY <1>1, <1>2, <1>4, <1>5, <1>6, <1>7 DEF Types, Tasks
<1>9. Flags'
  BY <1>1, <1>2, <1>4, <1>5, <1>6, <1>7 DEF Flags
<1>10. Counts'
  BY <1>1, <1>2, <1>4, <1>5, <1>6, <1>7 DEF Counts
<1>11. Places'
  <2>1. \A x \in Ends : x # e => place'[x] = place[x]
    BY <1>1 DEF Places, ReadHookClient
  <2>2. place'[e] = "waiting" => e \in SyncEnds
    BY <1>1 DEF Places, ReadHookClient
  <2> QED
    BY <1>1, <1>2, <1>4, <1>5, <1>6, <1>7, <2>1, <2>2 DEF Places
<1>12. Stashes'
  BY <1>1, <1>2, <1>4, <1>5, <1>6, <1>7 DEF Stashes
<1> QED
  BY <1>8, <1>9, <1>10, <1>11, <1>12 DEF AllTypes

(* handle_messages() keeps the types. *)
LEMMA handle_messagesTypes ==
    ASSUME IInv, NEW e \in Ends, handle_messages(e)
    PROVE  AllTypes'
<1>1. AllTypes /\ Types /\ Flags /\ Counts /\ Places /\ Stashes
  BY TypeParts DEF IInv, AllTypes
<1>2. UNCHANGED <<queue, sending, wire, open, enabled, m_unprocessed_bytes, owed, alive, posted, delivered, died>>
  BY DEF handle_messages, sender, socket, received, loop, history
<1>3. tasks' \in [Ends -> Seq(Tasks)]
  BY <1>1 DEF handle_messages, Types, Tasks, Runs
<1>4. handling' \in [Ends -> Seq(Messages)]
  BY <1>1 DEF handle_messages, Types, Tasks
<1>5. m_unprocessed_messages' \in [Ends -> Seq(Messages)]
  BY <1>1 DEF handle_messages, Types, Tasks
<1>6. place' \in [Ends -> {"loop", "handling", "waiting"}]
  BY <1>1 DEF handle_messages, Places
<1>7. Types'
  BY <1>1, <1>2, <1>3, <1>4, <1>5, <1>6 DEF Types, Tasks
<1>8. Flags'
  BY <1>1, <1>2, <1>3, <1>4, <1>5, <1>6 DEF Flags
<1>9. Counts'
  BY <1>1, <1>2, <1>3, <1>4, <1>5, <1>6 DEF Counts
<1>10. Places'
  <2>1. \A x \in Ends : x # e => place'[x] = place[x]
    BY <1>1 DEF Places, handle_messages
  <2>2. place'[e] = "waiting" => e \in SyncEnds
    BY <1>1 DEF Places, handle_messages
  <2> QED
    BY <1>1, <1>2, <1>3, <1>4, <1>5, <1>6, <2>1, <2>2 DEF Places
<1>11. Stashes'
  BY <1>1, <1>2, <1>3, <1>4, <1>5, <1>6 DEF Stashes
<1> QED
  BY <1>7, <1>8, <1>9, <1>10, <1>11 DEF AllTypes

(* shutdown() keeps the types. *)
LEMMA shutdownTypes ==
    ASSUME IInv, NEW e \in Ends, shutdown(e)
    PROVE  AllTypes'
<1>1. AllTypes /\ Types /\ Flags /\ Counts /\ Places /\ Stashes
  BY TypeParts DEF IInv, AllTypes
<1>2. UNCHANGED <<queue, sending, m_unprocessed_bytes, m_unprocessed_messages, place, handling, owed, alive, posted, delivered>>
  BY DEF shutdown, sender, socket, received, loop, history
<1>3. tasks' \in [Ends -> Seq(Tasks)]
  BY <1>1 DEF shutdown, Types, Tasks, Runs
<1>4. open' \in [Ends -> BOOLEAN]
  BY <1>1 DEF shutdown, Flags
<1>5. enabled' \in [Ends -> BOOLEAN]
  BY <1>1 DEF shutdown, Flags
<1>6. wire' \in [Ends -> Seq(Part)]
  BY <1>1 DEF shutdown, Types, Tasks
<1>7. died' \in [Ends -> 0 .. MaxDeaths]
  BY <1>1 DEF shutdown, Counts, MaxDeaths
<1>8. Types'
  BY <1>1, <1>2, <1>3, <1>4, <1>5, <1>6, <1>7 DEF Types, Tasks
<1>9. Flags'
  BY <1>1, <1>2, <1>3, <1>4, <1>5, <1>6, <1>7 DEF Flags
<1>10. Counts'
  BY <1>1, <1>2, <1>3, <1>4, <1>5, <1>6, <1>7 DEF Counts
<1>11. Places'
  BY <1>1, <1>2, <1>3, <1>4, <1>5, <1>6, <1>7 DEF Places
<1>12. Stashes'
  BY <1>1, <1>2, <1>3, <1>4, <1>5, <1>6, <1>7 DEF Stashes
<1> QED
  BY <1>8, <1>9, <1>10, <1>11, <1>12 DEF AllTypes

(* HandleNext keeps the types. *)
LEMMA HandleNextTypes ==
    ASSUME IInv, NEW e \in Ends, HandleNext(e)
    PROVE  AllTypes'
<1>1. AllTypes /\ Types /\ Flags /\ Counts /\ Places /\ Stashes
  BY TypeParts DEF IInv, AllTypes
<1>2. UNCHANGED <<queue, sending, wire, open, enabled, m_unprocessed_bytes, m_unprocessed_messages, tasks, place, alive, posted, died>>
  BY DEF HandleNext, sender, socket, received, loop, history
<1>3. handling' \in [Ends -> Seq(Messages)]
  BY <1>1 DEF HandleNext, Types, Tasks
<1>4. owed' \in [Ends -> 0 .. MaxPosts]
  <2>1. MaxPosts \in Nat
    BY ConnectionAssumption
  <2>2. Head(handling[e]) \in Messages
    BY <1>1 DEF HandleNext, Types
  <2>3. Head(handling[e]).id \in 1 .. MaxPosts
    BY <2>2 DEF Messages
  <2> QED
    BY <1>1, <2>1, <2>3 DEF HandleNext, Types
<1>5. delivered' \in [Ends -> Nat]
  BY <1>1 DEF HandleNext, Counts
<1>6. Types'
  BY <1>1, <1>2, <1>3, <1>4, <1>5 DEF Types, Tasks
<1>7. Flags'
  BY <1>1, <1>2, <1>3, <1>4, <1>5 DEF Flags
<1>8. Counts'
  BY <1>1, <1>2, <1>3, <1>4, <1>5 DEF Counts
<1>9. Places'
  BY <1>1, <1>2, <1>3, <1>4, <1>5 DEF Places
<1>10. Stashes'
  BY <1>1, <1>2, <1>3, <1>4, <1>5 DEF Stashes
<1> QED
  BY <1>6, <1>7, <1>8, <1>9, <1>10 DEF AllTypes

(* Respond keeps the types. *)
LEMMA RespondTypes ==
    ASSUME IInv, NEW e \in Ends, Respond(e)
    PROVE  AllTypes'
<1>1. AllTypes /\ Types /\ Flags /\ Counts /\ Places /\ Stashes
  BY TypeParts DEF IInv, AllTypes
<1>2. UNCHANGED <<sending, wire, open, enabled, m_unprocessed_bytes, m_unprocessed_messages, tasks, place, handling, alive, posted, delivered, died>>
  BY DEF Respond, sender, socket, received, loop, history
<1>3. owed' \in [Ends -> 0 .. MaxPosts]
  <2>1. MaxPosts \in Nat
    BY ConnectionAssumption
  <2> QED
    BY <1>1, <2>1 DEF Respond, Types
<1>4. queue' \in [Ends -> Seq(Messages)]
  <2>1. [kind |-> "response", id |-> owed[e]] \in Messages
    <3>1. owed[e] \in 1 .. MaxPosts
      BY <1>1, ConnectionAssumption DEF Respond, Types
    <3> QED
      BY <3>1 DEF Messages
  <2>2. Append(queue[e], [kind |-> "response", id |-> owed[e]]) \in Seq(Messages)
    BY <1>1, <2>1 DEF Types
  <2> QED
    BY <1>1, <2>2 DEF Respond, Types
<1>5. Types'
  BY <1>1, <1>2, <1>3, <1>4 DEF Types, Tasks
<1>6. Flags'
  BY <1>1, <1>2, <1>3, <1>4 DEF Flags
<1>7. Counts'
  BY <1>1, <1>2, <1>3, <1>4 DEF Counts
<1>8. Places'
  BY <1>1, <1>2, <1>3, <1>4 DEF Places
<1>9. Stashes'
  BY <1>1, <1>2, <1>3, <1>4 DEF Stashes
<1> QED
  BY <1>5, <1>6, <1>7, <1>8, <1>9 DEF AllTypes

(* HandlingDone keeps the types. *)
LEMMA HandlingDoneTypes ==
    ASSUME IInv, NEW e \in Ends, HandlingDone(e)
    PROVE  AllTypes'
<1>1. AllTypes /\ Types /\ Flags /\ Counts /\ Places /\ Stashes
  BY TypeParts DEF IInv, AllTypes
<1>2. UNCHANGED <<queue, sending, wire, open, enabled, m_unprocessed_bytes, m_unprocessed_messages, tasks, handling, owed, alive, posted, delivered, died>>
  BY DEF HandlingDone, sender, socket, received, loop, history
<1>3. place' \in [Ends -> {"loop", "handling", "waiting"}]
  BY <1>1 DEF HandlingDone, Places
<1>4. Types'
  BY <1>1, <1>2, <1>3 DEF Types, Tasks
<1>5. Flags'
  BY <1>1, <1>2, <1>3 DEF Flags
<1>6. Counts'
  BY <1>1, <1>2, <1>3 DEF Counts
<1>7. Places'
  <2>1. \A x \in Ends : x # e => place'[x] = place[x]
    BY <1>1 DEF Places, HandlingDone
  <2>2. place'[e] = "waiting" => e \in SyncEnds
    BY <1>1 DEF Places, HandlingDone
  <2> QED
    BY <1>1, <1>2, <1>3, <2>1, <2>2 DEF Places
<1>8. Stashes'
  BY <1>1, <1>2, <1>3 DEF Stashes
<1> QED
  BY <1>4, <1>5, <1>6, <1>7, <1>8 DEF AllTypes

(* post_message() keeps the types. *)
LEMMA post_messageTypes ==
    ASSUME IInv, NEW e \in Ends, post_message(e)
    PROVE  AllTypes'
<1>1. AllTypes /\ Types /\ Flags /\ Counts /\ Places /\ Stashes
  BY TypeParts DEF IInv, AllTypes
<1>2. UNCHANGED <<sending, wire, open, enabled, m_unprocessed_bytes, m_unprocessed_messages, tasks, place, handling, owed, alive, delivered, died>>
  BY DEF post_message, sender, socket, received, loop, history, Enqueue
<1>3. queue' \in [Ends -> Seq(Messages)]
  <2>1. [kind |-> "async", id |-> posted[e] + 1] \in Messages
    <3>1. posted[e] + 1 \in 1 .. MaxPosts
      BY <1>1, ConnectionAssumption DEF post_message, Enqueue, Counts
    <3> QED
      BY <3>1 DEF Messages
  <2>2. Append(queue[e], [kind |-> "async", id |-> posted[e] + 1]) \in Seq(Messages)
    BY <1>1, <2>1 DEF Types
  <2> QED
    BY <1>1, <2>2 DEF post_message, Enqueue, Types
<1>4. posted' \in [Ends -> 0 .. MaxPosts]
  <2>1. posted[e] + 1 \in 0 .. MaxPosts
    BY <1>1, ConnectionAssumption DEF post_message, Enqueue, Counts
  <2> QED
    BY <1>1, <2>1 DEF post_message, Enqueue, Counts
<1>5. Types'
  BY <1>1, <1>2, <1>3, <1>4 DEF Types, Tasks
<1>6. Flags'
  BY <1>1, <1>2, <1>3, <1>4 DEF Flags
<1>7. Counts'
  BY <1>1, <1>2, <1>3, <1>4 DEF Counts
<1>8. Places'
  BY <1>1, <1>2, <1>3, <1>4 DEF Places
<1>9. Stashes'
  BY <1>1, <1>2, <1>3, <1>4 DEF Stashes
<1> QED
  BY <1>5, <1>6, <1>7, <1>8, <1>9 DEF AllTypes

(* send_sync_but_allow_failure() keeps the types. *)
LEMMA send_sync_but_allow_failureTypes ==
    ASSUME IInv, NEW e \in Ends, send_sync_but_allow_failure(e)
    PROVE  AllTypes'
<1>1. AllTypes /\ Types /\ Flags /\ Counts /\ Places /\ Stashes
  BY TypeParts DEF IInv, AllTypes
<1>2. UNCHANGED <<sending, wire, open, enabled, m_unprocessed_bytes, m_unprocessed_messages, tasks, handling, owed, alive, delivered, died>>
  BY DEF send_sync_but_allow_failure, sender, socket, received, loop, history, Enqueue
<1>3. queue' \in [Ends -> Seq(Messages)]
  <2>1. [kind |-> "request", id |-> posted[e] + 1] \in Messages
    <3>1. posted[e] + 1 \in 1 .. MaxPosts
      BY <1>1, ConnectionAssumption DEF send_sync_but_allow_failure, Enqueue, Counts
    <3> QED
      BY <3>1 DEF Messages
  <2>2. Append(queue[e], [kind |-> "request", id |-> posted[e] + 1]) \in Seq(Messages)
    BY <1>1, <2>1 DEF Types
  <2> QED
    BY <1>1, <2>2 DEF send_sync_but_allow_failure, Enqueue, Types
<1>4. posted' \in [Ends -> 0 .. MaxPosts]
  <2>1. posted[e] + 1 \in 0 .. MaxPosts
    BY <1>1, ConnectionAssumption DEF send_sync_but_allow_failure, Enqueue, Counts
  <2> QED
    BY <1>1, <2>1 DEF send_sync_but_allow_failure, Enqueue, Counts
<1>5. place' \in [Ends -> {"loop", "handling", "waiting"}]
  BY <1>1 DEF send_sync_but_allow_failure, Places
<1>6. Types'
  BY <1>1, <1>2, <1>3, <1>4, <1>5 DEF Types, Tasks
<1>7. Flags'
  BY <1>1, <1>2, <1>3, <1>4, <1>5 DEF Flags
<1>8. Counts'
  BY <1>1, <1>2, <1>3, <1>4, <1>5 DEF Counts
<1>9. Places'
  <2>1. \A x \in Ends : x # e => place'[x] = place[x]
    BY <1>1 DEF Places, send_sync_but_allow_failure
  <2>2. place'[e] = "waiting" => e \in SyncEnds
    BY <1>1 DEF Places, send_sync_but_allow_failure
  <2> QED
    BY <1>1, <1>2, <1>3, <1>4, <1>5, <2>1, <2>2 DEF Places
<1>10. Stashes'
  BY <1>1, <1>2, <1>3, <1>4, <1>5 DEF Stashes
<1> QED
  BY <1>6, <1>7, <1>8, <1>9, <1>10 DEF AllTypes

(* WaitTakes keeps the types. *)
LEMMA WaitTakesTypes ==
    ASSUME IInv, NEW e \in Ends, WaitTakes(e)
    PROVE  AllTypes'
<1>1. AllTypes /\ Types /\ Flags /\ Counts /\ Places /\ Stashes
  BY TypeParts DEF IInv, AllTypes
<1>2. UNCHANGED <<queue, sending, wire, open, enabled, m_unprocessed_bytes, tasks, handling, owed, alive, posted, delivered, died>>
  BY DEF WaitTakes, sender, socket, received, loop, history
<1>3. m_unprocessed_messages' \in [Ends -> Seq(Messages)]
  <2>1. Found(e)
    BY DEF IInv
  <2>2. ResponseIndex(e) \in Of(m_unprocessed_messages[e], "response")
    BY <1>1, <2>1, ResponseIndexFact DEF WaitTakes, Found
  <2>3. m_unprocessed_messages[e] \in Seq(Messages)
    BY <1>1 DEF Types
  <2>4. ResponseIndex(e) \in 1 .. Len(m_unprocessed_messages[e])
    BY <2>2, <2>3 DEF Of
  <2>5. RemoveAt(m_unprocessed_messages[e], ResponseIndex(e)) \in Seq(Messages)
    BY <2>3, <2>4, RemoveFact
  <2> QED
    BY <1>1, <2>5 DEF WaitTakes, Types
<1>4. place' \in [Ends -> {"loop", "handling", "waiting"}]
  BY <1>1 DEF WaitTakes, Places
<1>5. Types'
  BY <1>1, <1>2, <1>3, <1>4 DEF Types, Tasks
<1>6. Flags'
  BY <1>1, <1>2, <1>3, <1>4 DEF Flags
<1>7. Counts'
  BY <1>1, <1>2, <1>3, <1>4 DEF Counts
<1>8. Places'
  <2>1. \A x \in Ends : x # e => place'[x] = place[x]
    BY <1>1 DEF Places, WaitTakes
  <2>2. place'[e] = "waiting" => e \in SyncEnds
    BY <1>1 DEF Places, WaitTakes
  <2> QED
    BY <1>1, <1>2, <1>3, <1>4, <2>1, <2>2 DEF Places
<1>9. Stashes'
  BY <1>1, <1>2, <1>3, <1>4 DEF Stashes
<1> QED
  BY <1>5, <1>6, <1>7, <1>8, <1>9 DEF AllTypes

(* WaitDrains keeps the types. *)
LEMMA WaitDrainsTypes ==
    ASSUME IInv, NEW e \in Ends, WaitDrains(e)
    PROVE  AllTypes'
<1>1. AllTypes /\ Types /\ Flags /\ Counts /\ Places /\ Stashes
  BY TypeParts DEF IInv, AllTypes
<1>2. UNCHANGED <<queue, sending, open, handling, owed, alive, posted, delivered, died>>
  BY DEF WaitDrains, sender, socket, received, loop, history
<1>3. Drain(e, tasks[e]) /\ tasks[e] \in Seq(Tasks)
  BY <1>1 DEF WaitDrains, Types, Tasks
<1>4. /\ wire' \in [Ends -> Seq(Part)] /\ m_unprocessed_bytes' \in [Ends -> Seq(Part)]
      /\ Stashes' /\ enabled' \in [Ends -> BOOLEAN] /\ tasks' \in [Ends -> Seq(Tasks)]
  BY <1>1, <1>3, DrainTypes
<1>5. m_unprocessed_messages' \in [Ends -> Seq(Messages)]
  <2>1. Received(e) \in Seq(Messages)
    BY <1>1, ReceivedType
  <2> QED
    BY <1>1, <2>1 DEF WaitDrains, Types
<1>6. place' \in [Ends -> {"loop", "handling", "waiting"}]
  BY <1>1 DEF WaitDrains, Places
<1>7. Types'
  BY <1>1, <1>2, <1>4, <1>5, <1>6 DEF Types, Tasks
<1>8. Flags'
  BY <1>1, <1>2, <1>4, <1>5, <1>6 DEF Flags
<1>9. Counts'
  BY <1>1, <1>2, <1>4, <1>5, <1>6 DEF Counts
<1>10. Places'
  <2>1. \A x \in Ends : x # e => place'[x] = place[x]
    BY <1>1 DEF Places, WaitDrains
  <2>2. place'[e] = "waiting" => e \in SyncEnds
    BY <1>1 DEF Places, WaitDrains
  <2> QED
    BY <1>1, <1>2, <1>4, <1>5, <1>6, <2>1, <2>2 DEF Places
<1>11. Stashes'
  BY <1>1, <1>2, <1>4, <1>5, <1>6 DEF Stashes
<1> QED
  BY <1>7, <1>8, <1>9, <1>10, <1>11 DEF AllTypes

(* Die keeps the types. *)
LEMMA DieTypes ==
    ASSUME IInv, NEW e \in Ends, Die(e)
    PROVE  AllTypes'
<1>1. AllTypes /\ Types /\ Flags /\ Counts /\ Places /\ Stashes
  BY TypeParts DEF IInv, AllTypes
<1>2. UNCHANGED <<open, enabled, m_unprocessed_bytes, m_unprocessed_messages, tasks, place, handling, owed, posted, delivered, died>>
  BY DEF Die, sender, socket, received, loop, history
<1>3. alive' \in [Ends -> BOOLEAN]
  BY <1>1 DEF Die, Flags
<1>4. queue' \in [Ends -> Seq(Messages)]
  BY <1>1 DEF Die, Types, Tasks
<1>5. sending' \in [Ends -> Seq(Part)]
  BY <1>1 DEF Die, Types, Tasks
<1>6. wire' \in [Ends -> Seq(Part)]
  BY <1>1 DEF Die, Types, Tasks
<1>7. Types'
  BY <1>1, <1>2, <1>3, <1>4, <1>5, <1>6 DEF Types, Tasks
<1>8. Flags'
  BY <1>1, <1>2, <1>3, <1>4, <1>5, <1>6 DEF Flags
<1>9. Counts'
  BY <1>1, <1>2, <1>3, <1>4, <1>5, <1>6 DEF Counts
<1>10. Places'
  BY <1>1, <1>2, <1>3, <1>4, <1>5, <1>6 DEF Places
<1>11. Stashes'
  BY <1>1, <1>2, <1>3, <1>4, <1>5, <1>6 DEF Stashes
<1> QED
  BY <1>7, <1>8, <1>9, <1>10, <1>11 DEF AllTypes

-----------------------------------------------------------------------------
(***************************************************************************)
(* Synchronous calls.                                                      *)
(***************************************************************************)
AllWithin ==
    \A e \in Ends : alive[e] => /\ Within(handling[e], Pending(e))
                                /\ Within(m_unprocessed_messages[e], Pending(e))
AllAnswered == \A e \in Ends : alive[e] => Answering(Pending(e), handling[e], place[e], posted[e])
AllFound == \A e \in Ends : alive[e] => Found(e)

(* The vectors of a process that lives are part of what is on its way. *)
LEMMA PendingWithin == Types => AllWithin
<1> SUFFICES ASSUME Types, NEW e \in Ends, alive[e]
             PROVE  Within(handling[e], Pending(e)) /\ Within(m_unprocessed_messages[e], Pending(e))
  BY DEF AllWithin
<1>1. /\ handling[e] \in Seq(Messages) /\ m_unprocessed_messages[e] \in Seq(Messages)
      /\ Incoming(e) \in Seq(Messages)
  BY StreamTypes
<1>2. PICK h, u, x : /\ h = handling[e] /\ u = m_unprocessed_messages[e]
                     /\ x = IF open[e] THEN Incoming(e) ELSE <<>>
  OBVIOUS
<1>3. <<>> \in Seq(Messages)
  OBVIOUS
<1>4. h \in Seq(Messages) /\ u \in Seq(Messages) /\ x \in Seq(Messages)
  BY <1>1, <1>2, <1>3
<1>5. Pending(e) = (h \o u) \o x
  BY <1>2 DEF Pending
<1>6. h \o u \in Seq(Messages)
  BY <1>4, ConcatFact
<1>7. Within(h, h \o u) /\ Within(u, h \o u) /\ Within(h \o u, (h \o u) \o x)
  BY <1>4, <1>6, WithinConcat
<1>8. Within(h, (h \o u) \o x) /\ Within(u, (h \o u) \o x)
  BY <1>7, WithinTrans
<1> QED
  BY <1>2, <1>5, <1>8

(* A response in the vector of a caller is one on its way to it. *)
LEMMA FoundLater == Types /\ AllAnswered => AllFound
<1> SUFFICES ASSUME Types, AllAnswered, NEW e \in Ends, alive[e] PROVE Found(e)
  BY DEF AllFound
<1>1. Within(m_unprocessed_messages[e], Pending(e))
  BY PendingWithin DEF AllWithin
<1>2. Answering(Pending(e), handling[e], place[e], posted[e])
  BY DEF AllAnswered
<1>3. Of(handling[e], "response") = {}
  BY <1>2 DEF Answering
<1>4. Answering(m_unprocessed_messages[e], handling[e], place[e], posted[e])
  BY <1>1, <1>2, <1>3, WithinAnswering
<1> QED
  BY <1>4 DEF Found, Answering

(* The same in the next state. *)
LEMMA NextWithin == Types' => AllWithin'
BY PendingWithin, PTL

(* The same after a step. *)
LEMMA NextFound == Types' /\ AllAnswered' => AllFound'
BY FoundLater, PTL

(* A step of one end leaves the event loop of the other alone. *)
Local(e) ==
    /\ place'[Peer(e)] = place[Peer(e)] /\ posted'[Peer(e)] = posted[Peer(e)]
    /\ m_unprocessed_messages'[Peer(e)] = m_unprocessed_messages[Peer(e)]
    /\ handling'[Peer(e)] = handling[Peer(e)] /\ owed'[Peer(e)] = owed[Peer(e)]
    /\ alive'[Peer(e)] = alive[Peer(e)] /\ open'[Peer(e)] = open[Peer(e)]

(* A call is where it was. *)
LEMMA CalledSame ==
    ASSUME NEW x \in Ends, Called(x), Pending(x)' = Pending(x), Pending(Peer(x))' = Pending(Peer(x)),
           alive'[x] => alive[x], Live(x)' => Live(x), Live(Peer(x))' => Live(Peer(x)),
           place'[x] = place[x], posted'[x] = posted[x], owed'[Peer(x)] = owed[Peer(x)],
           alive'[x] => Of(handling'[x], "response") = {}
    PROVE  Called(x)'
<1>1. ASSUME alive'[x] PROVE Answering(Pending(x), handling'[x], place[x], posted[x])
  BY <1>1 DEF Called, Answering
<1>2. ASSUME Live(x)', Live(Peer(x))'
      PROVE  Asking(Pending(Peer(x)), Pending(x), place[x], posted[x], owed[Peer(x)])
  BY <1>2 DEF Called
<1> QED
  BY <1>1, <1>2 DEF Called

(* There is no call. *)
LEMMA CalledFree ==
    ASSUME NEW x \in Ends, Called(x), Pending(x)' = Pending(x), Pending(Peer(x))' = Pending(Peer(x)),
           alive'[x] => alive[x], Live(x)' => Live(x), Live(Peer(x))' => Live(Peer(x)),
           place[x] # "waiting", owed'[Peer(x)] = owed[Peer(x)],
           alive'[x] => Of(handling'[x], "response") = {}
    PROVE  Called(x)'
<1>1. ASSUME alive'[x] PROVE Answering(Pending(x), handling'[x], place'[x], posted'[x])
  <2>1. Of(Pending(x), "response") = {}
    BY <1>1, NoCall DEF Called
  <2> QED
    BY <1>1, <2>1 DEF Answering, AtMostOne
<1>2. ASSUME Live(x)', Live(Peer(x))'
      PROVE  Asking(Pending(Peer(x)), Pending(x), place'[x], posted'[x], owed[Peer(x)])
  BY <1>2, NotAsked DEF Called
<1> QED
  BY <1>1, <1>2 DEF Called

(* The connection has failed, and messages are lost. *)
LEMMA CalledCut ==
    ASSUME NEW x \in Ends, Called(x), Pending(x) \in Seq(Messages), Pending(x)' \in Seq(Messages),
           Starts(Pending(x)', Pending(x)), alive'[x] => alive[x], ~Live(x)' \/ ~Live(Peer(x))',
           place'[x] = place[x], posted'[x] = posted[x], handling'[x] = handling[x]
    PROVE  Called(x)'
<1>1. ASSUME alive'[x] PROVE Answering(Pending(x)', handling'[x], place[x], posted[x])
  <2>1. Within(Pending(x)', Pending(x))
    BY StartsPrefix
  <2>2. Answering(Pending(x), handling[x], place[x], posted[x])
    BY <1>1 DEF Called
  <2>3. Of(handling[x], "response") = {}
    BY <2>2 DEF Answering
  <2> QED
    BY <2>1, <2>2, <2>3, WithinAnswering
<1> QED
  BY <1>1 DEF Called

(* What a step of e has to keep, apart from types and streams. *)
Settled(e) == Local(e) /\ Placed(e)' /\ \A x \in Ends : Called(x)'

(* A step that moves no message of an end and leaves its loop alone. *)
LEMMA FrameSettled ==
    ASSUME IInv, NEW e \in Ends, Quiet, UNCHANGED <<place, posted, owed, handling, alive, open>>,
           m_unprocessed_messages'[Peer(e)] = m_unprocessed_messages[Peer(e)]
    PROVE  Settled(e)
<1>1. Local(e)
  BY DEF Local
<1>2. Placed(e)'
  <2>1. Placed(e)
    BY DEF IInv
  <2> QED
    BY <2>1 DEF Placed
<1>3. ASSUME NEW x \in Ends PROVE Called(x)'
  <2>1. Called(x) /\ Peer(x) \in Ends
    BY PeerFact DEF IInv
  <2>2. alive'[x] => Of(handling'[x], "response") = {}
    BY <2>1 DEF Called, Answering
  <2>3. Pending(x)' = Pending(x) /\ Pending(Peer(x))' = Pending(Peer(x))
    BY <2>1 DEF Quiet
  <2>4. (alive'[x] => alive[x]) /\ (Live(x)' => Live(x)) /\ (Live(Peer(x))' => Live(Peer(x)))
    BY DEF Live
  <2> QED
    BY <2>1, <2>2, <2>3, <2>4, CalledSame
<1> QED
  BY <1>1, <1>2, <1>3 DEF Settled

(* SendTake leaves the calls where they are. *)
LEMMA SendTakeSettled ==
    ASSUME IInv, NEW e \in Ends, SendTake(e)
    PROVE  Settled(e)
<1>1. /\ UNCHANGED <<place, posted, owed, handling, alive, open>>
      /\ m_unprocessed_messages'[Peer(e)] = m_unprocessed_messages[Peer(e)]
  BY DEF SendTake, socket, received, loop, history
<1> QED
  BY <1>1, SendTakeQuiet, FrameSettled

(* SendPart leaves the calls where they are. *)
LEMMA SendPartSettled ==
    ASSUME IInv, NEW e \in Ends, SendPart(e)
    PROVE  Settled(e)
<1>1. /\ UNCHANGED <<place, posted, owed, handling, alive, open>>
      /\ m_unprocessed_messages'[Peer(e)] = m_unprocessed_messages[Peer(e)]
  BY DEF SendPart, received, loop, history
<1> QED
  BY <1>1, SendPartQuiet, FrameSettled

(* SendFails leaves the calls where they are. *)
LEMMA SendFailsSettled ==
    ASSUME IInv, NEW e \in Ends, SendFails(e)
    PROVE  Settled(e)
<1>1. /\ UNCHANGED <<place, posted, owed, handling, alive, open>>
      /\ m_unprocessed_messages'[Peer(e)] = m_unprocessed_messages[Peer(e)]
  BY DEF SendFails, socket, received, loop, history
<1> QED
  BY <1>1, SendFailsQuiet, FrameSettled

(* Poll leaves the calls where they are. *)
LEMMA PollSettled ==
    ASSUME IInv, NEW e \in Ends, Poll(e)
    PROVE  Settled(e) /\ Quiet /\ Keeps
<1>1. /\ UNCHANGED <<place, posted, owed, handling, alive, open>>
      /\ m_unprocessed_messages'[Peer(e)] = m_unprocessed_messages[Peer(e)]
      /\ UNCHANGED <<sender, wire, open, received, handling, alive>>
  BY DEF Poll, socket, received, history
<1> QED
  BY <1>1, FrameQuiet, FrameSettled

(* ReadHookServer leaves the calls where they are. *)
LEMMA ReadHookServerSettled ==
    ASSUME IInv, NEW e \in Ends, ReadHookServer(e)
    PROVE  Settled(e)
<1>1. Types /\ Peer(e) \in Ends /\ Peer(e) # e
  BY PeerFact DEF IInv
<1>2. /\ UNCHANGED <<place, posted, owed, handling, alive, open>>
      /\ m_unprocessed_messages'[Peer(e)] = m_unprocessed_messages[Peer(e)]
  BY <1>1 DEF ReadHookServer, history, Types
<1> QED
  BY <1>2, ReadHookServerQuiet, FrameSettled

(* The messages handed to handle_messages(): no caller waits for a         *)
(* response among them.                                                    *)
LEMMA HandsOver ==
    ASSUME IInv, Types', NEW e \in Ends, Quiet, UNCHANGED <<posted, owed, alive, open>>, alive[e],
           place' = [place EXCEPT ![e] = "handling"], place[e] # "waiting",
           handling'[Peer(e)] = handling[Peer(e)],
           m_unprocessed_messages'[Peer(e)] = m_unprocessed_messages[Peer(e)]
    PROVE  Settled(e)
<1> DEFINE p == Peer(e)
<1>1. p \in Ends /\ p # e /\ Peer(p) = e /\ (\A x \in Ends : x = e \/ x = p) /\ Called(e) /\ Called(p)
  BY PeerFact DEF IInv
<1>2. place'[e] = "handling" /\ place'[p] = place[p]
  BY <1>1, TypeParts DEF IInv, AllTypes, Places
<1>3. Local(e)
  BY <1>2 DEF Local
<1>4. Placed(e)'
  BY <1>2 DEF Placed
<1>5. /\ Pending(e)' = Pending(e) /\ Pending(p)' = Pending(p)
      /\ (Live(e)' => Live(e)) /\ (Live(p)' => Live(p))
  BY <1>1 DEF Quiet, Live
<1>6. Of(handling'[e], "response") = {}
  <2>1. Within(handling'[e], Pending(e)')
    BY NextWithin DEF AllWithin
  <2>2. Of(Pending(e), "response") = {}
    BY <1>1, NoCall DEF Called
  <2> QED
    BY <1>5, <2>1, <2>2, WithinOf
<1>7. Called(e)'
  BY <1>1, <1>5, <1>6, CalledFree
<1>8. Called(p)'
  <2>1. alive'[p] => Of(handling'[p], "response") = {}
    BY <1>1 DEF Called, Answering
  <2> QED
    BY <1>1, <1>2, <1>5, <2>1, CalledSame
<1> QED
  BY <1>1, <1>3, <1>4, <1>7, <1>8 DEF Settled

(* The messages handed over hold no response: no call is out. *)
LEMMA ReadHookClientSettled ==
    ASSUME IInv, NEW e \in Ends, ReadHookClient(e)
    PROVE  Settled(e)
<1>1. Types /\ Peer(e) \in Ends /\ Peer(e) # e
  BY PeerFact DEF IInv
<1>2. /\ UNCHANGED <<posted, owed, alive, open>> /\ alive[e] /\ place[e] # "waiting"
      /\ place' = [place EXCEPT ![e] = "handling"]
      /\ m_unprocessed_messages'[Peer(e)] = m_unprocessed_messages[Peer(e)]
      /\ handling'[Peer(e)] = handling[Peer(e)]
  BY <1>1 DEF ReadHookClient, Runs, history, Types
<1>3. Types'
  BY ReadHookClientTypes DEF AllTypes
<1> QED
  BY <1>2, <1>3, ReadHookClientQuiet, HandsOver

(* The same of handle_messages(). *)
LEMMA handle_messagesSettled ==
    ASSUME IInv, NEW e \in Ends, handle_messages(e)
    PROVE  Settled(e)
<1>1. Types /\ Peer(e) \in Ends /\ Peer(e) # e
  BY PeerFact DEF IInv
<1>2. /\ UNCHANGED <<posted, owed, alive, open>> /\ alive[e] /\ place[e] # "waiting"
      /\ place' = [place EXCEPT ![e] = "handling"]
      /\ m_unprocessed_messages'[Peer(e)] = m_unprocessed_messages[Peer(e)]
      /\ handling'[Peer(e)] = handling[Peer(e)]
  BY <1>1 DEF handle_messages, Runs, socket, history, Types
<1>3. Types'
  BY handle_messagesTypes DEF AllTypes
<1> QED
  BY <1>2, <1>3, handle_messagesQuiet, HandsOver

(* A loop that has handled everything owes nothing. *)
LEMMA HandlingDoneSettled ==
    ASSUME IInv, NEW e \in Ends, HandlingDone(e)
    PROVE  Settled(e) /\ Quiet /\ Keeps
<1> DEFINE p == Peer(e)
<1>1. p \in Ends /\ p # e /\ Peer(p) = e /\ (\A x \in Ends : x = e \/ x = p) /\ Called(e) /\ Called(p)
  BY PeerFact DEF IInv
<1>2. /\ UNCHANGED <<sender, wire, open, received, handling, alive, posted, owed>>
      /\ m_unprocessed_messages' = m_unprocessed_messages
      /\ alive[e] /\ place[e] = "handling" /\ handling[e] = <<>> /\ owed[e] = 0
  BY DEF HandlingDone, socket, history, received
<1>3. Quiet /\ Keeps
  BY <1>2, FrameQuiet
<1>4. place'[e] = "loop" /\ place'[p] = place[p]
  BY <1>1, TypeParts DEF IInv, AllTypes, Places, HandlingDone
<1>5. Local(e) /\ Placed(e)'
  BY <1>2, <1>4 DEF Local, Placed
<1>6. /\ Pending(e)' = Pending(e) /\ Pending(p)' = Pending(p)
      /\ (Live(e)' => Live(e)) /\ (Live(p)' => Live(p))
  BY <1>1, <1>2, <1>3 DEF Quiet, Live
<1>7. /\ alive'[p] => Of(handling'[p], "response") = {}
      /\ alive'[e] => Of(handling'[e], "response") = {}
  BY <1>1, <1>2 DEF Called, Answering
<1>8. Called(e)'
  BY <1>1, <1>2, <1>6, <1>7, CalledFree
<1>9. Called(p)'
  BY <1>1, <1>2, <1>4, <1>6, <1>7, CalledSame
<1> QED
  BY <1>1, <1>3, <1>5, <1>8, <1>9 DEF Settled

(* A kind that neither part has is not in a concatenation. *)
LEMMA OfConcat ==
    ASSUME NEW s \in Seq(Messages), NEW t \in Seq(Messages), NEW kind, Of(s, kind) = {}, Of(t, kind) = {}
    PROVE  Of(s \o t, kind) = {}
<1> SUFFICES ASSUME NEW i \in Of(s \o t, kind) PROVE FALSE
  OBVIOUS
<1>1. /\ s \o t \in Seq(Messages) /\ Len(s \o t) = Len(s) + Len(t) /\ Len(s) \in Nat /\ Len(t) \in Nat
      /\ DOMAIN s = 1 .. Len(s) /\ DOMAIN t = 1 .. Len(t)
  BY ConcatFact
<1>2. i \in 1 .. Len(s) + Len(t) /\ (s \o t)[i].kind = kind
  BY <1>1 DEF Of
<1>3. CASE i \in 1 .. Len(s)
  <2>1. (s \o t)[i] = s[i]
    BY <1>3, ConcatFact
  <2> QED
    BY <1>1, <1>2, <1>3, <2>1 DEF Of
<1>4. CASE i \in Len(s) + 1 .. Len(s) + Len(t)
  <2>1. (s \o t)[i] = t[i - Len(s)]
    BY <1>4, ConcatFact
  <2>2. i - Len(s) \in 1 .. Len(t)
    BY <1>1, <1>4
  <2> QED
    BY <1>1, <1>2, <2>1, <2>2 DEF Of
<1>5. i \in 1 .. Len(s) \/ i \in Len(s) + 1 .. Len(s) + Len(t)
  BY <1>1, <1>2
<1> QED
  BY <1>3, <1>4, <1>5

(* A caller gives up at the end of the stream only if there is no answer. *)
LEMMA NoAnswer ==
    ASSUME IInv, NEW e \in Ends, alive[e], DrainFails(e), ResponseIndex(e) = 0
    PROVE  ~Live(Peer(e)) /\ Of(Pending(e), "response") = {}
<1>1. ~Live(Peer(e)) /\ open[e] /\ Bytes(e) = <<>>
  BY DEF DrainFails, EOFSeen, AtEOF, Live
<1>2. Types /\ Called(e) /\ Found(e)
  BY DEF IInv
<1>3. PICK h, u : h = handling[e] /\ u = m_unprocessed_messages[e]
  OBVIOUS
<1>4. h \in Seq(Messages) /\ u \in Seq(Messages)
  BY <1>2, <1>3, StreamTypes
<1>5. Of(h, "response") = {}
  BY <1>2, <1>3 DEF Called, Answering
<1>6. Of(u, "response") = {}
  BY <1>2, <1>3, ResponseIndexFact DEF Found
<1>7. Whole(<<>>) = <<>>
  <2>1. <<>> \in Seq(Part) /\ Len(<<>>) < MessageParts
    BY ConnectionAssumption
  <2> QED
    BY <2>1, WholeShort
<1>8. Pending(e) = (h \o u) \o <<>>
  BY <1>1, <1>3, <1>7 DEF Pending, Incoming
<1>9. h \o u \in Seq(Messages)
  BY <1>4, ConcatFact
<1>10. (h \o u) \o <<>> = h \o u
  BY <1>9, ConcatEmptySeq
<1> QED
  BY <1>1, <1>4, <1>5, <1>6, <1>8, <1>10, OfConcat

(* Reading within a synchronous call, which ends at the end of the stream. *)
LEMMA WaitDrainsSettled ==
    ASSUME IInv, NEW e \in Ends, WaitDrains(e)
    PROVE  Settled(e)
<1> DEFINE p == Peer(e)
<1>1. /\ p \in Ends /\ p # e /\ Peer(p) = e /\ (\A x \in Ends : x = e \/ x = p)
      /\ Types /\ Called(e) /\ Called(p)
  BY PeerFact DEF IInv
<1>2. /\ UNCHANGED <<open, handling, alive, posted, owed>> /\ open[e]
      /\ alive[e] /\ place[e] = "waiting" /\ ResponseIndex(e) = 0
      /\ m_unprocessed_messages'[p] = m_unprocessed_messages[p]
  BY <1>1 DEF WaitDrains, history, Types
<1>3. Quiet
  BY WaitDrainsQuiet
<1>4. /\ place'[e] = (IF DrainFails(e) THEN "handling" ELSE "waiting") /\ place'[p] = place[p]
  BY <1>1, TypeParts DEF IInv, AllTypes, Places, WaitDrains, EndsWait
<1>5. Local(e) /\ Placed(e)'
  BY <1>2, <1>4 DEF Local, Placed
<1>6. /\ Pending(e)' = Pending(e) /\ Pending(p)' = Pending(p)
      /\ (Live(e)' => Live(e)) /\ (Live(p)' => Live(p))
  BY <1>1, <1>2, <1>3 DEF Quiet, Live
<1>7. /\ alive'[p] => Of(handling'[p], "response") = {}
      /\ alive'[e] => Of(handling'[e], "response") = {}
  BY <1>1, <1>2 DEF Called, Answering
<1>8. Called(p)'
  BY <1>1, <1>2, <1>4, <1>6, <1>7, CalledSame
<1>9. Called(e)'
  <2>1. CASE ~DrainFails(e)
    BY <1>1, <1>2, <1>4, <1>6, <1>7, <2>1, CalledSame
  <2>2. CASE DrainFails(e)
    <3>1. ~Live(p) /\ Of(Pending(e), "response") = {}
      BY <1>2, <2>2, NoAnswer
    <3>2. ~Live(p)'
      BY <1>6, <3>1
    <3>3. Answering(Pending(e)', handling'[e], place'[e], posted'[e])
      BY <1>2, <1>6, <1>7, <3>1 DEF Answering, AtMostOne
    <3> QED
      BY <3>2, <3>3 DEF Called
  <2> QED
    BY <2>1, <2>2
<1> QED
  BY <1>1, <1>5, <1>8, <1>9 DEF Settled

(* A request that is handled is owed, and no longer on its way. *)
LEMMA HandleNextSettled ==
    ASSUME IInv, NEW e \in Ends, HandleNext(e)
    PROVE  Settled(e)
<1> DEFINE p == Peer(e)
<1>1. /\ p \in Ends /\ p # e /\ Peer(p) = e /\ (\A x \in Ends : x = e \/ x = p)
      /\ Types /\ Called(e) /\ Called(p)
  BY PeerFact DEF IInv
<1>2. /\ UNCHANGED <<open, alive, posted, place, m_unprocessed_messages>>
      /\ alive[e] /\ place[e] = "handling" /\ handling[e] # <<>> /\ owed[e] = 0
  BY DEF HandleNext, socket, received
<1>3. PICK m : m = Head(handling[e])
  OBVIOUS
<1>4. /\ handling'[e] = Tail(handling[e]) /\ handling'[p] = handling[p]
      /\ owed'[e] = (IF m.kind = "request" THEN m.id ELSE 0) /\ owed'[p] = owed[p]
  BY <1>1, <1>3 DEF HandleNext, Types
<1>5. PICK P, Q : P = Pending(e) /\ Q = Pending(p)
  OBVIOUS
<1>6. P \in Seq(Messages) /\ Q \in Seq(Messages)
  BY <1>1, <1>5, StreamTypes
<1>7. 1 \in DOMAIN P /\ Pending(e)' = RemoveAt(P, 1) /\ Pending(p)' = Q /\ P[1] = m
  BY <1>3, <1>5, HandleNextTakes DEF Takes
<1>8. 1 \in 1 .. Len(P)
  BY <1>6, <1>7
<1>9. Within(RemoveAt(P, 1), P) /\ Within(Q, Q)
  BY <1>6, <1>8, RemoveWithin, WithinSame
<1>10. Local(e) /\ Placed(e)'
  BY <1>2, <1>4 DEF Local, Placed
<1>11. (Live(e)' <=> Live(e)) /\ (Live(p)' <=> Live(p))
  BY <1>2 DEF Live
<1>12. Answering(P, handling[e], place[e], posted[e])
  BY <1>1, <1>2, <1>5 DEF Called
<1>13. Of(handling'[e], "response") = {}
  <2>1. handling[e] \in Seq(Messages)
    BY <1>1, StreamTypes
  <2>2. 1 \in 1 .. Len(handling[e])
    BY <1>2, <2>1, EmptySeq
  <2>3. Within(RemoveAt(handling[e], 1), handling[e])
    BY <2>1, <2>2, RemoveWithin
  <2>4. Within(handling'[e], handling[e])
    BY <1>2, <1>4, <2>1, <2>3, RemoveHead
  <2>5. Of(handling[e], "response") = {}
    BY <1>12 DEF Answering
  <2> QED
    BY <2>4, <2>5, WithinOf
<1>14. Called(e)'
  <2>1. Answering(RemoveAt(P, 1), handling'[e], place[e], posted[e])
    BY <1>9, <1>12, <1>13, WithinAnswering
  <2>2. ASSUME Live(e), Live(p) PROVE Asking(Q, RemoveAt(P, 1), place[e], posted[e], owed[p])
    <3>1. Asking(Q, P, place[e], posted[e], owed[p])
      BY <1>1, <1>5, <2>2 DEF Called
    <3> QED
      BY <1>9, <3>1, WithinAsking
  <2> QED
    BY <1>2, <1>4, <1>7, <1>11, <2>1, <2>2 DEF Called
<1>15. Called(p)'
  <2>1. alive[p] => Answering(Q, handling[p], place[p], posted[p])
    BY <1>1, <1>5 DEF Called
  <2>2. ASSUME Live(e), Live(p) PROVE Asking(RemoveAt(P, 1), Q, place[p], posted[p], owed'[e])
    <3>1. Asking(P, Q, place[p], posted[p], owed[e])
      BY <1>1, <1>5, <2>2 DEF Called
    <3>2. CASE m.kind = "request"
      <4>1. 1 \in Of(P, "request")
        BY <1>7, <3>2 DEF Of
      <4>2. /\ AtMostOne(Of(P, "request"))
            /\ place[p] = "waiting" /\ P[1].id = posted[p] /\ Of(Q, "response") = {}
        BY <3>1, <4>1 DEF Asking
      <4>3. Of(RemoveAt(P, 1), "request") = {}
        BY <1>6, <1>7, <1>8, <3>2, <4>2, RemoveWithin
      <4>4. owed'[e] = posted[p]
        BY <1>4, <1>7, <3>2, <4>2
      <4> QED
        BY <4>2, <4>3, <4>4 DEF Asking, AtMostOne
    <3>3. CASE m.kind # "request"
      <4>1. owed'[e] = owed[e]
        BY <1>2, <1>4, <3>3
      <4>2. Asking(RemoveAt(P, 1), Q, place[p], posted[p], owed[e])
        BY <1>9, <3>1, WithinAsking
      <4> QED
        BY <4>1, <4>2
    <3> QED
      BY <3>2, <3>3
  <2> QED
    BY <1>1, <1>2, <1>4, <1>7, <1>11, <2>1, <2>2 DEF Called
<1> QED
  BY <1>1, <1>10, <1>14, <1>15 DEF Settled

(* The caller that has its response has no call out. *)
LEMMA WaitTakesSettled ==
    ASSUME IInv, NEW e \in Ends, WaitTakes(e)
    PROVE  Settled(e)
<1> DEFINE p == Peer(e)
<1>1. /\ p \in Ends /\ p # e /\ Peer(p) = e /\ (\A x \in Ends : x = e \/ x = p)
      /\ Types /\ Called(e) /\ Called(p)
  BY PeerFact DEF IInv
<1>2. /\ UNCHANGED <<open, alive, posted, handling, owed>> /\ alive[e] /\ place[e] = "waiting"
      /\ m_unprocessed_messages'[p] = m_unprocessed_messages[p]
  BY <1>1 DEF WaitTakes, socket, history, Types
<1>3. place'[e] = "handling" /\ place'[p] = place[p]
  BY <1>1, TypeParts DEF IInv, AllTypes, Places, WaitTakes
<1>4. PICK P, Q : P = Pending(e) /\ Q = Pending(p)
  OBVIOUS
<1>5. P \in Seq(Messages) /\ Q \in Seq(Messages)
  BY <1>1, <1>4, StreamTypes
<1>6. PICK k : Takes(e, k) /\ IsResponse(Pending(e)[k])
  BY WaitTakesTakes
<1>7. k \in DOMAIN P /\ Pending(e)' = RemoveAt(P, k) /\ Pending(p)' = Q /\ P[k].kind = "response"
  BY <1>4, <1>6 DEF Takes, IsResponse
<1>8. k \in 1 .. Len(P)
  BY <1>5, <1>7
<1>9. Answering(P, handling[e], place[e], posted[e])
  BY <1>1, <1>2, <1>4 DEF Called
<1>10. Within(RemoveAt(P, k), P) /\ Within(Q, Q) /\ Of(RemoveAt(P, k), "response") = {}
  <2>1. AtMostOne(Of(P, "response"))
    BY <1>9 DEF Answering
  <2> QED
    BY <1>5, <1>7, <1>8, <2>1, RemoveWithin, WithinSame
<1>11. Local(e) /\ Placed(e)'
  BY <1>2, <1>3 DEF Local, Placed
<1>12. (Live(e)' <=> Live(e)) /\ (Live(p)' <=> Live(p))
  BY <1>2 DEF Live
<1>13. Called(e)'
  <2>1. Answering(RemoveAt(P, k), handling[e], place'[e], posted[e])
    BY <1>9, <1>10 DEF Answering, AtMostOne
  <2>2. ASSUME Live(e), Live(p) PROVE Asking(Q, RemoveAt(P, k), place'[e], posted[e], owed[p])
    <3>1. Asking(Q, P, place[e], posted[e], owed[p])
      BY <1>1, <1>4, <2>2 DEF Called
    <3>2. k \in Of(P, "response")
      BY <1>7 DEF Of
    <3>3. Of(Q, "request") = {} /\ owed[p] = 0
      BY <3>1, <3>2 DEF Asking
    <3> QED
      BY <3>3 DEF Asking, AtMostOne
  <2> QED
    BY <1>2, <1>7, <1>12, <2>1, <2>2 DEF Called
<1>14. Called(p)'
  <2>1. alive[p] => Answering(Q, handling[p], place[p], posted[p])
    BY <1>1, <1>4 DEF Called
  <2>2. ASSUME Live(e), Live(p) PROVE Asking(RemoveAt(P, k), Q, place[p], posted[p], owed[e])
    <3>1. Asking(P, Q, place[p], posted[p], owed[e])
      BY <1>1, <1>4, <2>2 DEF Called
    <3> QED
      BY <1>10, <3>1, WithinAsking
  <2> QED
    BY <1>1, <1>2, <1>3, <1>7, <1>12, <2>1, <2>2 DEF Called
<1> QED
  BY <1>1, <1>11, <1>13, <1>14 DEF Settled

(* Posting something other than a response answers nothing. *)
LEMMA AppendAsked ==
    ASSUME NEW s \in Seq(Messages), NEW m \in Messages, NEW Q, NEW at, NEW id, NEW owes, m.kind # "response",
           Asking(Q, s, at, id, owes)
    PROVE  Asking(Q, Append(s, m), at, id, owes)
<1>1. Of(Append(s, m), "response") = Of(s, "response")
  BY AppendOf
<1> QED
  BY <1>1 DEF Asking

(* A response is posted when the request was the only one and is no longer *)
(* owed.                                                                   *)
LEMMA RespondSettled ==
    ASSUME IInv, NEW e \in Ends, Respond(e)
    PROVE  /\ Settled(e) /\ Keeps /\ Pending(e)' = Pending(e)
           /\ \/ Pending(Peer(e))' = Pending(Peer(e))
              \/ \E m \in Messages : Pending(Peer(e))' = Append(Pending(Peer(e)), m)
<1> DEFINE p == Peer(e)
<1>1. /\ p \in Ends /\ p # e /\ Peer(p) = e /\ (\A x \in Ends : x = e \/ x = p)
      /\ Types /\ Called(e) /\ Called(p)
  BY PeerFact DEF IInv
<1>2. /\ UNCHANGED <<open, alive, posted, handling, place, m_unprocessed_messages>>
      /\ UNCHANGED <<sending, wire, open, received, handling, alive>>
      /\ alive[e] /\ place[e] = "handling" /\ owed[e] # 0
  BY DEF Respond, socket, history, received
<1>3. owed'[e] = 0 /\ owed'[p] = owed[p]
  BY <1>1 DEF Respond, Types
<1>4. Local(e) /\ Placed(e)'
  BY <1>2, <1>3 DEF Local, Placed
<1>5. (Live(e)' <=> Live(e)) /\ (Live(p)' <=> Live(p))
  BY <1>2 DEF Live
<1>6. PICK m : m = [kind |-> "response", id |-> owed[e]]
  OBVIOUS
<1>7. m \in Messages /\ m.kind = "response" /\ m.id = owed[e]
  <2>1. owed[e] \in 1 .. MaxPosts
    BY <1>1, <1>2, ConnectionAssumption DEF Types
  <2> QED
    BY <1>6, <2>1 DEF Messages
<1>8. /\ Keeps /\ Pending(e)' = Pending(e)
      /\ Live(e) /\ Live(p) => Pending(p)' = Append(Pending(p), m)
      /\ ~(Live(e) /\ Live(p)) => Pending(p)' = Pending(p)
  <2>1. CASE open[e]
    <3>1. queue' = [queue EXCEPT ![e] = Append(@, m)]
      BY <1>6, <2>1 DEF Respond
    <3>2. Live(e)
      BY <1>2, <2>1 DEF Live
    <3>3. /\ Keeps /\ Pending(e)' = Pending(e)
          /\ Live(p) => Pending(p)' = Append(Pending(p), m)
          /\ ~Live(p) => Pending(p)' = Pending(p)
      BY <1>2, <1>7, <2>1, <3>1, Posted
    <3> QED
      BY <3>2, <3>3
  <2>2. CASE ~open[e]
    <3>1. queue' = queue
      BY <1>1, <2>2 DEF Respond, Types
    <3>2. Quiet /\ Keeps
      <4>1. UNCHANGED <<sender, wire, open, received, handling, alive>>
        BY <1>2, <3>1 DEF sender
      <4> QED
        BY <4>1, FrameQuiet
    <3>3. ~Live(e)
      BY <2>2 DEF Live
    <3> QED
      BY <1>1, <3>2, <3>3 DEF Quiet
  <2> QED
    BY <2>1, <2>2
<1>9. PICK P, Q : P = Pending(e) /\ Q = Pending(p)
  OBVIOUS
<1>10. P \in Seq(Messages) /\ Q \in Seq(Messages)
  BY <1>1, <1>9, StreamTypes
<1>11. alive[e] => Answering(P, handling[e], place[e], posted[e])
  BY <1>1, <1>9 DEF Called
<1>12. alive[p] => Answering(Q, handling[p], place[p], posted[p])
  BY <1>1, <1>9 DEF Called
<1>13. CASE Live(e) /\ Live(p)
  <2>1. Asking(Q, P, place[e], posted[e], owed[p]) /\ Asking(P, Q, place[p], posted[p], owed[e])
    BY <1>1, <1>9, <1>13 DEF Called
  <2>2. Pending(e)' = P /\ Pending(p)' = Append(Q, m)
    BY <1>8, <1>9, <1>13
  <2>3. Called(e)'
    <3>1. Asking(Append(Q, m), P, place[e], posted[e], owed[p])
      BY <1>7, <1>10, <2>1, AppendAsking
    <3> QED
      BY <1>2, <1>3, <1>11, <2>2, <3>1 DEF Called
  <2>4. /\ place[p] = "waiting" /\ owed[e] = posted[p] /\ Of(Q, "response") = {} /\ Of(P, "request") = {}
    BY <1>2, <2>1 DEF Asking
  <2>5. Asking(P, Append(Q, m), place[p], posted[p], 0)
    BY <2>4 DEF Asking, AtMostOne
  <2>6. ASSUME alive[p] PROVE Answering(Append(Q, m), handling[p], place[p], posted[p])
    <3>1. Of(Append(Q, m), "response") = {Len(Q) + 1}
      BY <1>7, <1>10, <2>4, AppendOf
    <3>2. Append(Q, m)[Len(Q) + 1] = m
      BY <1>7, <1>10, AppendFact
    <3>3. Of(handling[p], "response") = {}
      BY <1>12, <2>6 DEF Answering
    <3> QED
      BY <1>7, <2>4, <3>1, <3>2, <3>3 DEF Answering, AtMostOne
  <2>7. Called(p)'
    BY <1>1, <1>2, <1>3, <2>2, <2>5, <2>6 DEF Called
  <2> QED
    BY <1>1, <1>4, <1>7, <1>8, <1>9, <2>2, <2>3, <2>7 DEF Settled
<1>14. CASE ~(Live(e) /\ Live(p))
  <2>1. Pending(e)' = P /\ Pending(p)' = Q
    BY <1>8, <1>9, <1>14
  <2>2. Called(e)' /\ Called(p)'
    BY <1>1, <1>2, <1>5, <1>11, <1>12, <1>14, <2>1 DEF Called
  <2> QED
    BY <1>1, <1>4, <1>8, <1>9, <2>1, <2>2 DEF Settled
<1> QED
  BY <1>13, <1>14

(* post_message() and the request of send_sync(). *)
LEMMA EnqueueSettled ==
    ASSUME IInv, NEW e \in Ends, NEW kind \in {"async", "request"}, Enqueue(e, kind),
           UNCHANGED <<sending, wire, open, received, handling, alive>>, owed' = owed,
           place'[Peer(e)] = place[Peer(e)],
           kind = "async" => place'[e] = place[e], kind = "request" => place'[e] = "waiting"
    PROVE  /\ Settled(e) /\ Keeps /\ Pending(e)' = Pending(e)
           /\ \/ Pending(Peer(e))' = Pending(Peer(e))
              \/ \E m \in Messages : Pending(Peer(e))' = Append(Pending(Peer(e)), m)
<1> DEFINE p == Peer(e)
<1>1. /\ p \in Ends /\ p # e /\ Peer(p) = e /\ (\A x \in Ends : x = e \/ x = p)
      /\ Types /\ Called(e) /\ Called(p) /\ Placed(e) /\ Counts
  BY PeerFact, TypeParts DEF IInv, AllTypes
<1>2. /\ open' = open /\ alive' = alive /\ handling' = handling
      /\ m_unprocessed_messages' = m_unprocessed_messages
      /\ alive[e] /\ place[e] # "waiting" /\ open[e] /\ posted[e] < MaxPosts
  BY DEF Enqueue, received
<1>3. posted'[e] = posted[e] + 1 /\ posted'[p] = posted[p] /\ posted[e] + 1 \in 1 .. MaxPosts
  BY <1>1, <1>2, ConnectionAssumption DEF Enqueue, Counts
<1>4. Local(e) /\ Placed(e)'
  BY <1>1, <1>2, <1>3 DEF Local, Placed
<1>5. (Live(e)' <=> Live(e)) /\ (Live(p)' <=> Live(p)) /\ Live(e)
  BY <1>2 DEF Live
<1>6. PICK m : m = [kind |-> kind, id |-> posted[e] + 1]
  OBVIOUS
<1>7. m \in Messages /\ m.kind = kind /\ m.id = posted'[e] /\ m.kind # "response"
  BY <1>3, <1>6 DEF Messages
<1>8. /\ Keeps /\ Pending(e)' = Pending(e)
      /\ Live(p) => Pending(p)' = Append(Pending(p), m)
      /\ ~Live(p) => Pending(p)' = Pending(p)
  <2>1. queue' = [queue EXCEPT ![e] = Append(@, m)]
    BY <1>6 DEF Enqueue
  <2> QED
    BY <1>2, <1>7, <2>1, Posted
<1>9. PICK P, Q : P = Pending(e) /\ Q = Pending(p)
  OBVIOUS
<1>10. P \in Seq(Messages) /\ Q \in Seq(Messages)
  BY <1>1, <1>9, StreamTypes
<1>11. Answering(P, handling[e], place[e], posted[e])
  BY <1>1, <1>2, <1>9 DEF Called
<1>12. alive[p] => Answering(Q, handling[p], place[p], posted[p])
  BY <1>1, <1>9 DEF Called
<1>13. Answering(P, handling[e], place'[e], posted'[e]) /\ Of(P, "response") = {}
  BY <1>2, <1>11, NoCall
<1>14. CASE Live(p)
  <2>1. Asking(Q, P, place[e], posted[e], owed[p]) /\ Asking(P, Q, place[p], posted[p], owed[e])
    BY <1>1, <1>5, <1>9, <1>14 DEF Called
  <2>2. Pending(e)' = P /\ Pending(p)' = Append(Q, m)
    BY <1>8, <1>9, <1>14
  <2>3. Of(Q, "request") = {} /\ owed[p] = 0
    BY <1>2, <2>1, NotAsked
  <2>4. Asking(Append(Q, m), P, place'[e], posted'[e], owed[p])
    <3>1. CASE kind = "request"
      <4>1. Of(Append(Q, m), "request") = {Len(Q) + 1}
        <5>1. m \in Messages /\ m.kind = "request"
          BY <1>7, <3>1
        <5> QED
          BY <1>10, <2>3, <5>1, AppendOf
      <4>2. Append(Q, m)[Len(Q) + 1] = m
        BY <1>7, <1>10, AppendFact
      <4> QED
        BY <1>7, <1>13, <2>3, <3>1, <4>1, <4>2 DEF Asking, AtMostOne
    <3>2. CASE kind = "async"
      <4>1. Of(Append(Q, m), "request") = {}
        BY <1>7, <1>10, <2>3, <3>2, AppendOf
      <4> QED
        BY <2>3, <4>1 DEF Asking, AtMostOne
    <3> QED
      BY <3>1, <3>2
  <2>5. Called(e)'
    BY <1>2, <1>13, <2>2, <2>4 DEF Called
  <2>6. Asking(P, Append(Q, m), place[p], posted[p], owed[e])
    BY <1>7, <1>10, <2>1, AppendAsked
  <2>7. alive[p] => Answering(Append(Q, m), handling[p], place[p], posted[p])
    BY <1>7, <1>10, <1>12, AppendAnswering
  <2>8. Called(p)'
    BY <1>1, <1>2, <1>3, <2>2, <2>6, <2>7 DEF Called
  <2> QED
    BY <1>1, <1>4, <1>7, <1>8, <1>9, <2>2, <2>5, <2>8 DEF Settled
<1>15. CASE ~Live(p)
  <2>1. Pending(e)' = P /\ Pending(p)' = Q
    BY <1>8, <1>9, <1>15
  <2>2. Called(e)' /\ Called(p)'
    BY <1>1, <1>2, <1>3, <1>5, <1>12, <1>13, <1>15, <2>1 DEF Called
  <2> QED
    BY <1>1, <1>4, <1>8, <1>9, <2>1, <2>2 DEF Settled
<1> QED
  BY <1>14, <1>15

(* A message without an answer leaves the calls alone. *)
LEMMA post_messageSettled ==
    ASSUME IInv, NEW e \in Ends, post_message(e)
    PROVE  /\ Settled(e) /\ Keeps /\ Pending(e)' = Pending(e)
           /\ \/ Pending(Peer(e))' = Pending(Peer(e))
              \/ \E m \in Messages : Pending(Peer(e))' = Append(Pending(Peer(e)), m)
<1>1. /\ Enqueue(e, "async") /\ UNCHANGED <<sending, wire, open, received, handling, alive>>
      /\ owed' = owed /\ place' = place
  BY DEF post_message, socket, loop
<1>2. "async" \in {"async", "request"} /\ "async" # "request"
  OBVIOUS
<1> QED
  BY <1>1, <1>2, EnqueueSettled

(* A synchronous call is the only one of its end: an end that does not     *)
(* wait has none out.                                                      *)
LEMMA send_syncSettled ==
    ASSUME IInv, NEW e \in Ends, send_sync_but_allow_failure(e)
    PROVE  /\ Settled(e) /\ Keeps /\ Pending(e)' = Pending(e)
           /\ \/ Pending(Peer(e))' = Pending(Peer(e))
              \/ \E m \in Messages : Pending(Peer(e))' = Append(Pending(Peer(e)), m)
<1>1. /\ Enqueue(e, "request") /\ UNCHANGED <<sending, wire, open, received, handling, alive>>
      /\ owed' = owed
  BY DEF send_sync_but_allow_failure, socket
<1>2. place'[e] = "waiting" /\ place'[Peer(e)] = place[Peer(e)]
  BY PeerFact, TypeParts DEF IInv, AllTypes, Places, send_sync_but_allow_failure
<1>3. "request" \in {"async", "request"} /\ "async" # "request"
  OBVIOUS
<1> QED
  BY <1>1, <1>2, <1>3, EnqueueSettled

(* A failure. *)
Cuts == \A x \in Ends : Pending(x)' \in Seq(Messages) /\ Starts(Pending(x)', Pending(x))

(* A shutdown cuts off what has not been read, and what the peer has still *)
(* to send.                                                                *)
LEMMA shutdownSettled ==
    ASSUME IInv, NEW e \in Ends, shutdown(e)
    PROVE  Settled(e) /\ Keeps /\ Cuts /\ Failed'
<1> DEFINE p == Peer(e)
<1>1. /\ p \in Ends /\ p # e /\ Peer(p) = e /\ (\A x \in Ends : x = e \/ x = p)
      /\ Types /\ Called(e) /\ Called(p) /\ Placed(e) /\ Flags
  BY PeerFact, TypeParts DEF IInv, AllTypes
<1>2. /\ handling' = handling /\ m_unprocessed_messages' = m_unprocessed_messages
      /\ m_unprocessed_bytes' = m_unprocessed_bytes /\ alive' = alive /\ alive[e]
      /\ place' = place /\ posted' = posted /\ owed' = owed /\ place[e] = "loop"
  BY DEF shutdown, received, Runs
<1>3. wire'[p] = wire[p] /\ open'[p] = open[p] /\ ~open'[e]
  BY <1>1 DEF shutdown, Types, Flags
<1>4. ~Live(e)' /\ Failed'
  BY <1>3 DEF Live, Failed
<1>5. Keeps /\ Cuts
  BY <1>2, <1>3, <1>4, Cut DEF Cuts
<1>6. Local(e) /\ Placed(e)'
  BY <1>1, <1>2, <1>3 DEF Local, Placed
<1>7. ASSUME NEW x \in Ends PROVE Called(x)'
  <2>1. ~Live(x)' \/ ~Live(Peer(x))'
    BY <1>1, <1>4
  <2>2. Pending(x) \in Seq(Messages)
    BY <1>1, StreamTypes
  <2> QED
    BY <1>1, <1>2, <1>5, <2>1, <2>2, CalledCut DEF Cuts
<1> QED
  BY <1>4, <1>5, <1>6, <1>7 DEF Settled

(* The death of a process cuts off what it has not written. *)
LEMMA DieSettled ==
    ASSUME IInv, NEW e \in Ends, Die(e)
    PROVE  Settled(e) /\ Keeps /\ Cuts /\ Failed'
<1> DEFINE p == Peer(e)
<1>1. /\ p \in Ends /\ p # e /\ Peer(p) = e /\ (\A x \in Ends : x = e \/ x = p)
      /\ Types /\ Called(e) /\ Called(p) /\ Placed(e) /\ Flags
  BY PeerFact, TypeParts DEF IInv, AllTypes
<1>2. /\ handling' = handling /\ m_unprocessed_messages' = m_unprocessed_messages
      /\ m_unprocessed_bytes' = m_unprocessed_bytes /\ open' = open
      /\ place' = place /\ posted' = posted /\ owed' = owed
  BY DEF Die, received, loop, history
<1>3. wire'[p] = wire[p] /\ alive'[p] = alive[p] /\ ~alive'[e]
  BY <1>1 DEF Die, Types, Flags
<1>4. ~Live(e)' /\ Failed'
  BY <1>3 DEF Live, Failed
<1>5. Keeps /\ Cuts
  BY <1>2, <1>3, <1>4, Cut DEF Cuts
<1>6. Local(e) /\ Placed(e)'
  BY <1>1, <1>2, <1>3 DEF Local, Placed
<1>7. ASSUME NEW x \in Ends PROVE Called(x)'
  <2>1. ~Live(x)' \/ ~Live(Peer(x))'
    BY <1>1, <1>4
  <2>2. Pending(x) \in Seq(Messages)
    BY <1>1, StreamTypes
  <2>3. alive'[x] => alive[x]
    BY <1>1, <1>3
  <2> QED
    BY <1>1, <1>2, <1>5, <2>1, <2>2, <2>3, CalledCut DEF Cuts
<1> QED
  BY <1>4, <1>5, <1>6, <1>7 DEF Settled

(* Nothing is on its way at the start. *)
LEMMA InitPending ==
    ASSUME Init, NEW e \in Ends
    PROVE  Pending(e) = <<>>
<1>1. Peer(e) \in Ends
  BY PeerFact
<1>2. <<>> \o <<>> = <<>> /\ <<>> \in Seq(Part) /\ Len(<<>>) < MessageParts
  BY ConnectionAssumption
<1>3. Whole(<<>>) = <<>>
  BY <1>2, WholeShort
<1>4. Bytes(e) = <<>>
  BY <1>2 DEF Init, Bytes
<1>5. sending[Peer(e)] = <<>> /\ queue[Peer(e)] = <<>>
  BY <1>1 DEF Init
<1>6. Incoming(e) = <<>>
  BY <1>2, <1>3, <1>4, <1>5 DEF Incoming
<1>7. handling[e] = <<>> /\ m_unprocessed_messages[e] = <<>>
  BY DEF Init
<1> QED
  BY <1>2, <1>6, <1>7 DEF Pending

-----------------------------------------------------------------------------
(***************************************************************************)
(* The invariant is inductive.                                             *)
(***************************************************************************)
LEMMA StepIInv ==
    ASSUME IInv, NEW e \in Ends, AllTypes', Keeps, Settled(e),
           \/ alive'[e]
           \/ /\ m_unprocessed_messages'[e] = m_unprocessed_messages[e]
              /\ place'[e] = place[e] /\ posted'[e] = posted[e]
    PROVE  IInv'
<1> DEFINE p == Peer(e)
<1>1. /\ p \in Ends /\ (\A x \in Ends : x = e \/ x = p)
      /\ Found(e) /\ Found(p) /\ Placed(p) /\ Local(e)
  BY PeerFact DEF IInv, Settled
<1>2. TypeOK' /\ Types'
  BY TypeParts, PTL
<1>3. \A x \in Ends : Aligned(x)'
  BY DEF Keeps
<1>4. \A x \in Ends : Called(x)'
  BY DEF Settled
<1>5. Placed(p)'
  BY <1>1 DEF Local, Placed
<1>6. Placed(e)'
  BY DEF Settled
<1>7. AllFound'
  <2>1. AllAnswered'
    BY <1>4 DEF AllAnswered, Called
  <2> QED
    BY <1>2, <2>1, NextFound
<1>8. Found(e)'
  <2>1. CASE alive'[e]
    BY <1>7, <2>1 DEF AllFound
  <2>2. CASE ~alive'[e]
    BY <1>1, <2>2 DEF Found
  <2> QED
    BY <2>1, <2>2
<1>9. Found(p)'
  BY <1>1 DEF Local, Found
<1>10. \A x \in Ends : Aligned(x)' /\ Placed(x)' /\ Called(x)' /\ Found(x)'
  BY <1>1, <1>3, <1>4, <1>5, <1>6, <1>8, <1>9
<1> QED
  BY <1>2, <1>10 DEF IInv

(* The invariant holds initially. *)
LEMMA InitIInv == Init => IInv
<1> SUFFICES ASSUME Init PROVE IInv
  OBVIOUS
<1>1. MaxPosts \in Nat /\ MessageParts \in Nat /\ MessageParts > 0
  BY ConnectionAssumption
<1>2. <<>> \in Seq(Messages) /\ <<>> \in Seq(Part) /\ <<>> \in Seq(Tasks) /\ Len(<<>>) = 0 /\ <<>> \o <<>> = <<>>
  OBVIOUS
<1>3. Types
  <2>1. /\ queue \in [Ends -> Seq(Messages)] /\ sending \in [Ends -> Seq(Part)] /\ wire \in [Ends -> Seq(Part)]
    BY <1>2 DEF Init
  <2>2. /\ m_unprocessed_bytes \in [Ends -> Seq(Part)] /\ m_unprocessed_messages \in [Ends -> Seq(Messages)]
        /\ handling \in [Ends -> Seq(Messages)]
    BY <1>2 DEF Init
  <2>3. tasks \in [Ends -> Seq(Tasks)] /\ owed \in [Ends -> 0 .. MaxPosts]
    BY <1>1, <1>2 DEF Init
  <2> QED
    BY <2>1, <2>2, <2>3 DEF Types, Tasks
<1>4. Flags /\ Counts /\ Places /\ Stashes
  <2>1. Flags
    BY DEF Init, Flags
  <2>2. Counts
    BY <1>1 DEF Init, Counts, MaxDeaths
  <2>3. Places
    BY DEF Init, Places
  <2>4. Stashes
    BY <1>1, <1>2 DEF Init, Stashes
  <2> QED
    BY <2>1, <2>2, <2>3, <2>4
<1>5. TypeOK /\ Types
  BY <1>3, <1>4, TypeParts DEF AllTypes
<1>6. ASSUME NEW e \in Ends PROVE Aligned(e) /\ Placed(e) /\ Called(e) /\ Found(e)
  <2>1. Peer(e) \in Ends
    BY PeerFact
  <2>2. Bytes(e) = <<>>
    BY <1>2 DEF Init, Bytes
  <2>3. Aligned(e)
    <3>1. Stream(e) = <<>>
      BY <1>2, <2>1, <2>2 DEF Init, Stream
    <3>2. 0 \in Nat /\ Len(Stream(e)) = 0 * MessageParts
      BY <1>1, <1>2, <3>1
    <3> QED
      BY <3>2 DEF Aligned
  <2>4. Pending(e) = <<>>
    BY InitPending
  <2>5. Pending(Peer(e)) = <<>>
    BY <2>1, InitPending
  <2>6. \A kind : Of(<<>>, kind) = {}
    BY DEF Of
  <2>7. Placed(e)
    BY DEF Init, Placed
  <2>8. Called(e)
    <3>1. Of(Pending(e), "response") = {} /\ Of(handling[e], "response") = {}
      BY <2>4, <2>6 DEF Init
    <3>2. Of(Pending(Peer(e)), "request") = {} /\ owed[Peer(e)] = 0
      BY <2>1, <2>5, <2>6 DEF Init
    <3> QED
      BY <3>1, <3>2 DEF Called, Answering, Asking, AtMostOne
  <2>9. Found(e)
    <3>1. Of(m_unprocessed_messages[e], "response") = {}
      BY <2>6 DEF Init
    <3> QED
      BY <3>1 DEF Found, AtMostOne
  <2> QED
    BY <2>3, <2>7, <2>8, <2>9
<1> QED
  BY <1>5, <1>6 DEF IInv

(* A step that changes nothing keeps the invariant. *)
LEMMA FrameIInv ==
    ASSUME IInv, UNCHANGED vars
    PROVE  IInv'
<1>1. UNCHANGED <<queue, sending, wire, open, enabled, m_unprocessed_bytes, m_unprocessed_messages,
                  tasks, place, handling, owed, alive, posted, delivered, died>>
  BY DEF vars, sender, socket, received, loop, history
<1>2. PICK e \in Ends : TRUE
  BY DEF Ends
<1>3. AllTypes'
  <2>1. AllTypes
    BY TypeParts DEF IInv
  <2>2. Types'
    BY <1>1, <2>1 DEF AllTypes, Types
  <2>3. Flags'
    BY <1>1, <2>1 DEF AllTypes, Flags
  <2>4. Counts' /\ Places' /\ Stashes'
    BY <1>1, <2>1 DEF AllTypes, Counts, Places, Stashes
  <2> QED
    BY <2>2, <2>3, <2>4 DEF AllTypes
<1>4. Quiet /\ Keeps
  <2>1. UNCHANGED <<sender, wire, open, received, handling, alive>>
    BY <1>1 DEF sender, received
  <2> QED
    BY <2>1, FrameQuiet
<1>5. Settled(e)
  BY <1>1, <1>4, FrameSettled
<1> QED
  BY <1>1, <1>3, <1>4, <1>5, StepIInv

(* Every step of an end keeps the invariant. *)
LEMMA NextIInv == IInv /\ [Next]_vars => IInv'
<1> SUFFICES ASSUME IInv, [Next]_vars PROVE IInv'
  OBVIOUS
<1>0. CASE UNCHANGED vars
  BY <1>0, FrameIInv
<1>1. ASSUME NEW e \in Ends, SendTake(e) PROVE IInv'
  <2>1. alive'[e]
    BY <1>1 DEF SendTake
  <2> QED
    BY <1>1, <2>1, SendTakeQuiet, SendTakeSettled, SendTakeTypes, StepIInv
<1>2. ASSUME NEW e \in Ends, SendPart(e) PROVE IInv'
  <2>1. alive'[e]
    BY <1>2 DEF SendPart
  <2> QED
    BY <1>2, <2>1, SendPartQuiet, SendPartSettled, SendPartTypes, StepIInv
<1>3. ASSUME NEW e \in Ends, SendFails(e) PROVE IInv'
  <2>1. alive'[e]
    BY <1>3 DEF SendFails
  <2> QED
    BY <1>3, <2>1, SendFailsQuiet, SendFailsSettled, SendFailsTypes, StepIInv
<1>4. ASSUME NEW e \in Ends, Poll(e) PROVE IInv'
  <2>1. alive'[e]
    BY <1>4 DEF Poll
  <2> QED
    BY <1>4, <2>1, PollSettled, PollTypes, StepIInv
<1>5. ASSUME NEW e \in Ends, ReadHookServer(e) PROVE IInv'
  <2>1. alive'[e]
    BY <1>5 DEF ReadHookServer, Runs
  <2> QED
    BY <1>5, <2>1, ReadHookServerQuiet, ReadHookServerSettled, ReadHookServerTypes, StepIInv
<1>6. ASSUME NEW e \in Ends, ReadHookClient(e) PROVE IInv'
  <2>1. alive'[e]
    BY <1>6 DEF ReadHookClient, Runs
  <2> QED
    BY <1>6, <2>1, ReadHookClientQuiet, ReadHookClientSettled, ReadHookClientTypes, StepIInv
<1>7. ASSUME NEW e \in Ends, handle_messages(e) PROVE IInv'
  <2>1. alive'[e]
    BY <1>7 DEF handle_messages, Runs
  <2> QED
    BY <1>7, <2>1, handle_messagesQuiet, handle_messagesSettled, handle_messagesTypes, StepIInv
<1>8. ASSUME NEW e \in Ends, shutdown(e) PROVE IInv'
  <2>1. alive'[e]
    BY <1>8 DEF shutdown, Runs
  <2> QED
    BY <1>8, <2>1, shutdownSettled, shutdownTypes, StepIInv
<1>9. ASSUME NEW e \in Ends, HandleNext(e) PROVE IInv'
  <2>1. alive'[e]
    BY <1>9 DEF HandleNext
  <2> QED
    BY <1>9, <2>1, HandleNextTakes, HandleNextSettled, HandleNextTypes, StepIInv
<1>10. ASSUME NEW e \in Ends, Respond(e) PROVE IInv'
  <2>1. alive'[e]
    BY <1>10 DEF Respond
  <2> QED
    BY <1>10, <2>1, RespondSettled, RespondTypes, StepIInv
<1>11. ASSUME NEW e \in Ends, HandlingDone(e) PROVE IInv'
  <2>1. alive'[e]
    BY <1>11 DEF HandlingDone
  <2> QED
    BY <1>11, <2>1, HandlingDoneSettled, HandlingDoneTypes, StepIInv
<1>12. ASSUME NEW e \in Ends, WaitTakes(e) PROVE IInv'
  <2>1. alive'[e]
    BY <1>12 DEF WaitTakes
  <2> QED
    BY <1>12, <2>1, WaitTakesTakes, WaitTakesSettled, WaitTakesTypes, StepIInv
<1>13. ASSUME NEW e \in Ends, WaitDrains(e) PROVE IInv'
  <2>1. alive'[e]
    BY <1>13 DEF WaitDrains
  <2> QED
    BY <1>13, <2>1, WaitDrainsQuiet, WaitDrainsSettled, WaitDrainsTypes, StepIInv
<1>14. ASSUME NEW e \in Ends, post_message(e) PROVE IInv'
  <2>1. alive'[e]
    BY <1>14 DEF post_message, Enqueue
  <2> QED
    BY <1>14, <2>1, post_messageSettled, post_messageTypes, StepIInv
<1>15. ASSUME NEW e \in Ends, send_sync_but_allow_failure(e) PROVE IInv'
  <2>1. alive'[e]
    BY <1>15 DEF send_sync_but_allow_failure, Enqueue
  <2> QED
    BY <1>15, <2>1, send_syncSettled, send_sync_but_allow_failureTypes, StepIInv
<1>16. ASSUME NEW e \in Ends, Die(e) PROVE IInv'
  <2>1. UNCHANGED <<m_unprocessed_messages, place, posted>>
    BY <1>16 DEF Die, received, loop, history
  <2> QED
    BY <1>16, <2>1, DieSettled, DieTypes, StepIInv
<1> QED
  BY <1>0, <1>1, <1>2, <1>3, <1>4, <1>5, <1>6, <1>7, <1>8, <1>9, <1>10, <1>11, <1>12, <1>13, <1>14, <1>15, <1>16 DEF Next, SendThread, MainThread

(* The inductive invariant holds in every state. *)
THEOREM Invariance == Spec => []IInv
<1>1. Init => IInv
  BY InitIInv
<1>2. IInv /\ [Next]_vars => IInv'
  BY NextIInv
<1> QED
  BY <1>1, <1>2, PTL DEF Spec

(* A synchronous caller gets the response to its own request, for messages *)
(* of any number of parts, whichever ends call and die.                    *)
THEOREM OwnResp == Spec => []OwnResponse
<1>1. IInv => OwnResponse
  <2> SUFFICES ASSUME IInv PROVE OwnResponse
    OBVIOUS
  <2>1. TypeOK /\ Types
    BY DEF IInv
  <2>2. ASSUME NEW e \in Ends, place[e] = "waiting", ResponseIndex(e) # 0
        PROVE  m_unprocessed_messages[e][ResponseIndex(e)].id = posted[e]
    <3>1. Found(e)
      BY DEF IInv
    <3>2. ResponseIndex(e) \in Of(m_unprocessed_messages[e], "response")
      BY <2>1, <2>2, <3>1, ResponseIndexFact DEF Found
    <3> QED
      BY <3>1, <3>2 DEF Found
  <2> QED
    BY <2>1, <2>2 DEF OwnResponse
<1> QED
  BY <1>1, Invariance, PTL

-----------------------------------------------------------------------------
(***************************************************************************)
(* The connection implements the channel.                                  *)
(***************************************************************************)
pendingAll == [e \in Ends |-> Pending(e)]

(* A step that keeps the messages on their way is none of the channel. *)
LEMMA ChannelStutter ==
    ASSUME Quiet, UNCHANGED <<alive, open>>
    PROVE  UNCHANGED Channel!channelVars
<1>1. Failed' <=> Failed
  BY DEF Failed
<1>2. [e \in Ends |-> Pending(e)]' = [e \in Ends |-> Pending(e)]
  BY DEF Quiet
<1> QED
  BY <1>1, <1>2 DEF Channel!channelVars, Failed

(* Taking the oldest message of its class is a delivery. *)
LEMMA ChannelDeliver ==
    ASSUME NEW e \in Ends, NEW k, Takes(e, k), UNCHANGED <<alive, open>>,
           \A j \in 1 .. k - 1 : IsResponse(Pending(e)[j]) # IsResponse(Pending(e)[k])
    PROVE  Channel!Next
<1>1. Peer(e) \in Ends /\ Peer(e) # e /\ \A x \in Ends : x = e \/ x = Peer(e)
  BY PeerFact
<1>2. k \in DOMAIN pendingAll[e] /\ pendingAll[e] = Pending(e)
  BY DEF Takes, pendingAll
<1>3. pendingAll' = [pendingAll EXCEPT ![e] = RemoveAt(@, k)]
  BY <1>1 DEF Takes, pendingAll
<1>4. Failed' = Failed
  BY DEF Failed
<1>5. Channel!Deliver(e, k)
  BY <1>2, <1>3, <1>4 DEF Channel!Deliver, Channel!RemoveAt, RemoveAt, pendingAll
<1> QED
  BY <1>2, <1>5 DEF Channel!Next, pendingAll

(* A message that is posted is the last on its way. *)
LEMMA ChannelPost ==
    ASSUME NEW e \in Ends, NEW m \in Messages, UNCHANGED <<alive, open>>,
           Pending(e)' = Pending(e), Pending(Peer(e))' = Append(Pending(Peer(e)), m)
    PROVE  Channel!Next
<1> DEFINE p == Peer(e)
<1>1. p \in Ends /\ p # e /\ \A x \in Ends : x = e \/ x = p
  BY PeerFact
<1>2. pendingAll' = [pendingAll EXCEPT ![p] = Append(@, m)]
  BY <1>1 DEF pendingAll
<1>3. Failed' = Failed
  BY DEF Failed
<1>4. Channel!Post(p)
  BY <1>2, <1>3 DEF Channel!Post, pendingAll
<1> QED
  BY <1>1, <1>4 DEF Channel!Next

(* A failure cuts tails off. *)
LEMMA ChannelFail ==
    ASSUME Types, Cuts, Failed'
    PROVE  Channel!Next
<1>1. ASSUME NEW e \in Ends PROVE IsPrefix(pendingAll'[e], pendingAll[e])
  <2>1. Pending(e) \in Seq(Messages)
    BY StreamTypes
  <2>2. IsPrefix(Pending(e)', Pending(e))
    BY <2>1, StartsPrefix DEF Cuts
  <2> QED
    BY <2>2 DEF pendingAll
<1>2. DOMAIN pendingAll' = Ends
  BY DEF pendingAll
<1>3. Failed' = TRUE
  BY DEF Failed
<1>4. Channel!Fail
  BY <1>1, <1>2, <1>3 DEF Channel!Fail, Channel!IsPrefix, IsPrefix, pendingAll
<1> QED
  BY <1>4 DEF Channel!Next

(* A step of an end that posts at most one message. *)
LEMMA ChannelPosts ==
    ASSUME NEW e \in Ends, UNCHANGED <<alive, open>>, Pending(e)' = Pending(e),
           \/ Pending(Peer(e))' = Pending(Peer(e))
           \/ \E m \in Messages : Pending(Peer(e))' = Append(Pending(Peer(e)), m)
    PROVE  [Channel!Next]_(Channel!channelVars)
<1>1. CASE Pending(Peer(e))' = Pending(Peer(e))
  <2>1. Quiet
    BY <1>1, PeerFact DEF Quiet
  <2> QED
    BY <2>1, ChannelStutter
<1>2. CASE \E m \in Messages : Pending(Peer(e))' = Append(Pending(Peer(e)), m)
  BY <1>2, ChannelPost
<1> QED
  BY <1>1, <1>2

(* The steps of the threads that move bytes and messages are none of the   *)
(* channel.                                                                *)
LEMMA MovesStutter ==
    ASSUME IInv, NEW e \in Ends,
           \/ SendThread(e) \/ Poll(e) \/ ReadHookServer(e) \/ ReadHookClient(e)
           \/ handle_messages(e) \/ HandlingDone(e) \/ WaitDrains(e)
    PROVE  UNCHANGED Channel!channelVars
<1>1. CASE SendThread(e)
  <2>1. Quiet
    BY <1>1, SendTakeQuiet, SendPartQuiet, SendFailsQuiet DEF SendThread
  <2>2. UNCHANGED <<alive, open>>
    BY <1>1 DEF SendThread, SendTake, SendPart, SendFails, socket
  <2> QED
    BY <2>1, <2>2, ChannelStutter
<1>2. CASE Poll(e)
  <2>1. UNCHANGED <<alive, open>>
    BY <1>2 DEF Poll, socket
  <2> QED
    BY <1>2, <2>1, PollSettled, ChannelStutter
<1>3. CASE ReadHookServer(e)
  <2>1. UNCHANGED <<alive, open>>
    BY <1>3 DEF ReadHookServer
  <2> QED
    BY <1>3, <2>1, ReadHookServerQuiet, ChannelStutter
<1>4. CASE ReadHookClient(e)
  <2>1. UNCHANGED <<alive, open>>
    BY <1>4 DEF ReadHookClient
  <2> QED
    BY <1>4, <2>1, ReadHookClientQuiet, ChannelStutter
<1>5. CASE handle_messages(e)
  <2>1. UNCHANGED <<alive, open>>
    BY <1>5 DEF handle_messages, socket
  <2> QED
    BY <1>5, <2>1, handle_messagesQuiet, ChannelStutter
<1>6. CASE HandlingDone(e)
  <2>1. UNCHANGED <<alive, open>>
    BY <1>6 DEF HandlingDone, socket
  <2> QED
    BY <1>6, <2>1, HandlingDoneSettled, ChannelStutter
<1>7. CASE WaitDrains(e)
  <2>1. UNCHANGED <<alive, open>>
    BY <1>7 DEF WaitDrains
  <2> QED
    BY <1>7, <2>1, WaitDrainsQuiet, ChannelStutter
<1> QED
  BY <1>1, <1>2, <1>3, <1>4, <1>5, <1>6, <1>7

(* The handlers take the first message, a caller the first response. *)
LEMMA TakesDeliver ==
    ASSUME IInv, NEW e \in Ends, HandleNext(e) \/ WaitTakes(e)
    PROVE  Channel!Next
<1>1. UNCHANGED <<alive, open>>
  BY DEF HandleNext, WaitTakes, socket
<1>2. CASE HandleNext(e)
  <2>1. Takes(e, 1)
    BY <1>2, HandleNextTakes
  <2>2. \A j \in 1 .. 1 - 1 : IsResponse(Pending(e)[j]) # IsResponse(Pending(e)[1])
    OBVIOUS
  <2> QED
    BY <1>1, <2>1, <2>2, ChannelDeliver
<1>3. CASE WaitTakes(e)
  <2>1. PICK k : /\ Takes(e, k) /\ IsResponse(Pending(e)[k])
                 /\ \A j \in 1 .. k - 1 : ~IsResponse(Pending(e)[j])
    BY <1>3, WaitTakesTakes
  <2>2. \A j \in 1 .. k - 1 : IsResponse(Pending(e)[j]) # IsResponse(Pending(e)[k])
    BY <2>1 DEF IsResponse
  <2> QED
    BY <1>1, <2>1, <2>2, ChannelDeliver
<1> QED
  BY <1>2, <1>3

(* A call posts one message, a handler that returns at most one. *)
LEMMA CallsPost ==
    ASSUME IInv, NEW e \in Ends,
           Respond(e) \/ post_message(e) \/ send_sync_but_allow_failure(e)
    PROVE  [Channel!Next]_(Channel!channelVars)
<1>1. UNCHANGED <<alive, open>>
  BY DEF Respond, post_message, send_sync_but_allow_failure, socket
<1>2. /\ Pending(e)' = Pending(e)
      /\ \/ Pending(Peer(e))' = Pending(Peer(e))
         \/ \E m \in Messages : Pending(Peer(e))' = Append(Pending(Peer(e)), m)
  BY RespondSettled, post_messageSettled, send_syncSettled
<1> QED
  BY <1>1, <1>2, ChannelPosts

(* The end of a connection cuts a tail off. *)
LEMMA EndsFail ==
    ASSUME IInv, NEW e \in Ends, shutdown(e) \/ Die(e)
    PROVE  Channel!Next
<1>1. Cuts /\ Failed'
  BY shutdownSettled, DieSettled
<1>2. Types
  BY DEF IInv
<1> QED
  BY <1>1, <1>2, ChannelFail

(* Nothing is on its way at the start. *)
LEMMA ChannelInit == Init => Channel!Init
<1> SUFFICES ASSUME Init PROVE Channel!Init
  OBVIOUS
<1>1. [e \in Ends |-> Pending(e)] = [e \in Ends |-> <<>>]
  BY InitPending
<1>2. Failed = FALSE
  BY DEF Init, Failed
<1> QED
  BY <1>1, <1>2 DEF Channel!Init

(* Every step is one of the channel, or none. *)
LEMMA ChannelNext == IInv /\ [Next]_vars => [Channel!Next]_(Channel!channelVars)
<1> SUFFICES ASSUME IInv, [Next]_vars PROVE [Channel!Next]_(Channel!channelVars)
  OBVIOUS
<1>1. CASE UNCHANGED vars
  <2>1. /\ UNCHANGED <<alive, open>>
        /\ UNCHANGED <<sender, wire, open, received, handling, alive>>
    BY <1>1 DEF vars, sender, socket, received, loop
  <2> QED
    BY <2>1, FrameQuiet, ChannelStutter
<1>2. ASSUME NEW e \in Ends, SendThread(e) \/ Poll(e) \/ ReadHookServer(e) \/ ReadHookClient(e)
                               \/ handle_messages(e) \/ HandlingDone(e) \/ WaitDrains(e)
      PROVE  [Channel!Next]_(Channel!channelVars)
  BY <1>2, MovesStutter
<1>3. ASSUME NEW e \in Ends, HandleNext(e) \/ WaitTakes(e)
      PROVE  [Channel!Next]_(Channel!channelVars)
  BY <1>3, TakesDeliver
<1>4. ASSUME NEW e \in Ends, Respond(e) \/ post_message(e) \/ send_sync_but_allow_failure(e)
      PROVE  [Channel!Next]_(Channel!channelVars)
  BY <1>4, CallsPost
<1>5. ASSUME NEW e \in Ends, shutdown(e) \/ Die(e)
      PROVE  [Channel!Next]_(Channel!channelVars)
  BY <1>5, EndsFail
<1> QED
  BY <1>1, <1>2, <1>3, <1>4, <1>5 DEF Next, MainThread

(* The connection implements the channel: through the queue of the send    *)
(* thread, the parts in the stream, the stash, the vectors and the scan of *)
(* send_sync(), messages arrive once and in order, and a failure loses a   *)
(* tail of them.                                                           *)
THEOREM Refinement == Spec => MessagesInOrder
<1>1. Init => Channel!Init
  BY ChannelInit
<1>2. IInv /\ [Next]_vars => [Channel!Next]_(Channel!channelVars)
  BY ChannelNext
<1> QED
  BY <1>1, <1>2, Invariance, PTL DEF Spec, MessagesInOrder, Channel!Spec

=============================================================================

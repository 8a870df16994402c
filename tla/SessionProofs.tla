--------------------------- MODULE SessionProofs ---------------------------
(***************************************************************************)
(* Proofs about what a client is promised that sends delimited requests,   *)
(* each after the answer to the last, in pieces of any size: every such    *)
(* request is handled whole and answered with the truth, and the worker    *)
(* with its stream, buffer and descriptor implements the abstract session. *)
(***************************************************************************)
EXTENDS ConnectionProofs

\* All of the last request.
Whole == Units(Len(client.sent), client.sent[Len(client.sent)])

-----------------------------------------------------------------------------
(***************************************************************************)
(* Beginnings of a sequence.                                               *)
(***************************************************************************)

Begins(s, w) == Len(s) <= Len(w) /\ s = SubSeq(w, 1, Len(s))

LEMMA BeginsElements ==
  ASSUME NEW s \in Seq(Unit), NEW w \in Seq(Unit), Begins(s, w)
  PROVE  Len(s) \in 0 .. Len(w) /\ \A i \in 1 .. Len(s) : s[i] = w[i]
<1>1. Len(s) \in Nat /\ Len(w) \in Nat /\ Len(s) <= Len(w)
  BY DEF Begins
<1>2. s = SubSeq(w, 1, Len(s))
  BY DEF Begins
<1>3. \A m \in 0 .. Len(w) : \A i \in 1 .. m : SubSeq(w, 1, m)[i] = w[i]
  OBVIOUS
<1> QED BY <1>1, <1>2, <1>3

LEMMA BeginsByElements ==
  ASSUME NEW s \in Seq(Unit), NEW w \in Seq(Unit), Len(s) <= Len(w),
         \A i \in 1 .. Len(s) : s[i] = w[i]
  PROVE  Begins(s, w)
<1>1. \A m \in 0 .. Len(w) :
        /\ SubSeq(w, 1, m) \in Seq(Unit) /\ Len(SubSeq(w, 1, m)) = m
        /\ \A i \in 1 .. m : SubSeq(w, 1, m)[i] = w[i]
  OBVIOUS
<1>2. Len(s) \in 0 .. Len(w)
  OBVIOUS
<1>3. /\ SubSeq(w, 1, Len(s)) \in Seq(Unit) /\ Len(SubSeq(w, 1, Len(s))) = Len(s)
      /\ \A i \in 1 .. Len(s) : SubSeq(w, 1, Len(s))[i] = s[i]
  BY <1>1, <1>2
<1>4. s = SubSeq(w, 1, Len(s))
  BY <1>3, SeqEqual
<1> QED BY <1>4 DEF Begins

\* A sequence begins itself, and so do its parts.
LEMMA BeginsItself ==
  ASSUME NEW w \in Seq(Unit)
  PROVE  Begins(w, w) /\ Begins(<<>>, w)
<1>1. Begins(w, w)
  BY SubSeqFull DEF Begins
<1>2. Begins(<<>>, w)
  BY DEF Begins
<1> QED BY <1>1, <1>2

LEMMA BeginsParts ==
  ASSUME NEW s \in Seq(Unit), NEW t \in Seq(Unit), NEW w \in Seq(Unit), Begins(s \o t, w)
  PROVE  /\ Begins(s, w)
         /\ Len(s) = Len(w) => t = <<>> /\ s = w
<1>1. /\ s \o t \in Seq(Unit) /\ Len(s) \in Nat /\ Len(t) \in Nat /\ Len(s \o t) = Len(s) + Len(t)
      /\ \A i \in 1 .. Len(s) : (s \o t)[i] = s[i]
  BY Concatenation
<1>2. Len(s \o t) \in 0 .. Len(w) /\ \A i \in 1 .. Len(s \o t) : (s \o t)[i] = w[i]
  BY <1>1, BeginsElements
<1>3. Len(w) \in Nat
  OBVIOUS
<1>4. Len(s) <= Len(w) /\ \A i \in 1 .. Len(s) : s[i] = w[i]
  BY <1>1, <1>2, <1>3
<1>5. Begins(s, w)
  BY <1>4, BeginsByElements
<1>6. ASSUME Len(s) = Len(w) PROVE t = <<>> /\ s = w
  <2>1. Len(t) = 0
    BY <1>1, <1>2, <1>3, <1>6
  <2>2. t = <<>>
    BY <2>1
  <2>3. s = w
    BY <1>4, <1>6, SeqEqual
  <2> QED BY <2>2, <2>3
<1> QED BY <1>5, <1>6

-----------------------------------------------------------------------------
(***************************************************************************)
(* What recvRequest and the parser see in the beginning b of request k.    *)
(***************************************************************************)

\* b is not empty and begins the units of request k, which is r.
BeginsRequest(b, k, r) ==
  /\ b \in Seq(Unit) /\ b # <<>>
  /\ k \in 1 .. MaxRequests /\ r \in Requests /\ Delimited(r)
  /\ Begins(b, Units(k, r))

\* A request that is delimited has a header.
LEMMA WholeRequest ==
  ASSUME NEW k \in 1 .. MaxRequests, NEW r \in Requests, Delimited(r)
  PROVE  /\ Units(k, r) \in Seq(Unit) /\ Len(r.body) \in Nat
         /\ Len(Units(k, r)) = 3 + Len(r.body) /\ Units(k, r) # <<>>
         /\ r.head.method \in {"GET", "HEAD", "DELETE", "POST", "PUT"}
         /\ r.head.length \in Nat \cup {NoLength}
         /\ DOMAIN r.body = 1 .. Len(r.body)
<1> DEFINE w == Units(k, r)
<1>1. r.head.method # "none"
  BY DEF Delimited
<1>2. r \in Shapes /\ r.body \in Seq(Pieces) /\ r.head \in Heads
  BY TextParts DEF Shapes
<1>3. w \in Seq(Unit) /\ Len(w) = 3 + Len(r.body)
  BY <1>1, UnitsParts, TextParts DEF Stream
<1>4. Len(r.body) \in Nat /\ DOMAIN r.body = 1 .. Len(r.body)
  BY <1>2
<1> HIDE DEF w
<1>5. Len(w) # 0
  BY <1>3, <1>4
<1>6. w # <<>>
  BY <1>5
<1> QED BY <1>1, <1>2, <1>3, <1>4, <1>6 DEF w, Heads

LEMMA HeaderSeen ==
  ASSUME NEW b, NEW k, NEW r, BeginsRequest(b, k, r)
  PROVE  /\ Len(b) \in 1 .. 3 + Len(r.body) /\ Len(r.body) \in Nat
         /\ b[1].k = k
         /\ b[1].part = "line" /\ b[1].head = r.head
         /\ Len(b) >= 2 => b[2].part = "fields" /\ b[2].head = r.head
         /\ Len(b) >= 3 => b[3].part = "end"
         /\ \A i \in 1 .. Len(b) : i > 3 => i - 3 \in 1 .. Len(r.body) /\ b[i].part = r.body[i - 3].part
         /\ HeaderEnd(b) = (IF Len(b) >= 3 THEN 3 ELSE 0)
<1> DEFINE w == Units(k, r)
           body == r.body
           m == Len(body)
           n == Len(b)
<1>1. b \in Seq(Unit) /\ b # <<>> /\ k \in 1 .. MaxRequests /\ r \in Requests /\ Begins(b, w)
      /\ Delimited(r) /\ r.head.method # "none"
  BY DEF BeginsRequest, Delimited
<1>2. w \in Seq(Unit) /\ m \in Nat /\ Len(w) = 3 + m
  BY <1>1, WholeRequest
<1>3. /\ Len(Text(r)) = 3 + m
      /\ Text(r)[1] = [part |-> "line", head |-> r.head]
      /\ Text(r)[2] = [part |-> "fields", head |-> r.head]
      /\ Text(r)[3] = [part |-> "end", head |-> r.head]
      /\ \A x \in 1 .. m : Text(r)[3 + x] = body[x]
  BY <1>1, TextParts
<1>4. /\ Text(r)[1].part = "line" /\ Text(r)[1].head = r.head
      /\ Text(r)[2].part = "fields" /\ Text(r)[2].head = r.head
      /\ Text(r)[3].part = "end"
  BY <1>3
<1>5. \A i \in 1 .. 3 + m : /\ w[i].k = k /\ w[i].part = Text(r)[i].part /\ w[i].head = Text(r)[i].head
  BY <1>1, <1>3, UnitsParts
<1>6. n \in 0 .. 3 + m /\ \A i \in 1 .. n : b[i] = w[i]
  BY <1>1, <1>2, BeginsElements
<1>7. n # 0
  BY <1>1
<1>8. b \in Stream
  BY <1>1 DEF Stream
<1> DEFINE h == HeaderEnd(b)
<1>9. /\ h \in 0 .. n
      /\ h = 0 => \A i \in 1 .. n : b[i].part \notin Blanks
      /\ h # 0 => b[h].part \in Blanks /\ \A i \in 1 .. n : i < h => b[i].part \notin Blanks
  BY <1>8, HeaderEndFirst
<1> HIDE DEF w, body, m, n, h
<1>10. n \in 1 .. 3 + m /\ \A i \in 1 .. n : i \in 1 .. 3 + m
  BY <1>2, <1>6, <1>7
<1>11. b[1].k = k /\ b[1].part = "line" /\ b[1].head = r.head
  <2>1. 1 \in 1 .. n /\ 1 \in 1 .. 3 + m
    BY <1>2, <1>10
  <2> QED BY <1>4, <1>5, <1>6, <2>1
<1>12. n >= 2 => b[2].part = "fields" /\ b[2].head = r.head
  <2>1. n >= 2 => 2 \in 1 .. n /\ 2 \in 1 .. 3 + m
    BY <1>2, <1>10
  <2> QED BY <1>4, <1>5, <1>6, <2>1
<1>13. n >= 3 => b[3].part = "end"
  <2>1. n >= 3 => 3 \in 1 .. n /\ 3 \in 1 .. 3 + m
    BY <1>2, <1>10
  <2> QED BY <1>4, <1>5, <1>6, <2>1
<1>14. \A i \in 1 .. n : i > 3 => i - 3 \in 1 .. m /\ b[i].part = body[i - 3].part
  <2> SUFFICES ASSUME NEW i \in 1 .. n, i > 3
               PROVE  i - 3 \in 1 .. m /\ b[i].part = body[i - 3].part
    OBVIOUS
  <2> DEFINE x == i - 3
  <2>1. x \in 1 .. m /\ i = 3 + x /\ i \in 1 .. 3 + m
    BY <1>2, <1>10
  <2> HIDE DEF x
  <2>2. b[i].part = Text(r)[i].part
    BY <1>5, <1>6, <2>1
  <2>3. Text(r)[i] = body[x]
    BY <1>3, <2>1
  <2> QED BY <2>1, <2>2, <2>3 DEF x
<1>15. h = (IF n >= 3 THEN 3 ELSE 0)
  <2>1. "line" \notin Blanks /\ "fields" \notin Blanks /\ "end" \in Blanks
    BY DEF Blanks
  <2>2. CASE n >= 3
    <3>1. h # 0 /\ ~(3 < h)
      BY <1>9, <1>10, <1>13, <2>1, <2>2
    <3>2. h # 1 /\ h # 2
      BY <1>9, <1>10, <1>11, <1>12, <2>1, <2>2
    <3> QED BY <1>9, <1>10, <2>2, <3>1, <3>2
  <2>3. CASE ~(n >= 3)
    <3>1. n = 1 \/ n = 2
      BY <1>10, <2>3
    <3> QED BY <1>9, <1>11, <1>12, <2>1, <2>3, <3>1
  <2> QED BY <2>2, <2>3
<1> QED BY <1>2, <1>10, <1>11, <1>12, <1>13, <1>14, <1>15 DEF w, body, m, n, h

\* The fields of the header are those of the request.
LEMMA FieldsSeen ==
  ASSUME NEW b, NEW k, NEW r, BeginsRequest(b, k, r)
  PROVE  FieldsAt(b) = (IF Len(b) >= 3 THEN {2} ELSE {})
<1>1. /\ Len(b) \in Nat
      /\ b[1].part = "line" /\ (Len(b) >= 2 => b[2].part = "fields")
      /\ Len(b) >= 3 => b[3].part = "end"
      /\ HeaderEnd(b) = (IF Len(b) >= 3 THEN 3 ELSE 0)
  BY HeaderSeen
<1>2. CASE Len(b) >= 3
  <2>1. HeaderEnd(b) = 3 /\ b[2].part = "fields" /\ b[3].part = "end"
    BY <1>1, <1>2
  <2>2. \A i : i \in FieldsAt(b) <=>
          i \in 1 .. 3 /\ b[i].part = "fields" /\ \A j \in 1 .. i : b[j].part # "nul"
    BY <2>1 DEF FieldsAt
  <2>3. \A j \in 1 .. 2 : b[j].part # "nul"
    BY <1>1, <2>1
  <2>4. 2 \in FieldsAt(b)
    BY <2>1, <2>2, <2>3
  <2>5. \A i \in FieldsAt(b) : i = 2
    BY <1>1, <2>1, <2>2
  <2> QED BY <1>2, <2>4, <2>5
<1>3. CASE ~(Len(b) >= 3)
  <2>1. HeaderEnd(b) = 0
    BY <1>1, <1>3
  <2> QED BY <1>3, <2>1 DEF FieldsAt
<1> QED BY <1>2, <1>3

LEMMA MinSingle == Min({2}) = 2
<1>1. {2} \in SUBSET (1 .. 2) /\ {2} # {}
  OBVIOUS
<1>2. Min({2}) \in {2}
  BY <1>1, LeastIndex
<1> QED BY <1>2

LEMMA HeadSeen ==
  ASSUME NEW b, NEW k, NEW r, BeginsRequest(b, k, r)
  PROVE  /\ Method(b) = r.head.method
         /\ KeepAlive(b) => r.head.connection = "keep-alive"
         /\ Len(b) >= 3 => /\ ContentLength(b) = r.head.length
                           /\ Chunked(b) <=> r.head.chunked
                           /\ BodyLength(b) = Len(b) - 3
<1>1. /\ b[1].part = "line" /\ b[1].head = r.head /\ (Len(b) >= 2 => b[2].head = r.head)
      /\ HeaderEnd(b) = (IF Len(b) >= 3 THEN 3 ELSE 0) /\ Len(b) \in Nat
  BY HeaderSeen
<1>2. Method(b) = r.head.method
  BY <1>1 DEF Method
<1>3. CASE ~(Len(b) >= 3)
  <2>1. FieldsAt(b) = {}
    BY <1>3, FieldsSeen
  <2> QED BY <1>2, <1>3, <2>1 DEF KeepAlive
<1>4. CASE Len(b) >= 3
  <2>1. FieldsAt(b) = {2} /\ b[2].head = r.head /\ HeaderEnd(b) = 3
    BY <1>1, <1>4, FieldsSeen
  <2>2. KeepAlive(b) => r.head.connection = "keep-alive"
    <3> SUFFICES ASSUME KeepAlive(b) PROVE r.head.connection = "keep-alive"
      OBVIOUS
    <3> DEFINE I == {i \in FieldsAt(b) : b[i].head.connection # "none"}
    <3>1. I # {} /\ b[Min(I)].head.connection = "keep-alive"
      BY DEF KeepAlive
    <3>2. I = {2}
      BY <2>1, <3>1
    <3> HIDE DEF I
    <3> QED BY <2>1, <3>1, <3>2, MinSingle
  <2>3. ContentLength(b) = r.head.length
    <3> DEFINE I == {i \in FieldsAt(b) : b[i].head.length # NoLength}
    <3>1. ContentLength(b) = IF I = {} THEN NoLength ELSE b[Min(I)].head.length
      BY DEF ContentLength
    <3>2. IF r.head.length = NoLength THEN I = {} ELSE I = {2}
      BY <2>1
    <3> HIDE DEF I
    <3>3. CASE r.head.length = NoLength
      BY <3>1, <3>2, <3>3
    <3>4. CASE r.head.length # NoLength
      <4>1. I = {2}
        BY <3>2, <3>4
      <4> QED BY <2>1, <3>1, <4>1, MinSingle
    <3> QED BY <3>3, <3>4
  <2>4. Chunked(b) <=> r.head.chunked
    BY <2>1 DEF Chunked
  <2> QED BY <1>2, <2>1, <2>2, <2>3, <2>4 DEF BodyLength
<1> QED BY <1>3, <1>4

\* What strlen leaves of it begins the request too.
LEMMA CutSeen ==
  ASSUME NEW b, NEW k, NEW r, BeginsRequest(b, k, r)
  PROVE  \E m \in 1 .. Len(b) :
           /\ BeginsRequest(Cut(b), k, r) /\ Len(Cut(b)) = m
           /\ Len(b) >= 3 => m >= 3
           /\ \A i \in 1 .. m : b[i].part # "nul"
           /\ m < Len(b) => b[m + 1].part = "nul"
<1>1. b \in Seq(Unit) /\ b \in Stream /\ Len(b) \in Nat
  BY DEF BeginsRequest, Stream
<1>2. PICK m \in 0 .. Len(b) : /\ Cut(b) = SubSeq(b, 1, m)
                               /\ \A i \in 1 .. m : b[i].part # "nul"
                               /\ m < Len(b) => b[m + 1].part = "nul"
  BY <1>1, CutBefore
<1> DEFINE t == Cut(b)
<1>3. t \in Seq(Unit) /\ Len(t) = m /\ \A i \in 1 .. m : t[i] = b[i]
  <2>1. \A j \in 0 .. Len(b) : /\ SubSeq(b, 1, j) \in Seq(Unit) /\ Len(SubSeq(b, 1, j)) = j
                               /\ \A i \in 1 .. j : SubSeq(b, 1, j)[i] = b[i]
    BY <1>1
  <2> QED BY <1>2, <2>1
<1> HIDE DEF t
<1>4. /\ b[1].part = "line" /\ (Len(b) >= 2 => b[2].part = "fields") /\ (Len(b) >= 3 => b[3].part = "end")
      /\ Len(b) >= 1
  BY HeaderSeen
<1>5. m # 0 /\ (Len(b) >= 3 => m # 1 /\ m # 2)
  BY <1>1, <1>2, <1>4
<1>6. m \in 1 .. Len(b) /\ (Len(b) >= 3 => m >= 3)
  BY <1>1, <1>2, <1>5
<1>7. BeginsRequest(t, k, r)
  <2>1. /\ k \in 1 .. MaxRequests /\ r \in Requests /\ Delimited(r) /\ Begins(b, Units(k, r))
    BY DEF BeginsRequest
  <2>2. Units(k, r) \in Seq(Unit)
    BY <2>1, WholeRequest
  <2>3. Len(b) \in 0 .. Len(Units(k, r)) /\ \A i \in 1 .. Len(b) : b[i] = Units(k, r)[i]
    BY <1>1, <2>1, <2>2, BeginsElements
  <2>4. Len(t) <= Len(Units(k, r)) /\ \A i \in 1 .. Len(t) : t[i] = Units(k, r)[i]
    BY <1>1, <1>3, <1>6, <2>2, <2>3
  <2>5. Begins(t, Units(k, r))
    BY <1>3, <2>2, <2>4, BeginsByElements
  <2>6. t # <<>>
    BY <1>3, <1>5
  <2> QED BY <1>3, <2>1, <2>5, <2>6 DEF BeginsRequest
<1> QED BY <1>2, <1>3, <1>6, <1>7 DEF t

\* Nothing is complete before the last unit, and with it everything is.
LEMMA CompleteSeen ==
  ASSUME NEW b, NEW k, NEW r, BeginsRequest(b, k, r)
  PROVE  Complete(b) <=> Len(b) = Len(Units(k, r))
<1> DEFINE n == Len(b)
           m == Len(r.body)
<1>1. /\ n \in 1 .. 3 + m /\ m \in Nat
      /\ b[1].part = "line" /\ (n >= 2 => b[2].part = "fields") /\ (n >= 3 => b[3].part = "end")
      /\ \A i \in 1 .. n : i > 3 => i - 3 \in 1 .. m /\ b[i].part = r.body[i - 3].part
      /\ HeaderEnd(b) = (IF n >= 3 THEN 3 ELSE 0)
  BY HeaderSeen
<1>2. r \in Requests /\ Delimited(r) /\ DOMAIN b = 1 .. n
  BY DEF BeginsRequest
<1>3. /\ Len(Units(k, r)) = 3 + m /\ DOMAIN r.body = 1 .. m
      /\ r.head.length \in Nat \cup {NoLength}
  BY <1>2, WholeRequest DEF BeginsRequest
<1>4. /\ Method(b) = r.head.method
      /\ n >= 3 => /\ ContentLength(b) = r.head.length /\ (Chunked(b) <=> r.head.chunked)
                   /\ BodyLength(b) = n - 3
  BY HeadSeen
<1>5. ChunkedBodyComplete(b) <=> n >= 3 /\ \E i \in 1 .. n : i > 3 /\ r.body[i - 3].part = "last"
  <2>1. CASE n >= 3
    BY <1>1, <1>2, <2>1 DEF ChunkedBodyComplete
  <2>2. CASE ~(n >= 3)
    <3>1. \A i \in 1 .. n : b[i].part # "last"
      BY <1>1, <2>2
    <3> QED BY <1>1, <1>2, <2>2, <3>1 DEF ChunkedBodyComplete
  <2> QED BY <2>1, <2>2
<1>6. Complete(b) <=> n = 3 + m
  <2>1. CASE ~(n >= 3)
    BY <1>1, <2>1 DEF Complete
  <2>2. CASE n >= 3 /\ r.head.method \in Bodiless
    <3>1. r.body = <<>>
      BY <1>2, <2>2 DEF Delimited
    <3>2. m = 0
      BY <3>1
    <3> QED BY <1>1, <1>4, <2>2, <3>2 DEF Complete
  <2>3. CASE n >= 3 /\ r.head.method \notin Bodiless /\ r.head.length > 0 /\ m = r.head.length
    <3>1. ContentLength(b) = m /\ BodyLength(b) = n - 3
      BY <1>4, <2>3
    <3> QED BY <1>1, <1>4, <2>3, <3>1 DEF Complete
  <2>4. CASE /\ n >= 3 /\ r.head.method \notin Bodiless /\ r.head.length = NoLength
             /\ r.head.chunked /\ r.body # <<>>
             /\ \A i \in 1 .. m : r.body[i].part = "last" <=> i = m
    <3>1. ContentLength(b) = -1 /\ Chunked(b)
      BY <1>4, <2>4 DEF NoLength
    <3>2. Complete(b) <=> ChunkedBodyComplete(b)
      BY <1>1, <1>4, <2>4, <3>1 DEF Complete
    <3>3. m # 0
      <4>1. r.body \in Seq(Pieces)
        BY <1>2, TextParts
      <4> QED BY <2>4, <4>1
    <3>4. ASSUME n = 3 + m PROVE \E i \in 1 .. n : i > 3 /\ r.body[i - 3].part = "last"
      <4>1. n \in 1 .. n /\ n > 3 /\ n - 3 = m /\ m \in 1 .. m
        BY <1>1, <3>3, <3>4
      <4> QED BY <2>4, <4>1
    <3>5. ASSUME NEW i \in 1 .. n, i > 3, r.body[i - 3].part = "last" PROVE n = 3 + m
      <4>1. i - 3 \in 1 .. m
        BY <1>1, <3>5
      <4>2. i - 3 = m
        BY <2>4, <3>5, <4>1
      <4> QED BY <1>1, <4>2
    <3> QED BY <1>5, <2>4, <3>2, <3>4, <3>5
  <2> QED BY <1>2, <1>3, <2>1, <2>2, <2>3, <2>4 DEF Delimited
<1> QED BY <1>3, <1>6

\* The parser accepts all of a request, unless a zero byte spoils it.
LEMMA WholeParses ==
  ASSUME NEW b, NEW k, NEW r, BeginsRequest(b, k, r), Len(b) = Len(Units(k, r))
  PROVE  Parses(Cut(b)) <=> ~Spoilt(r)
<1> DEFINE n == Len(b)
           l == Len(r.body)
           t == Cut(b)
<1>1. /\ r \in Requests /\ Delimited(r) /\ k \in 1 .. MaxRequests
      /\ l \in Nat /\ n = 3 + l /\ DOMAIN r.body = 1 .. l
      /\ r.head.length \in Nat \cup {NoLength}
  <2>1. r \in Requests /\ Delimited(r) /\ k \in 1 .. MaxRequests
    BY DEF BeginsRequest
  <2> QED BY <2>1, WholeRequest
<1>2. PICK m \in 1 .. n : /\ BeginsRequest(t, k, r) /\ Len(t) = m
                          /\ n >= 3 => m >= 3
                          /\ \A i \in 1 .. m : b[i].part # "nul"
                          /\ m < n => b[m + 1].part = "nul"
  BY CutSeen
<1>3. /\ HeaderEnd(t) = 3 /\ ContentLength(t) = r.head.length /\ BodyLength(t) = m - 3
      /\ m >= 3
  <2>1. m >= 3
    BY <1>1, <1>2
  <2> QED BY <1>2, <2>1, HeaderSeen, HeadSeen
<1>4. \A x \in 1 .. l : b[3 + x].part = r.body[x].part
  <2> SUFFICES ASSUME NEW x \in 1 .. l PROVE b[3 + x].part = r.body[x].part
    OBVIOUS
  <2>1. 3 + x \in 1 .. n /\ 3 + x > 3 /\ (3 + x) - 3 = x
    BY <1>1
  <2>2. \A i \in 1 .. n : i > 3 => b[i].part = r.body[i - 3].part
    BY HeaderSeen
  <2> QED BY <2>1, <2>2
<1> HIDE DEF n, l, t
<1>5. ASSUME Spoilt(r) PROVE ~Parses(t)
  <2>1. r.head.length # NoLength /\ r.body # <<>> /\ r.body[1].part # "nul"
    BY <1>5 DEF Spoilt
  <2>2. PICK x \in 1 .. l : r.body[x].part = "nul"
    BY <1>1, <1>5 DEF Spoilt
  <2>3. l = r.head.length
    BY <1>1, <2>1 DEF Delimited, l
  <2>4. 3 + x \in 1 .. n /\ b[3 + x].part = "nul"
    BY <1>1, <1>4, <2>2
  <2>5. m < 3 + x
    BY <1>1, <1>2, <2>2, <2>4
  <2>6. m # 3
    <3>1. ASSUME m = 3 PROVE FALSE
      <4>1. b[3 + 1].part = "nul"
        BY <1>1, <1>2, <2>2, <3>1
      <4>2. 1 \in 1 .. l
        BY <1>1, <2>2
      <4> QED BY <1>4, <2>1, <4>1, <4>2
    <3> QED BY <3>1
  <2>7. m - 3 > 0 /\ m - 3 # l
    BY <1>1, <1>2, <1>3, <2>2, <2>5, <2>6
  <2> QED BY <1>3, <2>1, <2>3, <2>7 DEF Parses
<1>6. ASSUME ~Spoilt(r) PROVE Parses(t)
  <2>1. CASE r.head.length = NoLength
    BY <1>3, <2>1 DEF Parses
  <2>2. CASE m - 3 <= 0
    BY <1>1, <1>2, <1>3, <2>2 DEF Parses
  <2>3. CASE r.head.length # NoLength /\ ~(m - 3 <= 0)
    <3>1. l >= 1 /\ 1 \in 1 .. l /\ 4 \in 1 .. m
      BY <1>1, <1>2, <2>3
    <3>2. r.body # <<>> /\ r.body[1].part # "nul"
      <4>1. b[3 + 1].part = r.body[1].part /\ b[4].part # "nul"
        BY <1>2, <1>4, <3>1
      <4>2. r.body # <<>>
        BY <3>1 DEF l
      <4> QED BY <4>1, <4>2
    <3>3. \A x \in 1 .. l : r.body[x].part # "nul"
      BY <1>1, <1>6, <2>3, <3>2 DEF Spoilt
    <3>4. m = n
      <4>1. ASSUME m < n PROVE FALSE
        <5>1. b[m + 1].part = "nul" /\ m - 2 \in 1 .. l /\ 3 + (m - 2) = m + 1
          BY <1>1, <1>2, <1>3, <4>1
        <5>2. b[3 + (m - 2)].part = r.body[m - 2].part
          BY <1>4, <5>1
        <5> QED BY <3>3, <5>1, <5>2
      <4> QED BY <1>1, <1>2, <4>1
    <3>5. l = r.head.length
      BY <1>1, <2>3, <3>2 DEF Delimited, l
    <3>6. m - 3 = l
      BY <1>1, <3>4
    <3> QED BY <1>3, <3>5, <3>6 DEF Parses
  <2> QED BY <2>1, <2>2, <2>3
<1> QED BY <1>5, <1>6 DEF t

\* What the handlers make of it.
LEMMA RequestSeen ==
  ASSUME NEW b, NEW k, NEW r, BeginsRequest(b, k, r)
  PROVE  /\ b[1].k = k /\ Method(Cut(b)) = r.head.method /\ Cut(b)[1].head.found = r.head.found
         /\ Cut(b) # <<>> /\ Http(Cut(b)) /\ ~WebSocket(Cut(b))
         /\ KeepAlive(Cut(b)) => r.head.connection = "keep-alive"
         /\ \A i \in 1 .. Len(Cut(b)) : Cut(b)[i].part = "ctl" =>
              \E x \in DOMAIN r.body : r.body[x].part = "ctl"
<1> DEFINE t == Cut(b)
<1>1. BeginsRequest(t, k, r)
  BY CutSeen
<1> HIDE DEF t
<1>2. /\ t[1].head = r.head /\ Method(t) = r.head.method
      /\ KeepAlive(t) => r.head.connection = "keep-alive"
  BY <1>1, HeaderSeen, HeadSeen
<1>3. b[1].k = k
  BY HeaderSeen
<1>4. t # <<>> /\ t[1].part = "line" /\ DOMAIN t = 1 .. Len(t)
  BY <1>1, HeaderSeen DEF BeginsRequest
<1>5. ~WebSocket(t)
  <2> SUFFICES ASSUME NEW n \in DOMAIN t, t[n].part = "fields", t[n].head.upgrade,
                      {t[j].part : j \in 1 .. n - 1} \cap Blanks = {}
               PROVE  FALSE
    BY DEF WebSocket
  <2>1. ~r.head.upgrade
    BY <1>1 DEF BeginsRequest, Delimited
  <2>2. n # 2
    BY <1>1, <1>4, <2>1, HeaderSeen
  <2>3. n # 1
    BY <1>4
  <2>4. n # 3
    BY <1>1, <1>4, HeaderSeen
  <2>5. n > 3 /\ Len(t) >= 3 /\ 3 \in 1 .. n - 1
    BY <1>1, <1>4, <2>2, <2>3, <2>4, HeaderSeen
  <2>6. t[3].part = "end"
    BY <1>1, <2>5, HeaderSeen
  <2> QED BY <2>5, <2>6 DEF Blanks
<1>6. Http(t)
  BY <1>4, <1>5 DEF Http
<1>7. ASSUME NEW i \in 1 .. Len(t), t[i].part = "ctl"
      PROVE  \E x \in DOMAIN r.body : r.body[x].part = "ctl"
  <2>1. i > 3
    BY <1>1, <1>7, HeaderSeen
  <2>2. i - 3 \in 1 .. Len(r.body) /\ t[i].part = r.body[i - 3].part
    BY <1>1, <2>1, HeaderSeen
  <2>3. DOMAIN r.body = 1 .. Len(r.body)
    BY <1>1, WholeRequest DEF BeginsRequest
  <2> QED BY <1>7, <2>2, <2>3
<1> QED BY <1>2, <1>3, <1>4, <1>5, <1>6, <1>7 DEF t

-----------------------------------------------------------------------------
(***************************************************************************)
(* One request at a time.                                                  *)
(***************************************************************************)

\* As long as the worker has not given the connection up, what is on the line
\* is one request, the last, not answered; all of it while the client has not
\* ended the connection.
OneOnTheLine ==
  ~At("close") /\ Line # <<>> =>
    /\ client.sent # <<>> /\ Len(responses) + 1 = Len(client.sent)
    /\ Begins(Line, Whole)
    /\ client.end = "open" => Line = Whole

\* A request is handled when nothing of it is left to receive ...
AllReceived == At("serve") => wire = <<>> /\ client.todo = <<>>

\* ... and as soon as that is so.
NotYetWhole == At("recv") /\ buf # <<>> => Len(buf) < Len(Whole) /\ worker.conn = "open"

\* There are no more responses than requests, each to its own.
AnswersFit == Len(responses) <= Len(client.sent)

Single == OneOnTheLine /\ AllReceived /\ NotYetWhole /\ AnswersFit /\ RightAnswers

\* The part of the request that is in the line's first piece b.
LEMMA LastRequest ==
  ASSUME PatientClients, TypeOK, Phases, Single, ~At("close"),
         NEW b \in Seq(Unit), NEW t \in Seq(Unit), Line = b \o t, b # <<>>
  PROVE  /\ BeginsRequest(b, Len(client.sent), client.sent[Len(client.sent)])
         /\ Len(responses) + 1 = Len(client.sent)
         /\ Whole \in Seq(Unit) /\ Len(b) \in 1 .. Len(Whole)
         /\ Len(b) = Len(Whole) => t = <<>> /\ b = Whole
         /\ Len(Whole) <= MAX_REQUEST + 1
<1> DEFINE n == Len(client.sent)
           r == client.sent[n]
<1>1. Line # <<>>
  <2>1. Len(b \o t) = Len(b) + Len(t) /\ Len(t) \in Nat /\ Len(b) \in Nat
    BY Concatenation
  <2>2. Len(b) # 0
    OBVIOUS
  <2>3. Len(b \o t) # 0
    BY <2>1, <2>2
  <2> QED BY <2>3
<1>2. client.sent # <<>> /\ Len(responses) + 1 = n /\ Begins(Line, Whole)
  BY <1>1 DEF Single, OneOnTheLine
<1>3. client.sent \in Seq(Requests) /\ n <= MaxRequests
  BY LineTyped DEF Phases
<1>4. n \in 1 .. n /\ n \in 1 .. MaxRequests
  BY <1>2, <1>3, ConnectionAssumption
<1>5. r \in Requests
  BY <1>3, <1>4
<1>6. Delimited(r)
  BY <1>5 DEF PatientClients
<1>7. Whole \in Seq(Unit) /\ Len(Whole) = 3 + Len(r.body)
  BY <1>4, <1>5, <1>6, WholeRequest DEF Whole
<1>8. Begins(b, Whole) /\ (Len(b) = Len(Whole) => t = <<>> /\ b = Whole)
  BY <1>2, <1>7, BeginsParts
<1>9. Len(b) \in 1 .. Len(Whole)
  <2>1. Len(b) \in 0 .. Len(Whole)
    BY <1>7, <1>8, BeginsElements
  <2>2. Len(b) # 0
    OBVIOUS
  <2> QED BY <2>1, <2>2
<1>10. Len(Whole) <= MAX_REQUEST + 1
  <2>1. Len(r.body) \in Nat /\ Len(r.body) + 2 <= MAX_REQUEST
    BY <1>4, <1>5, <1>6, WholeRequest DEF Delimited
  <2> QED BY <1>7, <2>1, ConnectionAssumption
<1>11. BeginsRequest(b, n, r)
  BY <1>4, <1>5, <1>6, <1>8 DEF BeginsRequest, Whole
<1> QED BY <1>2, <1>7, <1>8, <1>9, <1>10, <1>11

\* What is known of the request the worker handles.
Handled(r) ==
  /\ BeginsRequest(buf, Len(client.sent), r)
  /\ r = client.sent[Len(client.sent)]
  /\ wire = <<>> /\ client.todo = <<>>
  /\ Len(responses) + 1 = Len(client.sent)
  /\ client.end = "open" => buf = Whole /\ (Parses(Seen) <=> ~Spoilt(r))

LEMMA LineServed ==
  ASSUME TypeOK, Single, At("serve")
  PROVE  Line = buf /\ Line = buf \o <<>>
<1>1. wire = <<>> /\ client.todo = <<>> /\ buf \in Seq(Unit)
  BY LineTyped DEF Single, AllReceived
<1> QED BY <1>1, NoLine DEF Line

LEMMA RequestHandled ==
  ASSUME PatientClients, TypeOK, Phases, Single, At("serve")
  PROVE  Handled(client.sent[Len(client.sent)])
<1>1. wire = <<>> /\ client.todo = <<>>
  BY DEF Single, AllReceived
<1>2. buf # <<>> /\ ~At("close") /\ buf \in Seq(Unit) /\ <<>> \in Seq(Unit)
  BY LineTyped DEF Phases, At
<1>3. /\ BeginsRequest(buf, Len(client.sent), client.sent[Len(client.sent)])
      /\ Len(responses) + 1 = Len(client.sent)
  BY <1>2, LineServed, LastRequest
<1>4. client.end = "open" => buf = Whole
  BY <1>2, LineServed DEF Single, OneOnTheLine
<1>5. client.end = "open" => (Parses(Seen) <=> ~Spoilt(client.sent[Len(client.sent)]))
  BY <1>3, <1>4, WholeParses DEF Whole, Seen
<1> QED BY <1>1, <1>3, <1>4, <1>5 DEF Handled

-----------------------------------------------------------------------------
(***************************************************************************)
(* The handling of a request: what the handlers do, taken together.        *)
(***************************************************************************)

\* The response to r is true, and so is what it says of the connection.
Truthful(r, status, keep) ==
  \/ /\ status = 200 /\ r.head.method = "GET" /\ r.head.found
     /\ keep => r.head.connection = "keep-alive"
     /\ keep => worker'.pc = "recv" /\ worker'.conn = "open"
     /\ ~keep => worker'.pc = "close"
  \/ status = 404 /\ r.head.method = "GET" /\ ~r.head.found /\ ~keep /\ worker'.conn = "closed"
  \/ /\ status = 501 /\ r.head.method \in {"PUT", "DELETE"} /\ ~keep
     /\ ~Spoilt(r) \/ client.end # "open"
  \/ /\ status = 400 /\ ~keep /\ worker'.conn = "closed"
     /\ Spoilt(r) \/ client.end # "open"

\* The response itself, to what begins in the buffer.
Said(n, status, keep) == [to |-> n, at |-> buf[1].i, status |-> status, keep |-> keep]

Answers(r, status, keep) ==
  /\ Truthful(r, status, keep)
  /\ responses' = Append(responses, Said(Len(client.sent), status, keep))

Served(r) ==
  /\ buf' = <<>> /\ wire' = wire /\ client' = client
  /\ worker'.pc \in {"recv", "close"} /\ worker'.conn \in {"open", "closed"}
  /\ \/ responses' = responses /\ (client.end = "reset" \/ ~Answerable(r))
     \/ \E status \in {200, 400, 404, 501}, keep \in BOOLEAN : Answers(r, status, keep)

Serve == Nothing \/ Ignore \/ BadRequest \/ GetFile \/ GetMissing \/ Silent \/ NotImplemented

LEMMA ServeAnswers ==
  ASSUME PatientClients, TypeOK, Phases, Single, Serve
  PROVE  At("serve") /\ Served(client.sent[Len(client.sent)])
<1> DEFINE n == Len(client.sent)
           r == client.sent[n]
<1>1. At("serve")
  BY DEF Serve, Nothing, Ignore, BadRequest, GetFile, GetMissing, Silent, NotImplemented, HttpRequest
<1>2. Handled(r)
  BY <1>1, RequestHandled
<1> DEFINE t == Seen
<1>3. /\ Method(t) = r.head.method /\ t[1].head.found = r.head.found /\ buf[1].k = n
      /\ t # <<>> /\ ~WebSocket(t)
      /\ KeepAlive(t) => r.head.connection = "keep-alive"
      /\ \A i \in 1 .. Len(t) : t[i].part = "ctl" => \E x \in DOMAIN r.body : r.body[x].part = "ctl"
      /\ client.end = "open" => (Parses(t) <=> ~Spoilt(r))
  BY <1>2, RequestSeen DEF Handled, Seen
<1>4. r.head.method \in {"GET", "HEAD", "DELETE", "POST", "PUT"} /\ DOMAIN t = 1 .. Len(t)
  <2>1. t \in Seq(Unit)
    BY <1>2, CutSeen DEF Handled, BeginsRequest, Seen
  <2> QED BY <1>2, <2>1, WholeRequest DEF Handled, BeginsRequest
<1>5. KeepAlive(t) \in BOOLEAN
  BY KeepAliveBoolean
<1> HIDE DEF n, r, t
<1>6. ASSUME NEW status \in {200, 400, 404, 501}, NEW keep \in BOOLEAN, Respond(status, keep)
      PROVE  \/ responses' = responses /\ client.end = "reset"
             \/ client.end # "reset" /\
                responses' = Append(responses, Said(n, status, keep))
  BY <1>3, <1>6 DEF Respond, Said
<1>7. ASSUME NEW keep \in BOOLEAN, NEW conn \in {"open", "closed"}, Loop(keep, conn)
      PROVE  /\ buf' = <<>> /\ wire' = wire /\ client' = client
             /\ worker'.pc = (IF keep THEN "recv" ELSE "close") /\ worker'.conn = conn
  BY <1>7 DEF Loop
<1>8. CASE Nothing \/ Ignore
  <2>1. Ignorable(t) /\ Loop(TRUE, "open") /\ responses' = responses
    BY <1>3, <1>8 DEF Nothing, Ignore, t
  <2>2. PICK i \in 1 .. Len(t) : t[i].part = "ctl"
    BY <1>3, <1>4, <2>1 DEF Ignorable
  <2>3. ~Answerable(r)
    BY <1>3, <2>2 DEF Answerable
  <2>4. /\ buf' = <<>> /\ wire' = wire /\ client' = client
        /\ worker'.pc = "recv" /\ worker'.conn = "open"
    BY <1>7, <2>1
  <2> QED BY <1>1, <2>1, <2>3, <2>4 DEF Served, r, n
<1>9. CASE BadRequest
  <2>1. ~Parses(t) /\ Respond(400, FALSE) /\ Loop(KeepAlive(t), "closed")
    BY <1>9 DEF BadRequest, t
  <2>2. Spoilt(r) \/ client.end # "open"
    BY <1>3, <2>1
  <2>3. /\ buf' = <<>> /\ wire' = wire /\ client' = client
        /\ worker'.pc \in {"recv", "close"} /\ worker'.conn = "closed"
    BY <1>5, <1>7, <2>1
  <2>4. 400 \in {200, 400, 404, 501} /\ FALSE \in BOOLEAN
    OBVIOUS
  <2>5. \/ responses' = responses /\ client.end = "reset"
        \/ responses' = Append(responses, Said(n, 400, FALSE))
    BY <1>6, <2>1, <2>4
  <2>6. Truthful(r, 400, FALSE)
    BY <2>2, <2>3 DEF Truthful
  <2>7. \/ responses' = responses /\ client.end = "reset"
        \/ Answers(r, 400, FALSE)
    BY <2>5, <2>6 DEF Answers, n
  <2> QED BY <1>1, <2>3, <2>4, <2>7 DEF Served, r, n
<1>10. CASE GetFile
  <2> DEFINE keep == KeepAlive(t)
  <2>1. /\ Method(t) = "GET" /\ t[1].head.found /\ client.end # "reset"
        /\ Respond(200, keep) /\ Loop(keep, IF keep THEN "open" ELSE "closed")
    BY <1>10 DEF GetFile, t
  <2>2. keep \in BOOLEAN /\ (keep => r.head.connection = "keep-alive")
    BY <1>3, <1>5
  <2> HIDE DEF keep
  <2>3. /\ buf' = <<>> /\ wire' = wire /\ client' = client
        /\ worker'.pc = (IF keep THEN "recv" ELSE "close")
        /\ worker'.conn = (IF keep THEN "open" ELSE "closed")
    BY <1>7, <2>1, <2>2
  <2>4. responses' = Append(responses, Said(n, 200, keep))
    BY <1>6, <2>1, <2>2
  <2>5. Truthful(r, 200, keep)
    BY <1>3, <2>1, <2>2, <2>3 DEF Truthful
  <2>6. Answers(r, 200, keep)
    BY <2>4, <2>5 DEF Answers, n
  <2> QED BY <1>1, <2>2, <2>3, <2>6 DEF Served, r, n
<1>11. CASE GetMissing
  <2>1. /\ Method(t) = "GET" /\ (~t[1].head.found \/ client.end = "reset")
        /\ Respond(404, FALSE) /\ Loop(KeepAlive(t), "closed")
    BY <1>11 DEF GetMissing, t
  <2>2. /\ buf' = <<>> /\ wire' = wire /\ client' = client
        /\ worker'.pc \in {"recv", "close"} /\ worker'.conn = "closed"
    BY <1>5, <1>7, <2>1
  <2>3. 404 \in {200, 400, 404, 501} /\ FALSE \in BOOLEAN
    OBVIOUS
  <2>4. \/ responses' = responses /\ client.end = "reset"
        \/ client.end # "reset" /\
           responses' = Append(responses, Said(n, 404, FALSE))
    BY <1>6, <2>1, <2>3
  <2>5. client.end # "reset" => Truthful(r, 404, FALSE)
    BY <1>3, <2>1, <2>2 DEF Truthful
  <2>6. \/ responses' = responses /\ client.end = "reset"
        \/ Answers(r, 404, FALSE)
    BY <2>4, <2>5 DEF Answers, n
  <2> QED BY <1>1, <2>2, <2>3, <2>6 DEF Served, r, n
<1>12. CASE Silent
  <2> DEFINE keep == KeepAlive(t)
  <2>1. /\ Method(t) \in {"HEAD", "POST"} /\ responses' = responses
        /\ Loop(keep, IF keep THEN "open" ELSE "closed")
    BY <1>12 DEF Silent, t
  <2>2. keep \in BOOLEAN
    BY <1>5
  <2> HIDE DEF keep
  <2>3. /\ buf' = <<>> /\ wire' = wire /\ client' = client
        /\ worker'.pc \in {"recv", "close"} /\ worker'.conn \in {"open", "closed"}
    BY <1>7, <2>1, <2>2
  <2>4. responses' = responses /\ ~Answerable(r)
    BY <1>3, <2>1 DEF Answerable
  <2> QED BY <1>1, <2>3, <2>4 DEF Served, r, n
<1>13. CASE NotImplemented
  <2> DEFINE keep == KeepAlive(t)
  <2>1. /\ Method(t) \notin {"GET", "HEAD", "POST"} /\ Parses(t) /\ Respond(501, FALSE)
        /\ Loop(keep, IF keep THEN "open" ELSE "closed")
    BY <1>13 DEF NotImplemented, HttpRequest, t
  <2>2. keep \in BOOLEAN
    BY <1>5
  <2> HIDE DEF keep
  <2>3. /\ buf' = <<>> /\ wire' = wire /\ client' = client
        /\ worker'.pc \in {"recv", "close"} /\ worker'.conn \in {"open", "closed"}
    BY <1>7, <2>1, <2>2
  <2>4. 501 \in {200, 400, 404, 501} /\ FALSE \in BOOLEAN
    OBVIOUS
  <2>5. \/ responses' = responses /\ client.end = "reset"
        \/ responses' = Append(responses, Said(n, 501, FALSE))
    BY <1>6, <2>1, <2>4
  <2>6. Truthful(r, 501, FALSE)
    BY <1>3, <1>4, <2>1 DEF Truthful
  <2>7. \/ responses' = responses /\ client.end = "reset"
        \/ Answers(r, 501, FALSE)
    BY <2>5, <2>6 DEF Answers, n
  <2> QED BY <1>1, <2>3, <2>4, <2>7 DEF Served, r, n
<1> QED BY <1>8, <1>9, <1>10, <1>11, <1>12, <1>13 DEF Serve

-----------------------------------------------------------------------------
(***************************************************************************)
(* No step brings a second request onto the line.                          *)
(***************************************************************************)

LEMMA StartSingle == Init => Single
<1> SUFFICES ASSUME Init PROVE Single
  OBVIOUS
<1>1. /\ buf = <<>> /\ wire = <<>> /\ client.todo = <<>> /\ client.sent = <<>>
      /\ responses = <<>> /\ worker.pc = "accept"
  BY DEF Init, Away, Idle
<1>2. Line = <<>>
  BY <1>1 DEF Line
<1> QED BY <1>1, <1>2 DEF Single, OneOnTheLine, AllReceived, NotYetWhole, AnswersFit, RightAnswers, At

\* Responses that are right stay right.
LEMMA RightStays ==
  ASSUME TypeOK, AnswersFit, RightAnswers, responses' = responses,
         \A j \in 1 .. Len(client.sent) : client'.sent[j] = client.sent[j],
         client.end # "open" => client'.end # "open"
  PROVE  RightAnswers'
<1>1. DOMAIN responses = 1 .. Len(responses) /\ Len(responses) \in Nat /\ Len(client.sent) \in Nat
  BY LineTyped
<1>2. \A j \in DOMAIN responses : client'.sent[j] = client.sent[j]
  BY <1>1 DEF AnswersFit
<1> QED BY <1>2 DEF RightAnswers

LEMMA AnswerIsRight ==
  ASSUME TypeOK, RightAnswers, client' = client, NEW r, r = client.sent[Len(client.sent)],
         Len(responses) + 1 = Len(client.sent),
         NEW status \in {200, 400, 404, 501}, NEW keep \in BOOLEAN, Answers(r, status, keep)
  PROVE  RightAnswers' /\ Len(responses') = Len(client.sent)
<1> DEFINE n == Len(client.sent)
           a == Said(n, status, keep)
<1>1. responses' = Append(responses, a) /\ Truthful(r, status, keep)
  BY DEF Answers
<1>2. /\ DOMAIN responses = 1 .. Len(responses) /\ Len(responses) \in Nat
      /\ Len(responses') = n /\ DOMAIN responses' = 1 .. n
      /\ responses'[n] = a /\ \A j \in 1 .. Len(responses) : responses'[j] = responses[j]
  BY <1>1, LineTyped
<1>3. a.to = n /\ a.status = status
  BY DEF Said
<1> HIDE DEF n, a
<1>4. \A j \in 1 .. n : j \in 1 .. Len(responses) \/ j = n
  BY <1>2 DEF n
<1> DEFINE True(j, x) ==
             /\ x.to = j
             /\ LET q == client.sent[j]
                IN \/ x.status = 200 /\ q.head.method = "GET" /\ q.head.found
                   \/ x.status = 404 /\ q.head.method = "GET" /\ ~q.head.found
                   \/ /\ x.status = 501 /\ q.head.method \in {"PUT", "DELETE"}
                      /\ ~Spoilt(q) \/ client.end # "open"
                   \/ x.status = 400 /\ (Spoilt(q) \/ client.end # "open")
<1>5. \A j \in 1 .. Len(responses) : True(j, responses[j])
  BY <1>2 DEF RightAnswers
<1>6. True(n, a)
  BY <1>1, <1>3 DEF Truthful, n
<1>7. \A j \in 1 .. n : True(j, responses'[j])
  <2> HIDE DEF True
  <2> QED BY <1>2, <1>4, <1>5, <1>6
<1> QED BY <1>2, <1>7 DEF RightAnswers, n

LEMMA ServeSingle ==
  ASSUME PatientClients, TypeOK, Phases, Single, Serve
  PROVE  Single'
<1> DEFINE r == client.sent[Len(client.sent)]
<1>1. At("serve") /\ Served(r)
  BY ServeAnswers
<1>2. Handled(r)
  BY <1>1, RequestHandled
<1>3. /\ wire = <<>> /\ client.todo = <<>> /\ Len(responses) + 1 = Len(client.sent)
      /\ buf' = <<>> /\ wire' = wire /\ client' = client /\ worker'.pc \in {"recv", "close"}
  BY <1>1, <1>2 DEF Handled, Served
<1>4. Line' = <<>>
  BY <1>3 DEF Line
<1>5. OneOnTheLine' /\ AllReceived' /\ NotYetWhole'
  BY <1>3, <1>4 DEF OneOnTheLine, AllReceived, NotYetWhole, At
<1>6. RightAnswers /\ AnswersFit
  BY DEF Single
<1>7. RightAnswers' /\ AnswersFit'
  <2>1. CASE responses' = responses
    <3>1. RightAnswers'
      BY <1>3, <1>6, <2>1, RightStays
    <3> QED BY <1>3, <1>6, <2>1, <3>1 DEF AnswersFit
  <2>2. ASSUME NEW status \in {200, 400, 404, 501}, NEW keep \in BOOLEAN, Answers(r, status, keep)
        PROVE  RightAnswers' /\ AnswersFit'
    <3>1. RightAnswers' /\ Len(responses') = Len(client.sent)
      BY <1>3, <1>6, <2>2, AnswerIsRight
    <3> QED BY <1>3, <3>1, LineTyped DEF AnswersFit
  <2> QED BY <1>1, <2>1, <2>2 DEF Served
<1> QED BY <1>5, <1>7 DEF Single

\* What a recv adds: the end of the request, or part of it that is not too long.
LEMMA Delivered ==
  ASSUME PatientClients, TypeOK, Phases, Single, NEW n \in 1 .. Len(wire), Deliver(n)
  PROVE  /\ Line' = Line /\ buf' \in Seq(Unit) /\ buf' # <<>>
         /\ client' = client /\ responses' = responses
         /\ At("recv") /\ worker.conn = "open" /\ worker'.conn = "open"
         /\ \/ /\ worker'.pc = "serve" /\ wire' = <<>> /\ client.todo = <<>> /\ buf' = Whole
            \/ worker'.pc = "recv" /\ Len(buf') < Len(Whole)
<1> DEFINE x == SubSeq(wire, 1, n)
           y == SubSeq(wire, n + 1, Len(wire))
           t == client.todo
           b == buf \o x
<1>1. x \in Seq(Unit) /\ y \in Seq(Unit) /\ x \o y = wire /\ Len(x) = n
  BY LineTyped, CutInTwo
<1>2. buf \in Seq(Unit) /\ t \in Seq(Unit)
  BY LineTyped
<1>3. /\ At("recv") /\ worker.conn = "open" /\ wire' = y /\ client' = client /\ responses' = responses
      /\ IF Complete(b)
           THEN buf' = b /\ worker' = [worker EXCEPT !.pc = "serve"]
           ELSE IF Len(b) > MAX_REQUEST
                  THEN buf' = <<>> /\ worker' = [worker EXCEPT !.pc = "close"]
                  ELSE buf' = b /\ worker' = worker
  BY DEF Deliver
<1> HIDE DEF x, y
<1>4. b \in Seq(Unit) /\ y \o t \in Seq(Unit)
  BY <1>1, <1>2, Concatenation
<1>5. (buf \o x) \o y = buf \o wire
  <2>1. (buf \o x) \o y = buf \o (x \o y)
    <3>1. buf \in Seq(Unit) /\ x \in Seq(Unit) /\ y \in Seq(Unit)
      BY <1>1, <1>2
    <3> QED BY <3>1, Assoc, Zenon
  <2> QED BY <1>1, <2>1
<1>6. b # <<>>
  <2>1. Len(b) = Len(buf) + n /\ Len(buf) \in Nat
    BY <1>1, <1>2, Concatenation
  <2> HIDE DEF b
  <2>2. Len(b) # 0
    BY <2>1
  <2> QED BY <2>2
<1>7. Line = (b \o y) \o t
  BY <1>5 DEF Line
<1> HIDE DEF b, t
<1>8. Line = b \o (y \o t)
  <2>1. b \in Seq(Unit) /\ y \in Seq(Unit) /\ t \in Seq(Unit)
    BY <1>1, <1>2, <1>4
  <2>2. (b \o y) \o t = b \o (y \o t)
    BY <2>1, Assoc, Zenon
  <2> QED BY <1>7, <2>2
<1>9. ~At("close")
  BY <1>3 DEF At
<1>10. /\ BeginsRequest(b, Len(client.sent), client.sent[Len(client.sent)])
       /\ Len(b) \in 1 .. Len(Whole) /\ Whole \in Seq(Unit)
       /\ Len(b) = Len(Whole) => y \o t = <<>> /\ b = Whole
       /\ Len(Whole) <= MAX_REQUEST + 1
  BY <1>4, <1>6, <1>8, <1>9, LastRequest
<1>11. Complete(b) <=> Len(b) = Len(Whole)
  BY <1>10, CompleteSeen DEF Whole
<1>12. buf' = b
  <2>1. CASE Complete(b)
    BY <1>3, <2>1
  <2>2. CASE ~Complete(b)
    <3>1. Len(b) <= MAX_REQUEST
      BY <1>10, <1>11, <2>2, ConnectionAssumption
    <3>2. ~(Len(b) > MAX_REQUEST)
      BY <1>10, <3>1, ConnectionAssumption
    <3> QED BY <1>3, <2>2, <3>2
  <2> QED BY <2>1, <2>2
<1>13. Line' = Line
  BY <1>3, <1>7, <1>12 DEF Line, t
<1>14. CASE Complete(b)
  <2>1. y \o t = <<>> /\ b = Whole
    BY <1>10, <1>11, <1>14
  <2>2. y = <<>> /\ t = <<>>
    <3>1. Len(y \o t) = Len(y) + Len(t) /\ Len(y) \in Nat /\ Len(t) \in Nat
      BY <1>1, <1>2
    <3>2. Len(y \o t) = 0
      BY <2>1
    <3>3. Len(y) = 0 /\ Len(t) = 0
      BY <3>1, <3>2
    <3> QED BY <1>1, <1>2, <3>3
  <2>3. worker'.pc = "serve" /\ worker'.conn = "open"
    BY <1>3, <1>14 DEF TypeOK
  <2> QED BY <1>3, <1>4, <1>6, <1>12, <1>13, <2>1, <2>2, <2>3 DEF t
<1>15. CASE ~Complete(b)
  <2>1. worker'.pc = "recv" /\ worker'.conn = "open"
    <3>1. worker' = worker
      <4>1. ~(Len(b) > MAX_REQUEST)
        BY <1>10, <1>11, <1>15, ConnectionAssumption
      <4> QED BY <1>3, <1>15, <4>1
    <3> QED BY <1>3, <3>1 DEF At
  <2>2. Len(b) < Len(Whole)
    BY <1>10, <1>11, <1>15
  <2> QED BY <1>3, <1>4, <1>6, <1>12, <1>13, <2>1, <2>2
<1> QED BY <1>14, <1>15

\* Steps that leave the line, the requests and the responses alone.
LEMMA LineStays ==
  ASSUME TypeOK, Single, Line' = Line, responses' = responses,
         client'.sent = client.sent, client'.end = client.end, ~At("close")
  PROVE  OneOnTheLine' /\ AnswersFit' /\ RightAnswers' /\ Whole' = Whole
<1>1. Whole' = Whole
  BY DEF Whole
<1>2. OneOnTheLine'
  BY <1>1 DEF Single, OneOnTheLine
<1>3. RightAnswers'
  BY RightStays DEF Single
<1> QED BY <1>1, <1>2, <1>3 DEF Single, AnswersFit

LEMMA WorkerSingle ==
  ASSUME PatientClients, TypeOK, Phases, Single, WorkerStep
  PROVE  Single'
<1>1. CASE Serve
  BY <1>1, ServeSingle
<1>2. CASE Accept
  <2>1. /\ Line' = Line /\ responses' = responses /\ client'.sent = client.sent
        /\ client'.end = client.end /\ ~At("close") /\ worker'.pc = "recv" /\ buf' = <<>>
    BY <1>2 DEF Accept, Line, TypeOK, Phases, At
  <2>2. AllReceived' /\ NotYetWhole'
    BY <2>1 DEF AllReceived, NotYetWhole, At
  <2> QED BY <2>1, <2>2, LineStays DEF Single
<1>3. CASE RecvEnd
  <2>1. /\ Line' = Line /\ responses' = responses /\ client' = client /\ ~At("close")
        /\ wire' = <<>> /\ client.todo = <<>> /\ worker'.pc \in {"serve", "close"}
    BY <1>3 DEF RecvEnd, Line, TypeOK, Phases, At
  <2>2. AllReceived' /\ NotYetWhole'
    BY <2>1 DEF AllReceived, NotYetWhole, At
  <2> QED BY <2>1, <2>2, LineStays DEF Single
<1>4. CASE RecvFails
  <2>1. worker'.pc = "close" /\ client' = client /\ responses' = responses
    BY <1>4 DEF RecvFails, TypeOK
  <2>2. RightAnswers'
    BY <2>1, RightStays DEF Single
  <2> QED BY <2>1, <2>2 DEF Single, OneOnTheLine, AllReceived, NotYetWhole, AnswersFit, At
<1>5. CASE CloseConn
  <2>1. /\ buf' = <<>> /\ wire' = <<>> /\ client'.todo = <<>> /\ client'.sent = <<>>
        /\ responses' = <<>> /\ worker'.pc = "accept"
    BY <1>5 DEF CloseConn, Away, Idle
  <2>2. Line' = <<>>
    BY <2>1 DEF Line
  <2> QED BY <2>1, <2>2 DEF Single, OneOnTheLine, AllReceived, NotYetWhole, AnswersFit, RightAnswers, At
<1>6. ASSUME NEW n \in 1 .. Len(wire), Deliver(n)
      PROVE  Single'
  <2>1. /\ Line' = Line /\ client' = client /\ responses' = responses
        /\ At("recv") /\ worker.conn = "open" /\ worker'.conn = "open"
        /\ \/ worker'.pc = "serve" /\ wire' = <<>> /\ client.todo = <<>>
           \/ worker'.pc = "recv" /\ Len(buf') < Len(Whole)
    BY <1>6, Delivered
  <2>2. ~At("close")
    BY <2>1 DEF At
  <2>3. OneOnTheLine' /\ AnswersFit' /\ RightAnswers' /\ Whole' = Whole
    BY <2>1, <2>2, LineStays
  <2>4. AllReceived'
    BY <2>1 DEF AllReceived, At
  <2>5. NotYetWhole'
    BY <2>1, <2>3 DEF NotYetWhole, At
  <2> QED BY <2>3, <2>4, <2>5 DEF Single
<1> QED BY <1>1, <1>2, <1>3, <1>4, <1>5, <1>6 DEF WorkerStep, Serve

\* The client ends the connection: a beginning of the line is left.
LEMMA EndSingle ==
  ASSUME TypeOK, Phases, Single, buf' = buf, responses' = responses, worker' = worker,
         client'.sent = client.sent, client'.end # "open", client'.todo = <<>>,
         Line' \in Seq(Unit), NEW t \in Seq(Unit), Line = Line' \o t,
         wire = <<>> => wire' = <<>>
  PROVE  Single'
<1>1. Whole' = Whole
  BY DEF Whole
<1>2. ASSUME ~At("close"), Line' # <<>>
      PROVE  /\ client.sent # <<>> /\ Len(responses) + 1 = Len(client.sent)
             /\ Begins(Line', Whole)
  <2> DEFINE L == Line'
  <2>1. L \in Seq(Unit) /\ Line = L \o t /\ L # <<>>
    BY <1>2
  <2> HIDE DEF L
  <2>2. Line # <<>>
    <3>1. Len(Line) = Len(L) + Len(t) /\ Len(L) \in Nat /\ Len(t) \in Nat
      BY <2>1, Concatenation
    <3>2. Len(L) # 0
      BY <2>1
    <3>3. Len(Line) # 0
      BY <3>1, <3>2
    <3> QED BY <3>3
  <2>3. /\ client.sent # <<>> /\ Len(responses) + 1 = Len(client.sent) /\ Begins(Line, Whole)
    BY <1>2, <2>2 DEF Single, OneOnTheLine
  <2>4. Whole \in Seq(Unit)
    <3>1. client.sent \in Seq(Requests) /\ Len(client.sent) <= MaxRequests
      BY LineTyped DEF Phases
    <3>2. Len(client.sent) \in 1 .. MaxRequests /\ client.sent[Len(client.sent)] \in Requests
      BY <2>3, <3>1, ConnectionAssumption
    <3> QED BY <3>2, UnitsParts DEF Whole, Stream
  <2>5. Begins(L, Whole)
    BY <2>1, <2>3, <2>4, BeginsParts
  <2> QED BY <2>3, <2>5 DEF L
<1>3. OneOnTheLine'
  BY <1>1, <1>2 DEF OneOnTheLine, At
<1>4. AllReceived' /\ NotYetWhole'
  BY <1>1 DEF Single, AllReceived, NotYetWhole, At
<1>5. RightAnswers'
  BY RightStays DEF Single
<1> QED BY <1>3, <1>4, <1>5 DEF Single, AnswersFit

LEMMA ClientSingle ==
  ASSUME PatientClients, TypeOK, Phases, Single, ClientStep
  PROVE  Single'
<1>0. buf' = buf /\ worker' = worker /\ responses' = responses
  BY DEF ClientStep
<1>1. ASSUME wire' = wire, client'.todo = client.todo, client'.sent = client.sent,
             client'.end = client.end
      PROVE  Single'
  <2>1. Line' = Line /\ Whole' = Whole
    BY <1>0, <1>1 DEF Line, Whole
  <2>2. RightAnswers'
    BY <1>0, <1>1, RightStays DEF Single
  <2> QED BY <1>0, <1>1, <2>1, <2>2
          DEF Single, OneOnTheLine, AllReceived, NotYetWhole, AnswersFit, At
<1>2. CASE Connect
  <2>1. client = Away /\ client' = [Away EXCEPT !.st = "waiting"] /\ wire' = wire
    BY <1>2 DEF Connect, Phases
  <2> QED BY <1>1, <2>1 DEF Away
<1>3. CASE TurnDeaf
  BY <1>1, <1>3 DEF TurnDeaf, TypeOK
<1>4. CASE Finish
  <2>1. /\ wire' = wire /\ client'.todo = <<>> /\ client'.sent = client.sent
        /\ client'.end # "open"
    BY <1>4 DEF Finish, TypeOK
  <2>2. buf \o wire \in Seq(Unit) /\ client.todo \in Seq(Unit)
    BY LineTyped
  <2>3. Line' = buf \o wire
    BY <1>0, <2>1, <2>2, NoLine DEF Line
  <2>4. Line = Line' \o client.todo
    BY <2>3 DEF Line
  <2> QED BY <1>0, <2>1, <2>2, <2>3, <2>4, EndSingle
<1>5. CASE Reset
  <2>1. /\ wire' = <<>> /\ client'.todo = <<>> /\ client'.sent = client.sent
        /\ client'.end # "open"
    BY <1>5 DEF Reset, TypeOK
  <2>2. Line' = buf
    BY <1>0, <2>1, LineTyped, NoLine DEF Line
  <2>3. Line = Line' \o (wire \o client.todo) /\ wire \o client.todo \in Seq(Unit) /\ buf \in Seq(Unit)
    BY <2>2, LineTyped
  <2> QED BY <1>0, <2>1, <2>2, <2>3, EndSingle
<1>6. ASSUME NEW r \in Requests, NewRequest(r)
      PROVE  Single'
  <2> DEFINE n == Len(client.sent)
             t == Units(n + 1, r)
             A == Append(client.sent, r)
  <2>1. /\ client.end = "open" /\ client.todo = <<>> /\ wire' = wire /\ n < MaxRequests
        /\ client' = [client EXCEPT !.sent = A, !.todo = t]
        /\ Pipelining \/ Len(responses) >= n
    BY <1>6 DEF NewRequest, Alive
  <2>2. client'.sent = A /\ client'.todo = t /\ client'.end = "open"
    BY <2>1 DEF TypeOK
  <2>3. n \in Nat /\ Len(A) = n + 1 /\ A[n + 1] = r /\ \A j \in 1 .. n : A[j] = client.sent[j]
    BY LineTyped
  <2>4. Len(responses) = n
    <3>1. Len(responses) >= n /\ Len(responses) <= n /\ Len(responses) \in Nat
      BY <2>1, LineTyped DEF PatientClients, Single, AnswersFit
    <3> QED BY <2>3, <3>1
  <2>5. ~At("close") => Line = <<>>
    BY <2>3, <2>4 DEF Single, OneOnTheLine
  <2>6. ~At("serve")
    <3>1. At("serve") => ~At("close") /\ Line = buf /\ buf # <<>>
      BY LineServed DEF At, Phases
    <3> QED BY <2>5, <3>1
  <2>7. n + 1 \in 1 .. MaxRequests
    BY <2>1, <2>3, ConnectionAssumption
  <2>8. t \in Seq(Unit)
    BY <2>7, UnitsParts DEF Stream
  <2>9. Line' = (buf \o wire) \o t
    BY <1>0, <2>1, <2>2 DEF Line
  <2>10. Line = buf \o wire
    BY <2>1, LineTyped, NoLine DEF Line
  <2>11. Whole' = t
    BY <2>2, <2>3 DEF Whole
  <2>12. ~At("close") => Line' = t /\ buf = <<>>
    <3> SUFFICES ASSUME ~At("close") PROVE Line' = t /\ buf = <<>>
      OBVIOUS
    <3>1. buf \o wire = <<>>
      BY <2>5, <2>10
    <3>2. buf = <<>>
      <4>1. Len(buf \o wire) = Len(buf) + Len(wire) /\ Len(buf) \in Nat /\ Len(wire) \in Nat
        BY LineTyped
      <4>2. Len(buf) = 0
        BY <3>1, <4>1
      <4> QED BY <4>2, LineTyped
    <3> QED BY <2>8, <2>9, <3>1, <3>2, NoLine
  <2> HIDE DEF n, t, A
  <2>13. OneOnTheLine'
    <3>1. Begins(t, t)
      BY <2>8, BeginsItself
    <3>2. client'.sent # <<>>
      BY <2>2, <2>3
    <3>3. Len(responses') + 1 = Len(client'.sent)
      BY <1>0, <2>2, <2>3, <2>4
    <3> QED BY <1>0, <2>11, <2>12, <3>1, <3>2, <3>3 DEF OneOnTheLine, At
  <2>14. AllReceived'
    BY <1>0, <2>6 DEF AllReceived, At
  <2>15. NotYetWhole'
    BY <1>0, <2>12 DEF NotYetWhole, At
  <2>16. AnswersFit'
    BY <1>0, <2>2, <2>3, <2>4 DEF AnswersFit
  <2>17. RightAnswers'
    <3>1. \A j \in 1 .. Len(client.sent) : client'.sent[j] = client.sent[j]
      BY <2>2, <2>3 DEF n
    <3> QED BY <1>0, <2>1, <3>1, RightStays DEF Single
  <2> QED BY <2>13, <2>14, <2>15, <2>16, <2>17 DEF Single
<1>7. ASSUME NEW n \in 1 .. Len(client.todo), Write(n)
      PROVE  Single'
  <2> DEFINE x == SubSeq(client.todo, 1, n)
             y == SubSeq(client.todo, n + 1, Len(client.todo))
  <2>1. x \in Seq(Unit) /\ y \in Seq(Unit) /\ x \o y = client.todo /\ client.todo # <<>>
    BY LineTyped, CutInTwo
  <2>2. /\ wire' = wire \o x /\ client'.todo = y
        /\ client'.sent = client.sent /\ client'.end = client.end
    BY <1>7 DEF Write, TypeOK
  <2> HIDE DEF x, y
  <2>3. buf \in Seq(Unit) /\ wire \in Seq(Unit) /\ buf \o wire \in Seq(Unit)
    BY LineTyped
  <2>4. buf \o (wire \o x) = (buf \o wire) \o x
    <3>1. buf \in Seq(Unit) /\ wire \in Seq(Unit) /\ x \in Seq(Unit)
      BY <2>1, <2>3
    <3>2. (buf \o wire) \o x = buf \o (wire \o x)
      BY <3>1, Assoc, Zenon
    <3> QED BY <3>2
  <2>5. ((buf \o wire) \o x) \o y = (buf \o wire) \o (x \o y)
    <3>1. x \in Seq(Unit) /\ y \in Seq(Unit)
      BY <2>1
    <3> QED BY <2>3, <3>1, Assoc, Zenon
  <2>6. Line' = Line /\ Whole' = Whole
    BY <1>0, <2>1, <2>2, <2>4, <2>5 DEF Line, Whole
  <2>7. RightAnswers'
    BY <1>0, <2>2, RightStays DEF Single
  <2>8. OneOnTheLine'
    BY <1>0, <2>2, <2>6 DEF Single, OneOnTheLine, At
  <2>9. ~At("serve")
    BY <2>1 DEF Single, AllReceived
  <2>10. AllReceived' /\ NotYetWhole' /\ AnswersFit'
    BY <1>0, <2>2, <2>6, <2>9 DEF Single, AllReceived, NotYetWhole, AnswersFit, At
  <2> QED BY <2>7, <2>8, <2>10 DEF Single
<1> QED BY <1>2, <1>3, <1>4, <1>5, <1>6, <1>7 DEF ClientStep

LEMMA StepSingle ==
  PatientClients /\ TypeOK /\ Phases /\ Single /\ [Next]_vars => Single'
<1> SUFFICES ASSUME PatientClients, TypeOK, Phases, Single, [Next]_vars PROVE Single'
  OBVIOUS
<1>1. ASSUME UNCHANGED <<client, wire, buf, worker, responses>>
      PROVE  Single'
  <2>1. Line' = Line /\ Whole' = Whole
    BY <1>1 DEF Line, Whole
  <2>2. RightAnswers'
    BY <1>1, RightStays DEF Single
  <2>3. OneOnTheLine' /\ AllReceived' /\ NotYetWhole' /\ AnswersFit'
    BY <1>1, <2>1 DEF Single, OneOnTheLine, AllReceived, NotYetWhole, AnswersFit, At
  <2> QED BY <2>2, <2>3 DEF Single
<1>2. CASE AcceptFails
  BY <1>1, <1>2 DEF AcceptFails
<1>3. CASE UNCHANGED vars
  BY <1>1, <1>3 DEF vars
<1> QED BY <1>2, <1>3, WorkerSingle, ClientSingle DEF Next

LEMMA PatientInvariance ==
  ASSUME PatientClients
  PROVE  Spec => [](TypeOK /\ Phases /\ Single)
<1>1. Init => TypeOK /\ Phases /\ Single
  BY StartInPhase, StartSingle
<1>2. TypeOK /\ Phases /\ Single /\ [Next]_vars => (TypeOK /\ Phases /\ Single)'
  BY StepInPhase, StepSingle
<1> QED BY <1>1, <1>2, PTL DEF Spec

LEMMA HandledWhole ==
  ASSUME PatientClients, TypeOK, Phases, Single
  PROVE  RequestWhole
<1> SUFFICES ASSUME At("serve"), client.end = "open"
             PROVE  LET k == buf[1].k IN buf = Units(k, client.sent[k])
  BY DEF RequestWhole
<1>1. Handled(client.sent[Len(client.sent)])
  BY RequestHandled
<1>2. buf = Whole /\ buf[1].k = Len(client.sent)
  BY <1>1, RequestSeen DEF Handled
<1> QED BY <1>2 DEF Whole

\* A request of a patient client is handled only once all of it is there, in
\* however many pieces it came, for every set of delimited requests and every
\* buffer that holds them.
THEOREM RequestsWhole == ASSUME PatientClients PROVE Spec => []RequestWhole
<1>1. TypeOK /\ Phases /\ Single => RequestWhole
  BY HandledWhole
<1> QED BY <1>1, PatientInvariance, PTL

\* The responses are to the requests in their order, one each, and true.
THEOREM AnswersAreRight == ASSUME PatientClients PROVE Spec => []RightAnswers
<1>1. TypeOK /\ Phases /\ Single => RightAnswers
  BY DEF Single
<1> QED BY <1>1, PatientInvariance, PTL

-----------------------------------------------------------------------------
(***************************************************************************)
(* What is said of the connection.                                         *)
(***************************************************************************)

\* A request that has no answer is still on the line.
OwedOnTheLine ==
  ~At("close") /\ client.end = "open" /\ Len(responses) < Len(client.sent) => Line # <<>>

\* The worker goes on after what promised it, or after a 501 ...
GoesOnAsTold ==
  (At("recv") \/ At("serve")) /\ responses # <<>> /\ worker.conn = "open" =>
    Last(responses).keep \/ Last(responses).status = 501

\* ... and has closed the descriptor only after what said so.
ClosedAsTold ==
  worker.conn = "closed" => client.end = "reset" \/ (responses # <<>> /\ ~Last(responses).keep)

Kept == OwedOnTheLine /\ GoesOnAsTold /\ ClosedAsTold

LEMMA LastAppended ==
  ASSUME NEW S, NEW s \in Seq(S), NEW a
  PROVE  Last(Append(s, a)) = a /\ Append(s, a) # <<>>
<1>1. Len(Append(s, a)) = Len(s) + 1 /\ Append(s, a)[Len(s) + 1] = a /\ Len(s) \in Nat
  OBVIOUS
<1> DEFINE t == Append(s, a)
<1>2. Len(t) # 0
  BY <1>1
<1> HIDE DEF t
<1>3. t # <<>>
  BY <1>2
<1> QED BY <1>1, <1>3 DEF Last, t

LEMMA StartKept == Init => Kept
<1> SUFFICES ASSUME Init PROVE Kept
  OBVIOUS
<1>1. client.sent = <<>> /\ responses = <<>> /\ worker.pc = "accept" /\ worker.conn = "none"
  BY DEF Init, Away, Idle
<1> QED BY <1>1 DEF Kept, OwedOnTheLine, GoesOnAsTold, ClosedAsTold, At

LEMMA ServeKept ==
  ASSUME AnsweredClients, TypeOK, Phases, Single, Kept, Serve
  PROVE  Kept'
<1> DEFINE r == client.sent[Len(client.sent)]
<1>0. PatientClients
  BY DEF AnsweredClients
<1>1. At("serve") /\ Served(r)
  BY <1>0, ServeAnswers
<1>2. Handled(r)
  BY <1>0, <1>1, RequestHandled
<1>3. /\ Len(responses) + 1 = Len(client.sent) /\ client' = client
      /\ Answerable(r) /\ worker.conn = "open"
  BY <1>1, <1>2 DEF Served, Handled, BeginsRequest, AnsweredClients, Phases
<1>4. CASE responses' = responses /\ client.end = "reset"
  <2>1. GoesOnAsTold'
    BY <1>1, <1>3, <1>4 DEF Kept, GoesOnAsTold, At
  <2> QED BY <1>3, <1>4, <2>1 DEF Kept, OwedOnTheLine, ClosedAsTold
<1>5. ASSUME NEW status \in {200, 400, 404, 501}, NEW keep \in BOOLEAN, Answers(r, status, keep)
      PROVE  Kept'
  <2>1. RightAnswers' /\ Len(responses') = Len(client.sent)
    BY <1>3, <1>5, AnswerIsRight DEF Single
  <2>2. OwedOnTheLine'
    <3>1. Len(client.sent) \in Nat
      BY LineTyped
    <3> QED BY <1>3, <2>1, <3>1 DEF OwedOnTheLine
  <2> DEFINE a == Said(Len(client.sent), status, keep)
  <2>3. responses' = Append(responses, a) /\ Truthful(r, status, keep)
    BY <1>5 DEF Answers
  <2>4. a.status = status /\ a.keep = keep
    BY DEF Said
  <2> HIDE DEF a
  <2>5. Last(responses') = a /\ responses' # <<>>
    <3>1. responses \in Seq(Response)
      BY LineTyped
    <3>2. Last(Append(responses, a)) = a /\ Append(responses, a) # <<>>
      BY <3>1, LastAppended
    <3> QED BY <2>3, <3>2
  <2>6. GoesOnAsTold'
    BY <2>3, <2>4, <2>5 DEF GoesOnAsTold, Truthful, At
  <2>7. ClosedAsTold'
    BY <2>3, <2>4, <2>5 DEF ClosedAsTold, Truthful
  <2> QED BY <2>2, <2>6, <2>7 DEF Kept
<1> QED BY <1>1, <1>3, <1>4, <1>5 DEF Served

LEMMA StepKept ==
  AnsweredClients /\ TypeOK /\ Phases /\ Single /\ Kept /\ [Next]_vars => Kept'
<1> SUFFICES ASSUME AnsweredClients, TypeOK, Phases, Single, Kept, [Next]_vars PROVE Kept'
  OBVIOUS
<1>0. PatientClients
  BY DEF AnsweredClients
<1>1. ASSUME worker' = worker, responses' = responses, client'.sent = client.sent,
             \/ Line' = Line /\ client'.end = client.end
             \/ client'.end \in {"fin", "reset"} /\ client.end # "reset"
             \/ client'.end = "reset"
      PROVE  Kept'
  <2>1. OwedOnTheLine'
    BY <1>1 DEF Kept, OwedOnTheLine, At
  <2> QED BY <1>1, <2>1 DEF Kept, GoesOnAsTold, ClosedAsTold, At
<1>2. CASE Serve
  BY <1>2, ServeKept
<1>3. CASE Accept
  <2>1. /\ responses' = responses /\ responses = <<>> /\ Line' = Line /\ client'.sent = client.sent
        /\ client'.end = client.end /\ worker'.conn = "open" /\ ~At("close")
    BY <1>3 DEF Accept, Line, TypeOK, Phases, At
  <2> QED BY <2>1 DEF Kept, OwedOnTheLine, GoesOnAsTold, ClosedAsTold
<1>4. CASE RecvEnd
  <2>1. /\ Line' = Line /\ responses' = responses /\ client' = client /\ At("recv")
        /\ worker'.conn = worker.conn /\ worker'.pc \in {"serve", "close"}
    BY <1>4 DEF RecvEnd, Line, TypeOK
  <2>2. OwedOnTheLine'
    BY <2>1 DEF Kept, OwedOnTheLine, At
  <2> QED BY <2>1, <2>2 DEF Kept, GoesOnAsTold, ClosedAsTold, At
<1>5. CASE RecvFails
  <2>1. /\ worker'.pc = "close" /\ worker'.conn = worker.conn /\ client' = client
        /\ responses' = responses
    BY <1>5 DEF RecvFails, TypeOK
  <2> QED BY <2>1 DEF Kept, OwedOnTheLine, GoesOnAsTold, ClosedAsTold, At
<1>6. CASE CloseConn
  <2>1. client'.sent = <<>> /\ responses' = <<>> /\ worker'.pc = "accept" /\ worker'.conn = "none"
    BY <1>6 DEF CloseConn, Away, Idle
  <2> QED BY <2>1 DEF Kept, OwedOnTheLine, GoesOnAsTold, ClosedAsTold, At
<1>7. ASSUME NEW n \in 1 .. Len(wire), Deliver(n)
      PROVE  Kept'
  <2>1. /\ Line' = Line /\ client' = client /\ responses' = responses
        /\ At("recv") /\ worker.conn = "open" /\ worker'.conn = "open"
    BY <1>0, <1>7, Delivered
  <2>2. OwedOnTheLine'
    BY <2>1 DEF Kept, OwedOnTheLine, At
  <2> QED BY <2>1, <2>2 DEF Kept, GoesOnAsTold, ClosedAsTold, At
<1>8. CASE AcceptFails
  BY <1>1, <1>8 DEF AcceptFails, Line
<1>9. CASE UNCHANGED vars
  BY <1>1, <1>9 DEF vars, Line
<1>10. CASE ClientStep
  <2>0. buf' = buf /\ worker' = worker /\ responses' = responses
    BY <1>10 DEF ClientStep
  <2>1. CASE Connect
    <3>1. client = Away /\ client' = [Away EXCEPT !.st = "waiting"] /\ wire' = wire
      BY <2>1 DEF Connect, Phases
    <3>2. /\ client'.sent = client.sent /\ client'.end = client.end /\ client'.todo = client.todo
      BY <3>1 DEF Away
    <3> QED BY <1>1, <2>0, <3>1, <3>2 DEF Line
  <2>2. CASE TurnDeaf
    BY <1>1, <2>0, <2>2 DEF TurnDeaf, TypeOK, Line
  <2>3. CASE Finish
    BY <1>1, <2>0, <2>3 DEF Finish, TypeOK, Alive
  <2>4. CASE Reset
    BY <1>1, <2>0, <2>4 DEF Reset, TypeOK
  <2>5. ASSUME NEW n \in 1 .. Len(client.todo), Write(n)
        PROVE  Kept'
    <3> DEFINE x == SubSeq(client.todo, 1, n)
               y == SubSeq(client.todo, n + 1, Len(client.todo))
    <3>1. x \in Seq(Unit) /\ y \in Seq(Unit) /\ x \o y = client.todo
      BY LineTyped, CutInTwo
    <3>2. /\ wire' = wire \o x /\ client'.todo = y
          /\ client'.sent = client.sent /\ client'.end = client.end
      BY <2>5 DEF Write, TypeOK
    <3> HIDE DEF x, y
    <3>3. buf \in Seq(Unit) /\ wire \in Seq(Unit) /\ x \in Seq(Unit) /\ y \in Seq(Unit)
          /\ buf \o wire \in Seq(Unit)
      BY <3>1, LineTyped
    <3>4. (buf \o wire) \o x = buf \o (wire \o x)
      BY <3>3, Assoc, Zenon
    <3>5. ((buf \o wire) \o x) \o y = (buf \o wire) \o (x \o y)
      BY <3>3, Assoc, Zenon
    <3>6. Line' = Line
      BY <2>0, <3>1, <3>2, <3>4, <3>5 DEF Line
    <3> QED BY <1>1, <2>0, <3>2, <3>6
  <2>6. ASSUME NEW r \in Requests, NewRequest(r)
        PROVE  Kept'
    <3>1. /\ wire' = wire /\ client'.todo = Units(Len(client.sent) + 1, r) /\ client'.end = client.end
          /\ Len(client.sent) < MaxRequests
      BY <2>6 DEF NewRequest, TypeOK
    <3> DEFINE t == Units(Len(client.sent) + 1, r)
    <3>2. t \in Seq(Unit) /\ t # <<>>
      <4>1. Len(client.sent) + 1 \in 1 .. MaxRequests
        BY <3>1, LineTyped, ConnectionAssumption
      <4> QED BY <1>0, <4>1, WholeRequest DEF PatientClients
    <3>3. Line' = (buf \o wire) \o t
      BY <2>0, <3>1 DEF Line
    <3> HIDE DEF t
    <3>4. Line' # <<>>
      <4>1. buf \o wire \in Seq(Unit)
        BY LineTyped
      <4>2. Len((buf \o wire) \o t) = Len(buf \o wire) + Len(t) /\ Len(buf \o wire) \in Nat /\ Len(t) \in Nat
        BY <3>2, <4>1, Concatenation
      <4>3. Len(t) # 0
        BY <3>2
      <4>4. Len((buf \o wire) \o t) # 0
        BY <4>2, <4>3
      <4> QED BY <3>3, <4>4
    <3> QED BY <2>0, <3>1, <3>4 DEF Kept, OwedOnTheLine, GoesOnAsTold, ClosedAsTold, At
  <2> QED BY <1>10, <2>1, <2>2, <2>3, <2>4, <2>5, <2>6 DEF ClientStep
<1> QED BY <1>2, <1>3, <1>4, <1>5, <1>6, <1>7, <1>8, <1>9, <1>10 DEF Next, WorkerStep, Serve

LEMMA AnsweredInvariance ==
  ASSUME AnsweredClients
  PROVE  Spec => [](TypeOK /\ Phases /\ Single /\ Kept)
<1>1. Init => TypeOK /\ Phases /\ Single /\ Kept
  BY StartInPhase, StartSingle, StartKept
<1>2. TypeOK /\ Phases /\ Single /\ Kept /\ [Next]_vars => (TypeOK /\ Phases /\ Single /\ Kept)'
  BY StepInPhase, StepSingle, StepKept DEF AnsweredClients
<1> QED BY <1>1, <1>2, PTL DEF Spec

-----------------------------------------------------------------------------
(***************************************************************************)
(* The steps of the connection as steps of the session.                    *)
(***************************************************************************)

\* The state of the session.
State == IF At("close") THEN "closing" ELSE client.st
Writing == client.todo # <<>>
Ended == client.end # "open"

SameSession ==
  /\ State' = State /\ client'.sent = client.sent /\ Writing' = Writing
  /\ Ended' = Ended /\ responses' = responses

\* The answers of the session, which say nothing of places in the stream.
Sayings == [to : 1 .. MaxRequests, status : {200, 400, 404, 501}, keep : BOOLEAN]
Told(R) ==
  [j \in DOMAIN R |-> [to |-> R[j].to, status |-> R[j].status, keep |-> R[j].keep]]

LEMMA ToldOne ==
  ASSUME NEW R \in Seq(Response)
  PROVE  /\ Len(Told(R)) = Len(R) /\ DOMAIN Told(R) = 1 .. Len(R)
         /\ \A j \in 1 .. Len(R) : Told(R)[j] = [to |-> R[j].to, status |-> R[j].status, keep |-> R[j].keep]
         /\ Told(R) = <<>> <=> R = <<>>
         /\ Told(R) \in Seq(Sayings)
<1> DEFINE said(j) == [to |-> R[j].to, status |-> R[j].status, keep |-> R[j].keep]
<1>1. Len(R) \in Nat /\ DOMAIN R = 1 .. Len(R)
  OBVIOUS
<1>2. \A j \in 1 .. Len(R) : said(j) \in Sayings
  <2> TAKE j \in 1 .. Len(R)
  <2>1. R[j] \in Response
    OBVIOUS
  <2> QED BY <2>1 DEF Response, Sayings
<1>3. Told(R) = [j \in 1 .. Len(R) |-> said(j)]
  BY <1>1 DEF Told
<1> HIDE DEF said
<1> DEFINE T == Told(R)
<1>4. T \in Seq(Sayings) /\ Len(T) = Len(R) /\ DOMAIN T = 1 .. Len(R)
      /\ \A j \in 1 .. Len(R) : T[j] = said(j)
  BY <1>1, <1>2, <1>3
<1> HIDE DEF T
<1>5. T = <<>> <=> R = <<>>
  <2>1. T = <<>> <=> Len(T) = 0
    BY <1>4
  <2>2. R = <<>> <=> Len(R) = 0
    OBVIOUS
  <2> QED BY <1>4, <2>1, <2>2
<1> QED BY <1>4, <1>5 DEF T, said

LEMMA ToldMore ==
  ASSUME NEW R \in Seq(Response), NEW a \in Response
  PROVE  Told(Append(R, a)) = Append(Told(R), [to |-> a.to, status |-> a.status, keep |-> a.keep])
<1> DEFINE n == Len(R)
           L == Told(Append(R, a))
           e == [to |-> a.to, status |-> a.status, keep |-> a.keep]
           T == Told(R)
           M == Append(T, e)
<1>1. /\ Append(R, a) \in Seq(Response) /\ Len(Append(R, a)) = n + 1 /\ n \in Nat
      /\ Append(R, a)[n + 1] = a /\ \A j \in 1 .. n : Append(R, a)[j] = R[j]
  OBVIOUS
<1>2. /\ L \in Seq(Sayings) /\ Len(L) = n + 1 /\ L[n + 1] = e
      /\ \A j \in 1 .. n : L[j] = [to |-> R[j].to, status |-> R[j].status, keep |-> R[j].keep]
  <2>1. n + 1 \in 1 .. n + 1 /\ \A j \in 1 .. n : j \in 1 .. n + 1
    BY <1>1
  <2> DEFINE B == Append(R, a)
  <2>2. /\ B \in Seq(Response) /\ Len(B) = n + 1 /\ B[n + 1] = a
        /\ \A j \in 1 .. n : B[j] = R[j]
    BY <1>1
  <2>3. L = Told(B)
    OBVIOUS
  <2> HIDE DEF B, L, n
  <2>4. /\ Told(B) \in Seq(Sayings) /\ Len(Told(B)) = Len(B)
        /\ \A j \in 1 .. Len(B) :
             Told(B)[j] = [to |-> B[j].to, status |-> B[j].status, keep |-> B[j].keep]
    BY <2>2, ToldOne
  <2> QED BY <2>1, <2>2, <2>3, <2>4
<1>3. /\ T \in Seq(Sayings) /\ Len(T) = n
      /\ \A j \in 1 .. n : T[j] = [to |-> R[j].to, status |-> R[j].status, keep |-> R[j].keep]
  BY ToldOne
<1>4. e \in Sayings
  BY DEF Response, Sayings
<1> HIDE DEF n, L, e, T
<1>5. M \in Seq(Sayings) /\ Len(M) = n + 1 /\ M[n + 1] = e /\ \A j \in 1 .. n : M[j] = T[j]
  BY <1>1, <1>3, <1>4
<1> HIDE DEF M
<1>6. \A j \in 1 .. n + 1 : j \in 1 .. n \/ j = n + 1
  BY <1>1
<1>7. \A j \in 1 .. n + 1 : L[j] = M[j]
  BY <1>2, <1>3, <1>5, <1>6
<1>8. L = M
  BY <1>2, <1>5, <1>7, SeqEqual
<1> QED BY <1>8 DEF L, M, T, e

LEMMA SessionStutters == SameSession => UNCHANGED Session!vars
  BY DEF SameSession, State, Writing, Ended, Session!vars

\* Nothing the client sent and waits for is left to answer.
NothingDue ==
  Len(responses) < Len(client.sent) /\ (Len(responses) + 1 < Len(client.sent) \/ ~Writing) =>
    \/ Ended
    \/ responses # <<>> /\ ~responses[Len(responses)].keep

\* The session in these terms.
LEMMA SessionSays ==
  LET T == Told(responses)
  IN /\ Session!Due <=> Len(T) < Len(client.sent) /\ (Len(T) + 1 < Len(client.sent) \/ ~Writing)
     /\ Session!Closed <=> T # <<>> /\ ~T[Len(T)].keep
     /\ Session!GiveUp <=> /\ State = "connected" /\ (Session!Due => Ended \/ Session!Closed)
                           /\ State' = "closing"
                           /\ UNCHANGED <<client.sent, Writing, Ended, T>>
     /\ \A status, keep :
          Session!Answer(status, keep) <=>
            /\ State = "connected" /\ Session!Due
            /\ Session!Closed => T[Len(T)].status = 501
            /\ \/ status = Session!Right(client.sent[Len(T) + 1])
               \/ Ended /\ status \in {400, Session!Truth(client.sent[Len(T) + 1])}
            /\ keep => status = 200 /\ client.sent[Len(T) + 1].head.connection = "keep-alive"
            /\ Told(responses') = Append(T, [to |-> Len(T) + 1, status |-> status, keep |-> keep])
            /\ State' \in {"connected"} \cup (IF keep THEN {} ELSE {"closing"})
            /\ UNCHANGED <<client.sent, Writing, Ended>>
<1>1. /\ Session!Due <=> Len(Told(responses)) < Len(client.sent)
                         /\ (Len(Told(responses)) + 1 < Len(client.sent) \/ ~Writing)
      /\ Session!Closed <=> Told(responses) # <<>> /\ ~Told(responses)[Len(Told(responses))].keep
  BY Zenon DEF Told, Writing, Session!Due, Session!Closed
<1>2. Session!GiveUp <=> /\ State = "connected" /\ (Session!Due => Ended \/ Session!Closed)
                         /\ State' = "closing"
                         /\ UNCHANGED <<client.sent, Writing, Ended, Told(responses)>>
  BY Zenon DEF Told, Writing, Ended, State, Session!GiveUp
<1>3. ASSUME NEW status, NEW keep
      PROVE  Session!Answer(status, keep) <=>
            /\ State = "connected" /\ Session!Due
            /\ Session!Closed => Told(responses)[Len(Told(responses))].status = 501
            /\ \/ status = Session!Right(client.sent[Len(Told(responses)) + 1])
               \/ Ended /\ status \in {400, Session!Truth(client.sent[Len(Told(responses)) + 1])}
            /\ keep => status = 200 /\ client.sent[Len(Told(responses)) + 1].head.connection = "keep-alive"
            /\ Told(responses') = Append(Told(responses),
                                   [to |-> Len(Told(responses)) + 1, status |-> status, keep |-> keep])
            /\ State' \in {"connected"} \cup (IF keep THEN {} ELSE {"closing"})
            /\ UNCHANGED <<client.sent, Writing, Ended>>
  BY Zenon DEF Told, Writing, Ended, State, Session!Answer
<1> QED BY <1>1, <1>2, <1>3, Zenon

LEMMA GivesUp ==
  ASSUME TypeOK, State = "connected", State' = "closing", NothingDue, client'.sent = client.sent,
         Writing' = Writing, Ended' = Ended, responses' = responses
  PROVE  Session!GiveUp
<1>1. /\ Len(Told(responses)) = Len(responses) /\ (Told(responses) = <<>> <=> responses = <<>>)
      /\ responses # <<>> => Told(responses)[Len(responses)].keep = responses[Len(responses)].keep
  <2>1. responses \in Seq(Response)
    BY LineTyped
  <2> DEFINE m == Len(responses)
             T == Told(responses)
  <2>2. responses # <<>> => m \in 1 .. m
    BY <2>1
  <2>3. /\ Len(T) = m /\ (T = <<>> <=> responses = <<>>)
        /\ \A j \in 1 .. m :
             T[j] = [to |-> responses[j].to, status |-> responses[j].status, keep |-> responses[j].keep]
    BY <2>1, ToldOne
  <2> HIDE DEF m, T
  <2>4. responses # <<>> => T[m].keep = responses[m].keep
    BY <2>2, <2>3
  <2> QED BY <2>3, <2>4 DEF m, T
<1>2. UNCHANGED Told(responses)
  BY DEF Told
<1>3. Session!Due => Ended \/ Session!Closed
  BY <1>1, SessionSays DEF NothingDue
<1> QED BY <1>2, <1>3, SessionSays

LEMMA TimeoutNothingDue ==
  ASSUME AnsweredClients, TypeOK, Phases, Single, Kept, RecvFails
  PROVE  NothingDue
<1> SUFFICES ASSUME Len(responses) < Len(client.sent),
                    Len(responses) + 1 < Len(client.sent) \/ ~Writing,
                    ~Ended
             PROVE  responses # <<>> /\ ~responses[Len(responses)].keep
  BY DEF NothingDue
<1>0. PatientClients
  BY DEF AnsweredClients
<1>1. client.end = "open" /\ At("recv") /\ ~At("close")
  BY DEF RecvFails, Ended, At
<1>2. CASE worker.conn = "closed"
  BY <1>1, <1>2 DEF Kept, ClosedAsTold, Last
<1>3. CASE worker.conn # "closed"
  <2>1. wire = <<>> /\ Line # <<>>
    BY <1>1, <1>3 DEF RecvFails, Kept, OwedOnTheLine
  <2>2. Len(responses) + 1 = Len(client.sent) /\ Line = Whole
    BY <1>1, <2>1 DEF Single, OneOnTheLine
  <2>3. client.todo = <<>>
    <3>1. Len(client.sent) \in Nat
      BY LineTyped
    <3> QED BY <2>2, <3>1 DEF Writing
  <2>4. Line = buf /\ buf # <<>>
    BY <2>1, <2>3, LineTyped, NoLine DEF Line
  <2>5. Len(buf) < Len(Whole)
    BY <1>1, <2>4 DEF Single, NotYetWhole
  <2>6. Len(buf) \in Nat
    BY LineTyped
  <2> QED BY <2>2, <2>4, <2>5, <2>6
<1> QED BY <1>2, <1>3

LEMMA ServeInSession ==
  ASSUME AnsweredClients, TypeOK, Phases, Single, Kept, Serve
  PROVE  Session!Next \/ UNCHANGED Session!vars
<1> DEFINE n == Len(client.sent)
           r == client.sent[n]
<1>0. PatientClients
  BY DEF AnsweredClients
<1>1. At("serve") /\ Served(r)
  BY <1>0, ServeAnswers
<1>2. Handled(r)
  BY <1>0, <1>1, RequestHandled
<1>3. /\ Len(responses) + 1 = n /\ ~Writing /\ client.st = "connected" /\ State = "connected"
      /\ Answerable(r) /\ worker.conn = "open" /\ r \in Requests
      /\ client'.sent = client.sent /\ Writing' = Writing /\ Ended' = Ended
      /\ State' = (IF worker'.pc = "recv" THEN "connected" ELSE "closing")
  BY <1>1, <1>2 DEF Served, Handled, BeginsRequest, AnsweredClients, Phases,
                    State, Writing, Ended, At
<1>4. n \in Nat /\ Len(responses) \in Nat
  BY LineTyped
<1>5. CASE responses' = responses /\ client.end = "reset"
  <2>1. CASE worker'.pc = "recv"
    BY <1>3, <1>5, <2>1, SessionStutters DEF SameSession
  <2>2. CASE worker'.pc # "recv"
    <3>1. NothingDue
      BY <1>5 DEF NothingDue, Ended
    <3>2. Session!GiveUp
      BY <1>3, <1>5, <2>2, <3>1, GivesUp
    <3> QED BY <3>2 DEF Session!Next
  <2> QED BY <2>1, <2>2
<1>6. ASSUME NEW status \in {200, 400, 404, 501}, NEW keep \in BOOLEAN, Answers(r, status, keep)
      PROVE  Session!Next
  <2> DEFINE a == Said(n, status, keep)
             T == Told(responses)
             Even == [to |-> n, status |-> status, keep |-> keep]
  <2>1. responses' = Append(responses, a) /\ Truthful(r, status, keep)
    BY <1>6 DEF Answers
  <2>2. /\ a \in Response /\ a.to = n /\ a.status = status /\ a.keep = keep
        /\ responses \in Seq(Response)
    <3>1. responses \in Seq(Response) /\ buf \in Seq(Unit) /\ buf # <<>> /\ n \in 1 .. MaxRequests
      BY <1>1, <1>2, LineTyped DEF Phases, Handled, BeginsRequest
    <3>2. buf[1] \in Unit
      BY <3>1
    <3> QED BY <3>1, <3>2 DEF Said, Response, Unit
  <2> HIDE DEF a
  <2>3. /\ Told(responses') = Append(T, Even)
        /\ Len(T) = Len(responses) /\ (T = <<>> <=> responses = <<>>)
    <3>1. Told(Append(responses, a)) = Append(T, [to |-> a.to, status |-> a.status, keep |-> a.keep])
      BY <2>2, ToldMore
    <3>2. Len(T) = Len(responses) /\ (T = <<>> <=> responses = <<>>)
      BY <2>2, ToldOne
    <3> QED BY <2>1, <2>2, <3>1, <3>2
  <2>4. responses # <<>> =>
          /\ T[Len(T)].keep = Last(responses).keep /\ T[Len(T)].status = Last(responses).status
    <3> DEFINE m == Len(responses)
    <3>1. responses # <<>> => m \in 1 .. m
      BY <2>2
    <3>2. Len(T) = m /\ Last(responses) = responses[m]
      BY <2>3 DEF Last
    <3>3. \A j \in 1 .. m :
            T[j] = [to |-> responses[j].to, status |-> responses[j].status, keep |-> responses[j].keep]
      BY <2>2, ToldOne
    <3> HIDE DEF m, T
    <3> QED BY <3>1, <3>2, <3>3
  <2>5. T # <<>> /\ ~T[Len(T)].keep => T[Len(T)].status = 501
    BY <1>1, <1>3, <2>3, <2>4 DEF Kept, GoesOnAsTold
  <2>6. Session!Right(r) = IF Spoilt(r) THEN 400 ELSE Session!Truth(r)
    BY <1>3 DEF Session!Right
  <2>7. \/ status = Session!Right(r)
        \/ Ended /\ status \in {400, Session!Truth(r)}
    <3>1. status # 400 => status = Session!Truth(r)
      BY <2>1 DEF Truthful, Session!Truth
    <3>2. r.head.method = "GET" => ~Spoilt(r)
      BY <1>0, <1>3 DEF PatientClients, Delimited, Bodiless, Spoilt
    <3>3. status = 400 => Spoilt(r) \/ Ended
      BY <2>1 DEF Truthful, Ended
    <3>4. status # 400 => ~Spoilt(r) \/ Ended
      BY <2>1, <3>2 DEF Truthful, Ended
    <3> QED BY <2>6, <3>1, <3>3, <3>4
  <2>8. keep => status = 200 /\ r.head.connection = "keep-alive"
    BY <2>1 DEF Truthful
  <2>9. State' \in {"connected"} \cup (IF keep THEN {} ELSE {"closing"})
    <3>1. keep => worker'.pc = "recv"
      BY <2>1 DEF Truthful
    <3> QED BY <1>3, <3>1
  <2>10. Len(T) + 1 = n /\ Len(T) < n
    BY <1>3, <1>4, <2>3
  <2> HIDE DEF T, Even
  <2>11. Session!Due
    BY <1>3, <2>10, SessionSays DEF T
  <2>12. Session!Closed => T[Len(T)].status = 501
    BY <2>5, SessionSays DEF T
  <2>13. Session!Answer(status, keep)
    <3>1. Told(responses') = Append(T, [to |-> Len(T) + 1, status |-> status, keep |-> keep])
      BY <2>3, <2>10 DEF Even
    <3>2. client.sent[Len(T) + 1] = r
      BY <2>10 DEF r
    <3>3. State = "connected" /\ UNCHANGED <<client.sent, Writing, Ended>>
      BY <1>3
    <3> QED BY <2>7, <2>8, <2>9, <2>11, <2>12, <3>1, <3>2, <3>3, SessionSays DEF T
  <2> QED BY <2>13 DEF Session!Next
<1> QED BY <1>1, <1>3, <1>5, <1>6 DEF Served

LEMMA WorkerInSession ==
  ASSUME AnsweredClients, TypeOK, Phases, Single, Kept, WorkerStep
  PROVE  Session!Next \/ UNCHANGED Session!vars
<1>0. PatientClients
  BY DEF AnsweredClients
<1>1. CASE Serve
  BY <1>1, ServeInSession
<1>2. CASE Accept
  <2>1. Session!Accept
    BY <1>2 DEF Accept, At, TypeOK, Session!Accept
  <2> QED BY <2>1 DEF Session!Next
<1>3. CASE RecvEnd
  <2>1. /\ client' = client /\ responses' = responses /\ client.end = "fin"
        /\ State = "connected" /\ worker'.pc \in {"serve", "close"}
    BY <1>3 DEF RecvEnd, TypeOK, Phases, State, At
  <2>2. Writing' = Writing /\ Ended' = Ended
    BY <2>1 DEF Writing, Ended
  <2>3. CASE worker'.pc = "serve"
    <3>1. State' = State
      BY <2>1, <2>3 DEF State, At
    <3> QED BY <2>1, <2>2, <3>1, SessionStutters DEF SameSession
  <2>4. CASE worker'.pc = "close"
    <3>1. State' = "closing"
      BY <2>4 DEF State, At
    <3>2. NothingDue
      BY <2>1 DEF NothingDue, Ended
    <3>3. Session!GiveUp
      BY <2>1, <2>2, <3>1, <3>2, GivesUp
    <3> QED BY <3>3 DEF Session!Next
  <2> QED BY <2>1, <2>3, <2>4
<1>4. CASE RecvFails
  <2>1. /\ client' = client /\ responses' = responses /\ State = "connected" /\ State' = "closing"
    BY <1>4 DEF RecvFails, TypeOK, Phases, State, At
  <2>2. Writing' = Writing /\ Ended' = Ended
    BY <2>1 DEF Writing, Ended
  <2>3. Session!GiveUp
    BY <1>4, <2>1, <2>2, GivesUp, TimeoutNothingDue
  <2> QED BY <2>3 DEF Session!Next
<1>5. CASE CloseConn
  <2>1. Session!HangUp
    BY <1>5 DEF CloseConn, Away, Idle, At, Session!HangUp, Session!Gone
  <2> QED BY <2>1 DEF Session!Next
<1>6. ASSUME NEW m \in 1 .. Len(wire), Deliver(m)
      PROVE  UNCHANGED Session!vars
  <2>1. /\ client' = client /\ responses' = responses /\ At("recv")
        /\ worker'.pc \in {"serve", "recv"}
    BY <1>0, <1>6, Delivered
  <2>2. SameSession
    BY <2>1 DEF SameSession, State, Writing, Ended, At
  <2> QED BY <2>2, SessionStutters
<1> QED BY <1>1, <1>2, <1>3, <1>4, <1>5, <1>6 DEF WorkerStep, Serve

LEMMA ClientInSession ==
  ASSUME PatientClients, TypeOK, Phases, ClientStep
  PROVE  Session!Next \/ UNCHANGED Session!vars
<1>0. worker' = worker /\ responses' = responses
  BY DEF ClientStep
<1>1. CASE Connect
  <2>1. /\ client = Away /\ client' = [Away EXCEPT !.st = "waiting"] /\ ~At("close")
    BY <1>1 DEF Connect, Phases, Away, At
  <2>2. Session!Arrive
    BY <1>0, <2>1 DEF Away, At, Session!Arrive
  <2> QED BY <2>2 DEF Session!Next
<1>2. CASE TurnDeaf
  <2>1. SameSession
    BY <1>0, <1>2 DEF TurnDeaf, TypeOK, SameSession, State, Writing, Ended, At
  <2> QED BY <2>1, SessionStutters
<1>3. CASE Finish \/ Reset
  <2>1. /\ client.st # "away" /\ client'.st = client.st /\ client'.sent = client.sent
        /\ client'.todo = <<>> /\ client'.end # "open"
    BY <1>3 DEF Finish, Reset, Alive, TypeOK
  <2>2. Session!End
    BY <1>0, <2>1 DEF At, Session!End
  <2> QED BY <2>2 DEF Session!Next
<1>4. ASSUME NEW r \in Requests, NewRequest(r)
      PROVE  Session!Next
  <2> DEFINE t == Units(Len(client.sent) + 1, r)
  <2>1. /\ client.st # "away" /\ client.end = "open" /\ client.todo = <<>>
        /\ client'.st = client.st /\ client'.end = client.end
        /\ client'.sent = Append(client.sent, r) /\ client'.todo = t
        /\ Len(client.sent) < MaxRequests
    BY <1>4 DEF NewRequest, Alive, TypeOK
  <2>2. Len(client.sent) + 1 \in 1 .. MaxRequests
    BY <2>1, LineTyped, ConnectionAssumption
  <2>3. t # <<>>
    BY <2>2, WholeRequest DEF PatientClients
  <2> HIDE DEF t
  <2>4. Session!Ask(r)
    BY <1>0, <2>1, <2>3 DEF At, Session!Ask
  <2> QED BY <2>4 DEF Session!Next
<1>5. ASSUME NEW n \in 1 .. Len(client.todo), Write(n)
      PROVE  Session!Next \/ UNCHANGED Session!vars
  <2>1. client.todo # <<>>
    BY <1>5, LineTyped
  <2>2. client'.st = client.st /\ client'.end = client.end /\ client'.sent = client.sent
    BY <1>5 DEF Write, TypeOK
  <2>3. CASE client'.todo = <<>>
    <3>1. Session!WriteRest
      BY <1>0, <2>1, <2>2, <2>3 DEF At, Session!WriteRest
    <3> QED BY <3>1 DEF Session!Next
  <2>4. CASE client'.todo # <<>>
    <3>1. SameSession
      BY <1>0, <2>1, <2>2, <2>4 DEF SameSession, State, Writing, Ended, At
    <3> QED BY <3>1, SessionStutters
  <2> QED BY <2>3, <2>4
<1> QED BY <1>1, <1>2, <1>3, <1>4, <1>5 DEF ClientStep

LEMMA StepInSession ==
  AnsweredClients /\ TypeOK /\ Phases /\ Single /\ Kept /\ [Next]_vars
    => [Session!Next]_(Session!vars)
<1> SUFFICES ASSUME AnsweredClients, TypeOK, Phases, Single, Kept, [Next]_vars
             PROVE  Session!Next \/ UNCHANGED Session!vars
  OBVIOUS
<1>1. ASSUME UNCHANGED <<client, worker, responses>>
      PROVE  UNCHANGED Session!vars
  <2>1. SameSession
    BY <1>1 DEF SameSession, State, Writing, Ended, At
  <2> QED BY <2>1, SessionStutters
<1>2. CASE AcceptFails
  BY <1>1, <1>2 DEF AcceptFails
<1>3. CASE UNCHANGED vars
  BY <1>1, <1>3 DEF vars
<1> QED BY <1>2, <1>3, WorkerInSession, ClientInSession DEF Next, AnsweredClients

LEMMA StartInSession == Init => Session!Init
  BY DEF Init, Away, Idle, At, Session!Init, Session!Gone

\* For patient clients whose requests the server answers, the worker implements
\* the abstract session: every step of it, of the client and of the stream is
\* a step of the session, or none.
THEOREM ImplementsSessionThm == ASSUME AnsweredClients PROVE Spec => ImplementsSession
<1>1. TypeOK /\ Phases /\ Single /\ Kept /\ [Next]_vars => [Session!Next]_(Session!vars)
  BY StepInSession
<1>2. Spec => [](TypeOK /\ Phases /\ Single /\ Kept)
  BY AnsweredInvariance
<1> QED BY <1>1, <1>2, StartInSession, PTL DEF Spec, ImplementsSession, Session!Spec

-----------------------------------------------------------------------------
(***************************************************************************)
(* The Connection field of a response is kept to.                          *)
(***************************************************************************)

\* The connection is given up in this step only if nobody was promised it.
KeepsOn ==
  responses' # <<>> /\ (At("recv") \/ At("serve")) /\ Last(responses').keep /\ worker'.pc = "close" =>
    client.end # "open" \/ (At("recv") /\ wire = <<>>)

\* What is received in this step is received after a response that allows it.
Obeys ==
  responses' # <<>> /\ At("recv") /\ buf' # <<>> =>
    Last(responses').keep \/ Last(responses').status = 501

LEMMA ServeKeepsOn ==
  ASSUME AnsweredClients, TypeOK, Phases, Single, Serve
  PROVE  KeepsOn /\ Obeys
<1> DEFINE r == client.sent[Len(client.sent)]
<1>0. PatientClients
  BY DEF AnsweredClients
<1>1. At("serve") /\ Served(r)
  BY <1>0, ServeAnswers
<1>2. Answerable(r)
  <2>1. Handled(r)
    BY <1>0, <1>1, RequestHandled
  <2> QED BY <2>1 DEF Handled, BeginsRequest, AnsweredClients
<1>3. Obeys
  BY <1>1 DEF Obeys, At
<1>4. CASE client.end = "reset"
  BY <1>3, <1>4 DEF KeepsOn
<1>5. ASSUME NEW status \in {200, 400, 404, 501}, NEW keep \in BOOLEAN, Answers(r, status, keep)
      PROVE  KeepsOn
  <2> DEFINE a == Said(Len(client.sent), status, keep)
  <2>1. responses' = Append(responses, a) /\ (keep => worker'.pc = "recv")
    BY <1>5 DEF Answers, Truthful
  <2>2. responses \in Seq(Response)
    BY LineTyped
  <2>3. Last(Append(responses, a)) = a
    BY <2>2, LastAppended
  <2>4. Last(responses').keep = keep
    BY <2>1, <2>3 DEF Said
  <2> QED BY <2>1, <2>4 DEF KeepsOn
<1> QED BY <1>1, <1>2, <1>3, <1>4, <1>5 DEF Served

LEMMA StepKeepsOn ==
  ASSUME AnsweredClients, TypeOK, Phases, Single, Kept, [Next]_vars
  PROVE  KeepsOn /\ Obeys
<1>0. PatientClients
  BY DEF AnsweredClients
<1>1. CASE Serve
  BY <1>1, ServeKeepsOn
<1>2. ASSUME responses' = responses,
             At("recv") /\ worker'.pc = "close" => client.end # "open" \/ wire = <<>> \/ worker.conn = "closed",
             At("serve") => worker'.pc # "close",
             At("recv") /\ buf' # <<>> => worker.conn = "open"
      PROVE  KeepsOn /\ Obeys
  <2>1. KeepsOn
    BY <1>2 DEF KeepsOn, Kept, ClosedAsTold, At
  <2>2. Obeys
    BY <1>2 DEF Obeys, Kept, GoesOnAsTold
  <2> QED BY <2>1, <2>2
<1>3. At("recv") /\ buf # <<>> => worker.conn = "open"
  BY DEF Single, NotYetWhole
<1>4. ASSUME responses' = responses, buf' = buf, worker' = worker
      PROVE  KeepsOn /\ Obeys
  BY <1>2, <1>3, <1>4 DEF At
<1>5. CASE AcceptFails \/ ClientStep \/ UNCHANGED vars
  BY <1>4, <1>5 DEF AcceptFails, ClientStep, vars
<1>6. CASE Accept \/ CloseConn
  <2>1. ~At("recv") /\ ~At("serve")
    BY <1>6 DEF Accept, CloseConn, At
  <2> QED BY <2>1 DEF KeepsOn, Obeys
<1>7. CASE RecvEnd
  <2>1. At("recv") /\ responses' = responses /\ buf' = buf /\ client.end = "fin"
    BY <1>7 DEF RecvEnd
  <2> QED BY <1>2, <1>3, <2>1 DEF At
<1>8. CASE RecvFails
  <2>1. /\ At("recv") /\ responses' = responses /\ buf' = <<>>
        /\ worker.conn = "closed" \/ wire = <<>> \/ client.end # "open"
    BY <1>8 DEF RecvFails
  <2> QED BY <1>2, <2>1 DEF At
<1>9. ASSUME NEW n \in 1 .. Len(wire), Deliver(n)
      PROVE  KeepsOn /\ Obeys
  <2>1. /\ At("recv") /\ responses' = responses /\ worker.conn = "open"
        /\ worker'.pc \in {"serve", "recv"}
    BY <1>0, <1>9, Delivered
  <2> QED BY <1>2, <2>1 DEF At
<1> QED BY <1>1, <1>5, <1>6, <1>7, <1>8, <1>9 DEF Next, WorkerStep, Serve

\* What the Connection field of a response says is what happens, for every set
\* of answerable requests.
THEOREM PromiseIsKept == ASSUME AnsweredClients PROVE Spec => PromiseKept
<1>1. TypeOK /\ Phases /\ Single /\ Kept /\ [Next]_vars =>
        (responses' # <<>> =>
           LET last == Last(responses')
           IN /\ At("recv") \/ At("serve") =>
                   (last.keep /\ worker'.pc = "close" =>
                      client.end # "open" \/ (At("recv") /\ wire = <<>>))
              /\ At("recv") /\ buf' # <<>> => last.keep \/ last.status = 501)
  <2> SUFFICES ASSUME TypeOK, Phases, Single, Kept, [Next]_vars, responses' # <<>>
               PROVE  /\ At("recv") \/ At("serve") =>
                           (Last(responses').keep /\ worker'.pc = "close" =>
                              client.end # "open" \/ (At("recv") /\ wire = <<>>))
                      /\ At("recv") /\ buf' # <<>> =>
                           Last(responses').keep \/ Last(responses').status = 501
    OBVIOUS
  <2>1. KeepsOn /\ Obeys
    BY StepKeepsOn
  <2> QED BY <2>1 DEF KeepsOn, Obeys
<1>2. Spec => [](TypeOK /\ Phases /\ Single /\ Kept)
  BY AnsweredInvariance
<1> QED BY <1>1, <1>2, PTL DEF Spec, PromiseKept

=============================================================================

-------------------------- MODULE ConnectionProofs --------------------------
(***************************************************************************)
(* Proofs about one connection in blocking mode for every set of requests  *)
(* a client may send, pipelined or not, cut anywhere, and for every limit  *)
(* of the buffer.                                                          *)
(***************************************************************************)
EXTENDS Connection, WellFoundedInduction, SequenceTheorems, TLAPS

\* What has been received and not answered, has arrived, or will be written.
Line == buf \o wire \o client.todo

-----------------------------------------------------------------------------
(***************************************************************************)
(* Sequences of units.                                                     *)
(***************************************************************************)

LEMMA Concatenation ==
  ASSUME NEW S, NEW s \in Seq(S), NEW b \in Seq(S)
  PROVE  /\ s \o b \in Seq(S)
         /\ Len(s) \in Nat /\ Len(b) \in Nat /\ Len(s \o b) = Len(s) + Len(b)
         /\ \A j \in 1 .. Len(s) : (s \o b)[j] = s[j]
         /\ \A x \in 1 .. Len(b) : (s \o b)[Len(s) + x] = b[x]
  OBVIOUS

\* A sequence cut in two.
LEMMA CutInTwo ==
  ASSUME NEW S, NEW s \in Seq(S), NEW n \in 1 .. Len(s)
  PROVE  /\ SubSeq(s, 1, n) \in Seq(S) /\ SubSeq(s, n + 1, Len(s)) \in Seq(S)
         /\ Len(SubSeq(s, 1, n)) = n /\ Len(SubSeq(s, n + 1, Len(s))) = Len(s) - n
         /\ SubSeq(s, 1, n) \o SubSeq(s, n + 1, Len(s)) = s
  BY ConcatAdjacentSubSeq, SubSeqFull

\* The pieces of a request: its header, if it has one, and its body.
LEMMA TextParts ==
  ASSUME NEW r \in Requests
  PROVE  /\ r \in Shapes /\ r.body \in Seq(Pieces)
         /\ Text(r) \in Seq(Pieces)
         /\ r.head.method # "none" =>
              /\ Len(Text(r)) = 3 + Len(r.body)
              /\ Text(r)[1] = [part |-> "line", head |-> r.head]
              /\ Text(r)[2] = [part |-> "fields", head |-> r.head]
              /\ Text(r)[3] = [part |-> "end", head |-> r.head]
              /\ \A x \in 1 .. Len(r.body) : Text(r)[3 + x] = r.body[x]
<1> DEFINE piece(part) == [part |-> part, head |-> r.head]
           header == IF r.head.method = "none" THEN <<>>
                       ELSE <<piece("line"), piece("fields"), piece("end")>>
<1>1. r \in Shapes /\ r.body \in Seq(Pieces) /\ r.head \in Heads
  BY ConnectionAssumption DEF Shapes
<1>2. header \in Seq(Pieces)
  <2>1. piece("line") \in Pieces /\ piece("fields") \in Pieces /\ piece("end") \in Pieces
    BY <1>1 DEF Pieces, Parts
  <2>2. /\ \A x, y, z \in Pieces : <<x, y, z>> \in Seq(Pieces)
        /\ <<>> \in Seq(Pieces)
    OBVIOUS
  <2>3. <<piece("line"), piece("fields"), piece("end")>> \in Seq(Pieces)
    BY <2>1, <2>2, Zenon
  <2> QED BY <2>2, <2>3, Zenon
<1>3. r.head.method # "none" =>
        /\ Len(header) = 3 /\ header[1] = piece("line")
        /\ header[2] = piece("fields") /\ header[3] = piece("end")
  <2>1. r.head.method # "none" => header = <<piece("line"), piece("fields"), piece("end")>>
    BY Zenon
  <2>2. \A x, y, z : Len(<<x, y, z>>) = 3 /\ <<x, y, z>>[1] = x /\ <<x, y, z>>[2] = y /\ <<x, y, z>>[3] = z
    OBVIOUS
  <2> QED BY <2>1, <2>2, Zenon
<1>4. Text(r) = header \o r.body
  BY DEF Text
<1> HIDE DEF header
<1>5. /\ Text(r) \in Seq(Pieces) /\ Len(Text(r)) = Len(header) + Len(r.body)
      /\ \A j \in 1 .. Len(header) : Text(r)[j] = header[j]
      /\ \A x \in 1 .. Len(r.body) : Text(r)[Len(header) + x] = r.body[x]
  BY <1>1, <1>2, <1>4, Concatenation
<1>6. r.head.method # "none" =>
        /\ Len(Text(r)) = 3 + Len(r.body)
        /\ Text(r)[1] = piece("line") /\ Text(r)[2] = piece("fields") /\ Text(r)[3] = piece("end")
        /\ \A x \in 1 .. Len(r.body) : Text(r)[3 + x] = r.body[x]
  <2> SUFFICES ASSUME r.head.method # "none"
               PROVE  /\ Len(Text(r)) = 3 + Len(r.body)
                      /\ Text(r)[1] = piece("line") /\ Text(r)[2] = piece("fields")
                      /\ Text(r)[3] = piece("end")
                      /\ \A x \in 1 .. Len(r.body) : Text(r)[3 + x] = r.body[x]
    OBVIOUS
  <2>1. Len(header) = 3 /\ header[1] = piece("line") /\ header[2] = piece("fields") /\ header[3] = piece("end")
    BY <1>3
  <2> HIDE DEF piece
  <2>2. Len(Text(r)) = 3 + Len(r.body) /\ \A x \in 1 .. Len(r.body) : Text(r)[3 + x] = r.body[x]
    BY <1>5, <2>1
  <2>3. 1 \in 1 .. Len(header) /\ 2 \in 1 .. Len(header) /\ 3 \in 1 .. Len(header)
    BY <2>1
  <2>4. Text(r)[1] = piece("line") /\ Text(r)[2] = piece("fields") /\ Text(r)[3] = piece("end")
    BY <1>5, <2>1, <2>3, Zenon
  <2> QED BY <2>2, <2>4
<1> QED BY <1>1, <1>5, <1>6

\* Its units, at their places.
LEMMA UnitsParts ==
  ASSUME NEW k \in 1 .. MaxRequests, NEW r \in Requests
  PROVE  /\ Units(k, r) \in Stream /\ Len(Units(k, r)) = Len(Text(r))
         /\ \A i \in 1 .. Len(Text(r)) :
              /\ Units(k, r)[i].k = k /\ Units(k, r)[i].i = i
              /\ Units(k, r)[i].part = Text(r)[i].part
              /\ Units(k, r)[i].head = Text(r)[i].head
<1> DEFINE t == Text(r)
           unit(i) == [k |-> k, i |-> i, part |-> t[i].part, head |-> t[i].head]
<1>1. t \in Seq(Pieces)
  BY TextParts
<1>2. Units(k, r) = [i \in 1 .. Len(t) |-> unit(i)]
  BY <1>1 DEF Units
<1> HIDE DEF t
<1>3. \A i \in 1 .. Len(t) : unit(i) \in Unit
  <2> TAKE i \in 1 .. Len(t)
  <2>1. t[i] \in Pieces /\ i \in Nat
    BY <1>1
  <2> QED BY <2>1 DEF Pieces, Unit
<1> HIDE DEF unit
<1>4. Units(k, r) \in Seq(Unit) /\ Len(Units(k, r)) = Len(t)
      /\ \A i \in 1 .. Len(t) : Units(k, r)[i] = unit(i)
  BY <1>1, <1>2, <1>3
<1>5. \A i \in 1 .. Len(t) : /\ Units(k, r)[i].k = k /\ Units(k, r)[i].i = i
                             /\ Units(k, r)[i].part = t[i].part
                             /\ Units(k, r)[i].head = t[i].head
  <2> TAKE i \in 1 .. Len(t)
  <2>1. Units(k, r)[i] = [k |-> k, i |-> i, part |-> t[i].part, head |-> t[i].head]
    BY <1>4 DEF unit
  <2> QED BY <2>1
<1>6. Units(k, r) \in Stream
  BY <1>4 DEF Stream
<1> QED BY <1>4, <1>5, <1>6, Zenon DEF t

-----------------------------------------------------------------------------
(***************************************************************************)
(* The first blank line, and the first zero byte.                          *)
(***************************************************************************)

\* A set of indices that is not empty has a least one.
LEMMA LeastIndex ==
  ASSUME NEW n \in Nat, NEW I \in SUBSET (1 .. n), I # {}
  PROVE  Min(I) \in I /\ \A j \in I : Min(I) <= j
<1> DEFINE R == OpToRel(<, Nat)
<1>1. I \subseteq Nat
  OBVIOUS
<1>2. IsWellFoundedOn(R, Nat)
  BY NatLessThanWellFounded
<1>3. \A i, j \in Nat : <<j, i>> \in R <=> j < i
  BY DEF OpToRel
<1> HIDE DEF R
<1>4. PICK i \in I : \A j \in I : <<j, i>> \notin R
  BY <1>1, <1>2, WFMin
<1>5. \A j \in I : ~(j < i)
  BY <1>1, <1>3, <1>4, Zenon
<1>6. \A j \in I : i <= j
  BY <1>1, <1>5
<1> QED BY <1>6 DEF Min

LEMMA HeaderEndFirst ==
  ASSUME NEW b \in Stream
  PROVE  /\ HeaderEnd(b) \in 0 .. Len(b)
         /\ HeaderEnd(b) = 0 => \A i \in 1 .. Len(b) : b[i].part \notin Blanks
         /\ HeaderEnd(b) # 0 =>
              /\ b[HeaderEnd(b)].part \in Blanks
              /\ \A i \in 1 .. Len(b) : i < HeaderEnd(b) => b[i].part \notin Blanks
<1> DEFINE I == {i \in 1 .. Len(b) : b[i].part \in Blanks}
<1>1. Len(b) \in Nat
  BY DEF Stream
<1>2. HeaderEnd(b) = IF I # {} THEN Min(I) ELSE 0
  BY DEF HeaderEnd, SelectInSeq
<1>3. CASE I = {}
  BY <1>1, <1>2, <1>3
<1>4. CASE I # {}
  <2>1. HeaderEnd(b) = Min(I)
    BY <1>2, <1>4
  <2>2. I \in SUBSET (1 .. Len(b))
    OBVIOUS
  <2>3. \A i \in 1 .. Len(b) : i \in I <=> b[i].part \in Blanks
    OBVIOUS
  <2> HIDE DEF I
  <2>4. Min(I) \in I /\ \A j \in I : Min(I) <= j
    BY <1>1, <1>4, <2>2, LeastIndex
  <2> DEFINE m == Min(I)
  <2>5. m \in 1 .. Len(b) /\ b[m].part \in Blanks
    BY <2>2, <2>3, <2>4
  <2>6. \A i \in 1 .. Len(b) : b[i].part \in Blanks => m <= i
    BY <2>3, <2>4
  <2>7. HeaderEnd(b) = m
    BY <2>1
  <2> HIDE DEF m
  <2> QED BY <1>1, <2>5, <2>6, <2>7
<1> QED BY <1>3, <1>4

\* What strlen leaves is a beginning of the request, without zero bytes.
LEMMA CutBefore ==
  ASSUME NEW b \in Stream
  PROVE  \E m \in 0 .. Len(b) :
           /\ Cut(b) = SubSeq(b, 1, m)
           /\ \A i \in 1 .. m : b[i].part # "nul"
           /\ m < Len(b) => b[m + 1].part = "nul"
<1> DEFINE I == {i \in 1 .. Len(b) : b[i].part = "nul"}
<1>1. Len(b) \in Nat /\ DOMAIN b = 1 .. Len(b) /\ b \in Seq(Unit)
  BY DEF Stream
<1>2. CASE I = {}
  <2>1. Cut(b) = b
    BY <1>1, <1>2 DEF Cut
  <2>2. Cut(b) = SubSeq(b, 1, Len(b))
    BY <1>1, <2>1, SubSeqFull
  <2>3. Len(b) \in 0 .. Len(b) /\ ~(Len(b) < Len(b))
    BY <1>1
  <2>4. \A i \in 1 .. Len(b) : b[i].part # "nul"
    BY <1>2
  <2> QED BY <2>2, <2>3, <2>4
<1>3. CASE I # {}
  <2>1. SelectInSeq(b, LAMBDA u : u.part = "nul") = Min(I)
    BY <1>3 DEF SelectInSeq
  <2>2. Cut(b) = SubSeq(b, 1, Min(I) - 1)
    BY <1>1, <1>3, <2>1 DEF Cut
  <2>3. I \in SUBSET (1 .. Len(b))
    OBVIOUS
  <2>4. \A i \in 1 .. Len(b) : i \in I <=> b[i].part = "nul"
    OBVIOUS
  <2> HIDE DEF I
  <2>5. Min(I) \in I /\ \A j \in I : Min(I) <= j
    BY <1>1, <1>3, <2>3, LeastIndex
  <2> DEFINE h == Min(I)
  <2>6. h \in 1 .. Len(b) /\ b[h].part = "nul"
    BY <2>3, <2>4, <2>5
  <2>7. \A i \in 1 .. Len(b) : b[i].part = "nul" => h <= i
    BY <2>4, <2>5
  <2>8. Cut(b) = SubSeq(b, 1, h - 1)
    BY <2>2
  <2> HIDE DEF h
  <2>9. h - 1 \in 0 .. Len(b) /\ (h - 1) + 1 = h
    BY <1>1, <2>6
  <2>10. \A i \in 1 .. h - 1 : b[i].part # "nul"
    BY <1>1, <2>6, <2>7
  <2> QED BY <2>6, <2>8, <2>9, <2>10
<1> QED BY <1>2, <1>3

\* If it is not empty it begins as the request does.
LEMMA CutFirst ==
  ASSUME NEW b \in Stream, Cut(b) # <<>>
  PROVE  b # <<>> /\ Cut(b)[1] = b[1]
<1>1. PICK m \in 0 .. Len(b) : Cut(b) = SubSeq(b, 1, m)
  BY CutBefore
<1>2. Len(b) \in Nat /\ b \in Seq(Unit)
  BY DEF Stream
<1>3. m # 0
  BY <1>1, <1>2
<1> QED BY <1>1, <1>2, <1>3

LEMMA KeepAliveBoolean ==
  \A t : KeepAlive(t) \in BOOLEAN
  BY DEF KeepAlive

-----------------------------------------------------------------------------
(***************************************************************************)
(* The type of the state, and what holds in each phase of a connection.    *)
(***************************************************************************)

LEMMA NoUnits == <<>> \in Stream /\ <<>> \in Seq(Requests) /\ <<>> \in Seq(Response)
  BY DEF Stream

Phases ==
  /\ client.st = "away" => client = Away /\ wire = <<>>
  /\ At("accept") <=> client.st # "connected"
  /\ At("accept") <=> worker.conn = "none"
  /\ At("accept") => buf = <<>> /\ responses = <<>>
  /\ At("serve") => buf # <<>> /\ worker.conn = "open"
  /\ client.end # "open" => client.todo = <<>>
  /\ Len(client.sent) <= MaxRequests

LEMMA StartInPhase == Init => TypeOK /\ Phases
  BY ConnectionAssumption DEF Init, TypeOK, Phases, Away, Idle, At, Stream

LEMMA RespondTyped ==
  ASSUME TypeOK, Phases, At("serve"), NEW status \in {200, 400, 404, 501}, NEW keep \in BOOLEAN,
         Respond(status, keep)
  PROVE  responses' \in Seq(Response)
<1>1. buf \in Seq(Unit) /\ buf # <<>> /\ responses \in Seq(Response)
  BY DEF TypeOK, Phases, Stream
<1>2. buf[1] \in Unit
  BY <1>1
<1>3. [to |-> buf[1].k, at |-> buf[1].i, status |-> status, keep |-> keep] \in Response
  BY <1>2 DEF Unit, Response
<1> QED BY <1>1, <1>3 DEF Respond

\* The end of a turn of the loop.
LEMMA LoopInPhase ==
  ASSUME TypeOK, Phases, At("serve"), NEW keep \in BOOLEAN, NEW conn \in {"open", "closed"},
         Loop(keep, conn), responses' \in Seq(Response)
  PROVE  TypeOK' /\ Phases'
<1>1. /\ worker' = [pc |-> IF keep THEN "recv" ELSE "close", conn |-> conn]
      /\ buf' = <<>> /\ listening' = listening /\ client' = client /\ wire' = wire
  BY DEF Loop
<1>2. TypeOK'
  BY <1>1 DEF TypeOK, Stream, Response
<1>3. Phases'
  BY <1>1 DEF Phases, At, TypeOK
<1> QED BY <1>2, <1>3

LEMMA WorkerInPhase ==
  ASSUME TypeOK, Phases, WorkerStep
  PROVE  TypeOK' /\ Phases'
<1>1. CASE Accept
  <2>1. TypeOK'
    BY <1>1 DEF TypeOK, Accept
  <2>2. Phases'
    BY <1>1 DEF TypeOK, Phases, Accept, At
  <2> QED BY <2>1, <2>2
<1>2. CASE RecvEnd
  <2>1. TypeOK'
    BY <1>2 DEF TypeOK, RecvEnd
  <2>2. Phases'
    BY <1>2 DEF TypeOK, Phases, RecvEnd, At
  <2> QED BY <2>1, <2>2
<1>3. CASE RecvFails
  <2>1. TypeOK'
    BY <1>3, NoUnits DEF TypeOK, Response, RecvFails
  <2>2. Phases'
    BY <1>3 DEF TypeOK, Phases, RecvFails, At
  <2> QED BY <2>1, <2>2
<1>12. CASE Nothing
  <2>1. At("serve") /\ Loop(FALSE, "open") /\ responses' \in Seq(Response)
    BY <1>12 DEF Nothing, TypeOK
  <2> QED BY <2>1, LoopInPhase
<1>4. CASE Ignore
  <2>1. At("serve") /\ Loop(TRUE, "open") /\ responses' \in Seq(Response)
    BY <1>4 DEF Ignore, TypeOK, Response
  <2> QED BY <2>1, LoopInPhase
<1>5. CASE BadRequest
  <2>1. At("serve") /\ Loop(KeepAlive(Seen), "closed") /\ Respond(400, FALSE)
    BY <1>5 DEF BadRequest, HttpRequest
  <2>2. responses' \in Seq(Response)
    BY <2>1, RespondTyped
  <2> QED BY <2>1, <2>2, LoopInPhase, KeepAliveBoolean
<1>6. CASE GetFile
  <2>1. At("serve") /\ Respond(200, KeepAlive(Seen))
    BY <1>6 DEF GetFile, HttpRequest
  <2>2. responses' \in Seq(Response)
    BY <2>1, RespondTyped, KeepAliveBoolean
  <2>3. PICK conn \in {"open", "closed"} : Loop(KeepAlive(Seen), conn)
    BY <1>6 DEF GetFile
  <2> QED BY <2>1, <2>2, <2>3, LoopInPhase, KeepAliveBoolean
<1>7. CASE GetMissing
  <2>1. At("serve") /\ Loop(KeepAlive(Seen), "closed") /\ Respond(404, FALSE)
    BY <1>7 DEF GetMissing, HttpRequest
  <2>2. responses' \in Seq(Response)
    BY <2>1, RespondTyped
  <2> QED BY <2>1, <2>2, LoopInPhase, KeepAliveBoolean
<1>8. CASE Silent
  <2>1. At("serve") /\ responses' \in Seq(Response)
    BY <1>8 DEF Silent, HttpRequest, TypeOK, Response
  <2>2. PICK conn \in {"open", "closed"} : Loop(KeepAlive(Seen), conn)
    BY <1>8 DEF Silent
  <2> QED BY <2>1, <2>2, LoopInPhase, KeepAliveBoolean
<1>9. CASE NotImplemented
  <2>1. At("serve") /\ Respond(501, FALSE)
    BY <1>9 DEF NotImplemented, HttpRequest
  <2>2. responses' \in Seq(Response)
    BY <2>1, RespondTyped
  <2>3. PICK conn \in {"open", "closed"} : Loop(KeepAlive(Seen), conn)
    BY <1>9 DEF NotImplemented
  <2> QED BY <2>1, <2>2, <2>3, LoopInPhase, KeepAliveBoolean
<1>10. CASE CloseConn
  <2>1. TypeOK'
    BY <1>10, NoUnits DEF TypeOK, Response, CloseConn, Away, Idle
  <2>2. Phases'
    BY <1>10, ConnectionAssumption DEF Phases, CloseConn, Away, Idle, At
  <2> QED BY <2>1, <2>2
<1>11. ASSUME NEW n \in 1 .. Len(wire), Deliver(n)
       PROVE  TypeOK' /\ Phases'
  <2> DEFINE b == buf \o SubSeq(wire, 1, n)
  <2>1. wire \in Stream /\ buf \in Stream
    BY DEF TypeOK
  <2>2. /\ SubSeq(wire, 1, n) \in Stream /\ SubSeq(wire, n + 1, Len(wire)) \in Stream
        /\ Len(SubSeq(wire, 1, n)) = n
    BY <2>1, CutInTwo DEF Stream
  <2>3. b \in Stream /\ b # <<>> /\ <<>> \in Stream
    <3>1. b \in Stream /\ Len(b) = Len(buf) + n /\ Len(buf) \in Nat /\ <<>> \in Stream
      BY <2>1, <2>2, Concatenation, NoUnits DEF Stream
    <3> HIDE DEF b
    <3>2. Len(b) # 0
      BY <3>1
    <3> QED BY <3>1, <3>2
  <2> HIDE DEF b
  <2>4. /\ At("recv") /\ worker.conn = "open"
        /\ wire' = SubSeq(wire, n + 1, Len(wire))
        /\ \/ buf' = b /\ worker' = [worker EXCEPT !.pc = "serve"]
           \/ buf' = <<>> /\ worker' = [worker EXCEPT !.pc = "close"]
           \/ buf' = b /\ worker' = worker
        /\ listening' = listening /\ client' = client /\ responses' = responses
    BY <1>11 DEF Deliver, b
  <2>5. TypeOK'
    BY <2>2, <2>3, <2>4 DEF TypeOK
  <2>6. Phases'
    BY <2>3, <2>4 DEF TypeOK, Phases, At
  <2> QED BY <2>5, <2>6
<1> QED BY <1>1, <1>2, <1>3, <1>4, <1>5, <1>6, <1>7, <1>8, <1>9, <1>10, <1>11, <1>12 DEF WorkerStep

LEMMA ClientInPhase ==
  ASSUME TypeOK, Phases, ClientStep
  PROVE  TypeOK' /\ Phases'
<1>0. listening' = listening /\ buf' = buf /\ worker' = worker /\ responses' = responses
  BY DEF ClientStep
<1>1. CASE Connect
  <2>1. TypeOK'
    BY <1>0, <1>1, NoUnits DEF TypeOK, Response, Connect, Away
  <2>2. Phases'
    BY <1>0, <1>1 DEF TypeOK, Phases, Connect, Away, At
  <2> QED BY <2>1, <2>2
<1>2. CASE Finish
  <2>1. TypeOK'
    BY <1>0, <1>2, NoUnits DEF TypeOK, Response, Finish
  <2>2. Phases'
    BY <1>0, <1>2 DEF TypeOK, Phases, Finish, Alive, At
  <2> QED BY <2>1, <2>2
<1>3. CASE Reset
  <2>1. TypeOK'
    BY <1>0, <1>3, NoUnits DEF TypeOK, Response, Reset
  <2>2. Phases'
    BY <1>0, <1>3 DEF TypeOK, Phases, Reset, At
  <2> QED BY <2>1, <2>2
<1>4. CASE TurnDeaf
  <2>1. TypeOK'
    BY <1>0, <1>4 DEF TypeOK, TurnDeaf
  <2>2. Phases'
    BY <1>0, <1>4 DEF TypeOK, Phases, TurnDeaf, At
  <2> QED BY <2>1, <2>2
<1>5. ASSUME NEW r \in Requests, NewRequest(r)
      PROVE  TypeOK' /\ Phases'
  <2>1. client.sent \in Seq(Requests) /\ Len(client.sent) \in Nat /\ Len(client.sent) + 1 \in 1 .. MaxRequests
    BY <1>5, ConnectionAssumption DEF TypeOK, NewRequest
  <2>2. Units(Len(client.sent) + 1, r) \in Stream
    BY <2>1, UnitsParts
  <2>3. Append(client.sent, r) \in Seq(Requests) /\ Len(Append(client.sent, r)) = Len(client.sent) + 1
    BY <2>1
  <2>4. /\ client' = [client EXCEPT !.sent = Append(client.sent, r),
                                    !.todo = Units(Len(client.sent) + 1, r)]
        /\ wire' = wire /\ client.st # "away" /\ client.end = "open"
    BY <1>5 DEF NewRequest, Alive
  <2>5. TypeOK'
    BY <1>0, <2>2, <2>3, <2>4 DEF TypeOK
  <2>6. Phases'
    BY <1>0, <2>1, <2>3, <2>4 DEF TypeOK, Phases, At
  <2> QED BY <2>5, <2>6
<1>6. ASSUME NEW n \in 1 .. Len(client.todo), Write(n)
      PROVE  TypeOK' /\ Phases'
  <2>1. wire \in Stream /\ client.todo \in Stream
    BY DEF TypeOK
  <2>2. SubSeq(client.todo, 1, n) \in Stream /\ SubSeq(client.todo, n + 1, Len(client.todo)) \in Stream
    BY <2>1, CutInTwo DEF Stream
  <2>3. wire \o SubSeq(client.todo, 1, n) \in Stream
    BY <2>1, <2>2, Concatenation DEF Stream
  <2>4. /\ client' = [client EXCEPT !.todo = SubSeq(client.todo, n + 1, Len(client.todo))]
        /\ wire' = wire \o SubSeq(client.todo, 1, n)
        /\ client.st # "away" /\ client.end = "open"
    BY <1>6 DEF Write, Alive
  <2>5. TypeOK'
    BY <1>0, <2>2, <2>3, <2>4 DEF TypeOK
  <2>6. Phases'
    BY <1>0, <2>4 DEF TypeOK, Phases, At
  <2> QED BY <2>5, <2>6
<1> QED BY <1>1, <1>2, <1>3, <1>4, <1>5, <1>6 DEF ClientStep

LEMMA StepInPhase == TypeOK /\ Phases /\ [Next]_vars => TypeOK' /\ Phases'
<1> SUFFICES ASSUME TypeOK, Phases, [Next]_vars PROVE TypeOK' /\ Phases'
  OBVIOUS
<1>1. CASE AcceptFails
  <2>1. TypeOK'
    BY <1>1 DEF TypeOK, AcceptFails
  <2>2. Phases'
    BY <1>1 DEF Phases, AcceptFails, At
  <2> QED BY <2>1, <2>2
<1>2. CASE UNCHANGED vars
  <2>1. TypeOK'
    BY <1>2 DEF TypeOK, vars
  <2>2. Phases'
    BY <1>2 DEF Phases, vars, At
  <2> QED BY <2>1, <2>2
<1> QED BY <1>1, <1>2, WorkerInPhase, ClientInPhase DEF Next

\* The state has its type, for every set of requests and every bound.
THEOREM TypeCorrect == Spec => []TypeOK
<1>1. Spec => [](TypeOK /\ Phases)
  BY StartInPhase, StepInPhase, PTL DEF Spec
<1> QED BY <1>1, PTL

-----------------------------------------------------------------------------
(***************************************************************************)
(* The order of the responses.  s is the line, R the responses and A the   *)
(* requests.                                                               *)
(***************************************************************************)

\* The place <<k, i>> comes before the place <<l, j>>.
Before(k, i, l, j) == k < l \/ (k = l /\ i < j)

\* Every unit on the line is a piece of a request that has been sent.
Standing(s, A) ==
  \A x \in 1 .. Len(s) :
    /\ s[x].k \in 1 .. Len(A)
    /\ s[x].part = Text(A[s[x].k])[s[x].i].part
    /\ s[x].head = Text(A[s[x].k])[s[x].i].head

\* They stand there in order.
InOrder(s) ==
  \A x, y \in 1 .. Len(s) : x < y => Before(s[x].k, s[x].i, s[y].k, s[y].i)

\* Every response is to a request that has been sent.
Known(R, A) == \A j \in 1 .. Len(R) : R[j].to \in 1 .. Len(A)

\* The line begins behind what has been answered.
Passed(R, s) ==
  \A j \in 1 .. Len(R), x \in 1 .. Len(s) : Before(R[j].to, R[j].at, s[x].k, s[x].i)

IsGet(piece) == piece.part = "line" /\ piece.head.method = "GET" /\ piece.head.found

Once(R, A) ==
  /\ \A i, j \in 1 .. Len(R) : i < j => Before(R[i].to, R[i].at, R[j].to, R[j].at)
  /\ \A j \in 1 .. Len(R) : R[j].status = 200 => IsGet(Text(A[R[j].to])[R[j].at])

InSequence(s, R, A) ==
  Standing(s, A) /\ InOrder(s) /\ Known(R, A) /\ Passed(R, s) /\ Once(R, A)

\* Both parts of a line are in sequence.
LEMMA SequencedParts ==
  ASSUME NEW s \in Seq(Unit), NEW t \in Seq(Unit), NEW R, NEW A, InSequence(s \o t, R, A)
  PROVE  InSequence(s, R, A) /\ InSequence(t, R, A)
<1> DEFINE w == s \o t
           a == Len(s)
           b == Len(t)
<1>1. /\ a \in Nat /\ b \in Nat /\ Len(w) = a + b
      /\ \A j \in 1 .. a : w[j] = s[j]
      /\ \A x \in 1 .. b : w[a + x] = t[x]
  BY Concatenation
<1>2. Standing(w, A) /\ InOrder(w) /\ Known(R, A) /\ Passed(R, w) /\ Once(R, A)
  BY DEF InSequence
<1> HIDE DEF w, a, b
<1>3. \A x \in 1 .. a : x \in 1 .. Len(w) /\ w[x] = s[x]
  BY <1>1
<1>4. \A x \in 1 .. b : a + x \in 1 .. Len(w) /\ w[a + x] = t[x]
  BY <1>1
<1>5. \A x, y \in 1 .. b : x < y => a + x < a + y
  BY <1>1
<1>6. Standing(s, A) /\ InOrder(s) /\ Passed(R, s)
  BY <1>2, <1>3, Zenon DEF Standing, InOrder, Passed, a
<1>7. Standing(t, A)
  BY <1>2, <1>4, Zenon DEF Standing, b
<1>8. InOrder(t)
  BY <1>2, <1>4, <1>5, Zenon DEF InOrder, b
<1>9. Passed(R, t)
  BY <1>2, <1>4, Zenon DEF Passed, b
<1> QED BY <1>2, <1>6, <1>7, <1>8, <1>9 DEF InSequence

\* The next request follows.
LEMMA Join ==
  ASSUME NEW s \in Seq(Unit), NEW R \in Seq(Response), NEW A \in Seq(Requests),
         NEW r \in Requests, Len(A) + 1 \in 1 .. MaxRequests, InSequence(s, R, A)
  PROVE  InSequence(s \o Units(Len(A) + 1, r), R, Append(A, r))
<1> DEFINE n == Len(A)
           t == Units(n + 1, r)
           w == s \o t
           B == Append(A, r)
<1>1. /\ t \in Seq(Unit)
      /\ \A x \in 1 .. Len(t) : t[x].k = n + 1 /\ t[x].i = x
                                /\ t[x].part = Text(r)[x].part /\ t[x].head = Text(r)[x].head
  BY UnitsParts DEF Stream
<1>2. /\ Len(s) \in Nat /\ Len(t) \in Nat /\ Len(w) = Len(s) + Len(t)
      /\ \A i \in 1 .. Len(s) : w[i] = s[i]
      /\ \A x \in 1 .. Len(t) : w[Len(s) + x] = t[x]
  BY <1>1, Concatenation
<1>3. n \in Nat /\ Len(B) = n + 1 /\ (\A k \in 1 .. n : B[k] = A[k]) /\ B[n + 1] = r
  OBVIOUS
<1>4. /\ \A x \in 1 .. Len(s) : /\ s[x].k \in 1 .. n
                                /\ s[x].part = Text(A[s[x].k])[s[x].i].part
                                /\ s[x].head = Text(A[s[x].k])[s[x].i].head
      /\ \A x, y \in 1 .. Len(s) : x < y => Before(s[x].k, s[x].i, s[y].k, s[y].i)
      /\ \A j \in 1 .. Len(R) : R[j].to \in 1 .. n
      /\ Passed(R, s)
      /\ Once(R, A)
  BY DEF InSequence, Standing, InOrder, Known
<1> HIDE DEF n, t, w, B
<1>5. \A x \in 1 .. Len(w) :
        \/ x \in 1 .. Len(s) /\ w[x] = s[x]
        \/ \E y \in 1 .. Len(t) : x = Len(s) + y /\ w[x] = t[y]
  <2> TAKE x \in 1 .. Len(w)
  <2>1. x \in 1 .. Len(s) \/ (x - Len(s) \in 1 .. Len(t) /\ x = Len(s) + (x - Len(s)))
    BY <1>2
  <2> QED BY <1>2, <2>1
<1>6. Standing(w, B)
  <2> SUFFICES ASSUME NEW x \in 1 .. Len(w)
               PROVE  /\ w[x].k \in 1 .. n + 1
                      /\ w[x].part = Text(B[w[x].k])[w[x].i].part
                      /\ w[x].head = Text(B[w[x].k])[w[x].i].head
    BY <1>3 DEF Standing
  <2>1. CASE x \in 1 .. Len(s) /\ w[x] = s[x]
    <3>1. s[x].k \in 1 .. n /\ B[s[x].k] = A[s[x].k]
      BY <1>3, <1>4, <2>1
    <3>2. s[x].k \in 1 .. n + 1
      BY <1>3, <3>1
    <3> QED BY <1>4, <2>1, <3>1, <3>2
  <2>2. ASSUME NEW y \in 1 .. Len(t), w[x] = t[y]
        PROVE  /\ w[x].k \in 1 .. n + 1
               /\ w[x].part = Text(B[w[x].k])[w[x].i].part
               /\ w[x].head = Text(B[w[x].k])[w[x].i].head
    <3>1. w[x].k = n + 1 /\ w[x].i = y /\ B[w[x].k] = r
      BY <1>1, <1>3, <2>2
    <3>2. w[x].part = Text(r)[y].part /\ w[x].head = Text(r)[y].head
      BY <1>1, <2>2
    <3>3. n + 1 \in 1 .. n + 1
      BY <1>3
    <3> QED BY <3>1, <3>2, <3>3
  <2> QED BY <1>5, <2>1, <2>2
<1>7. InOrder(w)
  <2> SUFFICES ASSUME NEW x \in 1 .. Len(w), NEW y \in 1 .. Len(w), x < y
               PROVE  Before(w[x].k, w[x].i, w[y].k, w[y].i)
    BY DEF InOrder
  <2>1. CASE y \in 1 .. Len(s) /\ w[y] = s[y]
    <3>1. x \in 1 .. Len(s) /\ w[x] = s[x]
      BY <1>2, <2>1
    <3> QED BY <1>4, <2>1, <3>1
  <2>2. ASSUME NEW v \in 1 .. Len(t), y = Len(s) + v, w[y] = t[v]
        PROVE  Before(w[x].k, w[x].i, w[y].k, w[y].i)
    <3>1. w[y].k = n + 1 /\ w[y].i = v
      BY <1>1, <2>2
    <3>2. CASE x \in 1 .. Len(s) /\ w[x] = s[x]
      <4>1. s[x].k < n + 1
        BY <1>3, <1>4, <3>2
      <4> QED BY <3>1, <3>2, <4>1 DEF Before
    <3>3. ASSUME NEW u \in 1 .. Len(t), x = Len(s) + u, w[x] = t[u]
          PROVE  Before(w[x].k, w[x].i, w[y].k, w[y].i)
      <4>1. w[x].k = n + 1 /\ w[x].i = u
        BY <1>1, <3>3
      <4>2. u < v
        BY <1>2, <2>2, <3>3
      <4> QED BY <3>1, <4>1, <4>2 DEF Before
    <3> QED BY <1>5, <3>2, <3>3
  <2> QED BY <1>5, <2>1, <2>2
<1>8. Known(R, B)
  BY <1>3, <1>4 DEF Known
<1>9. Passed(R, w)
  <2> SUFFICES ASSUME NEW j \in 1 .. Len(R), NEW x \in 1 .. Len(w)
               PROVE  Before(R[j].to, R[j].at, w[x].k, w[x].i)
    BY DEF Passed
  <2>1. CASE x \in 1 .. Len(s) /\ w[x] = s[x]
    BY <1>4, <2>1 DEF Passed
  <2>2. ASSUME NEW y \in 1 .. Len(t), w[x] = t[y]
        PROVE  Before(R[j].to, R[j].at, w[x].k, w[x].i)
    <3>1. w[x].k = n + 1 /\ R[j].to \in 1 .. n
      BY <1>1, <1>4, <2>2
    <3>2. R[j].to < n + 1
      BY <1>3, <3>1
    <3> QED BY <3>1, <3>2 DEF Before
  <2> QED BY <1>5, <2>1, <2>2
<1>10. Once(R, B)
  <2>1. \A j \in 1 .. Len(R) : B[R[j].to] = A[R[j].to]
    BY <1>3, <1>4
  <2> QED BY <1>4, <2>1, Zenon DEF Once
<1> QED BY <1>6, <1>7, <1>8, <1>9, <1>10 DEF InSequence, n, t, w, B

\* A response to what begins the line, after which that is dropped.
LEMMA Answer ==
  ASSUME NEW s \in Seq(Unit), NEW t \in Seq(Unit), NEW R \in Seq(Response),
         NEW A \in Seq(Requests), s # <<>>, InSequence(s \o t, R, A),
         NEW status, NEW keep, status = 200 => IsGet(s[1])
  PROVE  InSequence(t, Append(R, [to |-> s[1].k, at |-> s[1].i, status |-> status, keep |-> keep]), A)
<1> DEFINE a == [to |-> s[1].k, at |-> s[1].i, status |-> status, keep |-> keep]
           Q == Append(R, a)
           w == s \o t
<1>1. /\ Len(s) \in Nat /\ Len(t) \in Nat /\ Len(w) = Len(s) + Len(t)
      /\ \A i \in 1 .. Len(s) : w[i] = s[i]
      /\ \A x \in 1 .. Len(t) : w[Len(s) + x] = t[x]
  BY Concatenation
<1>2. InSequence(s, R, A) /\ InSequence(t, R, A)
  BY SequencedParts
<1>3. 1 \in 1 .. Len(s)
  BY <1>1
<1>4. /\ Standing(s, A) /\ Standing(t, A) /\ InOrder(w) /\ InOrder(t) /\ Known(R, A)
      /\ Passed(R, s) /\ Passed(R, t) /\ Once(R, A)
  BY <1>2 DEF InSequence
<1>5. Len(R) \in Nat /\ Len(Q) = Len(R) + 1 /\ Q[Len(R) + 1] = a /\ \A j \in 1 .. Len(R) : Q[j] = R[j]
  OBVIOUS
<1>6. /\ a.to = s[1].k /\ a.at = s[1].i /\ a.status = status
      /\ s[1].k \in 1 .. Len(A)
      /\ s[1].part = Text(A[s[1].k])[s[1].i].part
      /\ s[1].head = Text(A[s[1].k])[s[1].i].head
  BY <1>3, <1>4 DEF Standing
<1> HIDE DEF a, Q, w
<1>7. \A j \in 1 .. Len(Q) : (j \in 1 .. Len(R) /\ Q[j] = R[j]) \/ (j = Len(R) + 1 /\ Q[j] = a)
  <2> TAKE j \in 1 .. Len(Q)
  <2>1. j \in 1 .. Len(R) \/ j = Len(R) + 1
    BY <1>5
  <2> QED BY <1>5, <2>1
<1>8. Known(Q, A)
  BY <1>4, <1>6, <1>7 DEF Known
<1>9. \A x \in 1 .. Len(t) : Before(s[1].k, s[1].i, t[x].k, t[x].i)
  <2> TAKE x \in 1 .. Len(t)
  <2>1. 1 \in 1 .. Len(w) /\ Len(s) + x \in 1 .. Len(w) /\ 1 < Len(s) + x
    BY <1>1, <1>3
  <2>2. w[1] = s[1] /\ w[Len(s) + x] = t[x]
    BY <1>1, <1>3
  <2> DEFINE y == Len(s) + x
  <2>3. 1 \in 1 .. Len(w) /\ y \in 1 .. Len(w) /\ 1 < y /\ w[y] = t[x]
    BY <2>1, <2>2
  <2> HIDE DEF y
  <2>4. Before(w[1].k, w[1].i, w[y].k, w[y].i)
    BY <1>4, <2>3, Zenon DEF InOrder
  <2> QED BY <2>2, <2>3, <2>4
<1>10. Passed(Q, t)
  BY <1>4, <1>6, <1>7, <1>9 DEF Passed
<1>11. ASSUME NEW i \in 1 .. Len(Q), NEW j \in 1 .. Len(Q), i < j
       PROVE  Before(Q[i].to, Q[i].at, Q[j].to, Q[j].at)
  <2>1. i \in 1 .. Len(R) /\ Q[i] = R[i]
    BY <1>5, <1>7, <1>11
  <2>2. CASE j \in 1 .. Len(R) /\ Q[j] = R[j]
    BY <1>4, <1>11, <2>1, <2>2 DEF Once
  <2>3. CASE Q[j] = a
    BY <1>3, <1>4, <1>6, <2>1, <2>3 DEF Passed
  <2> QED BY <1>7, <2>2, <2>3
<1>12. ASSUME NEW j \in 1 .. Len(Q), Q[j].status = 200
       PROVE  IsGet(Text(A[Q[j].to])[Q[j].at])
  <2>1. CASE j \in 1 .. Len(R) /\ Q[j] = R[j]
    BY <1>4, <1>12, <2>1 DEF Once
  <2>2. CASE Q[j] = a
    BY <1>6, <1>12, <2>2 DEF IsGet
  <2> QED BY <1>7, <2>1, <2>2
<1>13. Once(Q, A)
  BY <1>11, <1>12 DEF Once
<1> QED BY <1>4, <1>8, <1>10, <1>13 DEF InSequence, Q, a

Sequenced == InSequence(Line, responses, client.sent)

LEMMA Assoc ==
  \A x, y, z \in Seq(Unit) : (x \o y) \o z = x \o (y \o z)
  BY ConcatAssociative

LEMMA LineTyped ==
  ASSUME TypeOK
  PROVE  /\ buf \in Seq(Unit) /\ wire \in Seq(Unit) /\ client.todo \in Seq(Unit)
         /\ wire \o client.todo \in Seq(Unit) /\ Line \in Seq(Unit)
         /\ Line = buf \o (wire \o client.todo)
         /\ responses \in Seq(Response) /\ client.sent \in Seq(Requests)
<1>1. buf \in Seq(Unit) /\ wire \in Seq(Unit) /\ client.todo \in Seq(Unit)
  BY DEF TypeOK, Stream
<1>2. responses \in Seq(Response) /\ client.sent \in Seq(Requests)
  BY DEF TypeOK
<1>3. wire \o client.todo \in Seq(Unit) /\ (buf \o wire) \o client.todo \in Seq(Unit)
  BY <1>1
<1>4. (buf \o wire) \o client.todo = buf \o (wire \o client.todo)
  BY <1>1, Assoc, Zenon
<1> QED BY <1>1, <1>2, <1>3, <1>4 DEF Line

LEMMA NoLine ==
  /\ \A s \in Seq(Unit) : <<>> \o s = s /\ s \o <<>> = s
  /\ InSequence(<<>>, <<>>, <<>>)
<1>1. \A s \in Seq(Unit) : <<>> \o s = s /\ s \o <<>> = s
  OBVIOUS
<1>2. InSequence(<<>>, <<>>, <<>>)
  BY DEF InSequence, Standing, InOrder, Known, Passed, Once
<1> QED BY <1>1, <1>2

LEMMA StartSequenced == Init => Sequenced
<1> SUFFICES ASSUME Init PROVE Sequenced
  OBVIOUS
<1>1. buf = <<>> /\ wire = <<>> /\ client.todo = <<>> /\ client.sent = <<>> /\ responses = <<>>
  BY DEF Init, Away
<1>2. Line = <<>>
  BY <1>1 DEF Line
<1> QED BY <1>1, <1>2, NoLine DEF Sequenced

\* What is on the line, once what has been received is dropped.
LEMMA LineAfter ==
  ASSUME TypeOK, buf' = <<>>, wire' = wire, client'.todo = client.todo
  PROVE  Line' = wire \o client.todo
  BY LineTyped, NoLine DEF Line

LEMMA SilentSequenced ==
  ASSUME TypeOK, Sequenced, buf' = <<>>, wire' = wire, client' = client, responses' = responses
  PROVE  Sequenced'
<1>1. InSequence(wire \o client.todo, responses, client.sent)
  <2>1. InSequence(buf \o (wire \o client.todo), responses, client.sent)
    BY LineTyped DEF Sequenced
  <2> QED BY <2>1, LineTyped, SequencedParts
<1>2. Line' = wire \o client.todo
  BY LineAfter
<1> QED BY <1>1, <1>2 DEF Sequenced

LEMMA ResponseSequenced ==
  ASSUME TypeOK, Phases, Sequenced, At("serve"),
         NEW status \in {200, 400, 404, 501}, NEW keep \in BOOLEAN, Respond(status, keep),
         buf' = <<>>, wire' = wire, client' = client, status = 200 => IsGet(buf[1])
  PROVE  Sequenced'
<1>1. CASE responses' = responses
  BY <1>1, SilentSequenced
<1>2. CASE responses' = Append(responses, [to |-> buf[1].k, at |-> buf[1].i,
                                           status |-> status, keep |-> keep])
  <2>1. InSequence(buf \o (wire \o client.todo), responses, client.sent)
    BY LineTyped DEF Sequenced
  <2>2. buf # <<>>
    BY DEF Phases
  <2>3. InSequence(wire \o client.todo, responses', client.sent)
    <3> DEFINE t == wire \o client.todo
    <3>1. buf \in Seq(Unit) /\ t \in Seq(Unit) /\ responses \in Seq(Response) /\ client.sent \in Seq(Requests)
      BY LineTyped
    <3>2. InSequence(buf \o t, responses, client.sent)
      BY <2>1
    <3> HIDE DEF t
    <3>3. InSequence(t, Append(responses, [to |-> buf[1].k, at |-> buf[1].i,
                                           status |-> status, keep |-> keep]), client.sent)
      BY <2>2, <3>1, <3>2, Answer
    <3> QED BY <1>2, <3>3 DEF t
  <2>4. Line' = wire \o client.todo
    BY LineAfter
  <2> QED BY <2>3, <2>4 DEF Sequenced
<1> QED BY <1>1, <1>2 DEF Respond

LEMMA WorkerSequenced ==
  ASSUME TypeOK, Phases, Sequenced, WorkerStep
  PROVE  Sequenced'
<1>1. ASSUME buf' = buf, wire' = wire, responses' = responses,
             client'.todo = client.todo, client'.sent = client.sent
      PROVE  Sequenced'
  BY <1>1 DEF Sequenced, Line
<1>2. CASE Accept
  BY <1>1, <1>2 DEF Accept, TypeOK
<1>3. CASE RecvEnd
  BY <1>1, <1>3 DEF RecvEnd
<1>4. CASE RecvFails
  BY <1>4, SilentSequenced DEF RecvFails
<1>13. CASE Nothing
  BY <1>13, SilentSequenced DEF Nothing, Loop
<1>5. CASE Ignore
  BY <1>5, SilentSequenced DEF Ignore, Loop
<1>6. CASE BadRequest
  <2>1. At("serve") /\ Respond(400, FALSE) /\ buf' = <<>> /\ wire' = wire /\ client' = client
    BY <1>6 DEF BadRequest, HttpRequest, Loop
  <2>2. 400 \in {200, 400, 404, 501} /\ 400 # 200 /\ FALSE \in BOOLEAN
    OBVIOUS
  <2> QED BY <2>1, <2>2, ResponseSequenced, Zenon
<1>7. CASE GetFile
  <2>1. /\ At("serve") /\ Respond(200, KeepAlive(Seen)) /\ buf' = <<>> /\ wire' = wire /\ client' = client
        /\ Seen # <<>> /\ Method(Seen) = "GET" /\ Seen[1].head.found
    BY <1>7 DEF GetFile, HttpRequest, Http, Loop
  <2>2. Seen[1] = buf[1]
    BY <2>1, CutFirst DEF Seen, TypeOK
  <2>3. IsGet(buf[1])
    BY <2>1, <2>2 DEF Method, IsGet
  <2>4. 200 \in {200, 400, 404, 501}
    OBVIOUS
  <2> QED BY <2>1, <2>3, <2>4, ResponseSequenced, KeepAliveBoolean
<1>8. CASE GetMissing
  <2>1. At("serve") /\ Respond(404, FALSE) /\ buf' = <<>> /\ wire' = wire /\ client' = client
    BY <1>8 DEF GetMissing, HttpRequest, Loop
  <2>2. 404 \in {200, 400, 404, 501} /\ 404 # 200 /\ FALSE \in BOOLEAN
    OBVIOUS
  <2> QED BY <2>1, <2>2, ResponseSequenced, Zenon
<1>9. CASE Silent
  BY <1>9, SilentSequenced DEF Silent, Loop
<1>10. CASE NotImplemented
  <2>1. At("serve") /\ Respond(501, FALSE) /\ buf' = <<>> /\ wire' = wire /\ client' = client
    BY <1>10 DEF NotImplemented, HttpRequest, Loop
  <2>2. 501 \in {200, 400, 404, 501} /\ 501 # 200 /\ FALSE \in BOOLEAN
    OBVIOUS
  <2> QED BY <2>1, <2>2, ResponseSequenced, Zenon
<1>11. CASE CloseConn
  <2>1. /\ buf' = <<>> /\ wire' = <<>> /\ responses' = <<>> /\ client'.sent = <<>>
        /\ client'.todo = <<>>
    BY <1>11 DEF CloseConn, Away
  <2>2. Line' = <<>>
    BY <2>1 DEF Line
  <2> QED BY <2>1, <2>2, NoLine DEF Sequenced
<1>12. ASSUME NEW n \in 1 .. Len(wire), Deliver(n)
       PROVE  Sequenced'
  <2> DEFINE x == SubSeq(wire, 1, n)
             y == SubSeq(wire, n + 1, Len(wire))
             t == client.todo
  <2>1. x \in Seq(Unit) /\ y \in Seq(Unit) /\ x \o y = wire
    BY LineTyped, CutInTwo
  <2>2. /\ wire' = y /\ client' = client /\ responses' = responses
        /\ buf' = buf \o x \/ buf' = <<>>
    BY <1>12 DEF Deliver
  <2> HIDE DEF x, y
  <2>3. /\ buf \in Seq(Unit) /\ t \in Seq(Unit) /\ y \o t \in Seq(Unit) /\ buf \o x \in Seq(Unit)
        /\ client'.todo = t
    BY <2>1, <2>2, LineTyped
  <2>4. (buf \o x) \o y = buf \o wire
    <3>0. buf \in Seq(Unit) /\ x \in Seq(Unit) /\ y \in Seq(Unit)
      BY <2>1, <2>3
    <3>1. (buf \o x) \o y = buf \o (x \o y)
      BY <3>0, Assoc, Zenon
    <3> QED BY <2>1, <3>1
  <2> HIDE DEF t
  <2>5. Line = ((buf \o x) \o y) \o t
    BY <2>4 DEF Line, t
  <2>6. Line = (buf \o x) \o (y \o t)
    <3> DEFINE v == buf \o x
    <3>1. v \in Seq(Unit) /\ y \in Seq(Unit) /\ t \in Seq(Unit) /\ Line = (v \o y) \o t
      BY <2>1, <2>3, <2>5
    <3> HIDE DEF v
    <3>2. (v \o y) \o t = v \o (y \o t)
      BY <3>1, Assoc, Zenon
    <3> QED BY <3>1, <3>2 DEF v
  <2>7. CASE buf' = buf \o x
    <3>1. Line' = Line
      BY <2>2, <2>3, <2>5, <2>7 DEF Line
    <3> QED BY <2>2, <3>1 DEF Sequenced
  <2>8. CASE buf' = <<>>
    <3>1. Line' = y \o t
      BY <2>1, <2>2, <2>3, <2>8, NoLine DEF Line
    <3>2. InSequence(y \o t, responses, client.sent)
      BY <2>3, <2>6, LineTyped, SequencedParts DEF Sequenced
    <3> QED BY <2>2, <3>1, <3>2 DEF Sequenced
  <2> QED BY <2>2, <2>7, <2>8
<1> QED BY <1>2, <1>3, <1>4, <1>5, <1>6, <1>7, <1>8, <1>9, <1>10, <1>11, <1>12, <1>13 DEF WorkerStep

LEMMA ClientSequenced ==
  ASSUME TypeOK, Phases, Sequenced, ClientStep
  PROVE  Sequenced'
<1>0. buf' = buf /\ responses' = responses
  BY DEF ClientStep
<1>1. ASSUME wire' = wire, client'.todo = client.todo, client'.sent = client.sent
      PROVE  Sequenced'
  BY <1>0, <1>1 DEF Sequenced, Line
<1>2. CASE Connect
  <2>1. client = Away /\ client' = [Away EXCEPT !.st = "waiting"] /\ wire' = wire
    BY <1>2 DEF Connect, Phases
  <2> QED BY <1>1, <2>1 DEF Away
<1>3. CASE TurnDeaf
  BY <1>1, <1>3 DEF TurnDeaf, TypeOK
<1>4. CASE Finish
  <2>1. wire' = wire /\ client'.todo = <<>> /\ client'.sent = client.sent
    BY <1>4 DEF Finish, TypeOK
  <2>2. buf \o wire \in Seq(Unit)
    BY LineTyped
  <2>3. Line' = buf \o wire
    BY <1>0, <2>1, <2>2, NoLine DEF Line
  <2>4. InSequence(buf \o wire, responses, client.sent)
    BY <2>2, LineTyped, SequencedParts DEF Sequenced, Line
  <2> QED BY <1>0, <2>1, <2>3, <2>4 DEF Sequenced
<1>5. CASE Reset
  <2>1. wire' = <<>> /\ client'.todo = <<>> /\ client'.sent = client.sent
    BY <1>5 DEF Reset, TypeOK
  <2>2. Line' = buf
    BY <1>0, <2>1, LineTyped, NoLine DEF Line
  <2>3. InSequence(buf \o (wire \o client.todo), responses, client.sent)
    BY LineTyped DEF Sequenced
  <2>4. InSequence(buf, responses, client.sent)
    BY <2>3, LineTyped, SequencedParts
  <2> QED BY <1>0, <2>1, <2>2, <2>4 DEF Sequenced
<1>6. ASSUME NEW r \in Requests, NewRequest(r)
      PROVE  Sequenced'
  <2> DEFINE n == Len(client.sent)
             t == Units(n + 1, r)
  <2>1. /\ client.end = "open" /\ client.todo = <<>> /\ wire' = wire /\ n < MaxRequests
        /\ client' = [client EXCEPT !.sent = Append(client.sent, r), !.todo = t]
    BY <1>6 DEF NewRequest, Alive
  <2>2. n + 1 \in 1 .. MaxRequests
    BY <2>1, LineTyped, ConnectionAssumption
  <2>3. client'.sent = Append(client.sent, r) /\ client'.todo = t
    BY <2>1 DEF TypeOK
  <2>4. buf \o wire \in Seq(Unit)
    BY LineTyped
  <2>5. Line = buf \o wire
    BY <2>1, <2>4, NoLine DEF Line
  <2>6. Line' = Line \o t
    BY <1>0, <2>1, <2>3, <2>5 DEF Line
  <2>7. InSequence(Line \o t, responses, Append(client.sent, r))
    BY <2>2, LineTyped, Join DEF Sequenced
  <2> QED BY <1>0, <2>3, <2>6, <2>7 DEF Sequenced
<1>7. ASSUME NEW n \in 1 .. Len(client.todo), Write(n)
      PROVE  Sequenced'
  <2> DEFINE x == SubSeq(client.todo, 1, n)
             y == SubSeq(client.todo, n + 1, Len(client.todo))
  <2>1. x \in Seq(Unit) /\ y \in Seq(Unit) /\ x \o y = client.todo
    BY LineTyped, CutInTwo
  <2>2. /\ wire' = wire \o x /\ client'.todo = y
        /\ client'.sent = client.sent
    BY <1>7 DEF Write, TypeOK
  <2> HIDE DEF x, y
  <2>3. buf \in Seq(Unit) /\ wire \in Seq(Unit) /\ buf \o wire \in Seq(Unit)
    BY LineTyped
  <2>4. buf \o (wire \o x) = (buf \o wire) \o x
    BY <2>1, <2>3, Assoc, Zenon
  <2>5. ((buf \o wire) \o x) \o y = (buf \o wire) \o (x \o y)
    BY <2>1, <2>3, Assoc, Zenon
  <2>6. Line' = Line
    BY <1>0, <2>1, <2>2, <2>4, <2>5 DEF Line
  <2> QED BY <1>0, <2>2, <2>6 DEF Sequenced
<1> QED BY <1>2, <1>3, <1>4, <1>5, <1>6, <1>7 DEF ClientStep

\* The inductive invariant.
IInv == TypeOK /\ Phases /\ Sequenced

LEMMA StepSequenced == IInv /\ [Next]_vars => IInv'
<1> SUFFICES ASSUME IInv, [Next]_vars PROVE Sequenced'
  BY StepInPhase DEF IInv
<1>1. CASE AcceptFails
  BY <1>1 DEF AcceptFails, IInv, Sequenced, Line
<1>2. CASE UNCHANGED vars
  BY <1>2 DEF vars, IInv, Sequenced, Line
<1> QED BY <1>1, <1>2, WorkerSequenced, ClientSequenced DEF Next, IInv

LEMMA Invariance == Spec => []IInv
<1>1. Init => IInv
  BY StartInPhase, StartSequenced DEF IInv
<1> QED BY <1>1, StepSequenced, PTL DEF Spec

LEMMA SequencedOnce == IInv => NothingAnsweredTwice
<1> SUFFICES ASSUME IInv PROVE NothingAnsweredTwice
  OBVIOUS
<1>1. Once(responses, client.sent)
  BY DEF IInv, Sequenced, InSequence
<1>2. DOMAIN responses = 1 .. Len(responses)
  BY DEF IInv, TypeOK
<1> QED BY <1>1, <1>2 DEF Once, Before, IsGet, NothingAnsweredTwice

\* Whatever a client sends, pipelined or not, cut and ended anywhere, also where the
\* remainder of a body reads as a request: every response is to a later place of the
\* stream than the one before, and a file is sent only for a GET line that names it.
THEOREM NothingTwice == Spec => []NothingAnsweredTwice
  BY Invariance, SequencedOnce, PTL

=============================================================================

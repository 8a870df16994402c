----------------------------- MODULE Connection -----------------------------
(***************************************************************************)
(* A worker in blocking mode and the client it is serving: acceptClient    *)
(* and recvRequest of socket.c, handleOneClientRequest of server.c and the *)
(* HTTP handlers of protocol/http/http.c.                                  *)
(*                                                                         *)
(* The stream is a sequence of units: request lines, header fields, blank *)
(* lines, ends of chunked bodies, zero bytes, control characters and other *)
(* data.  A client may put any of them into a body, so that what one       *)
(* reader takes for a body another may take for a request.  Every unit     *)
(* knows where it stands in which request.  The client writes in pieces of *)
(* any size; a recv returns what has arrived.  Content-Length counts       *)
(* units.                                                                  *)
(***************************************************************************)
EXTENDS Integers, Sequences, SequencesExt, FiniteSetsExt

CONSTANTS
  Requests,      \* shapes of the requests clients may send
  Pipelining,    \* a client may send a request before the last was answered
  MaxRequests,   \* bound: requests on one connection
  MAX_REQUEST    \* size from which recvRequest gives up (10 MB in the code)

NoLength == -1

\* What a request line and the fields behind it say.  found: the path names a
\* readable file; length: Content-Length; chunked: Transfer-Encoding; connection:
\* the Connection field; upgrade: a WebSocket handshake.
Heads ==
  [method : {"GET", "HEAD", "DELETE", "POST", "PUT", "none"}, found : BOOLEAN,
   length : Nat \cup {NoLength}, chunked : BOOLEAN,
   connection : {"none", "close", "keep-alive"}, upgrade : BOOLEAN]

\* The text of each: "line" is GET / HTTP/1.1 and the like; "fields" begins with
\* \r\n and ends with a field that nobody looks for; "end" is \r\n\r\n, "last"
\* 0\r\n\r\n, "trailer" 0\r\n, a field and \r\n\r\n; "nul" is a zero byte, "ctl" another
\* control character; "data" has neither spaces nor line ends. What stands before
\* an "end" does not end with 0.
Parts == {"line", "fields", "end", "data", "last", "trailer", "nul", "ctl"}
Pieces == [part : Parts, head : Heads]

\* A request is its header and the body that follows it; method "none" is data
\* that has no header of its own.
Shapes == [head : Heads, body : Seq(Pieces)]

ASSUME ConnectionAssumption ==
  /\ Requests \subseteq Shapes
  /\ Pipelining \in BOOLEAN
  /\ MaxRequests \in Nat /\ MAX_REQUEST \in Nat

VARIABLES
  listening,     \* the listening socket has not been closed
  client,        \* the client: where it is, what it sends
  wire,          \* what has arrived and not been received
  buf,           \* req of recvRequest: what this call has received
  worker,        \* where it is, and the descriptor conn
  responses      \* what has been sent on this connection

vars == <<listening, client, wire, buf, worker, responses>>

\* sent: the shapes of its requests; todo: units not written yet; end: whether
\* it has closed or reset the connection; reads: it reads what is sent to it.
Away == [st |-> "away", sent |-> <<>>, todo |-> <<>>, end |-> "open", reads |-> TRUE]
Idle == [pc |-> "accept", conn |-> "none"]

At(pc) == worker.pc = pc

Unit == [k : 1 .. MaxRequests, i : Nat, part : Parts, head : Heads]

\* The pieces of a request, and their units when it is the k-th of its connection.
Text(r) ==
  LET piece(part) == [part |-> part, head |-> r.head]
  IN (IF r.head.method = "none" THEN <<>>
        ELSE <<piece("line"), piece("fields"), piece("end")>>) \o r.body
Units(k, r) ==
  [i \in DOMAIN Text(r) |->
     [k |-> k, i |-> i, part |-> Text(r)[i].part, head |-> Text(r)[i].head]]

-----------------------------------------------------------------------------
(***************************************************************************)
(* Where recvRequest sees the end of a request in b, all that it has       *)
(* received, and what detectProtocol and parseHttpRequest make of t, which *)
(* is b up to the first zero byte.                                         *)
(***************************************************************************)

\* What strlen leaves of the request.
Cut(b) ==
  IF \E i \in DOMAIN b : b[i].part = "nul"
    THEN SubSeq(b, 1, SelectInSeq(b, LAMBDA u : u.part = "nul") - 1)
    ELSE b

\* findHttpHeaderEnd: the number of units up to the first blank line, 0 if none.
\* It may stand in what a request before has left, or end a chunked body.
Blanks == {"end", "last", "trailer"}
HeaderEnd(b) == SelectInSeq(b, LAMBDA u : u.part \in Blanks)
BodyLength(b) == Len(b) - HeaderEnd(b)

\* The method is what stands before the first space.
Method(b) == IF b[1].part = "line" THEN b[1].head.method ELSE "unknown"

\* Where there are fields in the header: a string ends at a zero byte.
FieldsAt(b) ==
  {i \in 1 .. HeaderEnd(b) : b[i].part = "fields" /\ \A j \in 1 .. i : b[j].part # "nul"}

\* getContentLength and isChunkedTransfer: the first such field.
ContentLength(b) ==
  LET I == {i \in FieldsAt(b) : b[i].head.length # NoLength}
  IN IF I = {} THEN NoLength ELSE b[Min(I)].head.length
Chunked(b) == \E i \in FieldsAt(b) : b[i].head.chunked

\* isChunkedBodyComplete: "0\r\n\r\n" somewhere in the body.
ChunkedBodyComplete(b) == \E i \in HeaderEnd(b) + 1 .. Len(b) : b[i].part = "last"

\* Methods that have no body for recvRequest (DELETE stands for OPTIONS too).
Bodiless == {"GET", "HEAD", "DELETE"}

\* (bug) The blank line is counted as part of the body.
CompleteEarly(b) ==
  /\ HeaderEnd(b) # 0
  /\ \/ Method(b) \in Bodiless
     \/ ContentLength(b) > 0 /\ BodyLength(b) + 1 >= ContentLength(b)
     \/ ContentLength(b) <= 0 /\ Chunked(b) /\ ChunkedBodyComplete(b)
     \/ ContentLength(b) <= 0 /\ ~Chunked(b) /\ BodyLength(b) > 0

\* (bug) The request is complete when more than the body has come.
CompleteLate(b) ==
  /\ HeaderEnd(b) # 0
  /\ \/ Method(b) \in Bodiless
     \/ ContentLength(b) > 0 /\ BodyLength(b) > ContentLength(b)
     \/ ContentLength(b) <= 0 /\ Chunked(b) /\ ChunkedBodyComplete(b)
     \/ ContentLength(b) <= 0 /\ ~Chunked(b) /\ BodyLength(b) > 0

\* The test of recvRequest after every recv.
Complete(b) ==
  /\ HeaderEnd(b) # 0
  /\ \/ Method(b) \in Bodiless
     \/ ContentLength(b) > 0 /\ BodyLength(b) >= ContentLength(b)
     \/ ContentLength(b) <= 0 /\ Chunked(b) /\ ChunkedBodyComplete(b)
     \/ ContentLength(b) <= 0 /\ ~Chunked(b) /\ BodyLength(b) > 0

\* parseHttpRequest succeeds: there is a header, and what follows it, if there
\* is something, is as long as Content-Length says.
Parses(t) ==
  /\ HeaderEnd(t) # 0
  /\ BodyLength(t) > 0 /\ ContentLength(t) # NoLength =>
       BodyLength(t) = ContentLength(t)

\* shouldCloseConnection: the first Connection field says keep-alive; without a
\* header no field has been read.
KeepAlive(t) ==
  LET I == {i \in FieldsAt(t) : t[i].head.connection # "none"}
  IN I # {} /\ t[Min(I)].head.connection = "keep-alive"

\* parseHttpHeaders, behind a first line that is a request line: one of the
\* fields before the first blank line is of WebSocket.
WebSocket(t) ==
  LET before(n) == {t[j].part : j \in 1 .. n - 1}
  IN /\ \E n \in DOMAIN t : t[n].part = "line" /\ before(n) \subseteq {"data", "ctl", "line"}
     /\ \E n \in DOMAIN t : /\ t[n].part = "fields" /\ t[n].head.upgrade
                           /\ before(n) \cap Blanks = {}

\* detectProtocol looks for control characters in the first 100 bytes: one that is
\* not at the very beginning may be behind them.
Ignorable(t) == t # <<>> /\ (WebSocket(t) \/ \E n \in DOMAIN t : t[n].part = "ctl")
Http(t) == t # <<>> /\ t[1].part # "ctl" /\ ~WebSocket(t)

-----------------------------------------------------------------------------
(***************************************************************************)
(* acceptClient.                                                           *)
(***************************************************************************)

Accept ==
  /\ At("accept") /\ listening
  /\ client.st = "waiting"
  /\ client' = [client EXCEPT !.st = "connected"]
  /\ worker' = [pc |-> "recv", conn |-> "open"]
  /\ UNCHANGED <<listening, wire, buf, responses>>

\* accept fails: the listening socket is closed, and runServer goes on with it.
AcceptFails ==
  /\ At("accept")
  /\ listening' = FALSE
  /\ UNCHANGED <<client, wire, buf, worker, responses>>

-----------------------------------------------------------------------------
(***************************************************************************)
(* recvRequest.  Each call starts with an empty buffer.                    *)
(***************************************************************************)

\* The first n units that have arrived are received: recv is given the room
\* left in the buffer.
Deliver(n) ==
  LET b == buf \o SubSeq(wire, 1, n)
  IN /\ At("recv") /\ worker.conn = "open"
     /\ wire' = SubSeq(wire, n + 1, Len(wire))
     /\ IF Complete(b)
          THEN buf' = b /\ worker' = [worker EXCEPT !.pc = "serve"]
          ELSE IF Len(b) > MAX_REQUEST
                 THEN buf' = <<>> /\ worker' = [worker EXCEPT !.pc = "close"]
                 ELSE buf' = b /\ UNCHANGED worker
     /\ UNCHANGED <<listening, client, responses>>

\* recv returns 0: what has been received is the request, if it is anything.
RecvEnd ==
  /\ At("recv") /\ worker.conn = "open"
  /\ wire = <<>> /\ client.end = "fin"
  /\ worker' = [worker EXCEPT !.pc = IF buf = <<>> THEN "close" ELSE "serve"]
  /\ UNCHANGED <<listening, client, wire, buf, responses>>

\* (bug) After an error recv is called again.
RecvFailsRetries ==
  /\ At("recv")
  /\ \/ worker.conn = "closed"
     \/ wire = <<>> /\ client.end = "open"
  /\ buf' = <<>>
  /\ worker' = [worker EXCEPT !.pc = "close"]
  /\ UNCHANGED <<listening, client, wire, responses>>

\* The receive timeout has expired, the client has reset the connection, or the
\* handlers have closed the descriptor.
RecvFails ==
  /\ At("recv")
  /\ \/ worker.conn = "closed"
     \/ wire = <<>> /\ client.end = "open"
     \/ client.end = "reset"
  /\ buf' = <<>>
  /\ worker' = [worker EXCEPT !.pc = "close"]
  /\ UNCHANGED <<listening, client, wire, responses>>

-----------------------------------------------------------------------------
(***************************************************************************)
(* The handling of one request: handleHttpRequest and the decision to keep *)
(* the connection.                                                         *)
(***************************************************************************)

\* What the handlers see of the request.
Seen == Cut(buf)

\* A response is to what begins in the buffer.  It is lost when the client has
\* reset the connection.
Respond(status, keep) ==
  responses' =
    IF client.end = "reset"
      THEN responses
      ELSE Append(responses, [to |-> buf[1].k, at |-> buf[1].i, status |-> status, keep |-> keep])

\* (bug) The buffer of the last call is used again.
LoopReuses(keep, conn) ==
  /\ worker' = [pc |-> IF keep THEN "recv" ELSE "close", conn |-> conn]
  /\ UNCHANGED <<listening, client, wire, buf>>

\* The next turn of the loop of handleOneClientRequest.  conn is the descriptor
\* as the handler leaves it.
Loop(keep, conn) ==
  /\ worker' = [pc |-> IF keep THEN "recv" ELSE "close", conn |-> conn]
  /\ buf' = <<>>
  /\ UNCHANGED <<listening, client, wire>>

\* send returns: the client reads, or has reset the connection.
Writable == client.reads \/ client.end = "reset"
HttpRequest == At("serve") /\ Http(Seen)

\* It begins with a zero byte: the loop ends as if nothing had come.
Nothing ==
  /\ At("serve") /\ Seen = <<>>
  /\ Loop(FALSE, "open")
  /\ UNCHANGED responses

\* WebSocket, and data that is not text: nothing is done; the loop goes on.
Ignore ==
  /\ At("serve") /\ Ignorable(Seen)
  /\ Loop(TRUE, "open")
  /\ UNCHANGED responses

\* 400, and close; the fields read so far decide whether the loop goes on.
BadRequest ==
  /\ HttpRequest /\ ~Parses(Seen) /\ Writable
  /\ Respond(400, FALSE)
  /\ Loop(KeepAlive(Seen), "closed")

\* GET of a file that can be read.
GetFile ==
  LET keep == KeepAlive(Seen)
  IN /\ HttpRequest /\ Parses(Seen) /\ Method(Seen) = "GET"
     /\ Seen[1].head.found /\ client.end # "reset" /\ client.reads
     /\ Respond(200, keep)
     /\ Loop(keep, IF keep THEN "open" ELSE "closed")

\* (bug) The 404 closes nothing.
GetMissingOpen ==
  /\ HttpRequest /\ Parses(Seen) /\ Method(Seen) = "GET"
  /\ ~Seen[1].head.found \/ client.end = "reset"
  /\ Writable
  /\ Respond(404, FALSE)
  /\ Loop(TRUE, "open")

\* GET of one that cannot: 404, and close.  Also what follows a 200 header that
\* could not be sent.
GetMissing ==
  /\ HttpRequest /\ Parses(Seen) /\ Method(Seen) = "GET"
  /\ ~Seen[1].head.found \/ client.end = "reset"
  /\ Writable
  /\ Respond(404, FALSE)
  /\ Loop(KeepAlive(Seen), "closed")

\* handleHeadRequest and handlePostRequest do nothing.
Silent ==
  LET keep == KeepAlive(Seen)
  IN /\ HttpRequest /\ Parses(Seen) /\ Method(Seen) \in {"HEAD", "POST"}
     /\ Loop(keep, IF keep THEN "open" ELSE "closed")
     /\ UNCHANGED responses

\* (bug) The status code is never set.
NotImplementedUnset ==
  LET keep == KeepAlive(Seen)
  IN /\ HttpRequest /\ Parses(Seen) /\ Method(Seen) \notin {"GET", "HEAD", "POST"}
     /\ Writable
     /\ Respond(0, FALSE)
     /\ Loop(keep, IF keep THEN "open" ELSE "closed")

\* Another method: 501, which says close, but closes only if the client asked.
NotImplemented ==
  LET keep == KeepAlive(Seen)
  IN /\ HttpRequest /\ Parses(Seen) /\ Method(Seen) \notin {"GET", "HEAD", "POST"}
     /\ Writable
     /\ Respond(501, FALSE)
     /\ Loop(keep, IF keep THEN "open" ELSE "closed")

\* The close at the end of handleOneClientRequest: the client is gone for the
\* worker, whether or not a handler has closed the descriptor before.
CloseConn ==
  /\ At("close")
  /\ worker' = Idle
  /\ client' = Away
  /\ wire' = <<>> /\ buf' = <<>> /\ responses' = <<>>
  /\ UNCHANGED listening

WorkerStep ==
  \/ Accept \/ RecvEnd \/ RecvFails
  \/ Nothing \/ Ignore \/ BadRequest \/ GetFile \/ GetMissing \/ Silent \/ NotImplemented
  \/ CloseConn
  \/ \E n \in 1 .. Len(wire) : Deliver(n)

-----------------------------------------------------------------------------
(***************************************************************************)
(* The client.                                                             *)
(***************************************************************************)

Connect ==
  /\ client.st = "away" /\ listening
  /\ client' = [Away EXCEPT !.st = "waiting"]
  /\ UNCHANGED wire

Alive == client.st # "away" /\ client.end = "open"

\* The next request, when what came before has been written and, unless the
\* client pipelines, answered.
NewRequest(r) ==
  /\ Alive /\ client.todo = <<>>
  /\ Len(client.sent) < MaxRequests
  /\ Pipelining \/ Len(responses) >= Len(client.sent)
  /\ client' = [client EXCEPT !.sent = Append(@, r),
                              !.todo = Units(Len(client.sent) + 1, r)]
  /\ UNCHANGED wire

\* Some of it arrives.
Write(n) ==
  /\ Alive
  /\ wire' = wire \o SubSeq(client.todo, 1, n)
  /\ client' = [client EXCEPT !.todo = SubSeq(@, n + 1, Len(@))]

\* The client closes its side, in the middle of a request or not.
Finish ==
  /\ Alive
  /\ client' = [client EXCEPT !.end = "fin", !.todo = <<>>]
  /\ UNCHANGED wire

\* It resets the connection: what has not been received is lost.
Reset ==
  /\ client.st # "away" /\ client.end # "reset"
  /\ client' = [client EXCEPT !.end = "reset", !.todo = <<>>]
  /\ wire' = <<>>

\* It stops reading, or reads again: a send waits meanwhile.
TurnDeaf ==
  /\ client.st = "connected"
  /\ client' = [client EXCEPT !.reads = ~@]
  /\ UNCHANGED wire

ClientStep ==
  /\ \/ Connect \/ Finish \/ Reset \/ TurnDeaf
     \/ \E r \in Requests : NewRequest(r)
     \/ \E n \in 1 .. Len(client.todo) : Write(n)
  /\ UNCHANGED <<listening, buf, worker, responses>>

Init ==
  /\ listening = TRUE
  /\ client = Away
  /\ wire = <<>> /\ buf = <<>> /\ responses = <<>>
  /\ worker = Idle

Next == WorkerStep \/ AcceptFails \/ ClientStep

\* The worker is scheduled, and a receive timeout expires; nothing is assumed
\* of the client.
Spec == Init /\ [][Next]_vars /\ WF_vars(WorkerStep)

-----------------------------------------------------------------------------
(***************************************************************************)
(* What the promises below are made for.                                   *)
(***************************************************************************)

\* The requests whose end the header tells: no body for a method that has none,
\* a body as long as Content-Length says, or chunks of which the last is last;
\* and that fit in the buffer.  Whatever the body is made of.
Delimited(r) ==
  /\ r.head.method # "none" /\ ~r.head.upgrade
  /\ \/ r.head.method \in Bodiless /\ r.body = <<>>
     \/ r.head.method \notin Bodiless /\ r.head.length > 0 /\ Len(r.body) = r.head.length
     \/ /\ r.head.method \notin Bodiless /\ r.head.length = NoLength
        /\ r.head.chunked /\ r.body # <<>>
        /\ \A i \in DOMAIN r.body : r.body[i].part = "last" <=> i = Len(r.body)
  /\ Len(r.body) + 2 <= MAX_REQUEST

\* A zero byte behind the beginning of a body with Content-Length: the parser
\* sees less of the body than the field says.
Spoilt(r) ==
  /\ r.head.length # NoLength /\ r.body # <<>> /\ r.body[1].part # "nul"
  /\ \E i \in DOMAIN r.body : r.body[i].part = "nul"

\* Those the server is sure to answer: HEAD and POST have no handler, and a
\* control character early in the body makes the request something else.
Answerable(r) ==
  /\ r.head.method \notin {"HEAD", "POST"}
  /\ \A i \in DOMAIN r.body : r.body[i].part # "ctl"

\* Clients that send such requests, each after the answer to the last.
PatientClients == ~Pipelining /\ \A r \in Requests : Delimited(r)
AnsweredClients == PatientClients /\ \A r \in Requests : Answerable(r)

-----------------------------------------------------------------------------
(***************************************************************************)
(* Properties.                                                             *)
(***************************************************************************)

Stream == Seq(Unit)
Response == [to : 1 .. MaxRequests, at : Nat, status : {200, 400, 404, 501}, keep : BOOLEAN]

\* The type of the state.
TypeOK ==
  /\ listening \in BOOLEAN
  /\ client \in [st : {"away", "waiting", "connected"}, sent : Seq(Requests), todo : Stream,
                 end : {"open", "fin", "reset"}, reads : BOOLEAN]
  /\ wire \in Stream /\ buf \in Stream
  /\ worker \in [pc : {"accept", "recv", "serve", "close"},
                 conn : {"none", "open", "closed"}]
  /\ responses \in Seq(Response)

\* A request is handled only once all of it is there, in however many pieces it
\* came (socket.c:221-297), unless the client has ended the connection.
RequestWhole ==
  At("serve") /\ client.end = "open" =>
    LET k == buf[1].k IN buf = Units(k, client.sent[k])

\* The responses of a connection are to its requests in the order in which they
\* were sent, one each, and say what there is to say of them (http.c:388-412).  A
\* request with a zero byte in a body of declared length is refused, because the
\* parser measures the body with strlen (http.c:326-328).
RightAnswers ==
  \A j \in DOMAIN responses :
    LET r == client.sent[j]
    IN /\ responses[j].to = j
       /\ \/ responses[j].status = 200 /\ r.head.method = "GET" /\ r.head.found
          \/ responses[j].status = 404 /\ r.head.method = "GET" /\ ~r.head.found
          \/ /\ responses[j].status = 501 /\ r.head.method \in {"PUT", "DELETE"}
             /\ ~Spoilt(r) \/ client.end # "open"
          \/ responses[j].status = 400 /\ (Spoilt(r) \/ client.end # "open")

\* What the Connection field of a response says is what happens: a connection
\* that is kept is given up only when the client has ended it or sends nothing
\* for the receive timeout, and nothing is received after a response that says
\* close (http.c:79, 106, 202, 392 and server.c:155-177), save a 501.
PromiseKept ==
  [][responses' # <<>> =>
       LET last == Last(responses')
       IN /\ At("recv") \/ At("serve") =>
               (last.keep /\ worker'.pc = "close" =>
                  client.end # "open" \/ (At("recv") /\ wire = <<>>))
          /\ At("recv") /\ buf' # <<>> => last.keep \/ last.status = 501]_vars

\* Every request a client has sent, and waits for, is answered - 200, 404, 501, or
\* 400 if a zero byte in the body spoils it - unless the client ends the connection
\* or does not read.
Owed == /\ client.sent # <<>> /\ client.todo = <<>> /\ worker.pc \in {"recv", "serve"}
        /\ worker.conn = "open" /\ Len(responses) < Len(client.sent)
        /\ Answerable(Last(client.sent))
RequestAnswered ==
  Owed ~> \/ client.sent # <<>> /\ Len(responses) >= Len(client.sent)
          \/ client.end # "open" \/ ~client.reads

\* Whatever the client sends, also where what is left of a body reads as a request:
\* every response is to a later place of the stream than the one before, so
\* nothing is answered twice, and a file is sent only for a GET line that stands
\* there and names it (server.c:149-173, socket.c:221-297).
NothingAnsweredTwice ==
  \A i, j \in DOMAIN responses :
    /\ i < j => \/ responses[i].to < responses[j].to
                \/ responses[i].to = responses[j].to /\ responses[i].at < responses[j].at
    /\ responses[j].status = 200 =>
         LET k == responses[j].to
             piece == Text(client.sent[k])[responses[j].at]
         IN piece.part = "line" /\ piece.head.method = "GET" /\ piece.head.found

\* A client that resets its connection does not hold the worker, whatever it
\* was doing.
ResetReleases ==
  client.st = "connected" /\ client.end = "reset" ~> At("accept")

\* The connection as the client is promised it: the worker and its stream
\* implement the abstract session.  A connection the worker has decided to
\* close is "closing" (socket.c:200-340, http.c:388-412, server.c:149-192).
Session == INSTANCE HttpSession WITH
  st <- IF At("close") THEN "closing" ELSE client.st,
  sent <- client.sent,
  writing <- client.todo # <<>>,
  ended <- client.end # "open",
  answers <- [j \in DOMAIN responses |->
                [to |-> responses[j].to, status |-> responses[j].status,
                 keep |-> responses[j].keep]],
  Unreadable <- {r \in Requests : Spoilt(r)}
ImplementsSession == Session!Spec
=============================================================================

------------------------------ MODULE Transfer ------------------------------
(***************************************************************************)
(* What a client receives: the responses of one connection on their way    *)
(* through send(2) and the send buffer of the socket - sendStaticFile and  *)
(* sendErrorResponse of protocol/http/http.c, and recvRequest as far as it *)
(* ends the connection.  The code takes every result of send that is not   *)
(* negative for success.  On a blocking socket send copies everything; on  *)
(* the non-blocking sockets of select mode it copies what there is room    *)
(* for.  A worker that restartWorker has forked has the SIGTERM handler of *)
(* the master, installed without SA_RESTART: the signal ends a send that   *)
(* waits, with what it has copied.                                         *)
(*                                                                         *)
(* A unit is a header (i = 0) or a piece of a body (i > 0) of the response *)
(* to the k-th request.  The client does not pipeline: it counts pieces up *)
(* to the Content-Length of the header before it sends another request.    *)
(***************************************************************************)
EXTENDS Integers, Sequences, FiniteSets, Functions

CONSTANTS
  Sizes,         \* sizes of files, in pieces
  CHUNK,         \* pieces that one fread returns (4096 bytes in the code)
  CAP,           \* units the send buffer holds
  MaxRequests    \* bound: requests on the connection

Missing == -1    \* the size of a file that cannot be read

ASSUME TransferAssumption ==
  /\ Sizes \subseteq Nat \cup {Missing}
  /\ CHUNK \in Nat \ {0} /\ CAP \in Nat \ {0} /\ MaxRequests \in Nat

VARIABLES
  mode,          \* of the worker: "blocking", "restarted" or "select"
  pc,            \* "recv", "header", "body", "errHeader", "errBody", "closed"
  served,        \* the number of the request being served, or served last
  pos,           \* pieces fread has returned
  call,          \* the send under way: units not copied, whether some were
  sock,          \* units in the send buffer
  asked,         \* requests sent by the client: size of the file, keep-alive
  got,           \* units the client has read
  reads,         \* the client reads
  reset          \* the client has reset the connection

worker == <<pc, served, pos, call>>
client == <<asked, got, reads, reset>>
vars == <<mode, worker, sock, client>>

Unit(k, i, part) == [k |-> k, i |-> i, part |-> part]
File(k) == asked[k].size
NoCall == [todo |-> <<>>, copied |-> FALSE]
Call(units) == [todo |-> units, copied |-> FALSE]

-----------------------------------------------------------------------------
(***************************************************************************)
(* The worker: what it does when a send has returned.                      *)
(***************************************************************************)

\* sendErrorResponse begins.
SendError(k) ==
  /\ pc' = "errHeader" /\ call' = Call(<<Unit(k, 0, "error")>>)
  /\ UNCHANGED <<served, pos>>

\* The handler returns; handleOneClientRequest receives again, or has closed.
EndResponse(keep) ==
  /\ pc' = IF keep THEN "recv" ELSE "closed"
  /\ call' = NoCall
  /\ UNCHANGED <<served, pos>>

\* (bug) A chunk that is not full is taken for the end of the file.
FreadFull ==
  IF File(served) - pos < CHUNK
    THEN EndResponse(asked[served].keep)
    ELSE /\ pc' = "body" /\ pos' = pos + CHUNK
         /\ call' = Call([i \in 1 .. CHUNK |-> Unit(served, pos + i, "file")])
         /\ UNCHANGED served

\* (bug) The position moves on by a whole chunk.
FreadOver ==
  LET left == File(served) - pos
      n == IF left < CHUNK THEN left ELSE CHUNK
  IN IF n <= 0
       THEN EndResponse(asked[served].keep)
       ELSE /\ pc' = "body" /\ pos' = pos + CHUNK
            /\ call' = Call([i \in 1 .. n |-> Unit(served, pos + i, "file")])
            /\ UNCHANGED served

\* fread, and send of what it has returned.  At the end of the file the
\* connection is kept or closed as the client has asked.
Fread ==
  LET left == File(served) - pos
      n == IF left < CHUNK THEN left ELSE CHUNK
  IN IF n = 0
       THEN EndResponse(asked[served].keep)
       ELSE /\ pc' = "body" /\ pos' = pos + n
            /\ call' = Call([i \in 1 .. n |-> Unit(served, pos + i, "file")])
            /\ UNCHANGED served

\* send has returned a count, whatever it is.
Succeeds ==
  \/ pc \in {"header", "body"} /\ Fread
  \/ /\ pc = "errHeader"
     /\ pc' = "errBody" /\ call' = Call(<<Unit(served, 1, "error")>>)
     /\ UNCHANGED <<served, pos>>
  \/ pc = "errBody" /\ EndResponse(FALSE)

\* (bug) A body that cannot be sent is answered with an error, too.
FailsLoudly ==
  \/ pc \in {"header", "body"} /\ SendError(served)
  \/ pc \in {"errHeader", "errBody"} /\ EndResponse(FALSE)

\* send has returned -1: a header that fails is replaced by an error response,
\* a body that fails is left where it is.
Fails ==
  \/ pc = "header" /\ SendError(served)
  \/ pc = "body" /\ EndResponse(asked[served].keep)
  \/ pc \in {"errHeader", "errBody"} /\ EndResponse(FALSE)

-----------------------------------------------------------------------------
(***************************************************************************)
(* send(2).                                                                *)
(***************************************************************************)

Room == CAP - Len(sock)
Sending == call.todo # <<>>

\* (bug) Blocking mode, too, works on non-blocking sockets.
CopyNoWait ==
  LET n == IF Len(call.todo) < Room THEN Len(call.todo) ELSE Room
  IN /\ Sending /\ ~reset /\ n > 0
     /\ sock' = sock \o SubSeq(call.todo, 1, n)
     /\ Succeeds
     /\ UNCHANGED <<mode, client>>

\* What there is room for is copied.  The rest waits if the socket is blocking;
\* otherwise send returns a count that is short.
Copy ==
  LET n == IF Len(call.todo) < Room THEN Len(call.todo) ELSE Room
  IN /\ Sending /\ ~reset /\ n > 0
     /\ sock' = sock \o SubSeq(call.todo, 1, n)
     /\ IF n = Len(call.todo) \/ mode = "select"
          THEN Succeeds
          ELSE /\ call' = [todo |-> SubSeq(call.todo, n + 1, Len(call.todo)), copied |-> TRUE]
               /\ UNCHANGED <<pc, served, pos>>
     /\ UNCHANGED <<mode, client>>

\* A send that must not wait: EAGAIN.
WouldBlock ==
  /\ Sending /\ ~reset /\ Room = 0 /\ mode = "select"
  /\ Fails
  /\ UNCHANGED <<mode, sock, client>>

\* A send that ends early returns what it has copied, if anything.
Cut == IF call.copied THEN Succeeds ELSE Fails

\* The SIGTERM of the master interrupts a send that waits: EINTR.
Interrupted ==
  /\ Sending /\ ~reset /\ Room = 0 /\ mode = "restarted"
  /\ Cut
  /\ UNCHANGED <<mode, sock, client>>

\* The connection has been reset: EPIPE; SIGPIPE is ignored.
Broken ==
  /\ Sending /\ reset
  /\ Cut
  /\ UNCHANGED <<mode, sock, client>>

-----------------------------------------------------------------------------
(***************************************************************************)
(* recvRequest.                                                            *)
(***************************************************************************)

\* (bug) After the size has been taken the file is not rewound.
ReceiveAtEnd ==
  /\ pc = "recv" /\ served < Len(asked) /\ ~reset
  /\ served' = served + 1
  /\ IF File(served + 1) = Missing
       THEN pos' = 0 /\ pc' = "errHeader" /\ call' = Call(<<Unit(served + 1, 0, "error")>>)
       ELSE pos' = File(served + 1) /\ pc' = "header" /\ call' = Call(<<Unit(served + 1, 0, "file")>>)
  /\ UNCHANGED <<mode, sock, client>>

\* The next request is there: its header, or the 404 of a missing file.
Receive ==
  /\ pc = "recv" /\ served < Len(asked) /\ ~reset
  /\ served' = served + 1 /\ pos' = 0
  /\ IF File(served + 1) = Missing
       THEN pc' = "errHeader" /\ call' = Call(<<Unit(served + 1, 0, "error")>>)
       ELSE pc' = "header" /\ call' = Call(<<Unit(served + 1, 0, "file")>>)
  /\ UNCHANGED <<mode, sock, client>>

\* (bug) In select mode recv is called again until there is something, as the
\* lines that are commented out in recvRequest would.
RecvRetries ==
  /\ pc = "recv"
  /\ served = Len(asked) \/ reset
  /\ mode # "select"
  /\ pc' = "closed"
  /\ UNCHANGED <<mode, served, pos, call, sock, client>>

\* There is none: EAGAIN in select mode, otherwise the timeout, EINTR, or the
\* client has closed or reset the connection.
RecvFails ==
  /\ pc = "recv"
  /\ served = Len(asked) \/ reset
  /\ served > 0 \/ mode # "select" \/ reset
  /\ pc' = "closed"
  /\ UNCHANGED <<mode, served, pos, call, sock, client>>

WorkerStep ==
  Copy \/ WouldBlock \/ Interrupted \/ Broken \/ Receive \/ RecvFails

-----------------------------------------------------------------------------
(***************************************************************************)
(* The client.                                                             *)
(***************************************************************************)

Length(k) == IF File(k) = Missing THEN 1 ELSE File(k)
Read(k) == Cardinality({j \in DOMAIN got : got[j].k = k})

\* By its count, it has all of the response to request k.
Counted(k) == k \in DOMAIN asked /\ Read(k) = Length(k) + 1

Ask(size, keep) ==
  /\ ~reset /\ Len(asked) < MaxRequests
  /\ asked # <<>> => Counted(Len(asked)) /\ asked[Len(asked)].keep
  /\ asked' = Append(asked, [size |-> size, keep |-> keep])
  /\ UNCHANGED <<mode, worker, sock, got, reads, reset>>

ClientReads ==
  /\ reads /\ sock # <<>>
  /\ got' = Append(got, Head(sock)) /\ sock' = Tail(sock)
  /\ UNCHANGED <<mode, worker, asked, reads, reset>>

\* It stops reading, or reads again.
TurnDeaf ==
  /\ reads' = ~reads
  /\ UNCHANGED <<mode, worker, sock, asked, got, reset>>

Reset ==
  /\ ~reset /\ reset' = TRUE
  /\ sock' = <<>>
  /\ UNCHANGED <<mode, worker, asked, got, reads>>

ClientStep ==
  \/ ClientReads \/ TurnDeaf \/ Reset
  \/ \E size \in Sizes, keep \in BOOLEAN : Ask(size, keep)

Init ==
  /\ mode \in {"blocking", "restarted", "select"}
  /\ pc = "recv" /\ served = 0 /\ pos = 0 /\ call = NoCall
  /\ sock = <<>> /\ asked = <<>> /\ got = <<>>
  /\ reads = TRUE /\ reset = FALSE

Next == WorkerStep \/ ClientStep

\* The worker is scheduled, a timeout expires, and what is in the buffer reaches
\* a client that reads; nothing is assumed of the rest.
Spec == Init /\ [][Next]_vars /\ WF_vars(WorkerStep) /\ WF_vars(ClientReads)

-----------------------------------------------------------------------------
(***************************************************************************)
(* Properties.                                                             *)
(***************************************************************************)

\* The units that belong to the response to request k, in order.
Response(k) ==
  LET part == IF File(k) = Missing THEN "error" ELSE "file"
  IN [i \in 1 .. Length(k) + 1 |-> Unit(k, i - 1, part)]

\* All that has been copied and not lost, in order.
Stream == got \o sock

\* v comes later in the same response than u, or begins the next one.
Later(u, v) ==
  \/ u.k = v.k /\ u.i < v.i
  \/ u.k + 1 = v.k /\ v.i = 0

\* v comes right after u when every response is whole.
RightAfter(u, v) ==
  \/ u.k = v.k /\ u.i + 1 = v.i
  \/ u.k + 1 = v.k /\ v.i = 0 /\ u.i = Length(u.k)

Units == [k : 1 .. MaxRequests, i : Nat, part : {"file", "error"}]

\* The type of the state.
TypeOK ==
  /\ mode \in {"blocking", "restarted", "select"}
  /\ pc \in {"recv", "header", "body", "errHeader", "errBody", "closed"}
  /\ served \in 0 .. Len(asked)
  /\ pos \in 0 .. (IF served = 0 THEN 0 ELSE Length(served))
  /\ call \in [todo : Seq(Units), copied : BOOLEAN]
  /\ sock \in Seq(Units) /\ Len(sock) <= CAP
  /\ got \in Seq(Units)
  /\ asked \in Seq([size : Sizes, keep : BOOLEAN]) /\ Len(asked) <= MaxRequests
  /\ reads \in BOOLEAN /\ reset \in BOOLEAN

\* Whatever is lost on the way: between a header and the next header there are
\* pieces of the file the header announces, in their order, none twice, and
\* never the text of an error (http.c:123-136).
OneResponseAtATime ==
  \A j \in DOMAIN Stream :
    /\ Stream[j] \in Range(Response(Stream[j].k))
    /\ j = 1 => Stream[j].k = 1 /\ Stream[j].i = 0
    /\ j > 1 => Later(Stream[j - 1], Stream[j])

\* On a blocking socket nothing is lost: what a client has received is always
\* the beginning of the responses it asked for, without a gap (http.c:130-136).
BlockingExact ==
  mode = "blocking" =>
    \A j \in DOMAIN Stream : j > 1 => RightAfter(Stream[j - 1], Stream[j])

\* In every mode, a response that the send buffer can hold arrives whole unless
\* the client resets the connection, whether or not the client reads.
SmallFileWhole ==
  pc \in {"recv", "closed"} /\ ~reset =>
    \A k \in 1 .. served :
      Length(k) < CAP => Range(Response(k)) \subseteq Range(Stream)

\* A client that reads is never left waiting: it has all it counts on, or it
\* has seen the end of the connection (socket.c:312, server.c:191).
NotLeftWaiting ==
  \A k \in 1 .. MaxRequests :
    Len(asked) = k ~> \/ Counted(k)
                      \/ pc = "closed" /\ sock = <<>>
                      \/ reset \/ ~reads

\* A worker in blocking mode that has begun a response gives all of it to a
\* client that reads.
BlockingDelivers ==
  \A k \in 1 .. MaxRequests :
    mode = "blocking" /\ served = k ~> Counted(k) \/ reset \/ ~reads
=============================================================================

---------------------------- MODULE RequestText ----------------------------
(***************************************************************************)
(* One request is read three times: by recvRequest of socket.c, to find    *)
(* its end, by detectProtocol of protocol.c, and by parseHttpRequest of    *)
(* protocol/http/http.c.  Each finds the fields in its own way: recvRequest*)
(* searches for "Content-Length:" as text and reads an int, the parser     *)
(* compares the beginning of each name without regard to case and reads a  *)
(* long, the detector takes a name that is the beginning of the one it is  *)
(* looking for.  This module says what the three make of a request together*)
(* however it is split on its way.                                         *)
(*                                                                         *)
(* A field is a spelling of its name, the number its value begins with,    *)
(* and whether something follows the number.  The body is a sequence of    *)
(* bytes: ordinary, zero, a control character, or the end of the last      *)
(* chunk.  Data that is not text is a sequence of numbers.  A header comes *)
(* in one piece here; Connection splits it, too.                           *)
(***************************************************************************)
EXTENDS ProtocolDetect

CONSTANTS
  Texts,       \* requests clients send
  Datagrams,   \* data that is not text
  IntLimit     \* an int goes from -IntLimit to IntLimit - 1 (2^31 in the code); a
               \* long is wide enough for every number here

BodyBytes == {"x", "nul", "ctl", "last"}

\* near: the body begins within the first 100 bytes of the request.
Requests ==
  [method : STRING, fields : Seq([name : STRING, number : Int, junk : BOOLEAN]),
   body : Seq(BodyBytes), near : BOOLEAN]

ASSUME TextAssumption ==
  /\ Texts \subseteq Requests
  /\ Datagrams \subseteq Seq(Byte)
  /\ IntLimit \in Nat \ {0}

VARIABLES
  kind,        \* what the client sends: "text", "data", or "none" yet
  text,        \* the request; the bytes if it is data
  arrived,     \* units received after the header, or of the data; -1: nothing
  verdict      \* what becomes of it

vars == <<kind, text, arrived, verdict>>

Waiting == [is |-> "waiting", handler |-> "none", body |-> <<>>]
Verdict(is) == [Waiting EXCEPT !.is = is]

-----------------------------------------------------------------------------
(***************************************************************************)
(* How each reader sees the fields.  A zero byte in the header ends it for *)
(* all three.                                                              *)
(***************************************************************************)

HasNul(r) == \E f \in Range(r.fields) : f.name = "nul"
Fields(r) ==
  IF HasNul(r)
    THEN SubSeq(r.fields, 1, SelectInSeq(r.fields, LAMBDA f : f.name = "nul") - 1)
    ELSE r.fields

First(r, Names) == SelectInSeq(Fields(r), LAMBDA f : f.name \in Names)

\* The int that the digits of n add up to: it overflows.
Int32(n) ==
  LET m == n % (2 * IntLimit) IN IF m >= IntLimit THEN m - 2 * IntLimit ELSE m

\* getContentLength: "Content-Length:" anywhere in the header; digits only,
\* whatever follows them.
ContentLength(r) ==
  LET i == First(r, {"Content-Length", "X-Content-Length"})
  IN IF i = 0 THEN -1
     ELSE IF r.fields[i].number < 0 THEN 0 ELSE Int32(r.fields[i].number)

\* isChunkedTransfer.
Chunked(r) == First(r, {"Transfer-Encoding"}) # 0

\* The field parseHttpRequest takes for the length: the first whose name begins
\* with Content-Length in upper or lower case; 0 if there is none.
LengthField(r) == First(r, {"Content-Length", "content-length", "Content-Length-Range"})

\* parseHttpHeaders: names that are the beginning of Upgrade, with the value
\* websocket, or of Sec-WebSocket-Key.
WebSocket(r) == First(r, {"Upgrade", "U", "Sec-WebSocket-Key", "Sec"}) # 0

-----------------------------------------------------------------------------
(***************************************************************************)
(* recvRequest, detectProtocol, parseHttpRequest.                          *)
(***************************************************************************)

\* (bug) A byte of the header is counted as one of the body.
CompleteEarly(r, n) ==
  \/ r.method \in {"GET", "HEAD", "DELETE", "OPTIONS"}
  \/ ContentLength(r) > 0 /\ n + 1 >= ContentLength(r)
  \/ /\ ContentLength(r) <= 0
     /\ IF Chunked(r) THEN \E i \in 1 .. n : r.body[i] = "last" ELSE n > 0

\* (bug) A length of 0, or none that has digits, is waited for like any other.
CompleteLate(r, n) ==
  \/ r.method \in {"GET", "HEAD", "DELETE", "OPTIONS"}
  \/ ContentLength(r) # -1 /\ n > 0 /\ n = ContentLength(r)
  \/ /\ ContentLength(r) = -1
     /\ IF Chunked(r) THEN \E i \in 1 .. n : r.body[i] = "last" ELSE n > 0

\* The test after every recv, with n bytes of the body.
Complete(r, n) ==
  \/ r.method \in {"GET", "HEAD", "DELETE", "OPTIONS"}
  \/ ContentLength(r) > 0 /\ n >= ContentLength(r)
  \/ /\ ContentLength(r) <= 0
     /\ IF Chunked(r) THEN \E i \in 1 .. n : r.body[i] = "last" ELSE n > 0

\* What strlen leaves of the first n bytes of the body.
Body(r, n) ==
  LET b == SubSeq(r.body, 1, n)
  IN IF "nul" \in Range(b)
       THEN SubSeq(b, 1, SelectInSeq(b, LAMBDA c : c = "nul") - 1)
       ELSE b

\* detectProtocol of a text whose body is b: a control character near enough
\* makes it binary.
Type(r, b) ==
  IF r.near /\ ~HasNul(r) /\ "ctl" \in Range(b) THEN "unknown"
  ELSE IF WebSocket(r) THEN "websocket"
  ELSE "http"

\* parseHttpRequest accepts the text.
Parses(r, b) ==
  LET i == LengthField(r)
  IN /\ ~HasNul(r)
     /\ b # <<>> /\ i # 0 => ~r.fields[i].junk /\ r.fields[i].number = Len(b)

\* The body it stores: none without a length.
Stored(r, b) == IF LengthField(r) = 0 THEN <<>> ELSE b

\* (bug) What no branch is for has no handler.
HandlerMissing(m) ==
  IF m \in {"GET", "GETX"} THEN "get" ELSE IF m = "POST" THEN "post"
  ELSE IF m = "HEAD" THEN "head" ELSE "default"

\* handleHttpRequest compares the beginning of the method.
Handler(m) ==
  IF m \in {"GET", "GETX"} THEN "get" ELSE IF m = "POST" THEN "post"
  ELSE IF m = "HEAD" THEN "head" ELSE "501"

\* handleOneClientRequest, once recvRequest has returned n bytes of the body.
Judge(r, n) ==
  LET b == Body(r, n)
  IN IF Type(r, b) # "http" THEN Verdict("ignored")
     ELSE IF ~Parses(r, b) THEN Verdict("400")
     ELSE [is |-> "accepted", handler |-> Handler(r.method), body |-> Stored(r, b)]

\* The same for data: there is no end of header to be found.
JudgeData(d) ==
  IF Cut(d) = <<>> THEN Verdict("dropped")
  ELSE IF Detect(Cut(d)) = "http" THEN Verdict("400") ELSE Verdict("ignored")

-----------------------------------------------------------------------------
(***************************************************************************)
(* The request arrives.                                                    *)
(***************************************************************************)

\* Bytes after the header, or of the data.
Length == IF kind = "text" THEN Len(text.body) ELSE Len(text)

\* The header, with the first n bytes of the body, or n more bytes.
Arrive(n) ==
  LET m == (IF arrived < 0 THEN 0 ELSE arrived) + n
  IN /\ kind = "text" /\ verdict.is = "waiting"
     /\ n > 0 \/ arrived < 0
     /\ m <= Length
     /\ arrived' = m
     /\ verdict' = IF Complete(text, m) THEN Judge(text, m) ELSE verdict
     /\ UNCHANGED <<kind, text>>

ArriveData(n) ==
  LET m == (IF arrived < 0 THEN 0 ELSE arrived) + n
  IN /\ kind = "data" /\ verdict.is = "waiting"
     /\ n > 0 /\ m <= Length
     /\ arrived' = m
     /\ UNCHANGED <<kind, text, verdict>>

\* recv returns 0: what there is, is the request.
Finish ==
  /\ kind # "none" /\ verdict.is = "waiting"
  /\ verdict' = IF arrived < 0 THEN Verdict("dropped")
                ELSE IF kind = "text" THEN Judge(text, arrived)
                ELSE JudgeData(SubSeq(text, 1, arrived))
  /\ UNCHANGED <<kind, text, arrived>>

\* recv fails: EAGAIN in select mode, the timeout in blocking mode.
RecvFails ==
  /\ kind # "none" /\ verdict.is = "waiting"
  /\ verdict' = Verdict("dropped")
  /\ UNCHANGED <<kind, text, arrived>>

\* A client comes, with text or with data.
Begin ==
  /\ kind = "none"
  /\ \/ kind' = "text" /\ text' \in Texts
     \/ kind' = "data" /\ text' \in Datagrams
  /\ UNCHANGED <<arrived, verdict>>

\* The request has been dealt with: each is looked at on its own.
Dealt ==
  /\ verdict.is # "waiting"
  /\ kind' = "none" /\ text' = <<>>
  /\ arrived' = -1 /\ verdict' = Waiting

Init ==
  /\ kind = "none" /\ text = <<>>
  /\ arrived = -1 /\ verdict = Waiting

Next ==
  \/ \E n \in 0 .. Length : Arrive(n) \/ ArriveData(n)
  \/ Begin \/ Finish \/ RecvFails \/ Dealt

Spec == Init /\ [][Next]_vars

-----------------------------------------------------------------------------
(***************************************************************************)
(* Properties.                                                             *)
(***************************************************************************)

\* The type of the state.
TypeOK ==
  /\ \/ kind = "none" /\ text = <<>>
     \/ kind = "text" /\ text \in Texts
     \/ kind = "data" /\ text \in Datagrams
  /\ arrived \in -1 .. Length
  /\ verdict \in [is : {"waiting", "dropped", "ignored", "400", "accepted"},
                  handler : {"none", "get", "post", "head", "501"}, body : Seq(BodyBytes)]

\* A request that has come in full is not waited for, however it is split, as long
\* as the field that recvRequest reads, if there is one, tells the length of the
\* body, and chunks end with the last: no other spelling, no second field, no
\* zero byte in the header and no length that overflows makes the server expect
\* bytes that nobody will send (socket.c:260-285, 355-383).
Truthful(r) ==
  LET i == First(r, {"Content-Length", "X-Content-Length"})
  IN /\ r.body # <<>>
     /\ i # 0 => r.fields[i].number = Len(r.body)
     /\ Chunked(r) => "last" \in Range(r.body)
TruthNeverWaits ==
  kind = "text" /\ Truthful(text) /\ arrived = Len(text.body) => verdict.is # "waiting"

\* Where recvRequest and the parser read the same length, and it is that of the
\* body, no split, no other field and no number that overflows elsewhere makes
\* the request fail: as soon as there is a verdict while the client is waiting
\* it is the whole body, or the request is a WebSocket handshake.
Agreed(r) ==
  /\ r.body # <<>> /\ ContentLength(r) = Len(r.body)
  /\ LengthField(r) # 0 /\ ~r.fields[LengthField(r)].junk
  /\ r.fields[LengthField(r)].number = Len(r.body)
  /\ Range(r.body) \cap {"nul", "ctl"} = {} /\ ~HasNul(r)
  /\ ~WebSocket(r)
AgreementSuffices ==
  [][kind = "text" /\ verdict.is = "waiting" /\ verdict'.is # "waiting"
     /\ arrived' # arrived /\ text.method \in {"POST", "PUT"} /\ Agreed(text)
       => verdict'.is = "accepted" /\ verdict'.body = text.body]_vars

\* An MQTT CONNECT or a TLS ClientHello is never answered as if it were HTTP,
\* wherever it is split or ends, although strlen hides it from the detectors
\* that are written for it (server.c:156-158, protocol.c:31-49, 142-187).
BinaryNotAnswered ==
  kind = "data" /\ (IsMqttConnect(text) \/ IsClientHello(text)) =>
    verdict.is \in {"waiting", "dropped", "ignored"}
=============================================================================

--------------------------- MODULE TransferProofs ---------------------------
(***************************************************************************)
(* Proofs about what a client receives, for every set of file sizes, every *)
(* size of chunk and of send buffer, and every number of requests.         *)
(***************************************************************************)
EXTENDS Transfer, FiniteSetTheorems, SequenceTheorems, TLAPS

\* What is sent, is waiting to be read or is about to be copied, in order.
Line == Stream \o call.todo

-----------------------------------------------------------------------------
(***************************************************************************)
(* Sequences of units.  A is the sequence of requests, n the number of     *)
(* those that have been served, md the mode.                               *)
(***************************************************************************)

Pieces(A, k) == IF A[k].size = Missing THEN 1 ELSE A[k].size
Part(A, k) == IF A[k].size = Missing THEN "error" ELSE "file"

\* u belongs to the response to a request that has been served.
Owned(u, A, n) ==
  u.k \in 1 .. n /\ u.i \in 0 .. Pieces(A, u.k) /\ u.part = Part(A, u.k)

\* v may follow u.
Follows(u, v, A, md) ==
  \/ /\ u.k = v.k /\ u.i < v.i
     /\ md = "blocking" => v.i = u.i + 1
  \/ /\ u.k + 1 = v.k /\ v.i = 0
     /\ md = "blocking" => u.i = Pieces(A, u.k)

Before(u, v) == u.k < v.k \/ (u.k = v.k /\ u.i < v.i)

Ordered(s, A, n, md) ==
  /\ \A j \in 1 .. Len(s) : Owned(s[j], A, n)
  /\ Len(s) > 0 => s[1].k = 1 /\ s[1].i = 0
  /\ \A j \in 1 .. Len(s) - 1 : Follows(s[j], s[j + 1], A, md)
  /\ \A i, j \in 1 .. Len(s) : i < j => Before(s[i], s[j])

\* b is m pieces of the response to request n, from piece a + 1 on.
Block(b, A, n, a, m) ==
  Len(b) = m /\ \A x \in 1 .. m : b[x] = Unit(n, a + x, Part(A, n))

\* s ends in the response to request n, at piece a or, if pieces may be lost,
\* before it.
ComesTo(s, n, a, md) ==
  /\ Len(s) > 0 /\ s[Len(s)].k = n /\ s[Len(s)].i <= a
  /\ md = "blocking" => s[Len(s)].i = a

LEMMA UnitParts ==
  \A k, i, part :
    Unit(k, i, part).k = k /\ Unit(k, i, part).i = i /\ Unit(k, i, part).part = part
  BY DEF Unit

LEMMA Concatenation ==
  ASSUME NEW S, NEW s \in Seq(S), NEW b \in Seq(S)
  PROVE  /\ s \o b \in Seq(S)
         /\ Len(s) \in Nat /\ Len(b) \in Nat /\ Len(s \o b) = Len(s) + Len(b)
         /\ \A j \in 1 .. Len(s) : (s \o b)[j] = s[j]
         /\ \A x \in 1 .. Len(b) : (s \o b)[Len(s) + x] = b[x]
  OBVIOUS

LEMMA Split ==
  ASSUME NEW l \in Nat, NEW m \in Nat, NEW j \in 1 .. l + m
  PROVE  j \in 1 .. l \/ \E x \in 1 .. m : j = l + x
<1>1. j > l => j - l \in 1 .. m /\ j = l + (j - l)
  OBVIOUS
<1>2. CASE j > l
  BY <1>1, <1>2
<1>3. CASE ~(j > l)
  BY <1>3
<1> QED  BY <1>2, <1>3

LEMMA OrderedPrefix ==
  ASSUME NEW s \in Seq(Units), NEW A, NEW n \in Nat, NEW md,
         NEW p \in 0 .. Len(s), Ordered(s, A, n, md)
  PROVE  Ordered(SubSeq(s, 1, p), A, n, md)
<1> DEFINE r == SubSeq(s, 1, p)
<1>1. Len(r) = p /\ \A j \in 1 .. p : r[j] = s[j]
  OBVIOUS
<1> HIDE DEF r
<1>2. \A j \in 1 .. p : j \in 1 .. Len(s)
  OBVIOUS
<1>3. \A j \in 1 .. p - 1 : j \in 1 .. Len(s) - 1 /\ j \in 1 .. p /\ j + 1 \in 1 .. p
  OBVIOUS
<1>4. p > 0 => Len(s) > 0 /\ 1 \in 1 .. p
  OBVIOUS
<1>5. Ordered(r, A, n, md)
  <2>1. \A j \in 1 .. p : Owned(r[j], A, n)
    BY <1>1, <1>2 DEF Ordered
  <2>2. p > 0 => r[1].k = 1 /\ r[1].i = 0
    BY <1>1, <1>4 DEF Ordered
  <2>3. \A j \in 1 .. p - 1 : Follows(r[j], r[j + 1], A, md)
    BY <1>1, <1>3 DEF Ordered
  <2>4. \A i, j \in 1 .. p : i < j => Before(r[i], r[j])
    BY <1>1, <1>2 DEF Ordered
  <2> QED  BY <1>1, <2>1, <2>2, <2>3, <2>4 DEF Ordered
<1> QED  BY <1>5 DEF r

\* What is ordered stays so when requests are added, and when one is served.
LEMMA OrderedGrows ==
  ASSUME NEW s \in Seq(Units), NEW A, NEW B, NEW n \in Nat, NEW n2 \in Nat, NEW md,
         n <= n2, \A k \in 1 .. n : B[k] = A[k], Ordered(s, A, n, md)
  PROVE  Ordered(s, B, n2, md)
<1>1. \A k \in 1 .. n : Pieces(B, k) = Pieces(A, k) /\ Part(B, k) = Part(A, k)
  BY DEF Pieces, Part
<1>2. \A k \in 1 .. n : k \in 1 .. n2
  OBVIOUS
<1>3. \A j \in 1 .. Len(s) : Owned(s[j], B, n2)
  BY <1>1, <1>2 DEF Ordered, Owned
<1>4. \A j \in 1 .. Len(s) - 1 : Follows(s[j], s[j + 1], B, md)
  <2> TAKE j \in 1 .. Len(s) - 1
  <2>1. j \in 1 .. Len(s)
    OBVIOUS
  <2>2. s[j].k \in 1 .. n
    BY <2>1 DEF Ordered, Owned
  <2> QED  BY <1>1, <2>2 DEF Ordered, Follows
<1> QED  BY <1>3, <1>4 DEF Ordered

\* Pieces that go on where the last response has come to.
LEMMA OrderedExtends ==
  ASSUME NEW s \in Seq(Units), NEW b \in Seq(Units), NEW A, NEW n \in Nat, NEW md,
         NEW a \in Nat, NEW m \in Nat,
         Block(b, A, n, a, m), n > 0, Pieces(A, n) \in Nat, a + m <= Pieces(A, n),
         Ordered(s, A, n, md), ComesTo(s, n, a, md)
  PROVE  Ordered(s \o b, A, n, md)
<1> DEFINE r == s \o b
           l == Len(s)
<1>1. Len(b) = m /\ \A x \in 1 .. m : b[x] = Unit(n, a + x, Part(A, n))
  BY DEF Block
<1>2. l \in Nat /\ Len(r) = l + m
  BY <1>1, Concatenation
<1>3. \A j \in 1 .. l : r[j] = s[j] /\ j \in 1 .. l + m
  <2>1. \A j \in 1 .. l : r[j] = s[j]
    BY Concatenation
  <2> HIDE DEF r, l
  <2> QED  BY <1>2, <2>1
<1>4. \A x \in 1 .. m : r[l + x] = Unit(n, a + x, Part(A, n))
  <2>1. \A x \in 1 .. Len(b) : r[l + x] = b[x]
    BY <1>1, Concatenation
  <2> HIDE DEF r, l
  <2> QED  BY <1>1, <2>1
<1>5. l > 0 /\ s[l].k = n /\ s[l].i <= a /\ (md = "blocking" => s[l].i = a)
  BY DEF ComesTo
<1>6. \A j \in 1 .. l : s[j].k \in Nat /\ s[j].i \in Nat
  <2>1. \A j \in 1 .. l : s[j] \in Units
    BY ElementOfSeq
  <2> QED  BY <2>1 DEF Units
<1> HIDE DEF r, l
<1>7. \A j \in 1 .. l + m : j \in 1 .. l \/ \E x \in 1 .. m : j = l + x
  BY <1>2, Split
<1>8. \A x \in 1 .. m : r[l + x].k = n /\ r[l + x].i = a + x /\ r[l + x].part = Part(A, n)
  <2> TAKE x \in 1 .. m
  <2>1. r[l + x] = Unit(n, a + x, Part(A, n))
    BY <1>4
  <2> QED  BY <2>1, UnitParts
<1>9. \A j \in 1 .. l + m : Owned(r[j], A, n)
  <2> TAKE j \in 1 .. l + m
  <2>1. CASE j \in 1 .. l
    BY <1>3, <2>1 DEF Ordered, l
  <2>2. ASSUME NEW x \in 1 .. m, j = l + x  PROVE Owned(r[j], A, n)
    BY <1>8, <2>2 DEF Owned
  <2> QED  BY <1>7, <2>1, <2>2
<1>10. r[1].k = 1 /\ r[1].i = 0
  BY <1>2, <1>3, <1>5 DEF Ordered, l
<1>11. \A j \in 1 .. l + m - 1 : Follows(r[j], r[j + 1], A, md)
  <2> TAKE j \in 1 .. l + m - 1
  <2>1. CASE j < l
    <3>1. j \in 1 .. l - 1 /\ j \in 1 .. l /\ j + 1 \in 1 .. l
      BY <2>1, <1>2
    <3> QED  BY <3>1, <1>3 DEF Ordered, l
  <2>2. CASE j = l
    <3>1. m > 0 /\ 1 \in 1 .. m /\ l \in 1 .. l
      BY <2>2, <1>2, <1>5
    <3>2. r[j] = s[l] /\ r[j + 1].k = n /\ r[j + 1].i = a + 1
      BY <3>1, <2>2, <1>3, <1>8
    <3>3. s[l].i \in Nat
      BY <1>6, <3>1
    <3> QED  BY <1>5, <3>2, <3>3 DEF Follows
  <2>3. CASE j > l
    <3>1. j - l \in 1 .. m /\ j - l + 1 \in 1 .. m /\ j = l + (j - l) /\ j + 1 = l + (j - l + 1)
      BY <2>3, <1>2
    <3>2. r[j].k = n /\ r[j].i = a + (j - l) /\ r[j + 1].k = n /\ r[j + 1].i = a + (j - l + 1)
      BY <3>1, <1>8
    <3> QED  BY <3>1, <3>2, <1>2 DEF Follows
  <2> QED  BY <2>1, <2>2, <2>3, <1>2
<1>12. ASSUME NEW i \in 1 .. l + m, NEW j \in 1 .. l + m, i < j  PROVE Before(r[i], r[j])
  <2>1. CASE j \in 1 .. l
    <3>1. i \in 1 .. l
      BY <1>12, <2>1, <1>2
    <3> QED  BY <1>12, <2>1, <3>1, <1>3 DEF Ordered, l
  <2>2. ASSUME NEW y \in 1 .. m, j = l + y  PROVE Before(r[i], r[j])
    <3>1. r[j].k = n /\ r[j].i = a + y
      BY <2>2, <1>8
    <3>2. CASE i \in 1 .. l
      <4>1. r[i] = s[i] /\ s[i].k \in Nat /\ s[i].i \in Nat /\ l \in 1 .. l
        BY <3>2, <1>3, <1>6, <1>5, <1>2
      <4>2. i < l => s[i].k < n \/ (s[i].k = n /\ s[i].i < s[l].i)
        BY <3>2, <4>1, <1>5 DEF Ordered, Before, l
      <4>3. s[l].i \in Nat
        BY <4>1, <1>6
      <4>4. s[i].k < n \/ (s[i].k = n /\ s[i].i <= a)
        BY <3>2, <4>1, <4>2, <4>3, <1>5, <1>2
      <4> QED  BY <3>1, <4>1, <4>4 DEF Before
    <3>3. ASSUME NEW x \in 1 .. m, i = l + x  PROVE Before(r[i], r[j])
      <4>1. r[i].k = n /\ r[i].i = a + x /\ x < y
        BY <3>3, <1>8, <1>12, <2>2, <1>2
      <4> QED  BY <4>1, <3>1 DEF Before
    <3> QED  BY <3>2, <3>3, <1>7
  <2> QED  BY <2>1, <2>2, <1>7
<1>13. Ordered(r, A, n, md)
  BY <1>2, <1>9, <1>10, <1>11, <1>12 DEF Ordered
<1> QED  BY <1>13 DEF r

\* The header of the next response.
LEMMA OrderedBegins ==
  ASSUME NEW s \in Seq(Units), NEW A, NEW n \in Nat, NEW md, NEW b \in Seq(Units),
         b = <<Unit(n + 1, 0, Part(A, n + 1))>>, Pieces(A, n + 1) \in Nat,
         Ordered(s, A, n, md),
         n > 0 => ComesTo(s, n, Pieces(A, n), md)
  PROVE  Ordered(s \o b, A, n + 1, md)
<1> DEFINE r == s \o b
           l == Len(s)
<1>1. l \in Nat /\ Len(r) = l + 1 /\ r[l + 1] = Unit(n + 1, 0, Part(A, n + 1))
  OBVIOUS
<1>2. \A j \in 1 .. l : r[j] = s[j]
  OBVIOUS
<1>3. r[l + 1].k = n + 1 /\ r[l + 1].i = 0 /\ r[l + 1].part = Part(A, n + 1)
  BY <1>1 DEF Unit
<1>4. /\ \A j \in 1 .. l : Owned(s[j], A, n)
      /\ l > 0 => s[1].k = 1 /\ s[1].i = 0
      /\ \A j \in 1 .. l - 1 : Follows(s[j], s[j + 1], A, md)
      /\ \A i, j \in 1 .. l : i < j => Before(s[i], s[j])
  BY DEF Ordered
<1>5. n > 0 => /\ l > 0 /\ s[l].k = n
               /\ md = "blocking" => s[l].i = Pieces(A, n)
  BY DEF ComesTo
<1> HIDE DEF r, l
<1>6. \A j \in 1 .. l : s[j].k \in 1 .. n
  BY <1>4 DEF Owned
<1>7. n = 0 => l = 0
  <2>1. l > 0 => 1 \in 1 .. l
    BY <1>1
  <2> QED  BY <2>1, <1>6, <1>1
<1>8. \A j \in 1 .. l + 1 : Owned(r[j], A, n + 1)
  <2> TAKE j \in 1 .. l + 1
  <2>1. CASE j \in 1 .. l
    BY <2>1, <1>2, <1>4 DEF Owned
  <2>2. CASE j = l + 1
    BY <2>2, <1>3 DEF Owned
  <2> QED  BY <2>1, <2>2, <1>1
<1>9. r[1].k = 1 /\ r[1].i = 0
  <2>1. CASE l = 0
    BY <2>1, <1>3, <1>5
  <2>2. CASE l > 0
    BY <2>2, <1>1, <1>2, <1>4
  <2> QED  BY <2>1, <2>2, <1>1
<1>10. \A j \in 1 .. l + 1 - 1 : Follows(r[j], r[j + 1], A, md)
  <2> TAKE j \in 1 .. l + 1 - 1
  <2>1. CASE j < l
    <3>1. j \in 1 .. l - 1 /\ j \in 1 .. l /\ j + 1 \in 1 .. l
      BY <2>1, <1>1
    <3> QED  BY <3>1, <1>2, <1>4
  <2>2. CASE j = l
    <3>1. l \in 1 .. l /\ n > 0
      BY <2>2, <1>1, <1>7
    <3>2. r[j] = s[l]
      BY <3>1, <2>2, <1>2
    <3> QED  BY <2>2, <3>1, <3>2, <1>3, <1>5 DEF Follows
  <2> QED  BY <2>1, <2>2, <1>1
<1>11. ASSUME NEW i \in 1 .. l + 1, NEW j \in 1 .. l + 1, i < j  PROVE Before(r[i], r[j])
  <2>1. i \in 1 .. l
    BY <1>11, <1>1
  <2>2. CASE j \in 1 .. l
    BY <2>1, <2>2, <1>11, <1>2, <1>4
  <2>3. CASE j = l + 1
    <3>1. r[i].k \in 1 .. n
      BY <2>1, <1>2, <1>6
    <3> QED  BY <2>3, <3>1, <1>3 DEF Before
  <2> QED  BY <2>2, <2>3, <1>1
<1>12. Ordered(r, A, n + 1, md)
  BY <1>1, <1>8, <1>9, <1>10, <1>11 DEF Ordered
<1> QED  BY <1>12 DEF r

-----------------------------------------------------------------------------
(***************************************************************************)
(* The inductive invariant.                                                *)
(***************************************************************************)

Idle == pc \in {"recv", "closed"}
First == pc \in {"header", "errHeader"}

\* How far the response to the request served last comes with what the send
\* under way is to copy.
Reach ==
  CASE First -> 0 [] pc = "body" -> pos [] pc = "errBody" -> 1 [] OTHER -> Pieces(asked, served)

SendingPart == IF pc \in {"header", "body"} THEN "file" ELSE "error"

\* The send under way has the units up to there.
CallShape ==
  /\ Idle => call = NoCall
  /\ ~Idle => served > 0 /\ Len(call.todo) > 0
  /\ pc \in {"header", "body"} => asked[served].size # Missing
  /\ pc = "header" => pos = 0
  /\ Len(call.todo) <= IF pc = "body" THEN pos ELSE 1
  /\ \A x \in 1 .. Len(call.todo) :
       call.todo[x] = Unit(served, Reach - Len(call.todo) + x, SendingPart)

\* Until the connection is reset, an error is sent for a missing file only.
ErrorOnlyMissing == pc \in {"errHeader", "errBody"} => asked[served].size = Missing

\* A client that has sent another request has seen all of the responses to
\* those before it, so that nothing is in the buffer.
Waited ==
  /\ served + 1 >= Len(asked)
  /\ served < Len(asked) => Idle /\ sock = <<>>
  /\ First => sock = <<>>
  /\ \A k \in 1 .. served : k < Len(asked) =>
       \A i \in 0 .. Pieces(asked, k) : Unit(k, i, Part(asked, k)) \in Range(got)

\* The response to the request being served has begun; in blocking mode it has
\* come up to the send under way, and ends with its last piece.
CameTo ==
  served > 0 /\ ~First => ComesTo(Stream, served, Reach - Len(call.todo), mode)

\* A response that fits the buffer is copied without a gap.
Fits ==
  served > 0 /\ Pieces(asked, served) < CAP =>
    /\ Len(sock) + Len(call.todo) <= Reach + 1
    /\ \A i \in 0 .. Reach : Unit(served, i, Part(asked, served)) \in Range(Line)

Connected ==
  /\ Ordered(Line, asked, served, mode)
  /\ ErrorOnlyMissing /\ Waited /\ CameTo /\ Fits

WasReset == sock = <<>> /\ Ordered(got, asked, served, mode)

IInv ==
  /\ TypeOK /\ CallShape
  /\ ~reset => Connected
  /\ reset => WasReset

-----------------------------------------------------------------------------
(***************************************************************************)
(* The type of the state and the send under way.                           *)
(***************************************************************************)

LEMMA Sized ==
  ASSUME TypeOK
  PROVE  \A k \in 1 .. Len(asked) :
           /\ asked[k].size \in Nat \/ asked[k].size = Missing
           /\ Pieces(asked, k) \in Nat /\ Length(k) = Pieces(asked, k)
           /\ Part(asked, k) \in {"file", "error"}
<1> TAKE k \in 1 .. Len(asked)
<1>1. asked[k] \in [size : Sizes, keep : BOOLEAN]
  <2>1. asked \in Seq([size : Sizes, keep : BOOLEAN])
    BY DEF TypeOK
  <2> QED  BY <2>1, ElementOfSeq
<1>2. asked[k].size \in Nat \/ asked[k].size = Missing
  BY <1>1, TransferAssumption
<1> QED  BY <1>2 DEF Pieces, Part, Length, File

LEMMA Numbers ==
  ASSUME TypeOK
  PROVE  /\ served \in Nat /\ pos \in Nat /\ Len(asked) \in Nat /\ served <= Len(asked)
         /\ CAP \in Nat /\ CAP > 0 /\ CHUNK \in Nat /\ CHUNK > 0 /\ MaxRequests \in Nat
         /\ served > 0 => served \in 1 .. Len(asked) /\ served \in 1 .. MaxRequests
         /\ call.todo \in Seq(Units) /\ Len(call.todo) \in Nat /\ call.copied \in BOOLEAN
         /\ sock \in Seq(Units) /\ got \in Seq(Units) /\ Len(sock) \in Nat /\ Len(sock) <= CAP
         /\ Stream \in Seq(Units) /\ Line \in Seq(Units)
<1>1. /\ served \in 0 .. Len(asked)
      /\ pos \in 0 .. (IF served = 0 THEN 0 ELSE Length(served))
      /\ call \in [todo : Seq(Units), copied : BOOLEAN]
      /\ sock \in Seq(Units) /\ Len(sock) <= CAP /\ got \in Seq(Units)
      /\ asked \in Seq([size : Sizes, keep : BOOLEAN]) /\ Len(asked) <= MaxRequests
  BY DEF TypeOK
<1>2. Len(asked) \in Nat /\ Len(sock) \in Nat
  BY <1>1
<1>3. CAP \in Nat /\ CAP > 0 /\ CHUNK \in Nat /\ CHUNK > 0 /\ MaxRequests \in Nat
  BY TransferAssumption
<1>4. served \in Nat /\ served <= Len(asked) /\ pos \in Nat
      /\ (served > 0 => served \in 1 .. Len(asked) /\ served \in 1 .. MaxRequests)
  BY <1>1, <1>2, <1>3
<1>5. call.todo \in Seq(Units) /\ Len(call.todo) \in Nat /\ call.copied \in BOOLEAN
  BY <1>1
<1>6. Stream \in Seq(Units)
  BY <1>1, Concatenation DEF Stream
<1>7. Line \in Seq(Units)
  BY <1>5, <1>6, Concatenation DEF Line
<1> QED  BY <1>1, <1>2, <1>3, <1>4, <1>5, <1>6, <1>7

LEMMA SequencesNext ==
  ASSUME TypeOK'
  PROVE  /\ Stream' \in Seq(Units) /\ Line' \in Seq(Units) /\ call'.todo \in Seq(Units)
         /\ Len(sock') \in Nat
<1>1. /\ call' \in [todo : Seq(Units), copied : BOOLEAN]
      /\ sock' \in Seq(Units) /\ got' \in Seq(Units)
  BY DEF TypeOK
<1>2. call'.todo \in Seq(Units) /\ Len(sock') \in Nat
  BY <1>1
<1>3. Stream' \in Seq(Units)
  BY <1>1, Concatenation DEF Stream
<1>4. Line' \in Seq(Units)
  BY <1>2, <1>3, Concatenation DEF Line
<1> QED  BY <1>2, <1>3, <1>4

\* One unit to send.
LEMMA OneUnit ==
  ASSUME NEW k \in 1 .. MaxRequests, NEW i \in Nat, NEW part \in {"file", "error"}
  PROVE  LET c == Call(<<Unit(k, i, part)>>)
         IN /\ c \in [todo : Seq(Units), copied : BOOLEAN]
            /\ Len(c.todo) = 1 /\ c.todo[1] = Unit(k, i, part)
  BY DEF Call, Unit, Units

\* fread ends the response or returns a block of pieces of the file.
LEMMA FreadReturns ==
  ASSUME TypeOK, CallShape, pc \in {"header", "body"}, Fread
  PROVE  \/ EndResponse(asked[served].keep) /\ pos = Pieces(asked, served)
         \/ \E m \in Nat \ {0} :
              /\ pc' = "body" /\ served' = served
              /\ pos' = pos + m /\ pos + m <= Pieces(asked, served)
              /\ call' \in [todo : Seq(Units), copied : BOOLEAN]
              /\ Block(call'.todo, asked, served, pos, m)
<1> DEFINE left == File(served) - pos
           m == IF left < CHUNK THEN left ELSE CHUNK
<1>1. /\ served > 0 /\ served \in 1 .. Len(asked) /\ asked[served].size # Missing
      /\ served \in 1 .. MaxRequests /\ pos \in Nat /\ CHUNK \in Nat /\ CHUNK > 0
  BY Numbers DEF CallShape, Idle
<1>2. File(served) \in Nat /\ Pieces(asked, served) = File(served) /\ Part(asked, served) = "file"
  BY <1>1, Sized DEF Pieces, Part, File
<1>3. pos <= File(served)
  BY <1>1, <1>2, Sized DEF TypeOK
<1>4. m \in Nat /\ pos + m <= File(served)
  BY <1>1, <1>2, <1>3
<1>5. CASE m = 0
  <2>1. pos = File(served)
    BY <1>5, <1>1, <1>2
  <2> QED  BY <1>2, <1>5, <2>1 DEF Fread
<1>6. CASE m # 0
  <2> DEFINE b == [i \in 1 .. m |-> Unit(served, pos + i, "file")]
  <2>1. pc' = "body" /\ pos' = pos + m /\ call' = Call(b) /\ served' = served
    BY <1>6 DEF Fread
  <2> HIDE DEF m
  <2>2. \A i \in 1 .. m : Unit(served, pos + i, "file") \in Units
    BY <1>1, <1>4 DEF Unit, Units
  <2>3. b \in Seq(Units) /\ Len(b) = m /\ \A i \in 1 .. m : b[i] = Unit(served, pos + i, "file")
    BY <2>2, <1>4
  <2> HIDE DEF b
  <2>4. call' \in [todo : Seq(Units), copied : BOOLEAN] /\ call'.todo = b
    BY <2>1, <2>3 DEF Call
  <2>5. Block(call'.todo, asked, served, pos, m)
    BY <2>3, <2>4, <1>2 DEF Block
  <2>6. m \in Nat \ {0}
    BY <1>4, <1>6
  <2> QED  BY <2>1, <2>4, <2>5, <2>6, <1>2, <1>4
<1> QED  BY <1>5, <1>6

\* What the worker does when a send has returned.
Ends ==
  /\ pc' \in {"recv", "closed"} /\ call' = NoCall /\ pos' = pos
  /\ \/ Fails /\ pc # "header"
     \/ Succeeds /\ pc = "errBody"
     \/ Succeeds /\ pc \in {"header", "body"} /\ pos = Pieces(asked, served)

SendsOne(place, i) ==
  /\ pc' = place /\ pos' = pos
  /\ call' \in [todo : Seq(Units), copied : BOOLEAN]
  /\ Len(call'.todo) = 1 /\ call'.todo[1] = Unit(served, i, "error")

SendsPieces(m) ==
  /\ pc' = "body" /\ pos' = pos + m /\ pos + m <= Pieces(asked, served)
  /\ call' \in [todo : Seq(Units), copied : BOOLEAN]
  /\ Block(call'.todo, asked, served, pos, m)

LEMMA SendReturns ==
  ASSUME TypeOK, CallShape, Sending, Succeeds \/ Fails
  PROVE  /\ served' = served /\ served \in 1 .. Len(asked) /\ served \in 1 .. MaxRequests
         /\ ~Idle
         /\ \/ Ends
            \/ Fails /\ pc = "header" /\ SendsOne("errHeader", 0)
            \/ Succeeds /\ pc = "errHeader" /\ SendsOne("errBody", 1)
            \/ \E m \in Nat \ {0} : Succeeds /\ pc \in {"header", "body"} /\ SendsPieces(m)
<1>1. ~Idle
  BY DEF CallShape, NoCall, Sending
<1>2. served \in 1 .. Len(asked) /\ served \in 1 .. MaxRequests
  BY <1>1, Numbers DEF CallShape
<1>3. CASE pc \in {"header", "body"} /\ Fread
  <2>1. Succeeds
    BY <1>3 DEF Succeeds
  <2>2. CASE EndResponse(asked[served].keep) /\ pos = Pieces(asked, served)
    <3>1. Ends /\ served' = served
      BY <2>1, <2>2, <1>3 DEF EndResponse, Ends
    <3> QED  BY <3>1, <1>1, <1>2
  <2>3. ASSUME NEW m \in Nat \ {0},
               /\ pc' = "body" /\ served' = served
               /\ pos' = pos + m /\ pos + m <= Pieces(asked, served)
               /\ call' \in [todo : Seq(Units), copied : BOOLEAN]
               /\ Block(call'.todo, asked, served, pos, m)
        PROVE  served' = served /\ SendsPieces(m)
    BY <2>3, Zenon DEF SendsPieces
  <2>4. \/ EndResponse(asked[served].keep) /\ pos = Pieces(asked, served)
        \/ \E m \in Nat \ {0} :
              /\ pc' = "body" /\ served' = served
              /\ pos' = pos + m /\ pos + m <= Pieces(asked, served)
              /\ call' \in [todo : Seq(Units), copied : BOOLEAN]
              /\ Block(call'.todo, asked, served, pos, m)
    BY <1>3, FreadReturns
  <2> QED  BY <2>1, <2>2, <2>3, <2>4, <1>1, <1>2, <1>3, Zenon
<1>4. CASE pc = "errHeader" /\ Succeeds
  <2>1. pc' = "errBody" /\ pos' = pos /\ call' = Call(<<Unit(served, 1, "error")>>) /\ served' = served
    BY <1>4 DEF Succeeds
  <2>2. SendsOne("errBody", 1)
    BY <2>1, <1>2, OneUnit DEF SendsOne
  <2> QED  BY <2>1, <2>2, <1>1, <1>2, <1>4
<1>5. CASE pc = "errBody" /\ Succeeds
  <2>1. Ends /\ served' = served
    BY <1>5 DEF Succeeds, EndResponse, Ends
  <2> QED  BY <2>1, <1>1, <1>2
<1>6. CASE pc = "header" /\ Fails
  <2>1. pc' = "errHeader" /\ pos' = pos /\ call' = Call(<<Unit(served, 0, "error")>>) /\ served' = served
    BY <1>6 DEF Fails, SendError
  <2>2. SendsOne("errHeader", 0)
    BY <2>1, <1>2, OneUnit DEF SendsOne
  <2> QED  BY <2>1, <2>2, <1>1, <1>2, <1>6
<1>7. CASE pc # "header" /\ Fails
  <2>1. Ends /\ served' = served
    BY <1>7 DEF Fails, EndResponse, Ends
  <2> QED  BY <2>1, <1>1, <1>2
<1> QED  BY <1>3, <1>4, <1>5, <1>6, <1>7 DEF Succeeds

\* The types of the variables of the worker.
WorkerOK ==
  /\ pc \in {"recv", "header", "body", "errHeader", "errBody", "closed"}
  /\ served \in 0 .. Len(asked)
  /\ pos \in 0 .. (IF served = 0 THEN 0 ELSE Length(served))
  /\ call \in [todo : Seq(Units), copied : BOOLEAN]

LEMMA NoCallTyped == NoCall \in [todo : Seq(Units), copied : BOOLEAN] /\ Len(NoCall.todo) = 0
  BY DEF NoCall

LEMMA SendShape ==
  ASSUME TypeOK, CallShape, Sending, Succeeds \/ Fails, asked' = asked
  PROVE  WorkerOK' /\ CallShape'
<1>1. /\ served' = served /\ served \in 1 .. Len(asked) /\ served \in 1 .. MaxRequests
      /\ served > 0 /\ served # 0 /\ served \in 0 .. Len(asked)
  BY SendReturns, Numbers
<1>2. /\ Pieces(asked, served) \in Nat /\ Length(served) = Pieces(asked, served)
      /\ Pieces(asked, served)' = Pieces(asked, served) /\ Length(served)' = Length(served)
      /\ pos \in 0 .. Pieces(asked, served)
  BY <1>1, Sized DEF TypeOK, Pieces, Length, File
<1>3. ASSUME pc' \in {"recv", "header", "body", "errHeader", "errBody", "closed"},
             pos' \in 0 .. Pieces(asked, served),
             call' \in [todo : Seq(Units), copied : BOOLEAN]
      PROVE  WorkerOK'
  BY <1>1, <1>2, <1>3 DEF WorkerOK
<1>4. CASE Ends
  <2>1. WorkerOK'
    BY <1>2, <1>3, <1>4, NoCallTyped DEF Ends
  <2>2. CallShape'
    BY <1>4, NoCallTyped DEF Ends, CallShape, Idle
  <2> QED  BY <2>1, <2>2
<1>5. CASE Fails /\ pc = "header" /\ SendsOne("errHeader", 0)
  <2>1. WorkerOK'
    BY <1>2, <1>3, <1>5 DEF SendsOne
  <2>2. Reach' = 0 /\ SendingPart' = "error" /\ ~Idle'
    BY <1>5 DEF SendsOne, Reach, First, SendingPart, Idle
  <2>3. CallShape'
    BY <1>1, <1>5, <2>2 DEF SendsOne, CallShape
  <2> QED  BY <2>1, <2>3
<1>6. CASE Succeeds /\ pc = "errHeader" /\ SendsOne("errBody", 1)
  <2>1. WorkerOK'
    BY <1>2, <1>3, <1>6 DEF SendsOne
  <2>2. Reach' = 1 /\ SendingPart' = "error" /\ ~Idle'
    BY <1>6 DEF SendsOne, Reach, First, SendingPart, Idle
  <2>3. CallShape'
    BY <1>1, <1>6, <2>2 DEF SendsOne, CallShape
  <2> QED  BY <2>1, <2>3
<1>7. ASSUME NEW m \in Nat \ {0}, pc \in {"header", "body"}, SendsPieces(m)
      PROVE  WorkerOK' /\ CallShape'
  <2>1. /\ pc' = "body" /\ pos' = pos + m /\ pos + m <= Pieces(asked, served)
        /\ call' \in [todo : Seq(Units), copied : BOOLEAN]
        /\ Len(call'.todo) = m
        /\ \A x \in 1 .. m : call'.todo[x] = Unit(served, pos + x, Part(asked, served))
    BY <1>7 DEF SendsPieces, Block
  <2>2. WorkerOK'
    BY <1>2, <1>3, <2>1
  <2>3. Reach' = pos + m /\ SendingPart' = "file" /\ ~Idle'
    BY <2>1 DEF Reach, First, SendingPart, Idle
  <2>4. asked[served].size # Missing /\ Part(asked, served) = "file"
    BY <1>7 DEF CallShape, Part
  <2>5. \A x \in 1 .. m : call'.todo[x] = Unit(served, Reach' - m + x, "file")
    <3>1. \A x \in 1 .. m : Reach' - m + x = pos + x
      BY <2>3, <1>2
    <3> QED  BY <2>1, <2>4, <3>1
  <2>6. CallShape'
    BY <1>1, <1>2, <2>1, <2>3, <2>4, <2>5 DEF CallShape
  <2> QED  BY <2>2, <2>6
<1>8. \/ Ends
      \/ Fails /\ pc = "header" /\ SendsOne("errHeader", 0)
      \/ Succeeds /\ pc = "errHeader" /\ SendsOne("errBody", 1)
      \/ \E m \in Nat \ {0} : Succeeds /\ pc \in {"header", "body"} /\ SendsPieces(m)
  BY SendReturns
<1> QED  BY <1>4, <1>5, <1>6, <1>7, <1>8

\* A send that waits goes on with what it has not copied.
LEMMA WaitShape ==
  ASSUME TypeOK, CallShape, NEW n \in Nat, n > 0, n < Len(call.todo),
         call' = [todo |-> SubSeq(call.todo, n + 1, Len(call.todo)), copied |-> TRUE],
         UNCHANGED <<pc, served, pos, asked>>
  PROVE  /\ WorkerOK' /\ CallShape' /\ Reach' = Reach
         /\ Len(call'.todo) = Len(call.todo) - n
         /\ \A x \in 1 .. Len(call'.todo) : call'.todo[x] = call.todo[n + x]
<1> DEFINE l == Len(call.todo)
           r == SubSeq(call.todo, n + 1, Len(call.todo))
<1>1. call.todo \in Seq(Units) /\ l \in Nat
  BY Numbers
<1>2. r \in Seq(Units) /\ Len(r) = l - n /\ \A x \in 1 .. l - n : r[x] = call.todo[n + x]
  BY <1>1
<1>3. call' \in [todo : Seq(Units), copied : BOOLEAN] /\ call'.todo = r
  BY <1>2
<1> HIDE DEF l, r
<1>4. WorkerOK'
  BY <1>3 DEF TypeOK, WorkerOK, Length, File
<1>5. Reach' = Reach /\ SendingPart' = SendingPart /\ Idle' = Idle
  BY DEF Reach, First, SendingPart, Idle, Pieces
<1>6. ~Idle
  BY <1>1 DEF CallShape, NoCall, l
<1>7. Reach \in Int /\ served > 0
  <2>1. served \in 1 .. Len(asked) /\ pos \in Nat
    BY <1>6, Numbers DEF CallShape
  <2> QED  BY <2>1, Sized DEF Reach
<1>8. \A x \in 1 .. l - n : r[x] = Unit(served, Reach - (l - n) + x, SendingPart)
  <2> TAKE x \in 1 .. l - n
  <2>1. n + x \in 1 .. l /\ Reach - l + (n + x) = Reach - (l - n) + x
    BY <1>1, <1>7
  <2>2. call.todo[n + x] = Unit(served, Reach - l + (n + x), SendingPart)
    BY <2>1 DEF CallShape, l
  <2> QED  BY <1>2, <2>1, <2>2
<1>9. CallShape'
  <2>1. l - n > 0 /\ l - n <= l
    BY <1>1 DEF l
  <2>2. l - n <= IF pc = "body" THEN pos ELSE 1
    BY <2>1, <1>1, Numbers DEF CallShape, l
  <2> QED  BY <1>2, <1>3, <1>5, <1>6, <1>7, <1>8, <2>1, <2>2 DEF CallShape
<1> QED  BY <1>2, <1>3, <1>4, <1>5, <1>9 DEF l

\* What a send copies.
LEMMA CopySock ==
  ASSUME TypeOK, NEW n \in 1 .. Len(call.todo), n <= Room,
         sock' = sock \o SubSeq(call.todo, 1, n)
  PROVE  /\ sock' \in Seq(Units) /\ Len(sock') = Len(sock) + n /\ Len(sock') <= CAP
         /\ \A x \in 1 .. n : sock'[Len(sock) + x] = call.todo[x]
<1> DEFINE c == SubSeq(call.todo, 1, n)
<1>1. /\ call.todo \in Seq(Units) /\ Len(call.todo) \in Nat
      /\ sock \in Seq(Units) /\ Len(sock) \in Nat /\ CAP \in Nat
  BY Numbers
<1>2. c \in Seq(Units) /\ Len(c) = n /\ \A x \in 1 .. n : c[x] = call.todo[x]
  BY <1>1
<1> HIDE DEF c
<1>3. /\ sock \o c \in Seq(Units) /\ Len(sock \o c) = Len(sock) + n
      /\ \A x \in 1 .. n : (sock \o c)[Len(sock) + x] = c[x]
  <2>1. sock \o c \in Seq(Units) /\ Len(sock \o c) = Len(sock) + n
    BY <1>1, <1>2, Concatenation
  <2>2. \A x \in 1 .. Len(c) : (sock \o c)[Len(sock) + x] = c[x]
    BY <1>1, <1>2, Concatenation
  <2> QED  BY <1>2, <2>1, <2>2, Zenon
<1>4. Len(sock) + n <= CAP
  BY <1>1 DEF Room
<1> QED  BY <1>2, <1>3, <1>4 DEF c

LEMMA ReceiveShape ==
  ASSUME TypeOK, CallShape, Receive
  PROVE  /\ WorkerOK' /\ CallShape'
         /\ served' = served + 1 /\ served' \in 1 .. Len(asked) /\ served' > 0
         /\ First' /\ Reach' = 0 /\ ~Idle' /\ pos' = 0
         /\ call.todo = <<>> /\ Len(call'.todo) = 1
         /\ call'.todo = <<Unit(served', 0, Part(asked, served'))>>
         /\ pc' = "errHeader" => asked[served'].size = Missing
         /\ pc' \in {"header", "errHeader"}
<1> DEFINE k == served + 1
<1>1. /\ served \in Nat /\ Len(asked) \in Nat /\ k \in 1 .. Len(asked) /\ k > 0 /\ k # 0
      /\ k \in 1 .. MaxRequests /\ served' = k /\ pos' = 0 /\ asked' = asked /\ k \in 0 .. Len(asked)
  <2>1. served' = k /\ pos' = 0 /\ asked' = asked /\ served < Len(asked)
    BY DEF Receive, client
  <2>2. Len(asked) <= MaxRequests
    BY DEF TypeOK
  <2> QED  BY <2>1, <2>2, Numbers
<1>2. /\ Pieces(asked, k) \in Nat /\ Length(k) = Pieces(asked, k)
      /\ Part(asked, k) \in {"file", "error"}
  BY <1>1, Sized
<1>3. /\ call' = Call(<<Unit(k, 0, Part(asked, k))>>)
      /\ pc' = IF asked[k].size = Missing THEN "errHeader" ELSE "header"
  BY DEF Receive, Part, File
<1>4. /\ call' \in [todo : Seq(Units), copied : BOOLEAN]
      /\ Len(call'.todo) = 1 /\ call'.todo[1] = Unit(k, 0, Part(asked, k))
      /\ call'.todo = <<Unit(k, 0, Part(asked, k))>>
  <2>1. 0 \in Nat
    OBVIOUS
  <2>2. call'.todo = <<Unit(k, 0, Part(asked, k))>>
    BY <1>3 DEF Call
  <2> QED  BY <1>1, <1>2, <1>3, <2>1, <2>2, OneUnit
<1> HIDE DEF k
<1>5. First' /\ Reach' = 0 /\ ~Idle' /\ SendingPart' = Part(asked, k)
  BY <1>3 DEF First, Reach, Idle, SendingPart, Part
<1>6. WorkerOK'
  <2>1. Length(served)' = Length(k)
    BY <1>1 DEF Length, File
  <2> QED  BY <1>1, <1>2, <1>3, <1>4, <2>1 DEF WorkerOK
<1>7. CallShape'
  <2>1. \A x \in 1 .. 1 : x = 1 /\ 0 - 1 + x = 0
    OBVIOUS
  <2>2. \A x \in 1 .. Len(call'.todo) :
          call'.todo[x] = Unit(served', Reach' - Len(call'.todo) + x, SendingPart')
    BY <1>1, <1>4, <1>5, <2>1
  <2>3. Len(call'.todo) <= IF pc' = "body" THEN pos' ELSE 1
    <3>1. pc' # "body"
      BY <1>3
    <3>2. Len(call'.todo) <= 1
      BY <1>4
    <3> QED  BY <3>1, <3>2, Zenon
  <2>4. pc' \in {"header", "body"} => asked[k].size # Missing
    BY <1>3
  <2> QED  BY <1>1, <1>4, <1>5, <2>2, <2>3, <2>4 DEF CallShape
<1>8. call.todo = <<>>
  BY DEF Receive, CallShape, Idle, NoCall
<1>9. pc' = "errHeader" => asked[served'].size = Missing
  BY <1>1, <1>3
<1>10. pc' \in {"header", "errHeader"}
  BY <1>3
<1> QED  BY <1>1, <1>4, <1>5, <1>6, <1>7, <1>8, <1>9, <1>10 DEF k

LEMMA AskGrows ==
  ASSUME TypeOK, NEW size \in Sizes, NEW keep \in BOOLEAN, Ask(size, keep)
  PROVE  /\ asked' \in Seq([size : Sizes, keep : BOOLEAN])
         /\ Len(asked') = Len(asked) + 1 /\ Len(asked') <= MaxRequests
         /\ \A k \in 1 .. Len(asked) :
              /\ asked'[k] = asked[k]
              /\ Pieces(asked', k) = Pieces(asked, k) /\ Part(asked', k) = Part(asked, k)
              /\ Length(k)' = Length(k)
<1>1. /\ asked \in Seq([size : Sizes, keep : BOOLEAN]) /\ Len(asked) < MaxRequests
      /\ asked' = Append(asked, [size |-> size, keep |-> keep])
      /\ Len(asked) \in Nat /\ MaxRequests \in Nat
  BY Numbers DEF Ask, TypeOK
<1>2. [size |-> size, keep |-> keep] \in [size : Sizes, keep : BOOLEAN]
  OBVIOUS
<1>3. /\ asked' \in Seq([size : Sizes, keep : BOOLEAN])
      /\ Len(asked') = Len(asked) + 1
      /\ \A k \in 1 .. Len(asked) : asked'[k] = asked[k]
  BY <1>1, <1>2, AppendProperties
<1> QED  BY <1>1, <1>3 DEF Pieces, Part, Length, File

\* Every step keeps the type, and the shape of the send under way.
LEMMA TypeStep ==
  ASSUME TypeOK, CallShape, [Next]_vars
  PROVE  TypeOK' /\ CallShape'
<1> USE DEF worker, client
<1>1. WorkerOK
  BY DEF TypeOK, WorkerOK
<1>2. /\ mode \in {"blocking", "restarted", "select"}
      /\ sock \in Seq(Units) /\ Len(sock) <= CAP /\ got \in Seq(Units)
      /\ asked \in Seq([size : Sizes, keep : BOOLEAN]) /\ Len(asked) <= MaxRequests
      /\ reads \in BOOLEAN /\ reset \in BOOLEAN
  BY DEF TypeOK
<1>3. ASSUME WorkerOK', sock' \in Seq(Units), Len(sock') <= CAP, UNCHANGED <<mode, client>>
      PROVE  TypeOK'
  BY <1>2, <1>3, Zenon DEF TypeOK, WorkerOK
<1>4. ASSUME UNCHANGED <<worker, asked>>  PROVE WorkerOK' /\ CallShape'
  <2>1. WorkerOK'
    BY <1>1, <1>4 DEF WorkerOK, Length, File
  <2>2. CallShape'
    BY <1>4 DEF CallShape, Idle, Reach, First, Pieces, SendingPart
  <2> QED  BY <2>1, <2>2
<1>5. CASE Copy
  <2> DEFINE n == IF Len(call.todo) < Room THEN Len(call.todo) ELSE Room
  <2>1. Len(call.todo) \in Nat /\ Room \in Int
    BY Numbers DEF Room
  <2>2. n \in 1 .. Len(call.todo) /\ n <= Room
    BY <1>5, <2>1 DEF Copy
  <2>3. sock' = sock \o SubSeq(call.todo, 1, n) /\ UNCHANGED <<mode, client>> /\ Sending
    BY <1>5 DEF Copy
  <2>4. \/ Succeeds
        \/ /\ n # Len(call.todo)
           /\ call' = [todo |-> SubSeq(call.todo, n + 1, Len(call.todo)), copied |-> TRUE]
           /\ UNCHANGED <<pc, served, pos>>
    BY <1>5 DEF Copy
  <2> HIDE DEF n
  <2>5. WorkerOK' /\ CallShape'
    <3>1. CASE Succeeds
      BY <2>3, <3>1, SendShape
    <3>2. CASE /\ n # Len(call.todo)
               /\ call' = [todo |-> SubSeq(call.todo, n + 1, Len(call.todo)), copied |-> TRUE]
               /\ UNCHANGED <<pc, served, pos>>
      <4>1. n \in Nat /\ n > 0 /\ n < Len(call.todo)
        BY <2>1, <2>2, <3>2
      <4> QED  BY <2>3, <3>2, <4>1, WaitShape
    <3> QED  BY <2>4, <3>1, <3>2
  <2>6. sock' \in Seq(Units) /\ Len(sock') <= CAP
    BY <2>2, <2>3, CopySock
  <2> QED  BY <1>3, <2>3, <2>5, <2>6
<1>6. CASE WouldBlock \/ Interrupted \/ Broken
  <2>1. Sending /\ (Succeeds \/ Fails) /\ UNCHANGED <<mode, sock, client>>
    BY <1>6 DEF WouldBlock, Interrupted, Broken, Cut
  <2>2. WorkerOK' /\ CallShape'
    BY <2>1, SendShape
  <2> QED  BY <1>2, <1>3, <2>1, <2>2
<1>7. CASE Receive
  <2>1. UNCHANGED <<mode, sock, client>>
    BY <1>7 DEF Receive
  <2> QED  BY <1>2, <1>3, <1>7, <2>1, ReceiveShape
<1>8. CASE RecvFails
  <2>1. pc = "recv" /\ pc' = "closed" /\ UNCHANGED <<mode, served, pos, call, sock, client>>
    BY <1>8 DEF RecvFails
  <2>2. WorkerOK'
    BY <1>1, <2>1 DEF WorkerOK, Length, File
  <2>3. CallShape'
    BY <2>1 DEF CallShape, Idle, Reach, First, Pieces, SendingPart
  <2> QED  BY <1>2, <1>3, <2>1, <2>2, <2>3
<1>9. CASE ClientReads
  <2>1. /\ sock # <<>> /\ got' = Append(got, Head(sock)) /\ sock' = Tail(sock)
        /\ UNCHANGED <<mode, worker, asked, reads, reset>>
    BY <1>9 DEF ClientReads
  <2>2. got' \in Seq(Units) /\ sock' \in Seq(Units) /\ Len(sock') <= CAP
    BY <1>2, <2>1, Numbers
  <2>3. WorkerOK' /\ CallShape'
    BY <1>4, <2>1
  <2>4. TypeOK'
    BY <1>2, <2>1, <2>2, <2>3, Zenon DEF TypeOK, WorkerOK
  <2> QED  BY <2>3, <2>4
<1>10. CASE TurnDeaf
  <2>1. reads' = ~reads /\ UNCHANGED <<mode, worker, sock, asked, got, reset>>
    BY <1>10 DEF TurnDeaf
  <2>2. reads' \in BOOLEAN
    BY <2>1
  <2>3. WorkerOK' /\ CallShape'
    BY <1>4, <2>1
  <2>4. TypeOK'
    BY <1>2, <2>1, <2>2, <2>3, Zenon DEF TypeOK, WorkerOK
  <2> QED  BY <2>3, <2>4
<1>11. CASE Reset
  <2>1. reset' = TRUE /\ sock' = <<>> /\ UNCHANGED <<mode, worker, asked, got, reads>>
    BY <1>11 DEF Reset
  <2>2. reset' \in BOOLEAN /\ sock' \in Seq(Units) /\ Len(sock') <= CAP
    BY <2>1, Numbers
  <2>3. WorkerOK' /\ CallShape'
    BY <1>4, <2>1
  <2>4. TypeOK'
    BY <1>2, <2>1, <2>2, <2>3, Zenon DEF TypeOK, WorkerOK
  <2> QED  BY <2>3, <2>4
<1>12. ASSUME NEW size \in Sizes, NEW keep \in BOOLEAN, Ask(size, keep)
       PROVE  TypeOK' /\ CallShape'
  <2>1. UNCHANGED <<mode, worker, sock, got, reads, reset>>
    BY <1>12 DEF Ask
  <2>2. /\ asked' \in Seq([size : Sizes, keep : BOOLEAN])
        /\ Len(asked') = Len(asked) + 1 /\ Len(asked') <= MaxRequests
        /\ \A k \in 1 .. Len(asked) :
             asked'[k] = asked[k] /\ Pieces(asked', k) = Pieces(asked, k) /\ Length(k)' = Length(k)
    BY <1>12, AskGrows
  <2>3. served \in Nat /\ served <= Len(asked) /\ Len(asked) \in Nat
        /\ (served > 0 => served \in 1 .. Len(asked))
    BY Numbers
  <2>4. WorkerOK'
    <3>1. served' \in 0 .. Len(asked')
      BY <2>1, <2>2, <2>3
    <3>2. served # 0 => Length(served)' = Length(served)
      BY <2>1, <2>2, <2>3 DEF Length, File
    <3> QED  BY <1>1, <2>1, <3>1, <3>2 DEF WorkerOK
  <2>5. CallShape'
    <3>1. CASE Idle
      BY <2>1, <3>1 DEF CallShape, Idle, NoCall
    <3>2. CASE ~Idle
      <4>1. served > 0 /\ asked'[served] = asked[served] /\ Pieces(asked', served) = Pieces(asked, served)
        BY <3>2, <2>2, <2>3 DEF CallShape
      <4>2. Reach' = Reach
        BY <2>1, <4>1 DEF Reach, First
      <4> QED  BY <2>1, <4>1, <4>2 DEF CallShape, Idle, SendingPart
    <3> QED  BY <3>1, <3>2
  <2>6. TypeOK'
    BY <1>2, <2>1, <2>2, <2>4, Zenon DEF TypeOK, WorkerOK
  <2> QED  BY <2>5, <2>6
<1>13. CASE UNCHANGED vars
  <2>1. UNCHANGED <<mode, worker, sock, client>>
    BY <1>13 DEF vars
  <2>2. WorkerOK' /\ CallShape'
    BY <1>4, <2>1
  <2> QED  BY <1>2, <1>3, <2>1, <2>2
<1> QED
  BY <1>5, <1>6, <1>7, <1>8, <1>9, <1>10, <1>11, <1>12, <1>13
  DEF Next, WorkerStep, ClientStep

-----------------------------------------------------------------------------
(***************************************************************************)
(* The units on the way: sequences.                                        *)
(***************************************************************************)

LEMMA InRange ==
  ASSUME NEW S, NEW s \in Seq(S)
  PROVE  \A u : u \in Range(s) <=> \E j \in 1 .. Len(s) : s[j] = u
  BY RangeEquality

LEMMA ConcatEmpty ==
  ASSUME NEW S, NEW s \in Seq(S), NEW b \in Seq(S), Len(b) = 0
  PROVE  s \o b = s
  OBVIOUS

LEMMA SplitSeq ==
  ASSUME NEW S, NEW b \in Seq(S), NEW n \in 0 .. Len(b)
  PROVE  SubSeq(b, 1, n) \o SubSeq(b, n + 1, Len(b)) = b
<1>1. 1 \in 1 .. Len(b) + 1 /\ n \in 1 - 1 .. Len(b) /\ Len(b) \in n .. Len(b)
  OBVIOUS
<1>2. SubSeq(b, 1, n) \o SubSeq(b, n + 1, Len(b)) = SubSeq(b, 1, Len(b))
  BY <1>1, ConcatAdjacentSubSeq, Zenon
<1>3. SubSeq(b, 1, Len(b)) = b
  BY SubSeqFull
<1> QED  BY <1>2, <1>3

LEMMA ConcatPrefix ==
  ASSUME NEW S, NEW s \in Seq(S), NEW b \in Seq(S), NEW n \in 0 .. Len(b)
  PROVE  s \o SubSeq(b, 1, n) = SubSeq(s \o b, 1, Len(s) + n)
  OBVIOUS

LEMMA ReadKeeps ==
  ASSUME NEW S, NEW g \in Seq(S), NEW s \in Seq(S), s # <<>>
  PROVE  /\ Append(g, Head(s)) \o Tail(s) = g \o s
         /\ Len(Tail(s)) <= Len(s)
  OBVIOUS

-----------------------------------------------------------------------------
(***************************************************************************)
(* A connection that has not been reset.                                   *)
(***************************************************************************)

LEMMA ReachBounds ==
  ASSUME TypeOK, CallShape, Sending, ErrorOnlyMissing
  PROVE  /\ ~Idle /\ served \in 1 .. Len(asked) /\ served > 0 /\ served \in 1 .. MaxRequests
         /\ Pieces(asked, served) \in Nat /\ Reach \in Nat /\ Reach <= Pieces(asked, served)
         /\ pc \in {"header", "body"} => Reach = pos
         /\ pc = "errBody" => Reach = Pieces(asked, served)
         /\ SendingPart = Part(asked, served)
         /\ First => Reach = 0 /\ Len(call.todo) = 1
         /\ Len(call.todo) \in Nat /\ Len(call.todo) > 0
<1>1. ~Idle
  BY DEF CallShape, NoCall, Sending
<1>2. served \in 1 .. Len(asked) /\ served > 0 /\ served \in 1 .. MaxRequests /\ served # 0
  BY <1>1, Numbers DEF CallShape
<1>3. Pieces(asked, served) \in Nat /\ pos \in 0 .. Pieces(asked, served)
  BY <1>2, Sized DEF TypeOK
<1>4. pc \in {"header", "body", "errHeader", "errBody"}
  BY <1>1 DEF TypeOK, Idle
<1>5. pc \in {"errHeader", "errBody"} =>
        Pieces(asked, served) = 1 /\ Part(asked, served) = "error"
  BY DEF ErrorOnlyMissing, Pieces, Part
<1>6. pc \in {"header", "body"} => Part(asked, served) = "file"
  BY DEF CallShape, Part
<1>7. /\ pc = "header" => Reach = 0 /\ pos = 0
      /\ pc = "errHeader" => Reach = 0
      /\ pc = "body" => Reach = pos
      /\ pc = "errBody" => Reach = 1
  BY DEF Reach, First, CallShape
<1>8. Len(call.todo) \in Nat /\ Len(call.todo) > 0
  BY <1>1, Numbers DEF CallShape
<1>9. First => Len(call.todo) = 1
  <2> SUFFICES ASSUME First  PROVE Len(call.todo) = 1
    OBVIOUS
  <2>1. Len(call.todo) <= 1
    <3>1. pc # "body"
      BY DEF First
    <3> QED  BY <3>1, Zenon DEF CallShape
  <2>2. \A x \in Nat : x > 0 /\ x <= 1 => x = 1
    OBVIOUS
  <2> QED  BY <1>8, <2>1, <2>2, Zenon
<1>10. SendingPart = Part(asked, served)
  BY <1>4, <1>5, <1>6 DEF SendingPart
<1> QED  BY <1>1, <1>2, <1>3, <1>4, <1>5, <1>7, <1>8, <1>9, <1>10 DEF First

\* What has been copied when a send has copied n units.
LEMMA Copied ==
  ASSUME TypeOK, CallShape, Connected, Sending, NEW n \in 0 .. Len(call.todo),
         First => n > 0,
         NEW P \in Seq(Units), P = SubSeq(Line, 1, Len(Stream) + n)
  PROVE  /\ Ordered(P, asked, served, mode)
         /\ ComesTo(P, served, Reach - Len(call.todo) + n, mode)
         /\ n = Len(call.todo) => P = Line
<1> DEFINE l == Len(Stream)
           c == Len(call.todo)
<1>1. /\ Stream \in Seq(Units) /\ call.todo \in Seq(Units) /\ l \in Nat /\ c \in Nat
      /\ Line \in Seq(Units) /\ n \in Nat /\ n <= c
  BY Numbers
<1>2. Len(Line) = l + c /\ \A x \in 1 .. c : Line[l + x] = call.todo[x]
  <2>1. Line = Stream \o call.todo
    BY DEF Line
  <2> QED  BY <1>1, <2>1, Concatenation
<1>3. Line = Stream \o call.todo /\ \A j \in 1 .. l : Line[j] = Stream[j]
  <2>1. Line = Stream \o call.todo
    BY DEF Line
  <2> QED  BY <1>1, <2>1, Concatenation
<1>4. Reach \in Nat /\ served > 0
  BY ReachBounds DEF Connected
<1> HIDE DEF l, c
<1>5. Len(P) = l + n /\ \A j \in 1 .. l + n : P[j] = Line[j]
  <2>1. l + n \in 0 .. Len(Line)
    BY <1>1, <1>2
  <2> QED  BY <1>1, <2>1 DEF l
<1>6. Ordered(P, asked, served, mode)
  <2>1. l + n \in 0 .. Len(Line) /\ served \in Nat
    BY <1>1, <1>2, Numbers
  <2> QED  BY <1>1, <2>1, OrderedPrefix DEF Connected, l
<1>7. ComesTo(P, served, Reach - c + n, mode)
  <2>1. CASE n = 0
    <3>1. ComesTo(Stream, served, Reach - c, mode)
      BY <2>1, <1>4 DEF Connected, CameTo, c
    <3>2. l > 0 /\ l \in 1 .. l /\ Stream[l].k = served /\ Stream[l].i <= Reach - c
          /\ (mode = "blocking" => Stream[l].i = Reach - c)
      BY <1>1, <3>1 DEF ComesTo, l
    <3>3. Len(P) = l /\ P[l] = Stream[l] /\ Reach - c + n = Reach - c
      BY <2>1, <3>2, <1>1, <1>3, <1>4, <1>5
    <3> QED  BY <3>2, <3>3 DEF ComesTo
  <2>2. CASE n > 0
    <3>1. n \in 1 .. c /\ l + n \in 1 .. l + n /\ l + n > 0
      BY <2>2, <1>1
    <3>2. P[l + n] = call.todo[n]
      BY <3>1, <1>2, <1>5
    <3>3. call.todo[n] = Unit(served, Reach - c + n, SendingPart)
      BY <3>1 DEF CallShape, c
    <3>4. P[Len(P)].k = served /\ P[Len(P)].i = Reach - c + n
      <4>1. P[Len(P)] = Unit(served, Reach - c + n, SendingPart)
        BY <3>2, <3>3, <1>5, Zenon
      <4>2. /\ Unit(served, Reach - c + n, SendingPart).k = served
            /\ Unit(served, Reach - c + n, SendingPart).i = Reach - c + n
        BY UnitParts
      <4> QED  BY <4>1, <4>2, Zenon
    <3>5. Reach - c + n <= Reach - c + n
      BY <1>1, <1>4
    <3> QED  BY <1>5, <3>1, <3>4, <3>5 DEF ComesTo
  <2> QED  BY <2>1, <2>2, <1>1
<1>8. n = c => P = Line
  <2>1. n = c => l + n = Len(Line)
    BY <1>2
  <2> QED  BY <1>1, <2>1, SubSeqFull DEF l
<1> QED  BY <1>6, <1>7, <1>8 DEF c

\* The next send begins where the last one has come to.
LEMMA NextBlock ==
  ASSUME TypeOK, CallShape, TypeOK', Sending, Connected, UNCHANGED <<mode, asked, got>>,
         served' = served, NEW m \in Nat \ {0}, pc' \in {"body", "errBody"},
         Block(call'.todo, asked, served, Reach, m), Reach' = Reach + m,
         Reach + m <= Pieces(asked, served),
         Ordered(Stream', asked, served, mode), ComesTo(Stream', served, Reach, mode),
         pc' = "errBody" => asked[served].size = Missing,
         Pieces(asked, served) < CAP =>
           Stream' = Line /\ Len(sock') = Len(sock) + Len(call.todo)
  PROVE  Connected'
<1>1. /\ ~Idle /\ served \in 1 .. Len(asked) /\ served > 0 /\ Pieces(asked, served) \in Nat
      /\ Reach \in Nat /\ SendingPart = Part(asked, served)
      /\ Len(call.todo) \in Nat /\ Len(call.todo) > 0
  BY ReachBounds DEF Connected
<1>2. /\ Stream' \in Seq(Units) /\ call'.todo \in Seq(Units) /\ Line' \in Seq(Units)
      /\ served \in Nat /\ Len(asked) \in Nat /\ CAP \in Nat /\ Len(sock) \in Nat
      /\ Len(sock') \in Nat /\ Line \in Seq(Units)
  BY Numbers, SequencesNext
<1>3. Line' = Stream' \o call'.todo
  BY DEF Line
<1>4. ~First' /\ ~Idle'
  BY DEF First, Idle
<1>5. Len(call'.todo) = m /\ m \in Nat /\ m > 0
      /\ \A x \in 1 .. m : call'.todo[x] = Unit(served, Reach + x, Part(asked, served))
  BY DEF Block
<1>6. Ordered(Line', asked, served, mode)
  BY <1>1, <1>2, <1>3, <1>5, OrderedExtends
<1>7. ErrorOnlyMissing'
  BY <1>4 DEF ErrorOnlyMissing, First
<1>8. Waited'
  <2>1. Waited
    BY DEF Connected
  <2>2. ~(served < Len(asked))
    BY <1>1, <2>1 DEF Waited
  <2> QED  BY <1>4, <2>1, <2>2 DEF Waited, Pieces, Part
<1>9. CameTo'
  <2>1. Reach' - Len(call'.todo) = Reach
    BY <1>1, <1>5
  <2> QED  BY <2>1 DEF CameTo
<1>10. Fits'
  <2>1. Pieces(asked, served)' = Pieces(asked, served) /\ Part(asked, served)' = Part(asked, served)
    BY DEF Pieces, Part
  <2> SUFFICES ASSUME Pieces(asked, served) < CAP
               PROVE  /\ Len(sock') + Len(call'.todo) <= Reach' + 1
                      /\ \A i \in 0 .. Reach' : Unit(served, i, Part(asked, served)) \in Range(Line')
    BY <2>1 DEF Fits
  <2>2. /\ Len(sock) + Len(call.todo) <= Reach + 1
        /\ \A i \in 0 .. Reach : Unit(served, i, Part(asked, served)) \in Range(Line)
    BY <1>1 DEF Connected, Fits
  <2>3. Len(sock') + Len(call'.todo) <= Reach' + 1
    BY <1>1, <1>2, <1>5, <2>2
  <2>4. ASSUME NEW i \in 0 .. Reach'
        PROVE  Unit(served, i, Part(asked, served)) \in Range(Line')
    <3>1. CASE i \in 0 .. Reach
      <4>1. Unit(served, i, Part(asked, served)) \in Range(Stream')
        BY <2>2, <3>1
      <4> QED  BY <4>1, <1>2, <1>3, RangeConcatenation
    <3>2. CASE ~(i \in 0 .. Reach)
      <4>1. i - Reach \in 1 .. m /\ Reach + (i - Reach) = i
        BY <1>1, <1>5, <3>2
      <4>2. i - Reach \in 1 .. Len(call'.todo)
            /\ call'.todo[i - Reach] = Unit(served, i, Part(asked, served))
        BY <4>1, <1>5
      <4>3. Unit(served, i, Part(asked, served)) \in Range(call'.todo)
        BY <4>2, <1>2, InRange
      <4> QED  BY <4>3, <1>2, <1>3, RangeConcatenation
    <3> QED  BY <3>1, <3>2
  <2> QED  BY <2>3, <2>4
<1> QED  BY <1>6, <1>7, <1>8, <1>9, <1>10 DEF Connected

\* The response ends.
LEMMA LastBlock ==
  ASSUME TypeOK, CallShape, TypeOK', Sending, Connected, UNCHANGED <<mode, asked, got>>,
         served' = served, pc' \in {"recv", "closed"}, call' = NoCall,
         Ordered(Stream', asked, served, mode), ComesTo(Stream', served, Reach, mode),
         mode = "blocking" => Reach = Pieces(asked, served),
         Pieces(asked, served) < CAP =>
           /\ Stream' = Line /\ Len(sock') = Len(sock) + Len(call.todo)
           /\ Reach = Pieces(asked, served)
  PROVE  Connected'
<1>1. /\ ~Idle /\ served \in 1 .. Len(asked) /\ served > 0 /\ Pieces(asked, served) \in Nat
      /\ Reach \in Nat /\ Reach <= Pieces(asked, served)
  BY ReachBounds DEF Connected
<1>2. /\ Stream' \in Seq(Units) /\ call'.todo \in Seq(Units) /\ Len(call'.todo) = 0
      /\ served \in Nat /\ Len(asked) \in Nat /\ Len(sock) \in Nat /\ Len(sock') \in Nat
  BY Numbers, SequencesNext, NoCallTyped
<1>3. Line' = Stream'
  <2>1. Line' = Stream' \o call'.todo
    BY DEF Line
  <2> QED  BY <1>2, <2>1, ConcatEmpty
<1>4. ~First' /\ Idle' /\ Reach' = Pieces(asked, served)
  BY DEF First, Idle, Reach, Pieces
<1>5. Waited'
  <2>1. Waited
    BY DEF Connected
  <2>2. ~(served < Len(asked))
    BY <1>1, <2>1 DEF Waited
  <2> QED  BY <1>4, <2>1, <2>2 DEF Waited, Pieces, Part
<1>6. CameTo'
  <2>1. Reach' - Len(call'.todo) = Pieces(asked, served)
    BY <1>1, <1>2, <1>4
  <2>2. Stream'[Len(Stream')].i \in Nat
    <3>1. Len(Stream') \in 1 .. Len(Stream')
      BY <1>2 DEF ComesTo
    <3>2. Stream'[Len(Stream')] \in Units
      BY <1>2, <3>1, ElementOfSeq
    <3> QED  BY <3>2 DEF Units
  <2>3. ComesTo(Stream', served, Pieces(asked, served), mode)
    BY <1>1, <2>2 DEF ComesTo
  <2> QED  BY <2>1, <2>3 DEF CameTo
<1>7. Fits'
  <2>1. Pieces(asked, served)' = Pieces(asked, served) /\ Part(asked, served)' = Part(asked, served)
    BY DEF Pieces, Part
  <2> SUFFICES ASSUME Pieces(asked, served) < CAP
               PROVE  /\ Len(sock') + Len(call'.todo) <= Reach' + 1
                      /\ \A i \in 0 .. Reach' : Unit(served, i, Part(asked, served)) \in Range(Line')
    BY <2>1 DEF Fits
  <2>2. /\ Len(sock) + Len(call.todo) <= Reach + 1
        /\ \A i \in 0 .. Reach : Unit(served, i, Part(asked, served)) \in Range(Line)
    BY <1>1 DEF Connected, Fits
  <2> QED  BY <1>1, <1>2, <1>3, <1>4, <2>2
<1>8. ErrorOnlyMissing'
  BY DEF ErrorOnlyMissing
<1> QED  BY <1>3, <1>5, <1>6, <1>7, <1>8 DEF Connected

\* A send that returns, having copied n units since the last step.
LEMMA SendConnected ==
  ASSUME TypeOK, CallShape, TypeOK', CallShape', Sending, Connected,
         UNCHANGED <<mode, asked, got>>, Succeeds \/ Fails,
         NEW n \in 0 .. Len(call.todo),
         Stream' = SubSeq(Line, 1, Len(Stream) + n), Len(sock') = Len(sock) + n,
         First => n > 0 /\ Succeeds,
         mode = "blocking" \/ Pieces(asked, served) < CAP => n = Len(call.todo) /\ Succeeds
  PROVE  Connected'
<1>1. /\ ~Idle /\ served \in 1 .. Len(asked) /\ served > 0 /\ Pieces(asked, served) \in Nat
      /\ Reach \in Nat /\ Reach <= Pieces(asked, served)
      /\ pc \in {"header", "body"} => Reach = pos
      /\ pc = "errBody" => Reach = Pieces(asked, served)
      /\ First => Reach = 0
      /\ Len(call.todo) \in Nat /\ n <= Len(call.todo) /\ n \in Nat
  BY ReachBounds DEF Connected
<1>2. /\ Stream' \in Seq(Units)
  BY SequencesNext
<1>3. /\ Ordered(Stream', asked, served, mode)
      /\ ComesTo(Stream', served, Reach - Len(call.todo) + n, mode)
      /\ n = Len(call.todo) => Stream' = Line
  BY <1>2, Copied
<1>4. ComesTo(Stream', served, Reach, mode)
  <2>1. Stream'[Len(Stream')].i \in Nat
    <3>1. Len(Stream') \in 1 .. Len(Stream')
      BY <1>2, <1>3 DEF ComesTo
    <3>2. Stream'[Len(Stream')] \in Units
      BY <1>2, <3>1, ElementOfSeq
    <3> QED  BY <3>2 DEF Units
  <2>2. Reach - Len(call.todo) + n \in Int /\ Reach - Len(call.todo) + n <= Reach
    BY <1>1
  <2>3. mode = "blocking" => Reach - Len(call.todo) + n = Reach
    <3>1. \A c \in Nat : Reach - c + c = Reach
      BY <1>1
    <3>2. mode = "blocking" => n = Len(call.todo)
      OBVIOUS
    <3> QED  BY <1>1, <3>1, <3>2, Zenon
  <2>4. \A i \in Nat, a \in Int : i <= a /\ a <= Reach => i <= Reach
    BY <1>1
  <2> QED  BY <1>3, <2>1, <2>2, <2>3, <2>4, Zenon DEF ComesTo
<1>5. Pieces(asked, served) < CAP =>
        Stream' = Line /\ Len(sock') = Len(sock) + Len(call.todo)
  BY <1>3
<1>6. served' = served
  BY SendReturns
<1>7. CASE Ends
  <2>1. Succeeds => Reach = Pieces(asked, served)
    <3>1. SUFFICES ASSUME Succeeds, ~(pc = "errBody"), ~(pc \in {"header", "body"} /\ pos = Pieces(asked, served))
                   PROVE  FALSE
      BY <1>1
    <3>2. Fails /\ pc # "header"
      BY <1>7, <3>1 DEF Ends
    <3>3. pc \in {"errHeader", "body"}
      BY <1>1, <3>1, <3>2 DEF TypeOK, Idle
    <3>4. CASE pc = "errHeader"
      BY <1>7, <3>1, <3>4 DEF Ends, Succeeds
    <3>5. CASE pc = "body"
      <4>1. Fread
        BY <3>1, <3>5 DEF Succeeds
      <4>2. \/ EndResponse(asked[served].keep) /\ pos = Pieces(asked, served)
            \/ pc' = "body"
        BY <4>1, <3>5, FreadReturns
      <4> QED  BY <4>2, <1>7, <3>1, <3>5 DEF Ends
    <3> QED  BY <3>3, <3>4, <3>5
  <2>2. pc' \in {"recv", "closed"} /\ call' = NoCall
    BY <1>7 DEF Ends
  <2> QED  BY <1>3, <1>4, <1>5, <1>6, <2>1, <2>2, LastBlock
<1>8. CASE Fails /\ pc = "header" /\ SendsOne("errHeader", 0)
  <2>1. Succeeds /\ First
    BY <1>8 DEF First
  <2>2. Fread
    BY <1>8, <2>1 DEF Succeeds
  <2>3. pc' \in {"recv", "closed", "body"}
    BY <2>2, <1>8, FreadReturns DEF EndResponse
  <2> QED  BY <2>3, <1>8 DEF SendsOne
<1>9. CASE Succeeds /\ pc = "errHeader" /\ SendsOne("errBody", 1)
  <2>1. asked[served].size = Missing /\ Pieces(asked, served) = 1 /\ Part(asked, served) = "error"
    BY <1>9 DEF Connected, ErrorOnlyMissing, Pieces, Part
  <2>2. Reach = 0 /\ Reach' = 1 /\ pc' = "errBody"
    BY <1>1, <1>9 DEF First, Reach, SendsOne
  <2>3. Block(call'.todo, asked, served, Reach, 1)
    <3>1. \A x \in 1 .. 1 : x = 1 /\ 0 + x = 1
      OBVIOUS
    <3> QED  BY <1>9, <2>1, <2>2, <3>1 DEF SendsOne, Block
  <2>4. 1 \in Nat \ {0} /\ Reach' = Reach + 1 /\ Reach + 1 <= Pieces(asked, served)
    BY <2>1, <2>2
  <2> QED  BY <1>3, <1>4, <1>5, <1>6, <2>1, <2>2, <2>3, <2>4, NextBlock
<1>10. ASSUME NEW m \in Nat \ {0}, Succeeds, pc \in {"header", "body"}, SendsPieces(m)
       PROVE  Connected'
  <2>1. Reach = pos /\ Reach' = pos + m /\ pc' = "body" /\ pos + m <= Pieces(asked, served)
    BY <1>1, <1>10 DEF SendsPieces, Reach, First
  <2>2. Block(call'.todo, asked, served, Reach, m)
    BY <1>10, <2>1 DEF SendsPieces
  <2> QED  BY <1>3, <1>4, <1>5, <1>6, <2>1, <2>2, NextBlock
<1> QED  BY <1>7, <1>8, <1>9, <1>10, SendReturns

LEMMA ThreeParts ==
  ASSUME NEW S, NEW g \in Seq(S), NEW s \in Seq(S), NEW b \in Seq(S), NEW n \in 0 .. Len(b)
  PROVE  g \o (s \o SubSeq(b, 1, n)) = SubSeq((g \o s) \o b, 1, Len(g \o s) + n)
<1> DEFINE f == SubSeq(b, 1, n)
<1>1. f \in Seq(S) /\ g \o s \in Seq(S)
  OBVIOUS
<1>2. (g \o s) \o f = SubSeq((g \o s) \o b, 1, Len(g \o s) + n)
  BY <1>1, ConcatPrefix
<1> HIDE DEF f
<1>3. (g \o s) \o f = g \o (s \o f)
  BY <1>1, ConcatAssociative
<1> QED  BY <1>2, <1>3 DEF f

LEMMA StreamPrefix ==
  ASSUME TypeOK, got' = got, NEW n \in 0 .. Len(call.todo),
         sock' = sock \o SubSeq(call.todo, 1, n)
  PROVE  Stream' = SubSeq(Line, 1, Len(Stream) + n)
<1>1. got \in Seq(Units) /\ sock \in Seq(Units) /\ call.todo \in Seq(Units)
  BY Numbers
<1>2. \A g, s, b \in Seq(Units) : \A m \in 0 .. Len(b) :
        g \o (s \o SubSeq(b, 1, m)) = SubSeq((g \o s) \o b, 1, Len(g \o s) + m)
  BY ThreeParts
<1>3. got \o (sock \o SubSeq(call.todo, 1, n)) =
        SubSeq((got \o sock) \o call.todo, 1, Len(got \o sock) + n)
  BY <1>1, <1>2, Zenon
<1> QED  BY <1>3, Zenon DEF Line, Stream

LEMMA SockKept ==
  ASSUME TypeOK, sock' = sock, got' = got
  PROVE  0 \in 0 .. Len(call.todo) /\ Stream' = SubSeq(Line, 1, Len(Stream) + 0) /\ Len(sock') = Len(sock) + 0
<1>1. /\ call.todo \in Seq(Units) /\ Len(call.todo) \in Nat
      /\ sock \in Seq(Units) /\ Len(sock) \in Nat
  BY Numbers
<1>2. SubSeq(call.todo, 1, 0) \in Seq(Units) /\ Len(SubSeq(call.todo, 1, 0)) = 0
  BY <1>1
<1>3. sock \o SubSeq(call.todo, 1, 0) = sock
  BY <1>1, <1>2, ConcatEmpty
<1>4. 0 \in 0 .. Len(call.todo)
  BY <1>1
<1>5. sock' = sock \o SubSeq(call.todo, 1, 0)
  BY <1>3
<1>6. Stream' = SubSeq(Line, 1, Len(Stream) + 0)
  BY <1>4, <1>5, StreamPrefix
<1> QED  BY <1>1, <1>4, <1>6

\* A response that fits the buffer never waits for room.
LEMMA SmallHasRoom ==
  ASSUME TypeOK, CallShape, Sending, Connected
  PROVE  /\ Pieces(asked, served) < CAP => Len(call.todo) <= Room
         /\ First => Len(call.todo) <= Room
         /\ Room \in Int /\ Len(call.todo) \in Nat /\ Len(call.todo) > 0
<1>1. /\ served > 0 /\ Pieces(asked, served) \in Nat /\ Reach \in Nat
      /\ Reach <= Pieces(asked, served)
      /\ Len(call.todo) \in Nat /\ Len(call.todo) > 0
      /\ First => Len(call.todo) = 1
  BY ReachBounds DEF Connected
<1>2. Len(sock) \in Nat /\ CAP \in Nat /\ CAP > 0
  BY Numbers
<1>3. Pieces(asked, served) < CAP => Len(call.todo) <= Room
  <2> SUFFICES ASSUME Pieces(asked, served) < CAP  PROVE Len(call.todo) <= Room
    OBVIOUS
  <2>1. Len(sock) + Len(call.todo) <= Reach + 1
    BY <1>1 DEF Connected, Fits
  <2> QED  BY <1>1, <1>2, <2>1 DEF Room
<1>4. First => Len(call.todo) <= Room
  <2> SUFFICES ASSUME First  PROVE Len(call.todo) <= Room
    OBVIOUS
  <2>1. sock = <<>>
    BY DEF Connected, Waited
  <2>2. Room = CAP /\ Len(call.todo) = 1
    BY <1>1, <1>2, <2>1 DEF Room
  <2> QED  BY <1>2, <2>2
<1>5. Room \in Int
  BY <1>2 DEF Room
<1> QED  BY <1>1, <1>3, <1>4, <1>5

\* The step of a send that waits, having copied n units.
Waits(n) ==
  /\ sock' = sock \o SubSeq(call.todo, 1, n)
  /\ call' = [todo |-> SubSeq(call.todo, n + 1, Len(call.todo)), copied |-> TRUE]
  /\ UNCHANGED <<pc, served, pos>>

LEMMA WaitConnected ==
  ASSUME TypeOK, CallShape, TypeOK', Sending, Connected, UNCHANGED <<mode, asked, got>>,
         NEW n \in Nat, n > 0, n < Len(call.todo), n <= Room, Waits(n)
  PROVE  Connected'
<1> DEFINE f == SubSeq(call.todo, 1, n)
           r == SubSeq(call.todo, n + 1, Len(call.todo))
<1>1. /\ served > 0 /\ Reach \in Nat /\ ~Idle
      /\ First => Len(call.todo) = 1
      /\ Len(call.todo) \in Nat /\ n \in 0 .. Len(call.todo) /\ n \in 1 .. Len(call.todo)
      /\ Pieces(asked, served) \in Nat
  BY ReachBounds DEF Connected
<1>2. ~First
  <2>1. \A x : n < x /\ n > 0 => x # 1
    OBVIOUS
  <2> QED  BY <1>1, <2>1, Zenon
<1>3. Reach' = Reach /\ Len(call'.todo) = Len(call.todo) - n
  BY WaitShape DEF Waits
<1>4. /\ got \in Seq(Units) /\ sock \in Seq(Units) /\ call.todo \in Seq(Units)
      /\ Stream \in Seq(Units) /\ Stream' \in Seq(Units) /\ Len(sock) \in Nat
  BY Numbers, SequencesNext
<1>5. Stream' = SubSeq(Line, 1, Len(Stream) + n)
  BY <1>1, StreamPrefix DEF Waits
<1>6. Line' = Line
  <2>1. f \in Seq(Units) /\ r \in Seq(Units)
    BY <1>1, <1>4
  <2> HIDE DEF r
  <2>2. Stream' = Stream \o f
    BY <1>1, <1>4, <1>5, ConcatPrefix DEF Line
  <2>3. Line' = (Stream \o f) \o r
    BY <2>2 DEF Line, Waits, r
  <2>4. (Stream \o f) \o r = Stream \o (f \o r)
    <3> HIDE DEF f
    <3> QED  BY <1>4, <2>1
  <2>5. f \o r = call.todo
    BY <1>1, <1>4, SplitSeq DEF r
  <2> HIDE DEF f
  <2> QED  BY <2>3, <2>4, <2>5, Zenon DEF Line
<1>6a. UNCHANGED <<pc, served, pos>>
  BY DEF Waits
<1>7. ComesTo(Stream', served, Reach - Len(call.todo) + n, mode)
  BY <1>1, <1>2, <1>4, <1>5, Copied
<1>8. CameTo'
  <2>1. Reach' - Len(call'.todo) = Reach - Len(call.todo) + n
    BY <1>1, <1>3
  <2> QED  BY <1>7, <1>6a, <2>1 DEF CameTo
<1>9. ErrorOnlyMissing'
  BY <1>6a DEF Connected, ErrorOnlyMissing
<1>10. ~First' /\ ~Idle'
  BY <1>1, <1>2, <1>6a DEF First, Idle
<1>11. Waited'
  <2>1. Waited
    BY DEF Connected
  <2>2. ~(served < Len(asked))
    BY <1>1, <2>1 DEF Waited
  <2> QED  BY <1>10, <1>6a, <2>1, <2>2 DEF Waited, Pieces, Part
<1>12. Fits'
  <2>1. Len(sock') = Len(sock) + n
    BY <1>1, CopySock DEF Waits
  <2>2. Len(sock') + Len(call'.todo) = Len(sock) + Len(call.todo)
    <3>1. \A a, b \in Nat : (a + n) + (b - n) = a + b
      OBVIOUS
    <3> QED  BY <1>1, <1>3, <1>4, <2>1, <3>1, Zenon
  <2>3. Pieces(asked, served)' = Pieces(asked, served) /\ Part(asked, served)' = Part(asked, served)
    BY <1>6a DEF Pieces, Part
  <2>4. Fits
    BY DEF Connected
  <2> QED  BY <1>3, <1>6, <1>6a, <2>2, <2>3, <2>4 DEF Fits
<1> QED  BY <1>6, <1>8, <1>9, <1>11, <1>12, <1>6a DEF Connected

\* The next request begins.
LEMMA ReceiveConnected ==
  ASSUME TypeOK, CallShape, TypeOK', Connected, Receive
  PROVE  Connected'
<1>1. /\ served' = served + 1 /\ served' \in 1 .. Len(asked) /\ served' > 0
      /\ First' /\ Reach' = 0 /\ ~Idle'
      /\ call.todo = <<>> /\ Len(call'.todo) = 1
      /\ call'.todo = <<Unit(served', 0, Part(asked, served'))>>
      /\ pc' = "errHeader" => asked[served'].size = Missing
      /\ pc' \in {"header", "errHeader"}
  BY ReceiveShape
<1>2. UNCHANGED <<mode, sock, asked, got>> /\ pc = "recv" /\ served < Len(asked)
  BY DEF Receive, client
<1>3. /\ Stream' \in Seq(Units) /\ call'.todo \in Seq(Units) /\ Stream \in Seq(Units)
      /\ served \in Nat /\ Len(asked) \in Nat /\ CAP \in Nat
  BY Numbers, SequencesNext
<1>4. Stream' = Stream
  BY <1>2 DEF Stream
<1>5. Line = Stream /\ Line' = Stream \o call'.todo
  <2>1. Line = Stream \o call.todo /\ Len(call.todo) = 0
    BY <1>1 DEF Line
  <2> QED  BY <1>1, <1>3, <1>4, <2>1, ConcatEmpty DEF Line
<1>6. Ordered(Line', asked, served', mode)
  <2>1. served > 0 => ComesTo(Stream, served, Pieces(asked, served), mode)
    <3> SUFFICES ASSUME served > 0  PROVE ComesTo(Stream, served, Pieces(asked, served), mode)
      OBVIOUS
    <3>1. ~First /\ Reach = Pieces(asked, served)
      BY <1>2 DEF First, Reach
    <3>2. Pieces(asked, served) \in Nat
      BY Numbers, Sized
    <3>3. Reach - Len(call.todo) = Pieces(asked, served)
      BY <1>1, <3>1, <3>2
    <3> QED  BY <3>1, <3>3 DEF Connected, CameTo
  <2>2. Pieces(asked, served + 1) \in Nat
    BY <1>1, Sized
  <2>3. Ordered(Stream, asked, served, mode)
    BY <1>5 DEF Connected
  <2> QED  BY <1>1, <1>3, <1>5, <2>1, <2>2, <2>3, OrderedBegins
<1>7. ErrorOnlyMissing'
  BY <1>1, <1>2 DEF ErrorOnlyMissing
<1>8. Waited'
  <2>1. Waited /\ sock = <<>>
    BY <1>2 DEF Connected, Waited
  <2>2. served + 1 >= Len(asked) /\ served' = Len(asked)
    BY <1>1, <1>3, <2>1 DEF Waited
  <2>3. \A k \in 1 .. served' : k < Len(asked) => k \in 1 .. served
    BY <1>1, <1>3, <2>2
  <2>4. served' + 1 >= Len(asked) /\ ~(served' < Len(asked))
    BY <1>3, <2>2
  <2> QED  BY <1>2, <2>1, <2>3, <2>4 DEF Waited, Pieces, Part
<1>9. CameTo'
  BY <1>1 DEF CameTo
<1>10. Fits'
  <2>1. sock = <<>>
    BY <1>2 DEF Connected, Waited
  <2>2. Len(sock') + Len(call'.todo) <= Reach' + 1
    BY <1>1, <1>2, <2>1
  <2>3. Unit(served', 0, Part(asked, served')) \in Range(Line')
    <3>1. 1 \in 1 .. Len(call'.todo) /\ call'.todo[1] = Unit(served', 0, Part(asked, served'))
      BY <1>1
    <3>2. Unit(served', 0, Part(asked, served')) \in Range(call'.todo)
      BY <3>1, <1>3, InRange
    <3> QED  BY <3>2, <1>3, <1>5, RangeConcatenation
  <2>4. \A i \in 0 .. Reach' : i = 0
    BY <1>1
  <2> QED  BY <1>2, <2>2, <2>3, <2>4 DEF Fits, Part
<1> QED  BY <1>2, <1>6, <1>7, <1>8, <1>9, <1>10 DEF Connected

\* A client that has counted all pieces of a response has each of them: as many
\* different pieces as there are.
LEMMA CountedAll ==
  ASSUME TypeOK, NEW k \in 1 .. Len(asked), Ordered(got, asked, served, mode), Counted(k)
  PROVE  \A i \in 0 .. Pieces(asked, k) : \E j \in 1 .. Len(got) : got[j].k = k /\ got[j].i = i
<1> DEFINE J == {j \in DOMAIN got : got[j].k = k}
           T == 0 .. Pieces(asked, k)
           f == [j \in J |-> got[j].i]
<1>1. got \in Seq(Units) /\ DOMAIN got = 1 .. Len(got) /\ Len(got) \in Nat
  BY Numbers
<1>2. Pieces(asked, k) \in Nat /\ Length(k) = Pieces(asked, k)
  BY Sized
<1>3. Cardinality(J) = Pieces(asked, k) + 1
  BY <1>2 DEF Counted, Read
<1>4. IsFiniteSet(T) /\ Cardinality(T) = Pieces(asked, k) + 1
  <2>1. 0 \in Int /\ Pieces(asked, k) \in Int /\ ~(0 > Pieces(asked, k))
    BY <1>2
  <2>2. IsFiniteSet(T) /\ Cardinality(T) = Pieces(asked, k) - 0 + 1
    BY <2>1, FS_Interval
  <2> QED  BY <1>2, <2>2
<1>5. \A j \in J : j \in 1 .. Len(got) /\ got[j].k = k /\ got[j].i \in T
  <2> TAKE j \in J
  <2>1. j \in 1 .. Len(got) /\ got[j].k = k
    BY <1>1
  <2>2. Owned(got[j], asked, served)
    BY <2>1 DEF Ordered
  <2> QED  BY <2>1, <2>2 DEF Owned
<1>6. \A i, j \in J : got[i].i = got[j].i => i = j
  <2>1. \A i, j \in 1 .. Len(got) : i < j => Before(got[i], got[j])
    BY DEF Ordered
  <2> SUFFICES ASSUME NEW i \in J, NEW j \in J, i < j  PROVE got[i].i # got[j].i
    <3>1. \A i, j \in 1 .. Len(got) : i = j \/ i < j \/ j < i
      BY <1>1
    <3> HIDE DEF J
    <3> QED  BY <1>5, <3>1
  <2>2. Before(got[i], got[j]) /\ got[i].k = k /\ got[j].k = k
    BY <1>5, <2>1
  <2>3. got[i].i \in Nat /\ got[j].i \in Nat /\ k \in Nat
    BY <1>2, <1>5
  <2> QED  BY <2>2, <2>3 DEF Before
<1> HIDE DEF J, T
<1>7. f \in Injection(J, T)
  <2>1. f \in [J -> T]
    BY <1>5
  <2>2. \A i, j \in J : f[i] = f[j] => i = j
    BY <1>6
  <2>3. DOMAIN f = J
    OBVIOUS
  <2> HIDE DEF f
  <2>4. IsInjective(f)
    BY <2>2, <2>3 DEF IsInjective
  <2> QED  BY <2>1, <2>4, Zenon DEF Injection
<1>8. f \in Surjection(J, T)
  <2> HIDE DEF f
  <2>1. Cardinality(J) = Cardinality(T) <=> f \in Surjection(J, T)
    BY <1>4, <1>7, FS_Injection, Zenon
  <2> QED  BY <1>3, <1>4, <2>1
<1>9. \A i \in T : \E j \in J : f[j] = i
  <2> HIDE DEF f
  <2> QED  BY <1>8, Zenon DEF Surjection
<1>10. \A j \in J : f[j] = got[j].i
  OBVIOUS
<1> HIDE DEF f
<1>11. \A i \in T : \E j \in 1 .. Len(got) : got[j].k = k /\ got[j].i = i
  BY <1>5, <1>9, <1>10, Zenon
<1> QED  BY <1>11 DEF T

LEMMA GotOrdered ==
  ASSUME TypeOK, Ordered(Line, asked, served, mode)
  PROVE  Ordered(got, asked, served, mode)
<1>1. /\ got \in Seq(Units) /\ sock \in Seq(Units) /\ call.todo \in Seq(Units)
      /\ Stream \in Seq(Units) /\ Line \in Seq(Units) /\ served \in Nat
  BY Numbers
<1>2. /\ Len(got) \in Nat /\ Len(Stream) = Len(got) + Len(sock) /\ Len(sock) \in Nat
      /\ Len(Line) = Len(Stream) + Len(call.todo) /\ Len(call.todo) \in Nat
  BY <1>1, Concatenation DEF Stream, Line
<1>3. Len(got) \in 0 .. Len(Line)
  <2>1. \A a, b, c \in Nat : a \in 0 .. (a + b) + c
    OBVIOUS
  <2> QED  BY <1>2, <2>1, Zenon
<1>4. Len(got) = Len(SubSeq(Line, 1, Len(got)))
  BY <1>1, <1>3
<1>5. SubSeq(Line, 1, Len(got)) = got
  <2>1. \A j \in 1 .. Len(got) : Stream[j] = got[j] /\ j \in 1 .. Len(Stream)
    <3>1. \A j \in 1 .. Len(got) : Stream[j] = got[j]
      BY <1>1, Concatenation DEF Stream
    <3>2. \A j \in 1 .. Len(got) : j \in 1 .. Len(Stream)
      BY <1>2
    <3> QED  BY <3>1, <3>2
  <2>2. \A j \in 1 .. Len(Stream) : Line[j] = Stream[j]
    BY <1>1, Concatenation DEF Line
  <2>3. \A j \in 1 .. Len(got) : SubSeq(Line, 1, Len(got))[j] = Line[j]
    BY <1>1, <1>3
  <2>4. SubSeq(Line, 1, Len(got)) \in Seq(Units)
    BY <1>1, <1>3
  <2>5. \A j \in 1 .. Len(got) : SubSeq(Line, 1, Len(got))[j] = got[j]
    BY <2>1, <2>2, <2>3
  <2> QED  BY <1>1, <1>4, <2>4, <2>5, SeqEqual
<1>6. Ordered(SubSeq(Line, 1, Len(got)), asked, served, mode)
  BY <1>1, <1>3, OrderedPrefix
<1> QED  BY <1>5, <1>6

\* When the client has all it has asked for, nothing is on the way.
LEMMA AllRead ==
  ASSUME TypeOK, CallShape, Connected, Len(asked) > 0, Counted(Len(asked))
  PROVE  /\ served = Len(asked) /\ Idle /\ sock = <<>>
         /\ \A i \in 0 .. Pieces(asked, served) :
              Unit(served, i, Part(asked, served)) \in Range(got)
<1> DEFINE k == Len(asked)
           l == Len(got)
<1>1. /\ k \in 1 .. Len(asked) /\ k \in Nat /\ served \in Nat /\ served <= k
      /\ got \in Seq(Units) /\ sock \in Seq(Units) /\ call.todo \in Seq(Units)
      /\ Stream \in Seq(Units) /\ Line \in Seq(Units) /\ l \in Nat
  BY Numbers
<1>2. Pieces(asked, k) \in Nat
  BY <1>1, Sized
<1>3. Ordered(Line, asked, served, mode) /\ Ordered(got, asked, served, mode)
  BY GotOrdered DEF Connected
<1>4. \A i \in 0 .. Pieces(asked, k) : \E j \in 1 .. l : got[j].k = k /\ got[j].i = i
  BY <1>1, <1>3, CountedAll
<1>5. PICK p \in 1 .. l : got[p].k = k /\ got[p].i = Pieces(asked, k)
  <2>1. Pieces(asked, k) \in 0 .. Pieces(asked, k)
    BY <1>2
  <2> QED  BY <1>4, <2>1
<1>6. \A j \in 1 .. l : Owned(got[j], asked, served)
  BY <1>3 DEF Ordered
<1>7. served = k
  <2>1. k \in 1 .. served
    BY <1>5, <1>6 DEF Owned
  <2> QED  BY <1>1, <2>1
<1> HIDE DEF k, l
<1>8. Line = got \o (sock \o call.todo)
  <2> DEFINE c == call.todo
  <2>1. c \in Seq(Units)
    BY <1>1
  <2> HIDE DEF c
  <2>2. (got \o sock) \o c = got \o (sock \o c)
    BY <1>1, <2>1
  <2> QED  BY <2>2, Zenon DEF Line, Stream, c
<1>9. /\ sock \o call.todo \in Seq(Units)
      /\ Len(sock \o call.todo) = Len(sock) + Len(call.todo)
      /\ Len(sock) \in Nat /\ Len(call.todo) \in Nat
  BY <1>1, Concatenation
<1>10. /\ Len(Line) = l + Len(sock \o call.todo)
       /\ \A j \in 1 .. l : Line[j] = got[j]
  BY <1>1, <1>8, <1>9, Concatenation DEF l
<1>11. Len(sock) + Len(call.todo) = 0
  <2> SUFFICES ASSUME Len(sock) + Len(call.todo) # 0  PROVE FALSE
    OBVIOUS
  <2>1. /\ l + 1 \in 1 .. Len(Line) /\ p \in 1 .. Len(Line) /\ p < l + 1
        /\ Line[p] = got[p]
    BY <1>1, <1>9, <1>10
  <2>2. Before(Line[p], Line[l + 1]) /\ Owned(Line[l + 1], asked, served)
    BY <1>3, <2>1 DEF Ordered
  <2>3. Line[l + 1].k \in 1 .. served /\ Line[l + 1].i \in 0 .. Pieces(asked, Line[l + 1].k)
    BY <2>2 DEF Owned
  <2>4. \/ k < Line[l + 1].k
        \/ k = Line[l + 1].k /\ Pieces(asked, k) < Line[l + 1].i
    BY <1>5, <2>1, <2>2 DEF Before
  <2> QED  BY <1>1, <1>2, <1>7, <2>3, <2>4
<1>12. sock = <<>> /\ Len(call.todo) = 0
  BY <1>1, <1>9, <1>11
<1>13. Idle
  BY <1>12 DEF CallShape
<1>14. ASSUME NEW i \in 0 .. Pieces(asked, served)
       PROVE  Unit(served, i, Part(asked, served)) \in Range(got)
  <2>1. PICK j \in 1 .. l : got[j].k = k /\ got[j].i = i
    BY <1>4, <1>7
  <2>2. got[j].part = Part(asked, served) /\ got[j] \in Units
    BY <1>1, <1>6, <1>7, <2>1, ElementOfSeq DEF Owned, l
  <2>3. got[j] = Unit(served, i, Part(asked, served))
    BY <1>7, <2>1, <2>2 DEF Unit, Units
  <2> QED  BY <1>1, <2>3, InRange DEF l
<1> QED  BY <1>7, <1>12, <1>13, <1>14 DEF k

\* The client asks for the first file, or for the next one.
LEMMA AskConnected ==
  ASSUME TypeOK, CallShape, Connected, NEW size \in Sizes, NEW keep \in BOOLEAN, Ask(size, keep)
  PROVE  Connected'
<1>1. /\ Len(asked') = Len(asked) + 1
      /\ \A k \in 1 .. Len(asked) :
           asked'[k] = asked[k] /\ Pieces(asked', k) = Pieces(asked, k) /\ Part(asked', k) = Part(asked, k)
  BY AskGrows
<1>2. /\ UNCHANGED <<mode, pc, served, pos, call, sock, got>>
      /\ asked # <<>> => Counted(Len(asked))
  BY DEF Ask, worker
<1>3. /\ served \in Nat /\ Len(asked) \in Nat /\ served <= Len(asked)
      /\ served > 0 => served \in 1 .. Len(asked)
      /\ got \in Seq(Units) /\ sock \in Seq(Units) /\ call.todo \in Seq(Units)
      /\ Stream \in Seq(Units) /\ Line \in Seq(Units)
  BY Numbers
<1>4. /\ served = Len(asked) /\ Idle /\ sock = <<>>
      /\ served > 0 => \A i \in 0 .. Pieces(asked, served) :
                         Unit(served, i, Part(asked, served)) \in Range(got)
  <2>1. CASE asked = <<>>
    <3>1. served = 0
      BY <1>3, <2>1
    <3>2. Idle
      BY <3>1 DEF CallShape
    <3>3. sock = <<>>
      <4>1. Len(Line) = 0
        <5> SUFFICES ASSUME Len(Line) # 0  PROVE FALSE
          OBVIOUS
        <5>1. 1 \in 1 .. Len(Line)
          BY <1>3
        <5>2. Owned(Line[1], asked, served)
          BY <5>1 DEF Connected, Ordered
        <5> QED  BY <3>1, <5>2 DEF Owned
      <4>2. /\ Len(Line) = Len(Stream) + Len(call.todo) /\ Len(Stream) = Len(got) + Len(sock)
            /\ Len(got) \in Nat /\ Len(sock) \in Nat /\ Len(call.todo) \in Nat
        BY <1>3, Concatenation DEF Line, Stream
      <4>3. \A a, b, c \in Nat : (a + b) + c = 0 => b = 0
        OBVIOUS
      <4>4. Len(sock) = 0
        BY <4>1, <4>2, <4>3, Zenon
      <4> QED  BY <1>3, <4>4
    <3>4. ~(served > 0) /\ served = Len(asked)
      BY <2>1, <3>1
    <3> QED  BY <3>2, <3>3, <3>4
  <2>2. CASE asked # <<>>
    <3>1. Len(asked) > 0
      <4>1. asked \in Seq([size : Sizes, keep : BOOLEAN])
        BY DEF TypeOK
      <4> QED  BY <2>2, <4>1
    <3> QED  BY <1>2, <2>2, <3>1, AllRead
  <2> QED  BY <2>1, <2>2
<1>5. Line' = Line /\ Stream' = Stream
  BY <1>2 DEF Line, Stream
<1>6. Ordered(Line', asked', served', mode')
  <2>1. \A k \in 1 .. served : asked'[k] = asked[k]
    BY <1>1, <1>3
  <2>2. Ordered(Line, asked', served, mode)
    <3>1. Ordered(Line, asked, served, mode) /\ served <= served
      BY <1>3 DEF Connected
    <3> QED  BY <1>3, <2>1, <3>1, OrderedGrows, Zenon
  <2> QED  BY <1>2, <1>5, <2>2
<1>7. Idle' /\ ~First' /\ ~First /\ pc' \notin {"body", "errHeader", "errBody"}
  BY <1>2, <1>4 DEF Idle, First
<1>8. served > 0 => Reach' = Pieces(asked, served) /\ Reach = Pieces(asked, served)
  <2>1. pc # "body" /\ pc # "errBody"
    BY <1>4 DEF Idle
  <2>2. served > 0 => Pieces(asked', served) = Pieces(asked, served)
    BY <1>1, <1>3
  <2>3. served > 0 => Reach' = Pieces(asked', served)
    BY <1>2, <1>7, <2>1 DEF Reach
  <2>4. Reach = Pieces(asked, served)
    BY <1>7, <2>1 DEF Reach
  <2> QED  BY <2>2, <2>3, <2>4
<1>9. ErrorOnlyMissing'
  BY <1>7 DEF ErrorOnlyMissing
<1>10. Waited'
  <2>1. served' + 1 >= Len(asked')
    BY <1>1, <1>2, <1>3, <1>4
  <2>2. sock' = <<>>
    BY <1>2, <1>4
  <2>3. ASSUME NEW k \in 1 .. served', NEW i \in 0 .. Pieces(asked', k)
        PROVE  Unit(k, i, Part(asked', k)) \in Range(got')
    <3>1. k \in 1 .. Len(asked) /\ k \in 1 .. served
      BY <1>2, <1>3
    <3>2. Pieces(asked', k) = Pieces(asked, k) /\ Part(asked', k) = Part(asked, k)
      BY <1>1, <3>1
    <3>3. CASE k < Len(asked)
      BY <1>2, <3>1, <3>2, <3>3 DEF Connected, Waited
    <3>4. CASE ~(k < Len(asked))
      <4>1. k = served /\ served > 0
        BY <1>3, <1>4, <3>1, <3>4
      <4> QED  BY <1>2, <1>4, <3>2, <4>1
    <3> QED  BY <3>3, <3>4
  <2> QED  BY <1>7, <2>1, <2>2, <2>3 DEF Waited
<1>11. CameTo'
  <2>1. served > 0 => Reach' - Len(call'.todo) = Reach - Len(call.todo)
    BY <1>2, <1>8
  <2> QED  BY <1>2, <1>5, <1>7, <2>1 DEF CameTo, Connected
<1>12. Fits'
  <2> SUFFICES ASSUME served > 0, Pieces(asked', served) < CAP
               PROVE  /\ Len(sock) + Len(call.todo) <= Reach' + 1
                      /\ \A i \in 0 .. Reach' : Unit(served, i, Part(asked', served)) \in Range(Line)
    BY <1>2, <1>5 DEF Fits
  <2>1. Pieces(asked', served) = Pieces(asked, served) /\ Part(asked', served) = Part(asked, served)
    BY <1>1, <1>3
  <2>2. Fits
    BY DEF Connected
  <2> QED  BY <1>8, <2>1, <2>2 DEF Fits
<1> QED  BY <1>6, <1>9, <1>10, <1>11, <1>12 DEF Connected

\* The client reads.
LEMMA ReadsConnected ==
  ASSUME TypeOK, CallShape, Connected, ClientReads
  PROVE  Connected'
<1>1. /\ sock # <<>> /\ got' = Append(got, Head(sock)) /\ sock' = Tail(sock)
      /\ UNCHANGED <<mode, pc, served, pos, call, asked>>
  BY DEF ClientReads, worker
<1>2. got \in Seq(Units) /\ sock \in Seq(Units) /\ Len(sock) \in Nat /\ served \in Nat
      /\ call.todo \in Seq(Units) /\ Len(call.todo) \in Nat
  BY Numbers
<1>3. Stream' = Stream /\ Len(sock') <= Len(sock) /\ Len(sock') \in Nat
  <2>1. Append(got, Head(sock)) \o Tail(sock) = got \o sock /\ Len(Tail(sock)) <= Len(sock)
    BY <1>1, <1>2, ReadKeeps
  <2>2. Len(Tail(sock)) \in Nat
    BY <1>1, <1>2
  <2> QED  BY <1>1, <2>1, <2>2 DEF Stream
<1>4. Line' = Line
  BY <1>1, <1>3 DEF Line
<1>5. /\ Reach' = Reach /\ First' = First /\ Idle' = Idle
      /\ Pieces(asked, served)' = Pieces(asked, served)
      /\ Part(asked, served)' = Part(asked, served)
  BY <1>1 DEF Reach, First, Idle, Pieces, Part
<1>6. Waited'
  <2>1. Waited
    BY DEF Connected
  <2>2. ~First /\ ~(served < Len(asked))
    BY <1>1, <2>1 DEF Waited
  <2>3. \A u : u \in Range(got) => u \in Range(got')
    <3>1. Head(sock) \in Units /\ <<Head(sock)>> \in Seq(Units)
      BY <1>1, <1>2
    <3>2. got' = got \o <<Head(sock)>>
      BY <1>1, <1>2, <3>1
    <3>3. Range(got \o <<Head(sock)>>) = Range(got) \cup Range(<<Head(sock)>>)
      BY <1>2, <3>1, RangeConcatenation, Zenon
    <3> QED  BY <3>2, <3>3
  <2>4. ~First' /\ ~(served' < Len(asked')) /\ served' + 1 >= Len(asked')
    BY <1>1, <1>5, <2>1, <2>2 DEF Waited
  <2>5. \A k \in 1 .. served' : k < Len(asked') =>
          \A i \in 0 .. Pieces(asked', k) : Unit(k, i, Part(asked', k)) \in Range(got')
    BY <1>1, <2>1, <2>3 DEF Waited, Pieces, Part
  <2> QED  BY <2>4, <2>5 DEF Waited
<1>7. CameTo'
  BY <1>1, <1>3, <1>5 DEF Connected, CameTo
<1>8. Fits'
  <2> SUFFICES ASSUME served > 0, Pieces(asked, served) < CAP
               PROVE  /\ Len(sock') + Len(call.todo) <= Reach + 1
                      /\ \A i \in 0 .. Reach : Unit(served, i, Part(asked, served)) \in Range(Line)
    BY <1>1, <1>4, <1>5 DEF Fits
  <2>1. /\ Len(sock) + Len(call.todo) <= Reach + 1
        /\ \A i \in 0 .. Reach : Unit(served, i, Part(asked, served)) \in Range(Line)
    BY DEF Connected, Fits
  <2>2. Reach \in Int
    BY Numbers, Sized DEF Reach
  <2>3. \A a, b, c \in Nat : a <= b /\ b + c <= Reach + 1 => a + c <= Reach + 1
    BY <2>2
  <2> QED  BY <1>2, <1>3, <2>1, <2>3, Zenon
<1>9. ErrorOnlyMissing'
  BY <1>1 DEF Connected, ErrorOnlyMissing
<1> QED  BY <1>1, <1>4, <1>6, <1>7, <1>8, <1>9 DEF Connected

\* The worker finds no request.
LEMMA DeafConnected ==
  ASSUME Connected, UNCHANGED <<mode, served, pos, call, sock, asked, got>>,
         pc' = pc \/ (pc = "recv" /\ pc' = "closed")
  PROVE  Connected'
<1>1. Line' = Line /\ Stream' = Stream
  BY DEF Line, Stream
<1>2. /\ Idle' = Idle /\ First' = First /\ Reach' = Reach
      /\ pc' \in {"errHeader", "errBody"} => pc \in {"errHeader", "errBody"}
  BY DEF Idle, First, Reach, Pieces
<1>3. ErrorOnlyMissing' /\ Waited'
  BY <1>2 DEF Connected, ErrorOnlyMissing, Waited, Pieces, Part
<1>4. CameTo' /\ Fits'
  BY <1>1, <1>2 DEF Connected, CameTo, Fits, Pieces, Part
<1> QED  BY <1>1, <1>3, <1>4 DEF Connected

-----------------------------------------------------------------------------
(***************************************************************************)
(* The invariant, and what follows from it.                                *)
(***************************************************************************)

LEMMA InitInv == Init => IInv
<1> SUFFICES ASSUME Init  PROVE IInv
  OBVIOUS
<1>1. /\ mode \in {"blocking", "restarted", "select"}
      /\ pc = "recv" /\ served = 0 /\ pos = 0 /\ call = NoCall
      /\ sock = <<>> /\ asked = <<>> /\ got = <<>> /\ reads = TRUE /\ reset = FALSE
  BY DEF Init
<1>2. CAP \in Nat /\ MaxRequests \in Nat
  BY TransferAssumption
<1>3. TypeOK
  <2>1. /\ <<>> \in Seq(Units) /\ <<>> \in Seq([size : Sizes, keep : BOOLEAN])
        /\ Len(<<>>) = 0 /\ 0 <= CAP /\ 0 <= MaxRequests /\ 0 \in 0 .. 0
    BY <1>2
  <2>2. reads \in BOOLEAN /\ reset \in BOOLEAN
    BY <1>1
  <2>3. pc \in {"recv", "header", "body", "errHeader", "errBody", "closed"}
    BY <1>1
  <2> QED  BY <1>1, <2>1, <2>2, <2>3, NoCallTyped, Zenon DEF TypeOK
<1>4. CallShape
  BY <1>1, NoCallTyped DEF CallShape, Idle
<1>5. Line = <<>>
  BY <1>1 DEF Line, Stream, NoCall
<1>6. Connected
  <2>1. Ordered(Line, asked, served, mode)
    BY <1>5 DEF Ordered
  <2>2. ErrorOnlyMissing
    BY <1>1 DEF ErrorOnlyMissing
  <2>3. Waited
    BY <1>1 DEF Waited, Idle
  <2>4. CameTo /\ Fits
    BY <1>1 DEF CameTo, Fits
  <2> QED  BY <2>1, <2>2, <2>3, <2>4 DEF Connected
<1> QED  BY <1>1, <1>3, <1>4, <1>6 DEF IInv

\* A step of a connection that has not been reset, and is not by it.
LEMMA ConnectedStep ==
  ASSUME TypeOK, CallShape, TypeOK', CallShape', Connected, ~reset, Next, ~reset'
  PROVE  Connected'
<1> USE DEF worker, client
<1>1. CASE Copy
  <2> DEFINE n == IF Len(call.todo) < Room THEN Len(call.todo) ELSE Room
  <2>1. /\ Sending /\ sock' = sock \o SubSeq(call.todo, 1, n) /\ n > 0
        /\ UNCHANGED <<mode, asked, got>>
    BY <1>1 DEF Copy
  <2>2. \/ (n = Len(call.todo) \/ mode = "select") /\ Succeeds
        \/ /\ n # Len(call.todo)
           /\ call' = [todo |-> SubSeq(call.todo, n + 1, Len(call.todo)), copied |-> TRUE]
           /\ UNCHANGED <<pc, served, pos>>
    BY <1>1 DEF Copy
  <2>3. /\ Pieces(asked, served) < CAP => Len(call.todo) <= Room
        /\ First => Len(call.todo) <= Room
        /\ Room \in Int /\ Len(call.todo) \in Nat
    BY <2>1, SmallHasRoom
  <2>4. n \in 1 .. Len(call.todo) /\ n \in 0 .. Len(call.todo) /\ n \in Nat /\ n <= Room
    BY <2>1, <2>3
  <2>5. Len(call.todo) <= Room => n = Len(call.todo)
    BY <2>3
  <2> HIDE DEF n
  <2>6. Stream' = SubSeq(Line, 1, Len(Stream) + n)
    BY <2>1, <2>4, StreamPrefix
  <2>7. Len(sock') = Len(sock) + n
    BY <2>1, <2>4, CopySock
  <2>8. CASE (n = Len(call.todo) \/ mode = "select") /\ Succeeds
    <3>1. First => n > 0 /\ Succeeds
      BY <2>1, <2>8
    <3>2. mode = "blocking" \/ Pieces(asked, served) < CAP => n = Len(call.todo) /\ Succeeds
      BY <2>3, <2>5, <2>8
    <3> QED  BY <2>1, <2>4, <2>6, <2>7, <2>8, <3>1, <3>2, SendConnected
  <2>9. CASE /\ n # Len(call.todo)
             /\ call' = [todo |-> SubSeq(call.todo, n + 1, Len(call.todo)), copied |-> TRUE]
             /\ UNCHANGED <<pc, served, pos>>
    <3>1. n > 0 /\ n < Len(call.todo)
      BY <2>3, <2>4, <2>9
    <3>2. Waits(n)
      BY <2>1, <2>9 DEF Waits
    <3> QED  BY <2>1, <2>4, <3>1, <3>2, WaitConnected
  <2> QED  BY <2>2, <2>8, <2>9
<1>2. CASE WouldBlock \/ Interrupted
  <2>1. /\ Sending /\ Room = 0 /\ mode # "blocking" /\ (Succeeds \/ Fails)
        /\ UNCHANGED <<mode, sock, asked, got>>
    BY <1>2 DEF WouldBlock, Interrupted, Cut
  <2>2. ~First /\ ~(Pieces(asked, served) < CAP)
    <3>1. /\ Pieces(asked, served) < CAP => Len(call.todo) <= 0
          /\ First => Len(call.todo) <= 0
          /\ Len(call.todo) \in Nat /\ Len(call.todo) > 0
      BY <2>1, SmallHasRoom
    <3>2. \A x \in Nat : x > 0 => ~(x <= 0)
      OBVIOUS
    <3> QED  BY <3>1, <3>2, Zenon
  <2>3. 0 \in 0 .. Len(call.todo) /\ Stream' = SubSeq(Line, 1, Len(Stream) + 0) /\ Len(sock') = Len(sock) + 0
    BY <2>1, SockKept
  <2>4. /\ First => 0 > 0 /\ Succeeds
        /\ mode = "blocking" \/ Pieces(asked, served) < CAP => 0 = Len(call.todo) /\ Succeeds
    BY <2>1, <2>2
  <2> QED  BY <2>1, <2>3, <2>4, SendConnected
<1>3. CASE Broken
  BY <1>3 DEF Broken
<1>4. CASE Receive
  BY <1>4, ReceiveConnected
<1>5. CASE RecvFails
  BY <1>5, DeafConnected DEF RecvFails
<1>6. CASE ClientReads
  BY <1>6, ReadsConnected
<1>7. CASE TurnDeaf
  BY <1>7, DeafConnected DEF TurnDeaf
<1>8. CASE Reset
  BY <1>8 DEF Reset
<1>9. ASSUME NEW size \in Sizes, NEW keep \in BOOLEAN, Ask(size, keep)  PROVE Connected'
  BY <1>9, AskConnected
<1> QED  BY <1>1, <1>2, <1>3, <1>4, <1>5, <1>6, <1>7, <1>8, <1>9
         DEF Next, WorkerStep, ClientStep

\* After a reset nothing is copied any more.
LEMMA ResetStep ==
  ASSUME TypeOK, CallShape, WasReset, reset, Next
  PROVE  WasReset'
<1> USE DEF worker, client
<1>1. CASE Broken
  <2>1. Sending /\ (Succeeds \/ Fails) /\ UNCHANGED <<mode, sock, asked, got>>
    BY <1>1 DEF Broken, Cut
  <2>2. served' = served
    BY <2>1, SendReturns
  <2> QED  BY <2>1, <2>2 DEF WasReset
<1>2. CASE RecvFails \/ TurnDeaf
  BY <1>2 DEF RecvFails, TurnDeaf, WasReset
<1>3. CASE ClientReads
  BY <1>3 DEF ClientReads, WasReset
<1>4. ~Copy /\ ~WouldBlock /\ ~Interrupted /\ ~Receive /\ ~Reset
  BY DEF Copy, WouldBlock, Interrupted, Receive, Reset
<1>5. \A size \in Sizes, keep \in BOOLEAN : ~Ask(size, keep)
  BY DEF Ask
<1> QED  BY <1>1, <1>2, <1>3, <1>4, <1>5 DEF Next, WorkerStep, ClientStep

LEMMA StepInv == IInv /\ [Next]_vars => IInv'
<1> SUFFICES ASSUME IInv, [Next]_vars  PROVE IInv'
  OBVIOUS
<1> USE DEF worker, client
<1>1. TypeOK /\ CallShape /\ TypeOK' /\ CallShape'
  BY TypeStep DEF IInv
<1>2. CASE UNCHANGED vars
  <2>1. UNCHANGED <<mode, pc, served, pos, call, sock, asked, got, reset>>
    BY <1>2 DEF vars
  <2>2. ~reset => Connected'
    BY <2>1, DeafConnected DEF IInv
  <2>3. reset => WasReset'
    BY <2>1 DEF IInv, WasReset
  <2> QED  BY <1>1, <2>1, <2>2, <2>3 DEF IInv
<1>3. CASE Next
  <2>1. reset \in BOOLEAN /\ reset' \in BOOLEAN
    BY <1>1 DEF TypeOK
  <2>2. CASE ~reset /\ ~reset'
    <3>1. Connected'
      BY <1>1, <1>3, <2>2, ConnectedStep DEF IInv
    <3> QED  BY <1>1, <2>2, <3>1 DEF IInv
  <2>3. CASE ~reset /\ reset'
    <3>1. Reset
      BY <1>3, <2>3 DEF Next, WorkerStep, ClientStep, Copy, WouldBlock, Interrupted, Broken,
                        Receive, RecvFails, ClientReads, TurnDeaf, Ask
    <3>2. sock' = <<>> /\ UNCHANGED <<mode, served, asked, got>>
      BY <3>1 DEF Reset
    <3>3. Ordered(got, asked, served, mode)
      BY <1>1, <2>3, GotOrdered DEF IInv, Connected
    <3> QED  BY <1>1, <2>3, <3>2, <3>3 DEF IInv, WasReset
  <2>4. CASE reset
    <3>1. WasReset'
      BY <1>1, <1>3, <2>4, ResetStep DEF IInv
    <3>2. reset'
      BY <1>3, <2>4 DEF Next, WorkerStep, ClientStep, Copy, WouldBlock, Interrupted, Broken,
                        Receive, RecvFails, ClientReads, TurnDeaf, Reset, Ask
    <3> QED  BY <1>1, <3>1, <3>2 DEF IInv
  <2> QED  BY <2>1, <2>2, <2>3, <2>4
<1> QED  BY <1>2, <1>3

THEOREM Invariance == Spec => []IInv
  BY InitInv, StepInv, PTL DEF Spec

\* The type of the state, for every number of requests and every size.
THEOREM TypeCorrect == Spec => []TypeOK
<1>1. IInv => TypeOK
  BY DEF IInv
<1> QED  BY Invariance, <1>1, PTL

\* What has been copied and not lost is ordered, reset or not.
LEMMA StreamOrdered == IInv => Ordered(Stream, asked, served, mode)
<1> SUFFICES ASSUME IInv  PROVE Ordered(Stream, asked, served, mode)
  OBVIOUS
<1>1. /\ TypeOK /\ got \in Seq(Units) /\ Stream \in Seq(Units) /\ Line \in Seq(Units)
      /\ call.todo \in Seq(Units) /\ served \in Nat
  BY Numbers DEF IInv
<1>2. CASE ~reset
  <2>1. Ordered(Line, asked, served, mode)
    BY <1>2 DEF IInv, Connected
  <2>2. Len(Stream) \in 0 .. Len(Line) /\ SubSeq(Line, 1, Len(Stream)) = Stream
    <3>1. Len(Stream) \in Nat /\ Len(call.todo) \in Nat /\ Len(Line) = Len(Stream) + Len(call.todo)
      BY <1>1, Concatenation DEF Line
    <3>2. \A a, b \in Nat : a \in 0 .. a + b /\ 0 \in 0 .. b /\ a + 0 = a
      OBVIOUS
    <3>3. Stream \o SubSeq(call.todo, 1, 0) = SubSeq(Line, 1, Len(Stream) + 0)
      BY <1>1, <3>1, <3>2, ConcatPrefix DEF Line
    <3>4. SubSeq(call.todo, 1, 0) = <<>> /\ Stream \o <<>> = Stream
      BY <1>1
    <3> QED  BY <3>1, <3>2, <3>3, <3>4, Zenon
  <2> QED  BY <1>1, <2>1, <2>2, OrderedPrefix, Zenon
<1>3. CASE reset
  <2>1. sock = <<>> /\ Ordered(got, asked, served, mode)
    BY <1>3 DEF IInv, WasReset
  <2>2. Stream = got
    BY <1>1, <2>1 DEF Stream
  <2> QED  BY <2>1, <2>2
<1> QED  BY <1>2, <1>3

\* For every set of sizes, chunk and buffer: between two headers a client sees
\* pieces of the file the header announces, in their order, none twice
\* (http.c:123-136).
THEOREM OneResponse == Spec => []OneResponseAtATime
<1>1. IInv => OneResponseAtATime
  <2> SUFFICES ASSUME IInv, NEW j \in DOMAIN Stream
               PROVE  /\ Stream[j] \in Range(Response(Stream[j].k))
                      /\ j = 1 => Stream[j].k = 1 /\ Stream[j].i = 0
                      /\ j > 1 => Later(Stream[j - 1], Stream[j])
    BY DEF OneResponseAtATime
  <2>1. TypeOK /\ Stream \in Seq(Units) /\ Len(asked) \in Nat /\ served <= Len(asked) /\ served \in Nat
    BY Numbers DEF IInv
  <2>2. Ordered(Stream, asked, served, mode)
    BY StreamOrdered
  <2>3. j \in 1 .. Len(Stream) /\ Len(Stream) \in Nat
    BY <2>1
  <2>4. Stream[j] \in Range(Response(Stream[j].k))
    <3> DEFINE u == Stream[j]
    <3>1. Owned(u, asked, served) /\ u \in Units
      BY <2>1, <2>2, <2>3, ElementOfSeq DEF Ordered
    <3> HIDE DEF u
    <3>2. u.k \in 1 .. Len(asked) /\ u.i \in 0 .. Pieces(asked, u.k) /\ u.part = Part(asked, u.k)
      BY <2>1, <3>1 DEF Owned
    <3>3. /\ Pieces(asked, u.k) \in Nat /\ Length(u.k) = Pieces(asked, u.k)
      BY <2>1, <3>2, Sized
    <3>4. u.i + 1 \in 1 .. Length(u.k) + 1 /\ (u.i + 1) - 1 = u.i
      BY <3>2, <3>3
    <3>5. u = Unit(u.k, u.i, u.part)
      BY <3>1 DEF Unit, Units
    <3>6. Response(u.k) = [i \in 1 .. Length(u.k) + 1 |-> Unit(u.k, i - 1, Part(asked, u.k))]
      BY DEF Response, Part, File
    <3>7. u.i + 1 \in DOMAIN Response(u.k) /\ Response(u.k)[u.i + 1] = u
      BY <3>2, <3>4, <3>5, <3>6
    <3> QED  BY <3>7, Zenon DEF Range, u
  <2>5. j = 1 => Stream[j].k = 1 /\ Stream[j].i = 0
    BY <2>2, <2>3 DEF Ordered
  <2>6. j > 1 => Later(Stream[j - 1], Stream[j])
    <3> SUFFICES ASSUME j > 1  PROVE Later(Stream[j - 1], Stream[j])
      OBVIOUS
    <3>1. j - 1 \in 1 .. Len(Stream) - 1 /\ (j - 1) + 1 = j
      BY <2>3
    <3>2. Follows(Stream[j - 1], Stream[j], asked, mode)
      BY <2>2, <3>1 DEF Ordered
    <3> QED  BY <3>2 DEF Follows, Later
  <2> QED  BY <2>4, <2>5, <2>6
<1> QED  BY Invariance, <1>1, PTL

\* On a blocking socket every piece follows the one before it, across the
\* responses of a connection (http.c:130-136).
THEOREM BlockingIsExact == Spec => []BlockingExact
<1>1. IInv => BlockingExact
  <2> SUFFICES ASSUME IInv, mode = "blocking", NEW j \in DOMAIN Stream, j > 1
               PROVE  RightAfter(Stream[j - 1], Stream[j])
    BY DEF BlockingExact
  <2>1. TypeOK /\ Stream \in Seq(Units) /\ Len(asked) \in Nat /\ served <= Len(asked) /\ served \in Nat
    BY Numbers DEF IInv
  <2>2. Ordered(Stream, asked, served, mode)
    BY StreamOrdered
  <2>3. j \in 1 .. Len(Stream) /\ Len(Stream) \in Nat
    BY <2>1
  <2>4. j - 1 \in 1 .. Len(Stream) - 1 /\ (j - 1) + 1 = j /\ j - 1 \in 1 .. Len(Stream)
    BY <2>3
  <2>5. Follows(Stream[j - 1], Stream[j], asked, mode) /\ Owned(Stream[j - 1], asked, served)
    BY <2>2, <2>4 DEF Ordered
  <2>6. Stream[j - 1].k \in 1 .. Len(asked)
    BY <2>1, <2>5 DEF Owned
  <2>7. Length(Stream[j - 1].k) = Pieces(asked, Stream[j - 1].k)
    BY <2>1, <2>6, Sized
  <2> QED  BY <2>5, <2>7 DEF Follows, RightAfter
<1> QED  BY Invariance, <1>1, PTL

\* A response that the send buffer can hold arrives whole, whatever the mode and
\* whether or not the client reads, unless the client resets the connection.
THEOREM SmallArrives == Spec => []SmallFileWhole
<1>1. IInv => SmallFileWhole
  <2> SUFFICES ASSUME IInv, Idle, ~reset, NEW k \in 1 .. served, Length(k) < CAP
               PROVE  Range(Response(k)) \subseteq Range(Stream)
    BY DEF SmallFileWhole, Idle
  <2>1. /\ TypeOK /\ Stream \in Seq(Units) /\ Len(asked) \in Nat /\ served <= Len(asked)
        /\ served \in Nat /\ got \in Seq(Units) /\ sock \in Seq(Units) /\ call.todo \in Seq(Units)
    BY Numbers DEF IInv
  <2>2. Connected /\ CallShape
    BY DEF IInv
  <2>3. k \in 1 .. Len(asked) /\ Pieces(asked, k) \in Nat /\ Length(k) = Pieces(asked, k)
    BY <2>1, Sized
  <2>4. Line = Stream
    <3>1. Len(call.todo) = 0
      BY <2>2, NoCallTyped DEF CallShape
    <3> QED  BY <2>1, <3>1, ConcatEmpty DEF Line
  <2>5. ASSUME NEW i \in 0 .. Pieces(asked, k)  PROVE Unit(k, i, Part(asked, k)) \in Range(Stream)
    <3>1. CASE k < Len(asked)
      <4>1. Unit(k, i, Part(asked, k)) \in Range(got)
        BY <2>2, <3>1 DEF Connected, Waited
      <4> QED  BY <2>1, <4>1, RangeConcatenation DEF Stream
    <3>2. CASE ~(k < Len(asked))
      <4>1. k = served /\ served > 0
        BY <2>1, <3>2
      <4>2. Reach = Pieces(asked, served)
        BY DEF Idle, Reach, First
      <4> QED  BY <2>2, <2>3, <2>4, <4>1, <4>2 DEF Connected, Fits
    <3> QED  BY <3>1, <3>2
  <2>6. ASSUME NEW u \in Range(Response(k))  PROVE u \in Range(Stream)
    <3>1. Response(k) = [i \in 1 .. Length(k) + 1 |-> Unit(k, i - 1, Part(asked, k))]
      BY DEF Response, Part, File
    <3>2. PICK x \in 1 .. Length(k) + 1 : u = Unit(k, x - 1, Part(asked, k))
      BY <2>6, <3>1 DEF Range
    <3>3. x - 1 \in 0 .. Pieces(asked, k)
      BY <2>3
    <3> QED  BY <2>5, <3>2, <3>3
  <2> QED  BY <2>6
<1> QED  BY Invariance, <1>1, PTL

=============================================================================

------------------------- MODULE RequestTextProofs -------------------------
(***************************************************************************)
(* Proofs about the three readers of a request, for every set of requests  *)
(* and of binary data, every split and every width of int.                 *)
(***************************************************************************)
EXTENDS RequestText, SequenceTheorems, WellFoundedInduction, TLAPS

-----------------------------------------------------------------------------
(***************************************************************************)
(* Operators on sequences.                                                 *)
(***************************************************************************)

\* A set of indices that is not empty has a least one.
LEMMA LeastIndex ==
  ASSUME NEW n \in Nat, NEW I \in SUBSET (1 .. n), I # {}
  PROVE  Min(I) \in I /\ \A j \in I : Min(I) <= j
<1> DEFINE R == OpToRel(<, Nat)
<1>1. I \subseteq Nat
  OBVIOUS
<1>2. IsWellFoundedOn(R, Nat)
  BY NatLessThanWellFounded
<1>3. \A i, j \in Nat : <<j, i>> \in R <=> j < i
  BY DEF OpToRel
<1> HIDE DEF R
<1>5. PICK i \in I : \A j \in I : <<j, i>> \notin R
  BY <1>1, <1>2, WFMin
<1>6. \A j \in I : ~(j < i)
  BY <1>1, <1>3, <1>5, Zenon
<1>4. \A j \in I : i <= j
  BY <1>1, <1>6
<1> QED BY <1>4 DEF Min

\* A beginning of a beginning.
LEMMA PrefixOfPrefix ==
  ASSUME NEW S, NEW s \in Seq(S), NEW n \in 0 .. Len(s), NEW m \in 0 .. n
  PROVE  /\ SubSeq(s, 1, n) \in Seq(S) /\ Len(SubSeq(s, 1, n)) = n
         /\ \A i \in 1 .. n : SubSeq(s, 1, n)[i] = s[i]
         /\ SubSeq(SubSeq(s, 1, n), 1, m) = SubSeq(s, 1, m)
<1>0. Len(s) \in Nat /\ n \in Nat /\ m \in Nat /\ n <= Len(s) /\ m <= n
      /\ \A i \in 1 .. Len(s) : s[i] \in S
  OBVIOUS
<1>1. \A k \in 0 .. Len(s) :
        /\ SubSeq(s, 1, k) \in Seq(S) /\ Len(SubSeq(s, 1, k)) = k
        /\ \A i \in 1 .. k : SubSeq(s, 1, k)[i] = s[i]
  BY <1>0, SubSeqProperties
<1> DEFINE t == SubSeq(s, 1, n)
           u == SubSeq(t, 1, m)
           v == SubSeq(s, 1, m)
<1>2. /\ t \in Seq(S) /\ Len(t) = n /\ \A i \in 1 .. n : t[i] = s[i]
      /\ v \in Seq(S) /\ Len(v) = m /\ \A i \in 1 .. m : v[i] = s[i]
  BY <1>0, <1>1
<1> HIDE DEF t, v
<1>3. u \in Seq(S) /\ Len(u) = m /\ \A i \in 1 .. m : u[i] = t[i]
  <2>1. \A i \in 1 .. m : t[i] \in S
    BY <1>0, <1>2
  <2> QED BY <1>0, <2>1, SubSeqProperties
<1> HIDE DEF u
<1>4. u = v
  <2>1. \A i \in 1 .. Len(u) : u[i] = v[i]
    BY <1>0, <1>2, <1>3
  <2> QED BY <1>2, <1>3, <2>1, SeqEqual
<1> QED BY <1>2, <1>4 DEF t, u, v

\* What strlen leaves of a body is a beginning of it, without a zero byte.
LEMMA BodyIsPrefix ==
  ASSUME NEW r \in Texts, NEW n \in 0 .. Len(r.body)
  PROVE  /\ r.body \in Seq(BodyBytes) /\ Len(r.body) \in Nat
         /\ \E m \in 0 .. n : Body(r, n) = SubSeq(r.body, 1, m)
         /\ "nul" \notin Range(SubSeq(r.body, 1, n)) => Body(r, n) = SubSeq(r.body, 1, n)
<1> DEFINE b == SubSeq(r.body, 1, n)
           I == {i \in 1 .. Len(b) : b[i] = "nul"}
<1>1. r.body \in Seq(BodyBytes) /\ Len(r.body) \in Nat
  BY TextAssumption DEF Requests
<1>2. b \in Seq(BodyBytes) /\ Len(b) = n
  BY <1>1, PrefixOfPrefix
<1>3. CASE "nul" \in Range(b)
  <2>1. I # {}
    BY <1>2, <1>3 DEF Range
  <2>2. Min(I) \in 1 .. n
    <3>1. n \in Nat /\ I \in SUBSET (1 .. n)
      BY <1>2
    <3> HIDE DEF I
    <3>2. Min(I) \in I
      BY <2>1, <3>1, LeastIndex
    <3> QED BY <3>1, <3>2
  <2>3. Body(r, n) = SubSeq(b, 1, Min(I) - 1)
    BY <1>3, <2>1 DEF Body, SelectInSeq
  <2> DEFINE k == Min(I)
             m == k - 1
  <2> HIDE DEF k
  <2>6. k \in 1 .. n
    BY <2>2 DEF k
  <2>4. m \in 0 .. n
    BY <2>6
  <2> HIDE DEF m
  <2>5. Body(r, n) = SubSeq(r.body, 1, m)
    <3>1. Body(r, n) = SubSeq(b, 1, m)
      BY <2>3 DEF m, k
    <3>2. SubSeq(b, 1, m) = SubSeq(r.body, 1, m)
      BY <1>1, <2>4, PrefixOfPrefix
    <3> QED BY <3>1, <3>2
  <2> QED BY <1>1, <1>3, <2>4, <2>5
<1>4. CASE "nul" \notin Range(b)
  BY <1>1, <1>4 DEF Body
<1> QED BY <1>3, <1>4

\* strlen leaves the first byte, unless it is zero.
LEMMA CutHead ==
  ASSUME NEW d \in Seq(Byte), Cut(d) # <<>>
  PROVE  Len(Cut(d)) >= 1 /\ Cut(d)[1] = d[1] /\ d # <<>>
<1> DEFINE I == {i \in 1 .. Len(d) : d[i] = 0}
<1>0. Len(d) \in Nat /\ DOMAIN d = 1 .. Len(d)
  OBVIOUS
<1>1. CASE 0 \in Range(d)
  <2>1. I # {}
    BY <1>0, <1>1 DEF Range
  <2>2. Min(I) \in 1 .. Len(d)
    <3>1. I \in SUBSET (1 .. Len(d))
      OBVIOUS
    <3> HIDE DEF I
    <3>2. Min(I) \in I
      BY <1>0, <2>1, <3>1, LeastIndex
    <3> QED BY <3>1, <3>2
  <2>3. Cut(d) = SubSeq(d, 1, Min(I) - 1)
    BY <1>1, <2>1 DEF Cut, SelectInSeq
  <2> DEFINE m == Min(I) - 1
  <2>6. m \in 0 .. Len(d) /\ Cut(d) = SubSeq(d, 1, m)
    BY <1>0, <2>2, <2>3
  <2> HIDE DEF m
  <2>4. Cut(d) \in Seq(Byte) /\ Len(Cut(d)) = m /\ \A i \in 1 .. m : Cut(d)[i] = d[i]
    BY <1>0, <2>6, PrefixOfPrefix
  <2>5. m >= 1
    BY <2>4, <2>6
  <2> QED BY <1>0, <2>4, <2>5, <2>6
<1>2. CASE 0 \notin Range(d)
  <2>1. Cut(d) = d
    BY <1>2 DEF Cut
  <2> QED BY <2>1
<1> QED BY <1>1, <1>2
-----------------------------------------------------------------------------
(***************************************************************************)
(* The inductive invariant.                                                *)
(***************************************************************************)

\* A verdict on data is that of the detectors on some number of bytes received.
Judged ==
  /\ kind = "none" => verdict = Waiting
  /\ kind = "data" =>
       \/ verdict.is \in {"waiting", "dropped"}
       \/ \E n \in 0 .. Len(text) : verdict = JudgeData(SubSeq(text, 1, n))

\* recvRequest goes on only while its test says that there is more to come.
Heard ==
  /\ kind = "none" => arrived = -1
  /\ kind = "text" /\ verdict.is = "waiting" /\ arrived >= 0 => ~Complete(text, arrived)

IInv == TypeOK /\ Judged /\ Heard

Verdicts ==
  [is : {"waiting", "dropped", "ignored", "400", "accepted"},
   handler : {"none", "get", "post", "head", "501"}, body : Seq(BodyBytes)]

\* The fields of a verdict that is not an acceptance.
LEMMA PlainVerdict ==
  ASSUME NEW is \in {"waiting", "dropped", "ignored", "400"}
  PROVE  /\ Verdict(is) \in Verdicts
         /\ Verdict(is).is = is /\ Verdict(is).body = <<>>
<1>1. <<>> \in Seq(BodyBytes)
  OBVIOUS
<1>2. Verdict(is) = [is |-> is, handler |-> "none", body |-> <<>>]
  BY DEF Verdict, Waiting
<1> QED BY <1>1, <1>2 DEF Verdicts

\* The verdict on a text.
LEMMA JudgeText ==
  ASSUME NEW r \in Texts, NEW n \in 0 .. Len(r.body)
  PROVE  Judge(r, n) \in Verdicts /\ Judge(r, n).is # "waiting"
<1> DEFINE b == Body(r, n)
<1>1. b \in Seq(BodyBytes)
  <2>1. PICK m \in 0 .. n : b = SubSeq(r.body, 1, m)
    BY BodyIsPrefix
  <2>2. r.body \in Seq(BodyBytes) /\ m \in 0 .. Len(r.body)
    BY BodyIsPrefix
  <2> QED BY <2>1, <2>2, PrefixOfPrefix
<1>2. Stored(r, b) \in Seq(BodyBytes)
  BY <1>1 DEF Stored
<1>3. Handler(r.method) \in {"none", "get", "post", "head", "501"}
  BY DEF Handler
<1>4. \/ Judge(r, n) = Verdict("ignored") \/ Judge(r, n) = Verdict("400")
      \/ Judge(r, n) = [is |-> "accepted", handler |-> Handler(r.method), body |-> Stored(r, b)]
  BY DEF Judge
<1> HIDE DEF b
<1>5. CASE Judge(r, n) = Verdict("ignored") \/ Judge(r, n) = Verdict("400")
  BY <1>5, PlainVerdict
<1>6. CASE Judge(r, n) = [is |-> "accepted", handler |-> Handler(r.method),
                          body |-> Stored(r, b)]
  BY <1>2, <1>3, <1>6 DEF Verdicts, b
<1> QED BY <1>4, <1>5, <1>6

\* The int that a length is read as is no greater than the length.
LEMMA IntBound ==
  ASSUME NEW n \in Nat
  PROVE  Int32(n) \in Int /\ Int32(n) <= n
<1> DEFINE M == 2 * IntLimit
           m == n % M
<1>1. IntLimit \in Nat /\ M \in Nat /\ M > 0
  BY TextAssumption
<1> HIDE DEF M
<1>2. m \in 0 .. M - 1
  BY <1>1
<1>3. m <= n
  BY <1>1
<1>4. Int32(n) = IF m >= IntLimit THEN m - M ELSE m
  BY DEF Int32, M
<1> HIDE DEF m
<1> QED BY <1>1, <1>2, <1>3, <1>4

\* A truthful request passes the test once all of its body is there: the length
\* that recvRequest reads is either that of the body, or has become a smaller one
\* or none.
LEMMA TruthComplete ==
  ASSUME NEW r \in Texts, Truthful(r)
  PROVE  Complete(r, Len(r.body))
<1> DEFINE n == Len(r.body)
           i == First(r, {"Content-Length", "X-Content-Length"})
<1>1. r.body \in Seq(BodyBytes) /\ n \in Nat /\ n > 0
  BY TextAssumption DEF Requests, Truthful
<1>2. Chunked(r) => \E j \in 1 .. n : r.body[j] = "last"
  BY <1>1 DEF Truthful, Range
<1>3. ContentLength(r) = -1 \/ ContentLength(r) = Int32(n)
  <2>1. CASE i = 0
    BY <2>1 DEF ContentLength
  <2>2. CASE i # 0
    <3>1. r.fields[i].number = n
      BY <2>2 DEF Truthful
    <3> HIDE DEF n
    <3>2. ~(r.fields[i].number < 0)
      BY <1>1, <3>1
    <3>3. ContentLength(r) = Int32(r.fields[i].number)
      BY <2>2, <3>2 DEF ContentLength
    <3> QED BY <3>1, <3>3
  <2> QED BY <2>1, <2>2
<1>4. Int32(n) \in Int /\ Int32(n) <= n
  BY <1>1, IntBound
<1> HIDE DEF n
<1>5. ContentLength(r) \in Int /\ ContentLength(r) <= n
  BY <1>1, <1>3, <1>4
<1>6. Complete(r, n)
  BY <1>1, <1>2, <1>5 DEF Complete
<1> QED BY <1>6 DEF n

\* The verdict on data: never an acceptance.
LEMMA JudgeBytes ==
  ASSUME NEW d
  PROVE  /\ JudgeData(d) \in Verdicts /\ JudgeData(d).body = <<>>
         /\ JudgeData(d).is \in {"dropped", "400", "ignored"}
         /\ JudgeData(d).is = "400" => Cut(d) # <<>> /\ IsText(Cut(d))
<1>1. \/ JudgeData(d) = Verdict("dropped") \/ JudgeData(d) = Verdict("ignored")
      \/ JudgeData(d) = Verdict("400") /\ Cut(d) # <<>> /\ Detect(Cut(d)) = "http"
  BY DEF JudgeData
<1>2. Cut(d) # <<>> /\ Detect(Cut(d)) = "http" => IsText(Cut(d))
  BY DEF Detect
<1> QED BY <1>1, <1>2, PlainVerdict

-----------------------------------------------------------------------------
(***************************************************************************)
(* The steps.                                                              *)
(***************************************************************************)

\* What is known of the text, or of the data.
LEMMA Lengths ==
  ASSUME TypeOK
  PROVE  /\ kind = "text" => /\ text \in Texts /\ Length = Len(text.body)
                             /\ Len(text.body) \in Nat
         /\ kind = "data" => /\ text \in Seq(Byte) /\ Length = Len(text)
                             /\ Len(text) \in Nat
         /\ kind = "none" => text = <<>> /\ Length = 0
         /\ kind \in {"none", "text", "data"}
         /\ Length \in Nat /\ arrived \in -1 .. Length /\ verdict \in Verdicts
<1>1. \A r \in Texts : Len(r.body) \in Nat
  BY TextAssumption DEF Requests
<1>2. \A d \in Datagrams : d \in Seq(Byte) /\ Len(d) \in Nat
  BY TextAssumption
<1>3. CASE kind = "none" /\ text = <<>>
  BY <1>3 DEF TypeOK, Length, Verdicts
<1>4. CASE kind = "text" /\ text \in Texts
  BY <1>1, <1>4 DEF TypeOK, Length, Verdicts
<1>5. CASE kind = "data" /\ text \in Datagrams
  BY <1>2, <1>5 DEF TypeOK, Length, Verdicts
<1> QED BY <1>3, <1>4, <1>5 DEF TypeOK

\* A step that leaves the request alone.
LEMMA SameText ==
  ASSUME TypeOK, UNCHANGED <<kind, text>>, arrived' \in -1 .. Length, verdict' \in Verdicts
  PROVE  TypeOK'
<1>1. Length' = Length
  BY DEF Length
<1> QED BY <1>1 DEF TypeOK, Verdicts

LEMMA Initial == Init => IInv
<1> SUFFICES ASSUME Init PROVE IInv
  OBVIOUS
<1>1. verdict = Waiting /\ verdict \in Verdicts
  BY DEF Init, Waiting, Verdicts
<1>2. Length = 0
  BY DEF Init, Length
<1> QED BY <1>1, <1>2 DEF Init, IInv, TypeOK, Judged, Heard, Verdicts

LEMMA ArriveInv ==
  ASSUME IInv, NEW n \in 0 .. Length, Arrive(n)
  PROVE  IInv'
<1> DEFINE m == (IF arrived < 0 THEN 0 ELSE arrived) + n
<1>1. /\ kind = "text" /\ text \in Texts /\ Length = Len(text.body) /\ Length \in Nat
      /\ verdict \in Verdicts /\ arrived \in -1 .. Length
  BY Lengths DEF IInv, Arrive
<1>2. /\ m \in 0 .. Len(text.body) /\ arrived' = m /\ UNCHANGED <<kind, text>>
      /\ verdict' = IF Complete(text, m) THEN Judge(text, m) ELSE verdict
  BY <1>1 DEF Arrive
<1> HIDE DEF m
<1>3. verdict' \in Verdicts
  BY <1>1, <1>2, JudgeText
<1>4. TypeOK'
  BY <1>1, <1>2, <1>3, SameText DEF IInv
<1>5. Heard'
  <2>1. CASE Complete(text, m)
    <3>1. verdict'.is # "waiting"
      BY <1>1, <1>2, <2>1, JudgeText
    <3> QED BY <1>1, <1>2, <3>1 DEF Heard
  <2>2. CASE ~Complete(text, m)
    BY <1>1, <1>2, <2>2 DEF Heard
  <2> QED BY <2>1, <2>2
<1>6. Judged'
  BY <1>1, <1>2 DEF Judged
<1> QED BY <1>4, <1>5, <1>6 DEF IInv

LEMMA ArriveDataInv ==
  ASSUME IInv, NEW n \in 0 .. Length, ArriveData(n)
  PROVE  IInv'
<1>1. /\ kind = "data" /\ verdict \in Verdicts /\ arrived \in -1 .. Length /\ Length \in Nat
  BY Lengths DEF IInv, ArriveData
<1>2. arrived' \in -1 .. Length /\ UNCHANGED <<kind, text, verdict>>
  BY <1>1 DEF ArriveData
<1>3. TypeOK'
  BY <1>1, <1>2, SameText DEF IInv
<1> QED BY <1>1, <1>2, <1>3 DEF IInv, Judged, Heard

LEMMA FinishInv ==
  ASSUME IInv, Finish \/ RecvFails
  PROVE  IInv'
<1>1. /\ arrived \in -1 .. Length /\ verdict \in Verdicts /\ Length \in Nat
      /\ kind \in {"text", "data"}
      /\ UNCHANGED <<kind, text, arrived>>
  BY Lengths DEF IInv, Finish, RecvFails
<1>2. CASE verdict' = Verdict("dropped")
  <2>1. verdict' \in Verdicts /\ verdict'.is = "dropped" /\ verdict'.body = <<>>
    BY <1>2, PlainVerdict
  <2>2. TypeOK'
    BY <1>1, <2>1, SameText DEF IInv
  <2> QED BY <1>1, <2>1, <2>2 DEF IInv, Judged, Heard
<1>3. CASE verdict' # Verdict("dropped")
  <2>1. arrived \in 0 .. Length
    BY <1>1, <1>3 DEF Finish, RecvFails
  <2>2. CASE kind = "text"
    <3>1. text \in Texts /\ arrived \in 0 .. Len(text.body) /\ verdict' = Judge(text, arrived)
      BY <1>3, <2>1, <2>2, Lengths DEF IInv, Finish, RecvFails
    <3>2. TypeOK'
      BY <1>1, <3>1, JudgeText, SameText DEF IInv
    <3>3. verdict'.is # "waiting"
      BY <3>1, JudgeText
    <3> QED BY <1>1, <2>2, <3>1, <3>2, <3>3 DEF IInv, Judged, Heard
  <2>3. CASE kind = "data"
    <3>1. arrived \in 0 .. Len(text) /\ verdict' = JudgeData(SubSeq(text, 1, arrived))
      BY <1>3, <2>1, <2>3, Lengths DEF IInv, Finish, RecvFails
    <3>2. TypeOK'
      BY <1>1, <3>1, JudgeBytes, SameText DEF IInv
    <3> QED BY <1>1, <2>3, <3>1, <3>2 DEF IInv, Judged, Heard
  <2> QED BY <1>1, <2>2, <2>3
<1> QED BY <1>2, <1>3

LEMMA BeginInv == IInv /\ Begin => IInv'
<1> SUFFICES ASSUME IInv, Begin PROVE IInv'
  OBVIOUS
<1>1. /\ kind = "none" /\ verdict = Waiting /\ UNCHANGED <<arrived, verdict>>
      /\ arrived = -1 /\ verdict \in Verdicts
  BY Lengths DEF IInv, Judged, Heard, Begin
<1>2. verdict.is = "waiting" /\ verdict.body = <<>>
  BY <1>1 DEF Waiting
<1>3. CASE kind' = "text" /\ text' \in Texts
  <2>1. Length' = Len(text'.body) /\ Len(text'.body) \in Nat
    BY <1>3, TextAssumption DEF Length, Requests
  <2> QED BY <1>1, <1>2, <1>3, <2>1 DEF IInv, TypeOK, Judged, Heard, Verdicts
<1>4. CASE kind' = "data" /\ text' \in Datagrams
  <2>1. Length' = Len(text') /\ Len(text') \in Nat
    BY <1>4, TextAssumption DEF Length
  <2> QED BY <1>1, <1>2, <1>4, <2>1 DEF IInv, TypeOK, Judged, Heard, Verdicts
<1> QED BY <1>3, <1>4 DEF Begin

LEMMA DealtInv == Dealt => IInv'
<1> SUFFICES ASSUME Dealt PROVE IInv'
  OBVIOUS
<1>1. verdict' = Waiting /\ Waiting \in Verdicts
  BY DEF Dealt, Waiting, Verdicts
<1>2. Length' = 0
  BY DEF Dealt, Length
<1> QED BY <1>1, <1>2 DEF Dealt, IInv, TypeOK, Judged, Heard, Verdicts

LEMMA Inductive == Spec => []IInv
<1>1. IInv /\ [Next]_vars => IInv'
  <2> SUFFICES ASSUME IInv, [Next]_vars PROVE IInv'
    OBVIOUS
  <2>1. CASE Next
    BY <2>1, ArriveInv, ArriveDataInv, FinishInv, BeginInv, DealtInv DEF Next
  <2>2. CASE UNCHANGED vars
    BY <2>2 DEF vars, IInv, TypeOK, Judged, Heard, Length
  <2> QED BY <2>1, <2>2
<1> QED BY <1>1, Initial, PTL DEF Spec

-----------------------------------------------------------------------------
(***************************************************************************)
(* The theorems.                                                           *)
(***************************************************************************)

\* The type of the state.
THEOREM TypeCorrect == Spec => []TypeOK
<1>1. IInv => TypeOK
  BY DEF IInv
<1> QED BY <1>1, Inductive, PTL

\* A request whose fields tell the truth is not waited for once it is there.
THEOREM TruthHeard == Spec => []TruthNeverWaits
<1>1. IInv => TruthNeverWaits
  <2> SUFFICES ASSUME IInv, kind = "text", Truthful(text), arrived = Len(text.body)
               PROVE  verdict.is # "waiting"
    BY DEF TruthNeverWaits
  <2>1. text \in Texts /\ Len(text.body) \in Nat
    BY Lengths DEF IInv
  <2>2. Complete(text, arrived)
    BY <2>1, TruthComplete
  <2>3. arrived >= 0
    BY <2>1
  <2> QED BY <2>2, <2>3 DEF IInv, Heard
<1> QED BY <1>1, Inductive, PTL

\* A binary handshake begins with a byte that no text has: wherever it is cut,
\* it is not answered.
THEOREM BinarySilent == Spec => []BinaryNotAnswered
<1>1. \A d : IsText(d) /\ 1 \in DOMAIN d => d[1] # 16 /\ d[1] # 22
  BY DEF IsText
<1>2. IInv => BinaryNotAnswered
  <2> SUFFICES ASSUME IInv, kind = "data", IsMqttConnect(text) \/ IsClientHello(text)
               PROVE  verdict.is \in {"waiting", "dropped", "ignored"}
    BY DEF BinaryNotAnswered
  <2>1. text \in Seq(Byte) /\ text[1] \in {16, 22}
    BY Lengths DEF IInv, IsMqttConnect, IsClientHello
  <2>2. ASSUME NEW n \in 0 .. Len(text), verdict = JudgeData(SubSeq(text, 1, n))
        PROVE  verdict.is \in {"dropped", "ignored"}
    <3> DEFINE d == SubSeq(text, 1, n)
    <3>1. d \in Seq(Byte) /\ Len(d) = n /\ \A i \in 1 .. n : d[i] = text[i]
      BY <2>1, PrefixOfPrefix
    <3> HIDE DEF d
    <3>2. ASSUME Cut(d) # <<>> PROVE ~ IsText(Cut(d))
      <4>1. Len(Cut(d)) >= 1 /\ Cut(d)[1] = d[1] /\ d # <<>>
        BY <3>1, <3>2, CutHead
      <4>2. Cut(d)[1] \in {16, 22}
        BY <2>1, <3>1, <4>1
      <4>3. 1 \in DOMAIN Cut(d)
        BY <3>1, <3>2, CutHead
      <4> QED BY <1>1, <4>2, <4>3
    <3> QED BY <2>2, <3>2, JudgeBytes DEF d
  <2> QED BY <2>2 DEF IInv, Judged
<1> QED BY <1>2, Inductive, PTL

\* Where the readers agree on the length, no split makes the request fail.
THEOREM Agreement == Spec => AgreementSuffices
<1>1. ASSUME IInv, Next, kind = "text", verdict.is = "waiting", verdict'.is # "waiting",
             arrived' # arrived, text.method \in {"POST", "PUT"}, Agreed(text)
      PROVE  verdict'.is = "accepted" /\ verdict'.body = text.body
  <2>1. PICK n \in 0 .. Length : Arrive(n)
    BY <1>1 DEF Next, ArriveData, Finish, RecvFails, Begin, Dealt
  <2>2. /\ text \in Texts /\ Length = Len(text.body) /\ Length \in Nat
        /\ arrived \in -1 .. Length
    BY <1>1, Lengths DEF IInv
  <2> DEFINE m == (IF arrived < 0 THEN 0 ELSE arrived) + n
             b == Body(text, m)
  <2>3. /\ m \in 0 .. Len(text.body)
        /\ verdict' = IF Complete(text, m) THEN Judge(text, m) ELSE verdict
    BY <2>1, <2>2 DEF Arrive
  <2> HIDE DEF m
  <2>4. /\ verdict' = Judge(text, m) /\ Complete(text, m)
    BY <1>1, <2>3
  <2>5. m = Len(text.body)
    <3>1. ContentLength(text) = Len(text.body) /\ text.body # <<>>
      BY <1>1 DEF Agreed
    <3>2. text.body \in Seq(BodyBytes) /\ Len(text.body) > 0
      BY <2>2, <2>3, <3>1, BodyIsPrefix
    <3>3. m >= ContentLength(text)
      BY <1>1, <2>4, <3>1, <3>2 DEF Complete
    <3> QED BY <2>2, <2>3, <3>1, <3>3
  <2>6. b = text.body
    <3>1. text.body \in Seq(BodyBytes) /\ SubSeq(text.body, 1, m) = text.body
      BY <2>2, <2>3, <2>5, BodyIsPrefix, SubSeqFull
    <3>2. "nul" \notin Range(text.body)
      BY <1>1 DEF Agreed
    <3> QED BY <2>2, <2>3, <3>1, <3>2, BodyIsPrefix
  <2> HIDE DEF b
  <2>7. /\ ~HasNul(text) /\ "ctl" \notin Range(b) /\ ~WebSocket(text) /\ b # <<>>
        /\ LengthField(text) # 0 /\ ~text.fields[LengthField(text)].junk
        /\ text.fields[LengthField(text)].number = Len(b)
    BY <1>1, <2>6 DEF Agreed
  <2>8. Type(text, b) = "http" /\ Parses(text, b) /\ Stored(text, b) = b
    BY <2>7 DEF Type, Parses, Stored
  <2>9. Judge(text, m) = [is |-> "accepted", handler |-> Handler(text.method), body |-> b]
    BY <2>8 DEF Judge, b
  <2> QED BY <2>4, <2>6, <2>9
<1>2. IInv /\ [Next]_vars =>
        [kind = "text" /\ verdict.is = "waiting" /\ verdict'.is # "waiting"
         /\ arrived' # arrived /\ text.method \in {"POST", "PUT"} /\ Agreed(text)
           => verdict'.is = "accepted" /\ verdict'.body = text.body]_vars
  BY <1>1
<1> QED BY <1>2, Inductive, PTL DEF Spec, AgreementSuffices
=============================================================================

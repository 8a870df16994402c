---------------------------- MODULE HttpSession ----------------------------
(***************************************************************************)
(* What a worker promises the client of one connection, without streams,   *)
(* buffers and descriptors: the requests are answered in the order in      *)
(* which they were sent, each at most once, only when all of it has been   *)
(* written, and with a status that is right for it; the worker decides to  *)
(* give the connection up only while no whole request is waiting for its   *)
(* answer.  Connection implements this for requests whose length the       *)
(* header tells (Connection!ImplementsSession).                            *)
(***************************************************************************)
EXTENDS Naturals, Sequences

CONSTANTS
  Requests,    \* requests; their heads say method, found and connection
  Unreadable   \* those of them whose body the server cannot read

VARIABLES
  st,        \* "away", "waiting" to be accepted, "connected", "closing"
  sent,      \* the requests of this connection, in order
  writing,   \* the last of them has not been written to its end
  ended,     \* the client has closed or reset its side
  answers    \* what the worker has sent: to which request, status, keep

vars == <<st, sent, writing, ended, answers>>

Gone == st = "away" /\ sent = <<>> /\ writing = FALSE /\ ended = FALSE /\ answers = <<>>

\* The status that says the truth about a request, and the one it gets.
Truth(r) ==
  IF r.head.method = "GET" THEN IF r.head.found THEN 200 ELSE 404 ELSE 501
Right(r) == IF r \in Unreadable THEN 400 ELSE Truth(r)

\* The next request to be answered is there in full.
Due == Len(answers) < Len(sent) /\ (Len(answers) + 1 < Len(sent) \/ ~writing)

\* The last answer has told the client that the connection is not kept.
Closed == answers # <<>> /\ ~answers[Len(answers)].keep

Arrive == st = "away" /\ st' = "waiting" /\ UNCHANGED <<sent, writing, ended, answers>>
Accept == st = "waiting" /\ st' = "connected" /\ UNCHANGED <<sent, writing, ended, answers>>

Ask(r) ==
  /\ st # "away" /\ ~writing /\ ~ended
  /\ sent' = Append(sent, r) /\ writing' = TRUE
  /\ UNCHANGED <<st, ended, answers>>

WriteRest ==
  /\ writing /\ writing' = FALSE
  /\ UNCHANGED <<st, sent, ended, answers>>

End ==
  /\ st # "away"
  /\ ended' = TRUE /\ writing' = FALSE
  /\ UNCHANGED <<st, sent, answers>>

\* An answer; one that does not keep the connection may be the last act.  After
\* it nothing is answered, save that a 501 does not do what it says.
Answer(status, keep) ==
  LET n == Len(answers) + 1
  IN /\ st = "connected" /\ Due
     /\ Closed => answers[Len(answers)].status = 501
     /\ \/ status = Right(sent[n])
        \/ ended /\ status \in {400, Truth(sent[n])}
     /\ keep => status = 200 /\ sent[n].head.connection = "keep-alive"
     /\ answers' = Append(answers, [to |-> n, status |-> status, keep |-> keep])
     /\ st' \in {"connected"} \cup (IF keep THEN {} ELSE {"closing"})
     /\ UNCHANGED <<sent, writing, ended>>

\* The decision to close; what arrives after it is not answered any more.
GiveUp ==
  /\ st = "connected"
  /\ Due => ended \/ Closed
  /\ st' = "closing"
  /\ UNCHANGED <<sent, writing, ended, answers>>

HangUp == st = "closing" /\ Gone'

Init == Gone

Next ==
  \/ Arrive \/ Accept \/ WriteRest \/ End \/ GiveUp \/ HangUp
  \/ \E r \in Requests : Ask(r)
  \/ \E status \in {200, 400, 404, 501}, keep \in BOOLEAN : Answer(status, keep)

Spec == Init /\ [][Next]_vars
=============================================================================

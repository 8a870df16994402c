---------------------------- MODULE MCConnection ----------------------------
EXTENDS Connection

\* A GET of a file, on a connection to be kept.
Get == [method |-> "GET", found |-> TRUE, length |-> NoLength, chunked |-> FALSE,
        connection |-> "keep-alive", upgrade |-> FALSE]
Put(n) == [Get EXCEPT !.method = "PUT", !.length = n]

\* A request whose body has these parts; what reads as a request in it reads as
\* the GET.
R(head, parts) == [head |-> head, body |-> [i \in DOMAIN parts |-> [part |-> parts[i], head |-> Get]]]

\* Requests whose end the header tells, and that the server answers: one with a
\* zero byte, and one whose body reads as a request.
Orderly ==
  {R(Get, <<>>),
   R([Get EXCEPT !.connection = "close"], <<>>),
   R([Get EXCEPT !.found = FALSE], <<>>),
   R([Get EXCEPT !.method = "DELETE"], <<>>),
   R(Put(2), <<"data", "nul">>),
   R(Put(3), <<"line", "fields", "end">>),
   R([Put(NoLength) EXCEPT !.connection = "none", !.chunked = TRUE], <<"data", "last">>)}

\* So what is promised to AnsweredClients is promised to these.
ASSUME OrderlyAssumption == \A r \in Orderly : Delimited(r) /\ Answerable(r)

\* Requests of every kind: without an end, with a body that is left over and
\* reads as a request, with no header, for another protocol.
Varied ==
  {R(Get, <<>>),
   R([Get EXCEPT !.method = "POST", !.length = 0], <<>>),
   R(Put(NoLength), <<"data", "line", "end">>),
   R([Get EXCEPT !.method = "HEAD", !.length = 1], <<"trailer">>),
   R([Get EXCEPT !.upgrade = TRUE], <<>>),
   R([Get EXCEPT !.method = "none"], <<"data", "ctl">>),
   R([Get EXCEPT !.method = "none"], <<"nul", "line", "data">>)}
=============================================================================

--------------------------- MODULE MCRequestText ---------------------------
EXTENDS RequestText

Field(name, number, junk) == [name |-> name, number |-> number, junk |-> junk]

\* An int goes from -4 to 3: 4 is read as -4, 8 and 16 as 0, 9 as 1, 18 as 2.
SomeFields ==
  {Field("Content-Length", n, FALSE) : n \in {-1, 0, 1, 2, 3, 4, 16, 18}}
  \cup {Field("Content-Length", 2, TRUE), Field("content-length", 2, FALSE),
        Field("X-Content-Length", 1, FALSE), Field("X-Content-Length", 3, FALSE),
        Field("Content-Length-Range", 2, FALSE), Field("Transfer-Encoding", 0, TRUE),
        Field("U", 0, TRUE), Field("nul", 0, TRUE)}

SomeTexts ==
  [method : {"GET", "GETX", "PUT"}, fields : BoundedSeq(SomeFields, 2),
   body : BoundedSeq({"x", "nul"}, 3) \cup {<<"x", "ctl">>, <<"x", "x", "last">>},
   near : {TRUE}]
  \cup [method : {"PUT"},
        fields : {<<Field("Content-Length", n, FALSE)>> : n \in {4, 8, 9}}
                 \cup {<<Field("Transfer-Encoding", 0, TRUE), Field("Content-Length", 9, FALSE)>>},
        body : {[i \in 1 .. n |-> "x"] : n \in {4, 8, 9}} \cup {<<"x", "x", "x", "last">>},
        near : {TRUE}]
  \cup [method : {"HEAD", "POST"}, fields : {<<Field("Content-Length", 2, FALSE)>>},
        body : {<<"x", "ctl">>}, near : {FALSE}]

\* A CONNECT, a ClientHello with and without a zero byte in its length, each
\* with any one byte replaced.
Templates == {<<16, 28, 0, 4>> \o MQTT, <<22, 3, 1, 2, 0, 1, 0>>, <<22, 3, 1, 2, 1, 1, 0>>}
SomeDatagrams ==
  UNION {{[d EXCEPT ![i] = c] : i \in DOMAIN d, c \in {0, 1, 4, 16, 27, 71, 128}} : d \in Templates}
=============================================================================

------------------------------ MODULE MCServer ------------------------------
EXTENDS Server

CONSTANTS w1, w2, w3, c1, c2, c3

P(n) == [opt |-> "p", arg |-> n]
A(h) == [opt |-> "a", arg |-> h]
M(m) == [opt |-> "m", arg |-> m]
H == [opt |-> "h"]

Lines ==
  {<<>>, <<H>>, <<P(8080)>>, <<A("name"), P(80)>>, <<A("localhost"), M("select")>>,
   <<A("address"), P(65535)>>, <<P(0), A("address")>>, <<P(-1), A("address"), M("select")>>,
   <<A("name"), H, A("address"), P(70000), P(8080)>>, <<M("other"), A("address")>>,
   <<M("select"), P(1), A("address"), M("blocking"), P(65536)>>}
=============================================================================

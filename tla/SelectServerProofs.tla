------------------------- MODULE SelectServerProofs -------------------------
(***************************************************************************)
(* Proofs about a worker in select mode, for every size of the table, every*)
(* limit on descriptors and every set of connections.                      *)
(***************************************************************************)
EXTENDS SelectServer, FiniteSetTheorems, TLAPS

\* handleOneClientRequest is running, or has just returned.
Handling == worker.pc \in {"recv", "serve", "close", "check"}

\* While a request is handled worker.i is a used slot.
Slot ==
  /\ Handling => worker.i \in Used
  /\ worker.pc = "serve" => open[Current] \in Conns

\* The slots hold different open descriptors, except that the one of the client
\* being handled may have been closed; select is asked about these and the
\* listening socket.
Table ==
  /\ \A i, j \in Used : clients[i] = clients[j] => i = j
  /\ master_fds = TableFds \cup {ListenFd}
  /\ open[ListenFd] = "listen"
  /\ \A i \in Used :
       open[clients[i]] \in Conns \/ (open[clients[i]] = "free" /\ Handling /\ i = worker.i)

\* The connections held are those the descriptors in the table are open on.
Holding ==
  /\ \A f \in Fds : open[f] \in Conns => f \in TableFds /\ conn[open[f]].st = "held"
  /\ \A f, g \in Fds : open[f] \in Conns /\ open[f] = open[g] => f = g
  /\ \A c \in Held : \E f \in Fds : open[f] = c

\* client_count, which addClientToSelect compares with the limit, is exact.
Counted == client_count = Cardinality(Used)

\* What select reported is still true of the slots the loop has yet to reach.
Awaited(i) == clients[i] \in read_fds => open[clients[i]] \in Conns /\ HasInput(open[clients[i]])

\* So it is before the accept, during the loop, and while a client is handled.
Fresh ==
  /\ worker.pc = "accept" =>
       \A f \in read_fds : open[f] = "listen" \/ (open[f] \in Conns /\ HasInput(open[f]))
  /\ worker.pc = "scan" => \A i \in Used : i >= worker.i => Awaited(i)
  /\ Handling => \A i \in Used : i > worker.i => Awaited(i)

\* The inductive invariant.
IInv ==
  TypeOK /\ Slot /\ Table /\ Holding /\ Counted /\ MaxFdCovers /\ Fresh

-----------------------------------------------------------------------------
(***************************************************************************)
(* The vocabulary: descriptors, records, and the set of used slots.        *)
(***************************************************************************)

\* The numbers involved, and the names of what a descriptor is open on.
LEMMA Numbers ==
  /\ ListenFd \in Fds /\ NoFd \notin Fds /\ Fds \subseteq Int
  /\ "free" \notin Conns /\ "listen" \notin Conns /\ "file" \notin Conns
  /\ Indices \subseteq Int /\ IsFiniteSet(Indices)
  /\ 0 \in 0 .. MAX_CLIENTS
  /\ \A i \in Indices : i + 1 \in 0 .. MAX_CLIENTS /\ i \in 0 .. MAX_CLIENTS
<1>1. IsFiniteSet(Indices)
  BY SelectAssumption, FS_Interval DEF Indices
<1>2. /\ ListenFd \in Fds /\ NoFd \notin Fds /\ Fds \subseteq Int
      /\ Indices \subseteq Int /\ 0 \in 0 .. MAX_CLIENTS
      /\ \A i \in Indices : i + 1 \in 0 .. MAX_CLIENTS /\ i \in 0 .. MAX_CLIENTS
  BY SelectAssumption DEF Indices, Fds, ListenFd, NoFd
<1>3. "free" \notin Conns /\ "listen" \notin Conns /\ "file" \notin Conns
  BY SelectAssumption
<1> QED BY <1>1, <1>2, <1>3

\* The used slots hold descriptors, and are finitely many.
LEMMA UsedSlots ==
  ASSUME TypeOK
  PROVE  /\ Used \subseteq Indices /\ IsFiniteSet(Used)
         /\ \A i \in Used : clients[i] \in Fds /\ i \in Int
         /\ TableFds \subseteq Fds
<1>1. Used \subseteq Indices
  BY DEF Used
<1>2. IsFiniteSet(Used)
  BY <1>1, Numbers, FS_Subset
<1>3. \A i \in Used : clients[i] \in Fds
  BY DEF Used, TypeOK
<1>4. \A i \in Used : i \in Int
  BY <1>1 DEF Indices
<1> QED BY <1>1, <1>2, <1>3, <1>4 DEF TableFds

\* The record of the worker after a step, field by field.
LEMMA WorkerPc ==
  ASSUME NEW r \in Worker, NEW pc, NEW q, q = [r EXCEPT !.pc = pc]
  PROVE  q = [pc |-> pc, i |-> r.i, got |-> r.got, expired |-> r.expired]
<1>1. r = [pc |-> r.pc, i |-> r.i, got |-> r.got, expired |-> r.expired]
  BY DEF Worker
<1> QED BY <1>1

\* The same, for a step that says what has been received.
LEMMA WorkerPcGot ==
  ASSUME NEW r \in Worker, NEW pc, NEW got, NEW q, q = [r EXCEPT !.pc = pc, !.got = got]
  PROVE  q = [pc |-> pc, i |-> r.i, got |-> got, expired |-> r.expired]
<1>1. r = [pc |-> r.pc, i |-> r.i, got |-> r.got, expired |-> r.expired]
  BY DEF Worker
<1> QED BY <1>1

\* The same, for Goto.
LEMMA WorkerGoto ==
  ASSUME worker \in Worker, NEW pc, NEW i, Goto(pc, i)
  PROVE  worker' = [pc |-> pc, i |-> i, got |-> "none", expired |-> worker.expired]
<1>1. ASSUME NEW r \in Worker, NEW q, q = [r EXCEPT !.pc = pc, !.i = i, !.got = "none"]
      PROVE  q = [pc |-> pc, i |-> i, got |-> "none", expired |-> r.expired]
  <2>1. r = [pc |-> r.pc, i |-> r.i, got |-> r.got, expired |-> r.expired]
    BY <1>1 DEF Worker
  <2> QED BY <1>1, <2>1
<1> QED BY <1>1 DEF Goto

\* A connection of which one field changes.
LEMMA ConnRecord ==
  ASSUME NEW r \in Connection, NEW st, NEW inbox, NEW q
  PROVE  /\ q = [r EXCEPT !.st = st] =>
              q = [st |-> st, inbox |-> r.inbox, fin |-> r.fin, old |-> r.old]
         /\ q = [r EXCEPT !.inbox = inbox] =>
              q = [st |-> r.st, inbox |-> inbox, fin |-> r.fin, old |-> r.old]
         /\ q = [r EXCEPT !.fin = TRUE] =>
              q = [st |-> r.st, inbox |-> r.inbox, fin |-> TRUE, old |-> r.old]
         /\ q = [r EXCEPT !.old = TRUE] =>
              q = [st |-> r.st, inbox |-> r.inbox, fin |-> r.fin, old |-> TRUE]
         /\ r.st \in {"away", "backlog", "held", "over"}
         /\ r.inbox \in {"empty", "part", "whole"}
         /\ r.fin \in BOOLEAN /\ r.old \in BOOLEAN
<1>1. /\ r = [st |-> r.st, inbox |-> r.inbox, fin |-> r.fin, old |-> r.old]
      /\ r.st \in {"away", "backlog", "held", "over"}
      /\ r.inbox \in {"empty", "part", "whole"}
      /\ r.fin \in BOOLEAN /\ r.old \in BOOLEAN
  BY DEF Connection
<1>2. q = [r EXCEPT !.st = st] =>
        q = [st |-> st, inbox |-> r.inbox, fin |-> r.fin, old |-> r.old]
  BY <1>1
<1>3. q = [r EXCEPT !.inbox = inbox] =>
        q = [st |-> r.st, inbox |-> inbox, fin |-> r.fin, old |-> r.old]
  BY <1>1
<1>4. q = [r EXCEPT !.fin = TRUE] =>
        q = [st |-> r.st, inbox |-> r.inbox, fin |-> TRUE, old |-> r.old]
  BY <1>1
<1>5. q = [r EXCEPT !.old = TRUE] =>
        q = [st |-> r.st, inbox |-> r.inbox, fin |-> r.fin, old |-> TRUE]
  BY <1>1
<1> QED BY <1>1, <1>2, <1>3, <1>4, <1>5

-----------------------------------------------------------------------------
(***************************************************************************)
(* What close does, and what a step that leaves the table alone keeps.     *)
(***************************************************************************)

\* close frees one descriptor; the connection it was open on is no longer
\* held, and nothing else changes.
LEMMA CloseEffect ==
  ASSUME TypeOK, NEW f \in Fds, Close(f)
  PROVE  /\ open' = [open EXCEPT ![f] = "free"]
         /\ open' \in [Fds -> Conns \cup {"free", "listen", "file"}]
         /\ conn' \in [Conns -> Connection]
         /\ \A c \in Conns : open[f] # c => conn'[c] = conn[c]
         /\ \A c \in Conns : open[f] = c => conn'[c].st = "over"
<1>1. \A c \in Conns : conn[c] \in Connection
  BY DEF TypeOK
<1>2. ASSUME NEW c \in Conns
      PROVE  /\ [conn[c] EXCEPT !.st = "over"] \in Connection
             /\ [conn[c] EXCEPT !.st = "over"].st = "over"
  <2> DEFINE q == [conn[c] EXCEPT !.st = "over"]
  <2>1. q = [st |-> "over", inbox |-> conn[c].inbox, fin |-> conn[c].fin,
             old |-> conn[c].old]
    BY <1>1, ConnRecord
  <2>2. /\ conn[c].inbox \in {"empty", "part", "whole"}
        /\ conn[c].fin \in BOOLEAN /\ conn[c].old \in BOOLEAN
    BY <1>1, ConnRecord
  <2> HIDE DEF q
  <2>3. q \in Connection /\ q.st = "over"
    BY <2>1, <2>2 DEF Connection
  <2> QED BY <2>3 DEF q
<1>4. conn' = [c \in Conns |-> IF open[f] = c THEN [conn[c] EXCEPT !.st = "over"]
                                             ELSE conn[c]]
  BY DEF Close
<1>5. conn' \in [Conns -> Connection]
  BY <1>1, <1>2, <1>4
<1>6. \A c \in Conns : open[f] # c => conn'[c] = conn[c]
  BY <1>4
<1>7. \A c \in Conns : open[f] = c => conn'[c].st = "over"
  BY <1>2, <1>4
<1> QED BY <1>5, <1>6, <1>7 DEF Close, TypeOK

\* A step that changes neither the table nor the descriptors, nor which
\* connections are held, keeps what relates them.
LEMMA SameTable ==
  ASSUME IInv, UNCHANGED <<state, open>>,
         \A c \in Conns : conn[c].st = "held" <=> conn'[c].st = "held",
         \A i \in Used : open[clients[i]] = "free" => Handling' /\ i = worker'.i
  PROVE  Table' /\ Holding' /\ Counted' /\ MaxFdCovers'
<1>1. Used' = Used /\ TableFds' = TableFds
  BY DEF Used, TableFds, state
<1>2. Held' = Held
  BY DEF Held
<1>3. Table'
  BY <1>1 DEF IInv, Table, state
<1>4. Holding'
  <2>1. \A f \in Fds : open[f] \in Conns => f \in TableFds /\ conn'[open[f]].st = "held"
    BY DEF IInv, Holding
  <2> QED BY <1>1, <1>2, <2>1 DEF IInv, Holding, state
<1>5. Counted'
  BY <1>1 DEF IInv, Counted, state
<1>6. MaxFdCovers'
  BY DEF IInv, MaxFdCovers, state
<1> QED BY <1>3, <1>4, <1>5, <1>6

\* The freed slot of the client being handled, or of an expired one.
LEMMA RemoveEffect ==
  ASSUME IInv, NEW i \in Used, RemoveClient(i),
         \A j \in Used \ {i} : open[clients[j]] \in Conns
  PROVE  /\ clients' \in [Indices -> Fds \cup {NoFd}]
         /\ client_count' \in 0 .. MAX_CLIENTS
         /\ max_fd' \in Fds /\ master_fds' \subseteq Fds
         /\ open' \in [Fds -> Conns \cup {"free", "listen", "file"}]
         /\ conn' \in [Conns -> Connection]
         /\ Used' = Used \ {i}
         /\ \A j \in Used' : clients'[j] = clients[j] /\ open'[clients[j]] = open[clients[j]]
                             /\ open'[clients[j]] \in Conns
                             /\ conn'[open[clients[j]]] = conn[open[clients[j]]]
         /\ Table' /\ Holding' /\ Counted' /\ MaxFdCovers'
<1> USE Numbers
<1>1. /\ Used \subseteq Indices /\ IsFiniteSet(Used) /\ clients[i] \in Fds
      /\ \A j \in Used : clients[j] \in Fds
      /\ TableFds \subseteq Fds
  BY UsedSlots DEF IInv
<1>2. Close(clients[i])
  BY DEF RemoveClient
<1>3. /\ open' = [open EXCEPT ![clients[i]] = "free"]
      /\ open' \in [Fds -> Conns \cup {"free", "listen", "file"}]
      /\ conn' \in [Conns -> Connection]
      /\ \A c \in Conns : open[clients[i]] # c => conn'[c] = conn[c]
      /\ \A c \in Conns : open[clients[i]] = c => conn'[c].st = "over"
  BY <1>1, <1>2, CloseEffect DEF IInv
<1>4. /\ clients' = [clients EXCEPT ![i] = NoFd]
      /\ clients' \in [Indices -> Fds \cup {NoFd}]
  BY <1>1 DEF RemoveClient, IInv, TypeOK
<1>5. Used' = Used \ {i}
  BY <1>1, <1>4 DEF Used, IInv, TypeOK
<1>6. TableFds' = TableFds \ {clients[i]}
  <2>1. \A j \in Used' : clients'[j] = clients[j]
    BY <1>1, <1>4, <1>5 DEF IInv, TypeOK
  <2>2. \A j \in Used : j # i => clients[j] # clients[i]
    BY DEF IInv, Table
  <2> QED BY <1>5, <2>1, <2>2 DEF TableFds
<1>7. \A j \in Used' :
        /\ clients'[j] = clients[j]
        /\ clients[j] # clients[i]
        /\ open'[clients[j]] = open[clients[j]]
        /\ open'[clients[j]] \in Conns
        /\ open[clients[j]] # open[clients[i]]
        /\ conn'[open[clients[j]]] = conn[open[clients[j]]]
  <2> SUFFICES ASSUME NEW j \in Used' PROVE
        /\ clients'[j] = clients[j]
        /\ clients[j] # clients[i]
        /\ open'[clients[j]] = open[clients[j]]
        /\ open'[clients[j]] \in Conns
        /\ open[clients[j]] # open[clients[i]]
        /\ conn'[open[clients[j]]] = conn[open[clients[j]]]
    OBVIOUS
  <2>1. j \in Used /\ j # i /\ clients'[j] = clients[j]
    BY <1>1, <1>4, <1>5 DEF IInv, TypeOK
  <2>2. clients[j] # clients[i]
    BY <2>1 DEF IInv, Table
  <2>3. open[clients[j]] \in Conns
    BY <2>1
  <2>4. open'[clients[j]] = open[clients[j]]
    BY <1>1, <1>3, <2>1, <2>2 DEF IInv, TypeOK
  <2>5. open[clients[j]] # open[clients[i]]
    BY <1>1, <2>1, <2>2, <2>3 DEF IInv, Holding
  <2> QED BY <1>3, <2>1, <2>2, <2>3, <2>4, <2>5
<1>8. master_fds' = master_fds \ {clients[i]}
  BY DEF RemoveClient
<1>9. clients[i] # ListenFd /\ open'[ListenFd] = "listen"
  <2>1. open[clients[i]] # "listen" /\ open[ListenFd] = "listen"
    BY DEF IInv, Table
  <2> QED BY <2>1, <1>1, <1>3 DEF IInv, TypeOK
<1>10. Table'
  <2>1. \A j, k \in Used' : clients'[j] = clients'[k] => j = k
    BY <1>5, <1>7 DEF IInv, Table
  <2>2. master_fds' = TableFds' \cup {ListenFd}
    BY <1>6, <1>8, <1>9 DEF IInv, Table
  <2>3. \A j \in Used' : open'[clients'[j]] \in Conns
    BY <1>7
  <2> QED BY <1>9, <2>1, <2>2, <2>3 DEF Table
<1>11. Holding'
  <2>1. \A f \in Fds : open'[f] \in Conns => f # clients[i] /\ open'[f] = open[f]
    <3> SUFFICES ASSUME NEW f \in Fds, open'[f] \in Conns
                 PROVE  f # clients[i] /\ open'[f] = open[f]
      OBVIOUS
    <3>1. open \in [Fds -> Conns \cup {"free", "listen", "file"}] /\ clients[i] \in Fds
      BY <1>1 DEF IInv, TypeOK
    <3>2. open' = [open EXCEPT ![clients[i]] = "free"]
      BY <1>3
    <3>3. "free" \notin Conns
      OBVIOUS
    <3> QED BY <3>1, <3>2, <3>3
  <2>2. \A f \in Fds : open'[f] \in Conns =>
          f \in TableFds' /\ open[f] # open[clients[i]] /\ conn'[open'[f]].st = "held"
    <3> SUFFICES ASSUME NEW f \in Fds, open'[f] \in Conns
                 PROVE  f \in TableFds' /\ open[f] # open[clients[i]]
                        /\ conn'[open'[f]].st = "held"
      OBVIOUS
    <3>1. f # clients[i] /\ open'[f] = open[f] /\ open[f] \in Conns
      BY <2>1
    <3>2. f \in TableFds /\ conn[open[f]].st = "held"
      BY <3>1 DEF IInv, Holding
    <3>3. open[f] # open[clients[i]]
      BY <1>1, <3>1 DEF IInv, Holding
    <3> QED BY <1>3, <1>6, <3>1, <3>2, <3>3
  <2>3. \A f, g \in Fds : open'[f] \in Conns /\ open'[f] = open'[g] => f = g
    BY <2>1 DEF IInv, Holding
  <2>4. ASSUME NEW c \in Held' PROVE \E f \in Fds : open'[f] = c
    <3>1. c \in Conns /\ conn'[c].st = "held"
      BY <2>4 DEF Held
    <3>2. open[clients[i]] # c /\ conn[c].st = "held"
      BY <3>1, <1>3
    <3>3. PICK f \in Fds : open[f] = c
      BY <3>1, <3>2 DEF IInv, Holding, Held
    <3>4. f # clients[i]
      BY <3>2, <3>3
    <3> QED BY <1>3, <3>3, <3>4 DEF IInv, TypeOK
  <2> QED BY <2>2, <2>3, <2>4 DEF Holding
<1>12. Counted' /\ client_count' \in 0 .. MAX_CLIENTS
  <2>1. Cardinality(Used') = Cardinality(Used) - 1
    BY <1>1, <1>5, FS_RemoveElement
  <2>2. Cardinality(Used') \in Nat
    BY <1>1, <1>5, FS_RemoveElement, FS_CardinalityType
  <2>3. client_count' = client_count - 1
    BY DEF RemoveClient
  <2> QED BY <2>1, <2>2, <2>3, SelectAssumption DEF Counted, IInv, TypeOK
<1>13. max_fd' \in Fds /\ MaxFdCovers'
  <2> DEFINE fds == TableFds \cup {ListenFd}
  <2>1. PICK m \in fds : /\ \A f \in fds : f <= m
                         /\ max_fd' = IF clients[i] = max_fd THEN m ELSE max_fd
    BY DEF RemoveClient
  <2>2. m \in Fds
    BY <1>1, <2>1
  <2>3. master_fds' \subseteq fds /\ master_fds' \subseteq master_fds
    BY <1>8 DEF IInv, Table
  <2>4. max_fd \in Fds /\ \A f \in master_fds : f <= max_fd
    BY DEF IInv, TypeOK, MaxFdCovers
  <2> QED BY <2>1, <2>2, <2>3, <2>4 DEF MaxFdCovers
<1>14. master_fds' \subseteq Fds
  BY <1>8 DEF IInv, TypeOK
<1> QED BY <1>3, <1>4, <1>5, <1>7, <1>10, <1>11, <1>12, <1>13, <1>14

-----------------------------------------------------------------------------
\* The first state satisfies the invariant.
LEMMA InitInv == Init => IInv
<1> SUFFICES ASSUME Init PROVE IInv
  OBVIOUS
<1> USE Numbers
<1>1. Used = {} /\ TableFds = {}
  BY DEF Init, Used, TableFds
<1>2. \A c \in Conns : conn[c] = Away
  BY DEF Init
<1>3. Away \in Connection /\ Away.st = "away"
  BY DEF Away, Connection
<1>4. TypeOK
  <2>1. conn \in [Conns -> Connection]
    BY <1>3 DEF Init
  <2>2. worker \in Worker
    BY DEF Init, Worker
  <2> QED BY <2>1, <2>2, SelectAssumption DEF Init, TypeOK
<1>5. Slot /\ Fresh
  BY <1>1 DEF Init, Slot, Handling, Fresh
<1>6. Table /\ MaxFdCovers
  BY <1>1 DEF Init, Table, MaxFdCovers
<1>7. Holding
  BY <1>2, <1>3 DEF Init, Holding, Held
<1>8. Counted
  BY <1>1, FS_EmptySet DEF Init, Counted
<1> QED BY <1>4, <1>5, <1>6, <1>7, <1>8 DEF IInv

\* Clients, other workers and time change neither which connections are held
\* nor make input of a held connection disappear.
LEMMA EnvConn ==
  ASSUME TypeOK, Environment
  PROVE  /\ conn' \in [Conns -> Connection]
         /\ \A d \in Conns : conn[d].st = "held" <=> conn'[d].st = "held"
         /\ \A d \in Conns : HasInput(d) /\ conn[d].st = "held" => HasInput(d)'
<1> DEFINE Good(c, q) == /\ q \in Connection
                         /\ conn[c].st = "held" <=> q.st = "held"
                         /\ HasInput(c) /\ conn[c].st = "held" => q.inbox # "empty" \/ q.fin
<1>1. PICK c \in Conns : Connect(c) \/ Send(c) \/ Finish(c) \/ Steal(c) \/ Depart(c) \/ Age(c)
  BY DEF Environment
<1>2. conn[c] \in Connection
  BY DEF TypeOK
<1>3. /\ conn[c].st \in {"away", "backlog", "held", "over"}
      /\ conn[c].inbox \in {"empty", "part", "whole"}
      /\ conn[c].fin \in BOOLEAN /\ conn[c].old \in BOOLEAN
  BY <1>2, ConnRecord
<1>4. ASSUME NEW q, conn' = [conn EXCEPT ![c] = q], Good(c, q)
      PROVE  /\ conn' \in [Conns -> Connection]
             /\ \A d \in Conns : conn[d].st = "held" <=> conn'[d].st = "held"
             /\ \A d \in Conns : HasInput(d) /\ conn[d].st = "held" => HasInput(d)'
  <2>1. conn \in [Conns -> Connection]
    BY DEF TypeOK
  <2>2. conn'[c] = q /\ \A d \in Conns : d # c => conn'[d] = conn[d]
    BY <1>4, <2>1
  <2> QED BY <1>4, <2>1, <2>2 DEF HasInput
<1>5. CASE Connect(c)
  <2> DEFINE q == [Away EXCEPT !.st = "backlog"]
  <2>1. q = [st |-> "backlog", inbox |-> "empty", fin |-> FALSE, old |-> FALSE]
    <3>1. Away \in Connection
      BY DEF Away, Connection
    <3>2. q = [st |-> "backlog", inbox |-> Away.inbox, fin |-> Away.fin, old |-> Away.old]
      BY <3>1, ConnRecord
    <3> QED BY <3>2 DEF Away
  <2>2. conn' = [conn EXCEPT ![c] = q]
    BY <1>5 DEF Connect
  <2> HIDE DEF q
  <2>3. Good(c, q)
    BY <2>1, <1>5 DEF Connect, Connection
  <2> QED BY <1>4, <2>2, <2>3
<1>6. CASE Send(c)
  <2>1. PICK data \in {"part", "whole"} : conn' = [conn EXCEPT ![c].inbox = data]
    BY <1>6 DEF Send
  <2> DEFINE q == [conn[c] EXCEPT !.inbox = data]
  <2>2. q = [st |-> conn[c].st, inbox |-> data, fin |-> conn[c].fin, old |-> conn[c].old]
    BY <1>2, ConnRecord
  <2>3. conn' = [conn EXCEPT ![c] = q]
    BY <2>1
  <2> HIDE DEF q
  <2>4. Good(c, q)
    BY <1>3, <2>2 DEF Connection
  <2> QED BY <1>4, <2>3, <2>4
<1>7. CASE Finish(c)
  <2> DEFINE q == [conn[c] EXCEPT !.fin = TRUE]
  <2>2. q = [st |-> conn[c].st, inbox |-> conn[c].inbox, fin |-> TRUE, old |-> conn[c].old]
    BY <1>2, ConnRecord
  <2>3. conn' = [conn EXCEPT ![c] = q]
    BY <1>7 DEF Finish
  <2> HIDE DEF q
  <2>4. Good(c, q)
    BY <1>3, <2>2 DEF Connection
  <2> QED BY <1>4, <2>3, <2>4
<1>8. CASE Steal(c)
  <2> DEFINE q == [conn[c] EXCEPT !.st = "over"]
  <2>2. q = [st |-> "over", inbox |-> conn[c].inbox, fin |-> conn[c].fin, old |-> conn[c].old]
    BY <1>2, ConnRecord
  <2>3. conn' = [conn EXCEPT ![c] = q]
    BY <1>8 DEF Steal
  <2> HIDE DEF q
  <2>4. Good(c, q)
    BY <1>3, <1>8, <2>2 DEF Connection, Steal
  <2> QED BY <1>4, <2>3, <2>4
<1>9. CASE Depart(c)
  <2>2. Away = [st |-> "away", inbox |-> "empty", fin |-> FALSE, old |-> FALSE]
    BY DEF Away
  <2>3. conn' = [conn EXCEPT ![c] = Away]
    BY <1>9 DEF Depart
  <2>4. Good(c, Away)
    BY <2>2, <1>9 DEF Depart, Connection
  <2> QED BY <1>4, <2>3, <2>4
<1>10. CASE Age(c)
  <2> DEFINE q == [conn[c] EXCEPT !.old = TRUE]
  <2>2. q = [st |-> conn[c].st, inbox |-> conn[c].inbox, fin |-> conn[c].fin, old |-> TRUE]
    BY <1>2, ConnRecord
  <2>3. conn' = [conn EXCEPT ![c] = q]
    BY <1>10 DEF Age
  <2> HIDE DEF q
  <2>4. Good(c, q)
    BY <1>3, <2>2 DEF Connection, HasInput
  <2> QED BY <1>4, <2>3, <2>4
<1> QED BY <1>1, <1>5, <1>6, <1>7, <1>8, <1>9, <1>10

\* Steps that leave the table, the descriptors and which connections are held
\* as they are: what is left to prove about them.
LEMMA StillInv ==
  ASSUME IInv, UNCHANGED <<state, open>>,
         conn' \in [Conns -> Connection], worker' \in Worker, read_fds' \subseteq Fds,
         \A c \in Conns : conn[c].st = "held" <=> conn'[c].st = "held",
         \A i \in Used : open[clients[i]] = "free" => Handling' /\ i = worker'.i,
         Slot', Fresh'
  PROVE  IInv'
<1>1. Table' /\ Holding' /\ Counted' /\ MaxFdCovers'
  BY SameTable
<1>2. TypeOK'
  BY DEF IInv, TypeOK, state
<1> QED BY <1>1, <1>2 DEF IInv

\* The clients, the other workers and the clock keep the invariant.
LEMMA EnvInv == IInv /\ Environment => IInv'
<1> SUFFICES ASSUME IInv, Environment PROVE IInv'
  OBVIOUS
<1>1. /\ conn' \in [Conns -> Connection]
      /\ \A d \in Conns : conn[d].st = "held" <=> conn'[d].st = "held"
      /\ \A d \in Conns : HasInput(d) /\ conn[d].st = "held" => HasInput(d)'
  BY EnvConn DEF IInv
<1>2. UNCHANGED <<state, read_fds, worker, open>>
  BY DEF Environment
<1>3. \A f \in Fds : open[f] \in Conns /\ HasInput(open[f]) => HasInput(open[f])'
  <2>1. \A f \in Fds : open[f] \in Conns => conn[open[f]].st = "held"
    BY DEF IInv, Holding
  <2> QED BY <1>1, <1>2, <2>1
<1>4. Slot'
  BY <1>2 DEF IInv, Slot, Handling, Used, Current, state
<1>5. Used' = Used /\ \A i \in Used : clients[i] \in Fds
  BY <1>2, UsedSlots DEF IInv, Used, state
<1>6. Fresh'
  <2>1. read_fds \subseteq Fds
    BY DEF IInv, TypeOK
  <2>2. \A i \in Used : Awaited(i) => Awaited(i)'
    BY <1>2, <1>3, <1>5 DEF Awaited, state
  <2> QED BY <1>2, <1>3, <1>5, <2>1, <2>2 DEF IInv, Fresh, Handling
<1>7. \A i \in Used : open[clients[i]] = "free" => Handling' /\ i = worker'.i
  BY <1>2, Numbers DEF IInv, Table, Handling
<1> QED BY <1>1, <1>2, <1>4, <1>6, <1>7, StillInv DEF IInv, TypeOK

-----------------------------------------------------------------------------
(***************************************************************************)
(* select, the idle check, accept and the loop over the clients.           *)
(***************************************************************************)

\* While no client is being handled every used slot is open on a connection,
\* so that the sweep before select finds nothing to drop.
LEMMA AllOpen ==
  ASSUME IInv, ~Handling
  PROVE  /\ \A i \in Used : open[clients[i]] \in Conns
         /\ Swept = master_fds
<1>1. \A i \in Used : open[clients[i]] \in Conns
  BY DEF IInv, Table
<1>2. \A f \in master_fds : open[f] # "free"
  BY <1>1, Numbers DEF IInv, Table, TableFds
<1> QED BY <1>1, <1>2 DEF Swept

\* A call of select, whatever it returns, keeps the invariant.
LEMMA SelectInv ==
  IInv /\ (SelectReady \/ SelectTimeout \/ SelectInterrupted) => IInv'
<1> SUFFICES ASSUME IInv, SelectReady \/ SelectTimeout \/ SelectInterrupted PROVE IInv'
  OBVIOUS
<1> USE Numbers
<1>1. At("select") /\ ~Handling
  BY DEF SelectReady, SelectTimeout, SelectInterrupted, At, Handling
<1>2. Swept = master_fds /\ \A i \in Used : open[clients[i]] \in Conns
  BY <1>1, AllOpen
<1>3. /\ UNCHANGED <<state, open, conn>>
      /\ \A i \in Used : open[clients[i]] # "free"
  BY <1>2 DEF SelectReady, SelectTimeout, SelectInterrupted, state
<1>4. worker \in Worker /\ master_fds \subseteq Fds /\ conn \in [Conns -> Connection]
  BY DEF IInv, TypeOK
<1>5. CASE SelectReady
  <2>1. worker' = [pc |-> "accept", i |-> 0, got |-> "none", expired |-> worker.expired]
    BY <1>4, <1>5, WorkerGoto DEF SelectReady
  <2>2. worker' \in Worker
    BY <1>4, <2>1 DEF Worker
  <2>3. read_fds' = Ready /\ Ready \subseteq Fds
    BY <1>2, <1>4, <1>5 DEF SelectReady, Ready
  <2>4. \A f \in Ready : open[f] = "listen" \/ (open[f] \in Conns /\ HasInput(open[f]))
    BY DEF Ready, Readable
  <2>5. Slot' /\ Fresh'
    BY <1>3, <2>1, <2>3, <2>4 DEF Slot, Fresh, Handling, HasInput
  <2> QED BY <1>3, <1>4, <2>2, <2>3, <2>5, StillInv
<1>6. CASE SelectTimeout
  <2>1. worker' = [pc |-> "idle", i |-> 0, got |-> "none",
                   expired |-> {c \in Held : conn[c].old}]
    BY <1>6 DEF SelectTimeout
  <2>2. worker' \in Worker
    BY <2>1 DEF Worker, Held
  <2>3. Slot' /\ Fresh' /\ read_fds' \subseteq Fds
    BY <1>6, <2>1 DEF Slot, Fresh, Handling, SelectTimeout
  <2> QED BY <1>3, <1>4, <2>2, <2>3, StillInv
<1>7. CASE SelectInterrupted
  <2>1. worker' = worker /\ read_fds' = Swept
    BY <1>7 DEF SelectInterrupted
  <2>2. Slot' /\ Fresh'
    BY <1>1, <2>1 DEF Slot, Fresh, Handling, At
  <2> QED BY <1>2, <1>3, <1>4, <2>1, <2>2, StillInv
<1> QED BY <1>5, <1>6, <1>7

\* checkIdleConnections keeps the invariant: each expired client is removed once.
LEMMA IdleInv == IInv /\ (CheckIdle \/ CheckIdleDone) => IInv'
<1> SUFFICES ASSUME IInv, CheckIdle \/ CheckIdleDone PROVE IInv'
  OBVIOUS
<1> USE Numbers
<1>1. ~Handling /\ worker.pc = "idle"
  BY DEF CheckIdle, CheckIdleDone, At, Handling
<1>2. \A i \in Used : open[clients[i]] \in Conns
  BY <1>1, AllOpen
<1>3. worker \in Worker /\ conn \in [Conns -> Connection] /\ worker.i \in 0 .. MAX_CLIENTS
  BY DEF IInv, TypeOK, Worker
<1>4. CASE CheckIdle
  <2>1. worker.i \in Indices /\ Goto("idle", worker.i + 1) /\ UNCHANGED read_fds
    BY <1>3, <1>4, SelectAssumption DEF CheckIdle, Indices
  <2>2. worker' = [pc |-> "idle", i |-> worker.i + 1, got |-> "none",
                   expired |-> worker.expired]
    BY <1>3, <2>1, WorkerGoto
  <2>3. worker' \in Worker
    BY <1>3, <2>1, <2>2 DEF Worker
  <2>4. Slot' /\ Fresh'
    BY <2>2 DEF Slot, Fresh, Handling
  <2>5. CASE clients[worker.i] # NoFd /\ RemoveClient(worker.i)
    <3>1. worker.i \in Used
      BY <2>1, <2>5 DEF Used
    <3>2. /\ clients' \in [Indices -> Fds \cup {NoFd}]
          /\ client_count' \in 0 .. MAX_CLIENTS
          /\ max_fd' \in Fds /\ master_fds' \subseteq Fds
          /\ open' \in [Fds -> Conns \cup {"free", "listen", "file"}]
          /\ conn' \in [Conns -> Connection]
          /\ Table' /\ Holding' /\ Counted' /\ MaxFdCovers'
      BY <1>2, <2>5, <3>1, RemoveEffect
    <3>3. TypeOK'
      BY <2>1, <2>3, <3>2 DEF IInv, TypeOK
    <3> QED BY <2>4, <3>2, <3>3 DEF IInv
  <2>6. CASE UNCHANGED <<state, open, conn>>
    <3>1. read_fds' \subseteq Fds
      BY <2>1 DEF IInv, TypeOK
    <3> QED BY <1>2, <1>3, <2>3, <2>4, <2>6, <3>1, StillInv
  <2> QED BY <1>4, <2>5, <2>6 DEF CheckIdle
<1>5. CASE CheckIdleDone
  <2>1. worker' = [worker EXCEPT !.pc = "select", !.i = 0, !.expired = {}]
        /\ UNCHANGED <<state, read_fds, open, conn>>
    BY <1>5 DEF CheckIdleDone
  <2>2. ASSUME NEW r \in Worker, NEW q, q = [r EXCEPT !.pc = "select", !.i = 0, !.expired = {}]
        PROVE  q = [pc |-> "select", i |-> 0, got |-> r.got, expired |-> {}]
               /\ r.got \in {"none", "part", "whole"}
    <3>1. r = [pc |-> r.pc, i |-> r.i, got |-> r.got, expired |-> r.expired]
          /\ r.got \in {"none", "part", "whole"}
      BY <2>2 DEF Worker
    <3> QED BY <2>2, <3>1
  <2>3. worker' = [pc |-> "select", i |-> 0, got |-> worker.got, expired |-> {}]
        /\ worker.got \in {"none", "part", "whole"}
    BY <1>3, <2>1, <2>2
  <2>4. worker' \in Worker /\ Slot' /\ Fresh'
    BY <2>3 DEF Worker, Slot, Fresh, Handling
  <2>5. read_fds' \subseteq Fds
    BY <2>1 DEF IInv, TypeOK
  <2> QED BY <1>2, <1>3, <2>1, <2>4, <2>5, StillInv
<1> QED BY <1>4, <1>5

\* After select and before the loop, a used slot that select reported still has
\* something to receive, and a free descriptor was not reported.
LEMMA Reported ==
  ASSUME IInv, At("accept")
  PROVE  /\ \A i \in Used : open[clients[i]] \in Conns /\ clients[i] \in Fds /\ Awaited(i)
         /\ \A f \in read_fds : open[f] # "free"
<1> USE Numbers
<1>1. \A i \in Used : open[clients[i]] \in Conns
  BY AllOpen DEF At, Handling
<1>2. \A f \in read_fds : open[f] = "listen" \/ (open[f] \in Conns /\ HasInput(open[f]))
  BY DEF IInv, Fresh, At
<1>3. \A i \in Used : Awaited(i)
  BY <1>1, <1>2 DEF Awaited
<1>4. \A i \in Used : clients[i] \in Fds
  BY UsedSlots DEF IInv
<1> QED BY <1>1, <1>2, <1>3, <1>4

\* Accepting a connection into the table keeps the invariant.
LEMMA AcceptInv ==
  ASSUME IInv, NEW c \in Conns, Accept(c)
  PROVE  IInv'
<1> USE Numbers
<1>1. /\ At("accept") /\ ~Handling /\ ~Refused /\ Goto("scan", 0) /\ UNCHANGED read_fds
      /\ conn[c].st = "backlog" /\ conn' = [conn EXCEPT ![c].st = "held"]
  BY DEF Accept, At, Handling, Backlog
<1>2. PICK f \in Fds : open[f] = "free" /\ open' = [open EXCEPT ![f] = c] /\ AddClient(f)
  BY DEF Accept, LowestFree
<1>3. PICK i \in Indices :
        /\ clients[i] = NoFd
        /\ clients' = [clients EXCEPT ![i] = f]
        /\ master_fds' = master_fds \cup {f}
        /\ max_fd' = IF f > max_fd THEN f ELSE max_fd
        /\ client_count' = client_count + 1
  BY <1>2 DEF AddClient
<1>4. /\ clients \in [Indices -> Fds \cup {NoFd}] /\ worker \in Worker
      /\ open \in [Fds -> Conns \cup {"free", "listen", "file"}]
      /\ conn \in [Conns -> Connection]
      /\ max_fd \in Fds /\ master_fds \subseteq Fds /\ client_count \in 0 .. MAX_CLIENTS
  BY DEF IInv, TypeOK
<1>5. /\ \A j \in Used : open[clients[j]] \in Conns /\ clients[j] \in Fds /\ Awaited(j)
      /\ f \notin read_fds
  BY <1>1, <1>2, Reported
<1>6. /\ Used' = Used \cup {i} /\ i \notin Used
      /\ clients'[i] = f /\ \A j \in Used : clients'[j] = clients[j] /\ clients[j] # f
  <2>1. \A j \in Used : clients[j] # f
    BY <1>2, <1>5
  <2> QED BY <1>3, <1>4, <2>1 DEF Used
<1>7. TableFds' = TableFds \cup {f}
  BY <1>6 DEF TableFds
<1>8. /\ open'[f] = c /\ \A g \in Fds : g # f => open'[g] = open[g]
      /\ open' \in [Fds -> Conns \cup {"free", "listen", "file"}]
  BY <1>2, <1>4
<1>9. /\ conn' \in [Conns -> Connection] /\ conn'[c].st = "held"
      /\ \A d \in Conns : d # c => conn'[d] = conn[d]
  <2> DEFINE q == [conn[c] EXCEPT !.st = "held"]
  <2>1. conn[c] \in Connection
    BY <1>4
  <2>2. q = [st |-> "held", inbox |-> conn[c].inbox, fin |-> conn[c].fin, old |-> conn[c].old]
        /\ conn[c].inbox \in {"empty", "part", "whole"}
        /\ conn[c].fin \in BOOLEAN /\ conn[c].old \in BOOLEAN
    BY <2>1, ConnRecord
  <2>3. conn' = [conn EXCEPT ![c] = q]
    BY <1>1
  <2> HIDE DEF q
  <2>4. q \in Connection /\ q.st = "held"
    BY <2>2 DEF Connection
  <2> QED BY <1>4, <2>3, <2>4
<1>10. \A g \in Fds : open[g] # c
  BY <1>1 DEF IInv, Holding
<1>11. worker' = [pc |-> "scan", i |-> 0, got |-> "none", expired |-> worker.expired]
  BY <1>1, <1>4, WorkerGoto
<1>12. Table'
  <2>1. \A j, k \in Used' : clients'[j] = clients'[k] => j = k
    BY <1>6 DEF IInv, Table
  <2>2. master_fds' = TableFds' \cup {ListenFd}
    BY <1>3, <1>7 DEF IInv, Table
  <2>3. open'[ListenFd] = "listen"
    BY <1>2, <1>8 DEF IInv, Table
  <2>4. \A j \in Used' : open'[clients'[j]] \in Conns
    BY <1>5, <1>6, <1>8
  <2> QED BY <2>1, <2>2, <2>3, <2>4 DEF Table
<1>13. Holding'
  <2>1. \A g \in Fds : open'[g] \in Conns => g \in TableFds' /\ conn'[open'[g]].st = "held"
    BY <1>7, <1>8, <1>9, <1>10 DEF IInv, Holding
  <2>2. \A g, h \in Fds : open'[g] \in Conns /\ open'[g] = open'[h] => g = h
    BY <1>8, <1>10 DEF IInv, Holding
  <2>3. ASSUME NEW d \in Held' PROVE \E g \in Fds : open'[g] = d
    <3>1. CASE d = c
      BY <1>8, <3>1
    <3>2. CASE d # c
      <4>1. d \in Held
        BY <1>9, <2>3, <3>2 DEF Held
      <4>2. PICK g \in Fds : open[g] = d
        BY <4>1 DEF IInv, Holding
      <4>3. g # f
        BY <1>2, <4>1, <4>2 DEF Held
      <4> QED BY <1>8, <4>2, <4>3
    <3> QED BY <3>1, <3>2
  <2> QED BY <2>1, <2>2, <2>3 DEF Holding
<1>14. Counted' /\ client_count' \in 0 .. MAX_CLIENTS
  <2>1. IsFiniteSet(Used)
    BY UsedSlots DEF IInv
  <2>2. Cardinality(Used') = Cardinality(Used) + 1
    BY <1>6, <2>1, FS_AddElement
  <2>3. client_count < MAX_CLIENTS
    BY <1>1, <1>4, SelectAssumption DEF Refused
  <2> QED BY <1>3, <1>4, <2>2, <2>3, SelectAssumption DEF IInv, Counted
<1>15. MaxFdCovers' /\ max_fd' \in Fds /\ master_fds' \subseteq Fds
  <2>1. \A g \in master_fds : g <= max_fd
    BY DEF IInv, MaxFdCovers
  <2> QED BY <1>3, <1>4, <2>1 DEF MaxFdCovers
<1>16. Fresh'
  <2>1. ASSUME NEW j \in Used', clients'[j] \in read_fds' PROVE Awaited(j)'
    <3>1. j \in Used
      BY <1>1, <1>5, <1>6, <2>1
    <3>2. /\ open'[clients'[j]] = open[clients[j]] /\ open[clients[j]] \in Conns
          /\ HasInput(open[clients[j]]) /\ open[clients[j]] # c
      BY <1>1, <1>5, <1>6, <1>8, <1>10, <2>1, <3>1 DEF Awaited
    <3> QED BY <1>9, <3>2 DEF HasInput, Awaited
  <2>2. \A j \in Used' : Awaited(j)'
    BY <2>1 DEF Awaited
  <2> QED BY <1>11, <2>2 DEF Fresh, Handling
<1>17. Slot' /\ worker' \in Worker
  BY <1>4, <1>11 DEF Slot, Handling, Worker
<1>18. TypeOK'
  <2>1. clients' \in [Indices -> Fds \cup {NoFd}] /\ read_fds' \subseteq Fds
    BY <1>1, <1>3, <1>4 DEF IInv, TypeOK
  <2> QED BY <1>8, <1>9, <1>14, <1>15, <1>17, <2>1 DEF TypeOK
<1> QED BY <1>12, <1>13, <1>14, <1>15, <1>16, <1>17, <1>18 DEF IInv

\* An accept that yields nothing, or a connection that is refused, keeps it.
LEMMA NoAcceptInv ==
  IInv /\ (AcceptNothing \/ \E c \in Conns : AcceptRefused(c)) => IInv'
<1> SUFFICES ASSUME IInv, AcceptNothing \/ \E c \in Conns : AcceptRefused(c) PROVE IInv'
  OBVIOUS
<1> USE Numbers
<1>1. At("accept") /\ Goto("scan", 0) /\ UNCHANGED <<state, read_fds, open>>
  BY DEF AcceptNothing, AcceptRefused
<1>2. \A i \in Used : open[clients[i]] \in Conns /\ clients[i] \in Fds /\ Awaited(i)
  BY <1>1, Reported
<1>3. worker \in Worker /\ conn \in [Conns -> Connection] /\ read_fds' \subseteq Fds
  BY <1>1 DEF IInv, TypeOK
<1>4. worker' = [pc |-> "scan", i |-> 0, got |-> "none", expired |-> worker.expired]
  BY <1>1, <1>3, WorkerGoto
<1>5. worker' \in Worker /\ Slot'
  BY <1>3, <1>4 DEF Worker, Slot, Handling
<1>6. /\ conn' \in [Conns -> Connection]
      /\ \A d \in Conns : conn[d].st = "held" <=> conn'[d].st = "held"
      /\ \A d \in Conns : conn[d].st = "held" => conn'[d] = conn[d]
  <2>1. CASE UNCHANGED conn
    BY <1>3, <2>1
  <2>2. CASE \E c \in Conns : AcceptRefused(c)
    <3>1. PICK c \in Conns : conn[c].st = "backlog" /\ conn' = [conn EXCEPT ![c].st = "over"]
      BY <2>2 DEF AcceptRefused, Backlog
    <3> DEFINE q == [conn[c] EXCEPT !.st = "over"]
    <3>2. q = [st |-> "over", inbox |-> conn[c].inbox, fin |-> conn[c].fin,
               old |-> conn[c].old]
          /\ conn[c].inbox \in {"empty", "part", "whole"}
          /\ conn[c].fin \in BOOLEAN /\ conn[c].old \in BOOLEAN
      BY <1>3, ConnRecord
    <3>3. conn' = [conn EXCEPT ![c] = q]
      BY <3>1
    <3> HIDE DEF q
    <3>4. q \in Connection /\ q.st = "over"
      BY <3>2 DEF Connection
    <3> QED BY <1>3, <3>1, <3>3, <3>4
  <2> QED BY <2>1, <2>2 DEF AcceptNothing
<1>7. Fresh'
  <2>1. \A i \in Used : open[clients[i]] \in Conns /\ conn[open[clients[i]]].st = "held"
    BY <1>2 DEF IInv, Holding
  <2>2. Used' = Used /\ \A i \in Used : Awaited(i)'
    BY <1>1, <1>2, <1>6, <2>1 DEF Awaited, HasInput, Used, state
  <2> QED BY <1>4, <2>2 DEF Fresh, Handling
<1> QED BY <1>1, <1>2, <1>3, <1>5, <1>6, <1>7, StillInv

\* The loop over the clients keeps it.
LEMMA ScanInv == IInv /\ (Scan \/ ScanDone) => IInv'
<1> SUFFICES ASSUME IInv, Scan \/ ScanDone PROVE IInv'
  OBVIOUS
<1> USE Numbers
<1>1. At("scan") /\ ~Handling /\ UNCHANGED <<state, read_fds, open, conn>>
  BY DEF Scan, ScanDone, At, Handling
<1>2. \A i \in Used : open[clients[i]] \in Conns
  BY <1>1, AllOpen
<1>3. /\ worker \in Worker /\ conn \in [Conns -> Connection] /\ read_fds' \subseteq Fds
      /\ worker.i \in 0 .. MAX_CLIENTS
  BY <1>1 DEF IInv, TypeOK, Worker
<1>4. Used' = Used /\ \A i \in Used : Awaited(i) => Awaited(i)'
  BY <1>1 DEF Used, Awaited, HasInput, state
<1>5. \A i \in Used : i >= worker.i => Awaited(i)
  BY <1>1 DEF IInv, Fresh, At
<1>8. worker.i \in Int /\ \A i \in Used : i \in Int
  BY <1>3, SelectAssumption, UsedSlots DEF IInv
<1>6. CASE Scan
  <2>1. worker.i \in Indices
    BY <1>3, <1>6, SelectAssumption DEF Scan, Indices
  <2>2. CASE clients[worker.i] # NoFd /\ Goto("recv", worker.i)
    <3>1. worker' = [pc |-> "recv", i |-> worker.i, got |-> "none",
                     expired |-> worker.expired]
      BY <1>3, <2>2, WorkerGoto
    <3>2. worker' \in Worker /\ Slot'
      BY <1>3, <1>4, <2>1, <2>2, <3>1 DEF Worker, Slot, Handling, Used
    <3>3. Fresh'
      <4>1. \A i \in Used' : i >= worker'.i + (IF worker'.pc = "recv" THEN 1 ELSE 0)
                              => Awaited(i)'
        BY <1>4, <1>5, <1>8, <3>1
      <4> QED BY <1>4, <1>8, <3>1, <4>1 DEF Fresh, Handling
    <3> QED BY <1>1, <1>2, <1>3, <3>2, <3>3, StillInv
  <2>3. CASE Goto("scan", worker.i + 1)
    <3>1. worker' = [pc |-> "scan", i |-> worker.i + 1, got |-> "none",
                     expired |-> worker.expired]
      BY <1>3, <2>3, WorkerGoto
    <3>2. worker' \in Worker /\ Slot'
      BY <1>3, <2>1, <3>1 DEF Worker, Slot, Handling
    <3>3. Fresh'
      <4>1. \A i \in Used' : i >= worker'.i + (IF worker'.pc = "recv" THEN 1 ELSE 0)
                              => Awaited(i)'
        BY <1>4, <1>5, <1>8, <3>1
      <4> QED BY <1>4, <1>8, <3>1, <4>1 DEF Fresh, Handling
    <3> QED BY <1>1, <1>2, <1>3, <3>2, <3>3, StillInv
  <2> QED BY <1>6, <2>2, <2>3 DEF Scan
<1>7. CASE ScanDone
  <2>1. worker' = [pc |-> "select", i |-> 0, got |-> "none", expired |-> worker.expired]
    BY <1>3, <1>7, WorkerGoto DEF ScanDone
  <2>2. worker' \in Worker /\ Slot' /\ Fresh'
    BY <1>3, <2>1 DEF Worker, Slot, Fresh, Handling
  <2> QED BY <1>1, <1>2, <1>3, <2>2, StillInv
<1> QED BY <1>6, <1>7

-----------------------------------------------------------------------------
(***************************************************************************)
(* handleOneClientRequest.                                                 *)
(***************************************************************************)

\* Closing the client being handled, and opening a file or not before that,
\* keeps what relates the table and the descriptors.
LEMMA CloseCurrent ==
  ASSUME IInv, Handling, Handling', worker'.i = worker.i, UNCHANGED <<state, read_fds>>,
         worker' \in Worker, worker'.pc # "serve",
         NEW f \in Fds, NEW g \in Fds,
         f = Current, g # f => open[g] = "free",
         open' = [open EXCEPT ![g] = IF g = f THEN open[g] ELSE "file", ![f] = "free"],
         conn' \in [Conns -> Connection],
         \A c \in Conns : open[f] # c => conn'[c] = conn[c],
         \A c \in Conns : open[f] = c => conn'[c].st = "over"
  PROVE  IInv'
<1> USE Numbers
<1>1. /\ worker.i \in Used /\ clients[worker.i] = f
      /\ \A i \in Used : clients[i] \in Fds
      /\ Used' = Used /\ TableFds' = TableFds
  BY UsedSlots DEF IInv, Slot, Current, Used, TableFds, state
<1>2. /\ open \in [Fds -> Conns \cup {"free", "listen", "file"}]
      /\ open' \in [Fds -> Conns \cup {"free", "listen", "file"}]
      /\ open'[f] = "free"
      /\ \A h \in Fds : h # f => open'[h] = open[h] \/ (open[h] = "free" /\ open'[h] = "file")
  <2>1. open \in [Fds -> Conns \cup {"free", "listen", "file"}]
    BY DEF IInv, TypeOK
  <2>2. CASE g = f
    <3>1. open' = [open EXCEPT ![f] = "free"]
      BY <2>1, <2>2
    <3> QED BY <2>1, <3>1
  <2>3. CASE g # f
    <3>1. open' = [open EXCEPT ![g] = "file", ![f] = "free"]
      BY <2>3
    <3> QED BY <2>1, <2>3, <3>1
  <2> QED BY <2>2, <2>3
<1>3. \A i \in Used : i # worker.i =>
        /\ open[clients[i]] \in Conns /\ clients[i] # f
        /\ open'[clients[i]] = open[clients[i]]
        /\ open[clients[i]] # open[f]
        /\ conn'[open[clients[i]]] = conn[open[clients[i]]]
  <2> SUFFICES ASSUME NEW i \in Used, i # worker.i PROVE
        /\ open[clients[i]] \in Conns /\ clients[i] # f
        /\ open'[clients[i]] = open[clients[i]]
        /\ open[clients[i]] # open[f]
        /\ conn'[open[clients[i]]] = conn[open[clients[i]]]
    OBVIOUS
  <2>1. open[clients[i]] \in Conns /\ clients[i] # f
    BY <1>1 DEF IInv, Table
  <2>2. open'[clients[i]] = open[clients[i]]
    BY <1>1, <1>2, <2>1
  <2>3. open[clients[i]] # open[f]
    BY <1>1, <2>1 DEF IInv, Holding
  <2> QED BY <2>1, <2>2, <2>3
<1>4. Table'
  <2>1. open[f] # "listen"
    BY <1>1 DEF IInv, Table
  <2>2. open'[ListenFd] = "listen"
    BY <1>2, <2>1 DEF IInv, Table
  <2>3. \A i \in Used : open'[clients[i]] \in Conns \/ (open'[clients[i]] = "free" /\ i = worker.i)
    BY <1>1, <1>2, <1>3
  <2> QED BY <1>1, <2>2, <2>3 DEF IInv, Table, state
<1>5. Holding'
  <2>1. \A h \in Fds : open'[h] \in Conns => h # f /\ open'[h] = open[h]
    BY <1>2
  <2>2. ASSUME NEW h \in Fds, open'[h] \in Conns
        PROVE  h \in TableFds' /\ conn'[open'[h]].st = "held"
    <3>1. h # f /\ open'[h] = open[h] /\ h \in TableFds /\ conn[open[h]].st = "held"
      BY <2>1, <2>2 DEF IInv, Holding
    <3>2. open[h] # open[f]
      BY <2>2, <3>1 DEF IInv, Holding
    <3> QED BY <1>1, <2>2, <3>1, <3>2
  <2>3. \A h, k \in Fds : open'[h] \in Conns /\ open'[h] = open'[k] => h = k
    BY <2>1 DEF IInv, Holding
  <2>4. ASSUME NEW c \in Held' PROVE \E h \in Fds : open'[h] = c
    <3>1. c \in Conns /\ open[f] # c /\ conn[c].st = "held"
      BY <2>4 DEF Held
    <3>2. PICK h \in Fds : open[h] = c
      BY <3>1 DEF IInv, Holding, Held
    <3> QED BY <1>2, <3>1, <3>2
  <2> QED BY <2>2, <2>3, <2>4 DEF Holding
<1>6. Fresh'
  <2>1. \A i \in Used : i > worker.i => Awaited(i)
    BY DEF IInv, Fresh
  <2>2. \A i \in Used : i > worker.i => i # worker.i
    <3>1. worker.i \in Int /\ \A i \in Used : i \in Int
      BY <1>1, UsedSlots DEF IInv
    <3> QED BY <3>1
  <2>3. \A i \in Used : i > worker.i => Awaited(i)'
    <3> SUFFICES ASSUME NEW i \in Used, i > worker.i, clients[i] \in read_fds
                 PROVE  open'[clients[i]] \in Conns
                        /\ (conn'[open'[clients[i]]].inbox # "empty" \/ conn'[open'[clients[i]]].fin)
      BY DEF Awaited, HasInput, state
    <3>1. i # worker.i /\ open[clients[i]] \in Conns
          /\ (conn[open[clients[i]]].inbox # "empty" \/ conn[open[clients[i]]].fin)
      BY <2>1, <2>2 DEF Awaited, HasInput
    <3>2. open'[clients[i]] = open[clients[i]]
          /\ conn'[open[clients[i]]] = conn[open[clients[i]]]
      BY <1>3, <3>1
    <3> QED BY <3>1, <3>2
  <2> QED BY <1>1, <2>3 DEF Fresh, Handling
<1>7. Slot'
  BY <1>1 DEF Slot
<1>8. Counted' /\ MaxFdCovers' /\ TypeOK'
  BY <1>1, <1>2 DEF IInv, Counted, MaxFdCovers, TypeOK, state
<1> QED BY <1>4, <1>5, <1>6, <1>7, <1>8 DEF IInv

\* recv keeps the invariant.
LEMMA RecvInv == IInv /\ (RecvData \/ RecvFails \/ RecvEnd) => IInv'
<1> SUFFICES ASSUME IInv, RecvData \/ RecvFails \/ RecvEnd PROVE IInv'
  OBVIOUS
<1> USE Numbers
<1>1. /\ worker.pc = "recv" /\ Handling /\ UNCHANGED <<state, read_fds, open>>
      /\ worker.i \in Used
  BY DEF RecvData, RecvFails, RecvEnd, At, Handling, IInv, Slot
<1>2. /\ worker \in Worker /\ conn \in [Conns -> Connection] /\ read_fds' \subseteq Fds
      /\ worker.i \in 0 .. MAX_CLIENTS /\ worker.got \in {"none", "part", "whole"}
      /\ worker.expired \subseteq Conns
  BY <1>1 DEF IInv, TypeOK, Worker
<1>3. ASSUME NEW pc \in {"recv", "serve", "close"}, NEW got \in {"none", "part", "whole"},
             worker' = [pc |-> pc, i |-> worker.i, got |-> got, expired |-> worker.expired],
             pc = "serve" => open[Current] \in Conns,
             conn' \in [Conns -> Connection],
             \A c \in Conns : conn[c].st = "held" <=> conn'[c].st = "held",
             \A c \in Conns : c # open[Current] => conn'[c] = conn[c]
      PROVE  IInv'
  <2>1. worker' \in Worker /\ Handling' /\ worker'.i = worker.i /\ worker'.pc = pc
    BY <1>2, <1>3 DEF Worker, Handling
  <2>2. Slot'
    BY <1>1, <1>3, <2>1 DEF Slot, Used, Current, state
  <2>3. \A i \in Used : open[clients[i]] = "free" => i = worker.i
    BY DEF IInv, Table
  <2>4. Fresh'
    <3> SUFFICES ASSUME NEW i \in Used, i > worker.i, clients[i] \in read_fds
                 PROVE  open[clients[i]] \in Conns
                        /\ (conn'[open[clients[i]]].inbox # "empty" \/ conn'[open[clients[i]]].fin)
      BY <1>1, <2>1 DEF Fresh, Awaited, HasInput, Handling, Used, state
    <3>1. /\ open[clients[i]] \in Conns
          /\ conn[open[clients[i]]].inbox # "empty" \/ conn[open[clients[i]]].fin
      BY <1>1 DEF IInv, Fresh, Awaited, HasInput
    <3>2. i # worker.i /\ clients[i] \in Fds /\ clients[worker.i] \in Fds
      BY <1>1, UsedSlots DEF IInv
    <3>3. clients[i] # clients[worker.i]
      BY <1>1, <3>2 DEF IInv, Table
    <3>4. open[clients[i]] # open[Current]
      BY <3>1, <3>2, <3>3 DEF IInv, Holding, Current
    <3> QED BY <1>3, <3>1, <3>4
  <2> QED BY <1>1, <1>2, <1>3, <2>1, <2>2, <2>3, <2>4, StillInv
<1>4. CASE RecvData
  <2>1. PICK c \in Conns : c = open[Current] /\ conn' = [conn EXCEPT ![c].inbox = "empty"]
    BY <1>4 DEF RecvData
  <2> DEFINE q == [conn[c] EXCEPT !.inbox = "empty"]
  <2>2. /\ q = [st |-> conn[c].st, inbox |-> "empty", fin |-> conn[c].fin, old |-> conn[c].old]
        /\ conn[c].st \in {"away", "backlog", "held", "over"}
        /\ conn[c].fin \in BOOLEAN /\ conn[c].old \in BOOLEAN
    BY <1>2, ConnRecord
  <2>3. conn' = [conn EXCEPT ![c] = q]
    BY <2>1
  <2> HIDE DEF q
  <2>4. q \in Connection /\ q.st = conn[c].st
    BY <2>2 DEF Connection
  <2>5. /\ conn' \in [Conns -> Connection]
        /\ \A d \in Conns : conn[d].st = "held" <=> conn'[d].st = "held"
        /\ \A d \in Conns : d # open[Current] => conn'[d] = conn[d]
    BY <1>2, <2>1, <2>3, <2>4
  <2>6. \/ worker' = [worker EXCEPT !.got = "part"]
        \/ worker' = [worker EXCEPT !.pc = "serve", !.got = "whole"]
        \/ worker' = [worker EXCEPT !.pc = "close"]
    BY <1>4 DEF RecvData
  <2>7. CASE worker' = [worker EXCEPT !.got = "part"]
    <3>1. ASSUME NEW r \in Worker, NEW w, w = [r EXCEPT !.got = "part"]
          PROVE  w = [pc |-> r.pc, i |-> r.i, got |-> "part", expired |-> r.expired]
      <4>1. r = [pc |-> r.pc, i |-> r.i, got |-> r.got, expired |-> r.expired]
        BY <3>1 DEF Worker
      <4> QED BY <3>1, <4>1
    <3>2. worker' = [pc |-> "recv", i |-> worker.i, got |-> "part",
                     expired |-> worker.expired]
      BY <1>1, <1>2, <2>7, <3>1
    <3> QED BY <1>3, <2>5, <3>2
  <2>8. CASE worker' = [worker EXCEPT !.pc = "serve", !.got = "whole"]
    <3>1. worker' = [pc |-> "serve", i |-> worker.i, got |-> "whole",
                     expired |-> worker.expired]
      BY <1>2, <2>8, WorkerPcGot
    <3> QED BY <1>3, <2>1, <2>5, <3>1
  <2>9. CASE worker' = [worker EXCEPT !.pc = "close"]
    <3>1. worker' = [pc |-> "close", i |-> worker.i, got |-> worker.got,
                     expired |-> worker.expired]
      BY <1>2, <2>9, WorkerPc
    <3> QED BY <1>2, <1>3, <2>5, <3>1
  <2> QED BY <2>6, <2>7, <2>8, <2>9
<1>5. CASE RecvFails
  <2>1. worker' = [worker EXCEPT !.pc = "close"] /\ UNCHANGED conn
    BY <1>5 DEF RecvFails
  <2>2. worker' = [pc |-> "close", i |-> worker.i, got |-> worker.got,
                   expired |-> worker.expired]
    BY <1>2, <2>1, WorkerPc
  <2> QED BY <1>2, <1>3, <2>1, <2>2
<1>6. CASE RecvEnd
  <2>1. PICK pc \in {"serve", "close"} : worker' = [worker EXCEPT !.pc = pc]
    BY <1>6 DEF RecvEnd
  <2>2. open[Current] \in Conns /\ UNCHANGED conn
    BY <1>6 DEF RecvEnd
  <2>3. worker' = [pc |-> pc, i |-> worker.i, got |-> worker.got,
                   expired |-> worker.expired]
    BY <1>2, <2>1, WorkerPc
  <2> QED BY <1>2, <1>3, <2>2, <2>3
<1> QED BY <1>4, <1>5, <1>6

\* Serving a request and closing the connection keep it.
LEMMA ServeInv ==
  ASSUME IInv,
         CloseConn \/ \E keep \in BOOLEAN : ServeDone(keep) \/ ServeError(keep)
                                            \/ ServeLeaksFile(keep)
  PROVE  IInv'
<1> USE Numbers
<1>1. /\ worker.pc \in {"serve", "close"} /\ Handling /\ worker.i \in Used
      /\ UNCHANGED <<state, read_fds>>
  BY DEF CloseConn, ServeDone, ServeError, ServeLeaksFile, Serve, At, Handling, IInv, Slot
<1>2. /\ worker \in Worker /\ worker.i \in 0 .. MAX_CLIENTS /\ Current \in Fds
      /\ worker.expired \subseteq Conns /\ conn \in [Conns -> Connection]
      /\ open \in [Fds -> Conns \cup {"free", "listen", "file"}] /\ read_fds \subseteq Fds
  BY <1>1, UsedSlots DEF IInv, TypeOK, Worker, Current
<1>3. /\ worker' \in Worker /\ Handling' /\ worker'.i = worker.i
      /\ worker'.pc \in {"recv", "close", "check"}
  <2>1. PICK pc \in {"recv", "close", "check"} :
          worker' = [worker EXCEPT !.pc = pc, !.got = "none"]
    BY DEF CloseConn, ServeDone, ServeError, ServeLeaksFile, Serve
  <2>2. worker' = [pc |-> pc, i |-> worker.i, got |-> "none", expired |-> worker.expired]
    BY <1>2, <2>1, WorkerPcGot
  <2> QED BY <1>2, <2>2 DEF Worker, Handling
<1>4. CASE Close(Current)
  <2>1. /\ open' = [open EXCEPT ![Current] = "free"]
        /\ conn' \in [Conns -> Connection]
        /\ \A c \in Conns : open[Current] # c => conn'[c] = conn[c]
        /\ \A c \in Conns : open[Current] = c => conn'[c].st = "over"
    BY <1>2, <1>4, CloseEffect DEF IInv
  <2>2. open' = [open EXCEPT ![Current] = IF Current = Current THEN open[Current] ELSE "file",
                             ![Current] = "free"]
    BY <1>2, <2>1
  <2> QED BY <1>1, <1>2, <1>3, <2>1, <2>2, CloseCurrent
<1>5. CASE \E keep \in BOOLEAN : ServeLeaksFile(keep)
  <2>1. PICK g \in Fds : open[g] = "free"
                         /\ open' = [open EXCEPT ![g] = "file", ![Current] = "free"]
    BY <1>5 DEF ServeLeaksFile, LowestFree
  <2>2. open[Current] \in Conns /\ g # Current
    BY <1>5, <2>1 DEF ServeLeaksFile, Serve, At, IInv, Slot
  <2>3. conn' = [conn EXCEPT ![open[Current]].st = "over"]
    BY <1>5 DEF ServeLeaksFile
  <2> DEFINE c == open[Current]
             q == [conn[c] EXCEPT !.st = "over"]
  <2>4. /\ q = [st |-> "over", inbox |-> conn[c].inbox, fin |-> conn[c].fin, old |-> conn[c].old]
        /\ conn[c].inbox \in {"empty", "part", "whole"}
        /\ conn[c].fin \in BOOLEAN /\ conn[c].old \in BOOLEAN
    BY <1>2, <2>2, ConnRecord
  <2>5. conn' = [conn EXCEPT ![c] = q]
    BY <2>3
  <2> HIDE DEF q
  <2>6. q \in Connection /\ q.st = "over"
    BY <2>4 DEF Connection
  <2>7. /\ conn' \in [Conns -> Connection]
        /\ \A d \in Conns : open[Current] # d => conn'[d] = conn[d]
        /\ \A d \in Conns : open[Current] = d => conn'[d].st = "over"
    BY <1>2, <2>2, <2>5, <2>6
  <2>8. open' = [open EXCEPT ![g] = IF g = Current THEN open[g] ELSE "file",
                             ![Current] = "free"]
    BY <2>1, <2>2
  <2>9. /\ worker'.pc # "serve" /\ worker' \in Worker /\ Handling'
        /\ g # Current => open[g] = "free"
    BY <1>3, <2>1
  <2> HIDE DEF c
  <2> QED BY <1>1, <1>2, <1>3, <2>7, <2>8, <2>9, CloseCurrent
<1>6. CASE UNCHANGED <<open, conn>> /\ worker.pc = "serve"
  <2>1. open[Current] \in Conns
    BY <1>6 DEF IInv, Slot
  <2>2. \A i \in Used : open[clients[i]] # "free"
    BY <1>1, <2>1 DEF IInv, Table, Current
  <2>3. Slot' /\ Fresh'
    BY <1>1, <1>3, <1>6
       DEF IInv, Slot, Fresh, Handling, Awaited, HasInput, Used, Current, state
  <2> QED BY <1>1, <1>2, <1>3, <1>6, <2>2, <2>3, StillInv
<1> QED BY <1>4, <1>5, <1>6 DEF CloseConn, ServeDone, ServeError, Serve, At

\* The removal that follows keeps it.
LEMMA CheckInv == IInv /\ Check => IInv'
<1> SUFFICES ASSUME IInv, Check PROVE IInv'
  OBVIOUS
<1> USE Numbers
<1>1. /\ worker.pc = "check" /\ Handling /\ worker.i \in Used /\ worker.i \in Indices
      /\ Goto("scan", worker.i + 1) /\ UNCHANGED read_fds
  BY UsedSlots DEF Check, At, Handling, IInv, Slot
<1>2. /\ worker \in Worker /\ conn \in [Conns -> Connection] /\ read_fds' \subseteq Fds
      /\ worker.i \in Int /\ \A i \in Used : i \in Int
  BY <1>1, UsedSlots DEF IInv, TypeOK
<1>3. worker' = [pc |-> "scan", i |-> worker.i + 1, got |-> "none",
                 expired |-> worker.expired]
  BY <1>1, <1>2, WorkerGoto
<1>4. worker' \in Worker /\ Slot'
  BY <1>1, <1>2, <1>3 DEF Worker, Slot, Handling
<1>5. \A i \in Used : i # worker.i => open[clients[i]] \in Conns
  BY DEF IInv, Table
<1>6. \A i \in Used : i > worker.i => Awaited(i)
  BY <1>1 DEF IInv, Fresh
<1>7. \A i \in Int : i >= worker.i + 1 => i > worker.i
  BY <1>2
<1>8. CASE RemoveClient(worker.i)
  <2>1. /\ clients' \in [Indices -> Fds \cup {NoFd}]
        /\ client_count' \in 0 .. MAX_CLIENTS
        /\ max_fd' \in Fds /\ master_fds' \subseteq Fds
        /\ open' \in [Fds -> Conns \cup {"free", "listen", "file"}]
        /\ conn' \in [Conns -> Connection]
        /\ Used' = Used \ {worker.i}
        /\ \A j \in Used' : clients'[j] = clients[j] /\ open'[clients[j]] = open[clients[j]]
                            /\ open'[clients[j]] \in Conns
                            /\ conn'[open[clients[j]]] = conn[open[clients[j]]]
        /\ Table' /\ Holding' /\ Counted' /\ MaxFdCovers'
    BY <1>1, <1>5, <1>8, RemoveEffect
  <2>2. \A j \in Used' : j >= worker.i + 1 => Awaited(j)'
    <3> SUFFICES ASSUME NEW j \in Used', j >= worker.i + 1, clients[j] \in read_fds
                 PROVE  conn[open[clients[j]]].inbox # "empty" \/ conn[open[clients[j]]].fin
      BY <1>1, <2>1 DEF Awaited, HasInput
    <3> QED BY <1>2, <1>6, <1>7, <2>1 DEF Awaited, HasInput
  <2>3. Fresh'
    BY <1>3, <2>2 DEF Fresh, Handling
  <2>4. TypeOK'
    BY <1>2, <1>4, <2>1 DEF IInv, TypeOK
  <2> QED BY <1>4, <2>1, <2>3, <2>4 DEF IInv
<1>9. CASE open[Current] # "free" /\ UNCHANGED <<state, open, conn>>
  <2>1. \A i \in Used : open[clients[i]] # "free"
    BY <1>5, <1>9 DEF Current
  <2>2. \A j \in Used' : j >= worker.i + 1 => Awaited(j)'
    BY <1>1, <1>2, <1>6, <1>7, <1>9 DEF Awaited, HasInput, Used, state
  <2>3. Fresh'
    BY <1>3, <2>2 DEF Fresh, Handling
  <2> QED BY <1>2, <1>4, <1>9, <2>1, <2>3, StillInv
<1> QED BY <1>8, <1>9 DEF Check

-----------------------------------------------------------------------------
\* Every step keeps the invariant.
LEMMA NextInv == IInv /\ [Next]_vars => IInv'
<1> SUFFICES ASSUME IInv, [Next]_vars PROVE IInv'
  OBVIOUS
<1>1. CASE WorkerStep
  BY <1>1, SelectInv, IdleInv, AcceptInv, NoAcceptInv, ScanInv, RecvInv, ServeInv, CheckInv
     DEF WorkerStep
<1>2. CASE SelectInterrupted
  BY <1>2, SelectInv
<1>3. CASE Environment
  BY <1>3, EnvInv
<1>4. CASE UNCHANGED vars
  BY <1>4 DEF IInv, TypeOK, Slot, Table, Holding, Counted, MaxFdCovers, Fresh, Handling,
              Awaited, HasInput, Used, TableFds, Held, Current, vars, state
<1> QED BY <1>1, <1>2, <1>3, <1>4 DEF Next

\* The inductive invariant holds in every reachable state.
LEMMA Invariance == Spec => []IInv
<1> QED BY InitInv, NextInv, PTL DEF Spec

\* The state is well typed: no descriptor or count leaves its range.
THEOREM TypeCorrect == Spec => []TypeOK
<1>1. IInv => TypeOK
  BY DEF IInv
<1> QED BY <1>1, Invariance, PTL

\* select is always asked about every descriptor of the set.
THEOREM MaxFdCoversThm == Spec => []MaxFdCovers
<1>1. IInv => MaxFdCovers
  BY DEF IInv
<1> QED BY <1>1, Invariance, PTL

\* The connections held are as many as the used slots: a bijection.
LEMMA HeldCount ==
  ASSUME IInv, \A i \in Used : open[clients[i]] \in Conns
  PROVE  Held = {open[f] : f \in TableFds} /\ Cardinality(Held) = Cardinality(Used)
<1> DEFINE slot == [i \in Used |-> open[clients[i]]]
<1>1. IsFiniteSet(Used) /\ \A i \in Used : clients[i] \in Fds
  BY UsedSlots DEF IInv
<1>2. \A i \in Used : conn[open[clients[i]]].st = "held"
  BY <1>1 DEF IInv, Holding
<1>3. \A c \in Held : \E i \in Used : open[clients[i]] = c
  BY DEF IInv, Holding, TableFds, Held
<1>4. Held = {open[f] : f \in TableFds}
  BY <1>2, <1>3 DEF Held, TableFds
<1>5. \A i, j \in Used : open[clients[i]] = open[clients[j]] => i = j
  BY <1>1 DEF IInv, Holding, Table
<1>6. slot \in Bijection(Used, Held)
  <2>1. slot \in [Used -> Held]
    BY <1>2 DEF Held
  <2>2. \A i \in Used : slot[i] = open[clients[i]]
    OBVIOUS
  <2> HIDE DEF slot
  <2>3. slot \in Injection(Used, Held)
    BY <1>5, <2>1, <2>2 DEF Injection, IsInjective
  <2>4. slot \in Surjection(Used, Held)
    BY <1>3, <2>1, <2>2 DEF Surjection
  <2> QED BY <2>3, <2>4 DEF Bijection
<1>7. ExistsBijection(Used, Held)
  BY <1>6 DEF ExistsBijection
<1>8. Cardinality(Held) = Cardinality(Used)
  BY <1>1, <1>7, FS_Bijection
<1> QED BY <1>4, <1>8

\* Back in select, the table, the set of select, the count and the connections
\* the worker holds agree, whatever was closed and by whom.
THEOREM TableConsistentThm == Spec => []TableConsistent
<1>1. IInv => TableConsistent
  <2> SUFFICES ASSUME IInv, At("select") PROVE TableConsistent
    BY DEF TableConsistent
  <2>1. \A i \in Used : open[clients[i]] \in Conns
    BY AllOpen DEF At, Handling
  <2>2. Held = {open[f] : f \in TableFds} /\ Cardinality(Held) = Cardinality(Used)
    BY <2>1, HeldCount
  <2> QED BY <2>2 DEF TableConsistent, IInv, Table, Counted
<1> QED BY <1>1, Invariance, PTL

\* The loop handles a client only if what select said of it is still true.
THEOREM ReadinessNotStaleThm == Spec => ReadinessNotStale
<1> DEFINE Ok == At("scan") /\ worker'.pc = "recv" =>
                   open[clients[worker.i]] \in Conns /\ HasInput(open[clients[worker.i]])
<1>1. IInv /\ [Next]_vars => [Ok]_vars
  <2> SUFFICES ASSUME IInv, Next, At("scan"), worker'.pc = "recv"
               PROVE  open[clients[worker.i]] \in Conns /\ HasInput(open[clients[worker.i]])
    OBVIOUS
  <2>1. worker \in Worker
    BY DEF IInv, TypeOK
  <2>2. Scan \/ ScanDone
    BY DEF Next, WorkerStep, SelectReady, SelectTimeout, SelectInterrupted, CheckIdle,
           CheckIdleDone, AcceptNothing, Accept, AcceptRefused, RecvData, RecvFails, RecvEnd,
           ServeDone, ServeError, ServeLeaksFile, Serve, CloseConn, Check, Environment, At
  <2>3. ~Goto("select", 0) /\ ~Goto("scan", worker.i + 1)
    <3>1. Goto("select", 0) => worker'.pc = "select"
      BY <2>1, WorkerGoto
    <3>2. Goto("scan", worker.i + 1) => worker'.pc = "scan"
      BY <2>1, WorkerGoto
    <3> QED BY <3>1, <3>2
  <2>4. clients[worker.i] # NoFd /\ clients[worker.i] \in read_fds /\ worker.i < MAX_CLIENTS
    BY <2>2, <2>3 DEF Scan, ScanDone
  <2>5. worker.i \in Used /\ worker.i \in Int
    BY <2>1, <2>4, SelectAssumption DEF Worker, Used, Indices
  <2>6. Awaited(worker.i)
    BY <2>5 DEF IInv, Fresh, At
  <2> QED BY <2>4, <2>6 DEF Awaited
<1> QED BY <1>1, Invariance, PTL DEF Spec, ReadinessNotStale
=============================================================================

---------------------------- MODULE SelectServer ----------------------------
(***************************************************************************)
(* A worker in select mode: handleSelectEvents, handleOneClientRequest and *)
(* checkIdleConnections of server.c, the table of clients of               *)
(* select/select.c, and the part of the kernel they rely on: the           *)
(* descriptors of the process, the listening socket, and what recv says of *)
(* each connection.                                                        *)
(*                                                                         *)
(* The worker is one thread; what interleaves with it are the clients and  *)
(* the other workers, which accept from the same listening socket.  A step *)
(* of the worker is one select, accept or recv, or the handling of one     *)
(* request.  What a request says and how it is answered is left open here: *)
(* a step of Serve takes any outcome the HTTP handlers can have for the    *)
(* descriptors.                                                            *)
(***************************************************************************)
EXTENDS Integers, FiniteSets

CONSTANTS
  MAX_CLIENTS,   \* slots of the table (select.h; 1024 in the code)
  NOFILE,        \* limit on descriptors: the descriptors are below NOFILE
  Conns          \* connections of clients; one can be opened again later

ListenFd == 3    \* 0, 1 and 2 are the standard streams
NoFd == -1

ASSUME SelectAssumption ==
  /\ MAX_CLIENTS \in Nat
  /\ NOFILE \in Nat /\ NOFILE > ListenFd
  /\ Conns \cap {"free", "listen", "file"} = {}

Fds == ListenFd .. (NOFILE - 1)
Indices == 0 .. (MAX_CLIENTS - 1)

VARIABLES
  clients,        \* server_state.clients[i].fd, NoFd when the slot is free
  client_count,   \* server_state.client_count
  max_fd,         \* server_state.max_fd
  master_fds,     \* server_state.master_fds
  read_fds,       \* server_state.read_fds
  worker,         \* where the worker is: pc, index i, data received, expired
  open,           \* descriptor -> what it is open on, "free" if closed
  conn            \* the connections, seen from the network

state == <<clients, client_count, max_fd, master_fds>>
vars  == <<state, read_fds, worker, open, conn>>

Used == {i \in Indices : clients[i] # NoFd}
TableFds == {clients[i] : i \in Used}
Current == clients[worker.i]           \* the descriptor being handled

\* A connection: "away", in the "backlog", "held" by this worker, or "over":
\* closed here, or accepted by another worker.  inbox is what recv would
\* return: nothing, data that leaves a request incomplete, or data that
\* completes one.  fin: the client has closed or reset it.  old: it was
\* accepted more than 30 seconds ago.
Away == [st |-> "away", inbox |-> "empty", fin |-> FALSE, old |-> FALSE]

Backlog == {c \in Conns : conn[c].st = "backlog"}
Held == {c \in Conns : conn[c].st = "held"}
HasInput(c) == conn[c].inbox # "empty" \/ conn[c].fin

Readable(f) ==
  \/ open[f] = "listen" /\ Backlog # {}
  \/ open[f] \in Conns /\ HasInput(open[f])

LowestFree(f) == open[f] = "free" /\ \A g \in Fds : open[g] = "free" => f <= g

At(pc) == worker.pc = pc
Goto(pc, i) == worker' = [worker EXCEPT !.pc = pc, !.i = i, !.got = "none"]

\* close(f): a connection is over; a descriptor that is not open is EBADF.
Close(f) ==
  /\ open' = [open EXCEPT ![f] = "free"]
  /\ conn' = [c \in Conns |-> IF open[f] = c THEN [conn[c] EXCEPT !.st = "over"]
                                             ELSE conn[c]]

-----------------------------------------------------------------------------
(***************************************************************************)
(* select/select.c.                                                        *)
(***************************************************************************)

\* (bug) The new client is not counted.
AddClientUncounted(f) ==
  \E i \in Indices :
    /\ clients[i] = NoFd /\ \A j \in Indices : clients[j] = NoFd => i <= j
    /\ clients' = [clients EXCEPT ![i] = f]
    /\ master_fds' = master_fds \cup {f}
    /\ max_fd' = IF f > max_fd THEN f ELSE max_fd
    /\ UNCHANGED client_count

\* (bug) The new descriptor does not raise max_fd.
AddClientLow(f) ==
  \E i \in Indices :
    /\ clients[i] = NoFd /\ \A j \in Indices : clients[j] = NoFd => i <= j
    /\ clients' = [clients EXCEPT ![i] = f]
    /\ master_fds' = master_fds \cup {f}
    /\ client_count' = client_count + 1
    /\ UNCHANGED max_fd

\* addClientToSelect(f) for a free slot below the limit.
AddClient(f) ==
  \E i \in Indices :
    /\ clients[i] = NoFd /\ \A j \in Indices : clients[j] = NoFd => i <= j
    /\ clients' = [clients EXCEPT ![i] = f]
    /\ master_fds' = master_fds \cup {f}
    /\ max_fd' = IF f > max_fd THEN f ELSE max_fd
    /\ client_count' = client_count + 1

\* The two refusals of addClientToSelect: the limit, and no free slot.
Refused == client_count >= MAX_CLIENTS \/ Used = Indices

\* removeClientFromSelect(i), its close included.  When clients[i] was max_fd
\* the maximum is searched again, while the slot still holds its descriptor.
RemoveClient(i) ==
  LET fds == TableFds \cup {ListenFd}
  IN /\ clients[i] # NoFd
     /\ master_fds' = master_fds \ {clients[i]}
     /\ Close(clients[i])
     /\ \E m \in fds :
          /\ \A f \in fds : f <= m
          /\ max_fd' = IF clients[i] = max_fd THEN m ELSE max_fd
     /\ clients' = [clients EXCEPT ![i] = NoFd]
     /\ client_count' = client_count - 1

-----------------------------------------------------------------------------
(***************************************************************************)
(* handleSelectEvents.                                                     *)
(***************************************************************************)

\* The sweep over master_fds: descriptors that are not open are dropped.
Swept == {f \in master_fds : f <= max_fd => open[f] # "free"}

\* What select reports: it looks at the descriptors up to max_fd.
Ready == {f \in Swept : f <= max_fd /\ Readable(f)}

\* (bug) read_fds is not cleared before the call.
SelectReadyAdds ==
  /\ At("select") /\ Ready # {}
  /\ master_fds' = Swept
  /\ read_fds' = read_fds \cup Ready
  /\ Goto("accept", 0)
  /\ UNCHANGED <<clients, client_count, max_fd, open, conn>>

SelectReady ==
  /\ At("select") /\ Ready # {}
  /\ master_fds' = Swept
  /\ read_fds' = Ready
  /\ Goto("accept", 0)
  /\ UNCHANGED <<clients, client_count, max_fd, open, conn>>

\* Nothing for 5 seconds: checkIdleConnections, which reads the clock once.
SelectTimeout ==
  /\ At("select") /\ Ready = {}
  /\ master_fds' = Swept
  /\ read_fds' = {}
  /\ worker' = [pc |-> "idle", i |-> 0, got |-> "none",
                expired |-> {c \in Held : conn[c].old}]
  /\ UNCHANGED <<clients, client_count, max_fd, open, conn>>

\* A signal interrupts select (EINTR): read_fds is left as it was passed.
SelectInterrupted ==
  /\ At("select")
  /\ master_fds' = Swept
  /\ read_fds' = Swept
  /\ UNCHANGED <<clients, client_count, max_fd, worker, open, conn>>

\* One descriptor of the loop of checkIdleConnections.
CheckIdle ==
  LET i == worker.i
  IN /\ At("idle") /\ i < MAX_CLIENTS
     /\ Goto("idle", i + 1)
     /\ \/ /\ clients[i] # NoFd /\ open[clients[i]] \in worker.expired
           /\ RemoveClient(i)
        \/ /\ ~(clients[i] # NoFd /\ open[clients[i]] \in worker.expired)
           /\ UNCHANGED <<state, open, conn>>
     /\ UNCHANGED read_fds

CheckIdleDone ==
  /\ At("idle") /\ worker.i = MAX_CLIENTS
  /\ worker' = [worker EXCEPT !.pc = "select", !.i = 0, !.expired = {}]
  /\ UNCHANGED <<state, read_fds, open, conn>>

\* No accept: the listening socket was not ready, another worker took the
\* connection (EAGAIN), or there is no descriptor left (EMFILE).
AcceptNothing ==
  /\ At("accept")
  /\ \/ ListenFd \notin read_fds
     \/ Backlog = {}
     \/ \A f \in Fds : open[f] # "free"
  /\ Goto("scan", 0)
  /\ UNCHANGED <<state, read_fds, open, conn>>

\* accept returns the lowest free descriptor; the connection gets a slot ...
Accept(c) ==
  /\ At("accept") /\ ListenFd \in read_fds
  /\ c \in Backlog
  /\ ~Refused
  /\ \E f \in Fds :
       /\ LowestFree(f)
       /\ open' = [open EXCEPT ![f] = c]
       /\ AddClient(f)
  /\ conn' = [conn EXCEPT ![c].st = "held"]
  /\ Goto("scan", 0)
  /\ UNCHANGED read_fds

\* ... or is closed again.
AcceptRefused(c) ==
  /\ At("accept") /\ ListenFd \in read_fds
  /\ c \in Backlog
  /\ Refused
  /\ \E f \in Fds : open[f] = "free"
  /\ conn' = [conn EXCEPT ![c].st = "over"]
  /\ Goto("scan", 0)
  /\ UNCHANGED <<state, read_fds, open>>

\* (bug) The loop ends at client_count, as if the used slots came first.
ScanPacked ==
  LET i == worker.i
  IN /\ At("scan") /\ i < MAX_CLIENTS
     /\ IF i < client_count /\ clients[i] # NoFd /\ clients[i] \in read_fds
          THEN Goto("recv", i)
          ELSE Goto("scan", i + 1)
     /\ UNCHANGED <<state, read_fds, open, conn>>

\* The loop over the clients: those select reported are handled.
Scan ==
  LET i == worker.i
  IN /\ At("scan") /\ i < MAX_CLIENTS
     /\ IF clients[i] # NoFd /\ clients[i] \in read_fds
          THEN Goto("recv", i)
          ELSE Goto("scan", i + 1)
     /\ UNCHANGED <<state, read_fds, open, conn>>

ScanDone ==
  /\ At("scan") /\ worker.i = MAX_CLIENTS
  /\ Goto("select", 0)
  /\ UNCHANGED <<state, read_fds, open, conn>>

-----------------------------------------------------------------------------
(***************************************************************************)
(* handleOneClientRequest on the client of slot worker.i.  Its socket does *)
(* not block.                                                              *)
(***************************************************************************)

\* recv delivers data: recvRequest goes on until the request is complete, or
\* gives up when it is too large.
RecvData ==
  LET c == open[Current]
  IN /\ At("recv") /\ c \in Conns
     /\ conn[c].inbox # "empty"
     /\ conn' = [conn EXCEPT ![c].inbox = "empty"]
     /\ \/ /\ conn[c].inbox = "part"
           /\ worker' = [worker EXCEPT !.got = "part"]
        \/ /\ conn[c].inbox = "whole"
           /\ worker' = [worker EXCEPT !.pc = "serve", !.got = "whole"]
        \/ /\ worker.got = "part" /\ conn[c].inbox = "part"
           /\ worker' = [worker EXCEPT !.pc = "close"]
     /\ UNCHANGED <<state, read_fds, open>>

\* No data now (EAGAIN), or an error (reset by the client, or a descriptor the
\* handlers have already closed): recvRequest returns NULL.
RecvFails ==
  /\ At("recv")
  /\ \A c \in Conns : open[Current] = c => conn[c].inbox = "empty" \/ conn[c].fin
  /\ worker' = [worker EXCEPT !.pc = "close"]
  /\ UNCHANGED <<state, read_fds, open, conn>>

\* End of the connection: what has been received, if anything, is the request.
RecvEnd ==
  LET c == open[Current]
  IN /\ At("recv") /\ c \in Conns
     /\ conn[c].inbox = "empty" /\ conn[c].fin
     /\ worker' = [worker EXCEPT !.pc = IF worker.got = "part" THEN "serve" ELSE "close"]
     /\ UNCHANGED <<state, read_fds, open, conn>>

\* The request is dealt with; keep says whether the loop goes on.
Serve(keep) ==
  /\ At("serve")
  /\ worker' = [worker EXCEPT !.pc = IF keep THEN "recv" ELSE "close", !.got = "none"]
  /\ UNCHANGED <<state, read_fds>>

\* Answered, or not HTTP and ignored.  handleHttpRequest closes the
\* connection unless the client asked to keep it.
ServeDone(keep) ==
  /\ Serve(keep)
  /\ IF keep THEN UNCHANGED <<open, conn>> ELSE Close(Current)

\* An error (400, 404, a failed send): closed even if the client asked to keep
\* it; a part of a request is always answered so.
ServeError(keep) ==
  /\ Serve(keep)
  /\ Close(Current)

\* The header cannot be sent: the file that was opened for it stays open.
ServeLeaksFile(keep) ==
  /\ Serve(keep)
  /\ worker.got = "whole"
  /\ \E f \in Fds :
       /\ LowestFree(f)
       /\ open' = [open EXCEPT ![f] = "file", ![Current] = "free"]
  /\ conn' = [conn EXCEPT ![open[Current]].st = "over"]

\* The close at the end of handleOneClientRequest: the handlers may already
\* have closed the descriptor.
CloseConn ==
  /\ At("close")
  /\ Close(Current)
  /\ worker' = [worker EXCEPT !.pc = "check", !.got = "none"]
  /\ UNCHANGED <<state, read_fds>>

\* (bug) The removal is skipped.
CheckForgets ==
  /\ At("check")
  /\ Goto("scan", worker.i + 1)
  /\ UNCHANGED <<state, read_fds, open, conn>>

\* Back in handleSelectEvents: a client that has been closed is removed.
Check ==
  /\ At("check")
  /\ IF open[Current] = "free"
       THEN RemoveClient(worker.i)
       ELSE UNCHANGED <<state, open, conn>>
  /\ Goto("scan", worker.i + 1)
  /\ UNCHANGED read_fds

WorkerStep ==
  \/ SelectReady \/ SelectTimeout \/ CheckIdle \/ CheckIdleDone
  \/ AcceptNothing \/ \E c \in Conns : Accept(c) \/ AcceptRefused(c)
  \/ Scan \/ ScanDone
  \/ RecvData \/ RecvFails \/ RecvEnd
  \/ \E keep \in BOOLEAN : ServeDone(keep) \/ ServeError(keep) \/ ServeLeaksFile(keep)
  \/ CloseConn \/ Check

-----------------------------------------------------------------------------
(***************************************************************************)
(* The clients, the other workers and the clock.                           *)
(***************************************************************************)

Connected(c) == conn[c].st \in {"backlog", "held"}

Connect(c) ==
  /\ conn[c].st = "away"
  /\ conn' = [conn EXCEPT ![c] = [Away EXCEPT !.st = "backlog"]]

\* Data arrives: it completes a request, or it does not yet.
Send(c) ==
  /\ Connected(c) /\ ~conn[c].fin
  /\ conn[c].inbox # "whole"
  /\ \E data \in {"part", "whole"} : conn' = [conn EXCEPT ![c].inbox = data]

Finish(c) ==
  /\ Connected(c) /\ ~conn[c].fin
  /\ conn' = [conn EXCEPT ![c].fin = TRUE]

\* Another worker accepts the connection.
Steal(c) ==
  /\ conn[c].st = "backlog"
  /\ conn' = [conn EXCEPT ![c].st = "over"]

Depart(c) ==
  /\ conn[c].st = "over"
  /\ conn' = [conn EXCEPT ![c] = Away]

\* More than 30 seconds since connect_time.
Age(c) ==
  /\ conn[c].st = "held" /\ ~conn[c].old
  /\ conn' = [conn EXCEPT ![c].old = TRUE]

Environment ==
  /\ \E c \in Conns :
       Connect(c) \/ Send(c) \/ Finish(c) \/ Steal(c) \/ Depart(c) \/ Age(c)
  /\ UNCHANGED <<state, read_fds, worker, open>>

-----------------------------------------------------------------------------
\* initSocket in select mode.
Init ==
  /\ clients = [i \in Indices |-> NoFd]
  /\ client_count = 0
  /\ max_fd = ListenFd
  /\ master_fds = {ListenFd}
  /\ read_fds = {}
  /\ worker = [pc |-> "select", i |-> 0, got |-> "none", expired |-> {}]
  /\ open = [f \in Fds |-> IF f = ListenFd THEN "listen" ELSE "free"]
  /\ conn = [c \in Conns |-> Away]

Next == WorkerStep \/ SelectInterrupted \/ Environment

\* The worker is scheduled; nothing is assumed of the clients, and signals do
\* not keep it from getting through select for ever.
Spec == Init /\ [][Next]_vars /\ WF_vars(WorkerStep)

-----------------------------------------------------------------------------
(***************************************************************************)
(* Properties.                                                             *)
(***************************************************************************)

Worker == [pc : {"select", "idle", "accept", "scan", "recv", "serve", "close", "check"},
           i : 0 .. MAX_CLIENTS, got : {"none", "part", "whole"}, expired : SUBSET Conns]
Connection == [st : {"away", "backlog", "held", "over"}, inbox : {"empty", "part", "whole"},
               fin : BOOLEAN, old : BOOLEAN]

\* The type of the state.
TypeOK ==
  /\ clients \in [Indices -> Fds \cup {NoFd}]
  /\ client_count \in 0 .. MAX_CLIENTS
  /\ max_fd \in Fds
  /\ master_fds \subseteq Fds /\ read_fds \subseteq Fds
  /\ worker \in Worker
  /\ open \in [Fds -> Conns \cup {"free", "listen", "file"}]
  /\ conn \in [Conns -> Connection]

\* Whenever the worker is back in select, the four descriptions of its clients
\* agree: the slots hold different descriptors, each open on a connection;
\* these and the listening socket are what select is asked about; client_count
\* counts them; and no connection the worker holds is missing from the table,
\* where nothing would ever be received from it.  This takes every close of a
\* descriptor, by a handler, by handleOneClientRequest or by the idle check, to
\* be followed by exactly one removal (server.c:132, select.c:70-103).
TableConsistent ==
  At("select") =>
    /\ \A i, j \in Used : clients[i] = clients[j] => i = j
    /\ master_fds = TableFds \cup {ListenFd}
    /\ client_count = Cardinality(Used)
    /\ open[ListenFd] = "listen"
    /\ Held = {open[f] : f \in TableFds}
    /\ Cardinality(Held) = Cardinality(Used)

\* select looks below max_fd + 1 only (server.c:92): no descriptor it should
\* look at is above, whatever the order in which clients come and go.
MaxFdCovers == \A f \in master_fds : f <= max_fd

\* A connection is handled only if select reported that connection, and not an
\* earlier one with the same descriptor: there is something to receive, and the
\* worker does not close a client that has just connected because recv says
\* EAGAIN (server.c:111-137: descriptors are reused between select and the loop).
ReadinessNotStale ==
  [][At("scan") /\ worker'.pc = "recv" =>
       open[clients[worker.i]] \in Conns /\ HasInput(open[clients[worker.i]])]_vars

\* A client that has sent something is received from, or its connection is
\* over, as long as the worker gets back to select: one client can keep the
\* worker in the loop of handleOneClientRequest.
ReadableServed ==
  []<>At("select") =>
    \A c \in Conns : conn[c].st = "held" /\ HasInput(c) ~>
                       conn[c].st # "held" \/ ~HasInput(c)

-----------------------------------------------------------------------------
(***************************************************************************)
(* What the comments say and the code does not do (a run that expects a    *)
(* violation).                                                             *)
(***************************************************************************)

\* server.c:146: all the requests of a connection are handled; it is given up
\* when the client closes it, or when it is idle for long (server.c:185).
KeepAliveWaits ==
  [][At("recv") /\ worker'.pc = "close" /\ worker.got = "none" =>
       \A c \in Conns : open[Current] = c => conn[c].fin \/ conn[c].old]_vars
=============================================================================

------------------------------- MODULE Server -------------------------------
(***************************************************************************)
(* The whole server: the start (Startup), then the master and its workers  *)
(* as the abstract pool (WorkerPool, which Supervisor implements), which   *)
(* share one listening socket, and clients that connect to it.  A worker   *)
(* has its own copy of the descriptor, inherited from the master at fork;  *)
(* acceptClient closes that copy whenever accept fails, the SIGTERM that a *)
(* restarted worker handles included.  The port is in use as long as any   *)
(* process has a copy.  What happens on a connection is the subject of     *)
(* Connection, SelectServer and Transfer.                                  *)
(***************************************************************************)
EXTENDS Startup, FiniteSets, SequencesExt

CONSTANTS
  Pids,      \* of workers
  Limit,     \* MAX_PROCESS
  Clients,   \* connections
  PerWorker  \* bound: connections a worker in select mode holds

ASSUME ServerAssumption ==
  /\ Limit \in Nat \ {0} /\ PerWorker \in Nat \ {0} /\ IsFiniteSet(Clients)
  /\ "master" \notin Pids /\ "waiting" \notin Pids

VARIABLES
  phase, stopping, workers, doomed,   \* the pool, see WorkerPool
  holders,   \* processes that have the listening socket open
  mute,      \* workers whose accept has failed in blocking mode
  busy,      \* workers of select mode that are not in select, or come back to it
             \* without a descriptor for accept
  queue,     \* connections that wait to be accepted, in order
  held       \* the worker that has accepted a connection, or "none"

pool == <<phase, stopping, workers, doomed>>
network == <<holders, mute, busy, queue, held>>
vars == <<boot, pool, network>>

Pool == INSTANCE WorkerPool

HeldBy(p) == {c \in Clients : held[c] = p}
Alive == workers \ doomed

\* A worker of runServer that may call accept.
Free(p) ==
  /\ p \in Alive
  /\ \/ mode = "blocking" /\ HeldBy(p) = {}
     \/ mode = "select" /\ p \notin busy /\ Cardinality(HeldBy(p)) < PerWorker

-----------------------------------------------------------------------------
(***************************************************************************)
(* The processes.                                                          *)
(***************************************************************************)

\* main goes on from the start.
Boot ==
  /\ BootNext
  /\ holders' = IF pc' = "run" THEN {"master"} ELSE {}
  /\ UNCHANGED <<pool, mute, busy, queue, held>>

\* (bug) When the pool is full the master closes the listening socket, which it
\* does not use itself.
StartAndClose(p) ==
  /\ At("run") /\ Pool!Start(p)
  /\ holders' = (IF "master" \in holders THEN holders \cup {p} ELSE holders)
                \ (IF Cardinality(workers') = Limit THEN {"master"} ELSE {})
  /\ UNCHANGED <<boot, mute, busy, queue, held>>

\* fork: the worker has what the master has.
Start(p) ==
  /\ At("run") /\ Pool!Start(p)
  /\ holders' = holders \cup {p}
  /\ UNCHANGED <<boot, mute, busy, queue, held>>

\* When nobody has the listening socket any more, what is queued is reset.
Release(P) ==
  /\ holders' = holders \ P
  /\ queue' = IF holders \subseteq P THEN <<>> ELSE queue

\* A worker ends: its descriptors are closed.
Die(p) ==
  /\ At("run") /\ p \in Alive
  /\ Pool!Doom({p})
  /\ Release({p})
  /\ held' = [c \in Clients |-> IF held[c] = p THEN "none" ELSE held[c]]
  /\ UNCHANGED <<boot, mute, busy>>

Collect(p) ==
  /\ At("run") /\ Pool!Collect(p)
  /\ mute' = mute \ {p} /\ busy' = busy \ {p}
  /\ UNCHANGED <<boot, holders, queue, held>>

\* The master goes; whoever is left has been killed by then, and ends.
Leave ==
  /\ At("run") /\ Pool!Leave
  /\ Release(Pids \cup {"master"})
  /\ held' = [c \in Clients |-> "none"]
  /\ UNCHANGED <<boot, mute, busy>>

StopRequest == At("run") /\ Pool!RequestStop /\ UNCHANGED <<boot, network>>
Drain == At("run") /\ Pool!Drain /\ UNCHANGED <<boot, network>>

-----------------------------------------------------------------------------
(***************************************************************************)
(* runServer, as far as the listening socket goes.                         *)
(***************************************************************************)

\* In select mode one accept to a round: then come the clients.
Accept(p) ==
  /\ At("run") /\ Free(p) /\ p \in holders /\ queue # <<>>
  /\ busy' = IF mode = "select" THEN busy \cup {p} ELSE busy
  /\ held' = [held EXCEPT ![Head(queue)] = p]
  /\ queue' = Tail(queue)
  /\ UNCHANGED <<boot, pool, holders, mute>>

\* (bug) The socket is shut down, for all who share it.
AcceptFailsAll(p) ==
  /\ At("run") /\ Free(p) /\ p \in holders
  /\ mode = "blocking"
  /\ Release(holders)
  /\ mute' = mute \cup {p}
  /\ UNCHANGED <<boot, pool, busy, held>>

\* accept fails, or is interrupted: in blocking mode acceptClient closes the
\* listening socket, and the worker goes on with a closed descriptor.
AcceptFails(p) ==
  /\ At("run") /\ Free(p) /\ p \in holders
  /\ mode = "blocking"
  /\ Release({p})
  /\ mute' = mute \cup {p}
  /\ UNCHANGED <<boot, pool, busy, held>>

\* select reports a client and nothing to accept. The worker is in
\* handleOneClientRequest for as long as the client goes on.
Serve(p) ==
  /\ At("run") /\ mode = "select"
  /\ p \in Alive \ busy /\ HeldBy(p) # {}
  /\ queue = <<>> \/ ~Free(p)
  /\ busy' = busy \cup {p}
  /\ UNCHANGED <<boot, pool, holders, mute, queue, held>>

\* The round is over, and there is a descriptor left for accept.
Back(p) ==
  /\ p \in Alive \cap busy
  /\ busy' = busy \ {p}
  /\ UNCHANGED <<boot, pool, holders, mute, queue, held>>

\* The end of handleOneClientRequest, or a client that goes away.
CloseConn(c) ==
  /\ held[c] # "none"
  /\ held' = [held EXCEPT ![c] = "none"]
  /\ UNCHANGED <<boot, pool, holders, mute, busy, queue>>

\* A client connects: the port is open as long as somebody has the socket.
Connect(c) ==
  /\ holders # {}
  /\ held[c] = "none" /\ ~Contains(queue, c)
  /\ queue' = Append(queue, c)
  /\ UNCHANGED <<boot, pool, holders, mute, busy, held>>

Init ==
  /\ BootInit
  /\ Pool!Init
  /\ holders = {} /\ mute = {} /\ busy = {} /\ queue = <<>>
  /\ held = [c \in Clients |-> "none"]

Next ==
  \/ Boot \/ Leave \/ StopRequest \/ Drain
  \/ \E p \in Pids : Start(p) \/ Die(p) \/ Collect(p)
  \/ \E p \in Pids : Accept(p) \/ AcceptFails(p) \/ Serve(p) \/ Back(p)
  \/ \E c \in Clients : CloseConn(c) \/ Connect(c)

\* A worker that stays in accept, or in select, takes what is there. Nothing is
\* assumed of how long a client is served, nor of the processes.
Spec ==
  /\ Init /\ [][Next]_vars
  /\ \A p \in Pids : WF_vars(Accept(p))

-----------------------------------------------------------------------------
(***************************************************************************)
(* Properties.                                                             *)
(***************************************************************************)

\* The type of the state.
TypeOK ==
  /\ BootTypeOK
  /\ phase \in {"serving", "draining", "gone"} /\ stopping \in BOOLEAN
  /\ workers \subseteq Pids /\ doomed \subseteq workers /\ Cardinality(workers) <= Limit
  /\ holders \subseteq Pids \cup {"master"} /\ mute \subseteq workers
  /\ busy \subseteq workers
  /\ queue \in Seq(Clients) /\ Len(queue) <= Cardinality(Clients)
  /\ held \in [Clients -> Pids \cup {"none"}]

\* While the master is there nobody who waits is refused, and the socket is
\* there for the next worker: no failure and no death of workers closes the
\* port, and a worker can be without it only through its own failed accept
\* (socket.c:158-162, process.c:39, signals.c:88).
PortStaysOpen ==
  At("run") /\ phase # "gone" =>
    /\ "master" \in holders
    /\ Alive \ mute \subseteq holders

\* If from some time on no worker dies and no accept fails, no client waits for
\* ever while there is a free worker whose accept has never failed, be it one of
\* the first or one started in place of another: in blocking mode one without a
\* client, in select mode one that is in select (server.c:52-63, 110-120).
Waits(c) == Contains(queue, c)
WorkersLast == <>[][\A p \in Pids : ~Die(p) /\ ~AcceptFails(p)]_vars
WaitingServed ==
  WorkersLast =>
    \A c \in Clients :
      Waits(c) ~> ~Waits(c) \/ {p \in Pids : Free(p)} \ mute = {}
=============================================================================

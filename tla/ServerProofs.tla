---------------------------- MODULE ServerProofs ----------------------------
(***************************************************************************)
(* Proofs about the start and about the processes that share the listening *)
(* socket, for every set of command lines, every number of addresses, and  *)
(* every number of workers and clients.                                    *)
(***************************************************************************)
EXTENDS Server, FiniteSetTheorems, SequenceTheorems, TLAPS

\* The descriptor of sockfd is open from socket() to the end of the start, and
\* the address that is tried is one of the list.
Opened ==
  /\ pc \in {"parse", "resolve", "address", "failed", "crashed"} => fds = 0
  /\ pc \in {"setup", "nonblock", "listen", "run"} => fds = 1
  /\ st = "listening" <=> At("run")
  /\ At("setup") => addrs > 0

\* config is what the options read so far say.
Heard ==
  /\ argv = <<>> /\ At("parse") => mode = "blocking"
  /\ argv = <<>> /\ pc \notin {"parse", "failed", "crashed"} =>
       port = DefaultPort /\ mode = "blocking"
  /\ \A i \in DOMAIN argv :
       /\ LastOf(i, "p", optind) => port = argv[i].arg
       /\ LastOf(i, "m", optind) => mode = argv[i].arg

\* All of it has been read, and the host validated, before a socket is opened.
Configured ==
  pc \notin {"parse", "failed", "crashed"} =>
    /\ optind = Len(argv)
    /\ host \in {"address", "localhost"}

\* The socket is set up as config says.
SetUp ==
  /\ pc \in {"nonblock", "listen", "run"} => bound = Port(port)
  /\ pc \in {"parse", "resolve", "address", "setup", "nonblock"} => ~table /\ ~nonblock
  /\ At("nonblock") => mode = "select"
  /\ pc \in {"listen", "run"} =>
       /\ table <=> mode = "select"
       /\ nonblock <=> mode = "select"

BootInv == BootTypeOK /\ Opened /\ Heard /\ Configured /\ SetUp

\* Nothing happens to the pool before the start has succeeded.
Quiet == ~At("run") => workers = {} /\ mute = {} /\ busy = {} /\ holders = {} /\ queue = <<>>

\* A connection waits at most once.
QueueOnce == \A i, j \in DOMAIN queue : queue[i] = queue[j] => i = j

\* TypeOK without the bound on the queue, which follows from QueueOnce.
ProcessTypes ==
  /\ phase \in {"serving", "draining", "gone"} /\ stopping \in BOOLEAN
  /\ workers \subseteq Pids /\ doomed \subseteq workers
  /\ IsFiniteSet(workers) /\ Cardinality(workers) <= Limit
  /\ holders \subseteq Pids \cup {"master"} /\ mute \subseteq workers
  /\ busy \subseteq workers
  /\ queue \in Seq(Clients)
  /\ held \in [Clients -> Pids \cup {"none"}]

\* The inductive invariant.
IInv == BootInv /\ ProcessTypes /\ Quiet /\ QueueOnce /\ PortStaysOpen

-----------------------------------------------------------------------------
(***************************************************************************)
(* The start.                                                              *)
(***************************************************************************)

\* What the proofs need of the constants of the start.
LEMMA Numbers ==
  /\ MaxAddresses \in Nat /\ DefaultPort \in Int
  /\ 0 \in 0 .. MaxAddresses /\ 0 \in 0 .. PORTS - 1
BY StartupAssumption

\* A port in range survives the conversions.
LEMMA PortInRange ==
  /\ \A n \in 1 .. PORTS - 1 : Port(n) = n
  /\ \A n \in Int : Port(n) \in 0 .. PORTS - 1
BY StartupAssumption DEF Port

\* The types of options.
LEMMA Arguments ==
  ASSUME argv \in CommandLines
  PROVE  /\ Len(argv) \in Nat /\ DOMAIN argv = 1 .. Len(argv)
         /\ argv = <<>> <=> Len(argv) = 0
         /\ \A i \in 1 .. Len(argv) :
              /\ argv[i].opt \in {"h", "p", "a", "m"}
              /\ argv[i].opt = "p" => argv[i].arg \in Int
              /\ argv[i].opt = "a" => argv[i].arg \in {"address", "localhost", "name"}
              /\ argv[i].opt = "m" => argv[i].arg \in {"blocking", "select", "other"}
<1>1. argv \in Seq(Options)
  BY StartupAssumption
<1>2. /\ Len(argv) \in Nat /\ DOMAIN argv = 1 .. Len(argv)
      /\ argv = <<>> <=> Len(argv) = 0
      /\ \A i \in 1 .. Len(argv) : argv[i] \in Options
  BY <1>1
<1>3. ASSUME NEW o \in Options
      PROVE  /\ o.opt \in {"h", "p", "a", "m"}
             /\ o.opt = "p" => o.arg \in Int
             /\ o.opt = "a" => o.arg \in {"address", "localhost", "name"}
             /\ o.opt = "m" => o.arg \in {"blocking", "select", "other"}
  <2>1. CASE o \in [opt : {"h"}]
    BY <2>1
  <2>2. CASE o \in [opt : {"p"}, arg : Int]
    BY <2>2
  <2>3. CASE o \in [opt : {"a"}, arg : {"address", "localhost", "name"}]
    BY <2>3
  <2>4. CASE o \in [opt : {"m"}, arg : {"blocking", "select", "other"}]
    BY <2>4
  <2> QED BY <2>1, <2>2, <2>3, <2>4 DEF Options
<1> QED BY <1>2, <1>3

LEMMA BootInitial == BootInit => BootInv
<1> SUFFICES ASSUME BootInit PROVE BootInv
  OBVIOUS
<1>1. /\ Len(argv) \in Nat /\ DOMAIN argv = 1 .. Len(argv)
      /\ argv = <<>> <=> Len(argv) = 0
  BY Arguments DEF BootInit
<1>2. BootTypeOK
  <2>1. argv \in CommandLines /\ optind \in 0 .. Len(argv)
    BY <1>1 DEF BootInit
  <2>2. addrs \in 0 .. MaxAddresses /\ bound \in 0 .. PORTS - 1
    BY Numbers DEF BootInit
  <2>3. nonblock \in BOOLEAN /\ table \in BOOLEAN
    BY DEF BootInit
  <2>4. port \in Int /\ fds \in Nat
    BY DEF BootInit
  <2> QED BY <2>1, <2>2, <2>3, <2>4 DEF BootInit, BootTypeOK
<1>3. Opened /\ SetUp
  BY DEF BootInit, Opened, SetUp, At
<1>4. Heard /\ Configured
  BY <1>1 DEF BootInit, Heard, LastOf, Configured, At
<1> QED BY <1>2, <1>3, <1>4 DEF BootInv

\* An option is the last of its kind among those read, and leaves the last ones
\* of the other kinds what they are.
LEMMA OptionInv == BootInv /\ Option => BootInv'
<1> SUFFICES ASSUME BootInv, Option PROVE BootInv'
  OBVIOUS
<1> DEFINE o == argv[optind + 1]
<1>1. /\ optind \in Nat /\ Len(argv) \in Nat /\ optind < Len(argv)
      /\ DOMAIN argv = 1 .. Len(argv) /\ argv # <<>>
      /\ optind + 1 \in 1 .. Len(argv)
  BY Arguments DEF BootInv, BootTypeOK, Option
<1>2. /\ o.opt \in {"h", "p", "a", "m"}
      /\ o.opt = "p" => o.arg \in Int
      /\ o.opt = "a" => o.arg \in {"address", "localhost", "name"}
      /\ o.opt = "m" => o.arg \in {"blocking", "select", "other"}
  BY <1>1, Arguments DEF BootInv, BootTypeOK
<1>3. /\ pc = "parse" /\ pc' = "parse" /\ argv' = argv /\ optind' = optind + 1
      /\ UNCHANGED <<addrs, fds, st, bound, nonblock, table>>
      /\ port' = IF o.opt = "p" THEN o.arg ELSE port
      /\ host' = IF o.opt = "a" THEN o.arg ELSE host
      /\ mode' = IF o.opt = "m" THEN o.arg ELSE mode
  BY DEF Option, At, sock
<1> HIDE DEF o
<1>4. BootTypeOK'
  <2>1. optind' \in 0 .. Len(argv)'
    BY <1>1, <1>3
  <2>2. host' \in {"none", "address", "localhost", "name"} /\ port' \in Int
        /\ mode' \in {"blocking", "select", "other"}
    BY <1>2, <1>3 DEF BootInv, BootTypeOK
  <2> QED BY <1>3, <2>1, <2>2 DEF BootInv, BootTypeOK
<1>5. Heard'
  <2>1. ASSUME NEW i \in 1 .. Len(argv)
        PROVE  /\ LastOf(i, "p", optind + 1) => port' = argv[i].arg
               /\ LastOf(i, "m", optind + 1) => mode' = argv[i].arg
    <3>1. CASE i = optind + 1
      BY <3>1, <1>3 DEF LastOf, o
    <3>2. CASE i # optind + 1
      <4>1. ASSUME NEW k, LastOf(i, k, optind + 1)
            PROVE  LastOf(i, k, optind) /\ o.opt # k
        BY <3>2, <4>1, <1>1 DEF LastOf, o
      <4>2. /\ LastOf(i, "p", optind) => port = argv[i].arg
            /\ LastOf(i, "m", optind) => mode = argv[i].arg
        BY <1>1 DEF BootInv, Heard
      <4> QED BY <4>1, <4>2, <1>3
    <3> QED BY <3>1, <3>2
  <2>2. \A i \in DOMAIN argv' :
          /\ LastOf(i, "p", optind)' => port' = argv'[i].arg
          /\ LastOf(i, "m", optind)' => mode' = argv'[i].arg
    BY <2>1, <1>1, <1>3 DEF LastOf
  <2> QED BY <2>2, <1>1, <1>3 DEF Heard, At
<1>6. Opened' /\ Configured' /\ SetUp'
  BY <1>3 DEF BootInv, Opened, Configured, SetUp, At
<1> QED BY <1>4, <1>5, <1>6 DEF BootInv

\* What initSocket leaves alone.
LEMMA Onward ==
  ASSUME BootInv, UNCHANGED <<argv, optind, host, port, mode>>,
         pc \notin {"parse", "failed", "crashed"}, pc' # "parse"
  PROVE  Heard' /\ Configured'
BY DEF BootInv, Heard, Configured, LastOf, At

\* The other ends of parsing.
LEMMA ParseInv ==
  ASSUME BootInv, Defaults \/ Validate \/ OutOfMemory
  PROVE  BootInv'
<1>1. /\ Len(argv) \in Nat /\ DOMAIN argv = 1 .. Len(argv)
      /\ argv = <<>> <=> Len(argv) = 0 /\ optind \in 0 .. Len(argv)
  BY Arguments DEF BootInv, BootTypeOK
<1>2. CASE Defaults
  <2>1. /\ UNCHANGED <<argv, optind, mode, addrs, fds, st, bound, nonblock, table>>
        /\ pc = "parse" /\ pc' = "resolve" /\ argv = <<>>
        /\ host' = "address" /\ port' = DefaultPort
    BY <1>2 DEF Defaults, args, sock, At
  <2>2. BootTypeOK' /\ Opened' /\ SetUp'
    BY <2>1, Numbers DEF BootInv, BootTypeOK, Opened, SetUp, At
  <2>3. Heard' /\ Configured'
    BY <1>1, <2>1 DEF BootInv, Heard, LastOf, Configured, At
  <2> QED BY <2>2, <2>3 DEF BootInv
<1>3. CASE Validate
  <2>1. /\ UNCHANGED <<argv, optind, host, port, mode, addrs, fds, st, bound, nonblock, table>>
        /\ pc = "parse" /\ argv # <<>> /\ optind = Len(argv)
        /\ pc' \in {"resolve", "failed", "crashed"}
        /\ pc' = "resolve" => host \in {"address", "localhost"}
    <3>1. host \in {"none", "address", "localhost", "name"}
      BY DEF BootInv, BootTypeOK
    <3> QED BY <1>3, <3>1 DEF Validate, args, config, sock, At
  <2>2. BootTypeOK' /\ Opened' /\ SetUp'
    BY <2>1 DEF BootInv, BootTypeOK, Opened, SetUp, At
  <2>3. Heard' /\ Configured'
    BY <2>1 DEF BootInv, Heard, LastOf, Configured, At
  <2> QED BY <2>2, <2>3 DEF BootInv
<1>4. CASE OutOfMemory
  <2>1. /\ UNCHANGED <<argv, optind, host, port, mode, addrs, fds, st, bound, nonblock, table>>
        /\ pc = "parse" /\ pc' = "failed"
    BY <1>4 DEF OutOfMemory, args, config, sock, At
  <2>2. BootTypeOK' /\ Opened' /\ SetUp'
    BY <2>1 DEF BootInv, BootTypeOK, Opened, SetUp, At
  <2>3. Heard' /\ Configured'
    BY <2>1 DEF BootInv, Heard, LastOf, Configured, At
  <2> QED BY <2>2, <2>3 DEF BootInv
<1> QED BY <1>2, <1>3, <1>4

\* initSocket, call by call.
LEMMA SocketInv ==
  ASSUME BootInv,
         \/ \E n \in 0 .. MaxAddresses : Resolve(n)
         \/ OpenSocket \/ SocketFails \/ SetupFails \/ Bind \/ NoAddressLeft
         \/ NonBlock \/ Listen \/ LastCallFails
  PROVE  BootInv'
<1>0. /\ MaxAddresses \in Nat /\ Port(port) \in 0 .. PORTS - 1
  BY StartupAssumption, PortInRange DEF BootInv, BootTypeOK
<1>1. CASE \E n \in 0 .. MaxAddresses : Resolve(n)
  <2>0. PICK n \in 0 .. MaxAddresses : Resolve(n)
    BY <1>1
  <2>1. /\ UNCHANGED <<argv, optind, host, port, mode, fds, st, bound, nonblock, table>>
        /\ pc = "resolve" /\ pc' \in {"failed", "address"} /\ addrs' = n
    BY <1>0, <2>0 DEF Resolve, args, config, sock, At
  <2>2. Heard' /\ Configured'
    BY <2>1, Onward
  <2>3. BootTypeOK' /\ Opened' /\ SetUp'
    BY <1>0, <2>1 DEF BootInv, BootTypeOK, Opened, SetUp, At
  <2> QED BY <2>2, <2>3 DEF BootInv
<1>2. CASE OpenSocket
  <2>1. /\ UNCHANGED <<argv, optind, host, port, mode, addrs, bound, nonblock, table>>
        /\ pc = "address" /\ pc' = "setup" /\ addrs > 0
        /\ fds' = fds + 1 /\ st' = "open"
    BY <1>0, <1>2 DEF OpenSocket, args, config, At
  <2>2. Heard' /\ Configured'
    BY <2>1, Onward
  <2>3. BootTypeOK' /\ Opened' /\ SetUp'
    BY <1>0, <2>1 DEF BootInv, BootTypeOK, Opened, SetUp, At
  <2> QED BY <2>2, <2>3 DEF BootInv
<1>3. CASE SocketFails
  <2>1. /\ UNCHANGED <<argv, optind, host, port, mode, pc, fds, st, bound, nonblock, table>>
        /\ pc = "address" /\ addrs > 0 /\ addrs' = addrs - 1
    BY <1>0, <1>3 DEF SocketFails, args, config, sock, At
  <2>2. Heard' /\ Configured'
    BY <2>1, Onward
  <2>3. BootTypeOK' /\ Opened' /\ SetUp'
    BY <1>0, <2>1 DEF BootInv, BootTypeOK, Opened, SetUp, At
  <2> QED BY <2>2, <2>3 DEF BootInv
<1>4. CASE SetupFails
  <2>1. /\ UNCHANGED <<argv, optind, host, port, mode, bound, nonblock, table>>
        /\ pc = "setup" /\ pc' = "address" /\ addrs' = addrs - 1
        /\ fds' = fds - 1 /\ st' = "closed"
    BY <1>0, <1>4 DEF SetupFails, args, config, Close, At
  <2>2. Heard' /\ Configured'
    BY <2>1, Onward
  <2>3. BootTypeOK' /\ Opened' /\ SetUp'
    BY <1>0, <2>1 DEF BootInv, BootTypeOK, Opened, SetUp, At
  <2> QED BY <2>2, <2>3 DEF BootInv
<1>5. CASE Bind
  <2>1. /\ UNCHANGED <<argv, optind, host, port, mode, addrs, fds, nonblock, table>>
        /\ pc = "setup" /\ st' = "bound" /\ bound' = Port(port)
        /\ pc' = IF mode = "select" THEN "nonblock" ELSE "listen"
    BY <1>0, <1>5 DEF Bind, args, config, At
  <2>2. Heard' /\ Configured'
    BY <2>1, Onward
  <2>3. BootTypeOK' /\ Opened' /\ SetUp'
    BY <1>0, <2>1 DEF BootInv, BootTypeOK, Opened, SetUp, At
  <2> QED BY <2>2, <2>3 DEF BootInv
<1>6. CASE NoAddressLeft
  <2>1. /\ UNCHANGED <<argv, optind, host, port, mode, addrs, fds, st, bound, nonblock, table>>
        /\ pc = "address" /\ pc' = "failed"
    BY <1>0, <1>6 DEF NoAddressLeft, args, config, sock, At
  <2>2. Heard' /\ Configured'
    BY <2>1, Onward
  <2>3. BootTypeOK' /\ Opened' /\ SetUp'
    BY <1>0, <2>1 DEF BootInv, BootTypeOK, Opened, SetUp, At
  <2> QED BY <2>2, <2>3 DEF BootInv
<1>7. CASE NonBlock
  <2>1. /\ UNCHANGED <<argv, optind, host, port, mode, addrs, fds, st, bound>>
        /\ pc = "nonblock" /\ pc' = "listen" /\ nonblock' = TRUE /\ table' = TRUE
    BY <1>0, <1>7 DEF NonBlock, args, config, At
  <2>2. Heard' /\ Configured'
    BY <2>1, Onward
  <2>3. BootTypeOK' /\ Opened' /\ SetUp'
    BY <1>0, <2>1 DEF BootInv, BootTypeOK, Opened, SetUp, At
  <2> QED BY <2>2, <2>3 DEF BootInv
<1>8. CASE Listen
  <2>1. /\ UNCHANGED <<argv, optind, host, port, mode, addrs, fds, bound, nonblock, table>>
        /\ pc = "listen" /\ pc' = "run" /\ st' = "listening"
    BY <1>0, <1>8 DEF Listen, args, config, At
  <2>2. Heard' /\ Configured'
    BY <2>1, Onward
  <2>3. BootTypeOK' /\ Opened' /\ SetUp'
    BY <1>0, <2>1 DEF BootInv, BootTypeOK, Opened, SetUp, At
  <2> QED BY <2>2, <2>3 DEF BootInv
<1>9. CASE LastCallFails
  <2>1. /\ UNCHANGED <<argv, optind, host, port, mode, addrs, bound, nonblock, table>>
        /\ pc \in {"nonblock", "listen"} /\ pc' = "failed"
        /\ fds' = fds - 1 /\ st' = "closed"
    BY <1>0, <1>9 DEF LastCallFails, args, config, Close, At
  <2>2. Heard' /\ Configured'
    BY <2>1, Onward
  <2>3. BootTypeOK' /\ Opened' /\ SetUp'
    BY <1>0, <2>1 DEF BootInv, BootTypeOK, Opened, SetUp, At
  <2> QED BY <2>2, <2>3 DEF BootInv
<1> QED BY <1>1, <1>2, <1>3, <1>4, <1>5, <1>6, <1>7, <1>8, <1>9

LEMMA BootStep == BootInv /\ BootNext => BootInv'
BY OptionInv, ParseInv, SocketInv DEF BootNext

LEMMA BootStutter == BootInv /\ UNCHANGED boot => BootInv'
<1> SUFFICES ASSUME BootInv, UNCHANGED boot PROVE BootInv'
  OBVIOUS
<1>1. UNCHANGED <<pc, argv, optind, host, port, mode, addrs, fds, st, bound, nonblock, table>>
  BY DEF boot, args, config, sock
<1>2. BootTypeOK' /\ Opened' /\ Configured' /\ SetUp'
  BY <1>1 DEF BootInv, BootTypeOK, Opened, Configured, SetUp, At
<1>3. Heard'
  BY <1>1 DEF BootInv, Heard, LastOf, At
<1> QED BY <1>2, <1>3 DEF BootInv

-----------------------------------------------------------------------------
(***************************************************************************)
(* The processes and the clients.                                          *)
(***************************************************************************)

\* What the start does not touch and what it hands on: nothing, or the socket.
LEMMA BootInvStep == IInv /\ Boot => IInv'
<1> SUFFICES ASSUME IInv, Boot PROVE IInv'
  OBVIOUS
<1>1. BootInv'
  BY BootStep DEF IInv, Boot
<1>2. pc # "run"
  BY DEF Boot, BootNext, Defaults, Option, Validate, OutOfMemory, Resolve, OpenSocket,
         SocketFails, SetupFails, Bind, NoAddressLeft, NonBlock, Listen, LastCallFails, At
<1>3. /\ workers = {} /\ mute = {} /\ busy = {} /\ queue = <<>>
      /\ UNCHANGED <<phase, stopping, workers, doomed, mute, busy, queue, held>>
      /\ holders' = IF pc' = "run" THEN {"master"} ELSE {}
  BY <1>2 DEF IInv, Quiet, Boot, pool, At
<1>4. ProcessTypes' /\ Quiet' /\ PortStaysOpen'
  BY <1>3 DEF IInv, ProcessTypes, Quiet, PortStaysOpen, Alive, At
<1>5. QueueOnce'
  BY <1>3 DEF IInv, QueueOnce
<1> QED BY <1>1, <1>4, <1>5 DEF IInv

\* Whoever is left without the socket, the queue is what it was or empty.
LEMMA ReleaseQueue ==
  ASSUME IInv, NEW P, Release(P)
  PROVE  queue' \in Seq(Clients) /\ QueueOnce'
<1>1. queue' = queue \/ queue' = <<>>
  BY DEF Release
<1>2. CASE queue' = queue
  BY <1>2 DEF IInv, ProcessTypes, QueueOnce
<1>3. CASE queue' = <<>>
  BY <1>3 DEF QueueOnce
<1> QED BY <1>1, <1>2, <1>3

\* The steps of the pool.
LEMMA PoolInvStep ==
  ASSUME IInv,
         \/ Leave \/ StopRequest \/ Drain
         \/ \E p \in Pids : Start(p) \/ Die(p) \/ Collect(p)
  PROVE  IInv'
<1>0. ProcessTypes /\ Quiet /\ QueueOnce /\ PortStaysOpen /\ "master" \notin Pids
  BY ServerAssumption DEF IInv
<1>1. UNCHANGED boot /\ pc = "run" /\ pc' = "run"
  BY DEF Leave, StopRequest, Drain, Start, Die, Collect, At, boot
<1>2. BootInv'
  BY <1>1, BootStutter DEF IInv
<1>9. IsFiniteSet(workers) /\ Cardinality(workers) \in Nat /\ Limit \in Nat
  BY <1>0, FS_CardinalityType, ServerAssumption DEF ProcessTypes
<1>3. Quiet'
  BY <1>1 DEF Quiet, At
<1>4. ASSUME NEW p \in Pids, Start(p)
      PROVE  ProcessTypes' /\ QueueOnce' /\ PortStaysOpen'
  <2>1. /\ phase = "serving" /\ p \notin workers /\ Cardinality(workers) < Limit
        /\ workers' = workers \cup {p} /\ holders' = holders \cup {p}
        /\ UNCHANGED <<phase, stopping, doomed, mute, busy, queue, held>>
    <3>1. Pool!Cardinality(workers) = Cardinality(workers)
      BY DEF Pool!Cardinality, Cardinality
    <3> QED BY <1>4, <3>1 DEF Start, Pool!Start
  <2>2. IsFiniteSet(workers') /\ Cardinality(workers') <= Limit
    BY <1>9, <2>1, FS_AddElement
  <2>3. ProcessTypes'
    BY <1>0, <2>1, <2>2 DEF ProcessTypes
  <2>4. PortStaysOpen'
    BY <1>0, <1>1, <2>1 DEF PortStaysOpen, Alive, At
  <2>5. QueueOnce'
    BY <1>0, <2>1 DEF QueueOnce
  <2> QED BY <2>3, <2>4, <2>5
<1>5. ASSUME NEW p \in Pids, Die(p)
      PROVE  ProcessTypes' /\ QueueOnce' /\ PortStaysOpen'
  <2>1. /\ p \in workers /\ p \notin doomed /\ doomed' = doomed \cup {p}
        /\ holders' = holders \ {p} /\ Release({p})
        /\ held' = [c \in Clients |-> IF held[c] = p THEN "none" ELSE held[c]]
        /\ UNCHANGED <<phase, stopping, workers, mute, busy>>
    BY <1>5 DEF Die, Pool!Doom, Alive, Release
  <2>2. queue' \in Seq(Clients) /\ QueueOnce'
    BY <2>1, ReleaseQueue
  <2>3. held' \in [Clients -> Pids \cup {"none"}]
    BY <1>0, <2>1 DEF ProcessTypes
  <2>4. ProcessTypes'
    BY <1>0, <2>1, <2>2, <2>3 DEF ProcessTypes
  <2>5. PortStaysOpen'
    BY <1>0, <1>1, <2>1 DEF PortStaysOpen, Alive, At
  <2> QED BY <2>2, <2>4, <2>5
<1>6. ASSUME NEW p \in Pids, Collect(p)
      PROVE  ProcessTypes' /\ QueueOnce' /\ PortStaysOpen'
  <2>1. /\ p \in doomed /\ workers' = workers \ {p} /\ doomed' = doomed \ {p}
        /\ mute' = mute \ {p} /\ busy' = busy \ {p}
        /\ UNCHANGED <<phase, stopping, holders, queue, held>>
    BY <1>6 DEF Collect, Pool!Collect
  <2>2. IsFiniteSet(workers') /\ Cardinality(workers') <= Limit
    <3>1. /\ p \in workers /\ IsFiniteSet(workers \ {p})
          /\ Cardinality(workers \ {p}) = Cardinality(workers) - 1
      BY <1>0, <1>9, <2>1, FS_RemoveElement DEF ProcessTypes
    <3> QED BY <1>0, <1>9, <2>1, <3>1 DEF ProcessTypes
  <2>3. ProcessTypes'
    BY <1>0, <2>1, <2>2 DEF ProcessTypes
  <2>4. PortStaysOpen'
    BY <1>0, <1>1, <2>1 DEF PortStaysOpen, Alive, At
  <2>5. QueueOnce'
    BY <1>0, <2>1 DEF QueueOnce
  <2> QED BY <2>3, <2>4, <2>5
<1>7. ASSUME Leave PROVE ProcessTypes' /\ QueueOnce' /\ PortStaysOpen'
  <2>1. /\ phase' = "gone" /\ doomed' = workers
        /\ holders' = holders \ (Pids \cup {"master"}) /\ Release(Pids \cup {"master"})
        /\ held' = [c \in Clients |-> "none"]
        /\ UNCHANGED <<stopping, workers, mute, busy>>
    BY <1>7 DEF Leave, Pool!Leave, Release
  <2>2. queue' \in Seq(Clients) /\ QueueOnce'
    BY <2>1, ReleaseQueue
  <2>3. ProcessTypes'
    BY <1>0, <2>1, <2>2 DEF ProcessTypes
  <2> QED BY <2>1, <2>2, <2>3 DEF PortStaysOpen
<1>8. ASSUME StopRequest \/ Drain PROVE ProcessTypes' /\ QueueOnce' /\ PortStaysOpen'
  <2>1. /\ phase' \in {phase, "draining"}
        /\ phase' = "draining" => phase # "gone"
        /\ stopping' \in {stopping, TRUE}
        /\ UNCHANGED <<workers, doomed, holders, mute, busy, queue, held>>
    BY <1>0, <1>8 DEF StopRequest, Drain, Pool!RequestStop, Pool!Drain, network, ProcessTypes
  <2>2. stopping' \in BOOLEAN
    BY <1>0, <2>1 DEF ProcessTypes
  <2>4. ProcessTypes'
    BY <1>0, <2>1, <2>2 DEF ProcessTypes
  <2>5. PortStaysOpen'
    BY <1>0, <1>1, <2>1 DEF PortStaysOpen, Alive, At
  <2>3. QueueOnce'
    BY <1>0, <2>1 DEF QueueOnce
  <2> QED BY <2>3, <2>4, <2>5
<1> QED BY <1>2, <1>3, <1>4, <1>5, <1>6, <1>7, <1>8 DEF IInv

\* The steps of the listening socket and of the clients.
LEMMA NetworkInvStep ==
  ASSUME IInv,
         \/ \E p \in Pids : Accept(p) \/ AcceptFails(p) \/ Serve(p) \/ Back(p)
         \/ \E c \in Clients : CloseConn(c) \/ Connect(c)
  PROVE  IInv'
<1>0. ProcessTypes /\ Quiet /\ QueueOnce /\ PortStaysOpen /\ "master" \notin Pids
  BY ServerAssumption DEF IInv
<1>1. UNCHANGED <<phase, stopping, workers, doomed>> /\ UNCHANGED boot /\ pc' = pc
  BY DEF Accept, AcceptFails, Serve, Back, CloseConn, Connect, pool, boot
<1>2. BootInv'
  BY <1>1, BootStutter DEF IInv
<1>4. ASSUME NEW p \in Pids, Accept(p)
      PROVE  ProcessTypes' /\ Quiet' /\ QueueOnce' /\ PortStaysOpen'
  <2>1. /\ pc = "run" /\ queue # <<>> /\ queue' = Tail(queue)
        /\ p \in workers /\ busy' \in {busy, busy \cup {p}}
        /\ held' = [held EXCEPT ![Head(queue)] = p]
        /\ UNCHANGED <<holders, mute>>
    BY <1>4 DEF Accept, Free, Alive, At
  <2>2. /\ queue' \in Seq(Clients) /\ Len(queue') = Len(queue) - 1
        /\ \A i \in 1 .. Len(queue') : queue'[i] = queue[i + 1]
    BY <1>0, <2>1, HeadTailProperties DEF ProcessTypes
  <2>3. QueueOnce'
    <3>1. /\ Len(queue) \in Nat /\ DOMAIN queue = 1 .. Len(queue)
          /\ DOMAIN queue' = 1 .. Len(queue')
      BY <1>0, <2>2 DEF ProcessTypes
    <3>2. \A i, j \in 1 .. Len(queue) : queue[i] = queue[j] => i = j
      BY <1>0, <3>1 DEF QueueOnce
    <3>3. \A i \in 1 .. Len(queue') : i + 1 \in 1 .. Len(queue)
      BY <2>2, <3>1
    <3> QED BY <2>2, <3>1, <3>2, <3>3 DEF QueueOnce
  <2>4. ProcessTypes'
    BY <1>0, <1>1, <2>1, <2>2 DEF ProcessTypes
  <2>5. Quiet' /\ PortStaysOpen'
    BY <1>0, <1>1, <2>1 DEF Quiet, PortStaysOpen, Alive, At
  <2> QED BY <2>3, <2>4, <2>5
<1>5. ASSUME NEW p \in Pids, AcceptFails(p)
      PROVE  ProcessTypes' /\ Quiet' /\ QueueOnce' /\ PortStaysOpen'
  <2>1. /\ pc = "run" /\ p \in workers
        /\ holders' = holders \ {p} /\ mute' = mute \cup {p} /\ Release({p})
        /\ UNCHANGED <<busy, held>>
    BY <1>5 DEF AcceptFails, Free, Alive, Release, At
  <2>2. queue' \in Seq(Clients) /\ QueueOnce'
    BY <2>1, ReleaseQueue
  <2>3. ProcessTypes'
    BY <1>0, <1>1, <2>1, <2>2 DEF ProcessTypes
  <2>4. Quiet' /\ PortStaysOpen'
    BY <1>0, <1>1, <2>1 DEF Quiet, PortStaysOpen, Alive, At
  <2> QED BY <2>2, <2>3, <2>4
<1>6. ASSUME NEW c \in Clients, CloseConn(c)
      PROVE  ProcessTypes' /\ Quiet' /\ QueueOnce' /\ PortStaysOpen'
  <2>1. held' = [held EXCEPT ![c] = "none"] /\ UNCHANGED <<holders, mute, busy, queue>>
    BY <1>6 DEF CloseConn
  <2>2. ProcessTypes' /\ Quiet' /\ PortStaysOpen'
    BY <1>0, <1>1, <2>1 DEF ProcessTypes, Quiet, PortStaysOpen, Alive, At
  <2>3. QueueOnce'
    BY <1>0, <2>1 DEF QueueOnce
  <2> QED BY <2>2, <2>3
<1>7. ASSUME NEW c \in Clients, Connect(c)
      PROVE  ProcessTypes' /\ Quiet' /\ QueueOnce' /\ PortStaysOpen'
  <2>1. /\ holders # {} /\ queue' = Append(queue, c)
        /\ \A i \in 1 .. Len(queue) : queue[i] # c
        /\ UNCHANGED <<holders, mute, busy, held>>
    BY <1>7 DEF Connect, Contains
  <2>2. pc = "run"
    BY <1>0, <2>1 DEF Quiet, At
  <2>3. /\ queue' \in Seq(Clients) /\ Len(queue') = Len(queue) + 1
        /\ \A i \in 1 .. Len(queue) : queue'[i] = queue[i]
        /\ queue'[Len(queue) + 1] = c
    BY <1>0, <2>1, AppendProperties DEF ProcessTypes
  <2>4. QueueOnce'
    BY <1>0, <2>1, <2>3 DEF QueueOnce, ProcessTypes
  <2>5. ProcessTypes' /\ Quiet' /\ PortStaysOpen'
    BY <1>0, <1>1, <2>1, <2>2, <2>3 DEF ProcessTypes, Quiet, PortStaysOpen, Alive, At
  <2> QED BY <2>4, <2>5
<1>8. ASSUME NEW p \in Pids, Serve(p) \/ Back(p)
      PROVE  ProcessTypes' /\ Quiet' /\ QueueOnce' /\ PortStaysOpen'
  <2>1. /\ p \in workers /\ busy' \in {busy \cup {p}, busy \ {p}}
        /\ UNCHANGED <<holders, mute, queue, held>>
    BY <1>8 DEF Serve, Back, Alive
  <2>2. pc = "run"
    BY <1>0, <2>1 DEF Quiet, At
  <2>3. ProcessTypes' /\ Quiet' /\ PortStaysOpen'
    BY <1>0, <1>1, <2>1, <2>2 DEF ProcessTypes, Quiet, PortStaysOpen, Alive, At
  <2>4. QueueOnce'
    BY <1>0, <2>1 DEF QueueOnce
  <2> QED BY <2>3, <2>4
<1> QED BY <1>2, <1>4, <1>5, <1>6, <1>7, <1>8 DEF IInv

LEMMA Initial == Init => IInv
<1> SUFFICES ASSUME Init PROVE IInv
  OBVIOUS
<1>1. BootInv
  BY BootInitial DEF Init
<1>2. IsFiniteSet({}) /\ Cardinality({}) = 0
  BY FS_EmptySet
<1>3. ProcessTypes
  <2>1. Cardinality(workers) <= Limit /\ IsFiniteSet(workers)
    BY <1>2, ServerAssumption DEF Init, Pool!Init
  <2>2. stopping \in BOOLEAN
    BY DEF Init, Pool!Init
  <2>3. /\ phase = "serving" /\ workers = {} /\ doomed = {}
        /\ holders = {} /\ mute = {} /\ busy = {} /\ queue = <<>>
        /\ held = [c \in Clients |-> "none"]
    BY DEF Init, Pool!Init
  <2>4. queue \in Seq(Clients) /\ held \in [Clients -> Pids \cup {"none"}]
    BY <2>3
  <2> QED BY <2>1, <2>2, <2>3, <2>4 DEF ProcessTypes
<1>4. Quiet /\ QueueOnce /\ PortStaysOpen
  BY DEF Init, BootInit, Pool!Init, Quiet, QueueOnce, PortStaysOpen, At
<1> QED BY <1>1, <1>3, <1>4 DEF IInv

LEMMA Inductive == Spec => []IInv
<1>1. IInv /\ [Next]_vars => IInv'
  <2> SUFFICES ASSUME IInv, [Next]_vars PROVE IInv'
    OBVIOUS
  <2>1. CASE Next
    BY <2>1, BootInvStep, PoolInvStep, NetworkInvStep DEF Next
  <2>2. CASE UNCHANGED vars
    <3>1. UNCHANGED boot /\ pc' = pc
          /\ UNCHANGED <<phase, stopping, workers, doomed, holders, mute, busy, queue, held>>
      BY <2>2 DEF vars, boot, pool, network
    <3>2. BootInv'
      BY <3>1, BootStutter DEF IInv
    <3>3. ProcessTypes' /\ Quiet' /\ PortStaysOpen'
      BY <3>1 DEF IInv, ProcessTypes, Quiet, PortStaysOpen, Alive, At
    <3>4. QueueOnce'
      BY <3>1 DEF IInv, QueueOnce
    <3> QED BY <3>2, <3>3, <3>4 DEF IInv
  <2> QED BY <2>1, <2>2
<1> QED BY <1>1, Initial, PTL DEF Spec

-----------------------------------------------------------------------------
(***************************************************************************)
(* The theorems.                                                           *)
(***************************************************************************)

\* A queue in which nobody waits twice is no longer than there are clients.
LEMMA QueueBound == IInv => Len(queue) <= Cardinality(Clients)
<1> SUFFICES ASSUME IInv PROVE Len(queue) <= Cardinality(Clients)
  OBVIOUS
<1>1. queue \in Seq(Clients) /\ Len(queue) \in Nat
  BY DEF IInv, ProcessTypes
<1>2. queue \in Injection(1 .. Len(queue), Clients)
  BY <1>1 DEF IInv, QueueOnce, Injection, IsInjective
<1>3. IsFiniteSet(1 .. Len(queue)) /\ Cardinality(1 .. Len(queue)) = Len(queue)
  BY <1>1, FS_Interval
<1> QED BY <1>2, <1>3, FS_Injection, ServerAssumption

\* The type of the state.
THEOREM TypeCorrect == Spec => []TypeOK
<1>1. IInv => TypeOK
  BY QueueBound DEF IInv, BootInv, ProcessTypes, TypeOK
<1> QED BY <1>1, Inductive, PTL

\* A start that fails leaves no socket open, one that succeeds exactly one.
THEOREM StartClean == Spec => []OneSocketOrNone
<1>1. IInv => OneSocketOrNone
  BY DEF IInv, BootInv, Opened, OneSocketOrNone, At
<1> QED BY <1>1, Inductive, PTL

\* The server listens on the port, in the mode, that the last option said.
THEOREM StartAsTold == Spec => []ListensAsTold
<1>1. IInv => ListensAsTold
  <2> SUFFICES ASSUME IInv, st = "listening" PROVE ListensAsTold
    BY DEF ListensAsTold
  <2>1. pc = "run" /\ optind = Len(argv) /\ host \in {"address", "localhost"}
        /\ bound = Port(port) /\ port \in Int
    BY DEF IInv, BootInv, BootTypeOK, Opened, Configured, SetUp, At
  <2>2. argv = <<>> => bound = DefaultPort /\ mode = "blocking"
    BY <2>1, PortInRange, StartupAssumption DEF IInv, BootInv, Heard
  <2>3. \A i \in DOMAIN argv :
          /\ LastOf(i, "p", Len(argv)) /\ argv[i].arg \in 1 .. PORTS - 1 => bound = argv[i].arg
          /\ LastOf(i, "m", Len(argv)) => mode = argv[i].arg
    BY <2>1, PortInRange DEF IInv, BootInv, Heard
  <2> QED BY <2>1, <2>2, <2>3 DEF ListensAsTold
<1> QED BY <1>1, Inductive, PTL

\* The table of select mode is there, and the mode of the socket is set, before
\* anybody can connect.
THEOREM StartInOrder == Spec => []TableBeforeListen
<1>1. IInv => TableBeforeListen
  BY DEF IInv, BootInv, Opened, SetUp, TableBeforeListen, At
<1> QED BY <1>1, Inductive, PTL

\* No failure and no death of workers closes the port.
THEOREM PortOpen == Spec => []PortStaysOpen
<1>1. IInv => PortStaysOpen
  BY DEF IInv
<1> QED BY <1>1, Inductive, PTL
=============================================================================

------------------------------ MODULE Startup ------------------------------
(***************************************************************************)
(* From the command line to the listening socket, before any worker is     *)
(* forked: parseCommandParaments of parameter.c and initSocket of socket.c *)
(* as main calls them.  One step is one option, or one system call (those  *)
(* that set up one address are one step: whichever of them fails, the code *)
(* closes the socket and goes on to the next address).                     *)
(***************************************************************************)
EXTENDS Integers, Sequences

CONSTANTS
  CommandLines,   \* arguments of the program, each a sequence of options
  MaxAddresses,   \* bound: addresses a host name has
  PORTS,          \* numbers of an unsigned short (65536)
  DefaultPort     \* the port without any argument (9527)

\* An option: h is help, or one getopt does not know; the rest have an argument:
\* a number, the kind of host it names, or a mode.
Options ==
  [opt : {"h"}] \cup [opt : {"p"}, arg : Int]
  \cup [opt : {"a"}, arg : {"address", "localhost", "name"}]
  \cup [opt : {"m"}, arg : {"blocking", "select", "other"}]

ASSUME StartupAssumption ==
  /\ CommandLines \subseteq Seq(Options)
  /\ MaxAddresses \in Nat
  /\ PORTS \in Nat \ {0} /\ DefaultPort \in 1 .. PORTS - 1

VARIABLES
  pc,                 \* where main is
  argv, optind,       \* the arguments, and options read
  host, port, mode,   \* config
  addrs,              \* addresses left in the list of getaddrinfo
  fds, st, bound,     \* sockets open, state of sockfd, the port it is bound to
  nonblock,           \* it has O_NONBLOCK
  table               \* the fields of server_state have been set

args == <<argv, optind>>
config == <<host, port, mode>>
sock == <<fds, st, bound, nonblock>>
boot == <<pc, args, config, addrs, sock, table>>

At(l) == pc = l

-----------------------------------------------------------------------------
(***************************************************************************)
(* parseCommandParaments.                                                  *)
(***************************************************************************)

\* No arguments: the defaults, unvalidated.
Defaults ==
  /\ At("parse") /\ argv = <<>>
  /\ host' = "address" /\ port' = DefaultPort
  /\ pc' = "resolve"
  /\ UNCHANGED <<args, mode, addrs, sock, table>>

\* The next option.  A port out of range is reported, and used.
Option ==
  /\ At("parse") /\ optind < Len(argv)
  /\ optind' = optind + 1
  /\ LET o == argv[optind + 1]
     IN /\ port' = IF o.opt = "p" THEN o.arg ELSE port
        /\ host' = IF o.opt = "a" THEN o.arg ELSE host
        /\ mode' = IF o.opt = "m" THEN o.arg ELSE mode
  /\ UNCHANGED <<pc, argv, addrs, sock, table>>

\* (bug) Another host than an address is reported only.
ValidateNothing ==
  /\ At("parse") /\ argv # <<>> /\ optind = Len(argv)
  /\ pc' = IF host = "none" THEN "crashed" ELSE "resolve"
  /\ UNCHANGED <<args, config, addrs, sock, table>>

\* validateArgs; without an address it reads the null pointer.
Validate ==
  /\ At("parse") /\ argv # <<>> /\ optind = Len(argv)
  /\ pc' = CASE host \in {"address", "localhost"} -> "resolve"
             [] host = "name" -> "failed"
             [] host = "none" -> "crashed"
  /\ UNCHANGED <<args, config, addrs, sock, table>>

\* strdup finds no memory.
OutOfMemory ==
  /\ At("parse") /\ optind < Len(argv)
  /\ argv[optind + 1].opt \in {"a", "m"}
  /\ pc' = "failed"
  /\ UNCHANGED <<args, config, addrs, sock, table>>

-----------------------------------------------------------------------------
(***************************************************************************)
(* initSocket.                                                             *)
(***************************************************************************)

\* (bug) The port is printed as a signed short.
PortSigned(n) ==
  LET m == n % PORTS IN IF 2 * m >= PORTS THEN m - PORTS ELSE m

\* The port on its way from strtol to getaddrinfo: long, int, short, "%hu".
Port(n) == n % PORTS

\* getaddrinfo; 0 stands for its failure.
Resolve(n) ==
  /\ At("resolve")
  /\ addrs' = n
  /\ pc' = IF n = 0 THEN "failed" ELSE "address"
  /\ UNCHANGED <<args, config, sock, table>>

\* socket: the next address.
OpenSocket ==
  /\ At("address") /\ addrs > 0
  /\ fds' = fds + 1 /\ st' = "open"
  /\ pc' = "setup"
  /\ UNCHANGED <<args, config, addrs, bound, nonblock, table>>

SocketFails ==
  /\ At("address") /\ addrs > 0
  /\ addrs' = addrs - 1
  /\ UNCHANGED <<pc, args, config, sock, table>>

Close == fds' = fds - 1 /\ st' = "closed" /\ UNCHANGED <<bound, nonblock>>

\* (bug) One of the failures forgets the close.
SetupFailsOpen ==
  /\ At("setup")
  /\ addrs' = addrs - 1
  /\ pc' = "address"
  /\ UNCHANGED <<args, config, sock, table>>

\* setsockopt, bind or getprotobynumber fails.
SetupFails ==
  /\ At("setup")
  /\ Close
  /\ addrs' = addrs - 1
  /\ pc' = "address"
  /\ UNCHANGED <<args, config, table>>

Bind ==
  /\ At("setup")
  /\ st' = "bound" /\ bound' = Port(port)
  /\ pc' = IF mode = "select" THEN "nonblock" ELSE "listen"
  /\ UNCHANGED <<args, config, addrs, fds, nonblock, table>>

NoAddressLeft ==
  /\ At("address") /\ addrs = 0
  /\ pc' = "failed"
  /\ UNCHANGED <<args, config, addrs, sock, table>>

\* (bug) The table is left to the first use.
NonBlockOnly ==
  /\ At("nonblock")
  /\ nonblock' = TRUE
  /\ pc' = "listen"
  /\ UNCHANGED <<args, config, addrs, fds, st, bound, table>>

\* Select mode: O_NONBLOCK, and the fields of server_state.
NonBlock ==
  /\ At("nonblock")
  /\ nonblock' = TRUE
  /\ table' = TRUE
  /\ pc' = "listen"
  /\ UNCHANGED <<args, config, addrs, fds, st, bound>>

Listen ==
  /\ At("listen")
  /\ st' = "listening"
  /\ pc' = "run"
  /\ UNCHANGED <<args, config, addrs, fds, bound, nonblock, table>>

\* fcntl or listen fails.
LastCallFails ==
  /\ pc \in {"nonblock", "listen"}
  /\ Close
  /\ pc' = "failed"
  /\ UNCHANGED <<args, config, addrs, table>>

BootInit ==
  /\ pc = "parse" /\ argv \in CommandLines /\ optind = 0
  /\ host = "none" /\ port = 0 /\ mode = "blocking"
  /\ addrs = 0 /\ fds = 0 /\ st = "none" /\ bound = 0
  /\ nonblock = FALSE /\ table = FALSE

BootNext ==
  \/ Defaults \/ Option \/ Validate \/ OutOfMemory
  \/ \E n \in 0 .. MaxAddresses : Resolve(n)
  \/ OpenSocket \/ SocketFails \/ SetupFails \/ Bind \/ NoAddressLeft
  \/ NonBlock \/ Listen \/ LastCallFails

BootSpec == BootInit /\ [][BootNext]_boot

-----------------------------------------------------------------------------
(***************************************************************************)
(* Properties.                                                             *)
(***************************************************************************)

\* The type of the state.
BootTypeOK ==
  /\ pc \in {"parse", "resolve", "address", "setup", "nonblock", "listen", "run",
             "failed", "crashed"}
  /\ argv \in CommandLines /\ optind \in 0 .. Len(argv)
  /\ host \in {"none", "address", "localhost", "name"}
  /\ port \in Int /\ mode \in {"blocking", "select", "other"}
  /\ addrs \in 0 .. MaxAddresses
  /\ fds \in Nat /\ st \in {"none", "open", "bound", "listening", "closed"}
  /\ bound \in 0 .. PORTS - 1 /\ nonblock \in BOOLEAN /\ table \in BOOLEAN

\* Whichever calls fail for whichever addresses: a start that fails leaves no
\* socket open, and one that succeeds leaves exactly the listening one
\* (socket.c:67-148).
OneSocketOrNone ==
  /\ pc \in {"failed", "crashed"} => fds = 0
  /\ At("run") => fds = 1 /\ st = "listening"

\* Argument i is the last option of its kind among the first n.
LastOf(i, o, n) ==
  i \in 1 .. n /\ argv[i].opt = o /\ \A j \in i + 1 .. n : argv[j].opt # o

\* The server listens where it was told to, as far as it was told: a port in
\* range arrives unchanged through its three conversions, and without any
\* argument it is 9527; the host has been validated (parameter.c:53-115,
\* socket.c:37, 56).
ListensAsTold ==
  st = "listening" =>
    /\ host \in {"address", "localhost"}
    /\ argv = <<>> => bound = DefaultPort /\ mode = "blocking"
    /\ \A i \in DOMAIN argv :
         /\ LastOf(i, "p", Len(argv)) /\ argv[i].arg \in 1 .. PORTS - 1 => bound = argv[i].arg
         /\ LastOf(i, "m", Len(argv)) => mode = argv[i].arg

\* Before the socket listens, and thus before a worker that inherits it is
\* forked, select mode has its table, and only select mode does not block
\* (socket.c:110-143).
TableBeforeListen ==
  st = "listening" =>
    /\ table <=> mode = "select"
    /\ nonblock <=> mode = "select"
=============================================================================

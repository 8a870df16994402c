# Verification of minh-server

minh-server is a small pre-forking HTTP server in C: a master process forks four
workers that accept from one listening socket, serves static files, and restarts
workers that crash. This directory holds TLA+ models of it, the configurations
that model-check them with TLC, and proofs checked by TLAPS. Paths below are
relative to the repository (`src/`).

## 1. The system

| Part | State | Operations | Interacts with |
|---|---|---|---|
| Master (`process.c`) | `worker_pids[4]`, `server_running`, the loop variables of `runMutilProcessServer` | fork loop, supervision loop, shutdown wait, forced kill, final `waitpid` loop | is interrupted by the signal handlers, with which it shares `worker_pids` and `server_running`; forks the workers |
| Signal handlers (`signals.c`) | the same globals, locals of the handlers | `sigchldHandler`, `restartWorker`, `shutdownHandler`, `setupSignalHandlers` | interrupt the master and each other; `kill` and `waitpid` on the workers |
| Blocking loop (`server.c`) | the connection being served | `runServer`, `handleOneClientRequest` | `acceptClient`, `recvRequest`, the HTTP handlers |
| Select loop (`server.c`) | `server_state` | `handleSelectEvents`, `checkIdleConnections`, `handleOneClientRequest` | the client table, the kernel's descriptors; other workers compete for `accept` |
| Client table (`select/select.c`) | `clients[1024]`, `client_count`, `max_fd`, `master_fds`, `read_fds` | `addClientToSelect`, `removeClientFromSelect` (`cleanupSelectServer` is never called) | closes descriptors that the HTTP handlers also close |
| Socket layer (`socket.c`) | `sockfd`; the buffer of one `recvRequest` | `initSocket`, `acceptClient`, `recvRequest` and its four helpers | `recv` on a blocking (30 s, then 5 s timeout) or non-blocking socket |
| HTTP (`protocol/http/http.c`) | the request being parsed, the global `res` | `parseHttpRequest`, `handleHttpRequest`, GET/POST/HEAD handlers, `sendStaticFile`, `sendErrorResponse`, `shouldCloseConnection` | sends on and closes the connection |
| Protocol detection (`protocol.c`) | none | `detectProtocol` and the detectors | decides whether a request reaches HTTP |
| Parameters (`parameter.c`) | `config` | `parseCommandParaments`, `validateArgs` | mode, host and port for the rest |
| Entry, log, process names, MIME table, `www/` | - | start-up, output, data | - |

What is hard to get right, and to test:

* **Signals.** Three handlers with an empty `sa_mask` interrupt the master, and
  each other, at any instruction, and all of them write `worker_pids`. SIGCHLD
  does not queue. A restart sleeps inside a handler. Pids are reused.
* **Descriptors.** A client descriptor is closed by the HTTP handlers, then by
  `handleOneClientRequest`, then by `removeClientFromSelect`; numbers are reused
  at once, and `read_fds` is used after descriptors have been closed and opened.
* **Framing.** `recvRequest` must find the end of a request in a stream that
  arrives in pieces of any size, and what it takes too much is lost.
* **Three readers.** `recvRequest`, `detectProtocol` and `parseHttpRequest` each
  find the fields of a request in their own way, the first with an `int` length,
  and behind a `strlen` that stops at a zero byte.
* **Sends.** Every result of `send` that is not negative counts as success. On a
  non-blocking socket, or interrupted in a restarted worker, it may be short.
* **The shared listening socket.** All processes have a copy; `acceptClient` closes
  the copy of its process whenever `accept` fails.
* **Liveness.** The shutdown must end; zombies must go; a client must be served,
  and a client that goes away must release the worker.

What makes each part correct is stated under *Properties* at the end of its
module. `PROJECT.json` lists the hazards line by line, with the properties that
cover each.

## 2. Modules

### `Supervisor` - master, signal handlers, workers as processes

| State | Code |
|---|---|
| `worker_pids`, `server_running` | the globals of `signals.c` |
| `main` | program counter, `i`, `pid`, `timeout` of `runMutilProcessServer` |
| `chld`, `shut[s]` | frames of `sigchldHandler` + `restartWorker`, and of `shutdownHandler` for SIGINT and SIGTERM |
| `level`, `depth` | how the active handlers are nested |
| `pending`, `proc`, `pend`, `info` | kernel: signals pending for the master; for each pid its state, pending signals, exit status, dispositions and copy of `worker_pids` |
| `crashes`, `signals` | budgets (bounds) |

A step is one read or write of shared memory, or one system call. A handler is
taken up between any two steps, unless its own signal is blocked because it is
already active. The innermost handler runs. `if (worker_pids[i] > 0)
kill(worker_pids[i], ...)` is two steps: the source reads the slot twice, and the
`Makefile` asks for no optimisation that would merge the reads. The scan of all slots
in the shutdown wait (`process.c:91-96`) is one step, because a slot that is
empty then stays empty (`NoLateRestart`). `usleep` and `sleep` are no steps: they
only make interleavings likely that are possible anyway.

A restarted worker is forked in the handler, with the dispositions and blocked
signals of that moment, and `ResetSignal` is only for workers of the fork loop.
`kill(0, s)` reaches the whole process group. A worker can end by a signal or by
a crash (SIGSEGV, SIGABRT, the OOM killer); it cannot call `exit`, because
`runServer` does not return. When the master is gone, init collects its children.

### `WorkerPool` - what the master promises

The abstract specification of the master: a pool of at most `Limit` workers that
is filled in the phase "serving", from which workers are only collected once
"draining" has begun, and in which every worker is doomed (ended, or with SIGKILL
pending) when the master is "gone". No slots, signals or handlers.
`Supervisor!ImplementsPool` states that `Supervisor` implements it; the phase is
read off the program counter (`Phase`), the pool is the set of pids in use, zombies
included, and a stop is requested when `server_running` is cleared.

### `SelectServer` - a worker in select mode

`clients`, `client_count`, `max_fd`, `master_fds`, `read_fds` are the fields of
`server_state`; `open` maps each descriptor of the process to what it is open on;
`conn` is what the network knows of each connection. One step is one `select`,
`accept` or `recv`, or the handling of one request. Environment steps (clients
that connect, send parts, finish; another worker that accepts; the clock) happen
between any two steps of the worker. What a request says is left open: `Serve...`
takes every outcome the HTTP handlers have for descriptors, among them closing
while the loop goes on, and losing the `FILE` (`http.c:123-128`).

The sweep of `master_fds` before `select` is modelled (`Swept`); the proof shows
that it never finds anything, so it cannot hide a lost removal.

### `Connection` - a worker in blocking mode and its client

The stream of a connection is a sequence of units: request lines, header fields,
blank lines, ends of chunked bodies, zero bytes, control characters, other data. A
request is a header (line, fields, blank line) and a body, and a body is made of any
of these: it may read as a request, and what one reader takes for a body another
may take for a header. Each unit knows at which place of which request it stands.
The client writes them, and `recv` returns them, in pieces of any size.

`Complete` is the test `recvRequest` makes after each `recv`, with the blank line where
`findHttpHeaderEnd` finds it: wherever there is one in what has been received, be it
in what was left of a body. `Seen` is what `strlen` leaves of the request (`Cut`);
`Http` and `Ignorable` are the verdict of `detectProtocol` on it, both possible when a
control character may lie before or behind the first 100 bytes; `Parses` is
what `parseHttpRequest` accepts. The actions `Nothing`, `Ignore` ... `NotImplemented` are
the ways a request is dealt with, each with what it sends, whether it closes the
descriptor and whether the loop goes on. The client may stop at any point, close,
reset, or stop reading (`send` then blocks).

`NothingAnsweredTwice` and `ResetReleases` are about every client. A body that is left
over because it has no length can be answered, as it can in the code: what holds is
that the answers go forward in the stream, and that a file is sent only for a GET
line that stands where the answered buffer begins.

The rest is promised to clients of a kind, which the module names.
`PatientClients` send delimited requests, each after the answer to the last:
`Delimited` is a request whose end `recvRequest` can find (no body for GET, HEAD and
DELETE, a positive `Content-Length`, or chunks; not more than `MAX_REQUEST`),
whatever its body is made of. For others the code promises nothing: the remainder of
a pipelined request is swallowed, and a body without a length is cut where `recv`
happens to cut it. A delimited request with a zero byte behind the beginning of a body of
declared length (`Spoilt`) is answered 400, because the parser compares the length
with `strlen`; the properties say so. `AnsweredClients` leave out HEAD and POST, which get
no response at all, and control characters in bodies, which make the server ignore
the request if they come early. `MCConnection` has TLC evaluate that the requests of
the run `connection` are of this kind.

Assumed of requests: the path contains a slash, there are at most 20 fields, the
`Connection` field is well formed, and the units are what the comment on `Parts` says of
their text. How the readers see spellings of fields is the subject of `RequestText`.

### `HttpSession` - what a connection is promised

The abstract specification of one connection: no stream, buffer or descriptor,
only the requests sent, whether the last is still being written, and the answers.
An answer is to the next request, comes only when all of it has been written, and
has a status that is right for it; the connection is given up only while nothing
is due, or after an answer that has said so, or when the client has ended it. Two
exceptions are stated as such: a 501 announces `close` and does not close, and a
request whose body the server cannot read (`Unreadable`, in the mapping `Spoilt`) is
answered 400.
`Connection!ImplementsSession` states that `Connection` implements it, for requests
whose length the header tells; the mapping reads `st` off the client, and
"closing" off the program counter.

### `Transfer` - what a client receives

The responses of one connection unit by unit (a header, or a piece of a body)
through `fread`, `send` and the send buffer of the socket. `call` is the `send` under
way: the units it has not copied, and whether it has copied some. `Copy`,
`WouldBlock`, `Interrupted`, `Broken` are the ways `send` goes on or returns, and
`Succeeds` / `Fails` what `sendStaticFile` and `sendErrorResponse` do next - `Succeeds`
for every count, also a short one. `mode` tells a blocking socket, a non-blocking
one, and that of a worker which `restartWorker` has forked: it has the master's
SIGTERM handler, installed without `SA_RESTART`, which ends a `send` that waits.
The client counts up to `Content-Length`, may stop reading, and may reset.

### `ProtocolDetect`, `RequestText` - one request, three readers

`ProtocolDetect` has the detectors of `protocol.c` as operators on sequences of
bytes. `RequestText` follows one request at a time through `recvRequest` (`Complete`,
with `ContentLength` wrapped to an `int` of `-IntLimit .. IntLimit - 1`), `detectProtocol` (`Type`) and
`parseHttpRequest` (`Parses`, `Stored`, a `long`), in every split of its body, to a
verdict: dropped, ignored, 400, or accepted for a handler with a body. A field is
a spelling of its name, the number its value begins with, and whether more
follows; a body is a sequence of ordinary bytes, zero bytes, control characters
and ends of the last chunk. The overflow of `getContentLength` is undefined in C;
the build has no optimisation, where it wraps.

### `Startup`, `Server` - the whole

`Startup` is `main` up to the first `fork`: options one by one with the port and the
mode they set, `validateArgs`, `getaddrinfo`, and each call of `initSocket`, any of
which may fail for any address. The fields of `config` and of the socket are
variables of their own; `PORTS` (65536) and `DefaultPort` (9527) are constants.
`ListensAsTold` says with `LastOf` that of several options of a kind the last one counts. `Server` EXTENDS it and composes what follows: the
master and its workers are an instance of `WorkerPool` (which `Supervisor`
implements, so nothing about signals is said again), `holders` are the processes
that have the listening socket, `queue` and `held` the connections, `busy` the workers
of select mode that are in a round of the loop and so do not accept: `Serve` and, in
select mode, `Accept` begin such a round, `Back` ends it. A worker that has lost its last
descriptor never comes back in that sense. `Start` is a fork
with the descriptors of the master; `AcceptFails` is `acceptClient` closing its copy;
`Release` is what the kernel does when the last copy is closed.

### Bugs as definitions

A definition marked `(bug)` is a plausible mistake in the definition that follows
it; it is not part of the specification. For each property one of them is
substituted and must break it (`mutants` in `PROJECT.json`).

## 3. Runs

| Run (configuration) | Checks | Bounds |
|---|---|---|
| `supervisor` (`MCSupervisor.cfg`) | `TypeOK NoWorkerLost PoolBounded ExitLeavesNoWorker NoLateRestart ImplementsPool` | 2 slots, 3 pids (symmetric), 2 wait rounds, fork may fail, 1 crash, 2 operator signals |
| `supervisor_live` (`MCSupervisorLive.cfg`) | `ShutdownCompletes ZombiesCollected RecordedCrashRestarted` | 2 slots, 2 pids, 2 wait rounds, fork may fail, 1 crash, 1 signal |
| `select` (`MCSelectServer.cfg`) | `TypeOK TableConsistent MaxFdCovers ReadinessNotStale` | 2 slots, 3 descriptors beside the listening one, 3 clients (symmetric) |
| `select_live` (`MCSelectServerLive.cfg`) | `ReadableServed` | 2 slots, 2 descriptors, 2 clients |
| `connection` (`MCConnection.cfg`) | `TypeOK RequestWhole RightAnswers PromiseKept RequestAnswered ImplementsSession` | 4 requests of 7 shapes, one at a time; one shape has a zero byte in its body, the body of another reads as a GET |
| `connection_any` (`MCConnectionAny.cfg`) | `NothingAnsweredTwice ResetReleases` | 2 requests of 7 other shapes, pipelined; bodies without a length that read as a request or as a blank line, data that begins with a zero byte |
| `transfer` (`MCTransfer.cfg`) | `TypeOK OneResponseAtATime BlockingExact SmallFileWhole NotLeftWaiting BlockingDelivers` | 3 requests; files of 0, 1, 3, 5 pieces or missing; chunk 2, send buffer 3 |
| `text` (`MCRequestText.cfg`) | `TypeOK TruthNeverWaits BinaryNotAnswered AgreementSuffices` | up to 2 of 16 fields, bodies of up to 3 bytes, and of 4, 8 and 9 with lengths that overflow; `int` of -4 .. 3; 3 handshakes with any byte replaced |
| `server` (`MCServer.cfg`) | `TypeOK OneSocketOrNone ListensAsTold TableBeforeListen PortStaysOpen WaitingServed` | 11 command lines, 2 addresses; 2 workers at a time of 3 pids, 3 clients, 2 per worker in select mode |
| `supervisor_term_ignored`, `supervisor_untold`, `select_keep_alive` | one property each, violated | see below |

Why the bounds are enough to be interesting. Two slots give a loop with a first
and a last slot and a sibling to signal; three pids let a pid be reused while
another worker lives; two signals let SIGINT interrupt the SIGTERM handler and a
second stop interrupt the last `waitpid`; one crash and one restart nest in all
of it. Three clients and two slots fill the table; three descriptors for them run
out when a file has been leaked, and force reuse. `MAX_REQUEST` is 5 units in
`connection_any`, where what arrives can be too large, and 6 in `connection`, where
`MCConnection` checks that the requests are `Delimited`. A send buffer of 3 units and chunks of 2 let a chunk be copied whole, in
part and not at all, and files end in a full chunk and in one that is not. An
`int` of -4 .. 3 reads 4 as -4, 8 and 16 as 0, 9 as 1 and 18 as 2: negative, zero, less than
the body, and the length of another body. In `supervisor_live` two wait rounds
let the wait end in each of its ways: all slots empty, no child left, or the limit. A third pid lets a worker be replaced while
its predecessor is not yet collected; three clients keep one waiting while two
workers are busy. The bounds matter for liveness alone: all safety properties are
proved for every value of the constants (section 4).

**Fairness.** `Supervisor`: the master and each worker are scheduled and pending
signals are delivered; nothing is assumed of crashes and of the operator, whose
numbers are bounded. `SelectServer` and `Connection`: weak fairness of the
worker's steps only - it is one thread that the kernel schedules, `recv` returns
when its timeout expires, and a signal does not interrupt every `select`. Nothing
is assumed of clients, of other workers and of time. `ReadableServed` is
conditional on the worker returning to `select`, because a client that always has
another request ready does keep it. `Transfer`: the worker, and what is in the send
buffer reaches a client that reads; nothing is assumed of the client otherwise,
and the properties end when it resets or stops reading. `Server`: a worker that
stays free - in `accept` without a client, or in `select` - accepts what is there, and
nothing else: not that a client is ever done with, not that a worker comes back to
`select`, and nothing of the start and death of processes. `WaitingServed` is about
behaviours in which from some time on no worker dies and no `accept` fails.

**Deadlock** is checked in all other runs. The end of the master and an idle
supervision loop are explicit self-loops (`Terminated`, `Supervise`). In the run `server`
it is not: a start that fails, and the end of the master, are ends of the program.

What the passing runs show: no interleaving of the handlers loses a worker,
starts one too many, or leaves one behind; a stop request ends the master, also when
forks have failed; for a crashed worker that was recorded a replacement is forked, and
runs in its slot if that fork succeeds - one whose fork fails leaves the dead pid in
the slot and is not tried again (`signals.c:102-104`), so the worker is never
replaced; the
descriptions the select loop keeps of its clients agree whenever it is back in
`select`, although three places close descriptors; a ready descriptor is never
that of a later connection; a request from a client that waits for its answers is
received whole and answered once, in order, and the announced keep-alive or close
is what happens, a zero byte in the body costing a 400. Whatever is sent, pipelined or
left over, nothing in the stream is answered twice. Whatever `send` loses, a client never gets a piece of another
response, or text of an error inside a file, and is not left waiting; a file that
the send buffer holds arrives whole in every mode. Although its readers disagree
on the length of a request, a request that tells its length in the field
`recvRequest` reads is never waited for once it is there, not even when the length
overflows, and where they agree no split makes them fail. A start that fails leaves
no socket; no death of a worker and no failed `accept` closes the port or keeps a
client from a worker that is free.

What the violated ones show - each contradicts a comment or the readme, quoted in
`PROJECT.json` under `findings`:

* a **restarted** worker keeps the master's SIGTERM handler and does not end;
* a worker forked around the stop signal is never sent SIGTERM, and is killed
  after the timeout;
* keep-alive does not work in select mode: the connection is closed on EAGAIN.

Seen while modelling, part of the models, and not asserted as properties:

* Master: a worker that crashes before `process.c:60` records its pid is collected
  unseen, its dead pid is then recorded, and the slot is never served again. The
  forced kill can read an emptied slot and `kill(0, SIGKILL)`, master included
  (`process.c:106`). A SIGTERM that an operator sends to a restarted worker is
  forwarded by it to its siblings.
* Listening socket: after a failed `accept` a blocking worker has closed its copy
  for good and spins; the SIGTERM that interrupts a restarted worker is one case.
* Connection: HEAD and POST get no response; what follows a request in the same
  buffer is swallowed, so a pipelined request gets no answer; a body without a length
  is complete with its first byte, and the rest of it is answered as a request of its
  own if it reads as one; a chunked body with trailer fields never completes, though
  `readme.md:91` lists them.
* Transfer: in select mode a short `send` leaves a hole in the body and goes on with
  the next chunk, so that the client gets fewer bytes than `Content-Length` says; in
  a restarted worker SIGTERM does the same.
* Request text: `content-length` in lower case is read by the parser and not by
  `recvRequest`, and then the verdict depends on how the body is split; a field named
  `U` or `Sec` is taken for one of WebSocket; `GETX` is served as GET but received as a
  method with a body; a control character early in a body makes the request
  ignored without an answer; MQTT is never recognised behind `strlen`, though
  `readme.md:77` lists it.
* Select: `max_fd` never decreases (`select.c:90-98` looks for the maximum before the
  slot is freed); silent clients are not dropped while others keep `select` busy.
* Start: a mode that is neither `blocking` nor `select` makes the workers spin; a port
  out of range is reported and used modulo 65536; options without `-a` end in a
  null pointer; without an entry for TCP in the protocols database no address is
  good enough, for the sake of a log line.
* Paths: one that ends with a slash is served the index of the root.

## 4. Proofs

Every invariant, action property and refinement that a passing run checks is a
theorem, for every value of the constants that satisfies the assumption of its
module. All that is assumed of the constants is their type, except: there is at
least one worker, one byte in `CHUNK` and in the send buffer; the clients of
`Server` and the connections of `SelectServer` are finitely many; and "master" and
"waiting" are not the names of workers. TLC evaluates these assumptions in every run.

| Module | Theorems | About |
|---|---|---|
| `SupervisorProofs` | `TypeCorrect NoWorkerLostThm PoolBoundedThm ExitLeavesNoWorkerThm NoLateRestartThm` | `Supervisor` |
| `PoolProofs` | `ImplementsPoolThm` | `Supervisor` refines `WorkerPool` |
| `SelectServerProofs` | `TypeCorrect MaxFdCoversThm TableConsistentThm ReadinessNotStaleThm` | `SelectServer` |
| `ServerProofs` | `TypeCorrect StartClean StartAsTold StartInOrder PortOpen` | `Startup`, `Server` |
| `RequestTextProofs` | `TypeCorrect TruthHeard BinarySilent Agreement` | `RequestText`, `ProtocolDetect` |
| `TransferProofs` | `TypeCorrect OneResponse BlockingIsExact SmallArrives` | `Transfer` |
| `ConnectionProofs` | `TypeCorrect NothingTwice` | `Connection`, any client |
| `SessionProofs` | `RequestsWhole AnswersAreRight PromiseIsKept ImplementsSessionThm` | `Connection` with patient clients refines `HttpSession` |

**Supervisor.** The inductive invariant is
`IInv == TypeOK /\ Nesting /\ Frames /\ Unfilled /\ Collected /\ Ownership /\ Stopping /\ Killed`.

* `Nesting`: the active handlers occupy positions 1 .. level, one each. Without it
  a handler could be innermost twice, or the nest exceed three.
* `Unfilled`, `Collected`, `Ownership` say who owns each child. `Owned` is
  `worker_pids` as it will be once the forks under way are recorded, and every
  child is `Owned[i]` of some slot. `NoWorkerLost` alone is not inductive: a
  restart overwrites a slot, and only `Collected` (the pid in it has been waited
  for and stays free until the handler itself forks) tells that nobody is lost;
  the fork loop overwrites a slot, and `Unfilled` tells that it is empty.
  `PoolBounded` follows by counting: the children are in the image of the slots.
* `Stopping`: past the supervision loop the flag is cleared and no restart is
  under way - handlers that interrupted the loop have returned by then. It gives
  `NoLateRestart`, and keeps the scan of the forced kill complete.
* `Killed`: what the forced kill has passed has SIGKILL pending, what is left is
  in the slots to come. It gives `ExitLeavesNoWorker`.

Steps: one lemma per kernel service (`ForkTable`, `PostTable`, `CollectTable`,
`DieTable`), then one per part of the program (`MainInv`, `ChldInv`, `ShutInv`,
`DeliverInv`, `WorkerInv`, `OperatorInv`), `NextInv`, `Invariance`, the theorems.

**Refinement.** `PoolProofs` proves `Spec => ImplementsPool` from the same `IInv`. One
lemma per kernel service says which step of the pool it is (`StartPool`,
`CollectPool`, `DiePool`, `PostPool`, `KillPool`), one per part of the program goes
through its actions. The limit of a start comes from `PoolBounded` in the next
state; that a restart is only a start while the pool is in service, from
`Stopping`; that leaving finds everyone doomed, from `Killed`.

**SelectServer.** `IInv == TypeOK /\ Slot /\ Table /\ Holding /\ Counted /\ MaxFdCovers /\ Fresh`.
`TableConsistent` speaks of `select` only; between two selects the descriptor of
the client being handled may be closed, so `Table` allows exactly that slot to be
stale and `Slot` says that it is `worker.i` until `Check` removes it. `Holding`
makes descriptors and held connections correspond one to one, from which the last
conjuncts of `TableConsistent` follow. `Fresh` says that what `select` reported is
still true of the slots the loop has not reached: an accepted descriptor is one
that was free when `select` was called, thus not in `read_fds`. It gives
`ReadinessNotStale`.

**Server.** `IInv == BootInv /\ ProcessTypes /\ Quiet /\ QueueOnce /\ PortStaysOpen`, where
`BootInv` has one conjunct per stage of `main`. `ListensAsTold` speaks of the end of the
start, after all options: `Heard` says it of every prefix of them, `Configured`
carries it past `validateArgs`, `SetUp` to the socket. `Opened` counts the one
descriptor at each step, which gives `OneSocketOrNone` whatever call fails.
`PortStaysOpen` needs `Quiet` (nobody is forked before the start has succeeded); the
bound on the queue in `TypeOK` needs `QueueOnce` and a count.

**RequestText.** `Heard`: `recvRequest` waits only while `Complete` is false of what has
arrived. A truthful request is `Complete` when all of it is there (`TruthComplete`):
the length recvRequest reads is either no greater than the true one, since wrapping
never makes a number greater (`IntBound`), or not positive, and then the chunks or any
byte of body decide. `Judged`: a verdict on data is that of the detectors on some number
of bytes received, so that `BinaryNotAnswered` reduces to a fact about every prefix. The
lemmas about these - what a prefix contains, and what `strlen` leaves of it - are
proved without induction, from the least index with a property (`LeastIndex`).
`AgreementSuffices` is an action property: where the readers agree, the step that
ends the waiting received the last byte and accepts the body.

**Transfer.** `Line` is all that has been copied or is about to be: `got`, the send
buffer, and the rest of the `send` under way. `Ordered(Line, ...)` is the whole of
`OneResponseAtATime` and `BlockingExact`, for any two units and not only for
neighbours, because a hole may begin in one call and end in a later one. It is not
inductive alone: `CallShape` says which units the `send` under way has, `CameTo` how
far the line has come, so that the next units follow; `Waited`, that a client which
has sent another request has read all of the responses before, so that the send
buffer is empty when a response begins; and `Fits` counts with that what a response
shorter than the buffer has in it, so that no `send` of it is short
(`SmallFileWhole`). After a reset only what was received still matters (`WasReset`).

**Connection, any client.** `IInv == TypeOK /\ Phases /\ Sequenced`. `Line` is
`buf \o wire \o client.todo`: what has been received and not answered, has arrived,
or will be written. Bodies are arbitrary, so nothing is said of where on the line
requests begin; `Sequenced` only says that each unit on the line is the one that
stands at its place in what the client has sent (`Standing`), that places increase
along the line (`InOrder`), that responses are to requests that have been sent
(`Known`), and that the line begins behind the last place answered (`Passed`). From
these follows what is to be shown of the responses (`Once`): an answer is to the first unit of the
buffer, which is behind all earlier ones, and a file is sent only if that unit is the
line of a GET.

**Connection, patient clients.** `Single` adds that there is one request on the line,
not answered, and all of it as long as the client has not ended the connection
(`OneOnTheLine`); that it is handled when nothing of it is left to receive
(`AllReceived`), and as soon as that is so (`NotYetWhole`) - the second is what
keeps `recvRequest` from waiting for more of a request that is whole. The lemma that
carries these is `RequestSeen`: a beginning of a delimited request (`BeginsRequest`) is
`Complete` exactly if it is all of it, for each of the ways to delimit, whatever blank
lines and zero bytes are in its body; `HeadSeen` says that its own header is the one
that is found, `CutSeen` what `strlen` leaves of it, and `WholeParses` that the parser
accepts it unless it is `Spoilt`. `Kept` adds what was said
of the connection: a request that is owed an answer is on the line, the worker goes
on only after `keep-alive` or 501, and has closed the descriptor only after what
said so. `SessionProofs` names the seven ways to deal with a request
`Serve`, shows once that each `Answers` truthfully or gives the connection up
(`ServeAnswers`), and uses that for the invariant, the refinement and `PromiseKept`.

**Refinement of `HttpSession`.** One lemma per kind of step: what the client writes is
a request begun or its end; what arrives, is received or read is a stutter
(`SameSession`, with `ToldOne` and `ToldMore` for the responses as the session sees
them, without their places); `Serve` is an answer, and closing is allowed because of `Kept`.

The hypotheses `PatientClients` and `AnsweredClients` are conditions on the
constants `Requests` and `Pipelining`; the run `connection` satisfies both (`OrderlyAssumption`).

**Only model-checked:** the liveness properties (`ShutdownCompletes`,
`ZombiesCollected`, `RecordedCrashRestarted`, `ReadableServed`, `RequestAnswered`,
`ResetReleases`, `NotLeftWaiting`, `BlockingDelivers`, `WaitingServed`),
which rest on fairness and `ENABLED` and are out of the prover's reach. What TLC finds of them
holds for the bounds of section 3. The three violated properties are refuted by
an example, which needs no proof.

## 5. Not modelled

* MIME types, and the construction of a path from the request (`http.c:94-104`,
  `182-197`): expressions on one string with no state behind them.
* Requests with more than 20 fields, or longer than the arrays they are copied to:
  the behaviour is undefined.
* `log.c`, `procname_common.c`: output and the name `ps` shows. `cleanupSelectServer`,
  `deinitSocket`, `printProtocolInfo` and `sendHttpResponse` have no caller.
* Failures of `malloc` after the start.
* A master that is ended by SIGKILL, SIGHUP or SIGQUIT, for which it has no handler: its
  workers go on without it.
* Descriptors of FD_SETSIZE and above, and output from signal handlers, where the
  behaviour is undefined.

## 6. Plan

Done: all the modules of section 2 with their runs, and a theorem for each of their
safety properties, action properties and refinements. Next:

1. The safety that the liveness properties rest on, as invariants that are
   checked and then proved in the module of their component: when the worker of
   `Transfer` waits for the next request of a client that reads, the client has all it
   counts on or something is on its way to it; a free worker of `Server` that has
   not been mute holds the socket a waiting client is queued at; what the
   supervision loop of `Supervisor` waits for can still be delivered.
2. `Server` implements `WorkerPool` step by step, so that the properties of the pool
   hold of the whole; `WorkerPool`'s own promises as theorems.
3. The hazards that have no property yet (`PROJECT.json`).

----------------------------- MODULE Supervisor -----------------------------
(***************************************************************************)
(* The master process of the server: the fork loop, the supervision loop   *)
(* and the shutdown sequence of process.c, and the signal handlers of      *)
(* signals.c that interrupt them (and each other), together with the part  *)
(* of the kernel they rely on: the process table, pending signals, waitpid *)
(* and kill.                                                               *)
(*                                                                         *)
(* The master is one thread.  Its main program runs only while no handler  *)
(* is active; a handler runs until it returns or until another signal,     *)
(* not blocked, interrupts it.  setupSignalHandlers leaves sa_mask empty,  *)
(* so a handler blocks only its own signal: SIGCHLD, SIGINT and SIGTERM    *)
(* handlers nest in every order.  level is the number of active handlers   *)
(* and depth[s] the position of the handler of s in that nest (0 when it   *)
(* is not active); the innermost handler is the one that executes.         *)
(*                                                                         *)
(* A step reads or writes shared memory once, or makes one system call:    *)
(* `if (worker_pids[i] > 0) kill(worker_pids[i], ...)' reads the slot      *)
(* twice and is two steps (the Makefile asks for no optimisation).         *)
(*                                                                         *)
(* Definitions marked (bug) are mistakes the code could have contained;    *)
(* each is a replacement for the definition that follows it, and breaks    *)
(* one of the properties at the end of the module.                         *)
(***************************************************************************)
EXTENDS Integers, FiniteSets

CONSTANTS
  MAX_PROCESS,   \* number of worker slots (signals.h; 4 in the code)
  Pids,          \* the pids fork can return; a pid may be reused once reaped
  NoPid,         \* the value 0 of a worker_pids slot
  TIMEOUT,       \* rounds of the shutdown wait (30 in the code)
  ForkMayFail,   \* whether fork can return -1
  MaxCrashes,    \* bound: worker crashes
  MaxSignals     \* bound: signals sent by the operator

ASSUME SupervisorAssumption ==
  /\ MAX_PROCESS \in Nat \ {0}
  /\ NoPid \notin Pids
  /\ TIMEOUT \in Nat \ {0}
  /\ ForkMayFail \in BOOLEAN
  /\ MaxCrashes \in Nat
  /\ MaxSignals \in Nat

Slots == 0 .. (MAX_PROCESS - 1)
StopSignals == {"INT", "TERM"}           \* handled by shutdownHandler
Handled == StopSignals \cup {"CHLD"}

VARIABLES
  worker_pids,     \* Slots -> pid, NoPid when the slot is empty
  server_running,  \* the flag the shutdown handler clears
  main,            \* main program: pc, loop index i, pid from fork, timeout
  chld,            \* frame of sigchldHandler and restartWorker
  shut,            \* frames of shutdownHandler, one per stop signal
  level,           \* number of active handlers of the master
  depth,           \* position of each handler in the nest, 0 if inactive
  pending,         \* signals pending for the master
  proc,            \* process table: state of the child with each pid
  pend,            \* signals pending for each child
  info,            \* rest of a child: exit status, dispositions, memory
  crashes,         \* number of crashes so far
  signals          \* number of operator signals so far

globals == <<worker_pids, server_running>>
nest    == <<level, depth>>
table   == <<proc, pend, info>>
budget  == <<crashes, signals>>
vars    == <<globals, main, chld, shut, nest, pending, table, budget>>

Running == {p \in Pids : proc[p] \in {"boot", "serve"}}
Zombies == {p \in Pids : proc[p] = "zombie"}
InUse   == {p \in Pids : proc[p] # "free"}
MasterAlive == main.pc \notin {"exited", "killed"}

EmptySlots == [i \in Slots |-> NoPid]
NoInfo == [status |-> "none", known |-> EmptySlots, told |-> FALSE,
           disp |-> [s \in StopSignals |-> "default"]]
IdleChld == [pc |-> "idle", i |-> 0, pid |-> NoPid, status |-> "none",
             new |-> NoPid]
IdleShut == [pc |-> "idle", i |-> 0]

Top(s) == level > 0 /\ depth[s] = level
Return(s) ==
  /\ level' = level - 1
  /\ depth' = [depth EXCEPT ![s] = 0]

(***************************************************************************)
(* Kernel services.                                                        *)
(***************************************************************************)

\* fork() returning p.  The child inherits the handlers of the master and,
\* when it is forked inside a handler, the signals that are blocked there;
\* its memory holds worker_pids as they are now.
Fork(p, state) ==
  /\ proc[p] = "free"
  /\ proc' = [proc EXCEPT ![p] = state]
  /\ pend' = [pend EXCEPT ![p] = {}]
  /\ info' = [info EXCEPT ![p] =
       [status |-> "none", known |-> worker_pids, told |-> FALSE,
        disp |-> [s \in StopSignals |->
                    IF depth[s] > 0 THEN "blocked" ELSE "handler"]]]

\* Signal s becomes pending for the running children among P.  A zombie or
\* a pid that is no longer a child is not affected.
Post(P, s) ==
  /\ pend' = [p \in Pids |-> IF p \in P \cap Running
                               THEN pend[p] \cup {s} ELSE pend[p]]
  /\ info' = [p \in Pids |-> IF p \in P \cap Running
                               THEN [info[p] EXCEPT !.told = @ \/ s = "TERM"]
                               ELSE info[p]]
  /\ UNCHANGED proc

\* waitpid collecting the zombie p: its pid is free again.
Collect(p) ==
  /\ proc[p] = "zombie"
  /\ proc' = [proc EXCEPT ![p] = "free"]
  /\ pend' = [pend EXCEPT ![p] = {}]
  /\ info' = [info EXCEPT ![p] = NoInfo]

\* Child p ends with the given status: a zombie until its parent collects it.
Die(p, status) ==
  /\ proc' = [proc EXCEPT ![p] = "zombie"]
  /\ pend' = [pend EXCEPT ![p] = {}]
  /\ info' = [info EXCEPT ![p] = [NoInfo EXCEPT !.status = status]]
  /\ pending' = pending \cup {"CHLD"}

-----------------------------------------------------------------------------
(***************************************************************************)
(* runMutilProcessServer, from the fork loop on (the handlers are set up). *)
(***************************************************************************)

Main(pc) == level = 0 /\ main.pc = pc

\* (bug) `i <= MAX_PROCESS' in the fork loop.
ForkOneTooMany(p) ==
  /\ Main("fork") /\ main.i <= MAX_PROCESS
  /\ Fork(p, "boot")
  /\ main' = [main EXCEPT !.pc = "record", !.pid = p]
  /\ UNCHANGED <<globals, chld, shut, nest, pending, budget>>

ForkWorker(p) ==
  /\ Main("fork") /\ main.i < MAX_PROCESS
  /\ Fork(p, "boot")
  /\ main' = [main EXCEPT !.pc = "record", !.pid = p]
  /\ UNCHANGED <<globals, chld, shut, nest, pending, budget>>

\* fork() fails: the slot stays empty and nobody tries it again.
ForkWorkerFails ==
  /\ Main("fork") /\ main.i < MAX_PROCESS
  /\ ForkMayFail
  /\ main' = [main EXCEPT !.i = @ + 1]
  /\ UNCHANGED <<globals, chld, shut, nest, pending, table, budget>>

RecordWorker ==
  /\ Main("record")
  /\ worker_pids' = [worker_pids EXCEPT ![main.i] = main.pid]
  /\ main' = [main EXCEPT !.pc = "fork", !.i = @ + 1, !.pid = NoPid]
  /\ UNCHANGED <<server_running, chld, shut, nest, pending, table, budget>>

EndForkLoop ==
  /\ Main("fork") /\ main.i = MAX_PROCESS
  /\ main' = [main EXCEPT !.pc = "loop", !.i = 0]
  /\ UNCHANGED <<globals, chld, shut, nest, pending, table, budget>>

\* One round of the supervision loop: it prints worker_pids and sleeps.
Supervise ==
  /\ Main("loop") /\ server_running
  /\ UNCHANGED vars

LeaveLoop ==
  /\ Main("loop") /\ ~server_running
  /\ main' = [main EXCEPT !.pc = "wait", !.timeout = TIMEOUT]
  /\ UNCHANGED <<globals, chld, shut, nest, pending, table, budget>>

\* One evaluation of `while (timeout-- > 0)' with its body; over says that the
\* loop ends and forced that the workers left are killed.  The scan of the
\* slots is one step: at this point a slot that is empty stays empty.
Waiting(left, over, forced) ==
  /\ Main("wait")
  /\ main' = [main EXCEPT
                !.timeout = left,
                !.pc = IF ~over THEN "wait" ELSE IF forced THEN "test" ELSE "reap"]
  /\ UNCHANGED <<globals, chld, shut, nest, pending, table, budget>>

\* (bug) One round too many.
WaitOneMore ==
  Waiting(main.timeout - 1, main.timeout < 0 \/ worker_pids = EmptySlots,
          main.timeout <= 1)

\* (bug) `timeout == 0' after the loop, when it is -1.
WaitLimitMissed ==
  Waiting(main.timeout - 1, main.timeout = 0 \/ worker_pids = EmptySlots,
          main.timeout = 1)

\* (bug) The timeout is not counted down.
WaitForever ==
  Waiting(main.timeout, worker_pids = EmptySlots, FALSE)

WaitWorkers ==
  Waiting(main.timeout - 1, main.timeout = 0 \/ worker_pids = EmptySlots,
          main.timeout <= 1)

\* The forced kill: test the slot ...
ForceTest ==
  /\ Main("test")
  /\ main' = IF main.i = MAX_PROCESS
               THEN [main EXCEPT !.pc = "reap", !.i = 0]
             ELSE IF worker_pids[main.i] # NoPid
               THEN [main EXCEPT !.pc = "kill"]
             ELSE [main EXCEPT !.i = @ + 1]
  /\ UNCHANGED <<globals, chld, shut, nest, pending, table, budget>>

\* ... and read it again for kill.  Pid 0 is the whole process group, the
\* master included.
ForceKill ==
  LET pid == worker_pids[main.i]
  IN /\ Main("kill")
     /\ Post(IF pid = NoPid THEN Pids ELSE {pid}, "KILL")
     /\ main' = IF pid = NoPid
                  THEN [main EXCEPT !.pc = "killed"]
                  ELSE [main EXCEPT !.pc = "test", !.i = @ + 1]
     /\ UNCHANGED <<globals, chld, shut, nest, pending, budget>>

\* The last loop, `while (waitpid(-1, NULL, 0) > 0)'.
Reap(p) ==
  /\ Main("reap")
  /\ Collect(p)
  /\ UNCHANGED <<globals, main, chld, shut, nest, pending, budget>>

ReapDone ==
  /\ Main("reap")
  /\ InUse = {}
  /\ main' = [main EXCEPT !.pc = "exit"]
  /\ UNCHANGED <<globals, chld, shut, nest, pending, table, budget>>

\* Return from runMutilProcessServer, deinitServer and return from main.
Exit ==
  /\ Main("exit")
  /\ main' = [main EXCEPT !.pc = "exited"]
  /\ UNCHANGED <<globals, chld, shut, nest, pending, table, budget>>

MainStep ==
  \/ \E p \in Pids : ForkWorker(p) \/ Reap(p)
  \/ ForkWorkerFails \/ RecordWorker \/ EndForkLoop
  \/ LeaveLoop \/ WaitWorkers \/ ForceTest \/ ForceKill
  \/ ReapDone \/ Exit

-----------------------------------------------------------------------------
(***************************************************************************)
(* sigchldHandler and restartWorker.                                       *)
(***************************************************************************)

Chld(pc) == Top("CHLD") /\ chld.pc = pc

ChldWait(p) ==
  /\ Chld("wait")
  /\ chld' = [chld EXCEPT !.pc = "find", !.pid = p, !.status = info[p].status]
  /\ Collect(p)
  /\ UNCHANGED <<globals, main, shut, nest, pending, budget>>

\* (bug) One child per SIGCHLD: `if' instead of `while'.
ChldReturnEarly ==
  /\ Chld("wait")
  /\ chld' = IdleChld
  /\ Return("CHLD")
  /\ UNCHANGED <<globals, main, shut, pending, table, budget>>

ChldReturn ==
  /\ Chld("wait")
  /\ Zombies = {}
  /\ chld' = IdleChld
  /\ Return("CHLD")
  /\ UNCHANGED <<globals, main, shut, pending, table, budget>>

\* A worker that SIGTERM or SIGINT ended is closed for good; any other end
\* asks for a restart.  (A worker never calls exit: runServer does not return.)
Unexpected(status) == status \notin StopSignals

\* Slot i is where the search for chld.pid stops.
Owner(i) ==
  /\ worker_pids[i] = chld.pid
  /\ \A j \in Slots : worker_pids[j] = chld.pid => i <= j

\* (bug) Every end counts as a normal one.
ChldFindNeverRestarts ==
  /\ Chld("find")
  /\ chld' = [IdleChld EXCEPT !.pc = "wait"]
  /\ worker_pids' = [i \in Slots |-> IF Owner(i) THEN NoPid ELSE worker_pids[i]]
  /\ UNCHANGED <<server_running, main, shut, nest, pending, table, budget>>

\* (bug) The restart does not ask whether the server is stopping.
ChldFindAlwaysRestarts ==
  /\ Chld("find")
  /\ chld' = IF \E i \in Slots : Owner(i)
               THEN [chld EXCEPT !.pc = "sleep", !.i = CHOOSE i \in Slots : Owner(i)]
               ELSE [IdleChld EXCEPT !.pc = "wait"]
  /\ UNCHANGED <<globals, main, shut, nest, pending, table, budget>>

\* Find the worker that ended: restart it, close its slot, or ignore it.
ChldFind ==
  LET restart == Unexpected(chld.status) /\ server_running
      next    == [IdleChld EXCEPT !.pc = "wait"]
  IN /\ Chld("find")
     /\ \/ /\ \A i \in Slots : worker_pids[i] # chld.pid
           /\ chld' = next
           /\ UNCHANGED worker_pids
        \/ \E i \in Slots :
             /\ Owner(i) /\ restart
             /\ chld' = [chld EXCEPT !.pc = "restart", !.i = i]
             /\ UNCHANGED worker_pids
        \/ \E i \in Slots :
             /\ Owner(i) /\ ~restart
             /\ worker_pids' = [worker_pids EXCEPT ![i] = NoPid]
             /\ chld' = next
     /\ UNCHANGED <<server_running, main, shut, nest, pending, table, budget>>

RestartCheck ==
  /\ Chld("restart")
  /\ chld' = IF worker_pids[chld.i] # NoPid /\ server_running
               THEN [chld EXCEPT !.pc = "sleep"]
               ELSE [IdleChld EXCEPT !.pc = "wait"]
  /\ UNCHANGED <<globals, main, shut, nest, pending, table, budget>>

\* After sleep(2).  The new worker goes straight to server_func.
RestartFork(p) ==
  /\ Chld("sleep")
  /\ Fork(p, "serve")
  /\ chld' = [chld EXCEPT !.pc = "record", !.new = p]
  /\ UNCHANGED <<globals, main, shut, nest, pending, budget>>

\* fork() fails: the slot keeps the pid of the dead worker.
RestartForkFails ==
  /\ Chld("sleep")
  /\ ForkMayFail
  /\ chld' = [IdleChld EXCEPT !.pc = "wait"]
  /\ UNCHANGED <<globals, main, shut, nest, pending, table, budget>>

\* (bug) The new pid is not recorded.
RestartForgets ==
  /\ Chld("record")
  /\ chld' = [IdleChld EXCEPT !.pc = "wait"]
  /\ UNCHANGED <<globals, main, shut, nest, pending, table, budget>>

RestartRecord ==
  /\ Chld("record")
  /\ worker_pids' = [worker_pids EXCEPT ![chld.i] = chld.new]
  /\ chld' = [IdleChld EXCEPT !.pc = "wait"]
  /\ UNCHANGED <<server_running, main, shut, nest, pending, table, budget>>

ChldStep ==
  \/ \E p \in Pids : ChldWait(p) \/ RestartFork(p)
  \/ ChldReturn \/ ChldFind \/ RestartCheck
  \/ RestartForkFails \/ RestartRecord

-----------------------------------------------------------------------------
(***************************************************************************)
(* shutdownHandler, for SIGINT and for SIGTERM.                            *)
(***************************************************************************)

Shut(s, pc) == Top(s) /\ shut[s].pc = pc

ShutStop(s) ==
  /\ Shut(s, "stop")
  /\ server_running' = FALSE
  /\ shut' = [shut EXCEPT ![s] = [pc |-> "test", i |-> 0]]
  /\ UNCHANGED <<worker_pids, main, chld, nest, pending, table, budget>>

ShutTest(s) ==
  /\ Shut(s, "test") /\ shut[s].i < MAX_PROCESS
  /\ shut' = IF worker_pids[shut[s].i] # NoPid
               THEN [shut EXCEPT ![s].pc = "kill"]
               ELSE [shut EXCEPT ![s].i = @ + 1]
  /\ UNCHANGED <<globals, main, chld, nest, pending, table, budget>>

\* kill reads the slot again: when SIGCHLD emptied it in between, pid 0
\* sends SIGTERM to the whole process group, the master included.
ShutKill(s) ==
  LET pid == worker_pids[shut[s].i]
  IN /\ Shut(s, "kill")
     /\ Post(IF pid = NoPid THEN Pids ELSE {pid}, "TERM")
     /\ pending' = IF pid = NoPid THEN pending \cup {"TERM"} ELSE pending
     /\ shut' = [shut EXCEPT ![s] = [pc |-> "test", i |-> @.i + 1]]
     /\ UNCHANGED <<globals, main, chld, nest, budget>>

ShutReturn(s) ==
  /\ Shut(s, "test") /\ shut[s].i = MAX_PROCESS
  /\ shut' = [shut EXCEPT ![s] = IdleShut]
  /\ Return(s)
  /\ UNCHANGED <<globals, main, chld, pending, table, budget>>

ShutStep ==
  \E s \in StopSignals : ShutStop(s) \/ ShutTest(s) \/ ShutKill(s) \/ ShutReturn(s)

-----------------------------------------------------------------------------
(***************************************************************************)
(* Delivery of a signal to the master: it runs on top of what is active.   *)
(***************************************************************************)

Interrupt(s) ==
  /\ MasterAlive
  /\ s \in pending /\ depth[s] = 0
  /\ pending' = pending \ {s}
  /\ level' = level + 1
  /\ depth' = [depth EXCEPT ![s] = level + 1]

\* SA_RESTART: an interrupted waitpid goes on.
DeliverChld ==
  /\ Interrupt("CHLD")
  /\ chld' = [IdleChld EXCEPT !.pc = "wait"]
  /\ UNCHANGED <<globals, main, shut, table, budget>>

\* No SA_RESTART: a waitpid that is blocking returns -1 (EINTR), and the
\* reaping loop of the main program ends with it.
DeliverStop(s) ==
  /\ Interrupt(s)
  /\ shut' = [shut EXCEPT ![s] = [pc |-> "stop", i |-> 0]]
  /\ \/ UNCHANGED main
     \/ /\ Main("reap") /\ Running # {} /\ Zombies = {}
        /\ main' = [main EXCEPT !.pc = "exit"]
  /\ UNCHANGED <<globals, chld, table, budget>>

Deliver == DeliverChld \/ \E s \in StopSignals : DeliverStop(s)

-----------------------------------------------------------------------------
(***************************************************************************)
(* Workers.  A worker of the fork loop resets SIGINT, then SIGTERM, before *)
(* it serves; a restarted one keeps the handlers of the master.            *)
(***************************************************************************)

ResetSignal(p) ==
  LET d == info[p].disp
      s == IF d["INT"] # "default" THEN "INT" ELSE "TERM"
  IN /\ proc[p] = "boot"
     /\ info' = [info EXCEPT ![p].disp[s] = "default",
                             ![p].known = IF s = "TERM" THEN EmptySlots ELSE @]
     /\ proc' = [proc EXCEPT ![p] = IF s = "TERM" THEN "serve" ELSE "boot"]
     /\ UNCHANGED <<globals, main, chld, shut, nest, pending, pend, budget>>

\* A pending signal with the default disposition (or SIGKILL) ends the child.
ChildKilled(p, s) ==
  /\ p \in Running /\ s \in pend[p]
  /\ s \in StopSignals => info[p].disp[s] = "default"
  /\ Die(p, s)
  /\ UNCHANGED <<globals, main, chld, shut, nest, budget>>

\* A child that still has the handler of the master runs it on its own copy
\* of worker_pids: it sends SIGTERM to its siblings and goes on.  (SIGKILL,
\* when it is pending too, comes first.)
ChildForwards(p, s) ==
  LET told == {info[p].known[i] : i \in Slots} \cap Running
  IN /\ p \in Running /\ s \in pend[p] \cap StopSignals
     /\ info[p].disp[s] = "handler" /\ "KILL" \notin pend[p]
     /\ pend' = [q \in Pids |->
                   (IF q = p THEN pend[q] \ {s} ELSE pend[q])
                     \cup (IF q \in told THEN {"TERM"} ELSE {})]
     /\ info' = [q \in Pids |-> IF q \in told
                                  THEN [info[q] EXCEPT !.told = TRUE]
                                  ELSE info[q]]
     /\ UNCHANGED <<globals, main, chld, shut, nest, pending, proc, budget>>

Crash(p) ==
  /\ p \in Running
  /\ crashes < MaxCrashes
  /\ crashes' = crashes + 1
  /\ Die(p, "CRASH")
  /\ UNCHANGED <<globals, main, chld, shut, nest, signals>>

ChildSignal(p) ==
  \/ \E s \in {"INT", "TERM", "KILL"} : ChildKilled(p, s)
  \/ \E s \in StopSignals : ChildForwards(p, s)

\* Once the master is gone its children belong to init, which collects them.
InitCollects(p) ==
  /\ ~MasterAlive
  /\ Collect(p)
  /\ UNCHANGED <<globals, main, chld, shut, nest, pending, budget>>

ChildStep(p) == ResetSignal(p) \/ ChildSignal(p) \/ InitCollects(p)

-----------------------------------------------------------------------------
(***************************************************************************)
(* The operator: a stop signal to the master (kill), to the process group  *)
(* (Ctrl+C), or SIGTERM to one worker.                                     *)
(***************************************************************************)

SignalMaster(s) ==
  /\ pending' = pending \cup {s}
  /\ UNCHANGED table

CtrlC ==
  /\ pending' = pending \cup {"INT"}
  /\ Post(Pids, "INT")

TermWorker(p) ==
  /\ p \in Running
  /\ Post({p}, "TERM")
  /\ UNCHANGED pending

Operator ==
  /\ MasterAlive
  /\ signals < MaxSignals
  /\ signals' = signals + 1
  /\ \/ \E s \in StopSignals : SignalMaster(s)
     \/ CtrlC
     \/ \E p \in Pids : TermWorker(p)
  /\ UNCHANGED <<globals, main, chld, shut, nest, crashes>>

\* The master is gone and so are its workers.
Terminated ==
  /\ ~MasterAlive /\ InUse = {}
  /\ UNCHANGED vars

-----------------------------------------------------------------------------
Init ==
  /\ worker_pids = EmptySlots
  /\ server_running = TRUE
  /\ main = [pc |-> "fork", i |-> 0, pid |-> NoPid, timeout |-> 0]
  /\ chld = IdleChld
  /\ shut = [s \in StopSignals |-> IdleShut]
  /\ level = 0
  /\ depth = [s \in Handled |-> 0]
  /\ pending = {}
  /\ proc = [p \in Pids |-> "free"]
  /\ pend = [p \in Pids |-> {}]
  /\ info = [p \in Pids |-> NoInfo]
  /\ crashes = 0
  /\ signals = 0

MasterStep == MainStep \/ ChldStep \/ ShutStep

Next ==
  \/ MasterStep
  \/ Supervise
  \/ Deliver
  \/ \E p \in Pids : ChildStep(p) \/ Crash(p)
  \/ Operator
  \/ Terminated

\* The scheduler runs the master and every worker, and the kernel delivers
\* pending signals.  Nothing is assumed of crashes and of the operator.
Fairness ==
  /\ WF_vars(MasterStep)
  /\ WF_vars(Deliver)
  /\ \A p \in Pids : WF_vars(ChildStep(p))

Spec == Init /\ [][Next]_vars /\ Fairness
-----------------------------------------------------------------------------
(***************************************************************************)
(* Properties.                                                             *)
(***************************************************************************)

PidOrNone == Pids \cup {NoPid}

MainPc == {"fork", "record", "loop", "wait", "test", "kill", "reap", "exit",
           "exited", "killed"}
ChldPc == {"idle", "wait", "find", "restart", "sleep", "record"}
ShutPc == {"idle", "stop", "test", "kill"}
Statuses == {"none", "CRASH", "INT", "TERM", "KILL"}

MasterTypes ==
  /\ worker_pids \in [Slots -> PidOrNone]
  /\ server_running \in BOOLEAN
  /\ main \in [pc : MainPc, i : 0 .. MAX_PROCESS, pid : PidOrNone,
               timeout : -1 .. TIMEOUT]
  /\ chld \in [pc : ChldPc, i : Slots, pid : PidOrNone, status : Statuses,
               new : PidOrNone]
  /\ shut \in [StopSignals -> [pc : ShutPc, i : 0 .. MAX_PROCESS]]
NestTypes ==
  /\ level \in 0 .. 3
  /\ depth \in [Handled -> 0 .. 3]
  /\ pending \in SUBSET Handled
TableTypes ==
  /\ proc \in [Pids -> {"free", "boot", "serve", "zombie"}]
  /\ pend \in [Pids -> SUBSET {"INT", "TERM", "KILL"}]
  /\ info \in [Pids -> [status : Statuses, known : [Slots -> PidOrNone],
                        told : BOOLEAN,
                        disp : [StopSignals -> {"default", "handler", "blocked"}]]]

\* Every variable keeps its type; loop indices stay within the slots, the
\* handlers nest at most three deep and the timeout stops at -1.
TypeOK ==
  /\ MasterTypes /\ NestTypes /\ TableTypes
  /\ crashes \in 0 .. MaxCrashes
  /\ signals \in 0 .. MaxSignals

\* Every child the master has not collected is in a slot of worker_pids, or is
\* the one fork has just returned: no handler, however it interrupts the fork
\* loop or a restart, makes the master lose a worker.
InFlight == {main.pid, chld.new}
NoWorkerLost ==
  MasterAlive => InUse \subseteq {worker_pids[i] : i \in Slots} \cup InFlight

\* At most MAX_PROCESS workers exist at a time, zombies included, although
\* restarts run inside a handler that can interrupt the fork loop.
PoolBounded == Cardinality(InUse) <= MAX_PROCESS

\* The master never leaves a worker behind: once it is gone, every worker that
\* still runs has SIGKILL pending, even when a second stop signal made the
\* last waitpid return early.
ExitLeavesNoWorker ==
  ~MasterAlive => \A p \in Running : "KILL" \in pend[p]

\* Once the master has left the supervision loop it starts no worker any more:
\* a restart that passed its last check before the stop flag was cleared has
\* been completed, and its worker recorded, by then.
NoLateRestart ==
  [][main.pc \notin {"fork", "record", "loop"} => InUse' \subseteq InUse]_vars

\* The pool of workers as the master keeps it.
Phase == IF main.pc \in {"fork", "record", "loop"} THEN "serving"
         ELSE IF MasterAlive THEN "draining" ELSE "gone"
Doomed == Zombies \cup {p \in Running : "KILL" \in pend[p]}

Pool == INSTANCE WorkerPool WITH
          Limit <- MAX_PROCESS, phase <- Phase, stopping <- ~server_running,
          workers <- InUse, doomed <- Doomed

\* However its handlers interrupt the program, the master implements the pool:
\* each step is a start within the limit, an end, a collection of a worker that
\* has ended, or a change of phase in order, and the master is not gone before
\* every worker left is bound to end (process.c:38-114, signals.c:18-106).
ImplementsPool == Pool!Spec

\* A stop request ends the master: the wait has a limit, what is left is
\* killed, and the last waitpid loop ends.
ShutdownCompletes == ~server_running ~> ~MasterAlive

\* No worker stays a zombie: one SIGCHLD may stand for several deaths, and
\* the handler collects them all.
ZombiesCollected ==
  \A p \in Pids : proc[p] = "zombie" ~> proc[p] # "zombie"

\* For a crashed worker that the master has recorded (in one slot: a reused pid may
\* also stand in a slot whose worker died unrecorded) a replacement is forked, and
\* one that has been forked comes to run in the slot, unless the server is stopping
\* (signals.c:32-55, 83-101).  That is all: when its fork fails (signals.c:102-104)
\* the dead pid stays in the slot, and the worker is never replaced.
CrashedAt(i) ==
  LET p == worker_pids[i]
  IN /\ p \in Zombies /\ info[p].status = "CRASH"
     /\ \A j \in Slots : worker_pids[j] = p => j = i
Forking(i) == Chld("sleep") /\ chld.i = i
Forked(i) == Chld("record") /\ chld.i = i
RecordedCrashRestarted ==
  \A i \in Slots :
    /\ CrashedAt(i) ~> ~server_running \/ Forking(i)
    /\ Forked(i) ~> ~server_running \/ worker_pids[i] \in Running

-----------------------------------------------------------------------------
(***************************************************************************)
(* What the comments and the readme say of the program; the code does not  *)
(* keep it (runs that expect a violation).                                 *)
(***************************************************************************)

\* readme.md: a worker must not ignore SIGTERM, or it cannot be shut down;
\* process.c resets it "because the child need not handle these signals".
\* A worker that serves and consumes SIGTERM ends.
TermEndsWorker ==
  [][\A p \in Pids :
       proc[p] = "serve" /\ "TERM" \in pend[p] /\ "TERM" \notin pend'[p]
         => proc'[p] = "zombie"]_vars

\* readme.md: on a graceful shutdown the master sends SIGTERM to all workers.
\* When it waits for them every running worker has been sent one.
WorkersTold == Main("wait") => \A p \in Running : info[p].told
=============================================================================

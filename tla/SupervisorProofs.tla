-------------------------- MODULE SupervisorProofs --------------------------
(***************************************************************************)
(* Proofs about the master process, for every number of slots, every set   *)
(* of pids and every bound on crashes and signals.                         *)
(***************************************************************************)
EXTENDS Supervisor, FiniteSetTheorems, TLAPS

\* The active handlers occupy the positions 1 .. level, one each.
Nesting ==
  /\ \A s \in Handled : depth[s] <= level
  /\ \A s, t \in Handled : s # t /\ depth[s] > 0 => depth[s] # depth[t]
  /\ \A k \in 1 .. level : \E s \in Handled : depth[s] = k

\* Where the loop indices of the main program and of the handlers stand.
Frames ==
  /\ main.pc = "record" => main.i < MAX_PROCESS /\ main.pid \in Pids
  /\ main.pc \in {"loop", "wait"} => main.i = 0
  /\ main.pc = "wait" => main.timeout >= 0
  /\ main.pc = "kill" => main.i < MAX_PROCESS
  /\ \A s \in StopSignals : shut[s].pc = "kill" => shut[s].i < MAX_PROCESS
  /\ depth["CHLD"] = 0 => chld.pc = "idle"

\* The fork loop fills the slots in order.
Unfilled ==
  main.pc \in {"fork", "record"} =>
    \A i \in Slots : i >= main.i => worker_pids[i] = NoPid

\* A pid the SIGCHLD handler has collected stays free until the handler itself
\* forks, and stays in the slot the handler is about to overwrite.
Collected ==
  /\ chld.pc \in {"find", "restart", "sleep"} =>
       chld.pid \in Pids /\ proc[chld.pid] = "free"
  /\ chld.pc \in {"restart", "sleep", "record"} =>
       chld.pid \in Pids /\ worker_pids[chld.i] = chld.pid
  /\ chld.pc = "record" => chld.new \in Pids

\* The slots as they will be once the forks under way are recorded.
Owned == [i \in Slots |-> IF main.pc = "record" /\ i = main.i THEN main.pid
                          ELSE IF chld.pc = "record" /\ i = chld.i THEN chld.new
                          ELSE worker_pids[i]]
Ownership == \A p \in InUse : \E i \in Slots : Owned[i] = p

\* After the supervision loop the stop flag is cleared and no restart is under way.
Stopping ==
  main.pc \notin {"fork", "record", "loop"} =>
    ~server_running /\ chld.pc \notin {"restart", "sleep", "record"}

\* The forced kill has dealt with every worker outside the slots still to come.
Killed ==
  /\ main.pc \in {"test", "kill"} =>
       \A p \in Running : \/ "KILL" \in pend[p]
                          \/ \E i \in Slots : i >= main.i /\ worker_pids[i] = p
  /\ main.pc \in {"reap", "exit", "exited", "killed"} =>
       \A p \in Running : "KILL" \in pend[p]

\* The inductive invariant.
IInv ==
  /\ TypeOK /\ Nesting /\ Frames /\ Unfilled
  /\ Collected /\ Ownership /\ Stopping /\ Killed

-----------------------------------------------------------------------------
(***************************************************************************)
(* What the kernel services do to the process table.                       *)
(***************************************************************************)

\* fork adds one child, with nothing pending, to a well-typed table.
LEMMA ForkTable ==
  ASSUME TypeOK, NEW p \in Pids, NEW state \in {"boot", "serve"}, Fork(p, state)
  PROVE  /\ TableTypes'
         /\ proc' = [proc EXCEPT ![p] = state]
         /\ InUse' = InUse \cup {p}
<1>1. proc' \in [Pids -> {"free", "boot", "serve", "zombie"}]
  BY DEF TypeOK, TableTypes, Fork
<1>2. pend' \in [Pids -> SUBSET {"INT", "TERM", "KILL"}]
  BY DEF TypeOK, TableTypes, Fork
<1>3. info' \in [Pids -> [status : Statuses, known : [Slots -> PidOrNone],
                         told : BOOLEAN,
                         disp : [StopSignals -> {"default", "handler", "blocked"}]]]
  <2> DEFINE d == [s \in StopSignals |->
                     IF depth[s] > 0 THEN "blocked" ELSE "handler"]
             new == [status |-> "none", known |-> worker_pids,
                     told |-> FALSE, disp |-> d]
  <2>1. d \in [StopSignals -> {"default", "handler", "blocked"}]
    OBVIOUS
  <2>2. worker_pids \in [Slots -> PidOrNone] /\ "none" \in Statuses
    BY DEF TypeOK, MasterTypes, Statuses
  <2>3. new \in [status : Statuses, known : [Slots -> PidOrNone],
                told : BOOLEAN,
                disp : [StopSignals -> {"default", "handler", "blocked"}]]
    <3> HIDE DEF d
    <3> QED BY <2>1, <2>2
  <2>4. info' = [info EXCEPT ![p] = new]
    BY DEF Fork
  <2> HIDE DEF new
  <2> QED BY <2>3, <2>4 DEF TypeOK, TableTypes
<1>4. InUse' = InUse \cup {p}
  BY DEF Fork, InUse, TypeOK, TableTypes
<1> QED BY <1>1, <1>2, <1>3, <1>4 DEF TableTypes, Fork

\* The record of a child of which only the flag told changes keeps its type.
LEMMA ChildTold ==
  ASSUME NEW S, NEW K, NEW D, NEW t \in BOOLEAN,
         NEW r \in [status : S, known : K, told : BOOLEAN, disp : D]
  PROVE  [r EXCEPT !.told = t] \in [status : S, known : K, told : BOOLEAN, disp : D]
OBVIOUS

\* A signal sent to children kills nobody at once and withdraws no signal; it
\* is pending for every running child it was sent to.
LEMMA PostTable ==
  ASSUME TypeOK, NEW P, NEW s \in {"INT", "TERM", "KILL"}, Post(P, s)
  PROVE  /\ TableTypes'
         /\ proc' = proc
         /\ \A p \in Pids : pend[p] \subseteq pend'[p]
         /\ \A p \in P \cap Running : s \in pend'[p]
<1>1. proc' = proc
  BY DEF Post
<1>2. pend' \in [Pids -> SUBSET {"INT", "TERM", "KILL"}]
  BY DEF TypeOK, TableTypes, Post
<1>3. info' \in [Pids -> [status : Statuses, known : [Slots -> PidOrNone],
                         told : BOOLEAN,
                         disp : [StopSignals -> {"default", "handler", "blocked"}]]]
  <2> DEFINE C == [status : Statuses, known : [Slots -> PidOrNone], told : BOOLEAN,
                   disp : [StopSignals -> {"default", "handler", "blocked"}]]
             new(p) == [info[p] EXCEPT !.told = info[p].told \/ s = "TERM"]
  <2>1. \A p \in Pids : info[p] \in C
    BY DEF TypeOK, TableTypes
  <2>2. \A p \in Pids : new(p) \in C
    BY <2>1, ChildTold
  <2>3. info' = [p \in Pids |-> IF p \in P \cap Running THEN new(p) ELSE info[p]]
    BY DEF Post
  <2> HIDE DEF C, new
  <2>4. info' \in [Pids -> C]
    BY <2>1, <2>2, <2>3
  <2> QED BY <2>4 DEF C
<1>4. \A p \in Pids : pend[p] \subseteq pend'[p]
  BY DEF Post, TypeOK, TableTypes
<1>5. \A p \in P \cap Running : s \in pend'[p]
  BY DEF Post, TypeOK, TableTypes, Running
<1> QED BY <1>1, <1>2, <1>3, <1>4, <1>5 DEF TypeOK, TableTypes

\* NoInfo, and a dead child's record, are well typed.
LEMMA NoInfoType ==
  ASSUME NEW status \in Statuses
  PROVE  /\ [NoInfo EXCEPT !.status = status] \in
              [status : Statuses, known : [Slots -> PidOrNone], told : BOOLEAN,
               disp : [StopSignals -> {"default", "handler", "blocked"}]]
         /\ NoInfo \in
              [status : Statuses, known : [Slots -> PidOrNone], told : BOOLEAN,
               disp : [StopSignals -> {"default", "handler", "blocked"}]]
<1>1. EmptySlots \in [Slots -> PidOrNone]
  BY DEF EmptySlots, PidOrNone
<1>2. [s \in StopSignals |-> "default"] \in
        [StopSignals -> {"default", "handler", "blocked"}]
  OBVIOUS
<1> QED BY <1>1, <1>2 DEF NoInfo, Statuses

\* waitpid frees the pid of one zombie.
LEMMA CollectTable ==
  ASSUME TypeOK, NEW p \in Pids, Collect(p)
  PROVE  /\ TableTypes'
         /\ proc[p] = "zombie"
         /\ proc' = [proc EXCEPT ![p] = "free"]
         /\ pend' = [pend EXCEPT ![p] = {}]
         /\ InUse' = InUse \ {p}
<1>1. NoInfo \in [status : Statuses, known : [Slots -> PidOrNone], told : BOOLEAN,
                 disp : [StopSignals -> {"default", "handler", "blocked"}]]
  BY NoInfoType DEF Statuses
<1>2. TableTypes'
  BY <1>1 DEF TypeOK, TableTypes, Collect
<1>3. InUse' = InUse \ {p}
  BY DEF TypeOK, TableTypes, Collect, InUse
<1> QED BY <1>2, <1>3 DEF Collect

\* A child that ends becomes a zombie; the others are not affected.
LEMMA DieTable ==
  ASSUME TypeOK, NEW p \in Pids, p \in Running, NEW status \in Statuses,
         Die(p, status)
  PROVE  /\ TableTypes'
         /\ proc' = [proc EXCEPT ![p] = "zombie"]
         /\ pend' = [pend EXCEPT ![p] = {}]
         /\ pending' \in SUBSET Handled
         /\ InUse' = InUse
<1>1. [NoInfo EXCEPT !.status = status] \in
        [status : Statuses, known : [Slots -> PidOrNone], told : BOOLEAN,
         disp : [StopSignals -> {"default", "handler", "blocked"}]]
  BY NoInfoType
<1>2. TableTypes'
  BY <1>1 DEF TypeOK, TableTypes, Die
<1>3. InUse' = InUse
  BY DEF TypeOK, TableTypes, Die, InUse, Running
<1>4. pending' \in SUBSET Handled
  BY DEF TypeOK, NestTypes, Die, Handled
<1> QED BY <1>2, <1>3, <1>4 DEF Die

-----------------------------------------------------------------------------
\* The master starts in a state of the invariant: no slot filled, no child, no
\* handler active.
LEMMA InitInv == Init => IInv
<1> SUFFICES ASSUME Init PROVE IInv
  OBVIOUS
<1> USE SupervisorAssumption
<1>1. EmptySlots \in [Slots -> PidOrNone] /\ 0 \in Slots
  BY DEF EmptySlots, PidOrNone, Slots
<1>2. TypeOK
  <2>1. MasterTypes
    BY <1>1 DEF Init, MasterTypes, MainPc, ChldPc, ShutPc, Statuses, PidOrNone,
                IdleChld, IdleShut
  <2>2. NestTypes
    BY DEF Init, NestTypes
  <2>3. TableTypes
    BY NoInfoType DEF Init, TableTypes, Statuses
  <2> QED BY <2>1, <2>2, <2>3 DEF Init, TypeOK
<1>3. Nesting /\ Frames /\ Collected /\ Stopping /\ Killed
  BY DEF Init, Nesting, Frames, Collected, Stopping, Killed, IdleChld, IdleShut, Handled
<1>4. Unfilled /\ Ownership
  BY DEF Init, Unfilled, Ownership, InUse, EmptySlots
<1> QED BY <1>2, <1>3, <1>4 DEF IInv

\* The record of the main program, field by field.
LEMMA MainRecord ==
  ASSUME MasterTypes
  PROVE  /\ main = [pc |-> main.pc, i |-> main.i, pid |-> main.pid,
                    timeout |-> main.timeout]
         /\ main.pc \in MainPc /\ main.i \in 0 .. MAX_PROCESS
         /\ main.pid \in PidOrNone /\ main.timeout \in -1 .. TIMEOUT
BY DEF MasterTypes

\* Collecting a zombie, by whatever part of the program, keeps the invariant.
LEMMA CollectInv ==
  ASSUME IInv, NEW p \in Pids, Collect(p),
         UNCHANGED <<globals, main, chld, shut, nest, pending, budget>>
  PROVE  IInv'
<1>1. /\ TableTypes' /\ InUse' = InUse \ {p}
      /\ proc[p] = "zombie" /\ proc' = [proc EXCEPT ![p] = "free"]
      /\ pend' = [pend EXCEPT ![p] = {}]
  BY CollectTable DEF IInv
<1>2. TypeOK'
  BY <1>1 DEF IInv, TypeOK, MasterTypes, NestTypes, globals, nest, budget
<1>3. Nesting' /\ Frames' /\ Unfilled' /\ Stopping'
  BY DEF IInv, Nesting, Frames, Unfilled, Stopping, globals, nest
<1>4. Collected' /\ Killed'
  BY <1>1 DEF IInv, TypeOK, TableTypes, Collected, Killed, Running, globals
<1>5. Ownership'
  BY <1>1 DEF IInv, Ownership, Owned, globals
<1> QED BY <1>2, <1>3, <1>4, <1>5 DEF IInv

-----------------------------------------------------------------------------
(***************************************************************************)
(* The main program.                                                       *)
(***************************************************************************)

\* While the main program runs no handler is active.
LEMMA MainAlone ==
  ASSUME IInv, level = 0
  PROVE  /\ depth = [s \in Handled |-> 0]
         /\ chld.pc = "idle"
<1>1. \A s \in Handled : depth[s] = 0
  BY DEF IInv, Nesting, TypeOK, NestTypes
<1>2. chld.pc = "idle"
  BY <1>1 DEF IInv, Frames, Handled
<1> QED BY <1>1, <1>2 DEF IInv, TypeOK, NestTypes

\* Every step of runMutilProcessServer keeps the invariant: the fork loop, the
\* wait, the forced kill and the last waitpid loop.
LEMMA MainInv ==
  ASSUME IInv, MainStep
  PROVE  IInv'
<1> USE SupervisorAssumption
<1>0. TypeOK /\ MasterTypes /\ NestTypes /\ TableTypes
  BY DEF IInv, TypeOK
<1>1. ASSUME NEW p \in Pids, ForkWorker(p) PROVE IInv'
  <2>1. level = 0 /\ main.pc = "fork" /\ main.i < MAX_PROCESS /\ Fork(p, "boot")
    BY <1>1 DEF ForkWorker, Main
  <2>2. chld.pc = "idle"
    BY <2>1, MainAlone
  <2>3. TableTypes' /\ InUse' = InUse \cup {p}
    BY <1>0, <2>1, ForkTable
  <2>4. main' = [main EXCEPT !.pc = "record", !.pid = p]
    BY <1>1 DEF ForkWorker
  <2>5. TypeOK'
    BY <1>0, <1>1, <2>3, <2>4
       DEF ForkWorker, TypeOK, MasterTypes, NestTypes, MainPc, PidOrNone,
           globals, nest, budget
  <2>6. Nesting' /\ Frames' /\ Unfilled'
    BY <1>0, <1>1, <2>1, <2>4
       DEF IInv, ForkWorker, Nesting, Frames, Unfilled, MasterTypes, globals, nest
  <2>7. Collected' /\ Stopping' /\ Killed'
    BY <1>0, <1>1, <2>1, <2>2, <2>4
       DEF ForkWorker, Collected, Stopping, Killed, MasterTypes, globals
  <2>8. Ownership'
    <3>1. main.i \in Slots /\ worker_pids[main.i] = NoPid
      BY <1>0, <2>1 DEF IInv, Unfilled, MasterTypes, Slots
    <3>2. Owned' = [Owned EXCEPT ![main.i] = p]
      BY <1>0, <1>1, <2>1, <2>2, <2>4, <3>1
         DEF ForkWorker, Owned, MasterTypes, globals
    <3>3. Owned[main.i] = NoPid /\ NoPid \notin InUse
      BY <2>1, <2>2, <3>1 DEF Owned, InUse
    <3>4. ASSUME NEW q \in InUse' PROVE \E i \in Slots : Owned'[i] = q
      <4>1. CASE q = p
        BY <3>1, <3>2, <4>1 DEF Owned
      <4>2. CASE q # p
        <5>1. PICK i \in Slots : Owned[i] = q
          BY <2>3, <4>2 DEF IInv, Ownership
        <5>2. i # main.i
          BY <2>3, <3>3, <4>2, <5>1
        <5> QED BY <3>2, <5>1, <5>2 DEF Owned
      <4> QED BY <4>1, <4>2
    <3> QED BY <3>4 DEF Ownership
  <2> QED BY <2>5, <2>6, <2>7, <2>8 DEF IInv
<1>2. CASE ForkWorkerFails
  <2>1. level = 0 /\ main.pc = "fork" /\ main.i < MAX_PROCESS
    BY <1>2 DEF ForkWorkerFails, Main
  <2>2. main' = [main EXCEPT !.i = @ + 1]
    BY <1>2 DEF ForkWorkerFails
  <2>3. TypeOK'
    BY <1>0, <1>2, <2>1, <2>2
       DEF ForkWorkerFails, TypeOK, MasterTypes, NestTypes, TableTypes,
           globals, nest, table, budget
  <2>4. Nesting' /\ Frames' /\ Unfilled'
    BY <1>0, <1>2, <2>1, <2>2
       DEF IInv, ForkWorkerFails, Nesting, Frames, Unfilled, MasterTypes, Slots,
           globals, nest
  <2>5. Collected' /\ Stopping' /\ Killed'
    BY <1>0, <1>2, <2>1, <2>2
       DEF IInv, ForkWorkerFails, Collected, Stopping, Killed, MasterTypes,
           globals, table
  <2>6. Ownership'
    BY <1>0, <1>2, <2>1, <2>2
       DEF IInv, ForkWorkerFails, Ownership, Owned, InUse, MasterTypes, globals, table
  <2> QED BY <2>3, <2>4, <2>5, <2>6 DEF IInv
<1>3. CASE RecordWorker
  <2>1. level = 0 /\ main.pc = "record"
    BY <1>3 DEF RecordWorker, Main
  <2>2. chld.pc = "idle"
    BY <2>1, MainAlone
  <2>3. main.i \in Slots /\ main.pid \in Pids
    BY <1>0, <2>1 DEF IInv, Frames, MasterTypes, Slots
  <2>4. /\ main' = [main EXCEPT !.pc = "fork", !.i = @ + 1, !.pid = NoPid]
        /\ worker_pids' = [worker_pids EXCEPT ![main.i] = main.pid]
    BY <1>3 DEF RecordWorker
  <2>10. main' = [pc |-> "fork", i |-> main.i + 1, pid |-> NoPid,
                  timeout |-> main.timeout]
    BY <1>0, <2>4, MainRecord
  <2>11. /\ main' \in [pc : MainPc, i : 0 .. MAX_PROCESS, pid : PidOrNone,
                       timeout : -1 .. TIMEOUT]
         /\ worker_pids' \in [Slots -> PidOrNone]
    <3>1. "fork" \in MainPc /\ main.i + 1 \in 0 .. MAX_PROCESS
          /\ NoPid \in PidOrNone /\ main.pid \in PidOrNone
      BY <2>3 DEF MainPc, Slots, PidOrNone
    <3>2. main.timeout \in -1 .. TIMEOUT /\ worker_pids \in [Slots -> PidOrNone]
      BY <1>0, MainRecord DEF MasterTypes
    <3> QED BY <2>3, <2>4, <2>10, <3>1, <3>2
  <2>5. TypeOK'
    BY <1>0, <1>3, <2>11
       DEF RecordWorker, TypeOK, MasterTypes, NestTypes, TableTypes, nest, table, budget
  <2>6. Nesting' /\ Frames' /\ Unfilled'
    BY <1>0, <1>3, <2>1, <2>3, <2>4
       DEF IInv, RecordWorker, Nesting, Frames, Unfilled, MasterTypes, Slots, nest
  <2>7. Collected' /\ Stopping' /\ Killed'
    BY <1>0, <1>3, <2>2, <2>4
       DEF RecordWorker, Collected, Stopping, Killed, MasterTypes, table
  <2>8. Owned' = Owned /\ InUse' = InUse
    BY <1>0, <1>3, <2>1, <2>2, <2>3, <2>4
       DEF RecordWorker, Owned, InUse, MasterTypes, table
  <2>9. Ownership'
    BY <2>8 DEF IInv, Ownership
  <2> QED BY <2>5, <2>6, <2>7, <2>9 DEF IInv
<1>4. CASE EndForkLoop \/ LeaveLoop
  <2>1. /\ level = 0
        /\ UNCHANGED <<globals, chld, shut, nest, pending, table, budget>>
    BY <1>4 DEF EndForkLoop, LeaveLoop, Main
  <2>2. \/ /\ main.pc = "fork"
           /\ main' = [pc |-> "loop", i |-> 0, pid |-> main.pid,
                       timeout |-> main.timeout]
        \/ /\ main.pc = "loop" /\ ~server_running
           /\ main' = [pc |-> "wait", i |-> main.i, pid |-> main.pid,
                       timeout |-> TIMEOUT]
    BY <1>0, <1>4, MainRecord DEF EndForkLoop, LeaveLoop, Main
  <2>3. chld.pc = "idle"
    BY <2>1, MainAlone
  <2>4. main' \in [pc : MainPc, i : 0 .. MAX_PROCESS, pid : PidOrNone,
                  timeout : -1 .. TIMEOUT]
    BY <1>0, <2>2, MainRecord DEF MainPc
  <2>5. TypeOK'
    BY <1>0, <2>1, <2>4
       DEF TypeOK, MasterTypes, NestTypes, TableTypes, globals, nest, table, budget
  <2>6. Nesting' /\ Frames' /\ Unfilled' /\ Collected' /\ Stopping' /\ Killed'
    BY <2>1, <2>2, <2>3
       DEF IInv, Nesting, Frames, Unfilled, Collected, Stopping, Killed,
           globals, nest, table
  <2>7. Ownership'
    BY <2>1, <2>2 DEF IInv, Ownership, Owned, InUse, globals, table
  <2> QED BY <2>5, <2>6, <2>7 DEF IInv
<1>5. CASE WaitWorkers
  <2> DEFINE over == main.timeout = 0 \/ worker_pids = EmptySlots
  <2>1. /\ level = 0 /\ main.pc = "wait" /\ main.i = 0 /\ main.timeout >= 0
        /\ main' = [main EXCEPT !.timeout = main.timeout - 1,
                      !.pc = IF ~over THEN "wait"
                             ELSE IF main.timeout <= 1 THEN "test" ELSE "reap"]
        /\ UNCHANGED <<globals, chld, shut, nest, pending, table, budget>>
    BY <1>5 DEF IInv, Frames, WaitWorkers, Waiting, Main
  <2>2. \E pc \in {"test", "wait", "reap"} :
          /\ main' = [pc |-> pc, i |-> 0, pid |-> main.pid,
                      timeout |-> main.timeout - 1]
          /\ pc = "wait" => main.timeout > 0
          /\ pc = "reap" => worker_pids = EmptySlots
    <3> DEFINE next(pc) == [pc |-> pc, i |-> 0, pid |-> main.pid,
                            timeout |-> main.timeout - 1]
    <3>1. CASE ~over
      <4>1. main' = [main EXCEPT !.timeout = main.timeout - 1, !.pc = "wait"]
        BY <2>1, <3>1
      <4>2. main' = next("wait")
        BY <1>0, <2>1, <4>1, MainRecord
      <4>3. main.timeout > 0
        BY <1>0, <2>1, <3>1, MainRecord
      <4> QED BY <4>2, <4>3
    <3>2. CASE over /\ main.timeout <= 1
      <4>1. main' = [main EXCEPT !.timeout = main.timeout - 1, !.pc = "test"]
        BY <2>1, <3>2
      <4>2. main' = next("test")
        BY <1>0, <2>1, <4>1, MainRecord
      <4> QED BY <4>2
    <3>3. CASE over /\ ~(main.timeout <= 1)
      <4>1. main' = [main EXCEPT !.timeout = main.timeout - 1, !.pc = "reap"]
        BY <2>1, <3>3
      <4>2. main' = next("reap")
        BY <1>0, <2>1, <4>1, MainRecord
      <4>3. worker_pids = EmptySlots
        BY <1>0, <3>3, MainRecord
      <4> QED BY <4>2, <4>3
    <3> QED BY <3>1, <3>2, <3>3
  <2>3. /\ main'.i = 0 /\ main'.timeout = main.timeout - 1 /\ main'.pid = main.pid
        /\ main'.pc \in {"test", "wait", "reap"}
        /\ main'.pc = "wait" => main.timeout > 0
        /\ main'.pc = "reap" => worker_pids = EmptySlots
    BY <2>2
  <2>4. TypeOK'
    <3>1. main' \in [pc : MainPc, i : 0 .. MAX_PROCESS, pid : PidOrNone,
                    timeout : -1 .. TIMEOUT]
      BY <1>0, <2>1, <2>2, MainRecord DEF MainPc
    <3> QED BY <1>0, <2>1, <3>1 DEF TypeOK, MasterTypes, NestTypes, TableTypes,
                                    globals, nest, table, budget
  <2>5. ~server_running /\ chld.pc \notin {"restart", "sleep", "record"}
    BY <2>1 DEF IInv, Stopping
  <2>6. Nesting' /\ Frames' /\ Unfilled' /\ Collected' /\ Stopping'
    BY <1>0, <2>1, <2>3, <2>5
       DEF IInv, Nesting, Frames, Unfilled, Collected, Stopping,
           MasterTypes, globals, nest, table
  <2>7. \A p \in InUse : \E i \in Slots : worker_pids[i] = p
    BY <2>1, <2>5 DEF IInv, Ownership, Owned
  <2>8. Ownership'
    BY <2>1, <2>3, <2>5, <2>7 DEF Ownership, Owned, InUse, globals, table
  <2>9. Killed'
    BY <2>1, <2>3, <2>7
       DEF Killed, Running, InUse, EmptySlots, Slots, globals, table
  <2> QED BY <2>4, <2>6, <2>8, <2>9 DEF IInv
<1>6. CASE ForceTest
  <2>1. /\ level = 0 /\ main.pc = "test"
        /\ UNCHANGED <<globals, chld, shut, nest, pending, table, budget>>
    BY <1>6 DEF ForceTest, Main
  <2>2. \/ /\ main.i = MAX_PROCESS
           /\ main' = [pc |-> "reap", i |-> 0, pid |-> main.pid,
                       timeout |-> main.timeout]
        \/ /\ main.i < MAX_PROCESS
           /\ main' = [pc |-> "kill", i |-> main.i, pid |-> main.pid,
                       timeout |-> main.timeout]
        \/ /\ main.i < MAX_PROCESS /\ worker_pids[main.i] = NoPid
           /\ main' = [pc |-> "test", i |-> main.i + 1, pid |-> main.pid,
                       timeout |-> main.timeout]
    <3>1. CASE main.i = MAX_PROCESS
      <4>1. main' = [main EXCEPT !.pc = "reap", !.i = 0]
        BY <1>6, <3>1 DEF ForceTest
      <4> QED BY <1>0, <3>1, <4>1, MainRecord
    <3>2. CASE main.i # MAX_PROCESS /\ worker_pids[main.i] # NoPid
      <4>1. main' = [main EXCEPT !.pc = "kill"]
        BY <1>6, <3>2 DEF ForceTest
      <4> QED BY <1>0, <3>2, <4>1, MainRecord
    <3>3. CASE main.i # MAX_PROCESS /\ worker_pids[main.i] = NoPid
      <4>1. main' = [main EXCEPT !.i = @ + 1]
        BY <1>6, <3>3 DEF ForceTest
      <4> QED BY <1>0, <2>1, <3>3, <4>1, MainRecord
    <3> QED BY <3>1, <3>2, <3>3
  <2>3. main' \in [pc : MainPc, i : 0 .. MAX_PROCESS, pid : PidOrNone,
                  timeout : -1 .. TIMEOUT]
    BY <1>0, <2>2, MainRecord DEF MainPc
  <2>4. TypeOK'
    BY <1>0, <2>1, <2>3
       DEF TypeOK, MasterTypes, NestTypes, TableTypes, globals, nest, table, budget
  <2>5. Nesting' /\ Frames' /\ Unfilled' /\ Collected' /\ Stopping'
    BY <2>1, <2>2
       DEF IInv, Nesting, Frames, Unfilled, Collected, Stopping,
           globals, nest, table
  <2>6. Ownership'
    BY <2>1, <2>2 DEF IInv, Ownership, Owned, InUse, globals, table
  <2>7. Killed'
    <3>1. main.i \in Nat
      BY <1>0, MainRecord
    <3>2. \A p \in Running : p # NoPid
      BY DEF Running
    <3> QED BY <2>1, <2>2, <3>1, <3>2 DEF IInv, Killed, Running, Slots, globals, table
  <2> QED BY <2>4, <2>5, <2>6, <2>7 DEF IInv
<1>7. CASE ForceKill
  <2> DEFINE pid == worker_pids[main.i]
             P == IF pid = NoPid THEN Pids ELSE {pid}
  <2>1. /\ level = 0 /\ main.pc = "kill" /\ main.i < MAX_PROCESS
        /\ Post(P, "KILL")
        /\ UNCHANGED <<globals, chld, shut, nest, pending, budget>>
    BY <1>7 DEF IInv, Frames, ForceKill, Main
  <2>2. \/ /\ pid = NoPid
           /\ main' = [pc |-> "killed", i |-> main.i, pid |-> main.pid,
                       timeout |-> main.timeout]
        \/ /\ pid # NoPid
           /\ main' = [pc |-> "test", i |-> main.i + 1, pid |-> main.pid,
                       timeout |-> main.timeout]
    BY <1>0, <1>7, MainRecord DEF ForceKill
  <2>3. /\ TableTypes' /\ proc' = proc
        /\ \A p \in Pids : pend[p] \subseteq pend'[p]
        /\ \A p \in P \cap Running : "KILL" \in pend'[p]
    BY <1>0, <2>1, PostTable
  <2> HIDE DEF P
  <2>4. TypeOK'
    <3>1. main' \in [pc : MainPc, i : 0 .. MAX_PROCESS, pid : PidOrNone,
                    timeout : -1 .. TIMEOUT]
      BY <1>0, <2>1, <2>2, MainRecord DEF MainPc
    <3> QED BY <1>0, <2>1, <2>3, <3>1
               DEF TypeOK, MasterTypes, NestTypes, globals, nest, budget
  <2>5. Nesting' /\ Frames' /\ Unfilled' /\ Collected' /\ Stopping'
    BY <2>1, <2>2, <2>3
       DEF IInv, Nesting, Frames, Unfilled, Collected, Stopping, globals, nest
  <2>6. Ownership'
    BY <2>1, <2>2, <2>3 DEF IInv, Ownership, Owned, InUse, globals
  <2>7. Killed'
    <3>1. CASE pid = NoPid
      BY <1>0, <2>2, <2>3, <3>1 DEF Killed, Running, MasterTypes, P
    <3>2. CASE pid # NoPid
      <4>1. main'.pc = "test" /\ main'.i = main.i + 1
        BY <1>0, <2>2, <3>2 DEF MasterTypes
      <4>2. ASSUME NEW p \in Running', "KILL" \notin pend'[p]
            PROVE  \E i \in Slots : i >= main'.i /\ worker_pids'[i] = p
        <5>1. p \in Running /\ "KILL" \notin pend[p] /\ p # pid
          BY <2>3, <3>2, <4>2 DEF Running, P
        <5>2. PICK i \in Slots : i >= main.i /\ worker_pids[i] = p
          BY <2>1, <5>1 DEF IInv, Killed
        <5>3. i # main.i
          BY <5>1, <5>2
        <5> QED BY <1>0, <2>1, <4>1, <5>2, <5>3 DEF MasterTypes, Slots, globals
      <4> QED BY <4>1, <4>2 DEF Killed
    <3> QED BY <3>1, <3>2
  <2> QED BY <2>4, <2>5, <2>6, <2>7 DEF IInv
<1>8. ASSUME NEW p \in Pids, Reap(p) PROVE IInv'
  <2>1. /\ level = 0 /\ main.pc = "reap" /\ Collect(p)
        /\ UNCHANGED <<globals, main, chld, shut, nest, pending, budget>>
    BY <1>8 DEF Reap, Main
  <2> QED BY <1>0, <2>1, CollectInv
<1>9. CASE ReapDone \/ Exit
  <2>1. /\ level = 0
        /\ main.pc \in {"reap", "exit"}
        /\ \E pc \in {"exit", "exited"} : main' = [main EXCEPT !.pc = pc]
        /\ UNCHANGED <<globals, chld, shut, nest, pending, table, budget>>
    BY <1>9 DEF ReapDone, Exit, Main
  <2>2. TypeOK'
    BY <1>0, <2>1
       DEF TypeOK, MasterTypes, NestTypes, TableTypes, MainPc,
           globals, nest, table, budget
  <2>3. Nesting' /\ Frames' /\ Unfilled' /\ Collected' /\ Stopping' /\ Killed'
    BY <1>0, <2>1
       DEF IInv, Nesting, Frames, Unfilled, Collected, Stopping, Killed, Running,
           MasterTypes, globals, nest, table
  <2>4. Ownership'
    BY <1>0, <2>1 DEF IInv, Ownership, Owned, InUse, MasterTypes, globals, table
  <2> QED BY <2>2, <2>3, <2>4 DEF IInv
<1> QED BY <1>1, <1>2, <1>3, <1>4, <1>5, <1>6, <1>7, <1>8, <1>9 DEF MainStep

-----------------------------------------------------------------------------
(***************************************************************************)
(* The SIGCHLD handler.                                                    *)
(***************************************************************************)

\* The record of the SIGCHLD handler, field by field.
LEMMA ChldRecord ==
  ASSUME MasterTypes
  PROVE  /\ chld = [pc |-> chld.pc, i |-> chld.i, pid |-> chld.pid,
                    status |-> chld.status, new |-> chld.new]
         /\ chld.pc \in ChldPc /\ chld.i \in Slots /\ chld.pid \in PidOrNone
         /\ chld.status \in Statuses /\ chld.new \in PidOrNone
BY DEF MasterTypes

\* A frame of the handler that waits for children, or has returned.
LEMMA ChldFresh ==
  ASSUME NEW pc \in ChldPc
  PROVE  /\ IdleChld = [pc |-> "idle", i |-> 0, pid |-> NoPid,
                        status |-> "none", new |-> NoPid]
         /\ [IdleChld EXCEPT !.pc = pc] \in
              [pc : ChldPc, i : Slots, pid : PidOrNone, status : Statuses,
               new : PidOrNone]
         /\ IdleChld \in
              [pc : ChldPc, i : Slots, pid : PidOrNone, status : Statuses,
               new : PidOrNone]
         /\ [IdleChld EXCEPT !.pc = pc].pc = pc
BY SupervisorAssumption DEF IdleChld, ChldPc, Slots, PidOrNone, Statuses

\* Leaving the innermost handler keeps the nest in order.
LEMMA ReturnNest ==
  ASSUME NestTypes, Nesting, NEW s \in Handled, Top(s), Return(s),
         UNCHANGED pending
  PROVE  NestTypes' /\ Nesting' /\ depth'[s] = 0
         /\ \A t \in Handled : t # s => depth'[t] = depth[t]
<1>1. /\ level \in 1 .. 3 /\ level' = level - 1 /\ depth[s] = level
      /\ depth' = [depth EXCEPT ![s] = 0]
  BY DEF NestTypes, Top, Return
<1>2. NestTypes'
  BY <1>1 DEF NestTypes
<1>3. depth'[s] = 0 /\ \A t \in Handled : t # s => depth'[t] = depth[t]
  BY <1>1 DEF NestTypes
<1>4. \A t \in Handled : depth'[t] <= level'
  BY <1>1, <1>3 DEF NestTypes, Nesting
<1>5. \A t, u \in Handled : t # u /\ depth'[t] > 0 => depth'[t] # depth'[u]
  BY <1>1, <1>3 DEF NestTypes, Nesting
<1>6. \A k \in 1 .. level' : \E t \in Handled : depth'[t] = k
  BY <1>1, <1>3 DEF NestTypes, Nesting
<1> QED BY <1>2, <1>3, <1>4, <1>5, <1>6 DEF Nesting

\* A step of the handler that only moves its own frame to a place where it
\* holds no pid keeps the invariant.
LEMMA ChldMoves ==
  ASSUME IInv, NEW pc \in {"wait"}, chld.pc # "record",
         chld' = [IdleChld EXCEPT !.pc = pc], depth["CHLD"] > 0,
         UNCHANGED <<globals, main, shut, nest, pending, table, budget>>
  PROVE  IInv'
<1>1. chld'.pc = "wait" /\ TypeOK'
  BY ChldFresh DEF IInv, TypeOK, MasterTypes, NestTypes, TableTypes, ChldPc,
                   globals, nest, table, budget
<1>2. Nesting' /\ Frames' /\ Unfilled' /\ Collected' /\ Stopping' /\ Killed'
  BY <1>1 DEF IInv, Nesting, Frames, Unfilled, Collected, Stopping, Killed, Running,
              globals, nest, table
<1>3. Ownership'
  BY <1>1 DEF IInv, Ownership, Owned, InUse, globals, table
<1> QED BY <1>1, <1>2, <1>3 DEF IInv

\* Every step of sigchldHandler and restartWorker keeps it, whatever part of
\* the main program or of a shutdown handler it has interrupted.
LEMMA ChldInv ==
  ASSUME IInv, ChldStep
  PROVE  IInv'
<1> USE SupervisorAssumption
<1>0. TypeOK /\ MasterTypes /\ NestTypes /\ TableTypes
  BY DEF IInv, TypeOK
<1>1. ASSUME NEW p \in Pids, ChldWait(p) PROVE IInv'
  <2>1. /\ Chld("wait") /\ Collect(p)
        /\ UNCHANGED <<globals, main, shut, nest, pending, budget>>
    BY <1>1 DEF ChldWait
  <2>2. /\ TableTypes' /\ InUse' = InUse \ {p}
        /\ proc[p] = "zombie" /\ proc' = [proc EXCEPT ![p] = "free"]
        /\ pend' = [pend EXCEPT ![p] = {}]
    BY <1>0, <2>1, CollectTable
  <2>3. info[p].status \in Statuses
    BY <1>0 DEF TableTypes
  <2>4. chld' = [pc |-> "find", i |-> chld.i, pid |-> p,
                 status |-> info[p].status, new |-> chld.new]
    BY <1>0, <1>1, ChldRecord DEF ChldWait
  <2>5. TypeOK'
    BY <1>0, <2>1, <2>2, <2>3, <2>4, ChldRecord
       DEF TypeOK, MasterTypes, NestTypes, ChldPc, PidOrNone, globals, nest, budget
  <2>6. depth["CHLD"] > 0 /\ chld.pc = "wait"
    BY <1>0, <2>1 DEF Chld, Top
  <2>7. Nesting' /\ Frames' /\ Unfilled' /\ Stopping'
    BY <2>1, <2>4, <2>6 DEF IInv, Nesting, Frames, Unfilled, Stopping, globals, nest
  <2>8. Collected' /\ Killed'
    BY <1>0, <2>1, <2>2, <2>4
       DEF IInv, TableTypes, Collected, Killed, Running, globals
  <2>9. Ownership'
    BY <2>1, <2>2, <2>4, <2>6 DEF IInv, Ownership, Owned, globals
  <2> QED BY <2>5, <2>7, <2>8, <2>9 DEF IInv
<1>2. CASE ChldReturn
  <2>1. /\ Top("CHLD") /\ Return("CHLD") /\ chld.pc = "wait" /\ chld' = IdleChld
        /\ UNCHANGED <<globals, main, shut, pending, table, budget>>
    BY <1>2 DEF ChldReturn, Chld
  <2>2. NestTypes' /\ Nesting' /\ depth'["CHLD"] = 0
    BY <1>0, <2>1, ReturnNest DEF IInv, Handled
  <2>3. chld'.pc = "idle"
    BY <2>1 DEF IdleChld
  <2>4. TypeOK'
    BY <1>0, <2>1, <2>2, ChldFresh
       DEF TypeOK, MasterTypes, TableTypes, ChldPc, globals, table, budget
  <2>5. Frames' /\ Unfilled' /\ Collected' /\ Stopping' /\ Killed'
    BY <2>1, <2>3
       DEF IInv, Frames, Unfilled, Collected, Stopping, Killed, Running,
           globals, table
  <2>6. Ownership'
    BY <2>1, <2>3 DEF IInv, Ownership, Owned, InUse, globals, table
  <2> QED BY <2>2, <2>4, <2>5, <2>6 DEF IInv
<1>3. CASE ChldFind
  <2>1. /\ depth["CHLD"] > 0 /\ chld.pc = "find"
        /\ chld.pid \in Pids /\ proc[chld.pid] = "free"
        /\ UNCHANGED <<server_running, main, shut, nest, pending, table, budget>>
    BY <1>0, <1>3 DEF IInv, Collected, ChldFind, Chld, Top
  <2>2. CASE worker_pids' = worker_pids /\ chld' = [IdleChld EXCEPT !.pc = "wait"]
    BY <2>1, <2>2, ChldMoves DEF globals
  <2>3. ASSUME NEW i \in Slots, worker_pids[i] = chld.pid, server_running,
               chld' = [chld EXCEPT !.pc = "restart", !.i = i],
               worker_pids' = worker_pids
        PROVE  IInv'
    <3>1. chld' = [pc |-> "restart", i |-> i, pid |-> chld.pid,
                   status |-> chld.status, new |-> chld.new]
      BY <1>0, <2>3, ChldRecord
    <3>2. TypeOK'
      BY <1>0, <2>1, <2>3, <3>1, ChldRecord
         DEF TypeOK, MasterTypes, NestTypes, TableTypes, ChldPc, nest, table, budget
    <3>3. Nesting' /\ Frames' /\ Unfilled' /\ Collected' /\ Stopping' /\ Killed'
      BY <2>1, <2>3, <3>1
         DEF IInv, Nesting, Frames, Unfilled, Collected, Stopping, Killed, Running,
             nest, table
    <3>4. Ownership'
      BY <2>1, <2>3, <3>1 DEF IInv, Ownership, Owned, InUse, table
    <3> QED BY <3>2, <3>3, <3>4 DEF IInv
  <2>4. ASSUME NEW i \in Slots, worker_pids[i] = chld.pid,
               worker_pids' = [worker_pids EXCEPT ![i] = NoPid],
               chld' = [IdleChld EXCEPT !.pc = "wait"]
        PROVE  IInv'
    <3>1. chld'.pc = "wait"
      BY <2>4, ChldFresh DEF ChldPc
    <3>2. TypeOK'
      BY <1>0, <2>1, <2>4, ChldFresh
         DEF TypeOK, MasterTypes, NestTypes, TableTypes, ChldPc, PidOrNone,
             nest, table, budget
    <3>3. Nesting' /\ Frames' /\ Unfilled' /\ Collected' /\ Stopping'
      BY <1>0, <2>1, <2>4, <3>1
         DEF IInv, Nesting, Frames, Unfilled, Collected, Stopping, MasterTypes,
             nest, table
    <3>4. Killed'
      BY <1>0, <2>1, <2>4 DEF IInv, Killed, Running, MasterTypes, table
    <3>5. Ownership'
      BY <1>0, <2>1, <2>4, <3>1
         DEF IInv, Ownership, Owned, InUse, MasterTypes, table
    <3> QED BY <3>2, <3>3, <3>4, <3>5 DEF IInv
  <2> QED BY <1>3, <2>2, <2>3, <2>4 DEF ChldFind, Owner
<1>4. CASE RestartCheck
  <2>1. /\ depth["CHLD"] > 0 /\ chld.pc = "restart"
        /\ UNCHANGED <<globals, main, shut, nest, pending, table, budget>>
    BY <1>0, <1>4 DEF RestartCheck, Chld, Top
  <2>2. CASE worker_pids[chld.i] # NoPid /\ server_running
    <3>1. chld' = [pc |-> "sleep", i |-> chld.i, pid |-> chld.pid,
                   status |-> chld.status, new |-> chld.new]
      BY <1>0, <1>4, <2>2, ChldRecord DEF RestartCheck
    <3>2. TypeOK'
      BY <1>0, <2>1, <3>1, ChldRecord
         DEF TypeOK, MasterTypes, NestTypes, TableTypes, ChldPc,
             globals, nest, table, budget
    <3>3. Nesting' /\ Frames' /\ Unfilled' /\ Collected' /\ Stopping' /\ Killed'
      BY <2>1, <3>1
         DEF IInv, Nesting, Frames, Unfilled, Collected, Stopping, Killed, Running,
             globals, nest, table
    <3>4. Ownership'
      BY <2>1, <3>1 DEF IInv, Ownership, Owned, InUse, globals, table
    <3> QED BY <3>2, <3>3, <3>4 DEF IInv
  <2>3. CASE ~(worker_pids[chld.i] # NoPid /\ server_running)
    BY <1>4, <2>1, <2>3, ChldMoves DEF RestartCheck
  <2> QED BY <2>2, <2>3
<1>5. ASSUME NEW p \in Pids, RestartFork(p) PROVE IInv'
  <2>1. /\ depth["CHLD"] > 0 /\ chld.pc = "sleep" /\ Fork(p, "serve")
        /\ chld.pid \in Pids /\ proc[chld.pid] = "free"
        /\ worker_pids[chld.i] = chld.pid
        /\ UNCHANGED <<globals, main, shut, nest, pending, budget>>
    BY <1>0, <1>5 DEF IInv, Collected, RestartFork, Chld, Top
  <2>2. TableTypes' /\ InUse' = InUse \cup {p}
    BY <1>0, <2>1, ForkTable
  <2>3. chld' = [pc |-> "record", i |-> chld.i, pid |-> chld.pid,
                 status |-> chld.status, new |-> p]
    BY <1>0, <1>5, ChldRecord DEF RestartFork
  <2>4. TypeOK'
    BY <1>0, <2>1, <2>2, <2>3, ChldRecord
       DEF TypeOK, MasterTypes, NestTypes, ChldPc, PidOrNone, globals, nest, budget
  <2>5. main.pc \in {"fork", "record", "loop"}
    BY <2>1 DEF IInv, Stopping
  <2>6. Nesting' /\ Frames' /\ Unfilled' /\ Collected' /\ Stopping' /\ Killed'
    BY <2>1, <2>3, <2>5
       DEF IInv, Nesting, Frames, Unfilled, Collected, Stopping, Killed,
           globals, nest
  <2>7. Ownership'
    <3>1. chld.i \in Slots /\ worker_pids[chld.i] # NoPid
      BY <1>0, <2>1, ChldRecord
    <3>2. ~(main.pc = "record" /\ main.i = chld.i)
      BY <1>0, <3>1, MainRecord DEF IInv, Unfilled
    <3>3. Owned[chld.i] = chld.pid /\ chld.pid \notin InUse
      BY <2>1, <3>1, <3>2 DEF Owned, InUse
    <3>4. Owned'[chld.i] = p
      BY <2>1, <2>3, <3>1, <3>2 DEF Owned, globals
    <3>5. \A i \in Slots : i # chld.i => Owned'[i] = Owned[i]
      BY <2>1, <2>3 DEF Owned, globals
    <3> QED BY <2>2, <3>1, <3>3, <3>4, <3>5 DEF IInv, Ownership
  <2> QED BY <2>4, <2>6, <2>7 DEF IInv
<1>6. CASE RestartForkFails
  <2>1. /\ depth["CHLD"] > 0 /\ chld.pc = "sleep"
        /\ chld' = [IdleChld EXCEPT !.pc = "wait"]
        /\ UNCHANGED <<globals, main, shut, nest, pending, table, budget>>
    BY <1>0, <1>6 DEF RestartForkFails, Chld, Top
  <2> QED BY <2>1, ChldMoves
<1>7. CASE RestartRecord
  <2>1. /\ depth["CHLD"] > 0 /\ chld.pc = "record"
        /\ chld' = [IdleChld EXCEPT !.pc = "wait"]
        /\ worker_pids' = [worker_pids EXCEPT ![chld.i] = chld.new]
        /\ chld.pid \in Pids /\ chld.new \in Pids /\ worker_pids[chld.i] = chld.pid
        /\ UNCHANGED <<server_running, main, shut, nest, pending, table, budget>>
    BY <1>0, <1>7 DEF IInv, Collected, RestartRecord, Chld, Top
  <2>2. chld'.pc = "wait" /\ chld.i \in Slots
    BY <1>0, <2>1, ChldFresh, ChldRecord DEF ChldPc
  <2>3. TypeOK'
    BY <1>0, <2>1, <2>2, ChldFresh
       DEF TypeOK, MasterTypes, NestTypes, TableTypes, ChldPc, PidOrNone,
           nest, table, budget
  <2>4. main.pc \in {"fork", "record", "loop"}
    BY <2>1 DEF IInv, Stopping
  <2>5. main.pc \in {"fork", "record"} => chld.i < main.i
    BY <1>0, <2>1, <2>2, MainRecord DEF IInv, Unfilled, Slots
  <2>6. Nesting' /\ Frames' /\ Unfilled' /\ Collected' /\ Stopping' /\ Killed'
    BY <1>0, <2>1, <2>2, <2>4, <2>5, MainRecord
       DEF IInv, Nesting, Frames, Unfilled, Collected, Stopping, Killed,
           MasterTypes, Slots, nest, table
  <2>7. Owned' = Owned /\ InUse' = InUse
    BY <1>0, <2>1, <2>2, <2>5, MainRecord DEF Owned, InUse, MasterTypes, table
  <2>8. Ownership'
    BY <2>7 DEF IInv, Ownership
  <2> QED BY <2>3, <2>6, <2>8 DEF IInv
<1> QED BY <1>1, <1>2, <1>3, <1>4, <1>5, <1>6, <1>7 DEF ChldStep

-----------------------------------------------------------------------------
(***************************************************************************)
(* The shutdown handlers, the delivery of signals, the workers and the     *)
(* operator.                                                               *)
(***************************************************************************)

\* A step that sends signals to children, moves the frames of the shutdown
\* handlers and possibly clears the stop flag keeps the invariant.
LEMMA SignalInv ==
  ASSUME IInv,
         NestTypes', Nesting', TableTypes', depth'["CHLD"] = depth["CHLD"],
         proc' = proc, \A p \in Pids : "KILL" \in pend[p] => "KILL" \in pend'[p],
         shut' \in [StopSignals -> [pc : ShutPc, i : 0 .. MAX_PROCESS]],
         \A s \in StopSignals : shut'[s].pc = "kill" => shut'[s].i < MAX_PROCESS,
         server_running' \in {server_running, FALSE},
         signals' \in 0 .. MaxSignals, crashes' \in 0 .. MaxCrashes,
         UNCHANGED <<worker_pids, main, chld>>
  PROVE  IInv'
<1>1. TypeOK'
  BY DEF IInv, TypeOK, MasterTypes
<1>2. Frames' /\ Unfilled' /\ Collected'
  BY DEF IInv, Frames, Unfilled, Collected
<1>4. Stopping'
  BY DEF IInv, Stopping
<1>5. Killed'
  <2>1. Running' = Running /\ Running \subseteq Pids
    BY DEF Running
  <2> QED BY <2>1 DEF IInv, Killed
<1>3. Ownership'
  BY DEF IInv, Ownership, Owned, InUse
<1> QED BY <1>1, <1>2, <1>3, <1>4, <1>5 DEF IInv

\* Every step of shutdownHandler keeps it, kill of an emptied slot included.
LEMMA ShutInv ==
  ASSUME IInv, ShutStep
  PROVE  IInv'
<1> USE SupervisorAssumption
<1>0. /\ TypeOK /\ MasterTypes /\ NestTypes /\ TableTypes /\ Nesting
      /\ crashes \in 0 .. MaxCrashes /\ signals \in 0 .. MaxSignals
      /\ \A s \in StopSignals : shut[s].pc = "kill" => shut[s].i < MAX_PROCESS
  BY DEF IInv, TypeOK, Frames
<1>1. PICK s \in StopSignals :
        ShutStop(s) \/ ShutTest(s) \/ ShutKill(s) \/ ShutReturn(s)
  BY DEF ShutStep
<1>2. shut[s] \in [pc : ShutPc, i : 0 .. MAX_PROCESS]
  BY <1>0 DEF MasterTypes
<1>3. ASSUME NEW f \in [pc : ShutPc, i : 0 .. MAX_PROCESS],
             f.pc = "kill" => f.i < MAX_PROCESS, shut' = [shut EXCEPT ![s] = f]
      PROVE  /\ shut' \in [StopSignals -> [pc : ShutPc, i : 0 .. MAX_PROCESS]]
             /\ \A t \in StopSignals : shut'[t].pc = "kill" => shut'[t].i < MAX_PROCESS
  BY <1>0, <1>3 DEF MasterTypes
<1>4. CASE ShutStop(s)
  <2> DEFINE f == [pc |-> "test", i |-> 0]
  <2>1. /\ f \in [pc : ShutPc, i : 0 .. MAX_PROCESS] /\ f.pc # "kill"
        /\ shut' = [shut EXCEPT ![s] = f] /\ server_running' = FALSE
        /\ UNCHANGED <<worker_pids, main, chld, nest, pending, table, budget>>
    BY <1>4 DEF ShutStop, ShutPc
  <2> HIDE DEF f
  <2>2. NestTypes' /\ Nesting' /\ TableTypes'
    BY <1>0, <2>1 DEF NestTypes, Nesting, TableTypes, nest, table
  <2> QED BY <1>0, <1>3, <2>1, <2>2, SignalInv DEF nest, table, budget
<1>5. CASE ShutTest(s)
  <2>1. PICK f \in [pc : ShutPc, i : 0 .. MAX_PROCESS] :
          (f.pc = "kill" => f.i < MAX_PROCESS) /\ shut' = [shut EXCEPT ![s] = f]
    <3>1. shut[s].i < MAX_PROCESS /\ shut[s].pc = "test"
      BY <1>5 DEF ShutTest, Shut
    <3>2. CASE worker_pids[shut[s].i] # NoPid
      <4>1. shut' = [shut EXCEPT ![s] = [shut[s] EXCEPT !.pc = "kill"]]
        BY <1>0, <1>5, <3>2 DEF ShutTest, MasterTypes
      <4>2. [shut[s] EXCEPT !.pc = "kill"] = [pc |-> "kill", i |-> shut[s].i]
        BY <1>2
      <4> QED BY <1>2, <3>1, <4>1, <4>2 DEF ShutPc
    <3>3. CASE worker_pids[shut[s].i] = NoPid
      <4> DEFINE f == [pc |-> "test", i |-> shut[s].i + 1]
      <4>1. shut' = [shut EXCEPT ![s] = [shut[s] EXCEPT !.i = @ + 1]]
        BY <1>0, <1>5, <3>3 DEF ShutTest, MasterTypes
      <4>2. [shut[s] EXCEPT !.i = @ + 1] = f
        BY <1>2, <3>1
      <4>3. f \in [pc : ShutPc, i : 0 .. MAX_PROCESS] /\ f.pc # "kill"
        BY <1>2, <3>1 DEF ShutPc
      <4> HIDE DEF f
      <4> QED BY <4>1, <4>2, <4>3
    <3> QED BY <3>2, <3>3
  <2>2. UNCHANGED <<globals, main, chld, nest, pending, table, budget>>
    BY <1>5 DEF ShutTest
  <2>3. NestTypes' /\ Nesting' /\ TableTypes'
    BY <1>0, <2>2 DEF NestTypes, Nesting, TableTypes, nest, table
  <2> QED BY <1>0, <1>3, <2>1, <2>2, <2>3, SignalInv DEF globals, nest, table, budget
<1>6. CASE ShutKill(s)
  <2> DEFINE pid == worker_pids[shut[s].i]
             P == IF pid = NoPid THEN Pids ELSE {pid}
             f == [pc |-> "test", i |-> shut[s].i + 1]
  <2>1. /\ shut[s].pc = "kill" /\ Post(P, "TERM")
        /\ pending' = IF pid = NoPid THEN pending \cup {"TERM"} ELSE pending
        /\ UNCHANGED <<globals, main, chld, nest, budget>>
    BY <1>6 DEF ShutKill, Shut
  <2>2. shut' = [shut EXCEPT ![s] = f]
    BY <1>0, <1>6 DEF ShutKill, MasterTypes
  <2>3. f \in [pc : ShutPc, i : 0 .. MAX_PROCESS] /\ f.pc # "kill"
    BY <1>0, <1>2, <2>1 DEF ShutPc
  <2>4. TableTypes' /\ proc' = proc /\ \A p \in Pids : pend[p] \subseteq pend'[p]
    BY <1>0, <2>1, PostTable
  <2> HIDE DEF f, P, pid
  <2>5. pending' \in SUBSET Handled
    BY <1>0, <2>1 DEF NestTypes, Handled, StopSignals
  <2>6. NestTypes' /\ Nesting'
    BY <1>0, <2>1, <2>5 DEF NestTypes, Nesting, nest
  <2> QED BY <1>0, <1>3, <2>1, <2>2, <2>3, <2>4, <2>6, SignalInv
             DEF globals, nest, budget
<1>7. CASE ShutReturn(s)
  <2>1. /\ Top(s) /\ Return(s) /\ shut' = [shut EXCEPT ![s] = IdleShut]
        /\ UNCHANGED <<globals, main, chld, pending, table, budget>>
    BY <1>7 DEF ShutReturn, Shut
  <2>2. IdleShut \in [pc : ShutPc, i : 0 .. MAX_PROCESS] /\ IdleShut.pc # "kill"
    BY DEF IdleShut, ShutPc
  <2>3. NestTypes' /\ Nesting' /\ depth'["CHLD"] = depth["CHLD"]
    BY <1>0, <2>1, ReturnNest DEF Handled, StopSignals
  <2>4. TableTypes'
    BY <1>0, <2>1 DEF TableTypes, table
  <2> QED BY <1>0, <1>3, <2>1, <2>2, <2>3, <2>4, SignalInv DEF globals, table, budget
<1> QED BY <1>1, <1>4, <1>5, <1>6, <1>7

\* A handler that starts takes the next position of the nest: there are only
\* three, and its own is free.
LEMMA InterruptNest ==
  ASSUME NestTypes, Nesting, NEW s \in Handled, Interrupt(s)
  PROVE  NestTypes' /\ Nesting' /\ depth'[s] > 0
         /\ \A t \in Handled : t # s => depth'[t] = depth[t]
<1>1. /\ depth[s] = 0 /\ level' = level + 1 /\ pending' = pending \ {s}
      /\ depth' = [depth EXCEPT ![s] = level + 1]
  BY DEF Interrupt
<1>2. level < 3
  <2>1. SUFFICES ASSUME level = 3 PROVE FALSE
    BY DEF NestTypes
  <2>2. PICK t1 \in Handled, t2 \in Handled, t3 \in Handled :
          depth[t1] = 1 /\ depth[t2] = 2 /\ depth[t3] = 3
    BY <2>1 DEF Nesting
  <2> QED BY <1>1, <2>2 DEF Handled, StopSignals
<1>3. NestTypes' /\ depth'[s] = level + 1
      /\ \A t \in Handled : t # s => depth'[t] = depth[t]
  BY <1>1, <1>2 DEF NestTypes
<1>4. Nesting'
  BY <1>1, <1>3 DEF NestTypes, Nesting
<1> QED BY <1>3, <1>4 DEF NestTypes

\* The start of a handler keeps it, an interrupted last waitpid included.
LEMMA DeliverInv ==
  ASSUME IInv, Deliver
  PROVE  IInv'
<1> USE SupervisorAssumption
<1>0. /\ TypeOK /\ MasterTypes /\ NestTypes /\ TableTypes /\ Nesting
      /\ crashes \in 0 .. MaxCrashes /\ signals \in 0 .. MaxSignals
      /\ \A s \in StopSignals : shut[s].pc = "kill" => shut[s].i < MAX_PROCESS
  BY DEF IInv, TypeOK, Frames
<1>1. CASE DeliverChld
  <2>1. /\ Interrupt("CHLD") /\ chld' = [IdleChld EXCEPT !.pc = "wait"]
        /\ depth["CHLD"] = 0
        /\ UNCHANGED <<globals, main, shut, table, budget>>
    BY <1>1 DEF DeliverChld, Interrupt
  <2>2. NestTypes' /\ Nesting' /\ depth'["CHLD"] > 0
    BY <1>0, <2>1, InterruptNest DEF Handled
  <2>3. chld.pc = "idle" /\ chld'.pc = "wait"
    BY <2>1, ChldFresh DEF IInv, Frames, ChldPc
  <2>4. TypeOK'
    BY <1>0, <2>1, <2>2, ChldFresh
       DEF TypeOK, MasterTypes, TableTypes, ChldPc, globals, table, budget
  <2>5. Frames' /\ Unfilled' /\ Collected' /\ Stopping' /\ Killed'
    BY <2>1, <2>2, <2>3
       DEF IInv, Frames, Unfilled, Collected, Stopping, Killed, Running,
           globals, table
  <2>6. Ownership'
    BY <2>1, <2>3 DEF IInv, Ownership, Owned, InUse, globals, table
  <2> QED BY <2>2, <2>4, <2>5, <2>6 DEF IInv
<1>2. ASSUME NEW s \in StopSignals, DeliverStop(s) PROVE IInv'
  <2> DEFINE f == [pc |-> "stop", i |-> 0]
  <2>1. /\ Interrupt(s) /\ shut' = [shut EXCEPT ![s] = f]
        /\ UNCHANGED <<globals, chld, table, budget>>
    BY <1>2 DEF DeliverStop
  <2>2. /\ NestTypes' /\ Nesting'
        /\ depth'["CHLD"] = depth["CHLD"]
    BY <1>0, <2>1, InterruptNest DEF Handled, StopSignals
  <2>3. f \in [pc : ShutPc, i : 0 .. MAX_PROCESS] /\ f.pc # "kill"
    BY DEF ShutPc
  <2> HIDE DEF f
  <2>4. /\ shut' \in [StopSignals -> [pc : ShutPc, i : 0 .. MAX_PROCESS]]
        /\ \A t \in StopSignals : shut'[t].pc = "kill" => shut'[t].i < MAX_PROCESS
    BY <1>0, <2>1, <2>3 DEF MasterTypes
  <2>5. TableTypes'
    BY <1>0, <2>1 DEF TableTypes, table
  <2>6. CASE UNCHANGED main
    BY <1>0, <2>1, <2>2, <2>4, <2>5, <2>6, SignalInv DEF globals, table, budget
  <2>7. CASE main.pc = "reap" /\ main' = [main EXCEPT !.pc = "exit"]
    <3>1. main' = [pc |-> "exit", i |-> main.i, pid |-> main.pid,
                   timeout |-> main.timeout]
      BY <1>0, <2>7, MainRecord
    <3>2. TypeOK'
      BY <1>0, <2>1, <2>2, <2>4, <2>5, <3>1, MainRecord
         DEF TypeOK, MasterTypes, MainPc, globals, budget
    <3>3. Frames' /\ Unfilled' /\ Collected' /\ Stopping' /\ Killed'
      BY <2>1, <2>2, <2>4, <2>7, <3>1
         DEF IInv, Frames, Unfilled, Collected, Stopping, Killed, Running,
             globals, table
    <3>4. Ownership'
      BY <2>1, <2>7, <3>1 DEF IInv, Ownership, Owned, InUse, globals, table
    <3> QED BY <2>2, <3>2, <3>3, <3>4 DEF IInv
  <2> QED BY <1>2, <2>6, <2>7 DEF DeliverStop, Main
<1> QED BY <1>1, <1>2 DEF Deliver

\* Changing two fields of the record of a child, written out.
LEMMA ChildRecord ==
  ASSUME NEW S, NEW K, NEW T, NEW D, NEW x, NEW y,
         NEW r \in [status : S, known : K, told : T, disp : D],
         NEW q, q = [r EXCEPT !.disp = x, !.known = y]
  PROVE  q = [status |-> r.status, known |-> y, told |-> r.told, disp |-> x]
<1>1. r = [status |-> r.status, known |-> r.known, told |-> r.told, disp |-> r.disp]
  OBVIOUS
<1> QED BY <1>1

\* What a child does keeps it: resetting its handlers, ending by a signal,
\* forwarding a signal to its siblings, being collected by init.
LEMMA WorkerInv ==
  ASSUME IInv, NEW p \in Pids, ChildStep(p) \/ Crash(p)
  PROVE  IInv'
<1> USE SupervisorAssumption
<1>0. /\ TypeOK /\ MasterTypes /\ NestTypes /\ TableTypes /\ Nesting
      /\ crashes \in 0 .. MaxCrashes /\ signals \in 0 .. MaxSignals
      /\ shut \in [StopSignals -> [pc : ShutPc, i : 0 .. MAX_PROCESS]]
      /\ \A s \in StopSignals : shut[s].pc = "kill" => shut[s].i < MAX_PROCESS
  BY DEF IInv, TypeOK, MasterTypes, Frames
\* A child that ends.
<1>1. ASSUME NEW status \in Statuses, p \in Running, Die(p, status),
             crashes' \in 0 .. MaxCrashes,
             UNCHANGED <<globals, main, chld, shut, nest, signals>>
      PROVE  IInv'
  <2>1. /\ TableTypes' /\ proc' = [proc EXCEPT ![p] = "zombie"]
        /\ pend' = [pend EXCEPT ![p] = {}]
        /\ pending' \in SUBSET Handled /\ InUse' = InUse
    BY <1>0, <1>1, DieTable
  <2>2. TypeOK' /\ Nesting' /\ Frames' /\ Unfilled' /\ Stopping'
    BY <1>0, <1>1, <2>1
       DEF IInv, TypeOK, MasterTypes, NestTypes, Nesting, Frames, Unfilled,
           Stopping, globals, nest
  <2>3. Collected' /\ Killed'
    BY <1>0, <1>1, <2>1
       DEF IInv, TableTypes, Collected, Killed, Running, globals
  <2>4. Ownership'
    BY <1>1, <2>1 DEF IInv, Ownership, Owned, globals
  <2> QED BY <2>2, <2>3, <2>4 DEF IInv
<1>2. CASE Crash(p)
  <2>1. /\ p \in Running /\ Die(p, "CRASH") /\ crashes' = crashes + 1
        /\ crashes < MaxCrashes /\ "CRASH" \in Statuses
        /\ UNCHANGED <<globals, main, chld, shut, nest, signals>>
    BY <1>2 DEF Crash, Statuses
  <2> QED BY <1>0, <1>1, <2>1
<1>3. ASSUME NEW s \in {"INT", "TERM", "KILL"}, ChildKilled(p, s) PROVE IInv'
  <2>1. /\ p \in Running /\ Die(p, s) /\ s \in Statuses
        /\ UNCHANGED <<globals, main, chld, shut, nest, budget>>
    BY <1>3 DEF ChildKilled, Statuses
  <2> QED BY <1>0, <1>1, <2>1 DEF budget
<1>4. ASSUME NEW s \in StopSignals, ChildForwards(p, s) PROVE IInv'
  <2> DEFINE told == {info[p].known[i] : i \in Slots} \cap Running
  <2>1. /\ p \in Running /\ s # "KILL"
        /\ pend' = [q \in Pids |->
                      (IF q = p THEN pend[q] \ {s} ELSE pend[q])
                        \cup (IF q \in told THEN {"TERM"} ELSE {})]
        /\ info' = [q \in Pids |-> IF q \in told
                                     THEN [info[q] EXCEPT !.told = TRUE]
                                     ELSE info[q]]
        /\ UNCHANGED <<globals, main, chld, shut, nest, pending, proc, budget>>
    BY <1>4 DEF ChildForwards, StopSignals
  <2> HIDE DEF told
  <2>2. /\ pend' \in [Pids -> SUBSET {"INT", "TERM", "KILL"}]
        /\ \A q \in Pids : "KILL" \in pend[q] => "KILL" \in pend'[q]
    BY <1>0, <2>1 DEF TableTypes
  <2>3. info' \in [Pids -> [status : Statuses, known : [Slots -> PidOrNone],
                           told : BOOLEAN,
                           disp : [StopSignals -> {"default", "handler", "blocked"}]]]
    <3> DEFINE C == [status : Statuses, known : [Slots -> PidOrNone], told : BOOLEAN,
                     disp : [StopSignals -> {"default", "handler", "blocked"}]]
    <3>1. \A q \in Pids : info[q] \in C
      BY <1>0 DEF TableTypes
    <3>2. \A q \in Pids : [info[q] EXCEPT !.told = TRUE] \in C
      BY <3>1, ChildTold
    <3> HIDE DEF C
    <3>3. info' \in [Pids -> C]
      BY <2>1, <3>1, <3>2
    <3> QED BY <3>3 DEF C
  <2>4. NestTypes' /\ Nesting' /\ TableTypes'
    BY <1>0, <2>1, <2>2, <2>3 DEF NestTypes, Nesting, TableTypes, nest
  <2> QED BY <1>0, <2>1, <2>2, <2>4, SignalInv DEF globals, nest, budget
<1>5. CASE ResetSignal(p)
  <2> DEFINE d == info[p].disp
             s == IF d["INT"] # "default" THEN "INT" ELSE "TERM"
             known == IF s = "TERM" THEN EmptySlots ELSE info[p].known
             disp == [info[p].disp EXCEPT ![s] = "default"]
             new == [status |-> info[p].status, known |-> known,
                     told |-> info[p].told, disp |-> disp]
  <2>1. /\ proc[p] = "boot"
        /\ proc' = [proc EXCEPT ![p] = IF s = "TERM" THEN "serve" ELSE "boot"]
        /\ UNCHANGED <<globals, main, chld, shut, nest, pending, pend, budget>>
    BY <1>5 DEF ResetSignal
  <2>2. info[p] \in [status : Statuses, known : [Slots -> PidOrNone],
                    told : BOOLEAN,
                    disp : [StopSignals -> {"default", "handler", "blocked"}]]
    BY <1>0 DEF TableTypes
  <2>3. EmptySlots \in [Slots -> PidOrNone]
    BY DEF EmptySlots, PidOrNone
  <2>4. new \in [status : Statuses, known : [Slots -> PidOrNone], told : BOOLEAN,
                disp : [StopSignals -> {"default", "handler", "blocked"}]]
    BY <2>2, <2>3
  <2>5. info' = [info EXCEPT ![p] = new]
    <3> DEFINE next == [info[p] EXCEPT !.disp = disp, !.known = known]
    <3>1. info' = [info EXCEPT ![p] = next]
      BY <1>0, <1>5 DEF ResetSignal, TableTypes
    <3>2. ASSUME NEW q, q = next PROVE q = new
      <4> HIDE DEF disp, known
      <4> QED BY <2>2, <3>2, ChildRecord
    <3> HIDE DEF next, new
    <3> QED BY <3>1, <3>2
  <2> HIDE DEF new, s
  <2>6. TableTypes' /\ Running' = Running /\ InUse' = InUse
    BY <1>0, <2>1, <2>4, <2>5 DEF TableTypes, Running, InUse
  <2>7. TypeOK' /\ Nesting' /\ Frames' /\ Unfilled' /\ Stopping'
    BY <1>0, <2>1, <2>6
       DEF IInv, TypeOK, MasterTypes, NestTypes, Nesting, Frames, Unfilled,
           Stopping, globals, nest, budget
  <2>8. Collected'
    BY <1>0, <2>1 DEF IInv, Collected, TableTypes, globals
  <2>9. Killed' /\ Ownership'
    BY <2>1, <2>6 DEF IInv, Killed, Ownership, Owned, globals
  <2> QED BY <2>7, <2>8, <2>9 DEF IInv
<1>6. CASE InitCollects(p)
  <2>1. /\ Collect(p)
        /\ UNCHANGED <<globals, main, chld, shut, nest, pending, budget>>
    BY <1>6 DEF InitCollects
  <2> QED BY <2>1, CollectInv
<1> QED BY <1>2, <1>3, <1>4, <1>5, <1>6 DEF ChildStep, ChildSignal

\* The signals of the operator keep it.
LEMMA OperatorInv ==
  ASSUME IInv, Operator
  PROVE  IInv'
<1> USE SupervisorAssumption
<1>0. /\ TypeOK /\ MasterTypes /\ NestTypes /\ TableTypes /\ Nesting
      /\ crashes \in 0 .. MaxCrashes /\ signals \in 0 .. MaxSignals
      /\ shut \in [StopSignals -> [pc : ShutPc, i : 0 .. MAX_PROCESS]]
      /\ \A s \in StopSignals : shut[s].pc = "kill" => shut[s].i < MAX_PROCESS
  BY DEF IInv, TypeOK, MasterTypes, Frames
<1>1. /\ signals' \in 0 .. MaxSignals
      /\ UNCHANGED <<globals, main, chld, shut, nest, crashes>>
  BY <1>0 DEF Operator
<1>2. /\ pending' \in SUBSET Handled /\ TableTypes' /\ proc' = proc
      /\ \A p \in Pids : pend[p] \subseteq pend'[p]
  <2>1. CASE \E s \in StopSignals : SignalMaster(s)
    BY <1>0, <2>1 DEF SignalMaster, NestTypes, TableTypes, Handled, table
  <2>2. CASE CtrlC
    <3>1. Post(Pids, "INT") /\ pending' = pending \cup {"INT"}
      BY <2>2 DEF CtrlC
    <3> QED BY <1>0, <3>1, PostTable DEF NestTypes, Handled, StopSignals
  <2>3. ASSUME NEW p \in Pids, TermWorker(p)
        PROVE  /\ pending' \in SUBSET Handled /\ TableTypes' /\ proc' = proc
               /\ \A q \in Pids : pend[q] \subseteq pend'[q]
    <3>1. Post({p}, "TERM") /\ pending' = pending
      BY <2>3 DEF TermWorker
    <3> QED BY <1>0, <3>1, PostTable DEF NestTypes
  <2> QED BY <2>1, <2>2, <2>3 DEF Operator
<1>3. NestTypes' /\ Nesting'
  BY <1>0, <1>1, <1>2 DEF NestTypes, Nesting, nest
<1> QED BY <1>0, <1>1, <1>2, <1>3, SignalInv DEF globals, nest

-----------------------------------------------------------------------------
(***************************************************************************)
(* The theorems.                                                           *)
(***************************************************************************)

\* Every step of the system keeps the invariant.
LEMMA NextInv == IInv /\ [Next]_vars => IInv'
<1> SUFFICES ASSUME IInv, [Next]_vars PROVE IInv'
  OBVIOUS
<1>1. CASE MasterStep
  BY <1>1, MainInv, ChldInv, ShutInv DEF MasterStep
<1>2. CASE Deliver
  BY <1>2, DeliverInv
<1>3. CASE \E p \in Pids : ChildStep(p) \/ Crash(p)
  BY <1>3, WorkerInv
<1>4. CASE Operator
  BY <1>4, OperatorInv
<1>5. CASE UNCHANGED vars
  BY <1>5 DEF vars, globals, nest, table, budget, IInv, TypeOK, MasterTypes,
              NestTypes, TableTypes, Nesting, Frames, Unfilled, Collected,
              Ownership, Owned, InUse, Stopping, Killed, Running
<1> QED BY <1>1, <1>2, <1>3, <1>4, <1>5 DEF Next, Supervise, Terminated

\* The inductive invariant holds in every reachable state.
LEMMA Invariance == Spec => []IInv
BY InitInv, NextInv, PTL DEF Spec

\* Every variable of the master and of the process table keeps its type: no
\* loop leaves the slots, the handlers nest at most three deep.
THEOREM TypeCorrect == Spec => []TypeOK
<1>1. IInv => TypeOK
  BY DEF IInv
<1> QED BY <1>1, Invariance, PTL

\* The master never loses a worker it has started.
THEOREM NoWorkerLostThm == Spec => []NoWorkerLost
<1>1. IInv => NoWorkerLost
  BY DEF IInv, NoWorkerLost, Ownership, Owned, InFlight
<1> QED BY <1>1, Invariance, PTL

\* The slots bound the pool: a worker owns a slot and no two own the same.
LEMMA PoolSize == IInv => PoolBounded
<1> SUFFICES ASSUME IInv PROVE PoolBounded
  OBVIOUS
<1>1. IsFiniteSet(Slots) /\ Cardinality(Slots) = MAX_PROCESS
  BY SupervisorAssumption, FS_Interval DEF Slots
<1> DEFINE slot == [p \in InUse |-> CHOOSE i \in Slots : Owned[i] = p]
<1>2. \A p \in InUse : slot[p] \in Slots /\ Owned[slot[p]] = p
  BY DEF IInv, Ownership
<1>3. slot \in Injection(InUse, Slots)
  BY <1>2 DEF Injection, IsInjective
<1> HIDE DEF slot
<1>4. IsFiniteSet(InUse) /\ Cardinality(InUse) <= Cardinality(Slots)
  BY <1>1, <1>3, FS_Injection
<1> QED BY <1>1, <1>4 DEF PoolBounded

\* There are never more than MAX_PROCESS workers.
THEOREM PoolBoundedThm == Spec => []PoolBounded
BY PoolSize, Invariance, PTL

\* When the master is gone every worker that still runs has SIGKILL pending.
THEOREM ExitLeavesNoWorkerThm == Spec => []ExitLeavesNoWorker
<1>1. IInv => ExitLeavesNoWorker
  BY DEF IInv, ExitLeavesNoWorker, Killed, MasterAlive
<1> QED BY <1>1, Invariance, PTL

\* Only the fork loop and the restart in the SIGCHLD handler start a worker.
LEMMA WhoStarts ==
  ASSUME IInv, [Next]_vars, main.pc # "fork", chld.pc # "sleep"
  PROVE  InUse' \subseteq InUse
<1>0. TypeOK
  BY DEF IInv
<1>1. CASE \E p \in Pids : Collect(p)
  BY <1>0, <1>1, CollectTable
<1>2. CASE \E P, s : s \in {"INT", "TERM", "KILL"} /\ Post(P, s)
  BY <1>0, <1>2, PostTable DEF InUse
<1>3. CASE \E p \in Running, status \in Statuses : Die(p, status)
  BY <1>0, <1>3, DieTable DEF Running
<1>4. CASE UNCHANGED proc
  BY <1>4 DEF InUse
<1>5. CASE \E p \in Pids : ResetSignal(p)
  BY <1>0, <1>5 DEF ResetSignal, InUse, TypeOK, TableTypes
<1>6. CASE MainStep
  <2>1. CASE \E p \in Pids : Reap(p)
    BY <1>1, <2>1 DEF Reap
  <2>2. CASE ForceKill
    BY <1>2, <2>2 DEF ForceKill
  <2> QED BY <1>4, <1>6, <2>1, <2>2
             DEF MainStep, ForkWorker, ForkWorkerFails, RecordWorker, EndForkLoop,
                 LeaveLoop, WaitWorkers, Waiting, ForceTest, ReapDone, Exit, Main,
                 table
<1>7. CASE ChldStep
  <2>1. CASE \E p \in Pids : ChldWait(p)
    BY <1>1, <2>1 DEF ChldWait
  <2> QED BY <1>4, <1>7, <2>1
             DEF ChldStep, ChldReturn, ChldFind, RestartCheck, RestartFork,
                 RestartForkFails, RestartRecord, Chld, table
<1>8. CASE ShutStep
  <2>1. CASE \E s \in StopSignals : ShutKill(s)
    BY <1>2, <2>1 DEF ShutKill
  <2> QED BY <1>4, <1>8, <2>1 DEF ShutStep, ShutStop, ShutTest, ShutReturn, table
<1>9. CASE Deliver
  BY <1>4, <1>9 DEF Deliver, DeliverChld, DeliverStop, table
<1>10. CASE \E p \in Pids : ChildStep(p) \/ Crash(p)
  <2>1. CASE \E p \in Pids : Crash(p) \/ ChildSignal(p)
    BY <1>3, <1>4, <2>1
       DEF Crash, ChildSignal, ChildKilled, ChildForwards, Statuses
  <2>2. CASE \E p \in Pids : InitCollects(p)
    BY <1>1, <2>2 DEF InitCollects
  <2> QED BY <1>5, <1>10, <2>1, <2>2 DEF ChildStep
<1>11. CASE Operator
  BY <1>2, <1>4, <1>11 DEF Operator, SignalMaster, CtrlC, TermWorker, table
<1>12. CASE UNCHANGED vars
  BY <1>4, <1>12 DEF vars, table
<1> QED BY <1>6, <1>7, <1>8, <1>9, <1>10, <1>11, <1>12
           DEF Next, MasterStep, Supervise, Terminated

\* Once the supervision loop is left no worker is started.
THEOREM NoLateRestartThm == Spec => NoLateRestart
<1>1. IInv /\ [Next]_vars =>
        [main.pc \notin {"fork", "record", "loop"} => InUse' \subseteq InUse]_vars
  BY WhoStarts DEF IInv, Stopping
<1> QED BY <1>1, Invariance, PTL DEF Spec, NoLateRestart
=============================================================================

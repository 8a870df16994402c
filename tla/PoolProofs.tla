----------------------------- MODULE PoolProofs -----------------------------
(***************************************************************************)
(* The master implements the pool of WorkerPool, for every number of slots *)
(* and every set of pids: proofs that the initial state maps to an initial *)
(* state of the pool and every step to one of its steps or to none.        *)
(***************************************************************************)
EXTENDS SupervisorProofs

\* The workers in use are finitely many.
LEMMA PoolFinite == IInv => IsFiniteSet(InUse)
<1> SUFFICES ASSUME IInv PROVE IsFiniteSet(InUse)
  OBVIOUS
<1>1. IsFiniteSet(Slots)
  BY SupervisorAssumption, FS_Interval DEF Slots
<1>2. IsFiniteSet({Owned[i] : i \in Slots})
  <2> DEFINE f == [i \in Slots |-> Owned[i]]
  <2>1. f \in Surjection(Slots, {Owned[i] : i \in Slots})
    BY DEF Surjection
  <2> HIDE DEF f
  <2> QED BY <1>1, <2>1, FS_Surjection
<1>3. InUse \subseteq {Owned[i] : i \in Slots}
  BY DEF IInv, Ownership
<1> QED BY <1>2, <1>3, FS_Subset

-----------------------------------------------------------------------------
(***************************************************************************)
(* What the kernel services are in the pool.                               *)
(***************************************************************************)

\* A step that leaves phase, flag and table alone is no step of the pool; a
\* signal other than SIGKILL changes nothing there.
LEMMA StutterPool ==
  ASSUME Phase' = Phase, server_running' = server_running,
         InUse' = InUse, Running' = Running, Zombies' = Zombies,
         \A p \in Running : "KILL" \in pend'[p] <=> "KILL" \in pend[p]
  PROVE  UNCHANGED Pool!vars
BY DEF Pool!vars, Doomed, Running

\* fork is the start of a worker: the invariant of the next state bounds the pool.
LEMMA StartPool ==
  ASSUME IInv, IInv', NEW p \in Pids, NEW state \in {"boot", "serve"},
         Fork(p, state), Phase = "serving", UNCHANGED <<Phase, server_running>>
  PROVE  Pool!Start(p)
<1>0. TypeOK
  BY DEF IInv
<1>1. /\ proc' = [proc EXCEPT ![p] = state] /\ InUse' = InUse \cup {p}
      /\ proc[p] = "free" /\ pend' = [pend EXCEPT ![p] = {}]
  BY <1>0, ForkTable DEF Fork
<1>2. p \notin InUse
  BY <1>1 DEF InUse
<1>3. Cardinality(InUse) < MAX_PROCESS
  <2>1. IsFiniteSet(InUse)
    BY PoolFinite
  <2>2. Cardinality(InUse') = Cardinality(InUse) + 1 /\ Cardinality(InUse) \in Nat
    BY <1>1, <1>2, <2>1, FS_AddElement, FS_CardinalityType
  <2>3. PoolBounded'
    BY PoolSize, PTL
  <2> QED BY <2>2, <2>3, SupervisorAssumption DEF PoolBounded
<1>4. Doomed' = Doomed
  BY <1>0, <1>1 DEF Doomed, Zombies, Running, TypeOK, TableTypes
<1>5. Pool!Cardinality(InUse) = Cardinality(InUse)
  BY DEF Pool!Cardinality, Cardinality
<1> QED BY <1>1, <1>2, <1>3, <1>4, <1>5 DEF Pool!Start

\* waitpid is the collection of a worker that has ended.
LEMMA CollectPool ==
  ASSUME IInv, NEW p \in Pids, Collect(p), UNCHANGED <<Phase, server_running>>
  PROVE  Pool!Collect(p)
<1>0. TypeOK
  BY DEF IInv
<1>1. /\ proc[p] = "zombie" /\ proc' = [proc EXCEPT ![p] = "free"]
      /\ pend' = [pend EXCEPT ![p] = {}] /\ InUse' = InUse \ {p}
  BY <1>0, CollectTable
<1>2. Doomed' = Doomed \ {p} /\ p \in Doomed
  BY <1>0, <1>1 DEF Doomed, Zombies, Running, TypeOK, TableTypes
<1> QED BY <1>1, <1>2 DEF Pool!Collect

\* The death of a child is an end in the pool.
LEMMA DiePool ==
  ASSUME IInv, NEW p \in Pids, p \in Running, NEW status \in Statuses,
         Die(p, status), UNCHANGED <<Phase, server_running>>
  PROVE  Pool!Doom({p}) /\ {p} \subseteq InUse
<1>0. TypeOK
  BY DEF IInv
<1>1. /\ proc' = [proc EXCEPT ![p] = "zombie"]
      /\ pend' = [pend EXCEPT ![p] = {}] /\ InUse' = InUse
  BY <1>0, DieTable
<1>2. Doomed' = Doomed \cup {p} /\ p \in InUse
  BY <1>0, <1>1 DEF Doomed, Zombies, Running, InUse, TypeOK, TableTypes
<1> QED BY <1>1, <1>2 DEF Pool!Doom

\* SIGTERM and SIGINT doom nobody: a worker may handle them.
LEMMA PostPool ==
  ASSUME IInv, NEW P, NEW s \in StopSignals, Post(P, s),
         UNCHANGED <<Phase, server_running>>
  PROVE  UNCHANGED Pool!vars
<1>1. proc' = proc
  BY DEF Post
<1>2. InUse' = InUse /\ Running' = Running /\ Zombies' = Zombies
  BY <1>1 DEF InUse, Running, Zombies
<1>3. \A p \in Running : "KILL" \in pend'[p] <=> "KILL" \in pend[p]
  BY DEF Post, StopSignals, Running
<1> QED BY <1>2, <1>3, StutterPool

\* SIGKILL dooms the running children it is sent to.
LEMMA KillPool ==
  ASSUME IInv, NEW P, Post(P, "KILL")
  PROVE  InUse' = InUse /\ Doomed' = Doomed \cup (P \cap Running)
<1>1. proc' = proc
  BY DEF Post
<1>2. InUse' = InUse /\ Running' = Running /\ Zombies' = Zombies
  BY <1>1 DEF InUse, Running, Zombies
<1>3. \A p \in Running : "KILL" \in pend'[p] <=> "KILL" \in pend[p] \/ p \in P
  BY DEF Post, Running
<1> QED BY <1>2, <1>3 DEF Doomed

-----------------------------------------------------------------------------
(***************************************************************************)
(* The actions of the master and of its children, one after the other.     *)
(***************************************************************************)

\* The main program: starts in the fork loop, collections in the last one, and
\* the changes of phase.
LEMMA MainPool ==
  ASSUME IInv, IInv', MainStep
  PROVE  Pool!Next \/ UNCHANGED Pool!vars
<1>0. TypeOK /\ MasterTypes /\ main \in [pc : MainPc, i : 0 .. MAX_PROCESS,
                                        pid : PidOrNone, timeout : -1 .. TIMEOUT]
  BY DEF IInv, TypeOK, MasterTypes
<1>1. ASSUME NEW p \in Pids, ForkWorker(p) PROVE Pool!Next
  <2>1. Fork(p, "boot") /\ Phase = "serving" /\ UNCHANGED <<Phase, server_running>>
    BY <1>0, <1>1 DEF ForkWorker, Main, Phase, globals
  <2>2. Pool!Start(p)
    BY <2>1, StartPool
  <2> QED BY <2>2 DEF Pool!Next
<1>2. ASSUME NEW p \in Pids, Reap(p) PROVE Pool!Next
  <2>1. Collect(p) /\ UNCHANGED <<Phase, server_running>>
    BY <1>2 DEF Reap, Phase, MasterAlive, globals
  <2>2. Pool!Collect(p)
    BY <2>1, CollectPool
  <2> QED BY <2>2 DEF Pool!Next
<1>3. CASE ForkWorkerFails \/ RecordWorker \/ EndForkLoop \/ WaitWorkers
           \/ ForceTest \/ ReapDone
  <2>1. server_running' = server_running /\ UNCHANGED table
    BY <1>3 DEF ForkWorkerFails, RecordWorker, EndForkLoop, WaitWorkers, Waiting,
                ForceTest, ReapDone, globals
  <2>2. Phase' = Phase
    BY <1>0, <1>3
       DEF ForkWorkerFails, RecordWorker, EndForkLoop, WaitWorkers, Waiting,
           ForceTest, ReapDone, Main, Phase, MasterAlive
  <2> QED BY <2>1, <2>2, StutterPool DEF table, InUse, Running, Zombies
<1>4. CASE LeaveLoop
  <2>1. Phase = "serving" /\ Phase' = "draining" /\ ~server_running
    BY <1>0, <1>4 DEF LeaveLoop, Main, Phase, MasterAlive
  <2>2. server_running' = server_running /\ InUse' = InUse /\ Doomed' = Doomed
    BY <1>4 DEF LeaveLoop, globals, table, InUse, Doomed, Running, Zombies
  <2>3. Pool!Drain
    BY <2>1, <2>2 DEF Pool!Drain
  <2> QED BY <2>3 DEF Pool!Next
<1>5. CASE ForceKill
  <2> DEFINE pid == worker_pids[main.i]
  <2>1. main.pc = "kill" /\ Phase = "draining" /\ server_running' = server_running
    BY <1>5 DEF ForceKill, Main, Phase, MasterAlive, globals
  <2>2. CASE pid = NoPid
    <3>1. Post(Pids, "KILL") /\ Phase' = "gone"
      BY <1>0, <1>5, <2>2 DEF ForceKill, Phase, MasterAlive
    <3>2. InUse' = InUse /\ Doomed' = Doomed \cup (Pids \cap Running)
      BY <3>1, KillPool
    <3>3. Doomed' = InUse
      BY <1>0, <3>2 DEF Doomed, Zombies, Running, InUse, TypeOK, TableTypes
    <3>4. Pool!Leave
      BY <2>1, <3>1, <3>2, <3>3 DEF Pool!Leave
    <3> QED BY <3>4 DEF Pool!Next
  <2>3. CASE pid # NoPid
    <3>1. Post({pid}, "KILL") /\ Phase' = Phase
      BY <1>0, <1>5, <2>1, <2>3 DEF ForceKill, Phase, MasterAlive
    <3> DEFINE D == {pid} \cap Running
    <3>2. InUse' = InUse /\ Doomed' = Doomed \cup D
      BY <3>1, KillPool
    <3>3. D \in SUBSET InUse
      BY DEF Running, InUse
    <3> HIDE DEF D
    <3>4. Pool!Doom(D)
      BY <2>1, <3>1, <3>2 DEF Pool!Doom
    <3> QED BY <3>3, <3>4 DEF Pool!Next
  <2> QED BY <2>2, <2>3
<1>6. CASE Exit
  <2>1. main.pc = "exit" /\ Phase = "draining" /\ Phase' = "gone"
    BY <1>0, <1>6 DEF Exit, Main, Phase, MasterAlive
  <2>2. server_running' = server_running /\ InUse' = InUse /\ Doomed' = Doomed
    BY <1>6 DEF Exit, globals, table, InUse, Doomed, Running, Zombies
  <2>3. Doomed = InUse
    BY <1>0, <2>1 DEF IInv, Killed, Doomed, Zombies, Running, InUse, TypeOK, TableTypes
  <2>4. Pool!Leave
    BY <2>1, <2>2, <2>3 DEF Pool!Leave
  <2> QED BY <2>4 DEF Pool!Next
<1> QED BY <1>1, <1>2, <1>3, <1>4, <1>5, <1>6 DEF MainStep

\* sigchldHandler: collections, and a restart only while the pool is in service.
LEMMA ChldPool ==
  ASSUME IInv, IInv', ChldStep
  PROVE  Pool!Next \/ UNCHANGED Pool!vars
<1>1. ASSUME NEW p \in Pids, ChldWait(p) PROVE Pool!Next
  <2>1. Collect(p) /\ UNCHANGED <<Phase, server_running>>
    BY <1>1 DEF ChldWait, Phase, MasterAlive, globals
  <2>2. Pool!Collect(p)
    BY <2>1, CollectPool
  <2> QED BY <2>2 DEF Pool!Next
<1>2. ASSUME NEW p \in Pids, RestartFork(p) PROVE Pool!Next
  <2>1. chld.pc = "sleep" /\ Fork(p, "serve") /\ UNCHANGED <<Phase, server_running>>
    BY <1>2 DEF RestartFork, Chld, Phase, MasterAlive, globals
  <2>2. Phase = "serving"
    BY <2>1 DEF IInv, Stopping, Phase
  <2>3. Pool!Start(p)
    BY <2>1, <2>2, StartPool
  <2> QED BY <2>3 DEF Pool!Next
<1>3. CASE ChldReturn \/ ChldFind \/ RestartCheck \/ RestartForkFails \/ RestartRecord
  <2>1. UNCHANGED <<server_running, main, table>>
    BY <1>3 DEF ChldReturn, ChldFind, RestartCheck, RestartForkFails, RestartRecord,
                globals
  <2> QED BY <2>1, StutterPool
             DEF Phase, MasterAlive, table, InUse, Running, Zombies
<1> QED BY <1>1, <1>2, <1>3 DEF ChldStep

\* shutdownHandler: the stop request; its SIGTERMs doom nobody yet.
LEMMA ShutPool ==
  ASSUME IInv, ShutStep
  PROVE  Pool!Next \/ UNCHANGED Pool!vars
<1>1. ASSUME NEW s \in StopSignals, ShutStop(s) PROVE Pool!Next
  <2>1. UNCHANGED <<main, table>> /\ server_running' = FALSE
    BY <1>1 DEF ShutStop
  <2>2. Pool!RequestStop
    BY <2>1 DEF Pool!RequestStop, Phase, MasterAlive, table, InUse, Doomed,
                Running, Zombies
  <2> QED BY <2>2 DEF Pool!Next
<1>2. ASSUME NEW s \in StopSignals, ShutKill(s) PROVE UNCHANGED Pool!vars
  <2>1. /\ UNCHANGED <<main, server_running>>
        /\ Post(IF worker_pids[shut[s].i] = NoPid THEN Pids
                ELSE {worker_pids[shut[s].i]}, "TERM")
    BY <1>2 DEF ShutKill, globals
  <2> QED BY <2>1, PostPool DEF Phase, MasterAlive, StopSignals
<1>3. CASE \E s \in StopSignals : ShutTest(s) \/ ShutReturn(s)
  <2>1. UNCHANGED <<server_running, main, table>>
    BY <1>3 DEF ShutTest, ShutReturn, globals
  <2> QED BY <2>1, StutterPool
             DEF Phase, MasterAlive, table, InUse, Running, Zombies
<1> QED BY <1>1, <1>2, <1>3 DEF ShutStep

\* Workers end, by a signal or a crash, and init collects what is left.
LEMMA WorkerStepPool ==
  ASSUME IInv, NEW p \in Pids, ChildStep(p) \/ Crash(p)
  PROVE  Pool!Next \/ UNCHANGED Pool!vars
<1>0. TypeOK /\ TableTypes
  BY DEF IInv, TypeOK
<1>1. CASE ResetSignal(p)
  <2>1. /\ proc[p] = "boot"
        /\ proc' = [proc EXCEPT ![p] = "serve"] \/ proc' = [proc EXCEPT ![p] = "boot"]
        /\ UNCHANGED <<main, server_running, pend>>
    BY <1>1 DEF ResetSignal, globals
  <2>2. InUse' = InUse /\ Running' = Running /\ Zombies' = Zombies
    BY <1>0, <2>1 DEF TableTypes, InUse, Running, Zombies
  <2> QED BY <2>1, <2>2, StutterPool DEF Phase, MasterAlive
<1>2. ASSUME p \in Running, NEW status \in Statuses, Die(p, status),
             UNCHANGED <<server_running, main>>
      PROVE  Pool!Next
  <2>1. Pool!Doom({p}) /\ {p} \subseteq InUse
    BY <1>2, DiePool DEF Phase, MasterAlive
  <2> QED BY <2>1 DEF Pool!Next
<1>3. CASE Crash(p)
  BY <1>2, <1>3 DEF Crash, Statuses, globals
<1>4. ASSUME NEW s \in {"INT", "TERM", "KILL"}, ChildKilled(p, s) PROVE Pool!Next
  BY <1>2, <1>4 DEF ChildKilled, Statuses, globals
<1>5. ASSUME NEW s \in StopSignals, ChildForwards(p, s) PROVE UNCHANGED Pool!vars
  <2>1. /\ UNCHANGED <<main, server_running, proc>>
        /\ \A q \in Pids : "KILL" \in pend'[q] <=> "KILL" \in pend[q]
    BY <1>5 DEF ChildForwards, StopSignals, globals
  <2> QED BY <2>1, StutterPool DEF Phase, MasterAlive, InUse, Running, Zombies
<1>6. CASE InitCollects(p)
  <2>1. Collect(p) /\ UNCHANGED <<Phase, server_running>>
    BY <1>6 DEF InitCollects, Phase, MasterAlive, globals
  <2>2. Pool!Collect(p)
    BY <2>1, CollectPool
  <2> QED BY <2>2 DEF Pool!Next
<1> QED BY <1>1, <1>3, <1>4, <1>5, <1>6 DEF ChildStep, ChildSignal

\* A delivery changes no phase: an interrupted waitpid only ends the last loop.
LEMMA DeliverPool ==
  ASSUME IInv, Deliver
  PROVE  UNCHANGED Pool!vars
<1>1. server_running' = server_running /\ UNCHANGED table
  BY DEF Deliver, DeliverChld, DeliverStop, globals
<1>2. Phase' = Phase
  BY DEF Deliver, DeliverChld, DeliverStop, Main, Phase, MasterAlive,
         IInv, TypeOK, MasterTypes
<1> QED BY <1>1, <1>2, StutterPool DEF table, InUse, Running, Zombies

\* Nor does what the operator sends.
LEMMA OperatorPool ==
  ASSUME IInv, Operator
  PROVE  UNCHANGED Pool!vars
<1>1. UNCHANGED <<Phase, server_running>>
  BY DEF Operator, Phase, MasterAlive, globals
<1>2. CASE \E s \in StopSignals : SignalMaster(s)
  BY <1>1, <1>2, StutterPool DEF SignalMaster, table, InUse, Running, Zombies
<1>3. CASE CtrlC
  BY <1>1, <1>3, PostPool DEF CtrlC, StopSignals
<1>4. ASSUME NEW p \in Pids, TermWorker(p) PROVE UNCHANGED Pool!vars
  BY <1>1, <1>4, PostPool DEF TermWorker, StopSignals
<1> QED BY <1>2, <1>3, <1>4 DEF Operator

-----------------------------------------------------------------------------
\* The initial state of the master is an initial state of the pool.
LEMMA InitPool == Init => Pool!Init
BY DEF Init, Pool!Init, Phase, Doomed, InUse, Zombies, Running

\* Every step of the system is a step of the pool, or none.
LEMMA NextPool == IInv /\ IInv' /\ [Next]_vars => [Pool!Next]_(Pool!vars)
<1> SUFFICES ASSUME IInv, IInv', [Next]_vars
             PROVE  Pool!Next \/ UNCHANGED Pool!vars
  OBVIOUS
<1>1. CASE MasterStep
  BY <1>1, MainPool, ChldPool, ShutPool DEF MasterStep
<1>2. CASE Deliver
  BY <1>2, DeliverPool
<1>3. CASE \E p \in Pids : ChildStep(p) \/ Crash(p)
  BY <1>3, WorkerStepPool
<1>4. CASE Operator
  BY <1>4, OperatorPool
<1>5. CASE UNCHANGED vars
  BY <1>5, StutterPool DEF vars, globals, table, Phase, MasterAlive, InUse,
                           Running, Zombies
<1> QED BY <1>1, <1>2, <1>3, <1>4, <1>5 DEF Next, Supervise, Terminated

\* The master implements the pool: a worker is started only within the limit
\* and before the stop request is acted upon, only a worker that has ended is
\* collected, and the master is gone only when every worker left is doomed.
THEOREM ImplementsPoolThm == Spec => ImplementsPool
BY InitPool, NextPool, Invariance, PTL DEF Spec, ImplementsPool, Pool!Spec
=============================================================================

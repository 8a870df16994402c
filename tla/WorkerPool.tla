----------------------------- MODULE WorkerPool -----------------------------
(***************************************************************************)
(* What the master promises, without slots, signals and handlers: a pool   *)
(* of at most Limit workers that is filled while the server is in service, *)
(* only shrinks once a stop request has been acted upon, and is not left   *)
(* before every worker in it is bound to end.  Supervisor implements this  *)
(* (Supervisor!ImplementsPool).                                            *)
(***************************************************************************)
EXTENDS Naturals, FiniteSets

CONSTANTS
  Pids,    \* names of workers; a name is used again after its worker is gone
  Limit    \* size of the pool

VARIABLES
  phase,     \* of the master: "serving", "draining" or "gone"
  stopping,  \* a stop has been requested
  workers,   \* workers that have been started and not collected
  doomed     \* those that have ended, or that nothing can keep from ending

vars == <<phase, stopping, workers, doomed>>

Init ==
  /\ phase = "serving" /\ stopping = FALSE
  /\ workers = {} /\ doomed = {}

\* A worker is started, at first or in place of one that has been collected;
\* even after the stop request as long as the master has not acted upon it.
Start(p) ==
  /\ phase = "serving"
  /\ p \notin workers /\ Cardinality(workers) < Limit
  /\ workers' = workers \cup {p}
  /\ UNCHANGED <<phase, stopping, doomed>>

\* Workers end, or are killed.
Doom(D) ==
  /\ doomed' = doomed \cup D
  /\ UNCHANGED <<phase, stopping, workers>>

\* Only a worker that has ended is collected.
Collect(p) ==
  /\ p \in doomed
  /\ workers' = workers \ {p} /\ doomed' = doomed \ {p}
  /\ UNCHANGED <<phase, stopping>>

RequestStop ==
  /\ stopping' = TRUE
  /\ UNCHANGED <<phase, workers, doomed>>

Drain ==
  /\ phase = "serving" /\ stopping
  /\ phase' = "draining"
  /\ UNCHANGED <<stopping, workers, doomed>>

\* The master goes: all that is left is doomed, at the latest by this step.
Leave ==
  /\ phase = "draining"
  /\ phase' = "gone" /\ doomed' = workers
  /\ UNCHANGED <<stopping, workers>>

Next ==
  \/ \E p \in Pids : Start(p) \/ Collect(p)
  \/ \E D \in SUBSET workers : Doom(D)
  \/ RequestStop \/ Drain \/ Leave

Spec == Init /\ [][Next]_vars
=============================================================================

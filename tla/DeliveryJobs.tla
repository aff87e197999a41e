---------------------------- MODULE DeliveryJobs -----------------------------
(***************************************************************************)
(* What the jobs approvals.deliver-result and emails.send have in common:  *)
(* executions that claim a row with the id of their worker, mark it with   *)
(* the same id, and try it a number of times.                              *)
(*                                                                         *)
(* An execution's worker id is WORKER_ID or worker-<pid>, so executions    *)
(* share an id when they run in one process, and when they run in          *)
(* containers whose pids are equal.                                        *)
(***************************************************************************)
EXTENDS Naturals, FiniteSets

CONSTANTS
  Handlers,     \* executions of the job that may overlap
  WorkerOf,     \* WorkerOf[h]: the worker id handler h claims and marks with
  MaxAttempts,  \* max_attempts (10 for approval results, 5 for e-mails)
  MaxQueued,    \* bound on the jobs waiting for one row
  MaxFaults,    \* bound on lost handlers, slow claims and attempts that outlive their lease
  None          \* no worker, no row, no content

ASSUME WorkersAssumption ==
  /\ DOMAIN WorkerOf = Handlers
  /\ \A h \in Handlers : WorkerOf[h] # None

ASSUME LimitsAssumption ==
  /\ MaxAttempts \in Nat \ {0}
  /\ MaxQueued \in Nat
  /\ MaxFaults \in Nat

Workers == {WorkerOf[h] : h \in Handlers}
=============================================================================

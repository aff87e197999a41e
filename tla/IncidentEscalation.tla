------------------------- MODULE IncidentEscalation -------------------------
(***************************************************************************)
(* From a job that fails for good to the incident an operator sees: the    *)
(* job wrapper, which decides whether a failure is the last and then sends *)
(* an incidents.open-from-failure job, that job, whose transaction opens   *)
(* or aggregates an incident under an advisory lock on its fingerprint,    *)
(* and the members who acknowledge and resolve incidents.                  *)
(*                                                                         *)
(* The occurrence key of a failure is its job's name and id (no job but    *)
(* the weekly report carries a correlation id of its own), so a job is     *)
(* its own occurrence key.  The fingerprint is made of the name of the job *)
(* or its workflow and of the error, so attempts of one job may differ in  *)
(* it.  getIncidentEvents sorts the log by createdAt, which is the start   *)
(* of the transaction that wrote a row and not its place in the log; that  *)
(* order is not modelled.                                                  *)
(*                                                                         *)
(* The worker takes the attempt from job.retrycount, a field the jobs it   *)
(* asks pg-boss for do not have (it does not ask for their metadata): the  *)
(* wrapper is told attempt 0 every time.                                   *)
(***************************************************************************)
EXTENDS Naturals, Sequences, FiniteSets

CONSTANTS
  Jobs,           \* jobs that may fail, of any kind but incidents.open-from-failure
  Errors,         \* what handlers throw
  Permanent,      \* errors the wrapper classifies as permanent
  Fingerprints,   \* fingerprints of incidents of one client
  FingerprintOf,  \* FingerprintOf[<<j, e>>]: the one a failure of j with e has
  Executions,     \* executions of incidents.open-from-failure that may overlap
  RetryLimit,     \* RetryLimit[j]: the retryLimit of j (2 to 10 in the registry)
  IncidentRetryLimit,  \* retryLimit of incidents.open-from-failure (3)
  None            \* no fingerprint, no job

\* Each attempt of a job sends at most one incident job.
IncidentJobs == UNION {{j} \X (0..RetryLimit[j]) : j \in Jobs}

ASSUME ErrorsAssumption ==
  /\ Permanent \subseteq Errors
  /\ FingerprintOf \in [Jobs \X Errors -> Fingerprints]
  /\ None \notin Fingerprints \cup IncidentJobs

ASSUME LimitsAssumption ==
  /\ RetryLimit \in [Jobs -> Nat]
  /\ IncidentRetryLimit \in Nat

VARIABLES
  job,          \* job[j]: the job in pg-boss
  incidentJob,  \* incidentJob[i]: the incidents.open-from-failure job
  exec,         \* exec[x]: what execution x is doing
  incident,     \* incident[f]: the row of incidents
  keys,         \* keys[f]: occurrence keys in incident_events
  log           \* log[f]: event types in incident_events, in the order of their INSERTs

vars == <<job, incidentJob, exec, incident, keys, log>>
incidentVars == <<incident, keys, log>>

EventTypes == {"opened", "occurred", "reopened", "acknowledged", "resolved"}

\* How the last attempt of a job ends: only "failed" is the end of one whose wrapper
\* had its say.
Ends == {"completed", "failed", "quiet"}

Job         == [state : {"waiting"} \cup Ends, retries : Nat]
IncidentJob == [state : {"none", "waiting", "active", "completed", "exhausted"},
                retries : 0..IncidentRetryLimit, fingerprint : Fingerprints \cup {None}]
Execution   == [phase : {"idle", "started", "locked"}, job : IncidentJobs \cup {None},
                timedOut : BOOLEAN]
Incident    == [status : {"none", "open", "acknowledged", "resolved"}, count : Nat]

Idle == [phase |-> "idle", job |-> None, timedOut |-> FALSE]

TypeOK ==
  /\ job \in [Jobs -> Job]
  /\ \A j \in Jobs : job[j].retries <= RetryLimit[j]
  /\ incidentJob \in [IncidentJobs -> IncidentJob]
  /\ exec \in [Executions -> Execution]
  /\ incident \in [Fingerprints -> Incident]
  /\ keys \in [Fingerprints -> SUBSET Jobs]
  /\ log \in [Fingerprints -> Seq(EventTypes)]

Init ==
  /\ job = [j \in Jobs |-> [state |-> "waiting", retries |-> 0]]
  /\ incidentJob = [i \in IncidentJobs |->
                      [state |-> "none", retries |-> 0, fingerprint |-> None]]
  /\ exec = [x \in Executions |-> Idle]
  /\ incident = [f \in Fingerprints |-> [status |-> "none", count |-> 0]]
  /\ keys = [f \in Fingerprints |-> {}]
  /\ log = [f \in Fingerprints |-> << >>]

-----------------------------------------------------------------------------
(* A job and its wrapper.  An attempt is one step: it reads and writes its *)
(* own job only, and sends at most one other.                              *)

\* pg-boss runs a job that failed or expired again, until its retry limit.  So it
\* does after the worker's own boss.fail, which a permanent error ends in.
Retried(j, end) ==
  job' = IF job[j].retries < RetryLimit[j] THEN [job EXCEPT ![j].retries = @ + 1]
                                           ELSE [job EXCEPT ![j].state = end]

\* Number(job.retrycount ?? 0), whatever job[j].retries is.
Attempt == 0

\* escalateIfTerminal: a permanent error, or a transient one in what the wrapper takes
\* for the last attempt.
IsTerminal(j, e) == e \in Permanent \/ Attempt >= RetryLimit[j]

Escalated(j) == \E n \in 0..RetryLimit[j] : incidentJob[<<j, n>>].state # "none"

\* boss.send of the incident job, which pg-boss drops on a day that has had one of its
\* singletonKey.  Any two attempts may be of one day, or of two.
Send(j, e) ==
  \/ Escalated(j) /\ UNCHANGED incidentJob
  \/ incidentJob' = [incidentJob EXCEPT ![<<j, job[j].retries>>] =
                       [state |-> "waiting", retries |-> 0, fingerprint |-> FingerprintOf[<<j, e>>]]]

Succeed(j) ==
  /\ job[j].state = "waiting"
  /\ job' = [job EXCEPT ![j].state = "completed"]
  /\ UNCHANGED <<incidentJob, exec, incidentVars>>

\* The handler throws, or the timeout rejects it; the wrapper escalates and throws.  The
\* alert that follows a send may fail, or the process die, which is a failed attempt too.
Fail(j) ==
  /\ job[j].state = "waiting"
  /\ \E e \in Errors : IF IsTerminal(j, e) THEN Send(j, e) ELSE UNCHANGED incidentJob
  /\ Retried(j, "failed")
  /\ UNCHANGED <<exec, incidentVars>>

\* No incident job is sent: the send throws and the wrapper throws a retryable error in
\* place of the handler's; or the attempt ends before its handler runs, in the
\* validation of the payload or the access check, which are outside the block that
\* escalates; or the process dies and pg-boss expires the job.
EndsQuietly(j) ==
  /\ job[j].state = "waiting"
  /\ Retried(j, "quiet")
  /\ UNCHANGED <<incidentJob, exec, incidentVars>>

-----------------------------------------------------------------------------
(* The incidents.open-from-failure job.                                    *)

Key(x)         == exec[x].job[1]
Fingerprint(x) == incidentJob[exec[x].job].fingerprint
Recorded(k)    == \E f \in Fingerprints : k \in keys[f]

RetriedIncident(i) ==
  incidentJob' = IF incidentJob[i].retries < IncidentRetryLimit
                 THEN [incidentJob EXCEPT ![i].state = "waiting", ![i].retries = @ + 1]
                 ELSE [incidentJob EXCEPT ![i].state = "exhausted"]

\* An execution that has timed out no longer reports to pg-boss.
Reports(x, report) == IF exec[x].timedOut THEN UNCHANGED incidentJob ELSE report

Completed(x) ==
  /\ exec' = [exec EXCEPT ![x] = Idle]
  /\ Reports(x, incidentJob' = [incidentJob EXCEPT ![exec[x].job].state = "completed"])

StartIncident(x, i) ==
  /\ exec[x].phase = "idle"
  /\ incidentJob[i].state = "waiting"
  /\ incidentJob' = [incidentJob EXCEPT ![i].state = "active"]
  /\ exec' = [exec EXCEPT ![x] = [phase |-> "started", job |-> i, timedOut |-> FALSE]]
  /\ UNCHANGED <<job, incidentVars>>

Locked(f) == \E x \in Executions : exec[x].phase = "locked" /\ Fingerprint(x) = f

\* The advisory lock, then the read under it: an occurrence that is recorded is not
\* counted again, under whichever fingerprint it was recorded.
LockIncident(x) ==
  /\ exec[x].phase = "started"
  /\ ~Locked(Fingerprint(x))
  /\ IF Recorded(Key(x)) THEN Completed(x)
     ELSE /\ exec' = [exec EXCEPT ![x].phase = "locked"]
          /\ UNCHANGED incidentJob
  /\ UNCHANGED <<job, incidentVars>>

\* Mutant: whether the incident was resolved is not asked.
EventType_NotReopened(f) == IF incident[f].status = "none" THEN "opened" ELSE "occurred"

EventType(f) ==
  CASE incident[f].status = "none"     -> "opened"
    [] incident[f].status = "resolved" -> "reopened"
    [] OTHER                           -> "occurred"

\* Mutant: an incident that was resolved is not reopened.
Aggregated_Resolved(f) ==
  [incident EXCEPT ![f] = [status |-> IF @.status = "none" THEN "open" ELSE @.status,
                           count |-> @.count + 1]]

\* The INSERT of the incident, or its UPDATE.
Aggregated(f) ==
  [incident EXCEPT ![f] = [status |-> IF @.status \in {"none", "resolved"} THEN "open"
                                      ELSE @.status,
                           count |-> @.count + 1]]

\* Mutant: the unique index on the occurrence key is missing.
WriteIncident_NotUnique(x) ==
  LET f == Fingerprint(x) IN
  /\ exec[x].phase = "locked"
  /\ incident' = Aggregated(f)
  /\ keys' = [keys EXCEPT ![f] = @ \cup {Key(x)}]
  /\ log' = [log EXCEPT ![f] = Append(@, EventType(f))]
  /\ Completed(x)
  /\ UNCHANGED job

\* The rest of the transaction, which ends with the INSERT of the event.  The advisory
\* lock is one of its fingerprint only: under another the occurrence may have been
\* recorded meanwhile, and the unique index refuses it (RefuseDuplicate).
WriteIncident(x) ==
  LET f == Fingerprint(x) IN
  /\ exec[x].phase = "locked"
  /\ ~Recorded(Key(x))
  /\ incident' = Aggregated(f)
  /\ keys' = [keys EXCEPT ![f] = @ \cup {Key(x)}]
  /\ log' = [log EXCEPT ![f] = Append(@, EventType(f))]
  /\ Completed(x)
  /\ UNCHANGED job

\* Mutant: the handler swallows the error.
RollBack_Swallowed(x) ==
  /\ Completed(x)
  /\ UNCHANGED <<job, incidentVars>>

\* The execution ends and its transaction is rolled back.
RollBack(x) ==
  /\ exec' = [exec EXCEPT ![x] = Idle]
  /\ Reports(x, RetriedIncident(exec[x].job))
  /\ UNCHANGED <<job, incidentVars>>

\* The unique index on the occurrence key refuses the event.
RefuseDuplicate(x) ==
  /\ exec[x].phase = "locked"
  /\ Recorded(Key(x))
  /\ RollBack(x)

\* The process dies, access is denied, or a statement fails.
ExecutionFails(x) == exec[x].phase # "idle" /\ RollBack(x)

\* The wrapper rejects the job after 30 s, and the execution runs on.
Timeout(x) ==
  /\ exec[x].phase # "idle"
  /\ ~exec[x].timedOut
  /\ exec' = [exec EXCEPT ![x].timedOut = TRUE]
  /\ RetriedIncident(exec[x].job)
  /\ UNCHANGED <<job, incidentVars>>

-----------------------------------------------------------------------------
(* Members.                                                                *)

\* A member's transaction locks the row, tests its status, updates it and logs that.
MemberMoves(f, from, to) ==
  /\ incident[f].status \in from
  /\ incident' = [incident EXCEPT ![f].status = to]
  /\ log' = [log EXCEPT ![f] = Append(@, to)]
  /\ UNCHANGED <<job, incidentJob, exec, keys>>

Acknowledge(f) == MemberMoves(f, {"open"}, "acknowledged")

\* The caller names the status it expects, which is one of these two.
Resolve(f) == MemberMoves(f, {"open", "acknowledged"}, "resolved")

RunJob(j) == Succeed(j) \/ Fail(j) \/ EndsQuietly(j)

Write(x) == WriteIncident(x) \/ RefuseDuplicate(x)

Next ==
  \/ \E j \in Jobs : RunJob(j)
  \/ \E x \in Executions : \/ \E i \in IncidentJobs : StartIncident(x, i)
                           \/ LockIncident(x) \/ Write(x)
                           \/ ExecutionFails(x) \/ Timeout(x)
  \/ \E f \in Fingerprints : Acknowledge(f) \/ Resolve(f)

\* pg-boss hands out waiting jobs, executions run on, and the queue of the advisory lock
\* is served in order.  Failures, timeouts and members may never come.
Fairness ==
  /\ \A j \in Jobs : WF_vars(RunJob(j))
  /\ \A i \in IncidentJobs : WF_vars(\E x \in Executions : StartIncident(x, i))
  /\ \A x \in Executions : SF_vars(LockIncident(x)) /\ WF_vars(Write(x))

Spec == Init /\ [][Next]_vars /\ Fairness

-----------------------------------------------------------------------------
(* Properties.                                                             *)

StatusAfter(type) == IF type \in {"opened", "reopened"} THEN "open" ELSE type

\* The n-th event of f is the last that is not a mere recurrence.
LastChange(f, n) ==
  log[f][n] # "occurred" /\ \A m \in (n + 1)..Len(log[f]) : log[f][m] = "occurred"

\* An incident is what its events say: it counts its occurrence keys, and its status is
\* what the last event that changed it set, whichever members and executions raced.
EventsExplain ==
  \A f \in Fingerprints :
    /\ incident[f].count = Cardinality(keys[f])
    /\ incident[f].status = "none" <=> log[f] = << >>
    /\ log[f] # << >> =>
         \E n \in 1..Len(log[f]) :
           LastChange(f, n) /\ incident[f].status = StatusAfter(log[f][n])

\* A failed job is counted once, however often it was escalated, its incident job was
\* retried or ran twice, and however many fingerprints its attempts had.
CountedOnce ==
  \A f, g \in Fingerprints : f # g => keys[f] \cap keys[g] = {}

\* A job that exhausted its retries has an incident job, unless its last attempt was
\* refused before its handler ran, died, or could not reach pg-boss: the promise of
\* README.md and of the runbook for an outage of the AI provider.  The code breaks it,
\* since no attempt of a transient error passes for the last one.
ExhaustionEscalates ==
  \A j \in Jobs : job[j].state = "failed" => Escalated(j)

\* An incident job completes only when its failure is recorded, whether it wrote the
\* event, found it, or was refused by the unique index and tried again.
CompletedIsRecorded ==
  \A i \in IncidentJobs : incidentJob[i].state = "completed" => Recorded(i[1])

Register == INSTANCE IncidentRegister WITH
  status <- [f \in Fingerprints |-> incident[f].status],
  count <- [f \in Fingerprints |-> incident[f].count]

\* Aggregation and members implement IncidentRegister: a failure is never hidden in an
\* incident that stays resolved, and no step loses one that was counted.
ImplementsRegister == Register!Spec

\* A failure that was escalated is recorded, unless its incident job is exhausted.
EscalatedIsRecorded ==
  \A i \in IncidentJobs :
    incidentJob[i].state = "waiting" ~>
      (Recorded(i[1]) \/ incidentJob[i].state = "exhausted")
=============================================================================

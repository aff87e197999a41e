---------------------- MODULE IncidentEscalationProofs ----------------------
(***************************************************************************)
(* Theorems about IncidentEscalation, for any jobs, errors, fingerprints,  *)
(* executions and retry limits.                                            *)
(*                                                                         *)
(* The argument: an execution and an incident job that was sent have a     *)
(* fingerprint (Sent, Working), so the one step that records a failure     *)
(* writes one incident's row, one key that no incident had, and one event. *)
(* Keys are never removed, so what completed stays recorded.               *)
(***************************************************************************)
EXTENDS IncidentEscalation, FiniteSetTheorems, SequenceTheorems, TLAPS

USE ErrorsAssumption, LimitsAssumption

\* An incident job that was sent has a fingerprint.
Sent ==
  \A i \in IncidentJobs :
    incidentJob[i].state # "none" => incidentJob[i].fingerprint \in Fingerprints

\* An execution works on an incident job that was sent.
Working ==
  \A x \in Executions :
    exec[x].phase # "idle" =>
      exec[x].job \in IncidentJobs /\ incidentJob[exec[x].job].state # "none"

KeysFinite == \A f \in Fingerprints : IsFiniteSet(keys[f])

IInv == /\ TypeOK /\ Sent /\ Working /\ KeysFinite
        /\ EventsExplain /\ CountedOnce /\ CompletedIsRecorded

-----------------------------------------------------------------------------
(* What steps leave alone, part by part.                                   *)

\* The row of an incident job is addressed by its job.
LEMMA IncidentJobIsPair ==
  /\ \A i \in IncidentJobs : i[1] \in Jobs
  /\ \A j \in Jobs : \A n \in 0..RetryLimit[j] : <<j, n>> \in IncidentJobs
BY DEF IncidentJobs

\* A step that sends or moves at most one incident job.
JobMoves(i, new) ==
  /\ i \in IncidentJobs
  /\ new \in IncidentJob
  /\ new.state # "none" /\ new.fingerprint \in Fingerprints
  /\ new.state = "completed" => Recorded(i[1])'
  /\ incidentJob' = [incidentJob EXCEPT ![i] = new]

JobsMove == UNCHANGED incidentJob \/ \E i \in IncidentJobs : \E new \in IncidentJob : JobMoves(i, new)

KeysGrow == \A f \in Fingerprints : keys[f] \subseteq keys'[f]

LEMMA JobsMoveKeeps ==
  ASSUME IInv, JobsMove, KeysGrow
  PROVE  /\ incidentJob' \in [IncidentJobs -> IncidentJob]
         /\ Sent'
         /\ CompletedIsRecorded'
         /\ \A i \in IncidentJobs : incidentJob[i].state # "none" => incidentJob'[i].state # "none"
<1>1. \A k : Recorded(k) => Recorded(k)'
  BY DEF Recorded, KeysGrow
<1>2. CASE UNCHANGED incidentJob
  <2>1. incidentJob' \in [IncidentJobs -> IncidentJob] /\ Sent'
    BY <1>2 DEF IInv, TypeOK, Sent
  <2>2. CompletedIsRecorded'
    BY <1>1, <1>2 DEF IInv, CompletedIsRecorded
  <2> QED
    BY <1>2, <2>1, <2>2
<1>3. ASSUME NEW i \in IncidentJobs, NEW new \in IncidentJob, JobMoves(i, new)
      PROVE  /\ incidentJob' \in [IncidentJobs -> IncidentJob]
             /\ Sent'
             /\ CompletedIsRecorded'
             /\ \A k \in IncidentJobs :
                  incidentJob[k].state # "none" => incidentJob'[k].state # "none"
  <2>1. incidentJob \in [IncidentJobs -> IncidentJob]
    BY DEF IInv, TypeOK
  <2>2. /\ incidentJob' \in [IncidentJobs -> IncidentJob]
        /\ incidentJob'[i] = new
        /\ \A k \in IncidentJobs \ {i} : incidentJob'[k] = incidentJob[k]
    BY <1>3, <2>1 DEF JobMoves
  <2>3. Sent'
    BY <1>3, <2>2 DEF IInv, Sent, JobMoves
  <2>4. CompletedIsRecorded'
    BY <1>1, <1>3, <2>2 DEF IInv, CompletedIsRecorded, JobMoves
  <2>5. \A k \in IncidentJobs : incidentJob[k].state # "none" => incidentJob'[k].state # "none"
    BY <1>3, <2>2 DEF JobMoves
  <2> QED
    BY <2>2, <2>3, <2>4, <2>5
<1> QED
  BY <1>2, <1>3 DEF JobsMove

\* A step that changes at most one execution, to one that works on a job that was sent.
ExecMoves(x, new) ==
  /\ x \in Executions
  /\ new \in Execution
  /\ new.phase # "idle" => new.job \in IncidentJobs /\ incidentJob'[new.job].state # "none"
  /\ exec' = [exec EXCEPT ![x] = new]

LEMMA ExecMovesKeeps ==
  ASSUME IInv,
         UNCHANGED exec \/ \E x \in Executions : \E new \in Execution : ExecMoves(x, new),
         \A i \in IncidentJobs : incidentJob[i].state # "none" => incidentJob'[i].state # "none"
  PROVE  exec' \in [Executions -> Execution] /\ Working'
<1>1. CASE UNCHANGED exec
  BY <1>1 DEF IInv, TypeOK, Working
<1>2. ASSUME NEW x \in Executions, NEW new \in Execution, ExecMoves(x, new)
      PROVE  exec' \in [Executions -> Execution] /\ Working'
  <2>1. exec \in [Executions -> Execution]
    BY DEF IInv, TypeOK
  <2>2. /\ exec' \in [Executions -> Execution]
        /\ exec'[x] = new
        /\ \A y \in Executions \ {x} : exec'[y] = exec[y]
    BY <1>2, <2>1 DEF ExecMoves
  <2>3. Working'
    BY <1>2, <2>2 DEF IInv, Working, ExecMoves
  <2> QED
    BY <2>2, <2>3
<1> QED
  BY <1>1, <1>2

-----------------------------------------------------------------------------
(* What steps do to incidents, their keys and their events.                *)

\* An event of f that says what its status becomes.
LEMMA LogExplains ==
  ASSUME IInv, NEW f \in Fingerprints, NEW e \in EventTypes,
         log' = [log EXCEPT ![f] = Append(@, e)],
         incident' \in [Fingerprints -> Incident],
         incident'[f].status # "none",
         IF e = "occurred" THEN /\ incident'[f].status = incident[f].status
                                /\ incident[f].status # "none"
                           ELSE incident'[f].status = StatusAfter(e)
  PROVE  /\ log'[f] # << >>
         /\ \E n \in 1..Len(log'[f]) :
              LastChange(f, n)' /\ incident'[f].status = StatusAfter(log'[f][n])
<1>1. log[f] \in Seq(EventTypes) /\ log'[f] = Append(log[f], e)
  BY DEF IInv, TypeOK
<1>2. /\ log'[f] # << >> /\ Len(log'[f]) = Len(log[f]) + 1 /\ Len(log[f]) \in Nat
      /\ log'[f][Len(log[f]) + 1] = e
      /\ \A n \in 1..Len(log[f]) : log'[f][n] = log[f][n]
  BY <1>1
<1>3. CASE e # "occurred"
  <2> PICK n \in Nat : n = Len(log[f]) + 1
    BY <1>2
  <2>1. Len(log'[f]) = n /\ log'[f][n] = e /\ n \in 1..n /\ (n + 1)..n = {}
    BY <1>2
  <2>2. LastChange(f, n)'
    BY <1>3, <2>1 DEF LastChange
  <2>3. incident'[f].status = StatusAfter(log'[f][n])
    BY <1>3, <2>1
  <2> QED
    BY <2>1, <2>2, <2>3
<1>4. CASE e = "occurred"
  <2>1. PICK n \in 1..Len(log[f]) :
          LastChange(f, n) /\ incident[f].status = StatusAfter(log[f][n])
    BY <1>4 DEF IInv, EventsExplain
  <2>2. LastChange(f, n)'
    <3>1. log'[f][n] # "occurred"
      BY <1>2, <2>1 DEF LastChange
    <3>2. ASSUME NEW m \in (n + 1)..Len(log'[f]) PROVE log'[f][m] = "occurred"
      BY <1>2, <1>4, <2>1, <3>2 DEF LastChange
    <3> QED
      BY <3>1, <3>2 DEF LastChange
  <2>3. n \in 1..Len(log'[f]) /\ incident'[f].status = StatusAfter(log'[f][n])
    BY <1>2, <1>4, <2>1
  <2> QED
    BY <1>2, <2>2, <2>3
<1> QED
  BY <1>3, <1>4

IncidentInv ==
  /\ incident \in [Fingerprints -> Incident]
  /\ keys \in [Fingerprints -> SUBSET Jobs]
  /\ log \in [Fingerprints -> Seq(EventTypes)]
  /\ KeysFinite /\ EventsExplain /\ CountedOnce

\* A step that writes no incident.
LEMMA IncidentsStay ==
  ASSUME IInv, UNCHANGED incidentVars
  PROVE  IncidentInv'
<1>1. incident' = incident /\ keys' = keys /\ log' = log
  BY DEF incidentVars
<1>2. EventsExplain'
  BY <1>1 DEF IInv, EventsExplain, LastChange
<1>3. IncidentInv'
  BY <1>1, <1>2 DEF IInv, TypeOK, IncidentInv, KeysFinite, CountedOnce
<1> QED
  BY <1>3

\* What is left to show of an incident that was written is about that incident.
LEMMA OthersStay ==
  ASSUME IInv, NEW f \in Fingerprints, NEW r \in Incident, NEW e \in EventTypes,
         incident' = [incident EXCEPT ![f] = r],
         log' = [log EXCEPT ![f] = Append(@, e)],
         keys' \in [Fingerprints -> SUBSET Jobs],
         \A g \in Fingerprints \ {f} : keys'[g] = keys[g],
         r.count = Cardinality(keys'[f]),
         r.status # "none",
         IF e = "occurred" THEN r.status = incident[f].status /\ incident[f].status # "none"
                           ELSE r.status = StatusAfter(e)
  PROVE  EventsExplain'
<1>1. /\ incident \in [Fingerprints -> Incident]
      /\ log \in [Fingerprints -> Seq(EventTypes)]
  BY DEF IInv, TypeOK
<1>2. /\ incident' \in [Fingerprints -> Incident] /\ incident'[f] = r
      /\ \A g \in Fingerprints \ {f} : incident'[g] = incident[g] /\ log'[g] = log[g]
  BY <1>1
<1>3. /\ log'[f] # << >>
      /\ \E n \in 1..Len(log'[f]) :
           LastChange(f, n)' /\ incident'[f].status = StatusAfter(log'[f][n])
  BY <1>2, LogExplains
<1>4. ASSUME NEW g \in Fingerprints \ {f}
      PROVE  /\ incident'[g].count = Cardinality(keys'[g])
             /\ incident'[g].status = "none" <=> log'[g] = << >>
             /\ log'[g] # << >> =>
                  \E n \in 1..Len(log'[g]) :
                    LastChange(g, n)' /\ incident'[g].status = StatusAfter(log'[g][n])
  BY <1>2, <1>4 DEF IInv, EventsExplain, LastChange
<1> QED
  BY <1>2, <1>3, <1>4 DEF EventsExplain

\* A step that leaves incidents alone.
Quiet == UNCHANGED incidentVars

\* What a step keeps, its incidents aside.
Kept ==
  /\ job' \in [Jobs -> Job] /\ \A j \in Jobs : job'[j].retries <= RetryLimit[j]
  /\ incidentJob' \in [IncidentJobs -> IncidentJob]
  /\ exec' \in [Executions -> Execution]
  /\ Sent' /\ Working' /\ CompletedIsRecorded'

LEMMA KeptSuffices == Kept /\ IncidentInv' => IInv'
BY DEF Kept, IncidentInv, IInv, TypeOK

\* A step of an execution or a member.
LEMMA JobsStay ==
  ASSUME IInv, UNCHANGED job, JobsMove, KeysGrow,
         UNCHANGED exec \/ \E x \in Executions : \E new \in Execution : ExecMoves(x, new)
  PROVE  Kept
<1>1. /\ incidentJob' \in [IncidentJobs -> IncidentJob] /\ Sent' /\ CompletedIsRecorded'
      /\ \A i \in IncidentJobs : incidentJob[i].state # "none" => incidentJob'[i].state # "none"
  BY JobsMoveKeeps
<1>2. exec' \in [Executions -> Execution] /\ Working'
  BY <1>1, ExecMovesKeeps
<1>3. /\ job' \in [Jobs -> Job] /\ \A j \in Jobs : job'[j].retries <= RetryLimit[j]
  BY DEF IInv, TypeOK
<1> QED
  BY <1>1, <1>2, <1>3 DEF Kept

-----------------------------------------------------------------------------
(* One lemma for each action.                                              *)

LEMMA InitiallyInvariant == Init => IInv
<1> SUFFICES ASSUME Init PROVE IInv
  OBVIOUS
<1>1. /\ Idle \in Execution
      /\ [state |-> "none", retries |-> 0, fingerprint |-> None] \in IncidentJob
      /\ [status |-> "none", count |-> 0] \in Incident
  BY DEF Idle, Execution, IncidentJob, Incident
<1>2. /\ [state |-> "waiting", retries |-> 0] \in Job
      /\ \A j \in Jobs : job[j].retries <= RetryLimit[j]
  BY DEF Init, Job
<1>3. TypeOK
  BY <1>1, <1>2 DEF Init, TypeOK
<1>4. Sent /\ Working /\ CompletedIsRecorded
  BY DEF Init, Sent, Working, CompletedIsRecorded, Idle
<1>5. KeysFinite /\ CountedOnce /\ EventsExplain
  BY FS_EmptySet DEF Init, KeysFinite, CountedOnce, EventsExplain
<1> QED
  BY <1>3, <1>4, <1>5 DEF IInv

\* A step that ends the job or begins its next attempt.
LEMMA JobRetried ==
  ASSUME IInv, NEW j \in Jobs, NEW end \in Ends, Retried(j, end)
  PROVE  /\ job' \in [Jobs -> Job]
         /\ \A k \in Jobs : job'[k].retries <= RetryLimit[k]
<1>1. /\ job \in [Jobs -> Job]
      /\ \A k \in Jobs : job[k].retries <= RetryLimit[k]
  BY DEF IInv, TypeOK
<1>2. job[j].retries \in Nat /\ job[j] \in Job /\ RetryLimit[j] \in Nat
  BY <1>1 DEF Job
<1>3. CASE job[j].retries < RetryLimit[j]
  <2>1. job' = [job EXCEPT ![j].retries = @ + 1]
    BY <1>3 DEF Retried
  <2> QED
    BY <1>1, <1>2, <1>3, <2>1 DEF Job
<1>4. CASE ~(job[j].retries < RetryLimit[j])
  <2>1. job' = [job EXCEPT ![j].state = end]
    BY <1>4 DEF Retried
  <2>2. job[j].retries = RetryLimit[j]
    BY <1>1, <1>2, <1>4
  <2> QED
    BY <1>1, <1>2, <2>1, <2>2 DEF Job, Ends
<1> QED
  BY <1>3, <1>4

LEMMA SucceedKeeps ==
  ASSUME IInv, NEW j \in Jobs, Succeed(j) PROVE Kept /\ Quiet
<1>1. UNCHANGED incidentJob /\ UNCHANGED exec /\ Quiet
  BY DEF Succeed, Quiet
<1>2. /\ job' \in [Jobs -> Job]
      /\ \A k \in Jobs : job'[k].retries = job[k].retries
  BY DEF Succeed, IInv, TypeOK, Job, Ends
<1>3. KeysGrow
  BY <1>1 DEF Quiet, incidentVars, KeysGrow
<1>4. Sent' /\ CompletedIsRecorded' /\ incidentJob' \in [IncidentJobs -> IncidentJob]
  BY <1>1, <1>3, JobsMoveKeeps DEF JobsMove
<1>5. Working' /\ exec' \in [Executions -> Execution]
  BY <1>1, ExecMovesKeeps
<1> QED
  BY <1>1, <1>2, <1>4, <1>5 DEF Kept, IInv, TypeOK

LEMMA SendMoves ==
  ASSUME IInv, NEW j \in Jobs, NEW e \in Errors, Send(j, e)
  PROVE  JobsMove
<1>1. CASE Escalated(j) /\ UNCHANGED incidentJob
  BY <1>1 DEF JobsMove
<1>2. CASE incidentJob' = [incidentJob EXCEPT ![<<j, job[j].retries>>] =
                    [state |-> "waiting", retries |-> 0, fingerprint |-> FingerprintOf[<<j, e>>]]]
  <2> DEFINE new == [state |-> "waiting", retries |-> 0, fingerprint |-> FingerprintOf[<<j, e>>]]
  <2>1. job[j].retries \in 0..RetryLimit[j]
    BY DEF IInv, TypeOK, Job
  <2>2. <<j, job[j].retries>> \in IncidentJobs
    BY <2>1, IncidentJobIsPair
  <2>3. new \in IncidentJob /\ new.fingerprint \in Fingerprints
    BY DEF IncidentJob
  <2>4. JobsMove
    BY <1>2, <2>2, <2>3 DEF JobsMove, JobMoves
  <2> QED
    BY <2>4
<1> QED
  BY <1>1, <1>2 DEF Send

LEMMA FailKeeps ==
  ASSUME IInv, NEW j \in Jobs, Fail(j) PROVE Kept /\ Quiet
<1>1. UNCHANGED exec /\ Quiet /\ job[j].state = "waiting"
  BY DEF Fail, Quiet
<1>2. KeysGrow
  BY <1>1 DEF Quiet, incidentVars, KeysGrow
<1>3. PICK e \in Errors : IF IsTerminal(j, e) THEN Send(j, e) ELSE UNCHANGED incidentJob
  BY DEF Fail
<1>4. JobsMove
  BY <1>3, SendMoves DEF JobsMove
<1>5. /\ incidentJob' \in [IncidentJobs -> IncidentJob] /\ Sent' /\ CompletedIsRecorded'
      /\ \A i \in IncidentJobs : incidentJob[i].state # "none" => incidentJob'[i].state # "none"
  BY <1>2, <1>4, JobsMoveKeeps
<1>6. Working' /\ exec' \in [Executions -> Execution]
  BY <1>1, <1>5, ExecMovesKeeps
<1>7. /\ job' \in [Jobs -> Job]
      /\ \A k \in Jobs : job'[k].retries <= RetryLimit[k]
  BY <1>1, JobRetried DEF Fail, Ends
<1> QED
  BY <1>1, <1>5, <1>6, <1>7 DEF Kept, IInv, TypeOK

LEMMA EndsQuietlyKeeps ==
  ASSUME IInv, NEW j \in Jobs, EndsQuietly(j) PROVE Kept /\ Quiet
<1>1. /\ UNCHANGED incidentJob /\ UNCHANGED exec
      /\ Quiet /\ job[j].state = "waiting"
  BY DEF EndsQuietly, Quiet
<1>2. KeysGrow
  BY <1>1 DEF Quiet, incidentVars, KeysGrow
<1>3. Sent' /\ CompletedIsRecorded' /\ incidentJob' \in [IncidentJobs -> IncidentJob]
  BY <1>1, <1>2, JobsMoveKeeps DEF JobsMove
<1>4. Working' /\ exec' \in [Executions -> Execution]
  BY <1>1, ExecMovesKeeps
<1>5. /\ job' \in [Jobs -> Job]
      /\ \A k \in Jobs : job'[k].retries <= RetryLimit[k]
  BY <1>1, JobRetried DEF EndsQuietly, Ends
<1> QED
  BY <1>1, <1>3, <1>4, <1>5 DEF Kept, IInv, TypeOK

\* Before an execution takes a step.
LEMMA AtWork ==
  ASSUME IInv, NEW x \in Executions, exec[x].phase # "idle"
  PROVE  /\ exec[x] \in Execution
         /\ exec[x].job \in IncidentJobs /\ Key(x) \in Jobs
         /\ incidentJob[exec[x].job] \in IncidentJob
         /\ incidentJob[exec[x].job].state # "none"
         /\ Fingerprint(x) \in Fingerprints
BY IncidentJobIsPair DEF IInv, TypeOK, Working, Sent, Key, Fingerprint

LEMMA IdleExec ==
  ASSUME NEW x \in Executions, exec' = [exec EXCEPT ![x] = Idle]
  PROVE  \E y \in Executions : \E new \in Execution : ExecMoves(y, new)
<1>1. Idle \in Execution /\ Idle.phase = "idle"
  BY DEF Idle, Execution
<1> QED
  BY <1>1 DEF ExecMoves

LEMMA CompletedMoves ==
  ASSUME IInv, NEW x \in Executions, exec[x].phase # "idle", Completed(x),
         NEW f \in Fingerprints, Key(x) \in keys'[f]
  PROVE  JobsMove
<1> PICK i \in IncidentJobs : i = exec[x].job
  BY AtWork
<1> DEFINE new == [incidentJob[i] EXCEPT !.state = "completed"]
<1>1. CASE exec[x].timedOut
  BY <1>1 DEF Completed, Reports, JobsMove
<1>2. CASE ~exec[x].timedOut
  <2>1. incidentJob[i] \in IncidentJob /\ incidentJob[i].fingerprint \in Fingerprints
    BY AtWork DEF Fingerprint
  <2>2. incidentJob' = [incidentJob EXCEPT ![i] = new]
    BY <1>2, <2>1 DEF Completed, Reports, IInv, TypeOK
  <2>3. new \in IncidentJob /\ new.state = "completed" /\ new.fingerprint \in Fingerprints
    BY <2>1 DEF IncidentJob
  <2>4. Recorded(i[1])'
    BY DEF Recorded, Key
  <2> QED
    BY <2>2, <2>3, <2>4 DEF JobsMove, JobMoves
<1> QED
  BY <1>1, <1>2

LEMMA RetriedMoves ==
  ASSUME IInv, NEW i \in IncidentJobs, incidentJob[i].state # "none", RetriedIncident(i)
  PROVE  JobsMove
<1>1. /\ incidentJob \in [IncidentJobs -> IncidentJob]
      /\ incidentJob[i] \in IncidentJob /\ incidentJob[i].fingerprint \in Fingerprints
  BY DEF IInv, TypeOK, Sent
<1>2. CASE incidentJob[i].retries < IncidentRetryLimit
  <2> DEFINE new == [incidentJob[i] EXCEPT !.state = "waiting",
                                           !.retries = incidentJob[i].retries + 1]
  <2>1. incidentJob' = [incidentJob EXCEPT ![i] = new]
    BY <1>1, <1>2 DEF RetriedIncident
  <2>2. incidentJob[i].retries + 1 \in 0..IncidentRetryLimit
    BY <1>1, <1>2 DEF IncidentJob
  <2>3. new \in IncidentJob /\ new.state = "waiting" /\ new.fingerprint \in Fingerprints
    BY <1>1, <2>2 DEF IncidentJob
  <2> QED
    BY <2>1, <2>3 DEF JobsMove, JobMoves
<1>3. CASE ~(incidentJob[i].retries < IncidentRetryLimit)
  <2> DEFINE new == [incidentJob[i] EXCEPT !.state = "exhausted"]
  <2>1. incidentJob' = [incidentJob EXCEPT ![i] = new]
    BY <1>1, <1>3 DEF RetriedIncident
  <2>2. new \in IncidentJob /\ new.state = "exhausted" /\ new.fingerprint \in Fingerprints
    BY <1>1 DEF IncidentJob
  <2> QED
    BY <2>1, <2>2 DEF JobsMove, JobMoves
<1> QED
  BY <1>2, <1>3

LEMMA StartIncidentKeeps ==
  ASSUME IInv, NEW x \in Executions, NEW i \in IncidentJobs, StartIncident(x, i)
  PROVE  Kept /\ Quiet
<1> DEFINE new == [incidentJob[i] EXCEPT !.state = "active"]
           at  == [phase |-> "started", job |-> i, timedOut |-> FALSE]
<1>1. /\ incidentJob \in [IncidentJobs -> IncidentJob]
      /\ incidentJob[i] \in IncidentJob /\ incidentJob[i].fingerprint \in Fingerprints
  BY DEF IInv, TypeOK, Sent, StartIncident
<1>2. incidentJob' = [incidentJob EXCEPT ![i] = new]
  BY <1>1 DEF StartIncident
<1>3. new \in IncidentJob /\ new.state = "active" /\ new.fingerprint \in Fingerprints
  BY <1>1 DEF IncidentJob
<1>4. JobsMove
  BY <1>2, <1>3 DEF JobsMove, JobMoves
<1>5. incidentJob'[i].state # "none"
  BY <1>1, <1>2, <1>3
<1>6. at \in Execution /\ at.job = i
  BY DEF Execution
<1>7. exec' = [exec EXCEPT ![x] = at]
  BY DEF StartIncident
<1>8. \E y \in Executions : \E e \in Execution : ExecMoves(y, e)
  BY <1>5, <1>6, <1>7 DEF ExecMoves
<1>9. Quiet /\ KeysGrow /\ UNCHANGED job
  BY DEF StartIncident, Quiet, incidentVars, KeysGrow
<1> QED
  BY <1>4, <1>8, <1>9, JobsStay

LEMMA LockIncidentKeeps ==
  ASSUME IInv, NEW x \in Executions, LockIncident(x) PROVE Kept /\ Quiet
<1>1. Quiet /\ KeysGrow /\ UNCHANGED job /\ exec[x].phase # "idle"
  BY DEF LockIncident, Quiet, incidentVars, KeysGrow
<1>2. CASE Recorded(Key(x))
  <2>1. Completed(x)
    BY <1>2 DEF LockIncident
  <2>2. PICK f \in Fingerprints : Key(x) \in keys[f]
    BY <1>2 DEF Recorded
  <2>3. Key(x) \in keys'[f]
    BY <1>1, <2>2 DEF KeysGrow
  <2>4. JobsMove
    BY <1>1, <2>1, <2>3, CompletedMoves
  <2>5. \E y \in Executions : \E new \in Execution : ExecMoves(y, new)
    BY <2>1, IdleExec DEF Completed
  <2> QED
    BY <1>1, <2>4, <2>5, JobsStay
<1>3. CASE ~Recorded(Key(x))
  <2> DEFINE new == [exec[x] EXCEPT !.phase = "locked"]
  <2>1. UNCHANGED incidentJob
    BY <1>3 DEF LockIncident
  <2>2. exec' = [exec EXCEPT ![x] = new]
    BY <1>3, AtWork, <1>1 DEF LockIncident, IInv, TypeOK
  <2>3. /\ new \in Execution /\ new.job \in IncidentJobs
        /\ incidentJob'[new.job].state # "none"
    BY <1>1, <2>1, AtWork DEF Execution
  <2>4. \E y \in Executions : \E e \in Execution : ExecMoves(y, e)
    BY <2>2, <2>3 DEF ExecMoves
  <2> QED
    BY <1>1, <2>1, <2>4, JobsStay DEF JobsMove
<1> QED
  BY <1>2, <1>3

\* The row a failure leaves.
Reopened(r) ==
  [status |-> IF r.status \in {"none", "resolved"} THEN "open" ELSE r.status,
   count |-> r.count + 1]

LEMMA AggregatedIs ==
  ASSUME NEW f \in Fingerprints, incident \in [Fingerprints -> Incident]
  PROVE  /\ Aggregated(f) = [incident EXCEPT ![f] = Reopened(incident[f])]
         /\ Reopened(incident[f]) \in Incident
<1>1. Aggregated(f) = [incident EXCEPT ![f] = Reopened(incident[f])]
  BY DEF Aggregated, Reopened
<1>2. Reopened(incident[f]) \in Incident
  BY DEF Reopened, Incident
<1> QED
  BY <1>1, <1>2

LEMMA WriteIncidentKeeps ==
  ASSUME IInv, NEW x \in Executions, WriteIncident(x)
  PROVE  Kept /\ IncidentInv' /\ \E f \in Fingerprints : incident' = Aggregated(f)
<1> PICK f \in Fingerprints : f = Fingerprint(x)
  BY AtWork DEF WriteIncident
<1> PICK k \in Jobs : k = Key(x)
  BY AtWork DEF WriteIncident
<1>1. /\ exec[x].phase # "idle" /\ UNCHANGED job /\ Completed(x)
      /\ incident' = Aggregated(f)
      /\ keys' = [keys EXCEPT ![f] = @ \cup {k}]
      /\ log' = [log EXCEPT ![f] = Append(@, EventType(f))]
      /\ \A g \in Fingerprints : k \notin keys[g]
  BY DEF WriteIncident, Recorded
<1>2. /\ incident \in [Fingerprints -> Incident] /\ incident[f] \in Incident
      /\ keys \in [Fingerprints -> SUBSET Jobs]
      /\ log \in [Fingerprints -> Seq(EventTypes)]
  BY DEF IInv, TypeOK
<1>3. /\ keys' \in [Fingerprints -> SUBSET Jobs] /\ keys'[f] = keys[f] \cup {k}
      /\ \A g \in Fingerprints \ {f} : keys'[g] = keys[g]
  BY <1>1, <1>2
<1>4. Kept
  <2>1. KeysGrow
    BY <1>3 DEF KeysGrow
  <2>2. JobsMove
    BY <1>1, <1>3, CompletedMoves
  <2>3. \E y \in Executions : \E new \in Execution : ExecMoves(y, new)
    BY <1>1, IdleExec DEF Completed
  <2> QED
    BY <1>1, <2>1, <2>2, <2>3, JobsStay
<1>5. IncidentInv'
  <2> DEFINE r == Reopened(incident[f])
  <2>1. incident' = [incident EXCEPT ![f] = r] /\ r \in Incident
    BY <1>1, <1>2, AggregatedIs
  <2>2. r.status # "none" /\ r.count = incident[f].count + 1
    BY <1>2 DEF Incident, Reopened
  <2>3. /\ IsFiniteSet(keys'[f])
        /\ Cardinality(keys'[f]) = Cardinality(keys[f]) + 1
    BY <1>1, <1>3, FS_AddElement DEF IInv, KeysFinite
  <2>4. r.count = Cardinality(keys'[f])
    BY <2>2, <2>3 DEF IInv, EventsExplain
  <2>5. /\ EventType(f) \in EventTypes
        /\ IF EventType(f) = "occurred"
           THEN r.status = incident[f].status /\ incident[f].status # "none"
           ELSE r.status = StatusAfter(EventType(f))
    BY <1>2 DEF EventType, EventTypes, StatusAfter, Incident, Reopened
  <2> PICK e \in EventTypes : e = EventType(f)
    BY <2>5
  <2>6. EventsExplain'
    BY <1>1, <1>3, <2>1, <2>2, <2>4, <2>5, OthersStay
  <2>7. KeysFinite'
    BY <1>3, <2>3 DEF IInv, KeysFinite
  <2>8. CountedOnce'
    BY <1>1, <1>3 DEF IInv, CountedOnce
  <2>9. /\ incident' \in [Fingerprints -> Incident]
        /\ log' \in [Fingerprints -> Seq(EventTypes)]
    BY <1>1, <1>2, <2>1, <2>2
  <2> QED
    BY <1>3, <2>6, <2>7, <2>8, <2>9 DEF IncidentInv
<1> QED
  BY <1>1, <1>4, <1>5

LEMMA RollBackKeeps ==
  ASSUME IInv, NEW x \in Executions, exec[x].phase # "idle", RollBack(x)
  PROVE  Kept /\ Quiet
<1>1. Quiet /\ KeysGrow /\ UNCHANGED job
  BY DEF RollBack, Quiet, incidentVars, KeysGrow
<1>2. JobsMove
  BY RetriedMoves, AtWork DEF RollBack, Reports, JobsMove
<1>3. \E y \in Executions : \E new \in Execution : ExecMoves(y, new)
  BY IdleExec DEF RollBack
<1> QED
  BY <1>1, <1>2, <1>3, JobsStay

LEMMA TimeoutKeeps ==
  ASSUME IInv, NEW x \in Executions, Timeout(x) PROVE Kept /\ Quiet
<1> DEFINE new == [exec[x] EXCEPT !.timedOut = TRUE]
<1>1. Quiet /\ KeysGrow /\ UNCHANGED job /\ exec[x].phase # "idle"
  BY DEF Timeout, Quiet, incidentVars, KeysGrow
<1>2. JobsMove
  BY <1>1, RetriedMoves, AtWork DEF Timeout
<1>3. exec' = [exec EXCEPT ![x] = new]
  BY <1>1, AtWork DEF Timeout, IInv, TypeOK
<1>4. \A i \in IncidentJobs : incidentJob[i].state # "none" => incidentJob'[i].state # "none"
  BY <1>1, <1>2, JobsMoveKeeps
<1>5. /\ new \in Execution /\ new.job \in IncidentJobs
      /\ incidentJob'[new.job].state # "none"
  BY <1>1, <1>4, AtWork DEF Execution
<1>6. \E y \in Executions : \E e \in Execution : ExecMoves(y, e)
  BY <1>3, <1>5 DEF ExecMoves
<1> QED
  BY <1>1, <1>2, <1>6, JobsStay

LEMMA MemberMovesKeeps ==
  ASSUME IInv, NEW f \in Fingerprints, NEW from, NEW to \in {"acknowledged", "resolved"},
         from \subseteq {"open", "acknowledged"}, MemberMoves(f, from, to)
  PROVE  Kept /\ IncidentInv'
<1> DEFINE r == [incident[f] EXCEPT !.status = to]
<1>1. /\ incident \in [Fingerprints -> Incident] /\ incident[f] \in Incident
      /\ keys \in [Fingerprints -> SUBSET Jobs]
      /\ log \in [Fingerprints -> Seq(EventTypes)]
  BY DEF IInv, TypeOK
<1>2. /\ UNCHANGED job /\ UNCHANGED incidentJob /\ UNCHANGED exec
      /\ keys' = keys /\ log' = [log EXCEPT ![f] = Append(@, to)]
      /\ incident' = [incident EXCEPT ![f] = r]
  BY <1>1 DEF MemberMoves, Incident
<1>3. /\ r \in Incident /\ r.status = to /\ r.count = incident[f].count
      /\ to \in EventTypes /\ r.status = StatusAfter(to) /\ to # "occurred"
  BY <1>1 DEF Incident, EventTypes, StatusAfter
<1>4. r.count = Cardinality(keys'[f]) /\ r.status # "none"
  BY <1>2, <1>3 DEF IInv, EventsExplain
<1>5. EventsExplain'
  BY <1>1, <1>2, <1>3, <1>4, OthersStay
<1>6. IncidentInv'
  <2>1. KeysFinite' /\ CountedOnce'
    BY <1>2 DEF IInv, KeysFinite, CountedOnce
  <2>2. /\ incident' \in [Fingerprints -> Incident]
        /\ log' \in [Fingerprints -> Seq(EventTypes)]
    BY <1>1, <1>2, <1>3
  <2> QED
    BY <1>1, <1>2, <1>5, <2>1, <2>2 DEF IncidentInv
<1>7. Kept
  BY <1>2, JobsStay DEF JobsMove, KeysGrow
<1> QED
  BY <1>6, <1>7

-----------------------------------------------------------------------------
(* The theorems.                                                           *)

LEMMA QuietKeeps == IInv /\ Kept /\ Quiet => IInv'
BY IncidentsStay, KeptSuffices DEF Quiet

LEMMA StepKeeps == IInv /\ [Next]_vars => IInv'
<1> SUFFICES ASSUME IInv, [Next]_vars PROVE IInv'
  OBVIOUS
<1>1. ASSUME NEW j \in Jobs, RunJob(j) PROVE IInv'
  BY <1>1, SucceedKeeps, FailKeeps, EndsQuietlyKeeps, QuietKeeps DEF RunJob
<1>2. ASSUME NEW x \in Executions, NEW i \in IncidentJobs, StartIncident(x, i) PROVE IInv'
  BY <1>2, StartIncidentKeeps, QuietKeeps
<1>3. ASSUME NEW x \in Executions, LockIncident(x) PROVE IInv'
  BY <1>3, LockIncidentKeeps, QuietKeeps
<1>4. ASSUME NEW x \in Executions, WriteIncident(x) PROVE IInv'
  BY <1>4, WriteIncidentKeeps, KeptSuffices
<1>5. ASSUME NEW x \in Executions, RefuseDuplicate(x) \/ ExecutionFails(x) PROVE IInv'
  <2>1. exec[x].phase # "idle" /\ RollBack(x)
    BY <1>5 DEF RefuseDuplicate, ExecutionFails
  <2> QED
    BY <2>1, RollBackKeeps, QuietKeeps
<1>6. ASSUME NEW x \in Executions, Timeout(x) PROVE IInv'
  BY <1>6, TimeoutKeeps, QuietKeeps
<1>7. ASSUME NEW f \in Fingerprints, Acknowledge(f) \/ Resolve(f) PROVE IInv'
  BY <1>7, MemberMovesKeeps, KeptSuffices DEF Acknowledge, Resolve
<1>8. CASE UNCHANGED vars
  <2>1. /\ UNCHANGED <<job, incidentJob, exec, incident, keys, log>>
    BY <1>8 DEF vars
  <2>2. Quiet /\ KeysGrow
    BY <2>1 DEF Quiet, incidentVars, KeysGrow
  <2>3. Kept
    BY <2>1, <2>2, JobsStay DEF JobsMove
  <2> QED
    BY <2>2, <2>3, QuietKeeps
<1> QED
  BY <1>1, <1>2, <1>3, <1>4, <1>5, <1>6, <1>7, <1>8 DEF Next, Write

\* The strengthening of the invariants below: jobs that were sent and executions have
\* fingerprints (open_or_aggregate_incident and its callers).
THEOREM InductiveInvariant == Spec => []IInv
<1>1. Init => IInv
  BY InitiallyInvariant
<1>2. IInv /\ [Next]_vars => IInv'
  BY StepKeeps
<1> QED
  BY <1>1, <1>2, PTL DEF Spec

\* Jobs, executions, incidents and their events always have their types.
THEOREM TypeCorrect == Spec => []TypeOK
<1>1. IInv => TypeOK
  BY DEF IInv
<1> QED
  BY <1>1, InductiveInvariant, PTL

\* incident_events explains the count and the status of every incident, however many
\* executions and members race for it.
THEOREM EventsAreTrue == Spec => []EventsExplain
<1>1. IInv => EventsExplain
  BY DEF IInv
<1> QED
  BY <1>1, InductiveInvariant, PTL

\* No failed job is counted by two incidents, although the advisory lock is one of a
\* fingerprint and a job may have several.
THEOREM FailuresCountOnce == Spec => []CountedOnce
<1>1. IInv => CountedOnce
  BY DEF IInv
<1> QED
  BY <1>1, InductiveInvariant, PTL

\* An incidents.open-from-failure job that completed recorded its failure for good.
THEOREM CompletedJobsRecord == Spec => []CompletedIsRecorded
<1>1. IInv => CompletedIsRecorded
  BY DEF IInv
<1> QED
  BY <1>1, InductiveInvariant, PTL

\* The database's two ways of moving an incident, and the jobs around them, implement
\* IncidentRegister.
THEOREM RegisterImplemented == Spec => ImplementsRegister
<1>1. Init => Register!Init
  BY DEF Init, Register!Init
<1>2. IInv /\ [Next]_vars => [Register!Next]_(Register!vars)
  <2> SUFFICES ASSUME IInv, [Next]_vars PROVE Register!Next \/ UNCHANGED Register!vars
    OBVIOUS
  <2>1. CASE UNCHANGED incident
    BY <2>1 DEF Register!vars
  <2>2. ASSUME NEW f \in Fingerprints, incident' = Aggregated(f) PROVE Register!Next
    <3>1. incident \in [Fingerprints -> Incident]
      BY DEF IInv, TypeOK
    <3>2. incident' = [incident EXCEPT ![f] = Reopened(incident[f])] /\ incident[f] \in Incident
      BY <2>2, <3>1, AggregatedIs
    <3>3. incident'[f].status = IF incident[f].status = "acknowledged" THEN "acknowledged"
                                ELSE "open"
      BY <3>1, <3>2 DEF Reopened, Incident
    <3>4. Register!Occur(f)
      BY <3>1, <3>2, <3>3 DEF Reopened, Register!Occur
    <3> QED
      BY <3>4 DEF Register!Next
  <2>3. ASSUME NEW f \in Fingerprints, Acknowledge(f) PROVE Register!Next
    <3>1. Register!Move(f, {"open"}, "acknowledged")
      BY <2>3 DEF Acknowledge, MemberMoves, IInv, TypeOK, Incident, Register!Move
    <3> QED
      BY <3>1 DEF Register!Next
  <2>4. ASSUME NEW f \in Fingerprints, Resolve(f) PROVE Register!Next
    <3>1. Register!Move(f, {"open", "acknowledged"}, "resolved")
      BY <2>4 DEF Resolve, MemberMoves, IInv, TypeOK, Incident, Register!Move
    <3> QED
      BY <3>1 DEF Register!Next
  <2>5. ASSUME NEW j \in Jobs, RunJob(j) PROVE UNCHANGED incident
    BY <2>5 DEF RunJob, Succeed, Fail, EndsQuietly, incidentVars
  <2>6. ASSUME NEW x \in Executions,
               \/ \E i \in IncidentJobs : StartIncident(x, i)
               \/ LockIncident(x) \/ RefuseDuplicate(x) \/ ExecutionFails(x) \/ Timeout(x)
        PROVE  UNCHANGED incident
    BY <2>6 DEF StartIncident, LockIncident, RefuseDuplicate, ExecutionFails, RollBack,
                Timeout, incidentVars
  <2>7. ASSUME NEW x \in Executions, WriteIncident(x)
        PROVE  \E f \in Fingerprints : incident' = Aggregated(f)
    BY <2>7, WriteIncidentKeeps
  <2>8. CASE UNCHANGED vars
    BY <2>1, <2>8 DEF vars
  <2> QED
    BY <2>1, <2>2, <2>3, <2>4, <2>5, <2>6, <2>7, <2>8 DEF Next, Write
<1> QED
  BY <1>1, <1>2, InductiveInvariant, PTL DEF Spec, ImplementsRegister, Register!Spec
=============================================================================

---------------------------- MODULE EventPipeline ----------------------------
(***************************************************************************)
(* The event platform, from the webhook to the projection: the ingest      *)
(* transaction (business_events and outbox in one), the outbox dispatcher  *)
(* (claim under a lease, send to pg-boss, mark), the events.project job    *)
(* with its timeout and retries, the projection transaction under an       *)
(* advisory lock, the separate transaction that records a failure, and the *)
(* administrator's replay of a failed event.                               *)
(*                                                                         *)
(* pg-boss is external.  A send carries the singleton key outbox-<id> for  *)
(* 86400 s, so a message has at most one job per day: a job is known by    *)
(* its message and the day it was sent.                                    *)
(*                                                                         *)
(* The projection transaction is a step that takes the lock and reads the  *)
(* event, and a step that does the rest: its other writes take row locks   *)
(* that it keeps until it commits.                                         *)
(***************************************************************************)
EXTENDS Naturals, FiniteSets

CONSTANTS
  Events,       \* webhook ids of one integration
  Kind,         \* Kind[e]: what the type of e means to the projector registry
  RunOf,        \* RunOf[e]: the workflow run e is about
  Runs,         \* workflow runs
  Messages,     \* rows of outbox
  Dispatchers,  \* outbox dispatchers, one per worker process
  IdOf,         \* IdOf[w]: the worker id of dispatcher w
  Executions,   \* executions of events.project that may overlap
  MaxAttempts,  \* max_attempts of an outbox row (10 in the table)
  RetryLimit,   \* retryLimit of events.project (10 in the registry)
  BatchSize,    \* OUTBOX_BATCH_SIZE
  MaxDay,       \* bound on the days that pass
  MaxFaults,    \* bound on crashes, lost answers and outlived leases
  None          \* no event, no worker, no job

RunKinds == {"started", "succeeded", "failed"}
Kinds    == RunKinds \cup {"lead", "unprojected", "unknown"}
Days     == 1..MaxDay
Jobs     == Messages \X Days

ASSUME EventsAssumption ==
  /\ Kind \in [Events -> Kinds]
  /\ RunOf \in [Events -> Runs \cup {None}]
  /\ \A e \in Events : RunOf[e] # None <=> Kind[e] \in RunKinds
  /\ None \notin Events \cup Runs \cup Jobs

ASSUME WorkersAssumption ==
  /\ DOMAIN IdOf = Dispatchers
  /\ \A w \in Dispatchers : IdOf[w] # None

ASSUME LimitsAssumption ==
  /\ MaxAttempts \in Nat \ {0}
  /\ BatchSize \in Nat \ {0}
  /\ RetryLimit \in Nat
  /\ MaxDay \in Nat \ {0}
  /\ MaxFaults \in Nat

VARIABLES
  status,     \* status[e]: the status of e in business_events, or "none"
  applied,    \* applied[e]: committed effects of the projector on e
  run,        \* run[r]: the status of r in workflow_runs, or "none"
  outbox,     \* outbox[m]: the row of outbox
  replaying,  \* events a replay has read as failed, and not yet enqueued
  send,       \* send[w][m]: what dispatcher w is doing with its claim of m
  job,        \* job[j]: the job in pg-boss
  day,        \* the singleton slot of pg-boss
  exec,       \* exec[h]: what execution h is doing
  revoked,    \* the integration is revoked
  faults      \* faults so far

vars == <<status, applied, run, outbox, replaying, send, job, day, exec, revoked, faults>>
eventVars == <<status, applied, run>>

Ids        == {IdOf[w] : w \in Dispatchers}
Settled    == {"projected", "unhandled"}
Open       == {"received", "failed"}
NoRow      == [status |-> "none", event |-> None, attempts |-> 0, lockedBy |-> None,
               due |-> FALSE, leaseOver |-> FALSE]
Row        == [status : {"none", "pending", "processing", "delivered", "dead_letter"},
               event : Events \cup {None}, attempts : Nat, lockedBy : Ids \cup {None},
               due : BOOLEAN, leaseOver : BOOLEAN]
Job        == [state : {"none", "waiting", "active", "completed", "exhausted"},
               retries : 0..RetryLimit]
Idle       == [phase |-> "idle", job |-> None, timedOut |-> FALSE]
Execution  == [phase : {"idle", "locking", "projecting", "failing"}, job : Jobs \cup {None},
               timedOut : BOOLEAN]

TypeOK ==
  /\ status \in [Events -> {"none"} \cup Open \cup Settled]
  /\ applied \in [Events -> Nat]
  /\ run \in [Runs -> {"none"} \cup RunKinds]
  /\ outbox \in [Messages -> Row]
  /\ replaying \subseteq Events
  /\ send \in [Dispatchers -> [Messages -> {"none", "claimed", "sent", "error"}]]
  /\ job \in [Jobs -> Job]
  /\ day \in Days
  /\ exec \in [Executions -> Execution]
  /\ revoked \in BOOLEAN
  /\ faults \in 0..MaxFaults

Init ==
  /\ status = [e \in Events |-> "none"]
  /\ applied = [e \in Events |-> 0]
  /\ run = [r \in Runs |-> "none"]
  /\ outbox = [m \in Messages |-> NoRow]
  /\ replaying = {}
  /\ send = [w \in Dispatchers |-> [m \in Messages |-> "none"]]
  /\ job = [j \in Jobs |-> [state |-> "none", retries |-> 0]]
  /\ day = 1
  /\ exec = [h \in Executions |-> Idle]
  /\ revoked = FALSE
  /\ faults = 0

Fault == faults < MaxFaults /\ faults' = faults + 1

-----------------------------------------------------------------------------
(* The web application: ingest and replay.                                 *)

\* createOutboxMessage, in a row that is not in use.
Enqueued(m, e) ==
  /\ outbox[m].status = "none"
  /\ outbox' = [outbox EXCEPT ![m] = [NoRow EXCEPT !.status = "pending", !.event = e,
                                                    !.due = TRUE]]

\* A verified webhook with a new id.  A known id is answered 200 or, with another
\* body, 409, and changes nothing.
Ingest(e) ==
  /\ ~revoked
  /\ status[e] = "none"
  /\ IF Kind[e] = "unknown"
     THEN status' = [status EXCEPT ![e] = "unhandled"] /\ UNCHANGED outbox
     ELSE /\ status' = [status EXCEPT ![e] = "received"]
          /\ \E m \in Messages : Enqueued(m, e)
  /\ UNCHANGED <<applied, run, replaying, send, job, day, exec, revoked, faults>>

\* The replay reads the status without a lock, and inserts later.
ReplayRead(e) ==
  /\ status[e] = "failed"
  /\ replaying' = replaying \cup {e}
  /\ UNCHANGED <<eventVars, outbox, send, job, day, exec, revoked, faults>>

ReplayInsert(e) ==
  /\ e \in replaying
  /\ replaying' = replaying \ {e}
  /\ \E m \in Messages : Enqueued(m, e)
  /\ UNCHANGED <<eventVars, send, job, day, exec, revoked, faults>>

-----------------------------------------------------------------------------
(* The outbox dispatcher.                                                  *)

\* Mutant: a lease that has run out is not taken over.
Claimable_PendingOnly(m) ==
  outbox[m].status = "pending" /\ outbox[m].due

\* The WHERE clause of claim_outbox_items.
Claimable(m) ==
  \/ outbox[m].status = "pending" /\ outbox[m].due
  \/ outbox[m].status = "processing" /\ outbox[m].leaseOver

Claimed(r, id) == [status |-> "processing", event |-> r.event, attempts |-> r.attempts + 1,
                   lockedBy |-> id, due |-> FALSE, leaseOver |-> FALSE]
Released(r, s) == [status |-> s, event |-> r.event, attempts |-> r.attempts,
                   lockedBy |-> None, due |-> FALSE, leaseOver |-> FALSE]

\* A failed attempt: a backoff, or the dead letter at max_attempts.
AfterError(r) == IF r.attempts >= MaxAttempts THEN "dead_letter" ELSE "pending"

\* One poll: rows that others have locked are skipped, and no poll starts while
\* one is in flight.
Claim(w) ==
  /\ \A m \in Messages : send[w][m] = "none"
  /\ \E S \in SUBSET {m \in Messages : Claimable(m)} :
       /\ Cardinality(S) \in 1..BatchSize
       /\ outbox' = [m \in Messages |-> IF m \in S THEN Claimed(outbox[m], IdOf[w])
                                                   ELSE outbox[m]]
       /\ send' = [send EXCEPT ![w] = [m \in Messages |-> IF m \in S THEN "claimed"
                                                                     ELSE "none"]]
  /\ UNCHANGED <<eventVars, replaying, job, day, exec, revoked, faults>>

\* boss.send: a second send of the same day is dropped.
Sent(m) ==
  job' = IF job[<<m, day>>].state = "none"
         THEN [job EXCEPT ![<<m, day>>].state = "waiting"] ELSE job

Sending(w, m, to) == send' = [send EXCEPT ![w][m] = to]

\* Mutant: the row is marked first and sent afterwards.
SendAccepted_MarksFirst(w, m) ==
  /\ send[w][m] = "claimed"
  /\ Sending(w, m, "sent")
  /\ outbox' = IF outbox[m].lockedBy = IdOf[w]
               THEN [outbox EXCEPT ![m] = Released(@, "delivered")] ELSE outbox
  /\ UNCHANGED <<eventVars, replaying, job, day, exec, revoked, faults>>

\* The job is in pg-boss.
SendAccepted(w, m) ==
  /\ send[w][m] = "claimed"
  /\ Sending(w, m, "sent")
  /\ Sent(m)
  /\ UNCHANGED <<eventVars, outbox, replaying, day, exec, revoked, faults>>

\* The send throws: before the job was stored, or after it.
SendThrows(w, m) ==
  /\ send[w][m] = "claimed"
  /\ Sending(w, m, "error")
  /\ job' = job \/ Sent(m)
  /\ UNCHANGED <<eventVars, outbox, replaying, day, exec, revoked, faults>>

\* mark_outbox_delivered_safe tests lockedBy only.  Its result is only logged.
MarkDelivered(w, m) ==
  /\ send[w][m] = "sent"
  /\ Sending(w, m, "none")
  /\ outbox' = IF outbox[m].lockedBy = IdOf[w]
               THEN [outbox EXCEPT ![m] = Released(@, "delivered")] ELSE outbox
  /\ UNCHANGED <<eventVars, replaying, job, day, exec, revoked, faults>>

\* The mark throws: the item is marked failed, although it was sent.
MarkDeliveredThrows(w, m) ==
  /\ send[w][m] = "sent"
  /\ Fault
  /\ Sending(w, m, "error")
  /\ UNCHANGED <<eventVars, outbox, replaying, job, day, exec, revoked>>

\* mark_outbox_failed_safe.
MarkFailed(w, m) ==
  /\ send[w][m] = "error"
  /\ Sending(w, m, "none")
  /\ outbox' = IF outbox[m].lockedBy # IdOf[w] THEN outbox
               ELSE [outbox EXCEPT ![m] = Released(@, AfterError(@))]
  /\ UNCHANGED <<eventVars, replaying, job, day, exec, revoked, faults>>

\* The process stops: what it claimed stays in processing.
DispatcherLost(w) ==
  /\ \E m \in Messages : send[w][m] # "none"
  /\ Fault
  /\ send' = [send EXCEPT ![w] = [m \in Messages |-> "none"]]
  /\ UNCHANGED <<eventVars, outbox, replaying, job, day, exec, revoked>>

Deliver(w, m) == SendAccepted(w, m) \/ SendThrows(w, m) \/ MarkDelivered(w, m)
                   \/ MarkFailed(w, m)

BackoffOver(m) ==
  /\ outbox[m].status = "pending"
  /\ ~outbox[m].due
  /\ outbox' = [outbox EXCEPT ![m].due = TRUE]
  /\ UNCHANGED <<eventVars, replaying, send, job, day, exec, revoked, faults>>

Held(m) == \E w \in Dispatchers : send[w][m] # "none"

LeaseEnds(m) ==
  /\ outbox[m].status = "processing"
  /\ ~outbox[m].leaseOver
  /\ outbox' = [outbox EXCEPT ![m].leaseOver = TRUE]
  /\ UNCHANGED <<eventVars, replaying, send, job, day, exec, revoked>>

\* The lease of a claim nobody works on runs out.
LeaseAbandoned(m) == ~Held(m) /\ LeaseEnds(m) /\ UNCHANGED faults

\* A slow dispatcher outlives its lease.
LeaseOutlived(m) == Held(m) /\ Fault /\ LeaseEnds(m)

DayTurns ==
  /\ day < MaxDay
  /\ day' = day + 1
  /\ UNCHANGED <<eventVars, outbox, replaying, send, job, exec, revoked, faults>>

-----------------------------------------------------------------------------
(* The events.project job.                                                 *)

EventOf(j) == outbox[j[1]].event

Target(e) == IF Kind[e] = "unprojected" THEN "unhandled" ELSE "projected"

\* pg-boss runs a job that failed again, until its retry limit.
Retried(j) ==
  job' = [job EXCEPT ![j] = IF @.retries < RetryLimit
                            THEN [state |-> "waiting", retries |-> @.retries + 1]
                            ELSE [@ EXCEPT !.state = "exhausted"]]

\* An execution that has timed out no longer reports to pg-boss.
Reports(h, report) == IF exec[h].timedOut THEN UNCHANGED job ELSE report

Completed(h) ==
  /\ exec' = [exec EXCEPT ![h] = Idle]
  /\ Reports(h, job' = [job EXCEPT ![exec[h].job].state = "completed"])

Entering(h, phase) == exec' = [exec EXCEPT ![h].phase = phase] /\ UNCHANGED job

Start(h, j) ==
  /\ exec[h].phase = "idle"
  /\ job[j].state = "waiting"
  /\ ~revoked
  /\ job' = [job EXCEPT ![j].state = "active"]
  /\ exec' = [exec EXCEPT ![h] = [phase |-> "locking", job |-> j, timedOut |-> FALSE]]
  /\ UNCHANGED <<eventVars, outbox, replaying, send, day, revoked, faults>>

\* The wrapper's access check fails, and fails on every retry.
Denied(j) ==
  /\ job[j].state = "waiting"
  /\ revoked
  /\ Retried(j)
  /\ UNCHANGED <<eventVars, outbox, replaying, send, day, exec, revoked, faults>>

LockHolders(e) == {h \in Executions : exec[h].phase = "projecting" /\ EventOf(exec[h].job) = e}

\* Mutant: no advisory lock.
Lock_Unserialised(h) ==
  /\ exec[h].phase = "locking"
  /\ ~revoked
  /\ IF status[EventOf(exec[h].job)] \in Settled THEN Completed(h)
                                               ELSE Entering(h, "projecting")
  /\ UNCHANGED <<eventVars, outbox, replaying, send, day, revoked, faults>>

\* pg_advisory_xact_lock, then the read: an event that is settled is left alone.
Lock(h) ==
  LET e == EventOf(exec[h].job) IN
  /\ exec[h].phase = "locking"
  /\ ~revoked
  /\ LockHolders(e) = {}
  /\ IF status[e] \in Settled THEN Completed(h) ELSE Entering(h, "projecting")
  /\ UNCHANGED <<eventVars, outbox, replaying, send, day, revoked, faults>>

\* Mutant: a delayed event moves a run out of its terminal state.
RunAfter_LastWins(e) ==
  [r \in Runs |-> IF r = RunOf[e] THEN Kind[e] ELSE run[r]]

\* upsertWorkflowRun: ON CONFLICT DO UPDATE ... WHERE status = 'started'.
RunAfter(e) ==
  [r \in Runs |-> IF r = RunOf[e] /\ run[r] \in {"none", "started"} THEN Kind[e] ELSE run[r]]

\* The registered projector and the mark, or only the mark, committed together.
\* The mark accepts an event that already has the status it sets.
Projected(e) ==
  /\ ~revoked
  /\ status[e] \in Open \cup {Target(e)}
  /\ status' = [status EXCEPT ![e] = Target(e)]
  /\ IF Target(e) = "projected"
     THEN applied' = [applied EXCEPT ![e] = @ + 1] /\ run' = RunAfter(e)
     ELSE UNCHANGED <<applied, run>>

Project(h) ==
  /\ exec[h].phase = "projecting"
  /\ Projected(EventOf(exec[h].job))
  /\ Completed(h)
  /\ UNCHANGED <<outbox, replaying, send, day, revoked, faults>>

\* The transaction commits and its answer is lost: the code takes it for a failure.
ProjectUnanswered(h) ==
  /\ exec[h].phase = "projecting"
  /\ Fault
  /\ Projected(EventOf(exec[h].job))
  /\ Entering(h, "failing")
  /\ UNCHANGED <<outbox, replaying, send, day, revoked>>

\* The projector, a query or the access to the tenant fails, and the transaction
\* is rolled back.
ProjectFails(h) ==
  /\ exec[h].phase \in {"locking", "projecting"}
  /\ Entering(h, "failing")
  /\ UNCHANGED <<eventVars, outbox, replaying, send, day, revoked, faults>>

\* Mutant: the failure is recorded over any status.
Failed_AnyStatus(e) == IF revoked THEN status ELSE [status EXCEPT ![e] = "failed"]

\* mark_business_event_result_safe with 'failed'.
Failed(e) == IF status[e] \in Open /\ ~revoked THEN [status EXCEPT ![e] = "failed"] ELSE status

\* Mutant: the error is recorded and not thrown on.
RecordFailure_Swallowed(h) ==
  /\ exec[h].phase = "failing"
  /\ status' = Failed(EventOf(exec[h].job))
  /\ Completed(h)
  /\ UNCHANGED <<applied, run, outbox, replaying, send, day, revoked, faults>>

\* markEventFailed in a transaction of its own, without the lock.  The error goes
\* on to pg-boss.
RecordFailure(h) ==
  /\ exec[h].phase = "failing"
  /\ status' = Failed(EventOf(exec[h].job))
  /\ exec' = [exec EXCEPT ![h] = Idle]
  /\ Reports(h, Retried(exec[h].job))
  /\ UNCHANGED <<applied, run, outbox, replaying, send, day, revoked, faults>>

\* The wrapper rejects the job after 60 s, and the execution runs on.
Timeout(h) ==
  /\ exec[h].phase # "idle"
  /\ ~exec[h].timedOut
  /\ exec' = [exec EXCEPT ![h].timedOut = TRUE]
  /\ Retried(exec[h].job)
  /\ UNCHANGED <<eventVars, outbox, replaying, send, day, revoked, faults>>

\* The process dies (PostgreSQL rolls back, pg-boss expires the job), or the
\* failure cannot be recorded.
ExecutionLost(h) ==
  /\ exec[h].phase # "idle"
  /\ Fault
  /\ exec' = [exec EXCEPT ![h] = Idle]
  /\ Reports(h, Retried(exec[h].job))
  /\ UNCHANGED <<eventVars, outbox, replaying, send, day, revoked>>

\* revokeIntegration.
RevokeIntegration ==
  /\ ~revoked
  /\ revoked' = TRUE
  /\ UNCHANGED <<eventVars, outbox, replaying, send, job, day, exec, faults>>

Execute(h) == Project(h) \/ ProjectFails(h) \/ RecordFailure(h)

Next ==
  \/ \E e \in Events : Ingest(e) \/ ReplayRead(e) \/ ReplayInsert(e)
  \/ \E w \in Dispatchers : \/ Claim(w) \/ DispatcherLost(w)
                            \/ \E m \in Messages : Deliver(w, m) \/ MarkDeliveredThrows(w, m)
  \/ \E m \in Messages : BackoffOver(m) \/ LeaseAbandoned(m) \/ LeaseOutlived(m)
  \/ \E j \in Jobs : Denied(j) \/ \E h \in Executions : Start(h, j)
  \/ \E h \in Executions : \/ Lock(h) \/ Execute(h) \/ ProjectUnanswered(h)
                           \/ Timeout(h) \/ ExecutionLost(h)
  \/ DayTurns \/ RevokeIntegration

\* Dispatchers poll and run on, pg-boss hands out waiting jobs, the queue of the
\* advisory lock is served in order, and time passes.  Faults, timeouts, replays and
\* revocation may never come.
Fairness ==
  /\ \A w \in Dispatchers, m \in Messages : WF_vars(Deliver(w, m))
  /\ \A m \in Messages : /\ WF_vars(BackoffOver(m)) /\ WF_vars(LeaseAbandoned(m))
                         /\ SF_vars(\E w \in Dispatchers : Claim(w) /\ send'[w][m] = "claimed")
  /\ \A j \in Jobs : SF_vars(\E h \in Executions : Start(h, j))
  /\ \A h \in Executions : SF_vars(Lock(h)) /\ WF_vars(Execute(h))

Spec == Init /\ [][Next]_vars /\ Fairness

-----------------------------------------------------------------------------
(* Properties.                                                             *)

\* The projector of an event takes effect exactly when the event becomes projected,
\* and once, whatever overlaps: retries, timed-out executions, replays.
AppliedOnce ==
  \A e \in Events : applied[e] = IF status[e] = "projected" THEN 1 ELSE 0

ProjectedAs(r, k) == \E e \in Events : RunOf[e] = r /\ Kind[e] = k /\ status[e] = "projected"

\* A workflow run shows what its projected events say, in whatever order they were
\* projected: it is terminal as soon as one of them is.
RunExplained ==
  \A r \in Runs :
    /\ run[r] # "none" => ProjectedAs(r, run[r])
    /\ run[r] = "none" => \A k \in RunKinds : ~ProjectedAs(r, k)
    /\ run[r] = "started" => ~ProjectedAs(r, "succeeded") /\ ~ProjectedAs(r, "failed")

Carried(e) ==
  \E m \in Messages :
    /\ outbox[m].event = e
    /\ \/ outbox[m].status \in {"pending", "processing"}
       \/ \E d \in Days : job[<<m, d>>].state \in {"waiting", "active"}

GivenUp(e) ==
  \E m \in Messages :
    /\ outbox[m].event = e
    /\ outbox[m].status = "dead_letter" \/ \E d \in Days : job[<<m, d>>].state = "exhausted"

\* An event that is accepted is not forgotten: while it is "received" a live outbox
\* row or a live job carries it, unless its row is dead or its job is exhausted.
EventCarried ==
  \A e \in Events : status[e] = "received" => Carried(e) \/ GivenUp(e)

\* A job completes only when its event is projected or unhandled.
CompletedIsSettled ==
  \A j \in Jobs : job[j].state = "completed" => status[EventOf(j)] \in Settled

Journal == INSTANCE EventJournal WITH state <- status, effects <- applied

\* The pipeline keeps what EventJournal promises: a late failure, a late success or
\* a delayed event never takes back what was projected.
ImplementsJournal == Journal!Spec

\* Every accepted event of an active integration is projected, unhandled or marked
\* failed, unless it is given up.
EventSettles ==
  \A e \in Events :
    status[e] = "received" ~> (status[e] # "received" \/ revoked \/ GivenUp(e))
=============================================================================

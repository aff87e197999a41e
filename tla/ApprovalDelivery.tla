-------------------------- MODULE ApprovalDelivery --------------------------
(***************************************************************************)
(* Delivery of approval results to the integration's callback URL: the     *)
(* rows of approval_deliveries, the scheduler that enqueues a job for      *)
(* every due row, and the job handler that claims the row (one             *)
(* transaction), POSTs (no transaction) and marks the row (another one).   *)
(*                                                                         *)
(* A claim is a lease of five minutes under the worker's id.  Time is kept *)
(* as two facts per row, "its backoff is over" and "its lease is over",    *)
(* each made true by a step of its own, so a handler may be slower than    *)
(* its lease and slower than the job's 60 s timeout: the timeout makes     *)
(* pg-boss run the job again but does not stop the handler.                *)
(*                                                                         *)
(* A handler here is one execution.                                        *)
(***************************************************************************)
EXTENDS DeliveryJobs

CONSTANT Deliveries   \* rows of approval_deliveries

ASSUME DeliveriesAssumption == None \notin Deliveries

VARIABLES
  row,         \* row[d]: the row of approval_deliveries
  queue,       \* queue[d]: jobs pg-boss holds for d
  handler,     \* handler[h]: what execution h is doing
  revoked,     \* the integration is revoked (terminal)
  received,    \* received[d]: POSTs the callback receiver accepted
  unanswered,  \* unanswered[d]: accepted POSTs whose answer did not come back
  expired,     \* expired[d]: leases that ran out
  faults       \* faults so far

vars == <<row, queue, handler, revoked, received, unanswered, expired, faults>>

Terminal == {"delivered", "dead_letter"}
Results  == {"none", "success", "retryable", "permanent"}

Row     == [status : {"pending", "processing"} \cup Terminal,
            attempts : Nat,                  \* attempt_count
            lockedBy : Workers \cup {None},
            due : BOOLEAN,                   \* nextAttemptAt is NULL or past
            leaseOver : BOOLEAN]             \* lockedAt is five minutes old
Handler == [phase : {"idle", "claimed", "posted"}, on : Deliveries \cup {None},
            attempt : Nat, result : Results, timedOut : BOOLEAN]

Idle == [phase |-> "idle", on |-> None, attempt |-> 0, result |-> "none", timedOut |-> FALSE]

TypeOK ==
  /\ row \in [Deliveries -> Row]
  /\ queue \in [Deliveries -> 0..MaxQueued]
  /\ handler \in [Handlers -> Handler]
  /\ revoked \in BOOLEAN
  /\ received \in [Deliveries -> Nat]
  /\ unanswered \in [Deliveries -> Nat]
  /\ expired \in [Deliveries -> Nat]
  /\ faults \in 0..MaxFaults

\* Rows as the closing transactions of ApprovalDecision insert them.
Init ==
  /\ row = [d \in Deliveries |-> [status |-> "pending", attempts |-> 0, lockedBy |-> None,
                                  due |-> TRUE, leaseOver |-> FALSE]]
  /\ queue = [d \in Deliveries |-> 0]
  /\ handler = [h \in Handlers |-> Idle]
  /\ revoked = FALSE
  /\ received = [d \in Deliveries |-> 0]
  /\ unanswered = [d \in Deliveries |-> 0]
  /\ expired = [d \in Deliveries |-> 0]
  /\ faults = 0

-----------------------------------------------------------------------------
(* What the SQL functions test and write.                                  *)

\* Mutant: only pending rows are listed.
Due_PendingOnly(d) ==
  ~revoked /\ row[d].status = "pending" /\ row[d].due

\* list_due_approval_delivery_jobs.
Due(d) ==
  /\ ~revoked
  /\ \/ row[d].status = "pending" /\ row[d].due
     \/ row[d].status = "processing" /\ row[d].leaseOver

\* Mutant: the last ELSE RETURN is missing, so closed rows can be claimed.
Claimable_AnyStatus(d) ==
  /\ ~revoked
  /\ row[d].status = "pending" => row[d].due
  /\ row[d].status = "processing" => row[d].leaseOver

\* claim_approval_delivery_exact tests the row once more, under its lock.
\* attempt_count is not compared with max_attempts.
Claimable(d) ==
  /\ ~revoked
  /\ \/ row[d].status = "pending" /\ row[d].due
     \/ row[d].status = "processing" /\ row[d].leaseOver

Claimed(r, worker) ==
  [status |-> "processing", attempts |-> r.attempts + 1, lockedBy |-> worker,
   due |-> FALSE, leaseOver |-> FALSE]

Released(r, status) ==
  [r EXCEPT !.status = status, !.lockedBy = None, !.due = FALSE, !.leaseOver = FALSE]

\* Mutant: off by one, the row is given up after one attempt too many.
Verdict_OneMore(r, result) ==
  CASE result = "success" -> "delivered"
    [] result = "permanent" -> "dead_letter"
    [] result = "retryable" -> IF r.attempts > MaxAttempts THEN "dead_letter" ELSE "pending"

\* Mutant: any answer counts as a delivery.
Verdict_AnyAnswer(r, result) ==
  IF result = "retryable" THEN IF r.attempts >= MaxAttempts THEN "dead_letter" ELSE "pending"
                          ELSE "delivered"

\* mark_approval_delivery_delivered, or mark_approval_delivery_failed with the
\* retryable flag of the result.
Verdict(r, result) ==
  CASE result = "success" -> "delivered"
    [] result = "permanent" -> "dead_letter"
    [] result = "retryable" -> IF r.attempts >= MaxAttempts THEN "dead_letter" ELSE "pending"

\* pg-boss runs a failed job again, until its own retry limit.
MayRequeue(d) ==
  \/ UNCHANGED queue
  \/ queue[d] < MaxQueued /\ queue' = [queue EXCEPT ![d] = @ + 1]

-----------------------------------------------------------------------------
(* The scheduler and the job handler.                                      *)

\* One row of a poll.  A send that pg-boss throttles (singletonKey within its
\* 60 s) is no step.
Enqueue(d) ==
  /\ Due(d)
  /\ queue[d] < MaxQueued
  /\ queue' = [queue EXCEPT ![d] = @ + 1]
  /\ UNCHANGED <<row, handler, revoked, received, unanswered, expired, faults>>

\* The transaction that claims, in a free handler with a waiting job.
ClaimRow(h, d) ==
  /\ handler[h].phase = "idle"
  /\ queue[d] > 0
  /\ Claimable(d)
  /\ queue' = [queue EXCEPT ![d] = @ - 1]
  /\ row' = [row EXCEPT ![d] = Claimed(row[d], WorkerOf[h])]
  /\ UNCHANGED <<received, unanswered, expired, faults>>

\* The row is h's for the lease.
Claim(h, d) ==
  /\ ClaimRow(h, d)
  /\ handler' = [handler EXCEPT ![h] = [phase |-> "claimed", on |-> d,
                   attempt |-> row[d].attempts + 1, result |-> "none", timedOut |-> FALSE]]
  /\ UNCHANGED revoked

\* The integration is revoked between the access check and the join of the same
\* transaction: the row is claimed, but the handler is told there is none.
ClaimWhileRevoked(h, d) ==
  /\ ClaimRow(h, d)
  /\ revoked' = TRUE
  /\ UNCHANGED handler

\* Nothing to claim, or no access: the job ends (or fails and comes back).
NotClaimed(d) ==
  /\ queue[d] > 0
  /\ ~Claimable(d)
  /\ queue' = [queue EXCEPT ![d] = @ - 1]
  /\ UNCHANGED <<row, handler, revoked, received, unanswered, expired, faults>>

Answered(h, result) ==
  handler' = [handler EXCEPT ![h].phase = "posted", ![h].result = result]

\* A 2xx answer.
PostAccepted(h) ==
  /\ handler[h].phase = "claimed"
  /\ received' = [received EXCEPT ![handler[h].on] = @ + 1]
  /\ Answered(h, "success")
  /\ UNCHANGED <<row, queue, revoked, unanswered, expired, faults>>

\* The receiver has accepted, and the answer is lost or late.
PostUnanswered(h) ==
  /\ handler[h].phase = "claimed"
  /\ received' = [received EXCEPT ![handler[h].on] = @ + 1]
  /\ unanswered' = [unanswered EXCEPT ![handler[h].on] = @ + 1]
  /\ Answered(h, "retryable")
  /\ UNCHANGED <<row, queue, revoked, expired, faults>>

\* No DNS, no connection, 429 or 5xx: retryable.  Another status, no callback
\* URL, no secret, an unsafe URL, a bad or too large payload: permanent.
PostRefused(h) ==
  /\ handler[h].phase = "claimed"
  /\ \E result \in {"retryable", "permanent"} : Answered(h, result)
  /\ UNCHANGED <<row, queue, revoked, received, unanswered, expired, faults>>

Post(h) == PostAccepted(h) \/ PostUnanswered(h) \/ PostRefused(h)

\* Mutant: the mark tests the status only.
Mark_Unfenced(h) ==
  LET d == handler[h].on IN
  /\ handler[h].phase = "posted"
  /\ row' = IF row[d].status = "processing"
            THEN [row EXCEPT ![d] = Released(row[d], Verdict(row[d], handler[h].result))]
            ELSE row
  /\ handler' = [handler EXCEPT ![h] = Idle]
  /\ MayRequeue(d)
  /\ UNCHANGED <<revoked, received, unanswered, expired, faults>>

\* Mutant: a handler that has timed out reports a failure, whatever it was answered.
Mark_TimedOutFails(h) ==
  LET d == handler[h].on
      result == IF handler[h].timedOut THEN "retryable" ELSE handler[h].result
  IN
  /\ handler[h].phase = "posted"
  /\ row' = IF row[d].status = "processing" /\ row[d].lockedBy = WorkerOf[h]
            THEN [row EXCEPT ![d] = Released(row[d], Verdict(row[d], result))]
            ELSE row
  /\ handler' = [handler EXCEPT ![h] = Idle]
  /\ MayRequeue(d)
  /\ UNCHANGED <<revoked, received, unanswered, expired, faults>>

\* The transaction that marks: WHERE status = 'processing' AND "lockedBy" = worker.
\* Its boolean result is ignored.  A failure is thrown to pg-boss, unless the job
\* has already timed out.
Mark(h) ==
  LET d == handler[h].on IN
  /\ handler[h].phase = "posted"
  /\ row' = IF row[d].status = "processing" /\ row[d].lockedBy = WorkerOf[h]
            THEN [row EXCEPT ![d] = Released(row[d], Verdict(row[d], handler[h].result))]
            ELSE row
  /\ handler' = [handler EXCEPT ![h] = Idle]
  /\ IF handler[h].result = "success" \/ handler[h].timedOut
     THEN UNCHANGED queue ELSE MayRequeue(d)
  /\ UNCHANGED <<revoked, received, unanswered, expired, faults>>

\* The wrapper's timeout rejects the job, and the handler runs on.
Timeout(h) ==
  /\ handler[h].phase # "idle"
  /\ ~handler[h].timedOut
  /\ handler' = [handler EXCEPT ![h].timedOut = TRUE]
  /\ MayRequeue(handler[h].on)
  /\ UNCHANGED <<row, revoked, received, unanswered, expired, faults>>

-----------------------------------------------------------------------------
(* Time, faults and the administrator.                                     *)

\* A live handler still works on the claim that the row records.
Held(d) ==
  \E h \in Handlers : /\ handler[h].phase # "idle"
                      /\ handler[h].on = d
                      /\ handler[h].attempt = row[d].attempts

BackoffOver(d) ==
  /\ row[d].status = "pending"
  /\ ~row[d].due
  /\ row' = [row EXCEPT ![d].due = TRUE]
  /\ UNCHANGED <<queue, handler, revoked, received, unanswered, expired, faults>>

LeaseEnds(d) ==
  /\ row[d].status = "processing"
  /\ ~row[d].leaseOver
  /\ row' = [row EXCEPT ![d].leaseOver = TRUE]
  /\ expired' = [expired EXCEPT ![d] = @ + 1]
  /\ UNCHANGED <<queue, handler, revoked, received, unanswered>>

\* The lease of a handler that is gone runs out.
LeaseAbandoned(d) == ~Held(d) /\ LeaseEnds(d) /\ UNCHANGED faults

\* An attempt outlives its lease: a receiver that trickles its answer, a paused
\* process, a database that is away.
LeaseOutlived(d) ==
  /\ Held(d)
  /\ faults < MaxFaults
  /\ faults' = faults + 1
  /\ LeaseEnds(d)

\* The process dies, or the POST never settles (its answer stops half-way).
Lost(h) ==
  /\ handler[h].phase # "idle"
  /\ faults < MaxFaults
  /\ faults' = faults + 1
  /\ handler' = [handler EXCEPT ![h] = Idle]
  /\ MayRequeue(handler[h].on)
  /\ UNCHANGED <<row, revoked, received, unanswered, expired>>

\* revokeIntegration.
RevokeIntegration ==
  /\ ~revoked
  /\ revoked' = TRUE
  /\ UNCHANGED <<row, queue, handler, received, unanswered, expired, faults>>

Take(d) == NotClaimed(d) \/ \E h \in Handlers : Claim(h, d)

Next ==
  \/ \E d \in Deliveries : \/ Enqueue(d) \/ Take(d)
                           \/ BackoffOver(d) \/ LeaseAbandoned(d) \/ LeaseOutlived(d)
                           \/ \E h \in Handlers : ClaimWhileRevoked(h, d)
  \/ \E h \in Handlers : Post(h) \/ Mark(h) \/ Timeout(h) \/ Lost(h)
  \/ RevokeIntegration

\* The scheduler polls, pg-boss hands out every waiting job when a worker is free,
\* handlers run on, and time passes.  Faults, timeouts and revocation may never come.
Fairness ==
  /\ \A d \in Deliveries : /\ WF_vars(Enqueue(d))
                           /\ SF_vars(Take(d))
                           /\ WF_vars(BackoffOver(d))
                           /\ WF_vars(LeaseAbandoned(d))
  /\ \A h \in Handlers : WF_vars(Post(h)) /\ WF_vars(Mark(h))

Spec == Init /\ [][Next]_vars /\ Fairness

-----------------------------------------------------------------------------
(* Properties.                                                             *)

\* The row as its writer sees it.  The payload is written with the row and never again,
\* so the row stands for its message.
Seen(d) ==
  [state |-> CASE row[d].status = "delivered"   -> "delivered"
               [] row[d].status = "dead_letter" -> "failed"
               [] OTHER                         -> "open",
   message |-> d]

Table == INSTANCE DeliveryTable WITH
  Items <- Deliveries, Messages <- Deliveries,
  item <- [d \in Deliveries |-> Seen(d)],
  accepted <- {<<d, d>> : d \in {e \in Deliveries : received[e] > 0}}

\* Whichever of several overlapping handlers marks a row, it is settled once, late
\* marks and late jobs do not reopen it, and it is settled as delivered only if the
\* receiver has accepted a POST of it.
ImplementsTable == Table!Spec

\* A delivery is tried max_attempts times, and once more for every lease that ran
\* out: the claim itself never looks at max_attempts, the mark does.
AttemptsAccounted ==
  \A d \in Deliveries : row[d].attempts <= MaxAttempts + expired[d]

\* The receiver gets a second copy only for an answer that did not come back or
\* a lease that ran out: a delivery that is neither slow nor unlucky is POSTed once.
DuplicatesExplained ==
  \A d \in Deliveries : received[d] <= 1 + unanswered[d] + expired[d]

\* No other handler has h's worker id.
Alone(h) == \A g \in Handlers \ {h} : WorkerOf[g] # WorkerOf[h]

\* A handler that was superseded cannot mark the row of its successor, unless another
\* handler shares its worker id.
MarksOwnClaim ==
  [][\A h \in Handlers :
       (Alone(h) /\ handler[h].phase = "posted" /\ Mark(h) /\ row' # row)
         => handler[h].attempt = row[handler[h].on].attempts]_vars

\* Every delivery of an integration that stays active ends delivered or dead, in
\* spite of crashes, timeouts and lost answers.
DeliverySettles ==
  \A d \in Deliveries : <>(row[d].status \in Terminal \/ revoked)
=============================================================================

---------------------------- MODULE EmailDelivery ----------------------------
(***************************************************************************)
(* Outgoing e-mail: the rows of email_deliveries, created once per         *)
(* idempotency key, the scheduler that enqueues a job for every due row,   *)
(* and the job emails.send, which claims the row, hands it to the provider *)
(* and marks it.                                                           *)
(*                                                                         *)
(* The table and the leases are those of ApprovalDelivery.  What differs   *)
(* is the send: the job's timeout (30 s) aborts it, and the provider's own *)
(* timeout has the same length.  An aborted send is answered as permanent, *)
(* a timed-out one as retryable, and in both cases the provider may have   *)
(* accepted the message.  Marking needs an integration that is active.     *)
(***************************************************************************)
EXTENDS EmailRows

VARIABLES
  queue,     \* queue[k]: jobs pg-boss holds for it
  handler,   \* handler[h]: what execution h is doing
  revoked,   \* the integration is revoked (terminal)
  faults     \* faults so far

vars == <<call, email, queue, handler, revoked, mailbox, final, faults>>

Terminal == {"sent", "permanent_failure"}
\* What EmailSendResult can be about: "busy" is 429, 5xx or no connection, "refused"
\* another status or an answer that cannot be read.
Reasons  == {"ok", "busy", "timeout", "refused", "aborted"}

Email   == [content : Contents \cup {None},    \* None: there is no row
            status : {"pending", "processing"} \cup Terminal,
            attempts : Nat,                    \* attempt_count
            lockedBy : Workers \cup {None},
            due : BOOLEAN,                     \* nextAttemptAt is past
            leaseOver : BOOLEAN]               \* lockedAt is five minutes old
Handler == [phase : {"idle", "claimed", "answered"}, on : Keys \cup {None},
            attempt : Nat, reason : Reasons \cup {None}, timedOut : BOOLEAN]

NoEmail == [content |-> None, status |-> "pending", attempts |-> 0, lockedBy |-> None,
            due |-> TRUE, leaseOver |-> FALSE]
Idle == [phase |-> "idle", on |-> None, attempt |-> 0, reason |-> None, timedOut |-> FALSE]

TypeOK ==
  /\ call \in [Callers -> {"new", "absent", "created", "replayed", "conflict", "refused"}]
  /\ email \in [Keys -> Email]
  /\ queue \in [Keys -> 0..MaxQueued]
  /\ handler \in [Handlers -> Handler]
  /\ revoked \in BOOLEAN
  /\ mailbox \subseteq (Keys \X Contents)
  /\ final \in [Keys -> BOOLEAN]
  /\ faults \in 0..MaxFaults

Init ==
  /\ call = [c \in Callers |-> "new"]
  /\ email = [k \in Keys |-> NoEmail]
  /\ queue = [k \in Keys |-> 0]
  /\ handler = [h \in Handlers |-> Idle]
  /\ revoked = FALSE
  /\ mailbox = {}
  /\ final = [k \in Keys |-> FALSE]
  /\ faults = 0

-----------------------------------------------------------------------------
(* create_email_delivery_idempotent: a SELECT, then an INSERT under the    *)
(* unique key (organization, client, idempotency key).                     *)

Answer(c, answer) == call' = [call EXCEPT ![c] = answer]

CreateLookup(c) ==
  /\ call[c] = "new"
  /\ LET row == email[KeyOf[c]] IN
     Answer(c, IF revoked THEN "refused"
               ELSE IF ~Exists(KeyOf[c]) THEN "absent"
               ELSE IF row.content = ContentOf[c] THEN "replayed" ELSE "conflict")
  /\ UNCHANGED <<email, queue, handler, revoked, mailbox, final, faults>>

\* Mutant: an INSERT ... ON CONFLICT DO UPDATE.
CreateInsert_Upsert(c) ==
  /\ call[c] = "absent"
  /\ email' = [email EXCEPT ![KeyOf[c]].content = ContentOf[c]]
  /\ Answer(c, "created")
  /\ UNCHANGED <<queue, handler, revoked, mailbox, final, faults>>

\* The row that another call inserted meanwhile makes this one fail (23505),
\* with the same content too.
CreateInsert(c) ==
  /\ call[c] = "absent"
  /\ IF Exists(KeyOf[c])
     THEN Answer(c, "conflict") /\ UNCHANGED email
     ELSE /\ email' = [email EXCEPT ![KeyOf[c]].content = ContentOf[c]]
          /\ Answer(c, "created")
  /\ UNCHANGED <<queue, handler, revoked, mailbox, final, faults>>

-----------------------------------------------------------------------------
(* What the SQL functions test and write.                                  *)

\* Mutant: only pending rows are listed.
Due_PendingOnly(k) ==
  Exists(k) /\ ~revoked /\ email[k].status = "pending" /\ email[k].due

\* list_due_email_delivery_jobs, and once more claim_email_delivery, under the
\* lock of the row.
Due(k) ==
  /\ Exists(k)
  /\ ~revoked
  /\ \/ email[k].status = "pending" /\ email[k].due
     \/ email[k].status = "processing" /\ email[k].leaseOver

\* Mutant: the provider's own timeout is not retried either.
Retryable_NoTimeout(reason) == reason = "busy"

\* send of the Resend provider: its own timeout is retryable, an abort by the caller
\* is not.
Retryable(reason) == reason \in {"busy", "timeout"}

\* mark_email_delivery_sent and mark_email_delivery_failed.
Verdict(e, reason) ==
  IF reason = "ok" THEN "sent"
  ELSE IF ~Retryable(reason) \/ e.attempts >= MaxAttempts THEN "permanent_failure"
  ELSE "pending"

\* pg-boss runs a failed job again, until its own retry limit.
MayRequeue(k) ==
  \/ UNCHANGED queue
  \/ queue[k] < MaxQueued /\ queue' = [queue EXCEPT ![k] = @ + 1]

-----------------------------------------------------------------------------
(* The scheduler and the job handler.                                      *)

\* One row of a poll.  A send that pg-boss throttles (singletonSeconds) is no step.
Enqueue(k) ==
  /\ Due(k)
  /\ queue[k] < MaxQueued
  /\ queue' = [queue EXCEPT ![k] = @ + 1]
  /\ UNCHANGED <<call, email, handler, revoked, mailbox, final, faults>>

\* The transaction that claims, in a free handler with a waiting job.
Claim(h, k) ==
  /\ handler[h].phase = "idle"
  /\ queue[k] > 0
  /\ Due(k)
  /\ queue' = [queue EXCEPT ![k] = @ - 1]
  /\ email' = [email EXCEPT ![k] =
                 [content |-> email[k].content, status |-> "processing",
                  attempts |-> email[k].attempts + 1, lockedBy |-> WorkerOf[h],
                  due |-> FALSE, leaseOver |-> FALSE]]
  /\ handler' = [handler EXCEPT ![h] = [phase |-> "claimed", on |-> k,
                   attempt |-> email[k].attempts + 1, reason |-> None, timedOut |-> FALSE]]
  /\ UNCHANGED <<call, revoked, mailbox, final, faults>>

\* Nothing to claim, or no access: the job ends (or fails and comes back).
NotClaimed(k) ==
  /\ queue[k] > 0
  /\ ~Due(k)
  /\ queue' = [queue EXCEPT ![k] = @ - 1]
  /\ UNCHANGED <<call, email, handler, revoked, mailbox, final, faults>>

\* The claim took longer than the job's timeout: the handler throws before it calls
\* the provider, and the row stays in processing until its lease is over.
AbortBeforeSend(h) ==
  /\ handler[h].phase = "claimed"
  /\ handler[h].timedOut
  /\ faults < MaxFaults
  /\ faults' = faults + 1
  /\ handler' = [handler EXCEPT ![h] = Idle]
  /\ UNCHANGED <<call, email, queue, revoked, mailbox, final>>

Answered(h, reason) ==
  /\ handler' = [handler EXCEPT ![h].phase = "answered", ![h].reason = reason]
  /\ final' = [final EXCEPT ![handler[h].on] = @ \/ reason \in {"refused", "aborted"}]
  /\ UNCHANGED <<call, email, queue, revoked, faults>>

Message(h) == <<handler[h].on, email[handler[h].on].content>>

\* The provider accepts the message, or knows its key already, and its answer is
\* read, or lost, or cannot be parsed, or is aborted.
SendAccepted(h) ==
  /\ handler[h].phase = "claimed"
  /\ mailbox' = mailbox \cup {Message(h)}
  /\ \E reason \in Reasons :
       /\ (reason = "aborted") = handler[h].timedOut
       /\ Answered(h, reason)

\* The provider does not.
SendRefused(h) ==
  /\ handler[h].phase = "claimed"
  /\ \E reason \in Reasons \ {"ok"} :
       /\ (reason = "aborted") = handler[h].timedOut
       /\ Answered(h, reason)
  /\ UNCHANGED mailbox

Send(h) == SendAccepted(h) \/ SendRefused(h)

\* The transaction that marks, fenced by the worker id.  Without an active
\* integration it raises, and the row stays as it is.
Mark(h) ==
  LET k == handler[h].on IN
  /\ handler[h].phase = "answered"
  /\ email' = IF ~revoked /\ email[k].status = "processing"
                          /\ email[k].lockedBy = WorkerOf[h]
              THEN [email EXCEPT ![k] =
                      [content |-> email[k].content,
                       status |-> Verdict(email[k], handler[h].reason),
                       attempts |-> email[k].attempts, lockedBy |-> None,
                       due |-> FALSE, leaseOver |-> FALSE]]
              ELSE email
  /\ handler' = [handler EXCEPT ![h] = Idle]
  /\ IF handler[h].timedOut \/ (handler[h].reason = "ok" /\ ~revoked)
     THEN UNCHANGED queue ELSE MayRequeue(k)
  /\ UNCHANGED <<call, revoked, mailbox, final, faults>>

\* The wrapper's timeout: the signal is aborted, and pg-boss is told of a failure.
Timeout(h) ==
  /\ handler[h].phase # "idle"
  /\ ~handler[h].timedOut
  /\ handler' = [handler EXCEPT ![h].timedOut = TRUE]
  /\ MayRequeue(handler[h].on)
  /\ UNCHANGED <<call, email, revoked, mailbox, final, faults>>

-----------------------------------------------------------------------------
(* Time, faults and the administrator.                                     *)

\* A live handler still works on the claim that the row records.
Held(k) ==
  \E h \in Handlers : /\ handler[h].phase # "idle"
                      /\ handler[h].on = k
                      /\ handler[h].attempt = email[k].attempts

BackoffOver(k) ==
  /\ Exists(k)
  /\ email[k].status = "pending"
  /\ ~email[k].due
  /\ email' = [email EXCEPT ![k].due = TRUE]
  /\ UNCHANGED <<call, queue, handler, revoked, mailbox, final, faults>>

LeaseEnds(k) ==
  /\ email[k].status = "processing"
  /\ ~email[k].leaseOver
  /\ email' = [email EXCEPT ![k].leaseOver = TRUE]
  /\ UNCHANGED <<call, queue, handler, revoked, mailbox, final>>

LeaseAbandoned(k) == ~Held(k) /\ LeaseEnds(k) /\ UNCHANGED faults

\* A paused process, a database that is away.
LeaseOutlived(k) ==
  /\ Held(k)
  /\ faults < MaxFaults
  /\ faults' = faults + 1
  /\ LeaseEnds(k)

\* The process dies.
Lost(h) ==
  /\ handler[h].phase # "idle"
  /\ faults < MaxFaults
  /\ faults' = faults + 1
  /\ handler' = [handler EXCEPT ![h] = Idle]
  /\ MayRequeue(handler[h].on)
  /\ UNCHANGED <<call, email, revoked, mailbox, final>>

RevokeIntegration ==
  /\ ~revoked
  /\ revoked' = TRUE
  /\ UNCHANGED <<call, email, queue, handler, mailbox, final, faults>>

\* Mutant: rows are pruned by their age alone.
Prune_AnyStatus(k) ==
  /\ Exists(k)
  /\ queue[k] = 0
  /\ \A h \in Handlers : handler[h].on # k
  /\ \A c \in Callers : KeyOf[c] = k => call[c] # "absent"
  /\ email' = [email EXCEPT ![k] = NoEmail]
  /\ mailbox' = {message \in mailbox : message[1] # k}
  /\ final' = [final EXCEPT ![k] = FALSE]
  /\ call' = [c \in Callers |-> IF KeyOf[c] = k THEN "new" ELSE call[c]]
  /\ UNCHANGED <<queue, handler, revoked, faults>>

\* retention.prune-non-audit-data, enabled: a closed row that is 90 days old is
\* deleted.  Its jobs, its handlers and the provider's memory of its key are gone by
\* then, and a call that uses the key again is a new one.
Prune(k) ==
  /\ Exists(k)
  /\ email[k].status \in Terminal
  /\ queue[k] = 0
  /\ \A h \in Handlers : handler[h].on # k
  /\ \A c \in Callers : KeyOf[c] = k => call[c] # "absent"
  /\ email' = [email EXCEPT ![k] = NoEmail]
  /\ mailbox' = {message \in mailbox : message[1] # k}
  /\ final' = [final EXCEPT ![k] = FALSE]
  /\ call' = [c \in Callers |-> IF KeyOf[c] = k THEN "new" ELSE call[c]]
  /\ UNCHANGED <<queue, handler, revoked, faults>>

Take(k) == NotClaimed(k) \/ \E h \in Handlers : Claim(h, k)

Next ==
  \/ \E c \in Callers : CreateLookup(c) \/ CreateInsert(c)
  \/ \E k \in Keys : \/ Enqueue(k) \/ Take(k) \/ BackoffOver(k)
                     \/ LeaseAbandoned(k) \/ LeaseOutlived(k) \/ Prune(k)
  \/ \E h \in Handlers : Send(h) \/ AbortBeforeSend(h) \/ Mark(h) \/ Timeout(h) \/ Lost(h)
  \/ RevokeIntegration

\* The scheduler polls, pg-boss hands out waiting jobs, sends end (they have two
\* timeouts), and time passes.  Nobody has to call, to revoke or to fail.
Fairness ==
  /\ \A k \in Keys : /\ WF_vars(Enqueue(k))
                     /\ SF_vars(Take(k))
                     /\ WF_vars(BackoffOver(k))
                     /\ WF_vars(LeaseAbandoned(k))
  /\ \A h \in Handlers : WF_vars(Send(h)) /\ WF_vars(Mark(h))

Spec == Init /\ [][Next]_vars /\ Fairness

-----------------------------------------------------------------------------
(* Progress.  The safety properties are in EmailRows.                      *)

\* Every e-mail of an integration that stays active ends sent or failed, also when
\* the job's timeout leaves its row in processing.
EmailSettles ==
  \A k \in Keys : Exists(k) ~> (email[k].status \in Terminal \/ revoked)
==============================================================================

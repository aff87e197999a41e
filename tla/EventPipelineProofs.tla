------------------------ MODULE EventPipelineProofs ------------------------
(***************************************************************************)
(* Theorems about EventPipeline, for any sets of events, messages,         *)
(* dispatchers and executions, and any assignment of worker ids.           *)
(*                                                                         *)
(* The argument: rows, jobs and executions always lead back to an event    *)
(* that was journalled (Rows, Replays, Sends, JobRows, Executing); the     *)
(* advisory lock makes the execution that is about to project an event the *)
(* only one, and the event open (Exclusive, LockedIsOpen); so every step   *)
(* is a step of EventJournal, and what is said about events and runs       *)
(* follows from that alone.                                                *)
(***************************************************************************)
EXTENDS EventPipeline, TLAPS

USE EventsAssumption, WorkersAssumption, LimitsAssumption

HasJob(m) == \E d \in Days : job[<<m, d>>].state # "none"

\* A row of the outbox names an event that was journalled.
Rows ==
  \A m \in Messages :
    outbox[m].status # "none" =>
      /\ outbox[m].event \in Events
      /\ status[outbox[m].event] # "none"
      /\ Kind[outbox[m].event] # "unknown"

\* So does a replay that is under way, and events of unknown type never fail.
Replays ==
  /\ \A e \in replaying : status[e] # "none" /\ Kind[e] # "unknown"
  /\ \A e \in Events : Kind[e] = "unknown" => status[e] \in {"none", "unhandled"}

\* A dispatcher works on rows that exist, and a row that it has sent, or that is
\* marked delivered, has a job.
Sends ==
  /\ \A w \in Dispatchers, m \in Messages : send[w][m] # "none" => outbox[m].status # "none"
  /\ \A w \in Dispatchers, m \in Messages : send[w][m] = "sent" => HasJob(m)
  /\ \A m \in Messages : outbox[m].status = "delivered" => HasJob(m)

\* A job comes from a row, an execution from a job.
JobRows == \A j \in Jobs : job[j].state # "none" => outbox[j[1]].status # "none"

Executing ==
  \A h \in Executions :
    exec[h].phase # "idle" => exec[h].job \in Jobs /\ job[exec[h].job].state # "none"

\* What the advisory lock is for.
Exclusive ==
  \A g, h \in Executions :
    (/\ exec[g].phase = "projecting" /\ exec[h].phase = "projecting"
     /\ EventOf(exec[g].job) = EventOf(exec[h].job)) => g = h

LockedIsOpen ==
  \A h \in Executions : exec[h].phase = "projecting" => status[EventOf(exec[h].job)] \in Open

\* A received event has a row.
HasRow ==
  \A e \in Events : status[e] = "received" =>
    \E m \in Messages : outbox[m].status # "none" /\ outbox[m].event = e

Links == Rows /\ Replays /\ Sends /\ JobRows /\ Executing
IInv  == /\ TypeOK /\ Links /\ Exclusive /\ LockedIsOpen /\ HasRow
         /\ AppliedOnce /\ RunExplained /\ CompletedIsSettled

-----------------------------------------------------------------------------

\* Nothing exists at the start.
LEMMA InitiallyInvariant == Init => IInv
<1> SUFFICES ASSUME Init PROVE IInv
  OBVIOUS
<1>1. TypeOK
  <2>1. Idle \in Execution /\ NoRow \in Row
    BY DEF Idle, Execution, NoRow, Row
  <2>2. [state |-> "none", retries |-> 0] \in Job
    BY DEF Job
  <2>3. outbox \in [Messages -> Row] /\ exec \in [Executions -> Execution]
    BY <2>1 DEF Init
  <2>4. job \in [Jobs -> Job]
    BY <2>2 DEF Init
  <2>5. send \in [Dispatchers -> [Messages -> {"none", "claimed", "sent", "error"}]]
    BY DEF Init
  <2>6. day \in Days /\ faults \in 0..MaxFaults /\ revoked \in BOOLEAN /\ replaying \subseteq Events
    <3>1. 1 \in Days /\ 0 \in 0..MaxFaults /\ {} \subseteq Events
      BY DEF Days
    <3> QED BY <3>1 DEF Init
  <2>7. /\ status \in [Events -> {"none"} \cup Open \cup Settled]
        /\ applied \in [Events -> Nat]
        /\ run \in [Runs -> {"none"} \cup RunKinds]
    BY DEF Init
  <2> QED BY <2>3, <2>4, <2>5, <2>6, <2>7 DEF TypeOK
<1>2. Rows /\ JobRows /\ Executing /\ Exclusive /\ LockedIsOpen /\ CompletedIsSettled
  BY DEF Init, NoRow, Idle, Rows, JobRows, Executing, Exclusive, LockedIsOpen, CompletedIsSettled
<1>3. Replays /\ HasRow /\ AppliedOnce
  BY DEF Init, Replays, HasRow, AppliedOnce
<1>4. Sends
  BY DEF Init, NoRow, Sends
<1>5. RunExplained
  BY DEF Init, RunExplained, ProjectedAs, RunKinds
<1> QED BY <1>1, <1>2, <1>3, <1>4, <1>5 DEF IInv, Links

-----------------------------------------------------------------------------
(* What a step does to rows and jobs, with their types.                    *)

\* Records of the outbox stay records of the outbox.
LEMMA RowTypes ==
  ASSUME NEW r \in Row
  PROVE  /\ \A i \in Ids : Claimed(r, i) \in Row
         /\ \A s \in {"pending", "delivered", "dead_letter"} : Released(r, s) \in Row
         /\ AfterError(r) \in {"pending", "dead_letter"}
<1>1. ASSUME NEW i \in Ids PROVE Claimed(r, i) \in Row
  BY DEF Row, Claimed
<1>2. ASSUME NEW s \in {"pending", "delivered", "dead_letter"} PROVE Released(r, s) \in Row
  BY DEF Row, Released
<1>3. AfterError(r) \in {"pending", "dead_letter"}
  BY DEF AfterError
<1> QED BY <1>1, <1>2, <1>3

\* A row is created for an event by ingest or replay, keeps its event, and is marked
\* delivered by a dispatcher that has sent it.
LEMMA OutboxStep ==
  ASSUME TypeOK, Sends, [Next]_vars
  PROVE  /\ outbox' \in [Messages -> Row]
         /\ \A m \in Messages : outbox[m].status # "none" =>
              outbox'[m].status # "none" /\ outbox'[m].event = outbox[m].event
         /\ \A m \in Messages : outbox[m].status = "none" =>
              \/ outbox'[m] = outbox[m]
              \/ \E e \in Events : /\ outbox'[m].event = e
                                   /\ outbox'[m].status = "pending"
                                   /\ (Ingest(e) /\ Kind[e] # "unknown") \/ ReplayInsert(e)
         /\ \A m \in Messages : outbox'[m].status = "delivered" =>
              outbox[m].status = "delivered" \/ \E w \in Dispatchers : send[w][m] = "sent"
<1> DEFINE Goal ==
      /\ outbox' \in [Messages -> Row]
      /\ \A m \in Messages : outbox[m].status # "none" =>
           outbox'[m].status # "none" /\ outbox'[m].event = outbox[m].event
      /\ \A m \in Messages : outbox[m].status = "none" =>
           \/ outbox'[m] = outbox[m]
           \/ \E e \in Events : /\ outbox'[m].event = e
                                /\ outbox'[m].status = "pending"
                                /\ (Ingest(e) /\ Kind[e] # "unknown") \/ ReplayInsert(e)
      /\ \A m \in Messages : outbox'[m].status = "delivered" =>
           outbox[m].status = "delivered" \/ \E w \in Dispatchers : send[w][m] = "sent"
<1>0. outbox \in [Messages -> Row]
  BY DEF TypeOK
<1>1. ASSUME UNCHANGED outbox PROVE Goal
  BY <1>0, <1>1
<1>2. ASSUME NEW e \in Events, NEW m \in Messages, Enqueued(m, e),
             (Ingest(e) /\ Kind[e] # "unknown") \/ ReplayInsert(e)
      PROVE  Goal
  <2>1. [NoRow EXCEPT !.status = "pending", !.event = e, !.due = TRUE] \in Row
    BY DEF NoRow, Row
  <2>2. outbox' \in [Messages -> Row]
    BY <1>0, <1>2, <2>1 DEF Enqueued
  <2>3. outbox[m].status = "none" /\ outbox'[m].event = e /\ outbox'[m].status = "pending"
    BY <1>0, <1>2 DEF Enqueued, NoRow
  <2>4. \A n \in Messages : n # m => outbox'[n] = outbox[n]
    BY <1>0, <1>2 DEF Enqueued
  <2> QED BY <1>2, <2>2, <2>3, <2>4
<1>3. ASSUME NEW w \in Dispatchers, Claim(w) PROVE Goal
  <2>1. PICK S \in SUBSET {m \in Messages : Claimable(m)} :
          outbox' = [m \in Messages |-> IF m \in S THEN Claimed(outbox[m], IdOf[w]) ELSE outbox[m]]
    BY <1>3 DEF Claim
  <2>2. IdOf[w] \in Ids
    BY DEF Ids
  <2>3. outbox' \in [Messages -> Row]
    BY <1>0, <2>1, <2>2, RowTypes
  <2>4. ASSUME NEW m \in Messages
        PROVE  /\ outbox'[m].event = outbox[m].event
               /\ outbox[m].status = "none" => outbox'[m] = outbox[m]
               /\ outbox[m].status # "none" => outbox'[m].status # "none"
               /\ outbox'[m].status = "delivered" => outbox[m].status = "delivered"
    BY <1>0, <2>1 DEF Claimed, Claimable, Row
  <2> QED BY <2>3, <2>4
<1>4. ASSUME NEW w \in Dispatchers, NEW m \in Messages, MarkDelivered(w, m) \/ MarkFailed(w, m)
      PROVE  Goal
  <2>1. outbox[m].status # "none"
    BY <1>4 DEF MarkDelivered, MarkFailed, Sends
  <2>2. PICK s \in {"pending", "delivered", "dead_letter"} :
          /\ outbox' = outbox \/ outbox' = [outbox EXCEPT ![m] = Released(outbox[m], s)]
          /\ s = "delivered" => send[w][m] = "sent"
    <3>1. CASE MarkDelivered(w, m)
      BY <3>1 DEF MarkDelivered
    <3>2. CASE MarkFailed(w, m)
      <4>1. AfterError(outbox[m]) \in {"pending", "dead_letter"}
        BY <1>0, RowTypes
      <4> QED BY <3>2, <4>1 DEF MarkFailed
    <3> QED BY <1>4, <3>1, <3>2
  <2>3. Released(outbox[m], s) \in Row
    BY <1>0, RowTypes
  <2>4. Released(outbox[m], s).status = s /\ Released(outbox[m], s).event = outbox[m].event
    BY <1>0 DEF Released, Row
  <2> QED BY <1>0, <2>1, <2>2, <2>3, <2>4
<1>5. ASSUME NEW m \in Messages, BackoffOver(m) \/ LeaseEnds(m) PROVE Goal
  <2>1. PICK r \in Row : /\ outbox' = [outbox EXCEPT ![m] = r]
                         /\ r.status = outbox[m].status /\ r.event = outbox[m].event
    <3>1. CASE BackoffOver(m)
      <4>1. [outbox[m] EXCEPT !.due = TRUE] \in Row
        BY <1>0 DEF Row
      <4>2. outbox' = [outbox EXCEPT ![m] = [outbox[m] EXCEPT !.due = TRUE]]
        BY <3>1 DEF BackoffOver
      <4> QED BY <1>0, <4>1, <4>2 DEF Row
    <3>2. CASE LeaseEnds(m)
      <4>1. [outbox[m] EXCEPT !.leaseOver = TRUE] \in Row
        BY <1>0 DEF Row
      <4>2. outbox' = [outbox EXCEPT ![m] = [outbox[m] EXCEPT !.leaseOver = TRUE]]
        BY <3>2 DEF LeaseEnds
      <4> QED BY <1>0, <4>1, <4>2 DEF Row
    <3> QED BY <1>5, <3>1, <3>2
  <2>2. outbox[m].status # "none"
    BY <1>5 DEF BackoffOver, LeaseEnds
  <2> QED BY <1>0, <2>1, <2>2
<1> HIDE DEF Goal
<1>6. ASSUME NEW e \in Events, Ingest(e), outbox' # outbox PROVE Goal
  <2>1. PICK m \in Messages : Enqueued(m, e) /\ Kind[e] # "unknown"
    BY <1>6 DEF Ingest
  <2> QED BY <1>2, <1>6, <2>1
<1>7. ASSUME NEW e \in Events, ReplayInsert(e) PROVE Goal
  <2>1. PICK m \in Messages : Enqueued(m, e)
    BY <1>7 DEF ReplayInsert
  <2> QED BY <1>2, <1>7, <2>1
<1>8. ASSUME NEW h \in Executions, \/ Lock(h) \/ Execute(h) \/ ProjectUnanswered(h)
                                  \/ Timeout(h) \/ ExecutionLost(h)
      PROVE  UNCHANGED outbox
  BY <1>8 DEF Lock, Execute, Project, ProjectUnanswered, ProjectFails, RecordFailure, Timeout,
              ExecutionLost
<1>9. ASSUME NEW w \in Dispatchers, NEW m \in Messages, \/ SendAccepted(w, m) \/ SendThrows(w, m)
                                                       \/ MarkDeliveredThrows(w, m)
      PROVE  UNCHANGED outbox
  BY <1>9 DEF SendAccepted, SendThrows, MarkDeliveredThrows
<1>10. ASSUME NEW j \in Jobs, Denied(j) \/ \E h \in Executions : Start(h, j)
       PROVE  UNCHANGED outbox
  BY <1>10 DEF Denied, Start
<1>11. ASSUME \/ UNCHANGED vars \/ DayTurns \/ RevokeIntegration
              \/ \E e \in Events : ReplayRead(e)
              \/ \E w \in Dispatchers : DispatcherLost(w)
       PROVE  Goal
  BY <1>1, <1>11 DEF vars, DayTurns, RevokeIntegration, ReplayRead, DispatcherLost
<1>12. Goal
  <2>1. ASSUME NEW e \in Events, Ingest(e) \/ ReplayRead(e) \/ ReplayInsert(e) PROVE Goal
    BY <1>1, <1>6, <1>7, <1>11, <2>1
  <2>2. ASSUME NEW w \in Dispatchers, NEW m \in Messages, Deliver(w, m) \/ MarkDeliveredThrows(w, m)
        PROVE  Goal
    BY <1>1, <1>4, <1>9, <2>2 DEF Deliver
  <2>3. ASSUME NEW m \in Messages, BackoffOver(m) \/ LeaseAbandoned(m) \/ LeaseOutlived(m)
        PROVE  Goal
    BY <1>5, <2>3 DEF LeaseAbandoned, LeaseOutlived
  <2>4. ASSUME NEW h \in Executions, \/ Lock(h) \/ Execute(h) \/ ProjectUnanswered(h)
                                    \/ Timeout(h) \/ ExecutionLost(h)
        PROVE  Goal
    BY <1>1, <1>8, <2>4
  <2>5. ASSUME NEW j \in Jobs, Denied(j) \/ \E h \in Executions : Start(h, j) PROVE Goal
    BY <1>1, <1>10, <2>5
  <2> QED BY <1>3, <1>11, <2>1, <2>2, <2>3, <2>4, <2>5 DEF Next
<1> QED BY <1>12 DEF Goal

\* The event of a job is one that was journalled.
LEMMA JobEvent ==
  ASSUME Rows, JobRows, NEW j \in Jobs, job[j].state # "none"
  PROVE  /\ j[1] \in Messages /\ outbox[j[1]].status # "none"
         /\ EventOf(j) \in Events /\ status[EventOf(j)] # "none" /\ Kind[EventOf(j)] # "unknown"
<1>1. j[1] \in Messages
  BY DEF Jobs
<1> QED BY <1>1 DEF Rows, JobRows, EventOf

LEMMA ExecutionEvent ==
  ASSUME Links, NEW h \in Executions, exec[h].phase # "idle"
  PROVE  /\ exec[h].job \in Jobs /\ job[exec[h].job].state # "none"
         /\ EventOf(exec[h].job) \in Events
         /\ status[EventOf(exec[h].job)] # "none"
         /\ Kind[EventOf(exec[h].job)] # "unknown"
<1>1. exec[h].job \in Jobs /\ job[exec[h].job].state # "none"
  BY DEF Links, Executing
<1> QED BY <1>1, JobEvent DEF Links

\* Jobs come from rows that a dispatcher works on, are never forgotten, and complete
\* when their event is settled.
LEMMA JobStep ==
  ASSUME TypeOK, Links, [Next]_vars
  PROVE  /\ job' \in [Jobs -> Job]
         /\ \A j \in Jobs : job[j].state # "none" => job'[j].state # "none"
         /\ \A j \in Jobs : job[j].state = "none" /\ job'[j].state # "none" =>
              \E w \in Dispatchers : send[w][j[1]] # "none"
         /\ \A j \in Jobs : job'[j].state = "completed" =>
              job[j].state = "completed" \/ status'[EventOf(j)] \in Settled
<1> DEFINE Goal ==
      /\ job' \in [Jobs -> Job]
      /\ \A j \in Jobs : job[j].state # "none" => job'[j].state # "none"
      /\ \A j \in Jobs : job[j].state = "none" /\ job'[j].state # "none" =>
           \E w \in Dispatchers : send[w][j[1]] # "none"
      /\ \A j \in Jobs : job'[j].state = "completed" =>
           job[j].state = "completed" \/ status'[EventOf(j)] \in Settled
<1>0. job \in [Jobs -> Job]
  BY DEF TypeOK
<1>1. ASSUME UNCHANGED job PROVE Goal
  BY <1>0, <1>1
<1>2. ASSUME NEW j \in Jobs, NEW r \in Job, job' = [job EXCEPT ![j] = r], r.state # "none",
             \/ job[j].state # "none"
             \/ \E w \in Dispatchers : send[w][j[1]] # "none",
             r.state = "completed" => status'[EventOf(j)] \in Settled
      PROVE  Goal
  <2>1. job'[j] = r /\ \A i \in Jobs : i # j => job'[i] = job[i]
    BY <1>0, <1>2
  <2>2. job' \in [Jobs -> Job]
    BY <1>0, <1>2
  <2> QED BY <1>2, <2>1, <2>2
<1> HIDE DEF Goal
<1>3. ASSUME NEW j \in Jobs, Retried(j), job[j].state # "none" PROVE Goal
  <2> DEFINE r == IF job[j].retries < RetryLimit
                  THEN [state |-> "waiting", retries |-> job[j].retries + 1]
                  ELSE [job[j] EXCEPT !.state = "exhausted"]
  <2>1. r \in Job /\ r.state \in {"waiting", "exhausted"}
    BY <1>0 DEF Job
  <2>2. job' = [job EXCEPT ![j] = r]
    BY <1>3 DEF Retried
  <2> HIDE DEF r
  <2> QED BY <1>2, <1>3, <2>1, <2>2
<1>4. ASSUME NEW w \in Dispatchers, NEW m \in Messages, send[w][m] = "claimed", Sent(m)
      PROVE  Goal
  <2> DEFINE j == <<m, day>>
  <2>1. j \in Jobs /\ j[1] = m
    BY DEF Jobs, TypeOK
  <2>2. CASE job[j].state = "none"
    <3>1. [job[j] EXCEPT !.state = "waiting"] \in Job
      BY <1>0, <2>1 DEF Job
    <3>2. job' = [job EXCEPT ![j] = [job[j] EXCEPT !.state = "waiting"]]
      BY <1>4, <2>2 DEF Sent
    <3>3. [job[j] EXCEPT !.state = "waiting"].state = "waiting"
      BY <1>0, <2>1 DEF Job
    <3> HIDE DEF j
    <3> QED BY <1>2, <1>4, <2>1, <3>1, <3>2, <3>3
  <2>3. CASE job[j].state # "none"
    BY <1>1, <1>4, <2>3 DEF Sent
  <2> QED BY <2>2, <2>3
<1>5. ASSUME NEW h \in Executions, exec[h].phase # "idle" PROVE exec[h].job \in Jobs /\ job[exec[h].job].state # "none"
  BY <1>5 DEF Links, Executing
<1>6. ASSUME NEW h \in Executions, Completed(h), exec[h].phase # "idle",
             status'[EventOf(exec[h].job)] \in Settled
      PROVE  Goal
  <2> DEFINE j == exec[h].job
  <2>1. j \in Jobs
    BY <1>5, <1>6
  <2>2. CASE exec[h].timedOut
    BY <1>1, <1>6, <2>2 DEF Completed, Reports
  <2>3. CASE ~exec[h].timedOut
    <3>1. [job[j] EXCEPT !.state = "completed"] \in Job
      BY <1>0, <2>1 DEF Job
    <3>2. job' = [job EXCEPT ![j] = [job[j] EXCEPT !.state = "completed"]]
      BY <1>6, <2>3 DEF Completed, Reports
    <3>3. [job[j] EXCEPT !.state = "completed"].state # "none"
      BY <1>0, <2>1 DEF Job
    <3>4. job[j].state # "none"
      BY <1>5, <1>6
    <3> QED BY <1>2, <1>6, <2>1, <3>1, <3>2, <3>3, <3>4
  <2> QED BY <2>2, <2>3
<1>7. ASSUME NEW h \in Executions, Reports(h, Retried(exec[h].job)), exec[h].phase # "idle" PROVE Goal
  BY <1>1, <1>3, <1>5, <1>7 DEF Reports
<1>8. ASSUME NEW h \in Executions, Lock(h) PROVE Goal
  <2>1. exec[h].phase # "idle" /\ status' = status
    BY <1>8 DEF Lock, eventVars
  <2> QED BY <1>1, <1>6, <1>8, <2>1 DEF Lock, Entering
<1>9. ASSUME NEW h \in Executions, Project(h) PROVE Goal
  <2>1. EventOf(exec[h].job) \in Events
    BY <1>9, ExecutionEvent DEF Project
  <2>2. status'[EventOf(exec[h].job)] \in Settled
    BY <1>9, <2>1 DEF Project, Projected, Target, Settled, TypeOK
  <2> QED BY <1>6, <1>9, <2>2 DEF Project
<1>10. ASSUME NEW h \in Executions, ProjectFails(h) \/ ProjectUnanswered(h) PROVE Goal
  BY <1>1, <1>10 DEF ProjectFails, ProjectUnanswered, Entering
<1>11. ASSUME NEW h \in Executions, RecordFailure(h) \/ ExecutionLost(h) \/ Timeout(h) PROVE Goal
  BY <1>3, <1>5, <1>7, <1>11 DEF RecordFailure, ExecutionLost, Timeout
<1>12. ASSUME NEW j \in Jobs, NEW h \in Executions, Start(h, j) PROVE Goal
  <2>1. [job[j] EXCEPT !.state = "active"] \in Job /\ [job[j] EXCEPT !.state = "active"].state = "active"
    BY <1>0 DEF Job
  <2>2. job' = [job EXCEPT ![j] = [job[j] EXCEPT !.state = "active"]] /\ job[j].state # "none"
    BY <1>12 DEF Start
  <2> QED BY <1>2, <2>1, <2>2
<1>13. ASSUME NEW j \in Jobs, Denied(j) PROVE Goal
  BY <1>3, <1>13 DEF Denied
<1>14. ASSUME NEW w \in Dispatchers, NEW m \in Messages, Deliver(w, m) \/ MarkDeliveredThrows(w, m)
       PROVE  Goal
  <2>1. CASE SendAccepted(w, m) \/ SendThrows(w, m)
    BY <1>1, <1>4, <2>1 DEF SendAccepted, SendThrows
  <2>2. CASE MarkDelivered(w, m) \/ MarkFailed(w, m) \/ MarkDeliveredThrows(w, m)
    BY <1>1, <2>2 DEF MarkDelivered, MarkFailed, MarkDeliveredThrows
  <2> QED BY <1>14, <2>1, <2>2 DEF Deliver
<1>15. ASSUME NEW e \in Events, Ingest(e) \/ ReplayRead(e) \/ ReplayInsert(e) PROVE Goal
  BY <1>1, <1>15 DEF Ingest, ReplayRead, ReplayInsert
<1>16. ASSUME NEW w \in Dispatchers, Claim(w) \/ DispatcherLost(w) PROVE Goal
  BY <1>1, <1>16 DEF Claim, DispatcherLost
<1>17. ASSUME NEW m \in Messages, BackoffOver(m) \/ LeaseAbandoned(m) \/ LeaseOutlived(m) PROVE Goal
  BY <1>1, <1>17 DEF BackoffOver, LeaseAbandoned, LeaseOutlived, LeaseEnds
<1>18. ASSUME DayTurns \/ RevokeIntegration \/ UNCHANGED vars PROVE Goal
  BY <1>1, <1>18 DEF DayTurns, RevokeIntegration, vars
<1>19. Goal
  BY <1>8, <1>9, <1>10, <1>11, <1>12, <1>13, <1>14, <1>15, <1>16, <1>17, <1>18 DEF Next, Execute
<1> QED BY <1>19 DEF Goal

-----------------------------------------------------------------------------
(* Every step is a step of the journal.                                    *)

JournalVars == <<status, applied, run>>

\* Committed effects: the execution holds the lock, so the event is still open.
LEMMA ProjectedIsJournalled ==
  ASSUME IInv, NEW h \in Executions, exec[h].phase = "projecting",
         Projected(EventOf(exec[h].job))
  PROVE  \E e \in Events : Journal!Dismiss(e) \/ Journal!Apply(e)
<1> DEFINE e == EventOf(exec[h].job)
<1>1. e \in Events /\ Kind[e] # "unknown"
  BY ExecutionEvent DEF IInv
<1>2. status[e] \in Open
  BY DEF IInv, LockedIsOpen
<1> HIDE DEF e
<1>3. Projected(e)
  BY DEF e
<1>4. CASE Kind[e] = "unprojected"
  <2>1. Journal!Dismiss(e)
    BY <1>1, <1>2, <1>3, <1>4 DEF Projected, Target, Journal!Dismiss, Journal!Move, Journal!Open, Open
  <2> QED BY <1>1, <2>1
<1>5. CASE Kind[e] # "unprojected"
  <2>1. Journal!Apply(e)
    BY <1>1, <1>2, <1>3, <1>5
    DEF Projected, Target, RunAfter, Journal!Apply, Journal!Move, Journal!Open, Open
  <2> QED BY <1>1, <2>1
<1> QED BY <1>4, <1>5

\* The four kinds of steps that write business_events or workflow_runs.
LEMMA StatusCause ==
  ASSUME [Next]_vars
  PROVE  \/ UNCHANGED eventVars
         \/ \E e \in Events : Ingest(e)
         \/ \E h \in Executions : Project(h) \/ ProjectUnanswered(h)
         \/ \E h \in Executions : RecordFailure(h)
<1> DEFINE Goal == \/ UNCHANGED eventVars
                   \/ \E e \in Events : Ingest(e)
                   \/ \E h \in Executions : Project(h) \/ ProjectUnanswered(h)
                   \/ \E h \in Executions : RecordFailure(h)
<1>1. ASSUME UNCHANGED eventVars PROVE Goal
  BY <1>1
<1>2. ASSUME NEW h \in Executions, \/ Lock(h) \/ ProjectFails(h) \/ Timeout(h)
                                  \/ ExecutionLost(h) \/ \E j \in Jobs : Start(h, j)
      PROVE  Goal
  BY <1>1, <1>2 DEF Lock, ProjectFails, Timeout, ExecutionLost, Start
<1>3. ASSUME NEW e \in Events, ReplayRead(e) \/ ReplayInsert(e) PROVE Goal
  BY <1>1, <1>3 DEF ReplayRead, ReplayInsert
<1>4. ASSUME NEW w \in Dispatchers, NEW m \in Messages, Deliver(w, m) \/ MarkDeliveredThrows(w, m)
      PROVE  Goal
  BY <1>1, <1>4 DEF Deliver, SendAccepted, SendThrows, MarkDelivered, MarkFailed, MarkDeliveredThrows
<1>5. ASSUME NEW w \in Dispatchers, Claim(w) \/ DispatcherLost(w) PROVE Goal
  BY <1>1, <1>5 DEF Claim, DispatcherLost
<1>6. ASSUME NEW m \in Messages, BackoffOver(m) \/ LeaseAbandoned(m) \/ LeaseOutlived(m) PROVE Goal
  BY <1>1, <1>6 DEF BackoffOver, LeaseAbandoned, LeaseOutlived, LeaseEnds
<1>7. ASSUME \/ DayTurns \/ RevokeIntegration \/ UNCHANGED vars \/ \E j \in Jobs : Denied(j)
       PROVE  Goal
  BY <1>1, <1>7 DEF DayTurns, RevokeIntegration, vars, eventVars, Denied
<1>8. Goal
  BY <1>2, <1>3, <1>4, <1>5, <1>6, <1>7 DEF Next, Execute
<1> QED BY <1>8

LEMMA JournalStep ==
  ASSUME IInv, [Next]_vars
  PROVE  Journal!Next \/ UNCHANGED JournalVars
<1> DEFINE Goal == Journal!Next \/ UNCHANGED JournalVars
<1>0. TypeOK
  BY DEF IInv
<1>1. ASSUME UNCHANGED eventVars PROVE Goal
  BY <1>1 DEF eventVars, JournalVars
<1>2. ASSUME NEW h \in Executions, Project(h) \/ ProjectUnanswered(h) PROVE Goal
  BY <1>2, ProjectedIsJournalled DEF Project, ProjectUnanswered, Journal!Next
<1>3. ASSUME NEW h \in Executions, RecordFailure(h) PROVE Goal
  <2> DEFINE e == EventOf(exec[h].job)
  <2>1. e \in Events
    BY <1>3, ExecutionEvent DEF IInv, RecordFailure
  <2>2. CASE status[e] \in Open /\ ~revoked
    <3>1. Journal!Fail(e)
      BY <1>3, <2>2 DEF RecordFailure, Failed, Journal!Fail, Journal!Move, Journal!Open, Open
    <3> QED BY <2>1, <3>1 DEF Journal!Next
  <2>3. CASE ~(status[e] \in Open /\ ~revoked)
    BY <1>3, <2>3 DEF RecordFailure, Failed, JournalVars
  <2> QED BY <2>2, <2>3
<1>4. ASSUME NEW e \in Events, Ingest(e) PROVE Goal
  <2>1. Journal!Receive(e)
    BY <1>4 DEF Ingest, Journal!Receive, Journal!Move
  <2> QED BY <2>1 DEF Journal!Next
<1> QED BY <1>1, <1>2, <1>3, <1>4, StatusCause

\* What a step of the journal does to one event.
LEMMA StatusStep ==
  ASSUME IInv, [Next]_vars
  PROVE  /\ status' \in [Events -> {"none"} \cup Open \cup Settled]
         /\ applied' \in [Events -> Nat]
         /\ run' \in [Runs -> {"none"} \cup RunKinds]
         /\ \A e \in Events : status[e] # "none" => status'[e] # "none"
         /\ \A e \in Events : status[e] \in Settled => status'[e] = status[e]
         /\ \A e \in Events : status'[e] = "received" => status[e] \in {"none", "received"}
         /\ \A e \in Events : Kind[e] = "unknown" => status'[e] \in {"none", "unhandled"}
         /\ AppliedOnce'
<1> DEFINE Goal ==
      /\ status' \in [Events -> {"none"} \cup Open \cup Settled]
      /\ applied' \in [Events -> Nat]
      /\ run' \in [Runs -> {"none"} \cup RunKinds]
      /\ \A e \in Events : status[e] # "none" => status'[e] # "none"
      /\ \A e \in Events : status[e] \in Settled => status'[e] = status[e]
      /\ \A e \in Events : status'[e] = "received" => status[e] \in {"none", "received"}
      /\ \A e \in Events : Kind[e] = "unknown" => status'[e] \in {"none", "unhandled"}
      /\ AppliedOnce'
<1>0. TypeOK /\ AppliedOnce /\ Replays
  BY DEF IInv, Links
<1>1. CASE UNCHANGED JournalVars
  BY <1>0, <1>1 DEF JournalVars, TypeOK, AppliedOnce, Replays
<1>2. ASSUME NEW e \in Events, Journal!Receive(e) \/ Journal!Fail(e) \/ Journal!Dismiss(e)
      PROVE  /\ status[e] \in {"none"} \cup Open
             /\ status' = [status EXCEPT ![e] = status'[e]]
             /\ status'[e] \in {"received", "failed", "unhandled"}
             /\ status'[e] = "received" => status[e] = "none"
             /\ Kind[e] = "unknown" => status'[e] = "unhandled"
             /\ UNCHANGED <<applied, run>>
  BY <1>0, <1>2
  DEF TypeOK, Replays, Journal!Receive, Journal!Fail, Journal!Dismiss, Journal!Move, Journal!Open, Open
<1>3. ASSUME NEW e \in Events, Journal!Receive(e) \/ Journal!Fail(e) \/ Journal!Dismiss(e)
      PROVE  Goal
  BY <1>0, <1>2, <1>3 DEF TypeOK, Open, Settled, AppliedOnce, Replays
<1>4. ASSUME NEW e \in Events, Journal!Apply(e) PROVE Goal
  <2>1. /\ status[e] \in Open
        /\ status' = [status EXCEPT ![e] = "projected"]
        /\ applied' = [applied EXCEPT ![e] = @ + 1]
        /\ Kind[e] \notin {"unknown", "unprojected"}
    BY <1>4 DEF Journal!Apply, Journal!Move, Journal!Open, Open
  <2>2. applied[e] = 0
    BY <1>0, <2>1 DEF AppliedOnce, Open
  <2>3. AppliedOnce'
    BY <1>0, <2>1, <2>2 DEF AppliedOnce, TypeOK
  <2>4. run' \in [Runs -> {"none"} \cup RunKinds]
    <3>1. RunOf[e] \in Runs => Kind[e] \in RunKinds
      BY DEF Kinds
    <3> QED BY <1>0, <1>4, <3>1 DEF Journal!Apply, TypeOK
  <2> QED BY <1>0, <2>1, <2>3, <2>4 DEF TypeOK, Open, Settled, Replays
<1> QED BY <1>1, <1>3, <1>4, JournalStep DEF Journal!Next

\* A run changes only with an event that becomes projected, and only until it is
\* terminal.
LEMMA RunStep == IInv /\ [Next]_vars => RunExplained'
<1> SUFFICES ASSUME IInv, [Next]_vars PROVE RunExplained'
  OBVIOUS
<1> DEFINE NewAs(r, k) == \E e \in Events : RunOf[e] = r /\ Kind[e] = k /\ status'[e] = "projected"
<1>0. TypeOK /\ RunExplained
  BY DEF IInv
<1>1. CASE UNCHANGED JournalVars
  BY <1>0, <1>1 DEF JournalVars, RunExplained, ProjectedAs
<1>2. ASSUME NEW e \in Events, Journal!Receive(e) \/ Journal!Fail(e) \/ Journal!Dismiss(e)
      PROVE  RunExplained'
  <2>1. run' = run /\ \A f \in Events : status'[f] = "projected" <=> status[f] = "projected"
    BY <1>0, <1>2
    DEF TypeOK, Journal!Receive, Journal!Fail, Journal!Dismiss, Journal!Move, Journal!Open
  <2>2. \A r \in Runs, k \in RunKinds : ProjectedAs(r, k)' <=> ProjectedAs(r, k)
    BY <2>1 DEF ProjectedAs
  <2> QED BY <1>0, <2>1, <2>2 DEF RunExplained, RunKinds, TypeOK
<1>3. ASSUME NEW e \in Events, Journal!Apply(e) PROVE RunExplained'
  <2>1. /\ status'[e] = "projected"
        /\ \A f \in Events : f # e => status'[f] = status[f]
        /\ \A r \in Runs : run'[r] = IF r = RunOf[e] /\ run[r] \in {"none", "started"}
                                     THEN Kind[e] ELSE run[r]
    BY <1>0, <1>3 DEF TypeOK, Journal!Apply, Journal!Move
  <2>2. ASSUME NEW r \in Runs, NEW k \in RunKinds
        PROVE  NewAs(r, k) <=> ProjectedAs(r, k) \/ (RunOf[e] = r /\ Kind[e] = k)
    BY <2>1 DEF ProjectedAs
  <2>3. ASSUME NEW r \in Runs
        PROVE  /\ run'[r] # "none" => NewAs(r, run'[r])
               /\ run'[r] = "none" => \A k \in RunKinds : ~NewAs(r, k)
               /\ run'[r] = "started" => ~NewAs(r, "succeeded") /\ ~NewAs(r, "failed")
    <3> HIDE DEF NewAs
    <3>1. {"started", "succeeded", "failed"} = RunKinds /\ run[r] \in {"none"} \cup RunKinds
      BY <1>0 DEF RunKinds, TypeOK
    <3>2. /\ run[r] # "none" => ProjectedAs(r, run[r])
          /\ run[r] = "none" => \A k \in RunKinds : ~ProjectedAs(r, k)
          /\ run[r] = "started" => ~ProjectedAs(r, "succeeded") /\ ~ProjectedAs(r, "failed")
      BY <1>0 DEF RunExplained
    <3>3. CASE RunOf[e] = r
      <4>1. Kind[e] \in RunKinds
        BY <3>3
      <4>2. CASE run[r] \in {"none", "started"}
        <5>1. run'[r] = Kind[e]
          BY <2>1, <3>3, <4>2
        <5>2. NewAs(r, Kind[e])
          BY <2>2, <3>3, <4>1
        <5>3. ASSUME Kind[e] = "started" PROVE ~NewAs(r, "succeeded") /\ ~NewAs(r, "failed")
          BY <2>2, <3>1, <3>2, <4>2, <5>3
        <5> QED BY <3>1, <4>1, <5>1, <5>2, <5>3
      <4>3. CASE run[r] \notin {"none", "started"}
        <5>1. run'[r] = run[r] /\ run[r] \in RunKinds
          BY <2>1, <3>1, <4>3
        <5>2. NewAs(r, run[r])
          BY <2>2, <3>2, <4>3, <5>1
        <5> QED BY <4>3, <5>1, <5>2
      <4> QED BY <4>2, <4>3
    <3>4. CASE RunOf[e] # r
      <4>1. run'[r] = run[r]
        BY <2>1, <3>4
      <4>2. \A k \in RunKinds : NewAs(r, k) <=> ProjectedAs(r, k)
        BY <2>2, <3>4
      <4> QED BY <3>1, <3>2, <4>1, <4>2
    <3> QED BY <3>3, <3>4
  <2> QED BY <2>3 DEF RunExplained, ProjectedAs
<1> QED BY <1>1, <1>2, <1>3, JournalStep DEF Journal!Next

\* A completed job stays completed, and its event settled.
LEMMA CompletedStep == IInv /\ [Next]_vars => CompletedIsSettled'
<1> SUFFICES ASSUME IInv, [Next]_vars, NEW j \in Jobs, job'[j].state = "completed"
             PROVE  status'[EventOf(j)'] \in Settled
  BY DEF CompletedIsSettled
<1>1. TypeOK /\ Links /\ Sends /\ Rows /\ JobRows /\ CompletedIsSettled
  BY DEF IInv, Links
<1>2. CASE job[j].state = "none"
  <2>1. ~(job[j].state = "completed")
    BY <1>2
  <2>2. status'[EventOf(j)] \in Settled
    BY <1>1, <2>1, JobStep
  <2>3. j[1] \in Messages /\ outbox[j[1]].status # "none"
    BY <1>1, <1>2, JobStep DEF Sends, Jobs
  <2>4. EventOf(j)' = EventOf(j)
    BY <1>1, <2>3, OutboxStep DEF EventOf
  <2> QED BY <2>2, <2>4
<1>3. CASE job[j].state # "none"
  <2>1. /\ j[1] \in Messages /\ outbox[j[1]].status # "none"
        /\ EventOf(j) \in Events
    BY <1>1, <1>3, JobEvent
  <2>2. EventOf(j)' = EventOf(j)
    BY <1>1, <2>1, OutboxStep DEF EventOf
  <2>3. job[j].state = "completed" \/ status'[EventOf(j)] \in Settled
    BY <1>1, JobStep
  <2>4. job[j].state = "completed" => status'[EventOf(j)] \in Settled
    BY <1>1, <2>1, StatusStep DEF CompletedIsSettled
  <2> QED BY <2>2, <2>3, <2>4
<1> QED BY <1>2, <1>3

-----------------------------------------------------------------------------
(* Executions and the lock.                                                *)

\* An execution keeps its job while it is busy, and gets to project only through the
\* lock, on an event that is not settled.
LEMMA ExecStep ==
  ASSUME TypeOK, Links, [Next]_vars
  PROVE  /\ exec' \in [Executions -> Execution]
         /\ \A h \in Executions : exec'[h].phase # "idle" =>
              \/ exec[h].phase # "idle" /\ exec'[h].job = exec[h].job
              \/ \E j \in Jobs : exec'[h].job = j /\ job[j].state # "none"
         /\ \A h \in Executions : exec'[h].phase = "projecting" =>
              \/ exec[h].phase = "projecting" /\ exec'[h].job = exec[h].job
              \/ /\ Lock(h) /\ status[EventOf(exec[h].job)] \notin Settled
                 /\ exec[h].phase # "idle" /\ exec'[h].job = exec[h].job
                 /\ \A g \in Executions : g # h => exec'[g] = exec[g]
<1> DEFINE Goal ==
      /\ exec' \in [Executions -> Execution]
      /\ \A h \in Executions : exec'[h].phase # "idle" =>
           \/ exec[h].phase # "idle" /\ exec'[h].job = exec[h].job
           \/ \E j \in Jobs : exec'[h].job = j /\ job[j].state # "none"
      /\ \A h \in Executions : exec'[h].phase = "projecting" =>
           \/ exec[h].phase = "projecting" /\ exec'[h].job = exec[h].job
           \/ /\ Lock(h) /\ status[EventOf(exec[h].job)] \notin Settled
              /\ exec[h].phase # "idle" /\ exec'[h].job = exec[h].job
              /\ \A g \in Executions : g # h => exec'[g] = exec[g]
<1>0. exec \in [Executions -> Execution]
  BY DEF TypeOK
<1>1. ASSUME UNCHANGED exec PROVE Goal
  BY <1>0, <1>1
<1>2. ASSUME NEW h \in Executions, NEW x \in Execution, exec' = [exec EXCEPT ![h] = x],
             x.phase # "idle" =>
               \/ exec[h].phase # "idle" /\ x.job = exec[h].job
               \/ x.job \in Jobs /\ job[x.job].state # "none",
             x.phase = "projecting" =>
               \/ exec[h].phase = "projecting" /\ x.job = exec[h].job
               \/ /\ Lock(h) /\ status[EventOf(exec[h].job)] \notin Settled
                  /\ exec[h].phase # "idle" /\ x.job = exec[h].job
      PROVE  Goal
  <2>1. exec'[h] = x /\ \A g \in Executions : g # h => exec'[g] = exec[g]
    BY <1>0, <1>2
  <2>2. exec' \in [Executions -> Execution]
    BY <1>0, <1>2
  <2> QED BY <1>2, <2>1, <2>2
<1> HIDE DEF Goal
<1>3. Idle \in Execution /\ Idle.phase = "idle"
  BY DEF Idle, Execution
<1>4. ASSUME NEW h \in Executions, exec' = [exec EXCEPT ![h] = Idle] PROVE Goal
  BY <1>2, <1>3, <1>4
<1>5. ASSUME NEW h \in Executions, Entering(h, "failing"), exec[h].phase # "idle" PROVE Goal
  <2> DEFINE x == [exec[h] EXCEPT !.phase = "failing"]
  <2>1. x \in Execution /\ x.phase = "failing" /\ x.job = exec[h].job
    BY <1>0 DEF Execution
  <2>2. exec' = [exec EXCEPT ![h] = x]
    BY <1>5 DEF Entering
  <2> HIDE DEF x
  <2> QED BY <1>2, <1>5, <2>1, <2>2
<1>6. ASSUME NEW h \in Executions, Lock(h) PROVE Goal
  <2>1. CASE status[EventOf(exec[h].job)] \in Settled
    BY <1>4, <1>6, <2>1 DEF Lock, Completed
  <2>2. CASE status[EventOf(exec[h].job)] \notin Settled
    <3> DEFINE x == [exec[h] EXCEPT !.phase = "projecting"]
    <3>1. x \in Execution /\ x.phase = "projecting" /\ x.job = exec[h].job
      BY <1>0 DEF Execution
    <3>2. exec' = [exec EXCEPT ![h] = x] /\ exec[h].phase # "idle"
      BY <1>6, <2>2 DEF Lock, Entering
    <3> HIDE DEF x
    <3> QED BY <1>2, <1>6, <2>2, <3>1, <3>2
  <2> QED BY <2>1, <2>2
<1>7. ASSUME NEW h \in Executions, Timeout(h) PROVE Goal
  <2> DEFINE x == [exec[h] EXCEPT !.timedOut = TRUE]
  <2>1. x \in Execution /\ x.phase = exec[h].phase /\ x.job = exec[h].job
    BY <1>0 DEF Execution
  <2>2. exec' = [exec EXCEPT ![h] = x]
    BY <1>7 DEF Timeout
  <2> HIDE DEF x
  <2> QED BY <1>2, <2>1, <2>2
<1>8. ASSUME NEW h \in Executions, NEW j \in Jobs, Start(h, j) PROVE Goal
  <2> DEFINE x == [phase |-> "locking", job |-> j, timedOut |-> FALSE]
  <2>1. x \in Execution /\ x.phase = "locking" /\ x.job = j
    BY DEF Execution
  <2>2. exec' = [exec EXCEPT ![h] = x] /\ job[j].state # "none"
    BY <1>8 DEF Start
  <2> HIDE DEF x
  <2> QED BY <1>2, <2>1, <2>2
<1>9. ASSUME NEW h \in Executions, Project(h) \/ RecordFailure(h) \/ ExecutionLost(h) PROVE Goal
  BY <1>4, <1>9 DEF Project, Completed, RecordFailure, ExecutionLost
<1>10. ASSUME NEW h \in Executions, ProjectFails(h) \/ ProjectUnanswered(h) PROVE Goal
  BY <1>5, <1>10 DEF ProjectFails, ProjectUnanswered
<1>11. ASSUME NEW e \in Events, Ingest(e) \/ ReplayRead(e) \/ ReplayInsert(e) PROVE Goal
  BY <1>1, <1>11 DEF Ingest, ReplayRead, ReplayInsert
<1>12. ASSUME NEW w \in Dispatchers, NEW m \in Messages, Deliver(w, m) \/ MarkDeliveredThrows(w, m)
       PROVE  Goal
  BY <1>1, <1>12 DEF Deliver, SendAccepted, SendThrows, MarkDelivered, MarkFailed, MarkDeliveredThrows
<1>13. ASSUME NEW w \in Dispatchers, Claim(w) \/ DispatcherLost(w) PROVE Goal
  BY <1>1, <1>13 DEF Claim, DispatcherLost
<1>14. ASSUME NEW m \in Messages, BackoffOver(m) \/ LeaseAbandoned(m) \/ LeaseOutlived(m) PROVE Goal
  BY <1>1, <1>14 DEF BackoffOver, LeaseAbandoned, LeaseOutlived, LeaseEnds
<1>15. ASSUME DayTurns \/ RevokeIntegration \/ UNCHANGED vars \/ \E j \in Jobs : Denied(j)
       PROVE  Goal
  BY <1>1, <1>15 DEF DayTurns, RevokeIntegration, vars, Denied
<1>16. Goal
  BY <1>6, <1>7, <1>8, <1>9, <1>10, <1>11, <1>12, <1>13, <1>14, <1>15 DEF Next, Execute
<1> QED BY <1>16 DEF Goal

\* A row, once it exists, names its event for good.
LEMMA EventOfKept ==
  ASSUME TypeOK, Links, [Next]_vars, NEW j \in Jobs, job[j].state # "none"
  PROVE  EventOf(j)' = EventOf(j)
<1>1. j[1] \in Messages /\ outbox[j[1]].status # "none" /\ Sends
  BY JobEvent DEF Links
<1> QED BY <1>1, OutboxStep DEF EventOf

\* Only an execution that holds the lock settles an event, and gives the lock up.
LEMMA OpenStep ==
  ASSUME IInv, [Next]_vars, NEW e \in Events, status[e] \in Open
  PROVE  \/ status'[e] \in Open
         \/ \E g \in Executions : /\ exec[g].phase = "projecting" /\ EventOf(exec[g].job) = e
                                  /\ exec'[g].phase # "projecting"
<1> DEFINE Goal ==
      \/ status'[e] \in Open
      \/ \E g \in Executions : /\ exec[g].phase = "projecting" /\ EventOf(exec[g].job) = e
                               /\ exec'[g].phase # "projecting"
<1>0. status \in [Events -> {"none"} \cup Open \cup Settled] /\ exec \in [Executions -> Execution]
  BY DEF IInv, TypeOK
<1>1. ASSUME UNCHANGED status PROVE Goal
  BY <1>1
<1>2. ASSUME NEW g \in Executions, Project(g) \/ ProjectUnanswered(g) PROVE Goal
  <2> DEFINE f == EventOf(exec[g].job)
  <2>1. status' = [status EXCEPT ![f] = Target(f)] /\ exec[g].phase = "projecting"
    BY <1>2 DEF Project, ProjectUnanswered, Projected
  <2>2. exec'[g].phase # "projecting"
    BY <1>0, <1>2 DEF Project, ProjectUnanswered, Completed, Idle, Entering, Execution
  <2>3. CASE f = e
    BY <2>1, <2>2, <2>3
  <2>4. CASE f # e
    <3>1. status'[e] = status[e]
      BY <1>0, <2>1, <2>4
    <3> QED BY <3>1
  <2> QED BY <2>3, <2>4
<1>3. ASSUME NEW g \in Executions, RecordFailure(g) PROVE Goal
  BY <1>0, <1>3 DEF RecordFailure, Failed, Open
<1>4. ASSUME NEW f \in Events, Ingest(f) PROVE Goal
  BY <1>0, <1>4 DEF Ingest, Open
<1> QED BY <1>1, <1>2, <1>3, <1>4, StatusCause DEF eventVars

\* The advisory lock: the execution that enters finds no other on its event.
LEMMA LockStep == IInv /\ [Next]_vars => Exclusive' /\ LockedIsOpen'
<1> SUFFICES ASSUME IInv, [Next]_vars PROVE Exclusive' /\ LockedIsOpen'
  OBVIOUS
<1>0. TypeOK /\ Links /\ Exclusive /\ LockedIsOpen
  BY DEF IInv
<1>1. ASSUME NEW h \in Executions, exec'[h].phase = "projecting"
      PROVE  /\ exec[h].phase # "idle" /\ exec'[h].job = exec[h].job
             /\ EventOf(exec[h].job)' = EventOf(exec[h].job)
  <2>1. exec[h].phase # "idle" /\ exec'[h].job = exec[h].job
    BY <1>0, <1>1, ExecStep
  <2>2. exec[h].job \in Jobs /\ job[exec[h].job].state # "none"
    BY <1>0, <2>1, ExecutionEvent
  <2>3. EventOf(exec[h].job) = outbox[exec[h].job[1]].event
    BY DEF EventOf
  <2>4. exec[h].job[1] \in Messages /\ outbox[exec[h].job[1]].status # "none" /\ Sends
    BY <1>0, <2>2, JobEvent DEF Links
  <2>5. outbox'[exec[h].job[1]].event = outbox[exec[h].job[1]].event
    BY <1>0, <2>4, OutboxStep
  <2> QED BY <2>1, <2>3, <2>5 DEF EventOf
<1>2. Exclusive'
  <2> SUFFICES ASSUME NEW g \in Executions, NEW h \in Executions,
                      exec'[g].phase = "projecting", exec'[h].phase = "projecting",
                      EventOf(exec[g].job)' = EventOf(exec[h].job)'
               PROVE  g = h
    BY DEF Exclusive
  <2>1. EventOf(exec[g].job) = EventOf(exec[h].job)
    BY <1>1
  <2>2. CASE exec[g].phase = "projecting" /\ exec[h].phase = "projecting"
    BY <1>0, <2>1, <2>2 DEF Exclusive
  <2>3. ASSUME NEW x \in Executions, NEW y \in Executions, x # y, exec[x].phase # "projecting",
               exec'[x].phase = "projecting", exec'[y].phase = "projecting",
               EventOf(exec[x].job) = EventOf(exec[y].job)
        PROVE  FALSE
    <3>1. Lock(x) /\ exec'[y] = exec[y]
      BY <1>0, <2>3, ExecStep
    <3>2. y \in LockHolders(EventOf(exec[x].job))
      BY <2>3, <3>1 DEF LockHolders
    <3> QED BY <3>1, <3>2 DEF Lock
  <2> QED BY <2>1, <2>2, <2>3
<1>3. LockedIsOpen'
  <2> SUFFICES ASSUME NEW h \in Executions, exec'[h].phase = "projecting"
               PROVE  status'[EventOf(exec[h].job)'] \in Open
    BY DEF LockedIsOpen
  <2> DEFINE e == EventOf(exec[h].job)
  <2>1. e \in Events /\ status[e] # "none" /\ EventOf(exec[h].job)' = e
    BY <1>0, <1>1, ExecutionEvent
  <2>2. CASE exec[h].phase = "projecting"
    <3>1. status[e] \in Open
      BY <1>0, <2>2 DEF LockedIsOpen
    <3>2. ASSUME NEW g \in Executions, exec[g].phase = "projecting", EventOf(exec[g].job) = e,
                 exec'[g].phase # "projecting"
          PROVE  FALSE
      BY <1>0, <2>2, <3>2 DEF Exclusive
    <3>3. status'[e] \in Open
      BY <2>1, <3>1, <3>2, OpenStep
    <3> QED BY <2>1, <3>3
  <2>3. CASE exec[h].phase # "projecting"
    <3>1. Lock(h) /\ status[e] \notin Settled
      BY <1>0, <2>3, ExecStep
    <3>2. status' = status /\ status[e] \in {"none"} \cup Open \cup Settled
      BY <1>0, <2>1, <3>1 DEF Lock, eventVars, TypeOK
    <3> QED BY <2>1, <3>1, <3>2
  <2> QED BY <2>2, <2>3
<1> QED BY <1>2, <1>3

-----------------------------------------------------------------------------
(* Dispatchers, replays and the rows that lead back to events.             *)

\* What a dispatcher works on: rows it has just claimed, and jobs it has just sent.
LEMMA SendStep ==
  ASSUME TypeOK, Links, [Next]_vars
  PROVE  /\ send' \in [Dispatchers -> [Messages -> {"none", "claimed", "sent", "error"}]]
         /\ \A w \in Dispatchers, m \in Messages : send'[w][m] # "none" =>
              send[w][m] # "none" \/ outbox[m].status # "none"
         /\ \A w \in Dispatchers, m \in Messages : send'[w][m] = "sent" =>
              send[w][m] = "sent" \/ SendAccepted(w, m)
<1> DEFINE Goal ==
      /\ send' \in [Dispatchers -> [Messages -> {"none", "claimed", "sent", "error"}]]
      /\ \A w \in Dispatchers, m \in Messages : send'[w][m] # "none" =>
           send[w][m] # "none" \/ outbox[m].status # "none"
      /\ \A w \in Dispatchers, m \in Messages : send'[w][m] = "sent" =>
           send[w][m] = "sent" \/ SendAccepted(w, m)
<1>0. send \in [Dispatchers -> [Messages -> {"none", "claimed", "sent", "error"}]]
  BY DEF TypeOK
<1>1. ASSUME UNCHANGED send PROVE Goal
  BY <1>0, <1>1
<1>2. ASSUME NEW w \in Dispatchers, NEW m \in Messages, NEW to \in {"none", "sent", "error"},
             Sending(w, m, to), send[w][m] # "none", to = "sent" => SendAccepted(w, m)
      PROVE  Goal
  <2>1. send' = [send EXCEPT ![w] = [send[w] EXCEPT ![m] = to]]
    BY <1>2 DEF Sending
  <2> QED BY <1>0, <1>2, <2>1
<1>3. ASSUME NEW w \in Dispatchers, NEW f \in [Messages -> {"none", "claimed"}],
             send' = [send EXCEPT ![w] = f],
             \A m \in Messages : f[m] = "claimed" => outbox[m].status # "none"
      PROVE  Goal
  BY <1>0, <1>3
<1> HIDE DEF Goal
<1>4. ASSUME NEW w \in Dispatchers, Claim(w) PROVE Goal
  <2>1. PICK S \in SUBSET {m \in Messages : Claimable(m)} :
          send' = [send EXCEPT ![w] = [m \in Messages |-> IF m \in S THEN "claimed" ELSE "none"]]
    BY <1>4 DEF Claim
  <2> DEFINE f == [m \in Messages |-> IF m \in S THEN "claimed" ELSE "none"]
  <2>2. f \in [Messages -> {"none", "claimed"}]
    OBVIOUS
  <2>3. \A m \in Messages : f[m] = "claimed" => outbox[m].status # "none"
    BY DEF Claimable
  <2> HIDE DEF f
  <2>4. send' = [send EXCEPT ![w] = f]
    BY <2>1 DEF f
  <2> QED BY <1>3, <2>2, <2>3, <2>4
<1>5. ASSUME NEW w \in Dispatchers, DispatcherLost(w) PROVE Goal
  <2> DEFINE f == [m \in Messages |-> "none"]
  <2>1. f \in [Messages -> {"none", "claimed"}] /\ \A m \in Messages : f[m] # "claimed"
    OBVIOUS
  <2> HIDE DEF f
  <2>2. send' = [send EXCEPT ![w] = f]
    BY <1>5 DEF DispatcherLost, f
  <2> QED BY <1>3, <2>1, <2>2
<1>6. ASSUME NEW w \in Dispatchers, NEW m \in Messages, Deliver(w, m) \/ MarkDeliveredThrows(w, m)
      PROVE  Goal
  <2>1. CASE SendAccepted(w, m)
    BY <1>2, <2>1 DEF SendAccepted
  <2>2. CASE SendThrows(w, m) \/ MarkDeliveredThrows(w, m)
    BY <1>2, <2>2 DEF SendThrows, MarkDeliveredThrows
  <2>3. CASE MarkDelivered(w, m) \/ MarkFailed(w, m)
    BY <1>2, <2>3 DEF MarkDelivered, MarkFailed
  <2> QED BY <1>6, <2>1, <2>2, <2>3 DEF Deliver
<1>7. ASSUME NEW h \in Executions, \/ Lock(h) \/ Execute(h) \/ ProjectUnanswered(h) \/ Timeout(h)
                                  \/ ExecutionLost(h) \/ \E j \in Jobs : Start(h, j)
      PROVE  Goal
  BY <1>1, <1>7 DEF Lock, Execute, Project, ProjectFails, RecordFailure, ProjectUnanswered, Timeout,
                    ExecutionLost, Start
<1>8. ASSUME NEW e \in Events, Ingest(e) \/ ReplayRead(e) \/ ReplayInsert(e) PROVE Goal
  BY <1>1, <1>8 DEF Ingest, ReplayRead, ReplayInsert
<1>9. ASSUME NEW m \in Messages, BackoffOver(m) \/ LeaseAbandoned(m) \/ LeaseOutlived(m) PROVE Goal
  BY <1>1, <1>9 DEF BackoffOver, LeaseAbandoned, LeaseOutlived, LeaseEnds
<1>10. ASSUME \/ DayTurns \/ RevokeIntegration \/ UNCHANGED vars \/ \E j \in Jobs : Denied(j)
       PROVE  Goal
  BY <1>1, <1>10 DEF DayTurns, RevokeIntegration, vars, Denied
<1>11. Goal
  BY <1>4, <1>5, <1>6, <1>7, <1>8, <1>9, <1>10 DEF Next
<1> QED BY <1>11 DEF Goal

\* The remaining variables.
LEMMA RestStep ==
  ASSUME TypeOK, [Next]_vars
  PROVE  /\ \A e \in replaying' : e \in replaying \/ (e \in Events /\ status[e] = "failed")
         /\ day' \in Days /\ revoked' \in BOOLEAN /\ faults' \in 0..MaxFaults
<1> DEFINE Goal ==
      /\ \A e \in replaying' : e \in replaying \/ (e \in Events /\ status[e] = "failed")
      /\ day' \in Days /\ revoked' \in BOOLEAN /\ faults' \in 0..MaxFaults
<1>0. /\ replaying \subseteq Events /\ day \in Days /\ revoked \in BOOLEAN
      /\ faults \in 0..MaxFaults
  BY DEF TypeOK
<1>1. ASSUME UNCHANGED <<replaying, day, revoked, faults>> PROVE Goal
  BY <1>0, <1>1
<1>2. ASSUME Fault, UNCHANGED <<replaying, day, revoked>> PROVE Goal
  BY <1>0, <1>2 DEF Fault
<1>3. ASSUME NEW e \in Events, ReplayRead(e) \/ ReplayInsert(e) PROVE Goal
  BY <1>0, <1>3 DEF ReplayRead, ReplayInsert
<1>4. ASSUME DayTurns \/ RevokeIntegration PROVE Goal
  <2>1. CASE DayTurns
    BY <1>0, <2>1 DEF DayTurns, Days
  <2>2. CASE RevokeIntegration
    BY <1>0, <2>2 DEF RevokeIntegration
  <2> QED BY <1>4, <2>1, <2>2
<1> HIDE DEF Goal
<1>5. ASSUME NEW h \in Executions, \/ Lock(h) \/ Execute(h) \/ ProjectUnanswered(h) \/ Timeout(h)
                                  \/ ExecutionLost(h) \/ \E j \in Jobs : Start(h, j)
      PROVE  Goal
  BY <1>1, <1>2, <1>5 DEF Lock, Execute, Project, ProjectFails, RecordFailure, ProjectUnanswered,
                          Timeout, ExecutionLost, Start
<1>6. ASSUME NEW w \in Dispatchers, NEW m \in Messages, Deliver(w, m) \/ MarkDeliveredThrows(w, m)
      PROVE  Goal
  BY <1>1, <1>2, <1>6
  DEF Deliver, SendAccepted, SendThrows, MarkDelivered, MarkFailed, MarkDeliveredThrows
<1>7. ASSUME NEW w \in Dispatchers, Claim(w) \/ DispatcherLost(w) PROVE Goal
  BY <1>1, <1>2, <1>7 DEF Claim, DispatcherLost
<1>8. ASSUME NEW m \in Messages, BackoffOver(m) \/ LeaseAbandoned(m) \/ LeaseOutlived(m) PROVE Goal
  BY <1>1, <1>2, <1>8 DEF BackoffOver, LeaseAbandoned, LeaseOutlived, LeaseEnds
<1>9. ASSUME \/ UNCHANGED vars
             \/ \E e \in Events : Ingest(e)
             \/ \E j \in Jobs : Denied(j)
      PROVE  Goal
  BY <1>1, <1>9 DEF vars, Ingest, Denied
<1>10. Goal
  BY <1>3, <1>4, <1>5, <1>6, <1>7, <1>8, <1>9 DEF Next
<1> QED BY <1>10 DEF Goal

LEMMA LinksStep == IInv /\ [Next]_vars => Links'
<1> SUFFICES ASSUME IInv, [Next]_vars PROVE Links'
  OBVIOUS
<1>0. TypeOK /\ Links /\ Rows /\ Replays /\ Sends /\ JobRows /\ Executing
  BY DEF IInv, Links
<1>1. ASSUME NEW m \in Messages, HasJob(m) PROVE HasJob(m)'
  <2>1. PICK d \in Days : job[<<m, d>>].state # "none"
    BY <1>1 DEF HasJob
  <2>2. <<m, d>> \in Jobs
    BY DEF Jobs
  <2>3. job'[<<m, d>>].state # "none"
    BY <1>0, <2>1, <2>2, JobStep
  <2> QED BY <2>3 DEF HasJob
<1>2. Rows'
  <2> SUFFICES ASSUME NEW m \in Messages, outbox'[m].status # "none"
               PROVE  /\ outbox'[m].event \in Events
                      /\ status'[outbox'[m].event] # "none"
                      /\ Kind[outbox'[m].event] # "unknown"
    BY DEF Rows
  <2>1. CASE outbox[m].status # "none"
    <3>1. outbox'[m].event = outbox[m].event
      BY <1>0, <2>1, OutboxStep
    <3> QED BY <1>0, <2>1, <3>1, StatusStep DEF Rows
  <2>2. CASE outbox[m].status = "none"
    <3>1. PICK e \in Events : /\ outbox'[m].event = e
                              /\ (Ingest(e) /\ Kind[e] # "unknown") \/ ReplayInsert(e)
      BY <1>0, <2>2, OutboxStep
    <3>2. CASE Ingest(e) /\ Kind[e] # "unknown"
      BY <1>0, <3>1, <3>2 DEF Ingest, TypeOK
    <3>3. CASE ReplayInsert(e)
      BY <1>0, <3>1, <3>3 DEF ReplayInsert, Replays, eventVars
    <3> QED BY <3>1, <3>2, <3>3
  <2> QED BY <2>1, <2>2
<1>3. Replays'
  <2>1. ASSUME NEW e \in replaying' PROVE status'[e] # "none" /\ Kind[e] # "unknown"
    BY <1>0, RestStep, StatusStep DEF Replays, TypeOK
  <2> QED BY <2>1, StatusStep DEF Replays
<1>4. Sends'
  <2>1. ASSUME NEW w \in Dispatchers, NEW m \in Messages, send'[w][m] # "none"
        PROVE  outbox'[m].status # "none"
    BY <1>0, <2>1, SendStep, OutboxStep DEF Sends
  <2>2. ASSUME NEW w \in Dispatchers, NEW m \in Messages, SendAccepted(w, m) PROVE HasJob(m)'
    <3>1. day \in Days /\ <<m, day>> \in Jobs /\ job \in [Jobs -> Job]
      BY <1>0 DEF TypeOK, Jobs
    <3>2. job'[<<m, day>>].state # "none"
      BY <2>2, <3>1 DEF SendAccepted, Sent, Job
    <3> QED BY <3>1, <3>2 DEF HasJob
  <2>3. ASSUME NEW w \in Dispatchers, NEW m \in Messages, send'[w][m] = "sent" PROVE HasJob(m)'
    BY <1>0, <1>1, <2>2, <2>3, SendStep DEF Sends
  <2>4. ASSUME NEW m \in Messages, outbox'[m].status = "delivered" PROVE HasJob(m)'
    <3>1. HasJob(m)
      BY <1>0, <2>4, OutboxStep DEF Sends
    <3> QED BY <1>1, <3>1
  <2> QED BY <2>1, <2>3, <2>4 DEF Sends
<1>5. JobRows'
  <2> SUFFICES ASSUME NEW j \in Jobs, job'[j].state # "none" PROVE outbox'[j[1]].status # "none"
    BY DEF JobRows
  <2>1. j[1] \in Messages
    BY DEF Jobs
  <2>2. outbox[j[1]].status # "none"
    BY <1>0, <2>1, JobStep DEF JobRows, Sends
  <2> QED BY <1>0, <2>1, <2>2, OutboxStep
<1>6. Executing'
  <2> SUFFICES ASSUME NEW h \in Executions, exec'[h].phase # "idle"
               PROVE  exec'[h].job \in Jobs /\ job'[exec'[h].job].state # "none"
    BY DEF Executing
  <2>1. exec'[h].job \in Jobs /\ job[exec'[h].job].state # "none"
    BY <1>0, ExecStep DEF Executing
  <2> QED BY <1>0, <2>1, JobStep
<1> QED BY <1>2, <1>3, <1>4, <1>5, <1>6 DEF Links

\* An event is received in the transaction that inserts its row.
LEMMA HasRowStep == IInv /\ [Next]_vars => HasRow'
<1> SUFFICES ASSUME IInv, [Next]_vars, NEW e \in Events, status'[e] = "received"
             PROVE  \E m \in Messages : outbox'[m].status # "none" /\ outbox'[m].event = e
  BY DEF HasRow
<1>0. TypeOK /\ Links /\ Sends /\ HasRow
  BY DEF IInv, Links
<1>1. CASE status[e] = "received"
  <2>1. PICK m \in Messages : outbox[m].status # "none" /\ outbox[m].event = e
    BY <1>0, <1>1 DEF HasRow
  <2> QED BY <1>0, <2>1, OutboxStep
<1>2. CASE status[e] = "none"
  <2>1. Ingest(e)
    <3>1. ASSUME NEW h \in Executions, exec[h].phase # "idle" PROVE EventOf(exec[h].job) # e
      BY <1>0, <1>2, <3>1, ExecutionEvent
    <3>2. ASSUME NEW h \in Executions, Project(h) \/ ProjectUnanswered(h) PROVE FALSE
      BY <1>0, <1>2, <3>1, <3>2 DEF Project, ProjectUnanswered, Projected, TypeOK
    <3>3. ASSUME NEW h \in Executions, RecordFailure(h) PROVE FALSE
      BY <1>0, <1>2, <3>1, <3>3 DEF RecordFailure, Failed, TypeOK
    <3>4. ASSUME NEW f \in Events, Ingest(f) PROVE f = e
      BY <1>0, <1>2, <3>4 DEF Ingest, TypeOK
    <3> QED BY <1>2, <3>2, <3>3, <3>4, StatusCause DEF eventVars
  <2>2. PICK m \in Messages : Enqueued(m, e)
    BY <1>0, <2>1 DEF Ingest, TypeOK
  <2>3. outbox'[m].status = "pending" /\ outbox'[m].event = e
    BY <1>0, <2>2 DEF Enqueued, NoRow, TypeOK
  <2> QED BY <2>3
<1> QED BY <1>1, <1>2, StatusStep

\* Every step keeps the invariant.
LEMMA IInvStep == IInv /\ [Next]_vars => IInv'
<1> SUFFICES ASSUME IInv, [Next]_vars PROVE IInv'
  OBVIOUS
<1>0. TypeOK /\ Links /\ Sends
  BY DEF IInv, Links
<1>1. TypeOK'
  <2>1. replaying' \subseteq Events
    BY <1>0, RestStep DEF TypeOK
  <2>2. outbox' \in [Messages -> Row]
    BY <1>0, OutboxStep
  <2>3. job' \in [Jobs -> Job]
    BY <1>0, JobStep
  <2>4. exec' \in [Executions -> Execution]
    BY <1>0, ExecStep
  <2>5. send' \in [Dispatchers -> [Messages -> {"none", "claimed", "sent", "error"}]]
    BY <1>0, SendStep
  <2>6. day' \in Days /\ revoked' \in BOOLEAN /\ faults' \in 0..MaxFaults
    BY <1>0, RestStep
  <2> QED BY <2>1, <2>2, <2>3, <2>4, <2>5, <2>6, StatusStep DEF TypeOK
<1> QED BY <1>1, LinksStep, LockStep, HasRowStep, StatusStep, RunStep, CompletedStep DEF IInv

-----------------------------------------------------------------------------
(* Theorems.                                                               *)

\* The invariant that carries the proofs.
THEOREM InductiveInvariant == Spec => []IInv
<1> QED BY InitiallyInvariant, IInvStep, PTL DEF Spec

\* Every variable keeps its type.
THEOREM TypeCorrect == Spec => []TypeOK
<1>1. IInv => TypeOK
  BY DEF IInv
<1> QED BY <1>1, InductiveInvariant, PTL

\* Whatever retries, timed-out executions and replays overlap, the projector of an
\* event takes effect once, together with its status.
THEOREM ProjectedOnce == Spec => []AppliedOnce
<1>1. IInv => AppliedOnce
  BY DEF IInv
<1> QED BY <1>1, InductiveInvariant, PTL

\* Runs show their projected events, in whatever order these were projected.
THEOREM RunsAreExplained == Spec => []RunExplained
<1>1. IInv => RunExplained
  BY DEF IInv
<1> QED BY <1>1, InductiveInvariant, PTL

\* pg-boss counts a job as done only when its event is settled.
THEOREM CompletedJobsSettle == Spec => []CompletedIsSettled
<1>1. IInv => CompletedIsSettled
  BY DEF IInv
<1> QED BY <1>1, InductiveInvariant, PTL

\* An accepted event is not forgotten: its row is open, or has a job, and that job is
\* not done while the event is received.
THEOREM NoEventForgotten == Spec => []EventCarried
<1>1. IInv => EventCarried
  <2> SUFFICES ASSUME IInv, NEW e \in Events, status[e] = "received"
               PROVE  Carried(e) \/ GivenUp(e)
    BY DEF EventCarried
  <2>1. PICK m \in Messages : outbox[m].status # "none" /\ outbox[m].event = e
    BY DEF IInv, HasRow
  <2>2. outbox[m].status \in {"pending", "processing", "delivered", "dead_letter"}
    BY <2>1 DEF IInv, TypeOK, Row
  <2>3. CASE outbox[m].status \in {"pending", "processing"}
    BY <2>1, <2>3 DEF Carried
  <2>4. CASE outbox[m].status = "dead_letter"
    BY <2>1, <2>4 DEF GivenUp
  <2>5. CASE outbox[m].status = "delivered"
    <3>1. PICK d \in Days : job[<<m, d>>].state # "none"
      BY <2>5 DEF IInv, Links, Sends, HasJob
    <3>2. <<m, d>> \in Jobs /\ EventOf(<<m, d>>) = e
      BY <2>1 DEF Jobs, EventOf
    <3>3. job[<<m, d>>].state \in {"waiting", "active", "completed", "exhausted"}
      BY <3>1, <3>2 DEF IInv, TypeOK, Job
    <3>4. job[<<m, d>>].state # "completed"
      BY <3>2 DEF IInv, CompletedIsSettled, Settled
    <3> QED BY <2>1, <3>3, <3>4 DEF Carried, GivenUp
  <2> QED BY <2>2, <2>3, <2>4, <2>5
<1> QED BY <1>1, InductiveInvariant, PTL

\* The pipeline implements the journal.
THEOREM JournalImplemented == Spec => ImplementsJournal
<1>1. Init => Journal!Init
  BY DEF Init, Journal!Init
<1>2. IInv /\ [Next]_vars => [Journal!Next]_(Journal!vars)
  BY JournalStep DEF JournalVars, Journal!vars
<1> QED BY <1>1, <1>2, InductiveInvariant, PTL DEF Spec, ImplementsJournal, Journal!Spec
=============================================================================

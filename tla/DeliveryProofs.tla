--------------------------- MODULE DeliveryProofs ---------------------------
(***************************************************************************)
(* Theorems about ApprovalDelivery and EmailDelivery, for any sets of      *)
(* rows, callers and handlers and any assignment of worker ids.  Both keep *)
(* the promise of DeliveryTable.                                           *)
(*                                                                         *)
(* The two modules name the steps of their jobs alike: ApprovalDelivery's  *)
(* are used as they are, EmailDelivery's through the instance Email.       *)
(***************************************************************************)
EXTENDS ApprovalDelivery, EmailRows, FiniteSetTheorems, TLAPS

USE WorkersAssumption, LimitsAssumption, DeliveriesAssumption

\* A busy handler works on a delivery, and has a result once it has posted.
Busy ==
  \A h \in Handlers :
    /\ handler[h].phase # "idle" => handler[h].on \in Deliveries
    /\ handler[h].phase = "posted" => handler[h].result # "none"

\* What AttemptsAccounted needs to be inductive: a pending row has attempts left, and
\* an expired lease that nobody has reclaimed yet pays for the next claim.
Budget ==
  \A d \in Deliveries :
    /\ row[d].status = "pending" => row[d].attempts < MaxAttempts
    /\ row[d].leaseOver => row[d].status = "processing"
    /\ row[d].leaseOver => row[d].attempts < MaxAttempts + expired[d]
    /\ row[d].attempts <= MaxAttempts + expired[d]

\* A handler that will report success has been accepted by the receiver.
Successes ==
  \A h \in Handlers :
    handler[h].phase = "posted" /\ handler[h].result = "success"
      => received[handler[h].on] > 0

\* So a row is marked delivered only if the receiver has accepted a POST of it.
DeliveredWasReceived ==
  \A d \in Deliveries : row[d].status = "delivered" => received[d] > 0

IInv == TypeOK /\ Busy /\ Budget /\ Successes /\ DeliveredWasReceived

\* The row's lock names the handler of its last claim, if that handler has its worker
\* id for itself.
LockedByClaimer ==
  \A h \in Handlers :
    (/\ Alone(h)
     /\ handler[h].phase # "idle"
     /\ row[handler[h].on].status = "processing"
     /\ row[handler[h].on].lockedBy = WorkerOf[h])
      => handler[h].attempt = row[handler[h].on].attempts

\* The handlers that may still bring d one more accepted POST, or that were answered and
\* have not told the row to try again.
Owing(d) ==
  {h \in Handlers : /\ handler[h].phase # "idle" /\ handler[h].on = d
                    /\ handler[h].phase = "posted" => handler[h].result # "success"}

\* A row that nobody can claim has been claimed: that claim is paid for.
Ticket(d) == IF row[d].status = "pending" \/ row[d].leaseOver THEN 0 ELSE 1

\* What DuplicatesExplained needs to be inductive: the POSTs that were accepted and
\* those that may still be are paid for by leases, by lost answers and by the claim.
Owed ==
  \A d \in Deliveries :
    /\ IsFiniteSet(Owing(d))
    /\ Cardinality(Owing(d)) + received[d] <= unanswered[d] + expired[d] + Ticket(d)

-----------------------------------------------------------------------------

\* Rows as inserted, idle handlers: the invariant holds at the start.
LEMMA InitiallyInvariant == Init => IInv /\ LockedByClaimer
<1> SUFFICES ASSUME Init PROVE IInv /\ LockedByClaimer
  OBVIOUS
<1>1. TypeOK
  <2>1. Idle \in Handler
    BY DEF Idle, Handler, Results
  <2>2. [status |-> "pending", attempts |-> 0, lockedBy |-> None, due |-> TRUE,
         leaseOver |-> FALSE] \in Row
    BY DEF Row
  <2>3. row \in [Deliveries -> Row] /\ handler \in [Handlers -> Handler]
    BY <2>1, <2>2 DEF Init
  <2>4. queue \in [Deliveries -> 0..MaxQueued] /\ faults \in 0..MaxFaults
    BY DEF Init
  <2>5. received \in [Deliveries -> Nat] /\ unanswered \in [Deliveries -> Nat]
    BY DEF Init
  <2>6. expired \in [Deliveries -> Nat] /\ revoked \in BOOLEAN
    BY DEF Init
  <2> QED BY <2>3, <2>4, <2>5, <2>6 DEF TypeOK
<1>2. Busy /\ Successes /\ LockedByClaimer
  <2>1. \A h \in Handlers : handler[h].phase = "idle"
    BY DEF Init, Idle
  <2> QED BY <2>1 DEF Busy, Successes, LockedByClaimer
<1>3. Budget /\ DeliveredWasReceived
  BY DEF Init, Budget, DeliveredWasReceived
<1> QED BY <1>1, <1>2, <1>3 DEF IInv

\* The effect of each step on one row and one handler, with its types.  The other
\* rows and handlers stay as they are.
LEMMA ClaimRowEffect ==
  ASSUME TypeOK, NEW h \in Handlers, NEW d \in Deliveries, ClaimRow(h, d)
  PROVE  /\ row' \in [Deliveries -> Row]
         /\ queue' \in [Deliveries -> 0..MaxQueued]
         /\ row'[d].status = "processing"
         /\ row'[d].attempts = row[d].attempts + 1
         /\ row'[d].lockedBy = WorkerOf[h]
         /\ ~row'[d].leaseOver
         /\ \A e \in Deliveries : e # d => row'[e] = row[e]
<1>1. Claimed(row[d], WorkerOf[h]) \in Row
  BY DEF TypeOK, Claimed, Row, Workers
<1> QED BY <1>1 DEF TypeOK, ClaimRow, Claimed

LEMMA MarkEffect ==
  ASSUME IInv, NEW h \in Handlers, Mark(h)
  PROVE  LET d == handler[h].on IN
         /\ d \in Deliveries
         /\ row' \in [Deliveries -> Row]
         /\ \A e \in Deliveries : e # d => row'[e] = row[e]
         /\ \/ row' = row
            \/ /\ row[d].status = "processing"
               /\ row[d].lockedBy = WorkerOf[h]
               /\ row'[d].status # "processing"
               /\ row'[d].status = "pending" => row[d].attempts < MaxAttempts
               /\ row'[d].status = "delivered" => handler[h].result = "success"
               /\ row'[d].attempts = row[d].attempts
               /\ ~row'[d].leaseOver
<1> DEFINE d == handler[h].on
           v == Verdict(row[d], handler[h].result)
<1>1. d \in Deliveries /\ handler[h].result \in Results \ {"none"}
  BY DEF IInv, TypeOK, Busy, Mark, Handler
<1>2. row \in [Deliveries -> Row] /\ row[d] \in Row
  BY <1>1 DEF IInv, TypeOK
<1>3. /\ v \in {"pending"} \cup Terminal
      /\ v = "pending" => row[d].attempts < MaxAttempts
      /\ v = "delivered" => handler[h].result = "success"
  BY <1>1, <1>2 DEF Verdict, Results, Terminal, Row
<1> HIDE DEF v
<1>4. /\ Released(row[d], v) \in Row
      /\ Released(row[d], v).status = v
      /\ Released(row[d], v).attempts = row[d].attempts
      /\ ~Released(row[d], v).leaseOver
  BY <1>2, <1>3 DEF Released, Row
<1>5. row' = IF row[d].status = "processing" /\ row[d].lockedBy = WorkerOf[h]
             THEN [row EXCEPT ![d] = Released(row[d], v)]
             ELSE row
  BY DEF Mark, v
<1> HIDE DEF d
<1>6. CASE row[d].status = "processing" /\ row[d].lockedBy = WorkerOf[h]
  <2>1. row' = [row EXCEPT ![d] = Released(row[d], v)]
    BY <1>5, <1>6
  <2>2. row'[d] = Released(row[d], v) /\ row' \in [Deliveries -> Row]
    BY <1>1, <1>2, <1>4, <2>1
  <2>3. row'[d].status # "processing"
    BY <1>3, <1>4, <2>2 DEF Terminal
  <2> QED BY <1>1, <1>2, <1>3, <1>4, <1>6, <2>1, <2>2, <2>3 DEF d
<1>7. CASE ~(row[d].status = "processing" /\ row[d].lockedBy = WorkerOf[h])
  <2>1. row' = row
    BY <1>5, <1>7
  <2> QED BY <1>1, <1>2, <2>1 DEF d
<1> QED BY <1>6, <1>7

LEMMA TypeStep == IInv /\ [Next]_vars => TypeOK'
<1> SUFFICES ASSUME IInv, [Next]_vars PROVE TypeOK'
  OBVIOUS
<1>0. TypeOK /\ Busy
  BY DEF IInv
<1>1. ASSUME NEW d \in Deliveries, MayRequeue(d) PROVE queue' \in [Deliveries -> 0..MaxQueued]
  BY <1>0, <1>1 DEF TypeOK, MayRequeue
<1>2. ASSUME NEW d \in Deliveries, Enqueue(d) PROVE TypeOK'
  BY <1>0, <1>2 DEF TypeOK, Enqueue
<1>3. ASSUME NEW d \in Deliveries, NotClaimed(d) PROVE TypeOK'
  BY <1>0, <1>3 DEF TypeOK, NotClaimed
<1>4. ASSUME NEW h \in Handlers, NEW d \in Deliveries, Claim(h, d) PROVE TypeOK'
  <2>1. [phase |-> "claimed", on |-> d, attempt |-> row[d].attempts + 1,
         result |-> "none", timedOut |-> FALSE] \in Handler
    BY <1>0 DEF TypeOK, Row, Handler, Results
  <2>2. handler' \in [Handlers -> Handler]
    BY <1>0, <1>4, <2>1 DEF TypeOK, Claim
  <2> QED BY <1>0, <1>4, <2>2, ClaimRowEffect DEF TypeOK, Claim, ClaimRow
<1>5. ASSUME NEW h \in Handlers, NEW d \in Deliveries, ClaimWhileRevoked(h, d) PROVE TypeOK'
  BY <1>0, <1>5, ClaimRowEffect DEF TypeOK, ClaimWhileRevoked, ClaimRow
<1>6. ASSUME NEW h \in Handlers, Post(h) PROVE TypeOK'
  <2>1. handler[h].on \in Deliveries
    BY <1>0, <1>6 DEF Busy, Post, PostAccepted, PostUnanswered, PostRefused
  <2>2. ASSUME NEW result \in Results, Answered(h, result)
        PROVE  handler' \in [Handlers -> Handler]
    <3>1. handler[h] \in Handler
      BY <1>0 DEF TypeOK
    <3>2. [handler[h] EXCEPT !.phase = "posted", !.result = result] \in Handler
      BY <3>1 DEF Handler
    <3> QED BY <1>0, <2>2, <3>2 DEF TypeOK, Answered
  <2>3. {"success", "retryable", "permanent"} \subseteq Results
    BY DEF Results
  <2>4. handler' \in [Handlers -> Handler]
    BY <1>6, <2>2, <2>3 DEF Post, PostAccepted, PostUnanswered, PostRefused
  <2>5. received' \in [Deliveries -> Nat] /\ unanswered' \in [Deliveries -> Nat]
    BY <1>0, <1>6, <2>1 DEF TypeOK, Post, PostAccepted, PostUnanswered, PostRefused
  <2> QED BY <1>0, <1>6, <2>4, <2>5
      DEF TypeOK, Post, PostAccepted, PostUnanswered, PostRefused
<1>7. ASSUME NEW h \in Handlers, Mark(h) PROVE TypeOK'
  <2>1. handler' \in [Handlers -> Handler]
    BY <1>0, <1>7 DEF TypeOK, Mark, Idle, Handler, Results
  <2>2. handler[h].on \in Deliveries /\ row' \in [Deliveries -> Row]
    BY <1>7, MarkEffect
  <2> QED BY <1>0, <1>1, <1>7, <2>1, <2>2 DEF TypeOK, Mark
<1>8. ASSUME NEW h \in Handlers, Timeout(h) PROVE TypeOK'
  <2>1. handler[h].on \in Deliveries
    BY <1>0, <1>8 DEF Busy, Timeout
  <2>2. handler' \in [Handlers -> Handler]
    <3>1. handler[h] \in Handler
      BY <1>0 DEF TypeOK
    <3>2. [handler[h] EXCEPT !.timedOut = TRUE] \in Handler
      BY <3>1 DEF Handler
    <3> QED BY <1>0, <1>8, <3>2 DEF TypeOK, Timeout
  <2> QED BY <1>0, <1>1, <1>8, <2>1, <2>2 DEF TypeOK, Timeout
<1>9. ASSUME NEW h \in Handlers, Lost(h) PROVE TypeOK'
  <2>1. handler[h].on \in Deliveries
    BY <1>0, <1>9 DEF Busy, Lost
  <2>2. handler' \in [Handlers -> Handler]
    BY <1>0, <1>9 DEF TypeOK, Lost, Idle, Handler, Results
  <2> QED BY <1>0, <1>1, <1>9, <2>1, <2>2 DEF TypeOK, Lost
<1>10. ASSUME NEW d \in Deliveries, BackoffOver(d) PROVE TypeOK'
  <2>1. row[d] \in Row
    BY <1>0 DEF TypeOK
  <2>2. [row[d] EXCEPT !.due = TRUE] \in Row
    BY <2>1 DEF Row
  <2>3. row' \in [Deliveries -> Row]
    BY <1>0, <1>10, <2>2 DEF TypeOK, BackoffOver
  <2> QED BY <1>0, <1>10, <2>3 DEF TypeOK, BackoffOver
<1>11. ASSUME NEW d \in Deliveries, LeaseAbandoned(d) \/ LeaseOutlived(d) PROVE TypeOK'
  <2>1. row' \in [Deliveries -> Row]
    <3>1. row[d] \in Row
      BY <1>0 DEF TypeOK
    <3>2. [row[d] EXCEPT !.leaseOver = TRUE] \in Row
      BY <3>1 DEF Row
    <3> QED BY <1>0, <1>11, <3>2 DEF TypeOK, LeaseAbandoned, LeaseOutlived, LeaseEnds
  <2>2. expired' \in [Deliveries -> Nat]
    BY <1>0, <1>11 DEF TypeOK, LeaseAbandoned, LeaseOutlived, LeaseEnds
  <2>3. faults' \in 0..MaxFaults
    BY <1>0, <1>11 DEF TypeOK, LeaseAbandoned, LeaseOutlived
  <2> QED BY <1>0, <1>11, <2>1, <2>2, <2>3
      DEF TypeOK, LeaseAbandoned, LeaseOutlived, LeaseEnds
<1>12. CASE RevokeIntegration
  BY <1>0, <1>12 DEF TypeOK, RevokeIntegration
<1>13. CASE UNCHANGED vars
  BY <1>0, <1>13 DEF TypeOK, vars
<1> QED
  BY <1>2, <1>3, <1>4, <1>5, <1>6, <1>7, <1>8, <1>9, <1>10, <1>11, <1>12, <1>13
  DEF Next, Take

\* A handler that becomes busy gets its delivery in the same step.
LEMMA BusyStep == IInv /\ [Next]_vars => Busy'
<1> SUFFICES ASSUME IInv, [Next]_vars PROVE Busy'
  OBVIOUS
<1>0. TypeOK /\ Busy
  BY DEF IInv
<1>1. CASE UNCHANGED handler
  BY <1>0, <1>1 DEF Busy
<1>2. ASSUME NEW h \in Handlers, NEW d \in Deliveries, Claim(h, d) PROVE Busy'
  BY <1>0, <1>2 DEF Busy, Claim, TypeOK
<1>3. ASSUME NEW h \in Handlers, Post(h) PROVE Busy'
  BY <1>0, <1>3
  DEF Busy, Post, PostAccepted, PostUnanswered, PostRefused, Answered, TypeOK, Handler
<1>4. ASSUME NEW h \in Handlers, Mark(h) \/ Lost(h) PROVE Busy'
  BY <1>0, <1>4 DEF Busy, Mark, Lost, Idle, TypeOK
<1>5. ASSUME NEW h \in Handlers, Timeout(h) PROVE Busy'
  BY <1>0, <1>5 DEF Busy, Timeout, TypeOK, Handler
<1> QED
  BY <1>1, <1>2, <1>3, <1>4, <1>5
  DEF Next, Take, vars, Enqueue, NotClaimed, ClaimWhileRevoked, BackoffOver,
      LeaseAbandoned, LeaseOutlived, LeaseEnds, RevokeIntegration

\* Claims spend the budget of attempts, leases that run out add to it.
LEMMA BudgetStep == IInv /\ [Next]_vars => Budget'
<1> SUFFICES ASSUME IInv, [Next]_vars PROVE Budget'
  OBVIOUS
<1>0. TypeOK /\ Budget
  BY DEF IInv
<1>1. CASE UNCHANGED <<row, expired>>
  BY <1>0, <1>1 DEF Budget
<1>2. ASSUME NEW h \in Handlers, NEW d \in Deliveries, ClaimRow(h, d) PROVE Budget'
  <2>1. row[d].attempts + 1 <= MaxAttempts + expired[d]
    BY <1>0, <1>2 DEF ClaimRow, Claimable, Budget, TypeOK, Row
  <2>2. expired' = expired
    BY <1>2 DEF ClaimRow
  <2> QED BY <1>0, <1>2, <2>1, <2>2, ClaimRowEffect DEF Budget
<1>3. ASSUME NEW h \in Handlers, Mark(h) PROVE Budget'
  BY <1>0, <1>3, MarkEffect, ZenonT(60) DEF Mark, Budget
<1>4. ASSUME NEW d \in Deliveries, BackoffOver(d) PROVE Budget'
  BY <1>0, <1>4, SMTT(30) DEF BackoffOver, Budget, TypeOK, Row
<1>5. ASSUME NEW d \in Deliveries, LeaseEnds(d) PROVE Budget'
  BY <1>0, <1>5, SMTT(30) DEF LeaseEnds, Budget, TypeOK, Row
<1> QED
  BY <1>1, <1>2, <1>3, <1>4, <1>5
  DEF Next, Take, vars, Enqueue, NotClaimed, Claim, ClaimWhileRevoked, Post, PostAccepted,
      PostUnanswered, PostRefused, Timeout, Lost, LeaseAbandoned, LeaseOutlived,
      RevokeIntegration

\* The receiver never forgets a POST, and a row becomes 'delivered' only by the mark of
\* a handler whose POST was accepted.
LEMMA DeliveredStep == IInv /\ [Next]_vars => Successes' /\ DeliveredWasReceived'
<1> SUFFICES ASSUME IInv, [Next]_vars PROVE Successes' /\ DeliveredWasReceived'
  OBVIOUS
<1>0. TypeOK /\ Busy /\ Successes /\ DeliveredWasReceived
  BY DEF IInv
<1>1. CASE UNCHANGED <<row, handler, received>>
  BY <1>0, <1>1 DEF Successes, DeliveredWasReceived
<1>2. ASSUME NEW h \in Handlers, NEW d \in Deliveries, ClaimRow(h, d),
             handler' = handler \/ Claim(h, d)
      PROVE  Successes' /\ DeliveredWasReceived'
  <2>1. received' = received
    BY <1>2 DEF ClaimRow
  <2>2. DeliveredWasReceived'
    BY <1>0, <1>2, <2>1, ClaimRowEffect DEF DeliveredWasReceived
  <2>3. Successes'
    BY <1>0, <1>2, <2>1 DEF Successes, Claim, TypeOK
  <2> QED BY <2>2, <2>3
<1>3. ASSUME NEW h \in Handlers, Post(h) PROVE Successes' /\ DeliveredWasReceived'
  <2>1. handler[h].on \in Deliveries
    BY <1>0, <1>3 DEF Busy, Post, PostAccepted, PostUnanswered, PostRefused
  <2>2. /\ row' = row
        /\ \A d \in Deliveries : received[d] > 0 => received'[d] > 0
    BY <1>0, <1>3 DEF TypeOK, Post, PostAccepted, PostUnanswered, PostRefused
  <2>3. DeliveredWasReceived'
    BY <1>0, <2>2 DEF DeliveredWasReceived
  <2>4. /\ handler'[h].on = handler[h].on
        /\ \A g \in Handlers : g # h => handler'[g] = handler[g]
    BY <1>0, <1>3
    DEF TypeOK, Handler, Post, PostAccepted, PostUnanswered, PostRefused, Answered
  <2>5. handler'[h].result = "success" => received'[handler[h].on] > 0
    BY <1>0, <1>3, <2>1
    DEF TypeOK, Handler, Post, PostAccepted, PostUnanswered, PostRefused, Answered
  <2>6. Successes'
    BY <1>0, <2>2, <2>4, <2>5 DEF Successes, Busy
  <2> QED BY <2>3, <2>6
<1>4. ASSUME NEW h \in Handlers, Mark(h) PROVE Successes' /\ DeliveredWasReceived'
  <2>1. received' = received /\ handler[h].phase = "posted"
    BY <1>4 DEF Mark
  <2>2. DeliveredWasReceived'
    BY <1>0, <1>4, <2>1, MarkEffect DEF DeliveredWasReceived, Successes
  <2>3. Successes'
    BY <1>0, <1>4, <2>1 DEF Successes, Mark, Idle, TypeOK
  <2> QED BY <2>2, <2>3
<1>5. ASSUME NEW h \in Handlers, Timeout(h) \/ Lost(h)
      PROVE  Successes' /\ DeliveredWasReceived'
  BY <1>0, <1>5 DEF Successes, DeliveredWasReceived, Timeout, Lost, Idle, TypeOK, Handler
<1>6. ASSUME NEW d \in Deliveries, BackoffOver(d) \/ LeaseEnds(d),
             UNCHANGED <<handler, received>>
      PROVE  Successes' /\ DeliveredWasReceived'
  <2>1. \A e \in Deliveries : row'[e].status = row[e].status
    BY <1>0, <1>6 DEF BackoffOver, LeaseEnds, TypeOK, Row
  <2> QED BY <1>0, <1>6, <2>1 DEF Successes, DeliveredWasReceived
<1> QED
  BY <1>1, <1>2, <1>3, <1>4, <1>5, <1>6
  DEF Next, Take, vars, Enqueue, NotClaimed, Claim, ClaimWhileRevoked, BackoffOver,
      LeaseAbandoned, LeaseOutlived, LeaseEnds, RevokeIntegration

\* The two variables of DeliveryTable.
Rows     == [d \in Deliveries |-> Seen(d)]
Accepted == {<<d, d>> : d \in {e \in Deliveries : received[e] > 0}}

\* Steps that move no row for its writer.
LEMMA RowsStay ==
  ASSUME \A d \in Deliveries :
           \/ row'[d].status = row[d].status
           \/ row[d].status \notin Terminal /\ row'[d].status \notin Terminal
  PROVE  Rows' = Rows
<1>1. ASSUME NEW d \in Deliveries PROVE Seen(d)' = Seen(d)
  BY DEF Seen, Terminal
<1> QED BY <1>1 DEF Rows

\* The actions of DeliveryTable on them.
LEMMA HandsOver ==
  ASSUME NEW d \in Deliveries, Rows[d] # Table!Absent,
         Accepted' = Accepted \cup {<<d, Rows[d].message>>}, Rows' = Rows
  PROVE  Table!HandOver(d)
BY DEF Table!HandOver, Rows, Accepted

LEMMA Settles ==
  ASSUME NEW d \in Deliveries, NEW outcome, Rows[d].state = "open",
         outcome = "delivered" => <<d, Rows[d].message>> \in Accepted,
         Rows' = [Rows EXCEPT ![d] = [state |-> outcome, message |-> Rows[d].message]],
         Accepted' = Accepted
  PROVE  Table!Settle(d, outcome)
BY DEF Table!Settle, Rows, Accepted

LEMMA InitialTable == Init => Table!Init
<1> SUFFICES ASSUME Init PROVE Table!Init
  OBVIOUS
<1>1. ASSUME NEW d \in Deliveries PROVE Seen(d) \in [state : {"open"}, message : Deliveries]
  BY DEF Init, Seen
<1>2. Accepted = {}
  BY DEF Init, Accepted
<1> QED BY <1>1, <1>2 DEF Table!Init, Accepted

\* A POST that is accepted hands the row over, a mark settles it, and no other step is
\* seen.
LEMMA TableStep == IInv /\ [Next]_vars => [Table!Next]_<<Rows, Accepted>>
<1> SUFFICES ASSUME IInv, [Next]_vars
             PROVE  Table!Next \/ UNCHANGED <<Rows, Accepted>>
  OBVIOUS
<1>0. TypeOK /\ Busy /\ Successes /\ row \in [Deliveries -> Row]
  BY DEF IInv, TypeOK
<1>1. ASSUME received' = received PROVE Accepted' = Accepted
  BY <1>1 DEF Accepted
<1>2. ASSUME NEW h \in Handlers, NEW d \in Deliveries, ClaimRow(h, d)
      PROVE  UNCHANGED <<Rows, Accepted>>
  <2>1. /\ row[d].status \notin Terminal /\ row'[d].status = "processing"
        /\ \A e \in Deliveries : e # d => row'[e] = row[e]
    BY <1>0, <1>2, ClaimRowEffect DEF ClaimRow, Claimable, Terminal
  <2>2. Rows' = Rows
    BY <2>1, RowsStay DEF Terminal
  <2> QED BY <1>1, <1>2, <2>2 DEF ClaimRow
<1>3. ASSUME NEW h \in Handlers, PostAccepted(h) \/ PostUnanswered(h)
      PROVE  Table!Next
  <2>0. PICK d \in Deliveries : d = handler[h].on
    BY <1>0, <1>3 DEF Busy, PostAccepted, PostUnanswered
  <2>1. received' = [received EXCEPT ![d] = @ + 1] /\ UNCHANGED row
    BY <1>3, <2>0 DEF PostAccepted, PostUnanswered
  <2>2. Rows' = Rows
    BY <2>1, RowsStay
  <2>3. /\ Rows[d] = Seen(d) /\ Seen(d).message = d
        /\ Seen(d).state \in {"open", "delivered", "failed"}
    BY <2>1 DEF Rows, Seen
  <2>4. Accepted' = Accepted \cup {<<d, d>>}
    <3>1. \A e \in Deliveries : received'[e] > 0 <=> received[e] > 0 \/ e = d
      BY <1>0, <2>1 DEF TypeOK
    <3> QED BY <2>1, <3>1 DEF Accepted
  <2>5. Table!HandOver(d)
    <3>1. Rows[d] # Table!Absent /\ Rows[d].message = d
      BY <2>3 DEF Table!Absent
    <3>2. Accepted' = Accepted \cup {<<d, Rows[d].message>>}
      BY <2>4, <3>1
    <3> QED BY <2>1, <2>2, <3>1, <3>2, HandsOver
  <2> QED BY <2>1, <2>5 DEF Table!Next
<1>4. ASSUME NEW h \in Handlers, PostRefused(h) PROVE UNCHANGED <<Rows, Accepted>>
  BY <1>1, <1>4, RowsStay DEF PostRefused
<1>5. ASSUME NEW h \in Handlers, Mark(h)
      PROVE  Table!Next \/ UNCHANGED <<Rows, Accepted>>
  <2>0. PICK d \in Deliveries : d = handler[h].on
    BY <1>5, MarkEffect
  <2>1. /\ row' \in [Deliveries -> Row]
        /\ \A e \in Deliveries : e # d => row'[e] = row[e]
        /\ \/ row' = row
           \/ /\ row[d].status = "processing"
              /\ row'[d].status # "processing"
              /\ row'[d].status = "delivered" => handler[h].result = "success"
    BY <1>5, <2>0, MarkEffect
  <2>2. handler[h].phase = "posted" /\ received' = received
    BY <1>5 DEF Mark
  <2>3. handler[h].result = "success" => received[d] > 0
    BY <1>0, <2>0, <2>2 DEF Successes
  <2>4. CASE row' = row \/ row'[d].status \notin Terminal
    <3>1. Rows' = Rows
      BY <2>1, <2>4, RowsStay DEF Terminal
    <3> QED BY <1>1, <2>2, <3>1
  <2>5. CASE row[d].status = "processing" /\ row'[d].status \in Terminal
    <3> DEFINE outcome == IF row'[d].status = "delivered" THEN "delivered" ELSE "failed"
    <3>1. /\ Seen(d) = [state |-> "open", message |-> d]
          /\ row'[d].status = "delivered" \/ row'[d].status = "dead_letter"
      BY <2>5 DEF Seen, Terminal
    <3>2. Rows' = [Rows EXCEPT ![d] = [state |-> outcome, message |-> d]]
      <4>1. ASSUME NEW e \in Deliveries
            PROVE  Rows'[e] = IF e = d THEN [state |-> outcome, message |-> d] ELSE Rows[e]
        BY <2>1, <3>1 DEF Rows, Seen
      <4>2. Rows' = [e \in Deliveries |-> Rows'[e]] /\ DOMAIN Rows = Deliveries
        BY DEF Rows
      <4> HIDE DEF outcome
      <4> QED BY <4>1, <4>2
    <3>3. outcome = "delivered" => <<d, d>> \in Accepted
      BY <2>1, <2>3, <2>5, <3>1 DEF Accepted
    <3>4. outcome \in {"delivered", "failed"} /\ Rows[d] = [state |-> "open", message |-> d]
      BY <2>1, <3>1 DEF Rows
    <3> HIDE DEF outcome
    <3>5. Table!Settle(d, outcome)
      <4>1. Rows[d].state = "open" /\ Rows[d].message = d /\ Accepted' = Accepted
        BY <1>1, <2>2, <3>4
      <4>2. /\ outcome = "delivered" => <<d, Rows[d].message>> \in Accepted
            /\ Rows' = [Rows EXCEPT ![d] = [state |-> outcome, message |-> Rows[d].message]]
        BY <3>2, <3>3, <4>1
      <4> QED BY <2>1, <4>1, <4>2, Settles
    <3> QED BY <2>1, <3>4, <3>5 DEF Table!Next
  <2> QED BY <2>1, <2>4, <2>5
<1>6. ASSUME NEW d \in Deliveries, BackoffOver(d) \/ LeaseEnds(d)
      PROVE  UNCHANGED <<Rows, Accepted>>
  <2>1. \A e \in Deliveries : row'[e].status = row[e].status
    BY <1>0, <1>6 DEF BackoffOver, LeaseEnds, Row
  <2> QED BY <1>1, <1>6, <2>1, RowsStay DEF BackoffOver, LeaseEnds
<1>7. CASE UNCHANGED <<row, received>>
  BY <1>1, <1>7, RowsStay
<1> QED
  BY <1>2, <1>3, <1>4, <1>5, <1>6, <1>7
  DEF Next, Take, vars, Enqueue, NotClaimed, Claim, ClaimWhileRevoked, Post,
      Timeout, Lost, LeaseAbandoned, LeaseOutlived, RevokeIntegration

\* A claim under another id takes the lock away.
LEMMA LockedByClaimerStep ==
  IInv /\ LockedByClaimer /\ [Next]_vars => LockedByClaimer'
<1> SUFFICES ASSUME IInv, LockedByClaimer, [Next]_vars PROVE LockedByClaimer'
  OBVIOUS
<1>0. TypeOK /\ Busy
  BY DEF IInv
<1>1. CASE UNCHANGED <<row, handler>>
  BY <1>1 DEF LockedByClaimer
<1>2. ASSUME NEW h \in Handlers, NEW d \in Deliveries, ClaimRow(h, d),
             \/ handler' = handler
             \/ Claim(h, d)
      PROVE  LockedByClaimer'
  <2>1. /\ \A g \in Handlers : g # h => handler'[g] = handler[g]
        /\ handler[h].phase = "idle"
        /\ handler'[h].phase # "idle" => /\ handler'[h].on = d
                                         /\ handler'[h].attempt = row[d].attempts + 1
    BY <1>0, <1>2 DEF Claim, ClaimRow, TypeOK
  <2>2. ASSUME NEW g \in Handlers, Alone(g), handler'[g].phase # "idle",
               row'[handler'[g].on].status = "processing",
               row'[handler'[g].on].lockedBy = WorkerOf[g]
        PROVE  handler'[g].attempt = row'[handler'[g].on].attempts
    <3>1. CASE g = h
      BY <1>0, <1>2, <2>1, <2>2, <3>1, ClaimRowEffect
    <3>2. CASE g # h
      <4>1. handler'[g] = handler[g] /\ handler[g].on \in Deliveries
        BY <1>0, <2>1, <2>2, <3>2 DEF Busy
      <4>2. handler[g].on # d
        BY <1>0, <1>2, <2>1, <2>2, <3>2, <4>1, ClaimRowEffect DEF Alone
      <4>3. row'[handler[g].on] = row[handler[g].on]
        BY <1>0, <1>2, <4>1, <4>2, ClaimRowEffect
      <4> QED BY <2>2, <4>1, <4>3 DEF LockedByClaimer
    <3> QED BY <3>1, <3>2
  <2> QED BY <2>2 DEF LockedByClaimer
<1>3. ASSUME NEW h \in Handlers,
             row' = row,
             \A g \in Handlers : handler'[g].phase # "idle" =>
               /\ handler[g].phase # "idle"
               /\ handler'[g].on = handler[g].on
               /\ handler'[g].attempt = handler[g].attempt
      PROVE  LockedByClaimer'
  BY <1>3 DEF LockedByClaimer
<1>4. ASSUME NEW h \in Handlers, Post(h) \/ Timeout(h) \/ Lost(h) PROVE LockedByClaimer'
  <2>1. row' = row
    BY <1>4 DEF Post, PostAccepted, PostUnanswered, PostRefused, Timeout, Lost
  <2>2. \A g \in Handlers : handler'[g].phase # "idle" =>
          /\ handler[g].phase # "idle"
          /\ handler'[g].on = handler[g].on
          /\ handler'[g].attempt = handler[g].attempt
    BY <1>0, <1>4 DEF TypeOK, Handler, Post, PostAccepted, PostUnanswered, PostRefused,
       Answered, Timeout, Lost, Idle
  <2> QED BY <1>3, <2>1, <2>2
<1>5. ASSUME NEW h \in Handlers, Mark(h) PROVE LockedByClaimer'
  <2>1. /\ handler'[h].phase = "idle"
        /\ \A g \in Handlers : g # h => handler'[g] = handler[g]
    BY <1>0, <1>5 DEF Mark, Idle, TypeOK
  <2>2. ASSUME NEW d \in Deliveries
        PROVE  row'[d] = row[d] \/ row'[d].status # "processing"
    BY <1>5, MarkEffect
  <2>3. \A g \in Handlers : handler'[g].phase # "idle" => handler[g].on \in Deliveries
    BY <1>0, <2>1 DEF Busy
  <2> QED BY <2>1, <2>2, <2>3 DEF LockedByClaimer
<1>6. ASSUME NEW d \in Deliveries, BackoffOver(d) \/ LeaseEnds(d), handler' = handler
      PROVE  LockedByClaimer'
  <2>1. \A e \in Deliveries : /\ row'[e].status = row[e].status
                              /\ row'[e].lockedBy = row[e].lockedBy
                              /\ row'[e].attempts = row[e].attempts
    BY <1>0, <1>6 DEF BackoffOver, LeaseEnds, TypeOK, Row
  <2> QED BY <1>0, <1>6, <2>1 DEF LockedByClaimer, Busy
<1> QED
  BY <1>1, <1>2, <1>4, <1>5, <1>6
  DEF Next, Take, vars, Enqueue, NotClaimed, Claim, ClaimWhileRevoked, BackoffOver,
      LeaseAbandoned, LeaseOutlived, LeaseEnds, RevokeIntegration

-----------------------------------------------------------------------------
(* Copies at the receiver.                                                 *)

LEMMA InitiallyOwed == Init => Owed
<1> SUFFICES ASSUME Init, NEW d \in Deliveries
             PROVE  /\ IsFiniteSet(Owing(d))
                    /\ Cardinality(Owing(d)) + received[d]
                         <= unanswered[d] + expired[d] + Ticket(d)
  BY DEF Owed
<1>1. Owing(d) = {}
  BY DEF Init, Idle, Owing
<1>2. received[d] = 0 /\ unanswered[d] = 0 /\ expired[d] = 0 /\ Ticket(d) \in Nat
  BY DEF Init, Ticket
<1> QED BY <1>1, <1>2, FS_EmptySet

\* A step that adds at most as much to what is owed for d, and to what it has received,
\* as to what pays for them.
LEMMA OwedKept ==
  ASSUME TypeOK, Owed, NEW d \in Deliveries, NEW n \in Int,
         received'[d] \in Nat, unanswered'[d] \in Nat, expired'[d] \in Nat,
         IsFiniteSet(Owing(d)'),
         Cardinality(Owing(d)') <= Cardinality(Owing(d)) + n,
         n + received'[d] - received[d]
           <= (unanswered'[d] - unanswered[d]) + (expired'[d] - expired[d])
                + (Ticket(d)' - Ticket(d))
  PROVE  /\ IsFiniteSet(Owing(d)')
         /\ Cardinality(Owing(d)') + received'[d]
              <= unanswered'[d] + expired'[d] + Ticket(d)'
<1>1. /\ received[d] \in Nat /\ unanswered[d] \in Nat /\ expired[d] \in Nat
      /\ Ticket(d) \in Int /\ Ticket(d)' \in Int
  BY DEF TypeOK, Ticket
<1>2. Cardinality(Owing(d)) \in Nat /\ Cardinality(Owing(d)') \in Nat
  BY FS_CardinalityType DEF Owed
<1>3. Cardinality(Owing(d)) + received[d] <= unanswered[d] + expired[d] + Ticket(d)
  BY DEF Owed
<1> QED BY <1>1, <1>2, <1>3


\* Less is owed after a step that takes handlers away, and one more copy after a claim.
LEMMA OwingShrinks ==
  ASSUME Owed, NEW d \in Deliveries, Owing(d)' \subseteq Owing(d)
  PROVE  IsFiniteSet(Owing(d)') /\ Cardinality(Owing(d)') <= Cardinality(Owing(d)) + 0
<1>1. IsFiniteSet(Owing(d)) /\ Cardinality(Owing(d)) \in Nat
  BY FS_CardinalityType DEF Owed
<1>2. IsFiniteSet(Owing(d)') /\ Cardinality(Owing(d)') <= Cardinality(Owing(d))
  BY <1>1, FS_Subset
<1>3. Cardinality(Owing(d)') \in Nat
  BY <1>2, FS_CardinalityType
<1> QED BY <1>1, <1>2, <1>3

LEMMA OwingPaid ==
  ASSUME Owed, NEW d \in Deliveries, NEW h \in Owing(d),
         Owing(d)' \subseteq Owing(d) \ {h}
  PROVE  IsFiniteSet(Owing(d)') /\ Cardinality(Owing(d)') <= Cardinality(Owing(d)) + (-1)
<1>1. IsFiniteSet(Owing(d)) /\ Cardinality(Owing(d)) \in Nat
  BY FS_CardinalityType DEF Owed
<1>2. /\ IsFiniteSet(Owing(d) \ {h})
      /\ Cardinality(Owing(d) \ {h}) = Cardinality(Owing(d)) - 1
  BY <1>1, FS_RemoveElement
<1>3. IsFiniteSet(Owing(d)') /\ Cardinality(Owing(d)') <= Cardinality(Owing(d) \ {h})
  BY <1>2, FS_Subset
<1>4. Cardinality(Owing(d)') \in Nat
  BY <1>3, FS_CardinalityType
<1> QED BY <1>1, <1>2, <1>3, <1>4

LEMMA OwingGrows ==
  ASSUME Owed, NEW d \in Deliveries, NEW h,
         Owing(d)' \subseteq Owing(d) \cup {h}
  PROVE  IsFiniteSet(Owing(d)') /\ Cardinality(Owing(d)') <= Cardinality(Owing(d)) + 1
<1>1. IsFiniteSet(Owing(d)) /\ Cardinality(Owing(d)) \in Nat
  BY FS_CardinalityType DEF Owed
<1>2. /\ IsFiniteSet(Owing(d) \cup {h})
      /\ Cardinality(Owing(d) \cup {h}) <= Cardinality(Owing(d)) + 1
  <2>1. /\ IsFiniteSet(Owing(d) \cup {h})
        /\ Cardinality(Owing(d) \cup {h}) =
             IF h \in Owing(d) THEN Cardinality(Owing(d)) ELSE Cardinality(Owing(d)) + 1
    BY <1>1, FS_AddElement
  <2> QED BY <1>1, <2>1
<1>3. IsFiniteSet(Owing(d)') /\ Cardinality(Owing(d)') <= Cardinality(Owing(d) \cup {h})
  BY <1>2, FS_Subset
<1>4. Cardinality(Owing(d)') \in Nat /\ Cardinality(Owing(d) \cup {h}) \in Nat
  BY <1>2, <1>3, FS_CardinalityType
<1> QED BY <1>1, <1>2, <1>3, <1>4

\* A claim spends the row's ticket, a lease that runs out is one, an accepted POST is no
\* longer owed, and a failure that is marked gives its ticket back.
LEMMA OwedStep == IInv /\ Owed /\ [Next]_vars => Owed'
<1> SUFFICES ASSUME IInv, Owed, [Next]_vars, NEW d \in Deliveries
             PROVE  /\ IsFiniteSet(Owing(d)')
                    /\ Cardinality(Owing(d)') + received'[d]
                         <= unanswered'[d] + expired'[d] + Ticket(d)'
  BY DEF Owed
<1> DEFINE Goal == /\ IsFiniteSet(Owing(d)')
                   /\ Cardinality(Owing(d)') + received'[d]
                        <= unanswered'[d] + expired'[d] + Ticket(d)'
<1>0. /\ TypeOK /\ Busy /\ row[d] \in Row
      /\ received[d] \in Nat /\ unanswered[d] \in Nat /\ expired[d] \in Nat
      /\ Ticket(d) \in 0..1
  BY DEF IInv, TypeOK, Ticket
<1>1. /\ received'[d] \in Nat /\ unanswered'[d] \in Nat /\ expired'[d] \in Nat
      /\ Ticket(d)' \in 0..1
  <2>1. TypeOK'
    BY TypeStep
  <2> QED BY <2>1 DEF TypeOK, Ticket
\* Whatever else it does, a step with these effects keeps the account.
<1>2. ASSUME Owing(d)' \subseteq Owing(d),
             UNCHANGED <<received, unanswered>>,
             expired[d] + Ticket(d) <= expired'[d] + Ticket(d)'
      PROVE  Goal
  <2>1. 0 + received'[d] - received[d]
          <= (unanswered'[d] - unanswered[d]) + (expired'[d] - expired[d])
               + (Ticket(d)' - Ticket(d))
    BY <1>0, <1>1, <1>2
  <2> QED BY <1>0, <1>1, <1>2, <2>1, OwingShrinks, OwedKept
<1>3. ASSUME \A g \in Handlers : /\ handler'[g].phase = handler[g].phase
                                 /\ handler'[g].on = handler[g].on
                                 /\ handler'[g].result = handler[g].result
      PROVE  Owing(d)' = Owing(d)
  BY <1>3 DEF Owing
<1>4. ASSUME row' = row PROVE Ticket(d)' = Ticket(d)
  BY <1>4 DEF Ticket
<1>5. ASSUME NEW h \in Handlers, NEW e \in Deliveries, Claim(h, e) PROVE Goal
  <2>1. /\ UNCHANGED <<received, unanswered, expired>> /\ handler[h].phase = "idle"
        /\ Claimable(e)
    BY <1>5 DEF Claim, ClaimRow
  <2>2. /\ handler'[h].on = e
        /\ \A g \in Handlers : g # h => handler'[g] = handler[g]
    BY <1>0, <1>5 DEF Claim, TypeOK
  <2>3. CASE e # d
    <3>1. Owing(d)' \subseteq Owing(d)
      BY <2>2, <2>3 DEF Owing
    <3>2. row'[d] = row[d]
      BY <1>0, <1>5, <2>3, ClaimRowEffect DEF Claim
    <3>3. Ticket(d)' = Ticket(d)
      BY <3>2 DEF Ticket
    <3> QED BY <1>0, <1>2, <2>1, <3>1, <3>3
  <2>4. CASE e = d
    <3>1. Owing(d)' \subseteq Owing(d) \cup {h}
      BY <2>2 DEF Owing
    <3>2. Ticket(d) = 0
      BY <2>1, <2>4 DEF Claimable, Ticket
    <3>3. Ticket(d)' = 1
      BY <1>0, <1>5, <2>4, ClaimRowEffect DEF Claim, Ticket
    <3>4. 1 + received'[d] - received[d]
            <= (unanswered'[d] - unanswered[d]) + (expired'[d] - expired[d])
                 + (Ticket(d)' - Ticket(d))
      BY <1>0, <2>1, <3>2, <3>3
    <3>5. IsFiniteSet(Owing(d)') /\ Cardinality(Owing(d)') <= Cardinality(Owing(d)) + 1
      BY <3>1, OwingGrows
    <3> QED BY <1>0, <1>1, <3>4, <3>5, OwedKept
  <2> QED BY <2>3, <2>4
<1>6. ASSUME NEW h \in Handlers, NEW e \in Deliveries, ClaimWhileRevoked(h, e) PROVE Goal
  <2>1. UNCHANGED <<received, unanswered, expired, handler>> /\ Claimable(e)
    BY <1>6 DEF ClaimWhileRevoked, ClaimRow
  <2>2. Owing(d)' = Owing(d)
    BY <1>3, <2>1
  <2>3. Ticket(d) <= Ticket(d)'
    <3>1. CASE e # d
      <4>1. row'[d] = row[d]
        BY <1>0, <1>6, <3>1, ClaimRowEffect DEF ClaimWhileRevoked
      <4> QED BY <1>0, <4>1 DEF Ticket
    <3>2. CASE e = d
      <4>1. Ticket(d) = 0
        BY <2>1, <3>2 DEF Claimable, Ticket
      <4> QED BY <1>1, <4>1
    <3> QED BY <3>1, <3>2
  <2> QED BY <1>0, <1>1, <1>2, <2>1, <2>2, <2>3
<1>7. ASSUME NEW h \in Handlers, Post(h) PROVE Goal
  <2>1. /\ handler[h].phase = "claimed" /\ handler[h].on \in Deliveries
        /\ handler[h] \in Handler
        /\ UNCHANGED <<row, expired>>
    BY <1>0, <1>7 DEF Busy, TypeOK, Post, PostAccepted, PostUnanswered, PostRefused
  <2>2. ASSUME NEW result, Answered(h, result)
        PROVE  /\ handler'[h].phase = "posted" /\ handler'[h].on = handler[h].on
               /\ handler'[h].result = result
               /\ \A g \in Handlers : g # h => handler'[g] = handler[g]
    BY <1>0, <2>1, <2>2 DEF Answered, TypeOK, Handler
  <2>3. Ticket(d)' = Ticket(d)
    BY <1>4, <2>1
  <2>4. ASSUME NEW result, Answered(h, result) PROVE Owing(d)' \subseteq Owing(d)
    BY <2>1, <2>2, <2>4 DEF Owing
  <2>5. CASE PostAccepted(h)
    <3>1. /\ received' = [received EXCEPT ![handler[h].on] = @ + 1]
          /\ Answered(h, "success") /\ unanswered' = unanswered
      BY <2>5 DEF PostAccepted
    <3>2. CASE handler[h].on # d
      <4>1. received'[d] = received[d]
        BY <1>0, <3>1, <3>2 DEF TypeOK
      <4>2. 0 + received'[d] - received[d]
              <= (unanswered'[d] - unanswered[d]) + (expired'[d] - expired[d])
                   + (Ticket(d)' - Ticket(d))
        BY <1>0, <2>1, <2>3, <3>1, <4>1
      <4> QED BY <1>0, <1>1, <2>4, <3>1, <4>2, OwingShrinks, OwedKept
    <3>3. CASE handler[h].on = d
      <4>1. received'[d] = received[d] + 1
        BY <1>0, <3>1, <3>3 DEF TypeOK
      <4>2. h \in Owing(d) /\ Owing(d)' \subseteq Owing(d) \ {h}
        BY <2>1, <2>2, <3>1, <3>3 DEF Owing
      <4>3. (-1) + received'[d] - received[d]
              <= (unanswered'[d] - unanswered[d]) + (expired'[d] - expired[d])
                   + (Ticket(d)' - Ticket(d))
        BY <1>0, <2>1, <2>3, <3>1, <4>1
      <4> QED BY <1>0, <1>1, <4>2, <4>3, OwingPaid, OwedKept
    <3> QED BY <3>2, <3>3
  <2>6. CASE PostUnanswered(h)
    <3>1. /\ received' = [received EXCEPT ![handler[h].on] = @ + 1]
          /\ unanswered' = [unanswered EXCEPT ![handler[h].on] = @ + 1]
          /\ Answered(h, "retryable")
      BY <2>6 DEF PostUnanswered
    <3>2. received'[d] - received[d] = unanswered'[d] - unanswered[d]
      BY <1>0, <3>1 DEF TypeOK
    <3>3. 0 + received'[d] - received[d]
            <= (unanswered'[d] - unanswered[d]) + (expired'[d] - expired[d])
                 + (Ticket(d)' - Ticket(d))
      BY <1>0, <1>1, <2>1, <2>3, <3>2
    <3> QED BY <1>0, <1>1, <2>4, <3>1, <3>3, OwingShrinks, OwedKept
  <2>7. CASE PostRefused(h)
    <3>1. UNCHANGED <<received, unanswered>> /\ Owing(d)' \subseteq Owing(d)
      BY <2>4, <2>7 DEF PostRefused
    <3> QED BY <1>0, <1>2, <2>1, <2>3, <3>1
  <2> QED BY <1>7, <2>5, <2>6, <2>7 DEF Post
<1>8. ASSUME NEW h \in Handlers, Mark(h) PROVE Goal
  <2>1. /\ handler[h].phase = "posted"
        /\ UNCHANGED <<received, unanswered, expired>>
        /\ handler'[h].phase = "idle"
        /\ \A g \in Handlers : g # h => handler'[g] = handler[g]
    BY <1>0, <1>8 DEF Mark, Idle, TypeOK
  <2>2. Owing(d)' \subseteq Owing(d) \ {h}
    BY <2>1 DEF Owing
  <2>3. CASE row'[d] = row[d]
    <3>1. Ticket(d)' = Ticket(d)
      BY <2>3 DEF Ticket
    <3> QED BY <1>0, <1>2, <2>1, <2>2, <3>1
  <2>4. CASE row'[d] # row[d]
    <3>1. /\ handler[h].on = d /\ row[d].status = "processing"
          /\ row'[d].status = "delivered" \/ handler[h].result # "success"
          /\ ~row'[d].leaseOver
      <4>1. handler[h].on = d /\ row[d].status = "processing" /\ ~row'[d].leaseOver
        BY <1>8, <2>4, MarkEffect
      <4>2. row' = [row EXCEPT ![d] = Released(row[d], Verdict(row[d], handler[h].result))]
        BY <1>8, <2>4, <4>1 DEF Mark
      <4>3. row'[d].status = Verdict(row[d], handler[h].result)
        BY <1>0, <4>2 DEF Released, TypeOK, Row
      <4> QED BY <4>1, <4>3 DEF Verdict
    <3>2. CASE row'[d].status = "pending"
      <4>1. h \in Owing(d)
        BY <2>1, <3>1, <3>2 DEF Owing
      <4>2. (-1) + received'[d] - received[d]
              <= (unanswered'[d] - unanswered[d]) + (expired'[d] - expired[d])
                   + (Ticket(d)' - Ticket(d))
        BY <1>0, <1>1, <2>1
      <4> QED BY <1>0, <1>1, <2>2, <4>1, <4>2, OwingPaid, OwedKept
    <3>3. CASE row'[d].status # "pending"
      <4>1. Ticket(d)' = 1
        BY <3>1, <3>3 DEF Ticket
      <4> QED BY <1>0, <1>2, <2>1, <2>2, <4>1
    <3> QED BY <3>2, <3>3
  <2> QED BY <2>3, <2>4
<1>9. ASSUME NEW h \in Handlers, Timeout(h) PROVE Goal
  <2>1. \A g \in Handlers : /\ handler'[g].phase = handler[g].phase
                            /\ handler'[g].on = handler[g].on
                            /\ handler'[g].result = handler[g].result
    BY <1>0, <1>9 DEF Timeout, TypeOK, Handler
  <2>2. UNCHANGED <<row, received, unanswered, expired>>
    BY <1>9 DEF Timeout
  <2> QED BY <1>0, <1>2, <1>3, <1>4, <2>1, <2>2
<1>10. ASSUME NEW h \in Handlers, Lost(h) PROVE Goal
  <2>1. /\ UNCHANGED <<row, received, unanswered, expired>>
        /\ handler'[h].phase = "idle"
        /\ \A g \in Handlers : g # h => handler'[g] = handler[g]
    BY <1>0, <1>10 DEF Lost, Idle, TypeOK
  <2>2. Owing(d)' \subseteq Owing(d)
    BY <2>1 DEF Owing
  <2> QED BY <1>0, <1>2, <1>4, <2>1, <2>2
<1>11. ASSUME NEW e \in Deliveries, BackoffOver(e) PROVE Goal
  <2>1. UNCHANGED <<handler, received, unanswered, expired>>
    BY <1>11 DEF BackoffOver
  <2>2. row'[d].status = row[d].status /\ row'[d].leaseOver = row[d].leaseOver
    BY <1>0, <1>11 DEF BackoffOver, TypeOK, Row
  <2>3. Ticket(d)' = Ticket(d)
    BY <2>2 DEF Ticket
  <2> QED BY <1>0, <1>2, <1>3, <2>1, <2>3
<1>12. ASSUME NEW e \in Deliveries, LeaseEnds(e) PROVE Goal
  <2>1. UNCHANGED <<handler, received, unanswered>>
    BY <1>12 DEF LeaseEnds
  <2>2. expired[d] + Ticket(d) <= expired'[d] + Ticket(d)'
    <3>1. CASE e = d
      <4>1. expired'[d] = expired[d] + 1
        BY <1>0, <1>12, <3>1 DEF LeaseEnds, TypeOK
      <4> QED BY <1>0, <1>1, <4>1
    <3>2. CASE e # d
      <4>1. expired'[d] = expired[d] /\ row'[d] = row[d]
        BY <1>0, <1>12, <3>2 DEF LeaseEnds, TypeOK
      <4>2. Ticket(d)' = Ticket(d)
        BY <4>1 DEF Ticket
      <4> QED BY <1>0, <4>1, <4>2
    <3> QED BY <3>1, <3>2
  <2> QED BY <1>2, <1>3, <2>1, <2>2
<1>13. ASSUME UNCHANGED <<row, handler, received, unanswered, expired>> PROVE Goal
  BY <1>0, <1>2, <1>3, <1>4, <1>13
<1> QED
  BY <1>5, <1>6, <1>7, <1>8, <1>9, <1>10, <1>11, <1>12, <1>13
  DEF Next, Take, vars, Enqueue, NotClaimed, LeaseAbandoned, LeaseOutlived, RevokeIntegration

-----------------------------------------------------------------------------

\* The inductive invariant holds in every reachable state.
THEOREM InductiveInvariant == Spec => []IInv
<1>1. IInv /\ [Next]_vars => IInv'
  BY TypeStep, BusyStep, BudgetStep, DeliveredStep DEF IInv
<1>2. Init => IInv
  BY InitiallyInvariant
<1> QED BY <1>1, <1>2, PTL DEF Spec

\* Rows, queue and handlers keep their types; statuses stay within the table's.
THEOREM TypeCorrect == Spec => []TypeOK
<1>1. IInv => TypeOK
  BY DEF IInv
<1> QED BY <1>1, InductiveInvariant, PTL

\* attempt_count exceeds max_attempts by no more than the leases that ran out.
THEOREM AttemptsAreAccounted == Spec => []AttemptsAccounted
<1>1. IInv => AttemptsAccounted
  BY DEF IInv, Budget, AttemptsAccounted
<1> QED BY <1>1, InductiveInvariant, PTL

\* approval_deliveries keeps the promise of DeliveryTable, for any sharing of ids: a row
\* is settled once, and as delivered only after an accepted POST.
THEOREM TableImplemented == Spec => ImplementsTable
<1>1. Init => Table!Init
  BY InitialTable
<1>2. IInv /\ [Next]_vars =>
        [Table!Next]_<<[d \in Deliveries |-> Seen(d)],
                       {<<d, d>> : d \in {e \in Deliveries : received[e] > 0}}>>
  BY TableStep DEF Rows, Accepted
<1> QED
  BY <1>1, <1>2, InductiveInvariant, PTL DEF Spec, ImplementsTable, Table!Spec

\* A handler with a worker id of its own never marks another handler's claim.
THEOREM OnlyOwnClaimsMarked == Spec => MarksOwnClaim
<1>1. Init => LockedByClaimer
  BY InitiallyInvariant
<1>2. IInv /\ LockedByClaimer /\ [Next]_vars => LockedByClaimer'
  BY LockedByClaimerStep
<1>3. IInv /\ LockedByClaimer /\ [Next]_vars =>
        [\A h \in Handlers :
           (Alone(h) /\ handler[h].phase = "posted" /\ Mark(h) /\ row' # row)
             => handler[h].attempt = row[handler[h].on].attempts]_vars
  <2>1. ASSUME IInv, LockedByClaimer, NEW h \in Handlers, Alone(h),
               handler[h].phase = "posted", Mark(h), row' # row
        PROVE  handler[h].attempt = row[handler[h].on].attempts
    BY <2>1, MarkEffect DEF LockedByClaimer
  <2> QED BY <2>1
<1> QED BY <1>1, <1>2, <1>3, InductiveInvariant, PTL DEF Spec, MarksOwnClaim

\* The receiver gets a second copy only for an answer that did not come back or a lease
\* that ran out, for any sharing of ids.
THEOREM DuplicatesAreExplained == Spec => []DuplicatesExplained
<1>1. Init => IInv /\ Owed
  BY InitiallyInvariant, InitiallyOwed
<1>2. IInv /\ Owed /\ [Next]_vars => Owed'
  BY OwedStep
<1>3. IInv /\ Owed => DuplicatesExplained
  <2> SUFFICES ASSUME IInv, Owed, NEW d \in Deliveries
               PROVE  received[d] <= 1 + unanswered[d] + expired[d]
    BY DEF DuplicatesExplained
  <2>1. /\ received[d] \in Nat /\ unanswered[d] \in Nat /\ expired[d] \in Nat
        /\ Ticket(d) \in 0..1 /\ Cardinality(Owing(d)) \in Nat
    BY FS_CardinalityType DEF IInv, TypeOK, Owed, Ticket
  <2> QED BY <2>1 DEF Owed
<1> QED BY <1>1, <1>2, <1>3, InductiveInvariant, PTL DEF Spec

-----------------------------------------------------------------------------
(* EmailDelivery.  What it is about, EmailRows, is at hand; the job and    *)
(* its steps are called by the instance's name.                            *)

Email == INSTANCE EmailDelivery

USE DEF Exists, Contents, Email!Exists, Email!Contents, Email!Workers, Workers

\* A handler that has a claim works on a row that exists - Prune keeps it -, and knows
\* what it was answered.
Sending ==
  \A h \in Handlers :
    /\ handler[h].phase = "idle" => handler[h].on = None
    /\ handler[h].phase # "idle" => handler[h].on \in Keys /\ Exists(handler[h].on)
    /\ handler[h].phase = "answered" =>
         /\ handler[h].reason \in Email!Reasons
         /\ handler[h].reason = "ok" => Email!Message(h) \in mailbox
         /\ handler[h].reason \in {"refused", "aborted"} => final[handler[h].on]

\* Nothing was handed over but the content of a row that exists.
Carried ==
  \A m \in mailbox : m \in Keys \X Contents
                     /\ Exists(m[1]) /\ m[2] = email[m[1]].content

\* Whoever was told yes asked for what the row says.
Told ==
  \A c \in Callers :
    call[c] \in {"created", "replayed"} => email[KeyOf[c]].content = ContentOf[c]

\* A key without a row is as it was at the start.
Unused == \A k \in Keys : ~Exists(k) => email[k].status = "pending"

\* A row is sent only if the provider has its content.
SentWasAccepted ==
  \A k \in Keys : email[k].status = "sent" => <<k, email[k].content>> \in mailbox

MailInv == /\ Email!TypeOK /\ Sending /\ Carried /\ Told /\ Unused
           /\ SentWasAccepted /\ VerdictExplained

\* What a caller, the provider and the pruning see of the rows: a step that keeps it
\* can only move leases and handlers.
LEMMA MailMoves ==
  ASSUME MailInv, email' \in [Keys -> Email!Email],
         \A k \in Keys : /\ email'[k].content = email[k].content
                         /\ email[k].status \in {"pending", "processing"}
                              => email'[k].status \in {"pending", "processing"}
                         /\ email[k].status \in Email!Terminal => email'[k] = email[k]
                         /\ ~Exists(k) => email'[k] = email[k],
         UNCHANGED <<mailbox, final>>
  PROVE  Carried' /\ Unused' /\ SentWasAccepted' /\ VerdictExplained'
<1>1. Carried'
  BY DEF MailInv, Carried, Exists
<1>2. Unused'
  BY DEF MailInv, Unused, Exists
<1>3. \A k \in Keys : email'[k].status \in Email!Terminal => email'[k] = email[k]
  BY DEF MailInv, Email!TypeOK, Email!Email, Email!Terminal
<1>4. SentWasAccepted' /\ VerdictExplained'
  BY <1>3 DEF MailInv, SentWasAccepted, VerdictExplained, Email!Terminal
<1> QED BY <1>1, <1>2, <1>4

LEMMA MailInitially ==
  ASSUME Email!Init
  PROVE  MailInv
<1>1. Email!TypeOK
  <2>1. Email!NoEmail \in Email!Email
    BY DEF Email!NoEmail, Email!Email
  <2>2. Email!Idle \in Email!Handler
    BY DEF Email!Idle, Email!Handler
  <2>3. queue \in [Keys -> 0..MaxQueued] /\ faults \in 0..MaxFaults
    BY DEF Email!Init
  <2> QED BY <2>1, <2>2, <2>3 DEF Email!Init, Email!TypeOK
<1>2. Sending
  BY DEF Email!Init, Email!Idle, Sending
<1>3. Carried /\ Told /\ Unused /\ SentWasAccepted /\ VerdictExplained
  BY DEF Email!Init, Email!NoEmail, Carried, Told, Unused, SentWasAccepted,
         VerdictExplained, Exists
<1> QED BY <1>1, <1>2, <1>3 DEF MailInv

\* What a handler knows stays true as long as the rows it works on keep their content.
LEMMA SendingStays ==
  ASSUME MailInv, \A k \in Keys : Exists(k) => email'[k].content = email[k].content,
         \A h \in Handlers : /\ handler'[h].phase = handler[h].phase
                             /\ handler'[h].on = handler[h].on
                             /\ handler'[h].reason = handler[h].reason,
         UNCHANGED <<mailbox, final>>
  PROVE  Sending'
<1>1. ASSUME NEW h \in Handlers
      PROVE  /\ handler'[h].phase = "idle" => handler'[h].on = None
             /\ handler'[h].phase # "idle" =>
                  handler'[h].on \in Keys /\ email'[handler'[h].on].content # None
             /\ handler'[h].phase = "answered" =>
                  /\ handler'[h].reason \in Email!Reasons
                  /\ handler'[h].reason = "ok" =>
                       <<handler'[h].on, email'[handler'[h].on].content>> \in mailbox'
                  /\ handler'[h].reason \in {"refused", "aborted"} => final'[handler'[h].on]
  <2>1. CASE handler[h].phase = "idle"
    BY <2>1 DEF MailInv, Sending
  <2>2. CASE handler[h].phase # "idle"
    <3>1. email'[handler[h].on].content = email[handler[h].on].content
      BY <2>2 DEF MailInv, Sending
    <3> QED BY <2>2, <3>1 DEF MailInv, Sending, Exists, Email!Message
  <2> QED BY <2>1, <2>2
<1> QED BY <1>1 DEF Sending, Exists, Email!Message, Email!Reasons

LEMMA SendingMoves ==
  ASSUME MailInv, NEW h \in Handlers, NEW r \in Email!Handler,
         handler' = [handler EXCEPT ![h] = r],
         \A k \in Keys : email'[k].content = email[k].content,
         mailbox \subseteq mailbox', \A k \in Keys : final[k] => final'[k],
         r.phase = "idle" => r.on = None,
         r.phase # "idle" => r.on \in Keys /\ Exists(r.on),
         r.phase = "answered" =>
           /\ r.reason \in Email!Reasons
           /\ r.reason = "ok" => <<r.on, email[r.on].content>> \in mailbox'
           /\ r.reason \in {"refused", "aborted"} => final'[r.on]
  PROVE  Sending' /\ handler' \in [Handlers -> Email!Handler]
<1>1. handler \in [Handlers -> Email!Handler]
  BY DEF MailInv, Email!TypeOK
<1>2. handler'[h] = r /\ \A g \in Handlers : g # h => handler'[g] = handler[g]
  BY <1>1
<1>3. ASSUME NEW g \in Handlers
      PROVE  /\ handler'[g].phase = "idle" => handler'[g].on = None
             /\ handler'[g].phase # "idle" =>
                  handler'[g].on \in Keys /\ email'[handler'[g].on].content # None
             /\ handler'[g].phase = "answered" =>
                  /\ handler'[g].reason \in Email!Reasons
                  /\ handler'[g].reason = "ok" =>
                       <<handler'[g].on, email'[handler'[g].on].content>> \in mailbox'
                  /\ handler'[g].reason \in {"refused", "aborted"} => final'[handler'[g].on]
  <2>1. CASE g = h
    BY <2>1, <1>2 DEF Exists
  <2>2. CASE g # h
    <3>1. CASE handler[g].phase = "idle"
      BY <1>2, <2>2, <3>1 DEF MailInv, Sending
    <3>2. CASE handler[g].phase # "idle"
      <4>1. /\ handler'[g] = handler[g] /\ handler[g].on \in Keys
            /\ email'[handler[g].on].content = email[handler[g].on].content
            /\ email[handler[g].on].content # None
        BY <1>2, <2>2, <3>2 DEF MailInv, Sending, Exists
      <4> QED BY <3>2, <4>1 DEF MailInv, Sending, Email!Message
    <3> QED BY <3>1, <3>2
  <2> QED BY <2>1, <2>2
<1> QED BY <1>1, <1>3 DEF Sending, Exists, Email!Message, Email!Reasons

\* Calls.
LEMMA LookupKeeps ==
  ASSUME MailInv, NEW c \in Callers, Email!CreateLookup(c)
  PROVE  MailInv'
<1>1. UNCHANGED <<email, queue, handler, revoked, mailbox, final, faults>>
  BY DEF Email!CreateLookup
<1>2. PICK answer \in {"absent", "replayed", "conflict", "refused"} :
        /\ call' = [call EXCEPT ![c] = answer]
        /\ answer = "replayed" => email[KeyOf[c]].content = ContentOf[c]
  BY DEF Email!CreateLookup, Email!Answer
<1>3. Told'
  BY <1>1, <1>2 DEF MailInv, Email!TypeOK, Told
<1>4. Email!TypeOK'
  BY <1>1, <1>2 DEF MailInv, Email!TypeOK
<1>5. Sending' /\ Carried' /\ Unused' /\ SentWasAccepted' /\ VerdictExplained'
  BY <1>1 DEF MailInv, Sending, Carried, Unused, SentWasAccepted, VerdictExplained,
              Exists, Email!Message
<1> QED BY <1>3, <1>4, <1>5 DEF MailInv

\* Nothing refers to a key that has no row: the row that is inserted is news to all.
LEMMA InsertKeeps ==
  ASSUME MailInv, NEW c \in Callers, Email!CreateInsert(c)
  PROVE  MailInv'
<1> DEFINE k == KeyOf[c]
<1>1. UNCHANGED <<queue, handler, revoked, mailbox, final, faults>>
  BY DEF Email!CreateInsert
<1>2. /\ k \in Keys /\ ContentOf[c] \in Contents /\ ContentOf[c] # None
      /\ email \in [Keys -> Email!Email] /\ email[k] \in Email!Email
  BY CallsAssumption DEF Contents, MailInv, Email!TypeOK
<1>3. CASE Exists(k)
  <2>1. UNCHANGED email /\ call' = [call EXCEPT ![c] = "conflict"]
    BY <1>3 DEF Email!CreateInsert, Email!Answer
  <2>2. Told'
    BY <2>1 DEF MailInv, Email!TypeOK, Told
  <2>3. Email!TypeOK'
    BY <1>1, <2>1 DEF MailInv, Email!TypeOK
  <2>4. Sending' /\ Carried' /\ Unused' /\ SentWasAccepted' /\ VerdictExplained'
    BY <1>1, <2>1 DEF MailInv, Sending, Carried, Unused, SentWasAccepted,
                      VerdictExplained, Exists, Email!Message
  <2> QED BY <2>2, <2>3, <2>4 DEF MailInv
<1>4. CASE ~Exists(k)
  <2>1. /\ email' = [email EXCEPT ![k].content = ContentOf[c]]
        /\ call' = [call EXCEPT ![c] = "created"]
    BY <1>4 DEF Email!CreateInsert, Email!Answer
  <2>2. email' \in [Keys -> Email!Email]
    BY <1>2, <2>1 DEF Email!Email
  <2>3. /\ email'[k].content = ContentOf[c] /\ email'[k].status = email[k].status
        /\ \A j \in Keys : j # k => email'[j] = email[j]
    BY <1>2, <2>1 DEF Email!Email
  <2>4. Email!TypeOK'
    BY <1>1, <2>1, <2>2 DEF MailInv, Email!TypeOK
  <2>5. email[k].status = "pending" /\ email[k].content = None
    BY <1>2, <1>4 DEF MailInv, Unused, Exists
  <2>6. Told'
    <3>1. ASSUME NEW b \in Callers, call'[b] \in {"created", "replayed"}
          PROVE  email'[KeyOf[b]].content = ContentOf[b]
      <4>1. CASE b = c
        BY <2>3, <4>1
      <4>2. CASE b # c
        <5>1. call[b] \in {"created", "replayed"}
          BY <2>1, <3>1, <4>2 DEF MailInv, Email!TypeOK
        <5>2. email[KeyOf[b]].content = ContentOf[b] /\ KeyOf[b] \in Keys
              /\ ContentOf[b] # None
          BY <5>1, CallsAssumption DEF MailInv, Told, Contents
        <5> QED BY <2>3, <2>5, <5>2
      <4> QED BY <4>1, <4>2
    <3> QED BY <3>1 DEF Told
  <2>7. Sending'
    BY <1>1, <2>3, <2>5, SendingStays DEF Exists
  <2>8. Carried'
    BY <1>1, <2>3, <2>5 DEF MailInv, Carried, Exists
  <2>9. Unused' /\ SentWasAccepted' /\ VerdictExplained'
    BY <1>1, <1>2, <2>3, <2>5
    DEF MailInv, Unused, SentWasAccepted, VerdictExplained, Exists
  <2> QED BY <2>4, <2>6, <2>7, <2>8, <2>9 DEF MailInv
<1> QED BY <1>3, <1>4

\* Steps that leave rows, calls and the provider alone.
LEMMA QueueKeeps ==
  ASSUME MailInv, UNCHANGED <<call, email, handler, mailbox, final>>,
         queue' \in [Keys -> 0..MaxQueued], revoked' \in BOOLEAN, faults' \in 0..MaxFaults
  PROVE  MailInv'
BY DEF MailInv, Email!TypeOK, Sending, Carried, Told, Unused, SentWasAccepted,
       VerdictExplained, Exists, Email!Message

LEMMA MailRequeued ==
  ASSUME MailInv, NEW k \in Keys, Email!MayRequeue(k)
  PROVE  queue' \in [Keys -> 0..MaxQueued]
BY DEF MailInv, Email!TypeOK, Email!MayRequeue

\* The handler.
LEMMA MailClaimKeeps ==
  ASSUME MailInv, NEW h \in Handlers, NEW k \in Keys, Email!Claim(h, k)
  PROVE  MailInv'
<1> DEFINE new == [content |-> email[k].content, status |-> "processing",
                   attempts |-> email[k].attempts + 1, lockedBy |-> WorkerOf[h],
                   due |-> FALSE, leaseOver |-> FALSE]
           r   == [phase |-> "claimed", on |-> k, attempt |-> email[k].attempts + 1,
                   reason |-> None, timedOut |-> FALSE]
<1>1. /\ email \in [Keys -> Email!Email] /\ email[k] \in Email!Email
      /\ Exists(k) /\ email[k].status \in {"pending", "processing"}
  BY DEF MailInv, Email!TypeOK, Email!Claim, Email!Due
<1>2. /\ email' = [email EXCEPT ![k] = new] /\ handler' = [handler EXCEPT ![h] = r]
      /\ UNCHANGED <<call, revoked, mailbox, final, faults>>
      /\ queue' = [queue EXCEPT ![k] = @ - 1] /\ queue[k] > 0
  BY DEF Email!Claim
<1>3. new \in Email!Email /\ r \in Email!Handler
  BY <1>1 DEF Email!Email, Email!Handler, Email!Workers
<1>4. /\ email' \in [Keys -> Email!Email]
      /\ email'[k].content = email[k].content /\ email'[k].status = "processing"
      /\ \A j \in Keys : j # k => email'[j] = email[j]
  BY <1>1, <1>2, <1>3
<1>5. r.phase = "claimed" /\ r.on = k
  OBVIOUS
<1> HIDE DEF new, r
<1>6. Sending' /\ handler' \in [Handlers -> Email!Handler]
  BY <1>1, <1>2, <1>3, <1>4, <1>5, SendingMoves
<1>7. Carried' /\ Unused' /\ SentWasAccepted' /\ VerdictExplained'
  BY <1>1, <1>2, <1>4, MailMoves DEF Email!Terminal
<1>8. Told'
  BY <1>2, <1>4 DEF MailInv, Told
<1>9. queue' \in [Keys -> 0..MaxQueued]
  BY <1>2 DEF MailInv, Email!TypeOK
<1> QED BY <1>2, <1>4, <1>6, <1>7, <1>8, <1>9 DEF MailInv, Email!TypeOK

\* A message that is accepted is the content of the row its handler works on.
LEMMA MailSendKeeps ==
  ASSUME MailInv, NEW h \in Handlers, Email!Send(h)
  PROVE  MailInv'
<1>1. PICK reason \in Email!Reasons :
        /\ Email!Answered(h, reason)
        /\ \/ mailbox' = mailbox \cup {Email!Message(h)}
           \/ mailbox' = mailbox /\ reason # "ok"
  BY DEF Email!Send, Email!SendAccepted, Email!SendRefused
<1>2. handler[h].phase = "claimed"
  BY DEF Email!Send, Email!SendAccepted, Email!SendRefused
<1> DEFINE r == [handler[h] EXCEPT !.phase = "answered", !.reason = reason]
<1>3. PICK k \in Keys : k = handler[h].on /\ Exists(k)
  BY <1>2 DEF MailInv, Sending
<1>4. /\ handler' = [handler EXCEPT ![h] = r]
      /\ final' = [final EXCEPT ![k] = @ \/ reason \in {"refused", "aborted"}]
      /\ UNCHANGED <<call, email, queue, revoked, faults>>
  BY <1>1, <1>3 DEF Email!Answered, MailInv, Email!TypeOK
<1>5. /\ handler[h] \in Email!Handler /\ email \in [Keys -> Email!Email]
      /\ email[k].content \in Contents /\ final \in [Keys -> BOOLEAN]
      /\ mailbox \subseteq Keys \X Contents
  BY <1>3 DEF MailInv, Email!TypeOK, Email!Email, Exists
<1>6. /\ r \in Email!Handler /\ r.phase = "answered" /\ r.reason = reason /\ r.on = k
  BY <1>3, <1>5 DEF Email!Handler
<1>7. /\ final' \in [Keys -> BOOLEAN] /\ \A j \in Keys : final[j] => final'[j]
      /\ reason \in {"refused", "aborted"} => final'[k]
  BY <1>4, <1>5
<1>8. Email!Message(h) = <<k, email[k].content>>
  BY <1>3 DEF Email!Message
<1> HIDE DEF r
<1>9. Sending' /\ handler' \in [Handlers -> Email!Handler]
  BY <1>1, <1>3, <1>4, <1>6, <1>7, <1>8, SendingMoves
<1>10. mailbox' \subseteq Keys \X Contents /\ Carried'
  BY <1>1, <1>3, <1>4, <1>5, <1>8 DEF MailInv, Carried, Exists
<1>11. SentWasAccepted' /\ VerdictExplained'
  BY <1>1, <1>4, <1>7 DEF MailInv, SentWasAccepted, VerdictExplained
<1>12. Told' /\ Unused'
  BY <1>4 DEF MailInv, Told, Unused, Exists
<1> QED BY <1>4, <1>7, <1>9, <1>10, <1>11, <1>12 DEF MailInv, Email!TypeOK

\* What a mark does to a row: it closes it as sent only if the provider has its content,
\* and gives it up early only on a final answer.
LEMMA MailMarkEffect ==
  ASSUME MailInv, NEW h \in Handlers, Email!Mark(h), NEW k \in Keys, k = handler[h].on
  PROVE  /\ email' \in [Keys -> Email!Email]
         /\ \A j \in Keys : j # k => email'[j] = email[j]
         /\ \/ email' = email
            \/ /\ email[k].status = "processing"
               /\ email'[k].content = email[k].content
               /\ email'[k].attempts = email[k].attempts
               /\ email'[k].status \in {"pending", "sent", "permanent_failure"}
               /\ email'[k].status = "sent" => <<k, email[k].content>> \in mailbox
               /\ (email'[k].status = "permanent_failure" /\ email[k].attempts < MaxAttempts)
                    => final[k]
<1> DEFINE v   == Email!Verdict(email[k], handler[h].reason)
           new == [content |-> email[k].content, status |-> v,
                   attempts |-> email[k].attempts, lockedBy |-> None,
                   due |-> FALSE, leaseOver |-> FALSE]
<1>1. /\ email \in [Keys -> Email!Email] /\ email[k] \in Email!Email
      /\ handler[h].reason \in Email!Reasons
      /\ handler[h].reason = "ok" => <<k, email[k].content>> \in mailbox
      /\ handler[h].reason \in {"refused", "aborted"} => final[k]
  BY DEF MailInv, Sending, Email!TypeOK, Email!Mark, Email!Message
<1>2. email[k].attempts \in Nat /\ MaxAttempts \in Nat
  BY <1>1 DEF Email!Email
<1>3. /\ v \in {"pending", "sent", "permanent_failure"}
      /\ v = "sent" => handler[h].reason = "ok"
      /\ (v = "permanent_failure" /\ email[k].attempts < MaxAttempts)
           => handler[h].reason \in {"refused", "aborted"}
  BY <1>1, <1>2 DEF Email!Verdict, Email!Retryable, Email!Reasons
<1>4. CASE /\ ~revoked /\ email[k].status = "processing"
           /\ email[k].lockedBy = WorkerOf[h]
  <2>1. email' = [email EXCEPT ![k] = new]
    BY <1>4 DEF Email!Mark
  <2> HIDE DEF v
  <2>2. new \in Email!Email
    BY <1>1, <1>3 DEF Email!Email, Email!Terminal
  <2>3. /\ email' \in [Keys -> Email!Email]
        /\ email'[k].content = email[k].content /\ email'[k].status = v
        /\ email'[k].attempts = email[k].attempts
        /\ \A j \in Keys : j # k => email'[j] = email[j]
    BY <1>1, <2>1, <2>2
  <2> QED BY <1>1, <1>3, <1>4, <2>3
<1>5. CASE ~(/\ ~revoked /\ email[k].status = "processing"
             /\ email[k].lockedBy = WorkerOf[h])
  <2>1. email' = email
    BY <1>5 DEF Email!Mark
  <2> QED BY <1>1, <2>1
<1> QED BY <1>4, <1>5

LEMMA MailMarkKeeps ==
  ASSUME MailInv, NEW h \in Handlers, Email!Mark(h)
  PROVE  MailInv'
<1>1. PICK k \in Keys : k = handler[h].on /\ Exists(k)
  BY DEF MailInv, Sending, Email!Mark
<1>2. /\ handler' = [handler EXCEPT ![h] = Email!Idle]
      /\ UNCHANGED <<call, revoked, mailbox, final, faults>>
      /\ UNCHANGED queue \/ Email!MayRequeue(k)
  BY <1>1 DEF Email!Mark
<1>3. /\ email' \in [Keys -> Email!Email]
      /\ \A j \in Keys : j # k => email'[j] = email[j]
      /\ \/ email' = email
         \/ /\ email[k].status = "processing"
            /\ email'[k].content = email[k].content
            /\ email'[k].attempts = email[k].attempts
            /\ email'[k].status \in {"pending", "sent", "permanent_failure"}
            /\ email'[k].status = "sent" => <<k, email[k].content>> \in mailbox
            /\ (email'[k].status = "permanent_failure" /\ email[k].attempts < MaxAttempts)
                 => final[k]
  BY <1>1, MailMarkEffect
<1>4. \A j \in Keys : email'[j].content = email[j].content
  BY <1>3
<1>5. /\ Email!Idle \in Email!Handler /\ Email!Idle.phase = "idle"
      /\ Email!Idle.on = None
  BY DEF Email!Idle, Email!Handler
<1>6. Sending' /\ handler' \in [Handlers -> Email!Handler]
  BY <1>2, <1>4, <1>5, SendingMoves
<1>7. Told' /\ Carried'
  <2>1. Told'
    BY <1>2, <1>4, CallsAssumption DEF MailInv, Told
  <2>2. Carried'
    BY <1>2, <1>4 DEF MailInv, Carried, Exists
  <2> QED BY <2>1, <2>2
<1>8. Unused'
  BY <1>1, <1>3, <1>4 DEF MailInv, Unused, Exists
<1>9. SentWasAccepted' /\ VerdictExplained'
  BY <1>2, <1>3, <1>4 DEF MailInv, SentWasAccepted, VerdictExplained
<1>10. queue' \in [Keys -> 0..MaxQueued]
  BY <1>2, MailRequeued DEF MailInv, Email!TypeOK
<1> QED BY <1>2, <1>3, <1>6, <1>7, <1>8, <1>9, <1>10 DEF MailInv, Email!TypeOK

\* A handler that dies, gives up or is told to stop.
LEMMA MailStopKeeps ==
  ASSUME MailInv, NEW h \in Handlers,
         Email!AbortBeforeSend(h) \/ Email!Timeout(h) \/ Email!Lost(h)
  PROVE  MailInv'
<1>1. UNCHANGED <<call, email, revoked, mailbox, final>> /\ handler[h].phase # "idle"
  BY DEF Email!AbortBeforeSend, Email!Timeout, Email!Lost
<1>2. PICK k \in Keys : k = handler[h].on /\ Exists(k)
  BY <1>1 DEF MailInv, Sending
<1>3. UNCHANGED queue \/ Email!MayRequeue(k)
  BY <1>2 DEF Email!AbortBeforeSend, Email!Timeout, Email!Lost
<1>4. queue' \in [Keys -> 0..MaxQueued] /\ faults' \in 0..MaxFaults
  BY <1>3, MailRequeued
  DEF MailInv, Email!TypeOK, Email!AbortBeforeSend, Email!Timeout, Email!Lost
<1>5. Sending' /\ handler' \in [Handlers -> Email!Handler]
  <2>1. CASE Email!Timeout(h)
    <3> DEFINE r == [handler[h] EXCEPT !.timedOut = TRUE]
    <3>1. handler[h] \in Email!Handler
      BY DEF MailInv, Email!TypeOK
    <3>2. /\ r \in Email!Handler /\ r.phase = handler[h].phase /\ r.on = k
          /\ r.reason = handler[h].reason
      BY <1>2, <3>1 DEF Email!Handler
    <3>3. handler' = [handler EXCEPT ![h] = r]
      BY <2>1 DEF Email!Timeout
    <3>4. r.phase = "answered" =>
            /\ r.reason \in Email!Reasons
            /\ r.reason = "ok" => <<r.on, email[r.on].content>> \in mailbox'
            /\ r.reason \in {"refused", "aborted"} => final'[r.on]
      BY <1>1, <1>2, <3>2 DEF MailInv, Sending, Email!Message
    <3> HIDE DEF r
    <3> QED BY <1>1, <1>2, <3>2, <3>3, <3>4, SendingMoves
  <2>2. CASE ~Email!Timeout(h)
    <3>1. handler' = [handler EXCEPT ![h] = Email!Idle]
      BY <2>2 DEF Email!AbortBeforeSend, Email!Lost
    <3>2. /\ Email!Idle \in Email!Handler /\ Email!Idle.phase = "idle"
          /\ Email!Idle.on = None
      BY DEF Email!Idle, Email!Handler
    <3> QED BY <1>1, <3>1, <3>2, SendingMoves
  <2> QED BY <2>1, <2>2
<1>6. Told' /\ Carried' /\ Unused' /\ SentWasAccepted' /\ VerdictExplained'
  BY <1>1 DEF MailInv, Told, Carried, Unused, SentWasAccepted, VerdictExplained,
              Exists
<1> QED BY <1>1, <1>4, <1>5, <1>6 DEF MailInv, Email!TypeOK

\* Time.
LEMMA MailTimeKeeps ==
  ASSUME MailInv, NEW k \in Keys,
         Email!BackoffOver(k) \/ Email!LeaseAbandoned(k) \/ Email!LeaseOutlived(k)
  PROVE  MailInv'
<1>1. /\ UNCHANGED <<call, queue, handler, revoked, mailbox, final>>
      /\ faults' \in 0..MaxFaults
  BY DEF Email!BackoffOver, Email!LeaseAbandoned, Email!LeaseOutlived, Email!LeaseEnds,
         MailInv, Email!TypeOK
<1>2. /\ email \in [Keys -> Email!Email] /\ email[k] \in Email!Email
      /\ Exists(k) /\ email[k].status \in {"pending", "processing"}
  BY DEF MailInv, Email!TypeOK, Unused, Email!BackoffOver, Email!LeaseAbandoned,
         Email!LeaseOutlived, Email!LeaseEnds
<1>3. PICK new \in Email!Email :
        /\ email' = [email EXCEPT ![k] = new]
        /\ new.content = email[k].content /\ new.status = email[k].status
  <2>1. CASE Email!BackoffOver(k)
    <3>1. [email[k] EXCEPT !.due = TRUE] \in Email!Email
      BY <1>2 DEF Email!Email
    <3> QED BY <1>2, <2>1, <3>1 DEF Email!BackoffOver, Email!Email
  <2>2. CASE Email!LeaseAbandoned(k) \/ Email!LeaseOutlived(k)
    <3>1. [email[k] EXCEPT !.leaseOver = TRUE] \in Email!Email
      BY <1>2 DEF Email!Email
    <3> QED BY <1>2, <2>2, <3>1
        DEF Email!LeaseAbandoned, Email!LeaseOutlived, Email!LeaseEnds, Email!Email
  <2> QED BY <2>1, <2>2
<1>4. /\ email' \in [Keys -> Email!Email]
      /\ email'[k].content = email[k].content /\ email'[k].status = email[k].status
      /\ \A j \in Keys : j # k => email'[j] = email[j]
  BY <1>2, <1>3
<1>5. Sending'
  BY <1>1, <1>4, SendingStays
<1>6. Carried' /\ Unused' /\ SentWasAccepted' /\ VerdictExplained'
  BY <1>1, <1>2, <1>4, MailMoves DEF Email!Terminal
<1>7. Told'
  BY <1>1, <1>4, CallsAssumption DEF MailInv, Told
<1> QED BY <1>1, <1>4, <1>5, <1>6, <1>7 DEF MailInv, Email!TypeOK

\* The pruning takes the row, the provider's memory of its key and the calls together.
LEMMA PruneKeeps ==
  ASSUME MailInv, NEW k \in Keys, Email!Prune(k)
  PROVE  MailInv'
<1>1. /\ email' = [email EXCEPT ![k] = Email!NoEmail]
      /\ mailbox' = {message \in mailbox : message[1] # k}
      /\ final' = [final EXCEPT ![k] = FALSE]
      /\ call' = [c \in Callers |-> IF KeyOf[c] = k THEN "new" ELSE call[c]]
      /\ UNCHANGED <<queue, handler, revoked, faults>>
      /\ \A h \in Handlers : handler[h].on # k
  BY DEF Email!Prune
<1>2. email \in [Keys -> Email!Email] /\ final \in [Keys -> BOOLEAN]
  BY DEF MailInv, Email!TypeOK
<1>3. /\ Email!NoEmail \in Email!Email /\ Email!NoEmail.status = "pending"
      /\ Email!NoEmail.content = None
  BY DEF Email!NoEmail, Email!Email
<1>4. /\ email' \in [Keys -> Email!Email]
      /\ email'[k] = Email!NoEmail /\ \A j \in Keys : j # k => email'[j] = email[j]
  BY <1>1, <1>2, <1>3
<1>5. /\ final' \in [Keys -> BOOLEAN]
      /\ \A j \in Keys : j # k => final'[j] = final[j]
  BY <1>1, <1>2
<1>6. Told' /\ call' \in [Callers -> {"new", "absent", "created", "replayed", "conflict",
                                      "refused"}]
  BY <1>1, <1>4, CallsAssumption DEF MailInv, Email!TypeOK, Told
<1>7. Sending'
  <2>1. ASSUME NEW h \in Handlers
        PROVE  /\ handler[h].phase = "idle" => handler[h].on = None
               /\ handler[h].phase # "idle" =>
                    handler[h].on \in Keys /\ email'[handler[h].on].content # None
               /\ handler[h].phase = "answered" =>
                    /\ handler[h].reason \in Email!Reasons
                    /\ handler[h].reason = "ok" =>
                         <<handler[h].on, email'[handler[h].on].content>> \in mailbox'
                    /\ handler[h].reason \in {"refused", "aborted"} => final'[handler[h].on]
    <3>1. CASE handler[h].phase = "idle"
      BY <3>1 DEF MailInv, Sending
    <3>2. CASE handler[h].phase # "idle"
      <4>1. PICK j \in Keys : j = handler[h].on /\ j # k /\ Exists(j)
        BY <1>1, <3>2 DEF MailInv, Sending
      <4>2. email'[j] = email[j] /\ final'[j] = final[j]
        BY <1>4, <1>5, <4>1
      <4>3. <<j, email[j].content>> \in mailbox => <<j, email[j].content>> \in mailbox'
        BY <1>1, <4>1
      <4> QED BY <3>2, <4>1, <4>2, <4>3 DEF MailInv, Sending, Email!Message, Exists
    <3> QED BY <3>1, <3>2
  <2> QED BY <1>1, <2>1 DEF Sending, Exists, Email!Message, Email!Reasons
<1>8. Carried' /\ mailbox' \subseteq Keys \X Contents
  <2>1. ASSUME NEW m \in mailbox'
        PROVE  m \in Keys \X Contents /\ email'[m[1]].content # None
               /\ m[2] = email'[m[1]].content
    <3>1. m \in mailbox /\ m[1] # k
      BY <1>1
    <3>2. /\ m \in Keys \X Contents /\ email[m[1]].content # None
          /\ m[2] = email[m[1]].content
      BY <3>1 DEF MailInv, Carried, Exists
    <3>3. m[1] \in Keys
      BY <3>2
    <3> QED BY <1>4, <3>1, <3>2, <3>3
  <2> QED BY <2>1 DEF Carried, Exists, Contents
<1>9. Unused'
  BY <1>3, <1>4 DEF MailInv, Unused, Exists
<1>10. SentWasAccepted' /\ VerdictExplained'
  BY <1>1, <1>3, <1>4, <1>5 DEF MailInv, SentWasAccepted, VerdictExplained
<1> QED BY <1>1, <1>4, <1>5, <1>6, <1>7, <1>8, <1>9, <1>10 DEF MailInv, Email!TypeOK

LEMMA MailStep ==
  ASSUME MailInv, [Email!Next]_(Email!vars)
  PROVE  MailInv'
<1>1. ASSUME NEW c \in Callers, Email!CreateLookup(c) \/ Email!CreateInsert(c)
      PROVE  MailInv'
  BY <1>1, LookupKeeps, InsertKeeps
<1>2. ASSUME NEW k \in Keys, Email!Enqueue(k) \/ Email!NotClaimed(k) PROVE MailInv'
  <2>1. queue' \in [Keys -> 0..MaxQueued]
    BY <1>2 DEF MailInv, Email!TypeOK, Email!Enqueue, Email!NotClaimed
  <2> QED BY <1>2, <2>1, QueueKeeps DEF Email!Enqueue, Email!NotClaimed, MailInv, Email!TypeOK
<1>3. ASSUME NEW k \in Keys, NEW h \in Handlers, Email!Claim(h, k) PROVE MailInv'
  BY <1>3, MailClaimKeeps
<1>4. ASSUME NEW k \in Keys,
             Email!BackoffOver(k) \/ Email!LeaseAbandoned(k) \/ Email!LeaseOutlived(k)
      PROVE  MailInv'
  BY <1>4, MailTimeKeeps
<1>5. ASSUME NEW k \in Keys, Email!Prune(k) PROVE MailInv'
  BY <1>5, PruneKeeps
<1>6. ASSUME NEW h \in Handlers,
             \/ Email!Send(h) \/ Email!AbortBeforeSend(h) \/ Email!Mark(h)
             \/ Email!Timeout(h) \/ Email!Lost(h)
      PROVE  MailInv'
  BY <1>6, MailSendKeeps, MailMarkKeeps, MailStopKeeps
<1>7. CASE Email!RevokeIntegration \/ UNCHANGED Email!vars
  BY <1>7, QueueKeeps DEF Email!RevokeIntegration, Email!vars, MailInv, Email!TypeOK
<1> QED BY <1>1, <1>2, <1>3, <1>4, <1>5, <1>6, <1>7 DEF Email!Next, Email!Take

-----------------------------------------------------------------------------
(* EmailDelivery as a DeliveryTable.                                       *)

\* The rows of DeliveryTable; what it says was accepted is the mailbox.
MailRows == [k \in Keys |-> SeenEmail(k)]

LEMMA MailSeen ==
  ASSUME NEW k \in Keys
  PROVE  /\ MailRows[k].message = email[k].content
         /\ ~Exists(k) => MailRows[k] = EmailTable!Absent
         /\ Exists(k) =>
              /\ email[k].status = "sent" => MailRows[k].state = "delivered"
              /\ email[k].status = "permanent_failure" => MailRows[k].state = "failed"
              /\ email[k].status \in {"pending", "processing"} => MailRows[k].state = "open"
BY DEF MailRows, SeenEmail, Exists, EmailTable!Absent

LEMMA MailRowsStay ==
  ASSUME \A k \in Keys :
           /\ email'[k].content = email[k].content
           /\ \/ email'[k].status = email[k].status
              \/ /\ email[k].status \in {"pending", "processing"}
                 /\ email'[k].status \in {"pending", "processing"}
  PROVE  MailRows' = MailRows
<1>1. ASSUME NEW k \in Keys PROVE SeenEmail(k)' = SeenEmail(k)
  BY DEF SeenEmail, Exists
<1> QED BY <1>1 DEF MailRows

\* The actions of DeliveryTable on the rows.
LEMMA MailAdds ==
  ASSUME NEW k \in Keys, NEW m, MailRows[k] = EmailTable!Absent,
         MailRows' = [MailRows EXCEPT ![k] = [state |-> "open", message |-> m]],
         mailbox' = mailbox
  PROVE  EmailTable!Add(k, m)
BY DEF EmailTable!Add, MailRows

LEMMA MailHandsOver ==
  ASSUME NEW k \in Keys, MailRows[k] # EmailTable!Absent, MailRows' = MailRows,
         mailbox' = mailbox \cup {<<k, MailRows[k].message>>}
  PROVE  EmailTable!HandOver(k)
BY DEF EmailTable!HandOver, MailRows

LEMMA MailSettles ==
  ASSUME NEW k \in Keys, NEW outcome, MailRows[k].state = "open",
         outcome = "delivered" => <<k, MailRows[k].message>> \in mailbox,
         MailRows' = [MailRows EXCEPT ![k] = [state |-> outcome,
                                              message |-> MailRows[k].message]],
         mailbox' = mailbox
  PROVE  EmailTable!Settle(k, outcome)
BY DEF EmailTable!Settle, MailRows

LEMMA MailForgets ==
  ASSUME NEW k \in Keys, MailRows[k].state \in {"delivered", "failed"},
         MailRows' = [MailRows EXCEPT ![k] = EmailTable!Absent],
         mailbox' = {pair \in mailbox : pair[1] # k}
  PROVE  EmailTable!Forget(k)
BY DEF EmailTable!Forget, MailRows

\* One row changes.
LEMMA MailRowChanges ==
  ASSUME NEW k \in Keys, NEW r, \A j \in Keys : j # k => email'[j] = email[j],
         SeenEmail(k)' = r
  PROVE  MailRows' = [MailRows EXCEPT ![k] = r]
<1>1. ASSUME NEW j \in Keys PROVE MailRows'[j] = IF j = k THEN r ELSE MailRows[j]
  BY DEF MailRows, SeenEmail, Exists
<1>2. MailRows' = [j \in Keys |-> MailRows'[j]] /\ DOMAIN MailRows = Keys
  BY DEF MailRows
<1> QED BY <1>1, <1>2

LEMMA MailTableInitially == Email!Init => EmailTable!Init
<1> SUFFICES ASSUME Email!Init PROVE EmailTable!Init
  OBVIOUS
<1>1. ASSUME NEW k \in Keys PROVE SeenEmail(k) = EmailTable!Absent
  <2>1. ~Exists(k)
    BY DEF Email!Init, Email!NoEmail, Exists
  <2> QED BY <2>1, MailSeen DEF MailRows
<1>2. mailbox = {}
  BY DEF Email!Init
<1> QED BY <1>1, <1>2 DEF EmailTable!Init

\* An insert adds a row, an accepted send hands it over, a mark settles it, the pruning
\* forgets it, and no other step is seen.
LEMMA MailTableStep ==
  ASSUME MailInv, [Email!Next]_(Email!vars)
  PROVE  EmailTable!Next \/ UNCHANGED <<MailRows, mailbox>>
<1>0. email \in [Keys -> Email!Email]
  BY DEF MailInv, Email!TypeOK
<1>1. CASE UNCHANGED <<email, mailbox>>
  BY <1>1, MailRowsStay
<1>2. ASSUME NEW c \in Callers, Email!CreateInsert(c)
      PROVE  EmailTable!Next \/ UNCHANGED <<MailRows, mailbox>>
  <2>1. PICK k \in Keys : k = KeyOf[c]
    BY CallsAssumption
  <2>2. PICK m \in Contents : m = ContentOf[c] /\ m # None
    BY CallsAssumption DEF Contents
  <2>3. CASE Exists(k)
    BY <1>1, <1>2, <2>1, <2>3 DEF Email!CreateInsert
  <2>4. CASE ~Exists(k)
    <3>1. email' = [email EXCEPT ![k].content = m] /\ mailbox' = mailbox
      BY <1>2, <2>1, <2>2, <2>4 DEF Email!CreateInsert
    <3>2. /\ email'[k].content = m /\ email'[k].status = "pending"
          /\ \A j \in Keys : j # k => email'[j] = email[j]
      BY <1>0, <2>4, <3>1 DEF MailInv, Unused, Email!Email
    <3>3. SeenEmail(k)' = [state |-> "open", message |-> m]
      BY <2>2, <3>2 DEF SeenEmail, Exists
    <3>4. MailRows' = [MailRows EXCEPT ![k] = [state |-> "open", message |-> m]]
      BY <3>2, <3>3, MailRowChanges
    <3>5. EmailTable!Add(k, m)
      BY <2>4, <3>1, <3>4, MailSeen, MailAdds
    <3> QED BY <3>5 DEF EmailTable!Next
  <2> QED BY <2>3, <2>4
<1>3. ASSUME NEW h \in Handlers, Email!Send(h)
      PROVE  EmailTable!Next \/ UNCHANGED <<MailRows, mailbox>>
  <2>1. PICK k \in Keys : k = handler[h].on /\ Exists(k)
    BY <1>3 DEF MailInv, Sending, Email!Send, Email!SendAccepted, Email!SendRefused
  <2>2. /\ UNCHANGED email
        /\ mailbox' = mailbox \/ mailbox' = mailbox \cup {<<k, email[k].content>>}
    BY <1>3, <2>1 DEF Email!Send, Email!SendAccepted, Email!SendRefused, Email!Answered,
                      Email!Message
  <2>3. CASE mailbox' = mailbox \cup {<<k, email[k].content>>}
    <3>1. MailRows[k].message = email[k].content /\ MailRows[k] # EmailTable!Absent
      BY <2>1, MailSeen DEF EmailTable!Absent, Exists
    <3>2. MailRows' = MailRows
      BY <2>2, MailRowsStay
    <3>3. EmailTable!HandOver(k)
      BY <2>3, <3>1, <3>2, MailHandsOver
    <3> QED BY <3>3 DEF EmailTable!Next
  <2> QED BY <1>1, <2>2, <2>3
<1>4. ASSUME NEW h \in Handlers, Email!Mark(h)
      PROVE  EmailTable!Next \/ UNCHANGED <<MailRows, mailbox>>
  <2>1. PICK k \in Keys : k = handler[h].on /\ Exists(k)
    BY <1>4 DEF MailInv, Sending, Email!Mark
  <2>2. /\ \A j \in Keys : j # k => email'[j] = email[j]
        /\ \/ email' = email
           \/ /\ email[k].status = "processing"
              /\ email'[k].content = email[k].content
              /\ email'[k].status \in {"pending", "sent", "permanent_failure"}
              /\ email'[k].status = "sent" => <<k, email[k].content>> \in mailbox
    BY <1>4, <2>1, MailMarkEffect
  <2>3. mailbox' = mailbox
    BY <1>4 DEF Email!Mark
  <2>4. CASE email' = email
    BY <1>1, <2>3, <2>4
  <2>5. CASE email' # email /\ email'[k].status = "pending"
    <3>1. MailRows' = MailRows
      BY <2>2, <2>5, MailRowsStay
    <3> QED BY <2>3, <3>1
  <2>6. CASE email' # email /\ email'[k].status # "pending"
    <3>1. PICK outcome \in {"delivered", "failed"} :
            outcome = IF email'[k].status = "sent" THEN "delivered" ELSE "failed"
      OBVIOUS
    <3>2. /\ MailRows[k].state = "open" /\ MailRows[k].message = email[k].content
          /\ outcome = "delivered" => <<k, email[k].content>> \in mailbox
      BY <2>1, <2>2, <2>6, <3>1, MailSeen
    <3>3. SeenEmail(k)' = [state |-> outcome, message |-> email[k].content]
      BY <2>1, <2>2, <2>6, <3>1 DEF SeenEmail, Exists
    <3>4. MailRows' = [MailRows EXCEPT ![k] = [state |-> outcome,
                                               message |-> email[k].content]]
      BY <2>2, <3>3, MailRowChanges
    <3>5. EmailTable!Settle(k, outcome)
      BY <2>3, <3>2, <3>4, MailSettles
    <3> QED BY <3>5 DEF EmailTable!Next
  <2> QED BY <2>4, <2>5, <2>6
<1>5. ASSUME NEW k \in Keys, Email!Prune(k)
      PROVE  EmailTable!Next \/ UNCHANGED <<MailRows, mailbox>>
  <2>1. /\ Exists(k) /\ email[k].status \in {"sent", "permanent_failure"}
        /\ email' = [email EXCEPT ![k] = Email!NoEmail]
        /\ mailbox' = {pair \in mailbox : pair[1] # k}
    BY <1>5 DEF Email!Prune, Email!Terminal
  <2>2. email'[k].content = None /\ \A j \in Keys : j # k => email'[j] = email[j]
    BY <1>0, <2>1 DEF Email!NoEmail
  <2>3. SeenEmail(k)' = EmailTable!Absent
    BY <2>2 DEF SeenEmail, Exists, EmailTable!Absent
  <2>4. MailRows' = [MailRows EXCEPT ![k] = EmailTable!Absent]
    BY <2>2, <2>3, MailRowChanges
  <2>5. EmailTable!Forget(k)
    BY <2>1, <2>4, MailSeen, MailForgets
  <2> QED BY <2>5 DEF EmailTable!Next
<1>6. ASSUME NEW k \in Keys, NEW h \in Handlers, Email!Claim(h, k)
      PROVE  UNCHANGED <<MailRows, mailbox>>
  <2>1. \A j \in Keys : /\ email'[j].content = email[j].content
                        /\ \/ email'[j].status = email[j].status
                           \/ /\ email[j].status \in {"pending", "processing"}
                              /\ email'[j].status \in {"pending", "processing"}
    BY <1>0, <1>6 DEF Email!Claim, Email!Due
  <2> QED BY <1>6, <2>1, MailRowsStay DEF Email!Claim
<1>7. ASSUME NEW k \in Keys, Email!BackoffOver(k) \/ Email!LeaseEnds(k)
      PROVE  UNCHANGED <<MailRows, mailbox>>
  <2>1. \A j \in Keys : /\ email'[j].content = email[j].content
                        /\ email'[j].status = email[j].status
    BY <1>0, <1>7 DEF Email!BackoffOver, Email!LeaseEnds, Email!Email
  <2> QED BY <1>7, <2>1, MailRowsStay DEF Email!BackoffOver, Email!LeaseEnds
<1> QED
  BY <1>1, <1>2, <1>3, <1>4, <1>5, <1>6, <1>7
  DEF Email!Next, Email!Take, Email!vars, Email!CreateLookup, Email!Enqueue,
      Email!NotClaimed, Email!LeaseAbandoned, Email!LeaseOutlived, Email!AbortBeforeSend,
      Email!Timeout, Email!Lost, Email!RevokeIntegration

-----------------------------------------------------------------------------

\* The inductive invariant of outgoing e-mail holds in every reachable state.
THEOREM EmailInvariant == Email!Spec => []MailInv
<1>1. Email!Init => MailInv
  BY MailInitially
<1>2. MailInv /\ [Email!Next]_(Email!vars) => MailInv'
  BY MailStep
<1> QED BY <1>1, <1>2, PTL DEF Email!Spec

\* Rows, calls and handlers of outgoing e-mail keep their types.
THEOREM EmailTypeCorrect == Email!Spec => []Email!TypeOK
<1>1. MailInv => Email!TypeOK
  BY DEF MailInv
<1> QED BY <1>1, EmailInvariant, PTL

\* Whoever was told yes has asked for the e-mail that is in the row, and for the only one
\* the provider was ever given under its key.
THEOREM AskedEmailIsSent == Email!Spec => []AskedIsSent
<1>1. MailInv => AskedIsSent
  BY DEF MailInv, Told, Carried, AskedIsSent
<1> QED BY <1>1, EmailInvariant, PTL

\* A row is given up early only for a final answer.
THEOREM EmailVerdictIsExplained == Email!Spec => []VerdictExplained
<1>1. MailInv => VerdictExplained
  BY DEF MailInv
<1> QED BY <1>1, EmailInvariant, PTL

\* email_deliveries keeps the promise of DeliveryTable: a row's content never changes,
\* no other is handed over under its key, and it is settled once.
THEOREM EmailTableImplemented == Email!Spec => EmailsImplementTable
<1>1. Email!Init => EmailTable!Init
  BY MailTableInitially
<1>2. MailInv /\ [Email!Next]_(Email!vars) =>
        [EmailTable!Next]_<<[k \in Keys |-> SeenEmail(k)], mailbox>>
  BY MailTableStep DEF MailRows
<1> QED
  BY <1>1, <1>2, EmailInvariant, PTL DEF Email!Spec, EmailsImplementTable, EmailTable!Spec
=============================================================================

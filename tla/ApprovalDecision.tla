-------------------------- MODULE ApprovalDecision --------------------------
(***************************************************************************)
(* Human approvals: rows of approvals, approval_tokens, approval_history   *)
(* and approval_deliveries, and the database transactions that race for    *)
(* them.  A signed-in user decides (decide_approval_atomic), the holder of *)
(* a public link decides (consume_approval_token_and_decide), a user       *)
(* revokes the link, and the approvals.expire job closes what is overdue   *)
(* (expire_pending_approvals_for_integration).                             *)
(*                                                                         *)
(* Every transaction runs in READ COMMITTED: it fixes now() when it        *)
(* begins, waits for or skips row locks, re-reads the row it locked, and   *)
(* publishes all its writes at commit.  The model has one action per such  *)
(* step, so a transaction may begin before a deadline and commit after it. *)
(* All rows belong to one integration (the tenant keys never mix: every    *)
(* statement filters on them), which may be revoked for good at any time:  *)
(* creation and expiry test its status, decisions do not.                  *)
(***************************************************************************)
EXTENDS Naturals, Sequences

CONSTANTS
  Approvals,         \* approval rows, one per (organization, client, idempotency key)
  Requests,          \* web requests that decide an approval
  ExpireJobs,        \* approvals.expire job executions
  ExpectedVersions,  \* versions a client may ask for; 0 when it sends none
  TTL,               \* expiresInSeconds, in clock ticks
  MaxTime,           \* bound on the clock
  MaxFaults,         \* bound on transactions lost before commit
  None               \* no holder of a row lock

ASSUME ActorsAssumption ==
  /\ None \notin Requests \cup ExpireJobs
  /\ Requests \cap ExpireJobs = {}

ASSUME BoundsAssumption ==
  /\ ExpectedVersions \subseteq Nat
  /\ TTL \in Nat
  /\ MaxTime \in Nat
  /\ MaxFaults \in Nat

VARIABLES
  now,           \* the database clock
  approval,      \* approval[a]: the row of approvals
  token,         \* token[a]: the row of approval_tokens
  history,       \* history[a]: the rows of approval_history, in commit order
  deliveries,    \* deliveries[a]: the rows of approval_deliveries
  txn,           \* txn[p]: the transaction actor p has open
  approvalLock,  \* approvalLock[a]: holder of the FOR UPDATE lock on the approval
  tokenLock,     \* tokenLock[a]: holder of the FOR UPDATE lock on the token
  faults,        \* transactions lost so far
  integration    \* status of the integration the approvals came through

vars == <<now, approval, token, history, deliveries, txn,
          approvalLock, tokenLock, faults, integration>>
rows == <<approval, token, history, deliveries>>

Actors == Requests \cup ExpireJobs

Decisions == {"approved", "rejected"}
Terminal  == Decisions \cup {"expired"}   \* 'cancelled' is declared and never written
Status    == {"absent", "pending"} \cup Terminal
Commands  == {"approval.requested", "decide", "decide_public", "expire"}
Phases    == {"idle", "decide", "decideLocked",
              "public", "publicToken", "publicLocked", "expire", "expireLocked"}

ApprovalRow == [status : Status, version : Nat, expires : Nat]
TokenRow    == [minted : BOOLEAN, used : BOOLEAN, revoked : BOOLEAN, expires : Nat]
HistoryRow  == [from : Status, to : Status, command : Commands]
DeliveryRow == [status : Terminal, version : Nat, decidedAt : Nat]
Transaction == [phase : Phases, on : Approvals \cup {None}, ts : Nat,
                decision : Decisions \cup {"none"}, expected : Nat]

NoRow   == [status |-> "absent", version |-> 0, expires |-> 0]
NoToken == [minted |-> FALSE, used |-> FALSE, revoked |-> FALSE, expires |-> 0]
Idle    == [phase |-> "idle", on |-> None, ts |-> 0, decision |-> "none", expected |-> 0]

TypeOK ==
  /\ now \in 0..MaxTime
  /\ approval \in [Approvals -> ApprovalRow]
  /\ token \in [Approvals -> TokenRow]
  /\ history \in [Approvals -> Seq(HistoryRow)]
  /\ deliveries \in [Approvals -> SUBSET DeliveryRow]
  /\ txn \in [Actors -> Transaction]
  /\ approvalLock \in [Approvals -> Actors \cup {None}]
  /\ tokenLock \in [Approvals -> Actors \cup {None}]
  /\ faults \in 0..MaxFaults
  /\ integration \in {"active", "revoked"}

Init ==
  /\ now = 0
  /\ approval = [a \in Approvals |-> NoRow]
  /\ token = [a \in Approvals |-> NoToken]
  /\ history = [a \in Approvals |-> <<>>]
  /\ deliveries = [a \in Approvals |-> {}]
  /\ txn = [p \in Actors |-> Idle]
  /\ approvalLock = [a \in Approvals |-> None]
  /\ tokenLock = [a \in Approvals |-> None]
  /\ faults = 0
  /\ integration = "active"

-----------------------------------------------------------------------------
(* What the statements of the transactions test and write.                 *)

\* Mutant: the status is not re-read after the wait for the row lock.
Decidable_StaleStatus(a, expected) ==
  /\ approval[a].status # "absent"
  /\ expected \in {0, approval[a].version}

\* The row a decision may still change: pending, and at the version the
\* client has seen when it names one.
Decidable(a, expected) ==
  /\ approval[a].status = "pending"
  /\ expected \in {0, approval[a].version}

\* The CASE over revoked_at, used_at and expires_at: the token is 'valid' for
\* a transaction that began at ts.
TokenValid(a, ts) ==
  /\ ~token[a].revoked
  /\ ~token[a].used
  /\ ts <= token[a].expires

\* list_due_approval_expiration_jobs joins the active integrations and compares
\* with <=, ...
DueForExpiry(a) ==
  /\ integration = "active"
  /\ approval[a].status = "pending"
  /\ approval[a].expires <= now

\* Mutant: the job compares with <= as well.
Expirable_AtDeadline(a, ts) ==
  /\ approval[a].status = "pending"
  /\ approval[a].expires <= ts
  /\ approvalLock[a] = None

\* Mutant: the job finds its rows through approval_tokens.
Expirable_ThroughToken(a, ts) ==
  /\ approval[a].status = "pending"
  /\ approval[a].expires < ts
  /\ approvalLock[a] = None
  /\ token[a].minted

\* ... the job itself with <, and it skips rows another transaction holds.
Expirable(a, ts) ==
  /\ approval[a].status = "pending"
  /\ approval[a].expires < ts
  /\ approvalLock[a] = None

Closed(row, status) ==
  [row EXCEPT !.status = status, !.version = row.version + 1]

HistoryOf(row, status, command) ==
  [from |-> row.status, to |-> status, command |-> command]

DeliveryOf(row, status, ts) ==
  [status |-> status, version |-> row.version + 1, decidedAt |-> ts]

\* Mutant: the delivery row is left to a later transaction.
CloseAll_NoDelivery(S, status, command, ts) ==
  /\ approval' = [a \in Approvals |->
       IF a \in S THEN Closed(approval[a], status) ELSE approval[a]]
  /\ history' = [a \in Approvals |->
       IF a \in S THEN Append(history[a], HistoryOf(approval[a], status, command))
                  ELSE history[a]]
  /\ UNCHANGED deliveries

\* The UPDATE of approvals, the INSERT into approval_history and the INSERT
\* into approval_deliveries that every terminal transition makes together.
CloseAll(S, status, command, ts) ==
  /\ approval' = [a \in Approvals |->
       IF a \in S THEN Closed(approval[a], status) ELSE approval[a]]
  /\ history' = [a \in Approvals |->
       IF a \in S THEN Append(history[a], HistoryOf(approval[a], status, command))
                  ELSE history[a]]
  /\ deliveries' = [a \in Approvals |->
       IF a \in S THEN deliveries[a] \cup {DeliveryOf(approval[a], status, ts)}
                  ELSE deliveries[a]]

Unlocked(lock, p) == [a \in Approvals |-> IF lock[a] = p THEN None ELSE lock[a]]

End(p) == txn' = [txn EXCEPT ![p] = Idle]

Enter(p, phase) == txn' = [txn EXCEPT ![p].phase = phase]

-----------------------------------------------------------------------------
(* Creation.                                                               *)

\* createApproval and, with generateToken, createApprovalToken in the same
\* transaction.  The conflicting insert of a replay changes nothing and mints
\* nothing, so only the first call is a step.  The token's own time to live is
\* cut to the approval's expiry.  (Its test of the integration is a snapshot of
\* its own: a creation that commits just after a revocation it has not seen
\* leaves what one that committed just before leaves.)
Create(a, mint) ==
  /\ integration = "active"
  /\ approval[a].status = "absent"
  /\ approval' = [approval EXCEPT
       ![a] = [status |-> "pending", version |-> 1, expires |-> now + TTL]]
  /\ history' = [history EXCEPT
       ![a] = Append(@, [from |-> "absent", to |-> "pending",
                         command |-> "approval.requested"])]
  /\ token' = IF mint
              THEN [token EXCEPT ![a] = [minted |-> TRUE, used |-> FALSE,
                                         revoked |-> FALSE, expires |-> now + TTL]]
              ELSE token
  /\ UNCHANGED <<now, deliveries, txn, approvalLock, tokenLock, faults, integration>>

-----------------------------------------------------------------------------
(* A signed-in user decides.                                               *)

\* The route has read the approval in a transaction of its own (404 when it is
\* absent); now the deciding transaction begins.
DecideBegin(r, a, decision, expected) ==
  /\ txn[r].phase = "idle"
  /\ approval[a].status # "absent"
  /\ txn' = [txn EXCEPT ![r] = [phase |-> "decide", on |-> a, ts |-> now,
                                decision |-> decision, expected |-> expected]]
  /\ UNCHANGED <<now, rows, approvalLock, tokenLock, faults, integration>>

\* SELECT ... FOR UPDATE waits for the lock, then sees the committed row.
DecideLock(r) ==
  LET a == txn[r].on IN
  /\ txn[r].phase = "decide"
  /\ approvalLock[a] = None
  /\ \/ /\ Decidable(a, txn[r].expected)
        /\ Enter(r, "decideLocked")
        /\ approvalLock' = [approvalLock EXCEPT ![a] = r]
     \/ /\ ~Decidable(a, txn[r].expected)
        /\ End(r)
        /\ UNCHANGED approvalLock
  /\ UNCHANGED <<now, rows, tokenLock, faults, integration>>

\* Mutant: deciding also revokes the link, so it waits for the token's lock while
\* it holds the approval's.
DecideCommit_Revokes(r) ==
  LET a == txn[r].on IN
  /\ txn[r].phase = "decideLocked"
  /\ tokenLock[a] = None
  /\ CloseAll({a}, txn[r].decision, "decide", txn[r].ts)
  /\ token' = [token EXCEPT ![a].revoked = TRUE]
  /\ approvalLock' = Unlocked(approvalLock, r)
  /\ End(r)
  /\ UNCHANGED <<now, tokenLock, faults, integration>>

DecideCommit(r) ==
  /\ txn[r].phase = "decideLocked"
  /\ CloseAll({txn[r].on}, txn[r].decision, "decide", txn[r].ts)
  /\ approvalLock' = Unlocked(approvalLock, r)
  /\ End(r)
  /\ UNCHANGED <<now, token, tokenLock, faults, integration>>

-----------------------------------------------------------------------------
(* The holder of a public link decides: token row first, approval second.  *)

PublicBegin(r, a, decision) ==
  /\ txn[r].phase = "idle"
  /\ token[a].minted
  /\ txn' = [txn EXCEPT ![r] = [phase |-> "public", on |-> a, ts |-> now,
                                decision |-> decision, expected |-> 0]]
  /\ UNCHANGED <<now, rows, approvalLock, tokenLock, faults, integration>>

PublicLockToken(r) ==
  LET a == txn[r].on IN
  /\ txn[r].phase = "public"
  /\ tokenLock[a] = None
  /\ \/ /\ TokenValid(a, txn[r].ts)
        /\ Enter(r, "publicToken")
        /\ tokenLock' = [tokenLock EXCEPT ![a] = r]
     \/ /\ ~TokenValid(a, txn[r].ts)
        /\ End(r)
        /\ UNCHANGED tokenLock
  /\ UNCHANGED <<now, rows, approvalLock, faults, integration>>

PublicLockApproval(r) ==
  LET a == txn[r].on IN
  /\ txn[r].phase = "publicToken"
  /\ approvalLock[a] = None
  /\ \/ /\ Decidable(a, 0)
        /\ Enter(r, "publicLocked")
        /\ approvalLock' = [approvalLock EXCEPT ![a] = r]
        /\ UNCHANGED tokenLock
     \/ /\ ~Decidable(a, 0)     \* answered 'valid' but not decided: the token stays unused
        /\ End(r)
        /\ tokenLock' = Unlocked(tokenLock, r)
        /\ UNCHANGED approvalLock
  /\ UNCHANGED <<now, rows, faults, integration>>

PublicCommit(r) ==
  LET a == txn[r].on IN
  /\ txn[r].phase = "publicLocked"
  /\ token' = [token EXCEPT ![a].used = TRUE]
  /\ CloseAll({a}, txn[r].decision, "decide_public", txn[r].ts)
  /\ approvalLock' = Unlocked(approvalLock, r)
  /\ tokenLock' = Unlocked(tokenLock, r)
  /\ End(r)
  /\ UNCHANGED <<now, faults, integration>>

\* Mutant: the UPDATE does not test used_at.
Revoke_Used(a) ==
  /\ token[a].minted
  /\ tokenLock[a] = None
  /\ ~token[a].revoked
  /\ token' = [token EXCEPT ![a].revoked = TRUE]
  /\ UNCHANGED <<now, approval, history, deliveries, txn, approvalLock, tokenLock, faults, integration>>

\* revoke_approval_token_safe: one UPDATE, which waits for the token's lock and
\* re-checks used_at and revoked_at on the committed row.
Revoke(a) ==
  /\ token[a].minted
  /\ tokenLock[a] = None
  /\ ~token[a].revoked
  /\ ~token[a].used
  /\ token' = [token EXCEPT ![a].revoked = TRUE]
  /\ UNCHANGED <<now, approval, history, deliveries, txn, approvalLock, tokenLock, faults, integration>>

-----------------------------------------------------------------------------
(* The approvals.expire job.                                               *)

\* The scheduler has found an overdue approval and pg-boss runs the job.
ExpireBegin(j) ==
  /\ txn[j].phase = "idle"
  /\ \E a \in Approvals : DueForExpiry(a)
  /\ txn' = [txn EXCEPT ![j] = [phase |-> "expire", on |-> None, ts |-> now,
                                decision |-> "none", expected |-> 0]]
  /\ UNCHANGED <<now, rows, approvalLock, tokenLock, faults, integration>>

\* The function's access check demands an active integration and raises: the
\* job fails, and no later job is scheduled.
ExpireRefused(j) ==
  /\ txn[j].phase = "expire"
  /\ integration = "revoked"
  /\ End(j)
  /\ UNCHANGED <<now, rows, approvalLock, tokenLock, faults, integration>>

\* FOR UPDATE SKIP LOCKED over the candidates.  The query takes a snapshot later
\* than the check's, so the integration may have been revoked in between.
ExpireLock(j) ==
  LET S == {a \in Approvals : Expirable(a, txn[j].ts)} IN
  /\ txn[j].phase = "expire"
  /\ approvalLock' = [a \in Approvals |-> IF a \in S THEN j ELSE approvalLock[a]]
  /\ IF S = {} THEN End(j) ELSE Enter(j, "expireLocked")
  /\ UNCHANGED <<now, rows, tokenLock, faults, integration>>

ExpireCommit(j) ==
  /\ txn[j].phase = "expireLocked"
  /\ CloseAll({a \in Approvals : approvalLock[a] = j}, "expired", "expire", txn[j].ts)
  /\ approvalLock' = Unlocked(approvalLock, j)
  /\ End(j)
  /\ UNCHANGED <<now, token, tokenLock, faults, integration>>

-----------------------------------------------------------------------------
(* The environment.                                                        *)

\* A process or connection dies before commit: PostgreSQL rolls back and frees
\* the locks.  The caller may come back with a new request.
Abort(p) ==
  /\ txn[p].phase # "idle"
  /\ faults < MaxFaults
  /\ faults' = faults + 1
  /\ approvalLock' = Unlocked(approvalLock, p)
  /\ tokenLock' = Unlocked(tokenLock, p)
  /\ End(p)
  /\ UNCHANGED <<now, rows, integration>>

\* A user revokes the integration (IntegrationSecrets has the transaction).
RevokeIntegration ==
  /\ integration = "active"
  /\ integration' = "revoked"
  /\ UNCHANGED <<now, rows, txn, approvalLock, tokenLock, faults>>

Tick ==
  /\ now < MaxTime
  /\ now' = now + 1
  /\ UNCHANGED <<rows, txn, approvalLock, tokenLock, faults, integration>>

DecideStep(r) == DecideLock(r) \/ DecideCommit(r)
PublicStep(r) == PublicLockToken(r) \/ PublicLockApproval(r) \/ PublicCommit(r)
ExpireStep(j) == ExpireBegin(j) \/ ExpireRefused(j) \/ ExpireLock(j) \/ ExpireCommit(j)

Next ==
  \/ \E a \in Approvals, mint \in BOOLEAN : Create(a, mint)
  \/ \E r \in Requests, a \in Approvals, d \in Decisions :
       \/ \E v \in ExpectedVersions : DecideBegin(r, a, d, v)
       \/ PublicBegin(r, a, d)
  \/ \E r \in Requests : DecideStep(r) \/ PublicStep(r)
  \/ \E a \in Approvals : Revoke(a)
  \/ \E j \in ExpireJobs : ExpireStep(j)
  \/ \E p \in Actors : Abort(p)
  \/ RevokeIntegration
  \/ Tick

\* Open transactions run to their end, the scheduler keeps polling and the
\* clock keeps running; nobody has to create, decide, revoke or fail.  PostgreSQL
\* queues the waiters of a row, so none is overtaken for ever: strong fairness.
Fairness ==
  /\ \A r \in Requests : SF_vars(DecideStep(r)) /\ SF_vars(PublicStep(r))
  /\ \A j \in ExpireJobs : WF_vars(ExpireStep(j))
  /\ WF_vars(Tick)

Spec == Init /\ [][Next]_vars /\ Fairness

-----------------------------------------------------------------------------
(* Properties.                                                             *)

Requested == [from |-> "absent", to |-> "pending", command |-> "approval.requested"]

\* Approval a has one outcome, told the same way in three tables: no row, a
\* pending row with its request in the history, or a closed row whose single
\* closing history row and single queued callback carry its status and version.
OneOutcome(a) ==
  \/ approval[a].status = "absent" /\ history[a] = <<>> /\ deliveries[a] = {}
  \/ /\ approval[a].status = "pending"
     /\ approval[a].version = 1
     /\ history[a] = <<Requested>>
     /\ deliveries[a] = {}
  \/ /\ approval[a].status \in Terminal
     /\ approval[a].version = 2
     /\ \E c \in Commands :
          /\ history[a] = <<Requested, [from |-> "pending", to |-> approval[a].status,
                                        command |-> c]>>
          /\ (c = "expire") <=> (approval[a].status = "expired")
     /\ \E d \in deliveries[a] :
          deliveries[a] = {d} /\ d.status = approval[a].status /\ d.version = 2

\* However users, link holders and the expiry job interleave, every approval has
\* one outcome (the three transactions that close approvals never both commit).
SingleOutcome == \A a \in Approvals : OneOutcome(a)

DecidedBy(a, command) == Len(history[a]) = 2 /\ history[a][2].command = command

\* A public link is spent exactly by the decision it made: used_at is set if and
\* only if the approval was closed by decide_public, and a link that was revoked
\* in time never decides.
TokenSpentByItsDecision ==
  \A a \in Approvals :
    /\ token[a].used <=> DecidedBy(a, "decide_public")
    /\ ~(token[a].used /\ token[a].revoked)

\* Whatever the commit order, a public decision began before its link expired and
\* an expiry began after the approval's deadline.
DeadlinesRespected ==
  \A a \in Approvals : \A d \in deliveries[a] :
    /\ DecidedBy(a, "decide_public") => d.decidedAt <= token[a].expires
    /\ DecidedBy(a, "expire") => approval[a].expires < d.decidedAt

\* An overdue approval does not stay pending, although the job skips rows that
\* other transactions hold and may start one tick too early.  The exception is a
\* revoked integration: its jobs are neither scheduled nor let through, so an
\* approval nobody decides then stays pending for ever.
OverdueApprovalCloses ==
  \A a \in Approvals :
    (approval[a].status = "pending" /\ approval[a].expires < now)
      ~> (approval[a].status \in Terminal \/ integration = "revoked")

\* No lock cycle: the public transaction holds the token while it waits for the
\* approval, and nobody who holds an approval waits for a token, so every
\* transaction that begins ends.
TransactionsEnd ==
  \A p \in Actors : txn[p].phase # "idle" ~> txn[p].phase = "idle"

\* The abstract promise: a one-shot register per approval whose outcome is
\* published when it is set.
Outcome == INSTANCE ApprovalOutcome WITH
  outcome <- [a \in Approvals |-> approval[a].status],
  published <- [a \in Approvals |-> {d.status : d \in deliveries[a]}]

\* The four transactions implement that register.
ImplementsOutcome == Outcome!Spec
=============================================================================

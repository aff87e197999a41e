----------------------- MODULE ApprovalDecisionProofs -----------------------
(***************************************************************************)
(* Theorems about ApprovalDecision, for any sets of approvals, requests    *)
(* and jobs.                                                               *)
(*                                                                         *)
(* SingleOutcome is not inductive: a commit step tests nothing again, so   *)
(* the proof needs to know that a transaction past its row lock still      *)
(* finds the row pending.  Locks relates each open transaction to the      *)
(* locks it holds and to what stays true of a row while it is locked.      *)
(* (It also says why the status tests inside the UPDATE statements, and    *)
(* the ROW_COUNT tests after them, never fail.)                            *)
(***************************************************************************)
EXTENDS ApprovalDecision, SequenceTheorems, TLAPS

\* A request that is past the row lock on the approval, or on the token.
HoldsApproval(r) == txn[r].phase \in {"decideLocked", "publicLocked"}
HoldsToken(r)    == txn[r].phase \in {"publicToken", "publicLocked"}

\* Requests run the two deciding transactions, jobs the expiring one.
Roles ==
  /\ \A r \in Requests :
       /\ txn[r].phase \notin {"expire", "expireLocked"}
       /\ txn[r].phase # "idle" => txn[r].on \in Approvals /\ txn[r].decision \in Decisions
  /\ \A j \in ExpireJobs : txn[j].phase \in {"idle", "expire", "expireLocked"}

\* A locked row is pending, and its holder is the transaction that checked it.
ApprovalLocks ==
  \A a \in Approvals : approvalLock[a] # None =>
       /\ approval[a].status = "pending"
       /\ approvalLock[a] \in Requests =>
            HoldsApproval(approvalLock[a]) /\ txn[approvalLock[a]].on = a
       /\ approvalLock[a] \in ExpireJobs =>
            /\ txn[approvalLock[a]].phase = "expireLocked"
            /\ approval[a].expires < txn[approvalLock[a]].ts

\* A locked token is valid for its holder.
TokenLocks ==
  \A a \in Approvals : tokenLock[a] # None =>
       /\ tokenLock[a] \in Requests
       /\ HoldsToken(tokenLock[a])
       /\ txn[tokenLock[a]].on = a
       /\ TokenValid(a, txn[tokenLock[a]].ts)

\* The phases hold their locks.
HeldLocks ==
  \A r \in Requests :
    /\ HoldsApproval(r) => approvalLock[txn[r].on] = r
    /\ HoldsToken(r) => tokenLock[txn[r].on] = r

Locks == ApprovalLocks /\ TokenLocks /\ HeldLocks

\* Requests act on approvals that exist.
Known == \A r \in Requests :
  txn[r].phase # "idle" => approval[txn[r].on].status # "absent"

\* A token is minted with its approval.
Minting == \A a \in Approvals : approval[a].status = "absent" => token[a] = NoToken

IInv ==
  /\ TypeOK
  /\ Roles
  /\ Locks
  /\ Known
  /\ Minting
  /\ SingleOutcome
  /\ TokenSpentByItsDecision
  /\ DeadlinesRespected

-----------------------------------------------------------------------------
(* Type correctness.                                                       *)

USE ActorsAssumption, BoundsAssumption

\* The rows CloseAll writes are well typed.
LEMMA CloseAllType ==
  ASSUME TypeOK, NEW S \in SUBSET Approvals, NEW status \in Terminal,
         NEW command \in Commands, NEW ts \in Nat,
         CloseAll(S, status, command, ts)
  PROVE  /\ approval' \in [Approvals -> ApprovalRow]
         /\ history' \in [Approvals -> Seq(HistoryRow)]
         /\ deliveries' \in [Approvals -> SUBSET DeliveryRow]
<1>1. ASSUME NEW a \in Approvals PROVE Closed(approval[a], status) \in ApprovalRow
  <2>1. approval[a] \in ApprovalRow /\ status \in Status
    BY DEF TypeOK, Status
  <2>2. approval[a].version + 1 \in Nat
    BY <2>1 DEF ApprovalRow
  <2> QED BY <2>1, <2>2 DEF Closed, ApprovalRow
<1>2. ASSUME NEW a \in Approvals
      PROVE HistoryOf(approval[a], status, command) \in HistoryRow
  BY DEF TypeOK, HistoryOf, HistoryRow, ApprovalRow, Status
<1>3. ASSUME NEW a \in Approvals
      PROVE DeliveryOf(approval[a], status, ts) \in DeliveryRow
  BY DEF TypeOK, DeliveryOf, DeliveryRow, ApprovalRow
<1>4. approval' \in [Approvals -> ApprovalRow]
  BY <1>1 DEF TypeOK, CloseAll
<1>5. history' \in [Approvals -> Seq(HistoryRow)]
  <2>1. ASSUME NEW a \in Approvals
        PROVE Append(history[a], HistoryOf(approval[a], status, command)) \in Seq(HistoryRow)
    BY <1>2 DEF TypeOK
  <2> QED BY <2>1 DEF TypeOK, CloseAll
<1>6. deliveries' \in [Approvals -> SUBSET DeliveryRow]
  BY <1>3 DEF TypeOK, CloseAll
<1> QED BY <1>4, <1>5, <1>6

\* What End, Enter and Unlocked return.
LEMMA TransactionType ==
  ASSUME TypeOK, NEW p \in Actors
  PROVE  /\ Idle \in Transaction
         /\ End(p) => txn' \in [Actors -> Transaction]
         /\ \A phase \in Phases : Enter(p, phase) => txn' \in [Actors -> Transaction]
         /\ Unlocked(approvalLock, p) \in [Approvals -> Actors \cup {None}]
         /\ Unlocked(tokenLock, p) \in [Approvals -> Actors \cup {None}]
<1>1. Idle \in Transaction
  BY DEF Idle, Transaction, Phases
<1>2. End(p) => txn' \in [Actors -> Transaction]
  BY <1>1 DEF TypeOK, End
<1>3. \A phase \in Phases : Enter(p, phase) => txn' \in [Actors -> Transaction]
  <2>1. ASSUME NEW phase \in Phases PROVE [txn[p] EXCEPT !.phase = phase] \in Transaction
    BY DEF TypeOK, Transaction
  <2> QED BY <2>1 DEF TypeOK, Enter
<1>4. /\ Unlocked(approvalLock, p) \in [Approvals -> Actors \cup {None}]
      /\ Unlocked(tokenLock, p) \in [Approvals -> Actors \cup {None}]
  BY DEF TypeOK, Unlocked
<1> QED BY <1>1, <1>2, <1>3, <1>4

\* The empty tables satisfy the invariant.
LEMMA InitiallyInvariant == Init => IInv
<1> SUFFICES ASSUME Init PROVE IInv
  OBVIOUS
<1>1. TypeOK
  <2>1. NoRow \in ApprovalRow /\ NoToken \in TokenRow /\ Idle \in Transaction
    BY DEF NoRow, NoToken, Idle, ApprovalRow, TokenRow, Transaction, Status, Phases
  <2>2. \A a \in Approvals : <<>> \in Seq(HistoryRow) /\ {} \in SUBSET DeliveryRow
    OBVIOUS
  <2> QED BY <2>1, <2>2 DEF Init, TypeOK
<1>2. Roles /\ Locks
  BY DEF Init, Roles, Locks, ApprovalLocks, TokenLocks, HeldLocks, Idle, HoldsApproval,
     HoldsToken, Actors
<1>3. Known /\ Minting
  BY DEF Init, Known, Minting, Idle, Actors
<1>4. SingleOutcome
  BY DEF Init, SingleOutcome, OneOutcome, NoRow
<1>5. TokenSpentByItsDecision /\ DeadlinesRespected
  BY DEF Init, TokenSpentByItsDecision, DeadlinesRespected, DecidedBy, NoToken
<1> QED BY <1>1, <1>2, <1>3, <1>4, <1>5 DEF IInv

\* No step takes a row or a transaction out of its type.
LEMMA TypeStep == TypeOK /\ Roles /\ [Next]_vars => TypeOK'
<1> SUFFICES ASSUME TypeOK, Roles, [Next]_vars PROVE TypeOK'
  OBVIOUS
<1> USE DEF Actors
<1>1. ASSUME NEW a \in Approvals, NEW mint \in BOOLEAN, Create(a, mint) PROVE TypeOK'
  <2>1. approval' \in [Approvals -> ApprovalRow]
    BY <1>1 DEF TypeOK, Create, ApprovalRow, Status
  <2>2. token' \in [Approvals -> TokenRow]
    BY <1>1 DEF TypeOK, Create, TokenRow
  <2>3. history' \in [Approvals -> Seq(HistoryRow)]
    <3>1. [from |-> "absent", to |-> "pending", command |-> "approval.requested"] \in HistoryRow
      BY DEF HistoryRow, Status, Commands
    <3>2. Append(history[a], [from |-> "absent", to |-> "pending",
                              command |-> "approval.requested"]) \in Seq(HistoryRow)
      BY <3>1 DEF TypeOK
    <3> QED BY <1>1, <3>2 DEF TypeOK, Create
  <2> QED BY <1>1, <2>1, <2>2, <2>3 DEF TypeOK, Create
<1>2. ASSUME NEW r \in Requests, NEW a \in Approvals, NEW d \in Decisions,
             NEW v \in ExpectedVersions, DecideBegin(r, a, d, v)
      PROVE TypeOK'
  BY <1>2 DEF TypeOK, DecideBegin, Transaction, Phases, rows
<1>3. ASSUME NEW r \in Requests, NEW a \in Approvals, NEW d \in Decisions,
             PublicBegin(r, a, d)
      PROVE TypeOK'
  BY <1>3 DEF TypeOK, PublicBegin, Transaction, Phases, rows
<1>4. ASSUME NEW r \in Requests, DecideLock(r) PROVE TypeOK'
  <2>1. "decideLocked" \in Phases BY DEF Phases
  <2> QED BY <1>4, <2>1, TransactionType DEF TypeOK, DecideLock, rows
<1>5. ASSUME NEW r \in Requests, DecideCommit(r) PROVE TypeOK'
  <2>1. /\ txn[r].on \in Approvals /\ txn[r].decision \in Terminal
        /\ txn[r].ts \in Nat /\ "decide" \in Commands
    BY <1>5 DEF TypeOK, DecideCommit, Roles, Transaction, Terminal, Commands
  <2> QED BY <1>5, <2>1, TransactionType, CloseAllType DEF TypeOK, DecideCommit
<1>6. ASSUME NEW r \in Requests, PublicLockToken(r) PROVE TypeOK'
  <2>1. "publicToken" \in Phases BY DEF Phases
  <2> QED BY <1>6, <2>1, TransactionType DEF TypeOK, PublicLockToken, rows
<1>7. ASSUME NEW r \in Requests, PublicLockApproval(r) PROVE TypeOK'
  <2>1. "publicLocked" \in Phases BY DEF Phases
  <2>2. txn' \in [Actors -> Transaction]
    BY <1>7, <2>1, TransactionType DEF PublicLockApproval
  <2>3. /\ approvalLock' \in [Approvals -> Actors \cup {None}]
        /\ tokenLock' \in [Approvals -> Actors \cup {None}]
    <3>1. CASE Decidable(txn[r].on, 0)
      BY <1>7, <3>1 DEF TypeOK, PublicLockApproval
    <3>2. CASE ~Decidable(txn[r].on, 0)
      BY <1>7, <3>2, TransactionType DEF TypeOK, PublicLockApproval
    <3> QED BY <3>1, <3>2
  <2> QED BY <1>7, <2>2, <2>3 DEF TypeOK, PublicLockApproval, rows
<1>8. ASSUME NEW r \in Requests, PublicCommit(r) PROVE TypeOK'
  <2>1. /\ txn[r].on \in Approvals /\ txn[r].decision \in Terminal
        /\ txn[r].ts \in Nat /\ "decide_public" \in Commands
    BY <1>8 DEF TypeOK, PublicCommit, Roles, Transaction, Terminal, Commands
  <2>2. token' \in [Approvals -> TokenRow]
    <3>1. \A a \in Approvals : token[a] \in TokenRow
      BY DEF TypeOK
    <3>2. \A a \in Approvals : [token[a] EXCEPT !.used = TRUE] \in TokenRow
      BY <3>1 DEF TokenRow
    <3> QED BY <1>8, <2>1, <3>2 DEF TypeOK, PublicCommit
  <2> QED BY <1>8, <2>1, <2>2, TransactionType, CloseAllType DEF TypeOK, PublicCommit
<1>9. ASSUME NEW a \in Approvals, Revoke(a) PROVE TypeOK'
  <2>1. token[a] \in TokenRow
    BY DEF TypeOK
  <2>2. [token[a] EXCEPT !.revoked = TRUE] \in TokenRow
    BY <2>1 DEF TokenRow
  <2> QED BY <1>9, <2>2 DEF TypeOK, Revoke
<1>10. ASSUME NEW j \in ExpireJobs, ExpireBegin(j) PROVE TypeOK'
  BY <1>10 DEF TypeOK, ExpireBegin, Transaction, Phases, rows
<1>11. ASSUME NEW j \in ExpireJobs, ExpireLock(j) PROVE TypeOK'
  <2>1. "expireLocked" \in Phases BY DEF Phases
  <2> QED BY <1>11, <2>1, TransactionType DEF TypeOK, ExpireLock, rows
<1>12. ASSUME NEW j \in ExpireJobs, ExpireCommit(j) PROVE TypeOK'
  <2>1. txn[j].ts \in Nat /\ "expired" \in Terminal /\ "expire" \in Commands
    BY DEF TypeOK, Transaction, Terminal, Commands
  <2> QED BY <1>12, <2>1, TransactionType, CloseAllType DEF TypeOK, ExpireCommit
<1>13. ASSUME NEW p \in Actors, Abort(p) PROVE TypeOK'
  BY <1>13, TransactionType DEF TypeOK, Abort, rows
<1>14. CASE Tick \/ RevokeIntegration
  BY <1>14 DEF TypeOK, Tick, RevokeIntegration, rows
<1>15. CASE UNCHANGED vars
  BY <1>15 DEF TypeOK, vars
<1>16. ASSUME NEW j \in ExpireJobs, ExpireRefused(j) PROVE TypeOK'
  BY <1>16, TransactionType DEF TypeOK, ExpireRefused, rows
<1> QED
  BY <1>1, <1>2, <1>3, <1>4, <1>5, <1>6, <1>7, <1>8, <1>9, <1>10, <1>11, <1>12,
     <1>13, <1>14, <1>15, <1>16 DEF Next, DecideStep, PublicStep, ExpireStep
-----------------------------------------------------------------------------
(* Transactions and their locks.                                           *)

\* Requests only ever run decisions, jobs only ever run expiries.
LEMMA RolesStep == TypeOK /\ Roles /\ [Next]_vars => Roles'
<1> SUFFICES ASSUME TypeOK, Roles, [Next]_vars PROVE Roles'
  OBVIOUS
<1> USE DEF Actors
<1>1. ASSUME NEW p \in Actors, End(p) PROVE Roles'
  BY <1>1 DEF TypeOK, Roles, End, Idle
<1>2. ASSUME NEW r \in Requests, txn[r].phase # "idle",
             NEW phase \in {"decideLocked", "publicToken", "publicLocked"}, Enter(r, phase)
      PROVE Roles'
  BY <1>2 DEF TypeOK, Roles, Enter, Transaction
<1>3. ASSUME NEW r \in Requests, NEW a \in Approvals, NEW d \in Decisions,
             NEW v \in ExpectedVersions, DecideBegin(r, a, d, v)
      PROVE Roles'
  BY <1>3 DEF TypeOK, Roles, DecideBegin
<1>4. ASSUME NEW r \in Requests, NEW a \in Approvals, NEW d \in Decisions,
             PublicBegin(r, a, d)
      PROVE Roles'
  BY <1>4 DEF TypeOK, Roles, PublicBegin
<1>5. ASSUME NEW r \in Requests, DecideStep(r) \/ PublicStep(r) PROVE Roles'
  BY <1>1, <1>2, <1>5 DEF DecideStep, DecideLock, DecideCommit,
     PublicStep, PublicLockToken, PublicLockApproval, PublicCommit
<1>6. ASSUME NEW j \in ExpireJobs, ExpireBegin(j) PROVE Roles'
  BY <1>6 DEF TypeOK, Roles, ExpireBegin
<1>7. ASSUME NEW j \in ExpireJobs, txn[j].phase = "expire", Enter(j, "expireLocked")
      PROVE Roles'
  BY <1>7 DEF TypeOK, Roles, Enter, Transaction
<1>8. ASSUME NEW j \in ExpireJobs, ExpireRefused(j) \/ ExpireLock(j) \/ ExpireCommit(j)
      PROVE Roles'
  BY <1>1, <1>7, <1>8 DEF ExpireRefused, ExpireLock, ExpireCommit
<1>9. ASSUME NEW p \in Actors, Abort(p) PROVE Roles'
  BY <1>1, <1>9 DEF Abort
<1>10. CASE UNCHANGED txn
  BY <1>10 DEF Roles
<1> QED
  BY <1>3, <1>4, <1>5, <1>6, <1>8, <1>9, <1>10
  DEF Next, vars, Create, Revoke, RevokeIntegration, Tick, ExpireStep

\* A transaction that ends frees what it held and disturbs no other holder, as
\* long as the rows others hold stay as they are.
LEMMA EndKeepsLocks ==
  ASSUME TypeOK, Roles, Locks, NEW p \in Actors,
         End(p),
         approvalLock' = Unlocked(approvalLock, p),
         tokenLock' = Unlocked(tokenLock, p),
         \A a \in Approvals : approvalLock[a] \notin {None, p} => approval'[a] = approval[a],
         \A a \in Approvals : tokenLock[a] \notin {None, p} => token'[a] = token[a]
  PROVE  Locks'
<1> USE DEF Actors, Locks, ApprovalLocks, TokenLocks, HeldLocks, HoldsApproval, HoldsToken
<1>1. /\ txn'[p].phase = "idle"
      /\ \A q \in Actors : q # p => txn'[q] = txn[q]
  BY DEF TypeOK, End, Idle
<1>2. \A a \in Approvals :
        /\ approvalLock'[a] # None => approvalLock'[a] = approvalLock[a] /\ approvalLock[a] # p
        /\ tokenLock'[a] # None => tokenLock'[a] = tokenLock[a] /\ tokenLock[a] # p
        /\ approvalLock[a] # p => approvalLock'[a] = approvalLock[a]
        /\ tokenLock[a] # p => tokenLock'[a] = tokenLock[a]
  BY DEF Unlocked
<1>3. ASSUME NEW a \in Approvals, approvalLock'[a] # None
      PROVE  /\ approval'[a].status = "pending"
             /\ approvalLock'[a] \in Requests =>
                  HoldsApproval(approvalLock[a])' /\ txn'[approvalLock'[a]].on = a
             /\ approvalLock'[a] \in ExpireJobs =>
                  /\ txn'[approvalLock'[a]].phase = "expireLocked"
                  /\ approval'[a].expires < txn'[approvalLock'[a]].ts
  <2>1. approvalLock'[a] = approvalLock[a] /\ approvalLock[a] \notin {None, p}
    BY <1>2, <1>3
  <2>2. approval'[a] = approval[a] /\ txn'[approvalLock[a]] = txn[approvalLock[a]]
    BY <1>1, <2>1 DEF TypeOK
  <2> QED BY <2>1, <2>2
<1>4. ASSUME NEW a \in Approvals, tokenLock'[a] # None
      PROVE  /\ tokenLock'[a] \in Requests
             /\ HoldsToken(tokenLock[a])'
             /\ txn'[tokenLock'[a]].on = a
             /\ TokenValid(a, txn[tokenLock[a]].ts)'
  <2>1. tokenLock'[a] = tokenLock[a] /\ tokenLock[a] \notin {None, p}
    BY <1>2, <1>4
  <2>2. token'[a] = token[a] /\ txn'[tokenLock[a]] = txn[tokenLock[a]]
    BY <1>1, <2>1 DEF TypeOK
  <2> QED BY <2>1, <2>2 DEF TokenValid
<1>5. ASSUME NEW r \in Requests
      PROVE  /\ HoldsApproval(r)' => approvalLock'[txn'[r].on] = r
             /\ HoldsToken(r)' => tokenLock'[txn'[r].on] = r
  <2>1. CASE r = p
    BY <1>1, <2>1
  <2>2. CASE r # p
    <3>1. txn'[r] = txn[r]
      BY <1>1, <2>2
    <3>2. HoldsApproval(r)' \/ HoldsToken(r)' => txn[r].on \in Approvals
      BY <3>1 DEF Roles
    <3> QED BY <1>2, <2>2, <3>1, <3>2
  <2> QED BY <2>1, <2>2
<1> QED BY <1>3, <1>4, <1>5

\* Every step keeps the correspondence of phases, locks and locked rows.
LEMMA LocksStep == IInv /\ [Next]_vars => Locks'
<1> SUFFICES ASSUME IInv, [Next]_vars PROVE Locks'
  OBVIOUS
<1> USE DEF Actors, Locks, ApprovalLocks, TokenLocks, HeldLocks, HoldsApproval, HoldsToken
<1>0. TypeOK /\ Roles /\ Locks /\ Known
  BY DEF IInv
<1>1. ASSUME NEW a \in Approvals, NEW mint \in BOOLEAN, Create(a, mint) PROVE Locks'
  <2>1. approvalLock[a] = None /\ tokenLock[a] = None
    BY <1>0, <1>1 DEF Create, Known
  <2> QED BY <1>0, <1>1, <2>1 DEF Create, TokenValid, TypeOK
<1>2. ASSUME NEW r \in Requests, txn[r].phase = "idle",
             \A q \in Actors : q # r => txn'[q] = txn[q],
             txn'[r].phase \in {"decide", "public"},
             UNCHANGED <<rows, approvalLock, tokenLock>>
      PROVE Locks'
  <2>1. UNCHANGED <<approval, token, approvalLock, tokenLock>>
    BY <1>2 DEF rows
  <2>2. \A a \in Approvals : approvalLock[a] # r /\ tokenLock[a] # r
    BY <1>0, <1>2
  <2>3. ApprovalLocks'
    BY <1>0, <1>2, <2>1, <2>2 DEF TypeOK
  <2>4. TokenLocks'
    BY <1>0, <1>2, <2>1, <2>2 DEF TypeOK, TokenValid
  <2>5. HeldLocks'
    BY <1>0, <1>2, <2>1
  <2> QED BY <2>3, <2>4, <2>5
<1>3. ASSUME NEW r \in Requests, NEW a \in Approvals, NEW d \in Decisions,
             NEW v \in ExpectedVersions, DecideBegin(r, a, d, v)
      PROVE Locks'
  BY <1>0, <1>2, <1>3 DEF DecideBegin, TypeOK
<1>4. ASSUME NEW r \in Requests, NEW a \in Approvals, NEW d \in Decisions,
             PublicBegin(r, a, d)
      PROVE Locks'
  BY <1>0, <1>2, <1>4 DEF PublicBegin, TypeOK
<1>5. ASSUME NEW r \in Requests, DecideLock(r) PROVE Locks'
  <2>1. CASE Decidable(txn[r].on, txn[r].expected)
    <3>1. /\ txn' = [txn EXCEPT ![r].phase = "decideLocked"]
          /\ approvalLock' = [approvalLock EXCEPT ![txn[r].on] = r]
          /\ UNCHANGED <<approval, token, tokenLock>>
          /\ approval[txn[r].on].status = "pending"
          /\ approvalLock[txn[r].on] = None
          /\ txn[r].phase = "decide"
      BY <1>5, <2>1 DEF DecideLock, Enter, Decidable, rows
    <3>2. txn[r].on \in Approvals
      BY <1>0, <3>1 DEF Roles
    <3> QED BY <1>0, <3>1, <3>2 DEF TokenValid, TypeOK, Transaction
  <2>2. CASE ~Decidable(txn[r].on, txn[r].expected)
    <3>1. /\ approvalLock' = Unlocked(approvalLock, r)
          /\ tokenLock' = Unlocked(tokenLock, r)
      <4>1. txn[r].phase = "decide" /\ approvalLock' = approvalLock /\ tokenLock' = tokenLock
        BY <1>5, <2>2 DEF DecideLock
      <4>2. \A a \in Approvals : approvalLock[a] # r /\ tokenLock[a] # r
        BY <1>0, <4>1
      <4> QED BY <1>0, <4>1, <4>2 DEF Unlocked, TypeOK
    <3> QED BY <1>0, <1>5, <2>2, <3>1, EndKeepsLocks DEF DecideLock, rows
  <2> QED BY <2>1, <2>2
<1>6. ASSUME NEW r \in Requests, DecideCommit(r) PROVE Locks'
  <2>1. txn[r].on \in Approvals /\ approvalLock[txn[r].on] = r
    BY <1>0, <1>6 DEF DecideCommit, Roles
  <2>2. tokenLock' = Unlocked(tokenLock, r)
    <3>1. \A a \in Approvals : tokenLock[a] # r
      BY <1>0, <1>6 DEF DecideCommit
    <3> QED BY <1>0, <1>6, <3>1 DEF DecideCommit, Unlocked, TypeOK
  <2>3. \A a \in Approvals : a # txn[r].on => approval'[a] = approval[a]
    BY <1>6 DEF DecideCommit, CloseAll
  <2> QED BY <1>0, <1>6, <2>1, <2>2, <2>3, EndKeepsLocks, ZenonT(60) DEF DecideCommit
<1>7. ASSUME NEW r \in Requests, PublicLockToken(r) PROVE Locks'
  <2>1. CASE TokenValid(txn[r].on, txn[r].ts)
    <3>1. /\ txn' = [txn EXCEPT ![r].phase = "publicToken"]
          /\ tokenLock' = [tokenLock EXCEPT ![txn[r].on] = r]
          /\ UNCHANGED <<approval, token, approvalLock>>
          /\ tokenLock[txn[r].on] = None
          /\ txn[r].phase = "public"
      BY <1>7, <2>1 DEF PublicLockToken, Enter, rows
    <3>2. txn[r].on \in Approvals
      BY <1>0, <3>1 DEF Roles
    <3>3. txn'[r].phase = "publicToken" /\ txn'[r].on = txn[r].on /\ txn'[r].ts = txn[r].ts
      BY <1>0, <3>1 DEF TypeOK, Transaction
    <3>4. \A q \in Actors : q # r => txn'[q] = txn[q]
      BY <1>0, <3>1 DEF TypeOK
    <3>5. \A a \in Approvals : approvalLock[a] # r /\ tokenLock[a] # r
      BY <1>0, <3>1
    <3>6. ApprovalLocks'
      BY <1>0, <3>1, <3>4, <3>5 DEF TypeOK
    <3>8. TokenLocks'
      BY <1>0, <2>1, <3>1, <3>2, <3>3, <3>4, <3>5 DEF TypeOK, TokenValid
    <3>9. HeldLocks'
      BY <1>0, <3>1, <3>2, <3>3, <3>4, <3>5 DEF TypeOK
    <3> QED BY <3>6, <3>8, <3>9
  <2>2. CASE ~TokenValid(txn[r].on, txn[r].ts)
    <3>1. /\ approvalLock' = Unlocked(approvalLock, r)
          /\ tokenLock' = Unlocked(tokenLock, r)
      <4>1. txn[r].phase = "public" /\ approvalLock' = approvalLock /\ tokenLock' = tokenLock
        BY <1>7, <2>2 DEF PublicLockToken
      <4>2. \A a \in Approvals : approvalLock[a] # r /\ tokenLock[a] # r
        BY <1>0, <4>1
      <4> QED BY <1>0, <4>1, <4>2 DEF Unlocked, TypeOK
    <3> QED BY <1>0, <1>7, <2>2, <3>1, EndKeepsLocks DEF PublicLockToken, rows
  <2> QED BY <2>1, <2>2
<1>8. ASSUME NEW r \in Requests, PublicLockApproval(r) PROVE Locks'
  <2>1. CASE Decidable(txn[r].on, 0)
    <3>1. /\ txn' = [txn EXCEPT ![r].phase = "publicLocked"]
          /\ approvalLock' = [approvalLock EXCEPT ![txn[r].on] = r]
          /\ UNCHANGED <<approval, token, tokenLock>>
          /\ approval[txn[r].on].status = "pending"
          /\ approvalLock[txn[r].on] = None
          /\ txn[r].phase = "publicToken"
      BY <1>8, <2>1 DEF PublicLockApproval, Enter, Decidable, rows
    <3>2. txn[r].on \in Approvals
      BY <1>0, <3>1 DEF Roles
    <3> QED BY <1>0, <3>1, <3>2 DEF TokenValid, TypeOK, Transaction
  <2>2. CASE ~Decidable(txn[r].on, 0)
    <3>1. approvalLock' = Unlocked(approvalLock, r)
      <4>1. \A a \in Approvals : approvalLock[a] # r
        BY <1>0, <1>8 DEF PublicLockApproval
      <4> QED BY <1>0, <1>8, <2>2, <4>1 DEF Unlocked, TypeOK, PublicLockApproval
    <3> QED BY <1>0, <1>8, <2>2, <3>1, EndKeepsLocks DEF PublicLockApproval, rows
  <2> QED BY <2>1, <2>2
<1>9. ASSUME NEW r \in Requests, PublicCommit(r) PROVE Locks'
  <2>1. /\ txn[r].on \in Approvals
        /\ approvalLock[txn[r].on] = r
        /\ tokenLock[txn[r].on] = r
    BY <1>0, <1>9 DEF PublicCommit, Roles
  <2>2. \A a \in Approvals :
          a # txn[r].on => approval'[a] = approval[a] /\ token'[a] = token[a]
    BY <1>0, <1>9 DEF PublicCommit, CloseAll, TypeOK
  <2> QED BY <1>0, <1>9, <2>1, <2>2, EndKeepsLocks DEF PublicCommit
<1>10. ASSUME NEW a \in Approvals, Revoke(a) PROVE Locks'
  BY <1>0, <1>10 DEF Revoke, TokenValid, TypeOK
<1>11. ASSUME NEW j \in ExpireJobs, ExpireBegin(j) PROVE Locks'
  BY <1>0, <1>11 DEF ExpireBegin, TokenValid, TypeOK, rows
<1>12. ASSUME NEW j \in ExpireJobs, ExpireLock(j) PROVE Locks'
  <2> DEFINE S == {a \in Approvals : Expirable(a, txn[j].ts)}
  <2>1. CASE S = {}
    <3>1. /\ approvalLock' = Unlocked(approvalLock, j)
          /\ tokenLock' = Unlocked(tokenLock, j)
      <4>1. txn[j].phase = "expire" /\ approvalLock' = approvalLock /\ tokenLock' = tokenLock
        BY <1>0, <1>12, <2>1 DEF ExpireLock, TypeOK
      <4>2. \A a \in Approvals : approvalLock[a] # j /\ tokenLock[a] # j
        BY <1>0, <4>1
      <4> QED BY <1>0, <4>1, <4>2 DEF Unlocked, TypeOK
    <3> QED BY <1>0, <1>12, <2>1, <3>1, EndKeepsLocks DEF ExpireLock, rows
  <2>2. CASE S # {}
    <3>1. /\ txn' = [txn EXCEPT ![j].phase = "expireLocked"]
          /\ approvalLock' = [a \in Approvals |-> IF a \in S THEN j ELSE approvalLock[a]]
          /\ UNCHANGED <<approval, token, tokenLock>>
          /\ txn[j].phase = "expire"
      BY <1>12, <2>2 DEF ExpireLock, Enter, rows
    <3>2. \A a \in S : /\ a \in Approvals
                       /\ approval[a].status = "pending"
                       /\ approval[a].expires < txn[j].ts
                       /\ approvalLock[a] = None
      BY DEF Expirable
    <3> HIDE DEF S
    <3>3. txn'[j].phase = "expireLocked" /\ txn'[j].ts = txn[j].ts
      BY <1>0, <3>1 DEF TypeOK, Transaction
    <3>4. \A q \in Actors : q # j => txn'[q] = txn[q]
      BY <1>0, <3>1 DEF TypeOK
    <3>5. \A a \in Approvals : approvalLock[a] # j /\ tokenLock[a] # j
      BY <1>0, <3>1
    <3>6. ApprovalLocks'
      BY <1>0, <3>1, <3>2, <3>3, <3>4, <3>5 DEF TypeOK
    <3>7. TokenLocks'
      BY <1>0, <3>1, <3>4, <3>5 DEF TypeOK, TokenValid
    <3>8. HeldLocks'
      BY <1>0, <3>1, <3>2, <3>3, <3>4, <3>5 DEF TypeOK, Roles
    <3> QED BY <3>6, <3>7, <3>8
  <2> QED BY <2>1, <2>2
<1>13. ASSUME NEW j \in ExpireJobs, ExpireCommit(j) PROVE Locks'
  <2>1. tokenLock' = Unlocked(tokenLock, j)
    <3>1. \A a \in Approvals : tokenLock[a] # j
      BY <1>0
    <3> QED BY <1>0, <1>13, <3>1 DEF ExpireCommit, Unlocked, TypeOK
  <2>2. \A a \in Approvals : approvalLock[a] # j => approval'[a] = approval[a]
    BY <1>13 DEF ExpireCommit, CloseAll
  <2> QED BY <1>0, <1>13, <2>1, <2>2, EndKeepsLocks DEF ExpireCommit
<1>14. ASSUME NEW p \in Actors, Abort(p) PROVE Locks'
  BY <1>0, <1>14, EndKeepsLocks DEF Abort, rows
<1>15. CASE UNCHANGED <<rows, txn, approvalLock, tokenLock>>
  BY <1>0, <1>15 DEF TokenValid, rows
<1>16. ASSUME NEW j \in ExpireJobs, ExpireRefused(j) PROVE Locks'
  <2>1. /\ approvalLock' = Unlocked(approvalLock, j)
        /\ tokenLock' = Unlocked(tokenLock, j)
    <3>1. txn[j].phase = "expire" /\ approvalLock' = approvalLock /\ tokenLock' = tokenLock
      BY <1>16 DEF ExpireRefused
    <3>2. \A a \in Approvals : approvalLock[a] # j /\ tokenLock[a] # j
      BY <1>0, <3>1
    <3> QED BY <1>0, <3>1, <3>2 DEF Unlocked, TypeOK
  <2> QED BY <1>0, <1>16, <2>1, EndKeepsLocks DEF ExpireRefused, rows
<1> QED
  BY <1>1, <1>3, <1>4, <1>5, <1>6, <1>7, <1>8, <1>9, <1>10, <1>11, <1>12, <1>13,
     <1>14, <1>15, <1>16 DEF Next, vars, rows, Tick, RevokeIntegration, DecideStep, PublicStep, ExpireStep

-----------------------------------------------------------------------------
(* The rows.                                                               *)

\* A history of one row and the row appended to it.
LEMMA AppendToOne ==
  ASSUME NEW x, NEW y
  PROVE  Append(<<x>>, y) = <<x, y>>
<1> DEFINE S == {x, y}
<1>1. <<x>> \in Seq(S) /\ Len(<<x>>) = 1
  OBVIOUS
<1>2. Append(<<x>>, y) \in Seq(S) /\ Len(Append(<<x>>, y)) = 2
  BY <1>1
<1>3. Append(<<x>>, y)[1] = x /\ Append(<<x>>, y)[2] = y
  BY <1>1
<1>4. <<x, y>> \in Seq(S) /\ Len(<<x, y>>) = 2 /\ <<x, y>>[1] = x /\ <<x, y>>[2] = y
  OBVIOUS
<1>5. \A i \in 1 .. 2 : Append(<<x>>, y)[i] = <<x, y>>[i]
  BY <1>3, <1>4
<1> HIDE DEF S
<1> QED BY <1>2, <1>4, <1>5, SeqEqual

\* What the three writes of a closing transaction do to the rows of the approvals in
\* S, and to no others.
ClosesOnly(S, status, command, ts) ==
  /\ \A a \in Approvals \ S :
       /\ UNCHANGED <<approval[a], history[a], deliveries[a]>>
       /\ OneOutcome(a)'
       /\ \A c \in Commands : DecidedBy(a, c)' <=> DecidedBy(a, c)
  /\ \A a \in S :
       /\ approval'[a].status = status
       /\ approval'[a].expires = approval[a].expires
       /\ deliveries'[a] = {[status |-> status, version |-> 2, decidedAt |-> ts]}
       /\ OneOutcome(a)'
       /\ \A c \in Commands : DecidedBy(a, c)' <=> c = command

LEMMA CloseAllEffect ==
  ASSUME TypeOK, SingleOutcome, NEW S \in SUBSET Approvals, NEW status \in Terminal,
         NEW command \in Commands, NEW ts \in Nat,
         command = "expire" <=> status = "expired",
         \A a \in S : approval[a].status = "pending",
         CloseAll(S, status, command, ts)
  PROVE  ClosesOnly(S, status, command, ts)
<1>1. ASSUME NEW a \in Approvals \ S
      PROVE  /\ UNCHANGED <<approval[a], history[a], deliveries[a]>>
             /\ OneOutcome(a)'
             /\ \A c \in Commands : DecidedBy(a, c)' <=> DecidedBy(a, c)
  <2>1. UNCHANGED <<approval[a], history[a], deliveries[a]>>
    BY DEF CloseAll
  <2>2. OneOutcome(a)
    BY DEF SingleOutcome
  <2>3. OneOutcome(a)'
    BY <2>1, <2>2 DEF OneOutcome
  <2>4. \A c \in Commands : DecidedBy(a, c)' <=> DecidedBy(a, c)
    BY <2>1 DEF DecidedBy
  <2> QED BY <2>1, <2>3, <2>4
<1>2. ASSUME NEW a \in S
      PROVE  /\ approval'[a].status = status
             /\ approval'[a].expires = approval[a].expires
             /\ deliveries'[a] = {[status |-> status, version |-> 2, decidedAt |-> ts]}
             /\ OneOutcome(a)'
             /\ \A c \in Commands : DecidedBy(a, c)' <=> c = command
  <2>1. /\ approval[a].status = "pending"
        /\ approval[a].version = 1
        /\ history[a] = <<Requested>>
        /\ deliveries[a] = {}
    BY DEF SingleOutcome, OneOutcome, Terminal, Decisions
  <2>2. approval[a] \in ApprovalRow
    BY DEF TypeOK
  <2>3. /\ approval'[a].status = status
        /\ approval'[a].version = 2
        /\ approval'[a].expires = approval[a].expires
    <3>1. approval'[a] = Closed(approval[a], status)
      BY DEF CloseAll
    <3> QED BY <2>1, <2>2, <3>1 DEF Closed, ApprovalRow
  <2> DEFINE h == [from |-> "pending", to |-> status, command |-> command]
             d == [status |-> status, version |-> 2, decidedAt |-> ts]
  <2>4. history'[a] = <<Requested, h>>
    <3>1. history'[a] = Append(history[a], HistoryOf(approval[a], status, command))
      BY DEF CloseAll
    <3>2. HistoryOf(approval[a], status, command) = h
      BY <2>1 DEF HistoryOf
    <3>3. Append(<<Requested>>, h) = <<Requested, h>>
      BY AppendToOne
    <3> QED BY <2>1, <3>1, <3>2, <3>3
  <2>5. deliveries'[a] = {d}
    <3>1. deliveries'[a] = deliveries[a] \cup {DeliveryOf(approval[a], status, ts)}
      BY DEF CloseAll
    <3>2. DeliveryOf(approval[a], status, ts) = d
      BY <2>1 DEF DeliveryOf
    <3> QED BY <2>1, <3>1, <3>2
  <2>6. OneOutcome(a)'
    BY <2>3, <2>4, <2>5 DEF OneOutcome
  <2>7. \A c \in Commands : DecidedBy(a, c)' <=> c = command
    BY <2>4 DEF DecidedBy
  <2> QED BY <2>3, <2>5, <2>6, <2>7
<1> QED BY <1>1, <1>2 DEF ClosesOnly

\* The three commits close pending rows only: the part the locks make true.
LEMMA CommitsClosePending ==
  ASSUME IInv
  PROVE  /\ \A r \in Requests : HoldsApproval(r) =>
              /\ txn[r].on \in Approvals
              /\ approval[txn[r].on].status = "pending"
              /\ txn[r].decision \in Decisions
              /\ txn[r].ts \in Nat
         /\ \A r \in Requests : HoldsApproval(r) /\ HoldsToken(r) =>
              /\ TokenValid(txn[r].on, txn[r].ts)
         /\ \A j \in ExpireJobs, a \in Approvals : approvalLock[a] = j =>
              approval[a].status = "pending" /\ approval[a].expires < txn[j].ts
         /\ \A j \in ExpireJobs : txn[j].ts \in Nat
<1>1. TypeOK /\ Roles /\ Locks
  BY DEF IInv
<1>2. \A p \in Actors : txn[p] \in Transaction /\ txn[p].ts \in Nat
  BY <1>1 DEF TypeOK, Transaction
<1> QED
  BY <1>1, <1>2 DEF Roles, Locks, ApprovalLocks, TokenLocks, HeldLocks,
     HoldsApproval, HoldsToken, Actors

\* The properties of the rows, and what they need of tokens and begun requests.
RowsInv == /\ SingleOutcome
           /\ TokenSpentByItsDecision
           /\ DeadlinesRespected
           /\ Minting

\* A new approval, with or without its link, starts out consistent.
LEMMA CreateStep ==
  ASSUME IInv, NEW a \in Approvals, NEW mint \in BOOLEAN, Create(a, mint)
  PROVE  RowsInv'
<1>1. TypeOK /\ RowsInv
  BY DEF IInv, RowsInv
<1>2. \A b \in Approvals \ {a} : UNCHANGED <<approval[b], token[b], history[b], deliveries[b]>>
  BY <1>1 DEF Create, TypeOK
<1>3. /\ history[a] = <<>>
      /\ deliveries[a] = {}
      /\ token[a] = NoToken
  BY <1>1 DEF RowsInv, SingleOutcome, OneOutcome, Minting, Create, Terminal, Decisions
<1>4. /\ approval'[a] = [status |-> "pending", version |-> 1, expires |-> now + TTL]
      /\ history'[a] = <<Requested>>
      /\ deliveries'[a] = {}
      /\ ~token'[a].used
  BY <1>1, <1>3 DEF Create, TypeOK, Requested, NoToken
<1>5. SingleOutcome'
  <2>1. OneOutcome(a)'
    BY <1>4 DEF OneOutcome
  <2>2. ASSUME NEW b \in Approvals \ {a} PROVE OneOutcome(b)'
    <3>1. OneOutcome(b)
      BY <1>1 DEF RowsInv, SingleOutcome
    <3> QED BY <1>2, <3>1 DEF OneOutcome
  <2> QED BY <2>1, <2>2 DEF SingleOutcome
<1>6. TokenSpentByItsDecision'
  BY <1>1, <1>2, <1>4 DEF RowsInv, TokenSpentByItsDecision, DecidedBy
<1>7. DeadlinesRespected'
  BY <1>1, <1>2, <1>4 DEF RowsInv, DeadlinesRespected, DecidedBy
<1>8. Minting'
  BY <1>1, <1>2, <1>4 DEF RowsInv, Minting
<1> QED BY <1>5, <1>6, <1>7, <1>8 DEF RowsInv

\* A user's decision closes its approval once and spends no token.
LEMMA DecideCommitStep ==
  ASSUME IInv, NEW r \in Requests, DecideCommit(r)
  PROVE  RowsInv'
<1> DEFINE S == {txn[r].on}
<1>1. TypeOK /\ RowsInv
  BY DEF IInv, RowsInv
<1>2. /\ S \in SUBSET Approvals
      /\ \A a \in S : approval[a].status = "pending"
      /\ txn[r].decision \in Decisions
      /\ txn[r].ts \in Nat
  BY CommitsClosePending DEF DecideCommit, HoldsApproval
<1>3. /\ txn[r].decision \in Terminal
      /\ "decide" \in Commands
      /\ "decide" = "expire" <=> txn[r].decision = "expired"
      /\ CloseAll(S, txn[r].decision, "decide", txn[r].ts)
      /\ token' = token
  BY <1>2 DEF Terminal, Decisions, Commands, DecideCommit
<1>4. SingleOutcome
  BY <1>1 DEF RowsInv
<1> HIDE DEF S
<1>5. ClosesOnly(S, txn[r].decision, "decide", txn[r].ts)
  BY <1>1, <1>2, <1>3, <1>4, CloseAllEffect
<1>6. SingleOutcome'
  BY <1>5 DEF SingleOutcome, ClosesOnly
<1>7. TokenSpentByItsDecision'
  <2>1. \A a \in S : ~DecidedBy(a, "decide_public")
    <3>1. \A a \in S : OneOutcome(a) /\ approval[a].status = "pending"
      BY <1>1, <1>2 DEF RowsInv, SingleOutcome
    <3>2. \A a \in S : history[a] = <<Requested>>
      BY <3>1 DEF OneOutcome, Terminal, Decisions
    <3> QED BY <3>2 DEF DecidedBy
  <2> QED BY <1>1, <1>3, <1>5, <2>1 DEF RowsInv, TokenSpentByItsDecision, Commands, ClosesOnly
<1>8. DeadlinesRespected'
  BY <1>1, <1>3, <1>5 DEF RowsInv, DeadlinesRespected, Commands, ClosesOnly
<1>9. Minting'
  BY <1>1, <1>3, <1>5 DEF RowsInv, Minting, Terminal, Decisions, ClosesOnly
<1> QED BY <1>6, <1>7, <1>8, <1>9 DEF RowsInv

\* A link holder's decision closes its approval and spends the token with it.
LEMMA PublicCommitStep ==
  ASSUME IInv, NEW r \in Requests, PublicCommit(r)
  PROVE  RowsInv'
<1> DEFINE S == {txn[r].on}
<1>1. TypeOK /\ RowsInv
  BY DEF IInv, RowsInv
<1>2. /\ S \in SUBSET Approvals
      /\ \A a \in S : approval[a].status = "pending"
      /\ \A a \in S : TokenValid(a, txn[r].ts)
      /\ txn[r].decision \in Decisions
      /\ txn[r].ts \in Nat
  BY CommitsClosePending DEF PublicCommit, HoldsApproval, HoldsToken
<1>3. /\ txn[r].decision \in Terminal
      /\ "decide_public" \in Commands
      /\ "decide_public" = "expire" <=> txn[r].decision = "expired"
      /\ CloseAll(S, txn[r].decision, "decide_public", txn[r].ts)
  BY <1>2 DEF Terminal, Decisions, Commands, PublicCommit
<1>4. SingleOutcome
  BY <1>1 DEF RowsInv
<1>5. /\ \A a \in Approvals \ S : token'[a] = token[a]
      /\ \A a \in S : /\ token'[a].used
                      /\ ~token'[a].revoked
                      /\ txn[r].ts <= token'[a].expires
  BY <1>1, <1>2 DEF PublicCommit, TypeOK, TokenRow, TokenValid
<1> HIDE DEF S
<1>6. ClosesOnly(S, txn[r].decision, "decide_public", txn[r].ts)
  BY <1>1, <1>2, <1>3, <1>4, CloseAllEffect
<1>7. SingleOutcome'
  BY <1>6 DEF SingleOutcome, ClosesOnly
<1>8. TokenSpentByItsDecision'
  BY <1>1, <1>5, <1>6 DEF RowsInv, TokenSpentByItsDecision, Commands, ClosesOnly
<1>9. DeadlinesRespected'
  <2>1. ASSUME NEW a \in S, NEW d \in deliveries'[a]
        PROVE  /\ DecidedBy(a, "decide_public")' => d.decidedAt <= token'[a].expires
               /\ DecidedBy(a, "expire")' => approval'[a].expires < d.decidedAt
    BY <1>5, <1>6, <2>1 DEF Commands, ClosesOnly
  <2>2. ASSUME NEW a \in Approvals \ S, NEW d \in deliveries'[a]
        PROVE  /\ DecidedBy(a, "decide_public")' => d.decidedAt <= token'[a].expires
               /\ DecidedBy(a, "expire")' => approval'[a].expires < d.decidedAt
    BY <1>1, <1>5, <1>6, <2>2 DEF RowsInv, DeadlinesRespected, Commands, ClosesOnly
  <2> QED BY <2>1, <2>2 DEF DeadlinesRespected
<1>10. Minting'
  BY <1>1, <1>3, <1>5, <1>6 DEF RowsInv, Minting, Terminal, Decisions, ClosesOnly
<1> QED BY <1>7, <1>8, <1>9, <1>10 DEF RowsInv

\* The job closes only overdue approvals, all of them with one outcome.
LEMMA ExpireCommitStep ==
  ASSUME IInv, NEW j \in ExpireJobs, ExpireCommit(j)
  PROVE  RowsInv'
<1> DEFINE S == {a \in Approvals : approvalLock[a] = j}
<1>1. TypeOK /\ RowsInv
  BY DEF IInv, RowsInv
<1>2. /\ S \in SUBSET Approvals
      /\ \A a \in S : approval[a].status = "pending" /\ approval[a].expires < txn[j].ts
      /\ txn[j].ts \in Nat
  BY CommitsClosePending
<1>3. /\ "expired" \in Terminal
      /\ "expire" \in Commands
      /\ CloseAll(S, "expired", "expire", txn[j].ts)
      /\ token' = token
  BY DEF Terminal, Commands, ExpireCommit
<1>4. SingleOutcome
  BY <1>1 DEF RowsInv
<1> HIDE DEF S
<1>5. ClosesOnly(S, "expired", "expire", txn[j].ts)
  BY <1>1, <1>2, <1>3, <1>4, CloseAllEffect
<1>6. SingleOutcome'
  BY <1>5 DEF SingleOutcome, ClosesOnly
<1>7. TokenSpentByItsDecision'
  <2>1. \A a \in S : ~DecidedBy(a, "decide_public")
    <3>1. \A a \in S : OneOutcome(a) /\ approval[a].status = "pending"
      BY <1>1, <1>2 DEF RowsInv, SingleOutcome
    <3>2. \A a \in S : history[a] = <<Requested>>
      BY <3>1 DEF OneOutcome, Terminal, Decisions
    <3> QED BY <3>2 DEF DecidedBy
  <2> QED BY <1>1, <1>3, <1>5, <2>1 DEF RowsInv, TokenSpentByItsDecision, Commands, ClosesOnly
<1>8. DeadlinesRespected'
  <2>1. ASSUME NEW a \in S, NEW d \in deliveries'[a]
        PROVE  /\ DecidedBy(a, "decide_public")' => d.decidedAt <= token'[a].expires
               /\ DecidedBy(a, "expire")' => approval'[a].expires < d.decidedAt
    BY <1>2, <1>5, <2>1 DEF Commands, ClosesOnly
  <2>2. ASSUME NEW a \in Approvals \ S, NEW d \in deliveries'[a]
        PROVE  /\ DecidedBy(a, "decide_public")' => d.decidedAt <= token'[a].expires
               /\ DecidedBy(a, "expire")' => approval'[a].expires < d.decidedAt
    BY <1>1, <1>3, <1>5, <2>2 DEF RowsInv, DeadlinesRespected, Commands, ClosesOnly
  <2> QED BY <2>1, <2>2 DEF DeadlinesRespected
<1>9. Minting'
  BY <1>1, <1>3, <1>5 DEF RowsInv, Minting, ClosesOnly
<1> QED BY <1>6, <1>7, <1>8, <1>9 DEF RowsInv

\* Revoking touches an unused token only, so no decision loses its token.
LEMMA RevokeStep ==
  ASSUME IInv, NEW a \in Approvals, Revoke(a)
  PROVE  RowsInv'
<1>1. TypeOK /\ RowsInv
  BY DEF IInv, RowsInv
<1>2. /\ UNCHANGED <<approval, history, deliveries>>
      /\ \A b \in Approvals \ {a} : token'[b] = token[b]
      /\ token'[a].used = token[a].used
      /\ token'[a].expires = token[a].expires
      /\ ~token'[a].used
      /\ token[a].minted
  BY <1>1, SMTT(30) DEF Revoke, TypeOK, TokenRow
<1>3. SingleOutcome'
  BY <1>1, <1>2, ZenonT(60) DEF RowsInv, SingleOutcome, OneOutcome
<1>4. TokenSpentByItsDecision' /\ DeadlinesRespected'
  BY <1>1, <1>2 DEF RowsInv, TokenSpentByItsDecision, DeadlinesRespected, DecidedBy
<1>5. Minting'
  BY <1>1, <1>2 DEF RowsInv, Minting, NoToken
<1> QED BY <1>3, <1>4, <1>5 DEF RowsInv

\* Only the five steps above write rows.
LEMMA RowsStep == IInv /\ [Next]_vars => RowsInv'
<1> SUFFICES ASSUME IInv, [Next]_vars PROVE RowsInv'
  OBVIOUS
<1>1. ASSUME UNCHANGED rows PROVE RowsInv'
  <2>1. RowsInv /\ UNCHANGED <<approval, token, history, deliveries>>
    BY <1>1 DEF IInv, RowsInv, rows
  <2>2. SingleOutcome'
    BY <2>1 DEF RowsInv, SingleOutcome, OneOutcome
  <2>3. TokenSpentByItsDecision' /\ DeadlinesRespected' /\ Minting'
    BY <2>1 DEF RowsInv, TokenSpentByItsDecision, DeadlinesRespected, DecidedBy, Minting
  <2> QED BY <2>2, <2>3 DEF RowsInv
<1>2. ASSUME NEW r \in Requests, DecideStep(r) \/ PublicStep(r) PROVE RowsInv'
  BY <1>1, <1>2, DecideCommitStep, PublicCommitStep
  DEF DecideStep, DecideLock, PublicStep, PublicLockToken, PublicLockApproval
<1>3. ASSUME NEW j \in ExpireJobs, ExpireStep(j) PROVE RowsInv'
  BY <1>1, <1>3, ExpireCommitStep DEF ExpireStep, ExpireBegin, ExpireRefused, ExpireLock
<1>4. ASSUME NEW r \in Requests, NEW a \in Approvals, NEW d \in Decisions,
             (\E v \in ExpectedVersions : DecideBegin(r, a, d, v)) \/ PublicBegin(r, a, d)
      PROVE RowsInv'
  BY <1>1, <1>4 DEF DecideBegin, PublicBegin
<1>5. ASSUME NEW p \in Actors, Abort(p) PROVE RowsInv'
  BY <1>1, <1>5 DEF Abort
<1>6. CASE Tick \/ RevokeIntegration \/ UNCHANGED vars
  BY <1>1, <1>6 DEF Tick, RevokeIntegration, vars, rows
<1> QED
  BY <1>2, <1>3, <1>4, <1>5, <1>6, CreateStep, RevokeStep DEF Next

\* No step takes an approval back to 'absent'.
LEMMA NeverForgotten ==
  IInv /\ [Next]_vars =>
    \A a \in Approvals : approval[a].status # "absent" => approval'[a].status # "absent"
<1> SUFFICES ASSUME IInv, [Next]_vars
             PROVE  \A a \in Approvals :
                      approval[a].status # "absent" => approval'[a].status # "absent"
  OBVIOUS
<1>1. TypeOK /\ Roles
  BY DEF IInv
<1>2. ASSUME NEW S, NEW status \in Terminal, NEW command, NEW ts,
             CloseAll(S, status, command, ts)
      PROVE  \A a \in Approvals :
               approval[a].status # "absent" => approval'[a].status # "absent"
  <2>1. ASSUME NEW a \in Approvals PROVE Closed(approval[a], status).status # "absent"
    BY <1>1 DEF TypeOK, ApprovalRow, Closed, Terminal, Decisions
  <2> QED BY <1>2, <2>1 DEF CloseAll
<1>3. ASSUME NEW r \in Requests, DecideCommit(r) \/ PublicCommit(r)
      PROVE  \A a \in Approvals :
               approval[a].status # "absent" => approval'[a].status # "absent"
  <2>1. txn[r].decision \in Terminal
    BY <1>1, <1>3 DEF Roles, Terminal, DecideCommit, PublicCommit
  <2> QED BY <1>2, <1>3, <2>1 DEF DecideCommit, PublicCommit
<1>4. ASSUME NEW j \in ExpireJobs, ExpireCommit(j)
      PROVE  \A a \in Approvals :
               approval[a].status # "absent" => approval'[a].status # "absent"
  <2>1. "expired" \in Terminal
    BY DEF Terminal
  <2> QED BY <1>2, <1>4, <2>1 DEF ExpireCommit
<1>5. ASSUME NEW a \in Approvals, NEW mint \in BOOLEAN, Create(a, mint)
      PROVE  \A b \in Approvals :
               approval[b].status # "absent" => approval'[b].status # "absent"
  BY <1>1, <1>5 DEF Create, TypeOK
<1>6. CASE UNCHANGED approval
  BY <1>6
<1> QED
  BY <1>3, <1>4, <1>5, <1>6
  DEF Next, vars, rows, DecideStep, DecideLock, PublicStep, PublicLockToken,
      PublicLockApproval, ExpireStep, ExpireBegin, ExpireRefused, ExpireLock, DecideBegin,
      PublicBegin, Revoke, Abort, RevokeIntegration, Tick

\* A request in flight keeps a row to act on.
LEMMA KnownStep == IInv /\ [Next]_vars => Known'
<1> SUFFICES ASSUME IInv, [Next]_vars PROVE Known'
  OBVIOUS
<1> USE DEF Actors
<1>1. /\ TypeOK /\ Roles /\ Known /\ Minting
      /\ \A a \in Approvals : approval[a].status # "absent" => approval'[a].status # "absent"
  BY NeverForgotten DEF IInv
<1>2. ASSUME NEW r \in Requests,
             txn'[r].phase = "idle" \/ (txn[r].phase # "idle" /\ txn'[r].on = txn[r].on)
      PROVE  txn'[r].phase # "idle" => approval'[txn'[r].on].status # "absent"
  BY <1>1, <1>2 DEF Known, Roles
<1>3. ASSUME NEW r \in Requests, NEW a \in Approvals, NEW d \in Decisions,
             (\E v \in ExpectedVersions : DecideBegin(r, a, d, v)) \/ PublicBegin(r, a, d)
      PROVE  Known'
  <2>1. txn'[r].on = a /\ approval[a].status # "absent"
    BY <1>1, <1>3 DEF DecideBegin, PublicBegin, Minting, NoToken, TypeOK
  <2>2. \A q \in Requests : q # r => txn'[q] = txn[q]
    BY <1>1, <1>3 DEF DecideBegin, PublicBegin, TypeOK
  <2> QED BY <1>1, <1>2, <2>1, <2>2 DEF Known, Roles
<1>4. ASSUME NEW p \in Actors, End(p) PROVE Known'
  <2>1. txn'[p].phase = "idle" /\ \A q \in Actors : q # p => txn'[q] = txn[q]
    BY <1>1, <1>4 DEF End, Idle, TypeOK
  <2> QED BY <1>1, <1>2, <2>1 DEF Known, Roles
<1>5. ASSUME NEW p \in Actors, NEW phase, Enter(p, phase), txn[p].phase # "idle"
      PROVE  Known'
  <2>1. txn'[p].on = txn[p].on /\ \A q \in Actors : q # p => txn'[q] = txn[q]
    BY <1>1, <1>5 DEF Enter, TypeOK, Transaction
  <2> QED BY <1>1, <1>2, <1>5, <2>1 DEF Known, Roles
<1>6. ASSUME NEW j \in ExpireJobs, ExpireBegin(j) PROVE Known'
  <2>1. \A q \in Requests : txn'[q] = txn[q]
    BY <1>1, <1>6 DEF ExpireBegin, TypeOK
  <2> QED BY <1>1, <1>2, <2>1 DEF Known, Roles
<1>7. CASE UNCHANGED txn
  BY <1>1, <1>7 DEF Known, Roles
<1>8. ASSUME NEW r \in Requests, DecideStep(r) \/ PublicStep(r) PROVE Known'
  BY <1>4, <1>5, <1>8 DEF DecideStep, DecideLock, DecideCommit,
     PublicStep, PublicLockToken, PublicLockApproval, PublicCommit
<1>9. ASSUME NEW j \in ExpireJobs, ExpireStep(j) PROVE Known'
  BY <1>4, <1>5, <1>6, <1>9 DEF ExpireStep, ExpireRefused, ExpireLock, ExpireCommit
<1>10. ASSUME NEW p \in Actors, Abort(p) PROVE Known'
  BY <1>4, <1>10 DEF Abort
<1> QED
  BY <1>3, <1>7, <1>8, <1>9, <1>10 DEF Next, vars, Create, Revoke, RevokeIntegration, Tick

-----------------------------------------------------------------------------
(* The theorems.                                                           *)

\* The inductive invariant holds in every reachable state.
THEOREM InductiveInvariant == Spec => []IInv
<1>1. IInv /\ [Next]_vars => IInv'
  <2> SUFFICES ASSUME IInv, [Next]_vars PROVE IInv'
    OBVIOUS
  <2>1. TypeOK' /\ Roles'
    BY TypeStep, RolesStep DEF IInv
  <2>2. Locks' /\ Known' /\ RowsInv'
    BY LocksStep, KnownStep, RowsStep
  <2> QED BY <2>1, <2>2 DEF IInv, RowsInv
<1> QED BY <1>1, InitiallyInvariant, PTL DEF Spec

\* Every row and every open transaction keeps its type.
THEOREM TypeCorrect == Spec => []TypeOK
<1>1. IInv => TypeOK
  BY DEF IInv
<1> QED BY <1>1, InductiveInvariant, PTL

\* Users, link holders and the expiry job never close an approval twice, and the
\* three tables tell one outcome.
THEOREM OutcomeIsSingle == Spec => []SingleOutcome
<1>1. IInv => SingleOutcome
  BY DEF IInv
<1> QED BY <1>1, InductiveInvariant, PTL

\* A public link is used exactly when it decided, and a revoked one never is.
THEOREM TokenSpentOnce == Spec => []TokenSpentByItsDecision
<1>1. IInv => TokenSpentByItsDecision
  BY DEF IInv
<1> QED BY <1>1, InductiveInvariant, PTL

\* Public decisions begin in time and expiries begin late, whatever they wait for.
THEOREM DeadlinesAreRespected == Spec => []DeadlinesRespected
<1>1. IInv => DeadlinesRespected
  BY DEF IInv
<1> QED BY <1>1, InductiveInvariant, PTL

-----------------------------------------------------------------------------
(* The implementation of ApprovalOutcome.                                  *)

\* The refinement mapping.
Outcomes  == [a \in Approvals |-> approval[a].status]
Published == [a \in Approvals |-> {d.status : d \in deliveries[a]}]

\* A closing commit resolves the approvals it closes.
LEMMA CommitResolves ==
  ASSUME IInv, NEW S \in SUBSET Approvals, NEW status \in Terminal,
         NEW command \in Commands, NEW ts \in Nat,
         command = "expire" <=> status = "expired",
         \A a \in S : approval[a].status = "pending",
         CloseAll(S, status, command, ts)
  PROVE  Outcome!Next
<1>1. ClosesOnly(S, status, command, ts)
  BY CloseAllEffect DEF IInv
<1>2. \A a \in S : Outcomes[a] = "pending"
  BY DEF Outcomes
<1>3. Outcomes' = [a \in Approvals |-> IF a \in S THEN status ELSE Outcomes[a]]
  BY <1>1 DEF ClosesOnly, Outcomes
<1>4. Published' = [a \in Approvals |-> IF a \in S THEN {status} ELSE Published[a]]
  <2>1. ASSUME NEW a \in S PROVE {d.status : d \in deliveries'[a]} = {status}
    <3> DEFINE row == [status |-> status, version |-> 2, decidedAt |-> ts]
    <3>1. deliveries'[a] = {row}
      BY <1>1 DEF ClosesOnly
    <3>2. row.status = status
      OBVIOUS
    <3> HIDE DEF row
    <3> QED BY <3>1, <3>2
  <2>2. ASSUME NEW a \in Approvals \ S
        PROVE {d.status : d \in deliveries'[a]} = {d.status : d \in deliveries[a]}
    BY <1>1 DEF ClosesOnly
  <2> QED BY <2>1, <2>2 DEF Published
<1>5. status \in Outcome!Resolutions
  BY DEF Outcome!Resolutions, Terminal, Decisions
<1> QED
  BY <1>2, <1>3, <1>4, <1>5 DEF Outcome!Next, Outcome!Resolve, Outcomes, Published

\* Every step maps to a step of ApprovalOutcome or to a stutter.
LEMMA OutcomeStep == IInv /\ [Next]_vars => [Outcome!Next]_<<Outcomes, Published>>
<1> SUFFICES ASSUME IInv, [Next]_vars PROVE [Outcome!Next]_<<Outcomes, Published>>
  OBVIOUS
<1>1. TypeOK /\ SingleOutcome
  BY DEF IInv
<1>2. ASSUME UNCHANGED <<approval, deliveries>>
      PROVE  [Outcome!Next]_<<Outcomes, Published>>
  BY <1>2 DEF Outcomes, Published
<1>3. ASSUME NEW a \in Approvals, NEW mint \in BOOLEAN, Create(a, mint)
      PROVE  Outcome!Next
  <2>1. Outcomes[a] = "absent"
    BY <1>3 DEF Create, Outcomes
  <2>2. Outcomes' = [Outcomes EXCEPT ![a] = "pending"]
    BY <1>1, <1>3 DEF Create, Outcomes, TypeOK
  <2>3. Published' = Published
    BY <1>3 DEF Create, Published
  <2> QED BY <2>1, <2>2, <2>3 DEF Outcome!Next, Outcome!Open, Outcomes, Published
<1>4. ASSUME NEW r \in Requests, DecideCommit(r) PROVE Outcome!Next
  <2>1. /\ {txn[r].on} \in SUBSET Approvals
        /\ \A a \in {txn[r].on} : approval[a].status = "pending"
        /\ txn[r].decision \in Decisions
        /\ txn[r].ts \in Nat
        /\ CloseAll({txn[r].on}, txn[r].decision, "decide", txn[r].ts)
    BY <1>4, CommitsClosePending DEF DecideCommit, HoldsApproval
  <2>2. /\ txn[r].decision \in Terminal
        /\ "decide" \in Commands
        /\ "decide" = "expire" <=> txn[r].decision = "expired"
    BY <2>1 DEF Terminal, Decisions, Commands
  <2> QED BY <2>1, <2>2, CommitResolves
<1>5. ASSUME NEW r \in Requests, PublicCommit(r) PROVE Outcome!Next
  <2>1. /\ {txn[r].on} \in SUBSET Approvals
        /\ \A a \in {txn[r].on} : approval[a].status = "pending"
        /\ txn[r].decision \in Decisions
        /\ txn[r].ts \in Nat
        /\ CloseAll({txn[r].on}, txn[r].decision, "decide_public", txn[r].ts)
    BY <1>5, CommitsClosePending DEF PublicCommit, HoldsApproval
  <2>2. /\ txn[r].decision \in Terminal
        /\ "decide_public" \in Commands
        /\ "decide_public" = "expire" <=> txn[r].decision = "expired"
    BY <2>1 DEF Terminal, Decisions, Commands
  <2> QED BY <2>1, <2>2, CommitResolves
<1>6. ASSUME NEW j \in ExpireJobs, ExpireCommit(j) PROVE Outcome!Next
  <2> DEFINE S == {a \in Approvals : approvalLock[a] = j}
  <2>1. /\ S \in SUBSET Approvals
        /\ \A a \in S : approval[a].status = "pending"
        /\ txn[j].ts \in Nat
        /\ CloseAll(S, "expired", "expire", txn[j].ts)
    BY <1>6, CommitsClosePending DEF ExpireCommit
  <2>2. "expired" \in Terminal /\ "expire" \in Commands
    BY DEF Terminal, Commands
  <2> HIDE DEF S
  <2> QED BY <2>1, <2>2, CommitResolves
<1> QED
  BY <1>2, <1>3, <1>4, <1>5, <1>6
  DEF Next, vars, rows, DecideStep, DecideLock, PublicStep, PublicLockToken,
      PublicLockApproval, ExpireStep, ExpireBegin, ExpireRefused, ExpireLock, DecideBegin,
      PublicBegin, Revoke, Abort, RevokeIntegration, Tick

\* The transactions of the migrations implement the one-shot register of
\* ApprovalOutcome: opened once, resolved once, published as it is resolved.
THEOREM OutcomeImplemented == Spec => ImplementsOutcome
<1>1. Init => Outcome!Init
  BY DEF Init, NoRow, Outcome!Init
<1>2. IInv /\ [Next]_vars => [Outcome!Next]_<<Outcomes, Published>>
  BY OutcomeStep
<1> QED
  BY <1>1, <1>2, InductiveInvariant, PTL
  DEF Spec, ImplementsOutcome, Outcome!Spec, Outcomes, Published
=============================================================================

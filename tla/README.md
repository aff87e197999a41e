# A verification development of LeadOps Portal

LeadOps Portal is a multi-tenant back office for lead automation. A Next.js application takes webhooks
from n8n workflows, serves the portal and the public approval pages; a worker runs jobs with pg-boss;
PostgreSQL holds everything, with much of the control in PL/pgSQL functions. This directory holds TLA+ models
of the parts whose correctness depends on the order in which transactions, jobs and people act, the TLC
runs that check them on small instances, and proofs, checked by TLAPS, for every value of the constants.

Paths below are relative to the repository, which is at `src/` (`PROJECT.json` gives them with that
prefix). Migrations are abbreviated: *0009* is `packages/db/migrations/0009_approval_domain.sql`.

## 1. The system

### Components

| Component | State it keeps | Operations | Where |
| --- | --- | --- | --- |
| Approval decisions | `approvals`, `approval_tokens`, `approval_history`, rows inserted in `approval_deliveries` | create, decide (member), decide (public link), revoke link, expire | 0009, 0010, `db/services/approvals.ts`, `web/api/v1/approvals`, `worker/handlers/approvals-expire.ts` |
| Approval result delivery | `approval_deliveries` (status, attempts, lease) | enqueue due rows, claim, POST, mark, job retry | 0009, 0010, `worker/approval-callback.ts`, `worker/handlers/approvals-deliver-result.ts` |
| Event ingest, outbox, replay | `business_events`, `outbox`, `webhook_replays` | ingest, dispatch (claim, send, mark), replay | 0005, `db/services/events.ts`, `web/api/v1/events`, `worker/dispatcher.ts` |
| Event projection | `business_events.status`, projected rows | project under an advisory lock, record failure | `worker/projector.ts`, `worker/handlers/events-project.ts` |
| Workflow runs | `workflows`, `workflow_runs` | upsert from start, success and failure events | `db/services/workflows.ts` |
| Leads | `leads`, `lead_status_history`, `ai_runs` | receive (dedupe), qualify by workflow, qualify by AI job | 0006, 0008, `worker/lead-projectors.ts`, `core/leads` |
| Job wrapper, pg-boss | pg-boss's own tables | send with singleton key, run, time out, retry, give up | `worker/jobs`, `worker/index.ts` |
| Schedulers | none (they poll) | list due rows and send jobs | `worker/scheduler.ts`, 0010 |
| E-mail delivery | `email_deliveries` | create (idempotent), enqueue due rows, claim, send, mark | 0010, `db/services/email.ts`, `worker/handlers/emails-send.ts`, `packages/email` |
| Incidents and alerts | `incidents`, `incident_events` | open or aggregate, acknowledge, resolve, notify | 0011, `db/services/incidents.ts`, `packages/alert` |
| Weekly reports | `report_snapshots` | list the last complete week, compute, store once per client and week | 0011, `db/services/reports.ts`, `worker/handlers/reports-generate-weekly.ts` |
| Retention | rows of the others | prune old closed rows | 0012, `db/services/retention.ts` |
| Integrations | `integrations`, `integration_secrets` | create, rotate secret, revoke, configure callback, verify a delivery | `db/services/integrations.ts`, `web/api/v1/integrations`, `core/approval/callback-url.ts`, `packages/events/src/signing.ts` |
| Tenancy | organizations, members, invitations, clients, client members and assignments, the session's organization | create, invite, accept, revoke, deactivate, remove, grant and take access, switch, elevate | 0001 to 0004, `db/services/members.ts`, `clients.ts`, `organizations.ts`, `session.ts`, `elevation.ts`, `actor.ts` |
| Authorization matrix | none | decide whether a role may do an action on a scope | `core/authorization` |
| Read APIs | none | six paginated lists, dashboards | `web/api/v1`, `list*` in `db/services` |
| Signing, worker runtime, web pages, observability, n8n templates | little or none | | `packages/events`, `worker/runtime.ts`, `apps/web`, `packages/observability`, `packages/n8n` |

`PROJECT.json` lists each with its status.

### How they interact

1. n8n POSTs a signed event. One transaction inserts the `business_events` row and, for a type that is known,
   an `outbox` row.
2. Each worker process polls the outbox: it claims rows under a lease of five minutes, sends a pg-boss job
   for each with the singleton key `outbox-<id>`, and marks the row. Claim, send and mark are three
   independent steps.
3. `events.project` takes an advisory lock per event, reads the event, runs its projector and marks the
   event, all in one transaction. An error rolls this back, and a second transaction records the failure.
4. The projector of `lead.received` inserts the lead and an outbox row for `leads.qualify`, which asks the AI
   provider between two transactions. `lead.qualified` events of n8n write the same columns.
5. An approval is created for n8n, decided by a member, by the holder of a public link, or expired by a
   job. The transaction that closes it also inserts the `approval_deliveries` row. A scheduler turns due
   rows into jobs; the job claims, POSTs to the integration's callback URL, and marks.
6. The wrapper of a job that fails for good sends an `incidents.open-from-failure` job, which opens or aggregates an
   incident. Members acknowledge and resolve incidents; a later failure reopens a resolved one.

7. A request of the portal reads its session, membership and client ids, each in a transaction of its own,
   asks the authorization matrix, and acts in a later transaction under row policies that look at the
   membership again.
8. Schedulers list due e-mails and the clients without a report of the last complete week, and send a job for
   each. The report job reads leads, approvals, runs and incident events; the dashboard reads the same rows live.

All transactions run in READ COMMITTED. `now()` is the start of the transaction; `FOR UPDATE` waits and
then sees the committed row; `SKIP LOCKED` passes over rows that are locked.

### What is hard

- *Races for a row*: four kinds of transaction close an approval; two jobs project one event; a workflow and
  a job qualify one lead.
- *A job's timeout does not stop it.* `jobs/wrapper.ts` rejects a promise; the handler goes on, beside its retry.
- *Leases are fenced by a worker id that need not be unique*: the default is `worker-<pid>`, and pids coincide
  between containers (and `docs/deployment/production.md` scales workers horizontally).
- *Effects outside the database*: a POST or a send that has happened, whose answer or mark is lost.
- *State read before a wait and used after it*: the lead that is read, up to 90 s before its decision is
  written; the failed event a replay reads and then enqueues; the policy of an `INSERT`, evaluated before it waits for a key;
  the snapshot of an `UPDATE` that then waits for a row.
- *An integration revoked between two checks*: the worker's access check, its reads under row policies and its functions look at
  different moments, and answer a revocation with an error, with no rows, or not at all.
- *Clocks*: deadlines are compared with the start of a transaction that commits later, with `<=` in one
  place and `<` in another.
- *Results nobody looks at*: `mark_*` and `apply_lead_status_atomic` return booleans that their callers ignore, and
  `acceptInvitation` does not count the rows its `UPDATE` found.
- *Rights read earlier*: an actor's role is that of the moment its request began.
- *Times that are not commit times*: incident events and rotations carry the start of their transactions, leads
  the `occurredAt` of their event, and cursors fewer digits than the rows they point at.

`PROJECT.json` lists each hazard at its line, with the properties that would catch it.

### What makes each component correct

- Approvals: one outcome, told alike by row, history and callback; a link is spent only by its own decision;
  deadlines hold; overdue approvals of an active integration close; no lock cycle.
- Delivery: "delivered" means received; a closed row stays closed; extra attempts and duplicates have a cause;
  every row settles.
- Events: accepted events are not forgotten; a projector takes effect once; late failures take nothing back.
- Runs: the state says what the projected events say, in whatever order.
- Leads: only legal transitions, each with its history row; a completed job has decided its lead, if it could see it.
- E-mail: whoever is told yes for a key has asked for the e-mail that is sent under it; an early failure has
  a final answer behind it; every row settles.
- Incidents: a job that failed for good has one (but see finding 1); each failed job is counted once; resolved incidents reopen.
- Reports: one immutable snapshot per week, which has what was there when it was made; the last week is reported.
- Integrations: one live secret while active; a replaced or revoked secret soon verifies nothing.
- Tenancy: an organization keeps a manager; an invitation admits once, but for one order of steps; access belongs to members.
- Lists: the pages together are the list.

## 2. The modules

| Module | What it is |
| --- | --- |
| `ApprovalDecision` | the transactions that create, decide, revoke and expire approvals, with their row locks |
| `ApprovalOutcome` | abstract: a register per approval, set once and published when it is set |
| `ApprovalDelivery` | the delivery queue: scheduler, claim, POST, mark, timeout, crash |
| `DeliveryTable` | abstract: what a table of deliveries promises; `ApprovalDelivery` and `EmailDelivery` implement it |
| `EventPipeline` | ingest, outbox, pg-boss, projection, failure, replay, and the workflow run they write |
| `EventJournal` | abstract: what the sender of an event is promised |
| `LeadQualification` | the two lead projectors and the `leads.qualify` job |
| `LeadLifecycle` | abstract: the state machine of `packages/core/src/leads/state-machine.ts` |
| `IncidentEscalation` | job wrapper, escalation, the `incidents.open-from-failure` job, acknowledge and resolve |
| `IncidentRegister` | abstract: what an operator is promised of an incident |
| `Authorization` | the matrix of roles, actions and scopes, and `Can`: functions without state |
| `Membership` | members, invitations, clients, access and sessions of one organization, under `Authorization` |
| `CallbackUrl` | which callback URLs are accepted: functions without state |
| `IntegrationSecrets` | one integration, its secrets and the deliveries signed with them; uses `CallbackUrl` |
| `DeliveryJobs` | what both delivery jobs have: executions, worker ids, numbers of attempts |
| `EmailRows` | e-mail rows, their callers and the provider's mailbox, and what is promised of them |
| `EmailDelivery` | idempotent creation, scheduler, claim, send, mark, timeouts, retention of e-mails |
| `WeeklyReports` | the weekly report of one client against the rows that change under it |
| `Listings` | the six paginated lists and a reader that follows their cursors |
| `MC*` | instances for TLC |
| `*Proofs` | theorems and proofs about the module they extend; `DeliveryProofs` also about `EmailDelivery` |

Operators named `<Definition>_<Change>` directly above a definition are mutants: plausible bugs, each
of which makes one property fail. They are used by no specification; `PROJECT.json` pairs each with its property.

### ApprovalDecision

`approval`, `token`, `history` and `deliveries` are the four tables, a row (or a sequence or set of rows) per approval.
`txn[p]` is the transaction that actor `p` has open: its phase, its `now()`, and its arguments.
`approvalLock` and `tokenLock` are the `FOR UPDATE` locks, `integration` the status of the integration the approvals came through,
which creation and expiry test and decisions do not. A transaction begins (fixing `ts`), takes
each lock in a step of its own, and commits all its writes in one step.

| Action | Code |
| --- | --- |
| `Create` | `create_approval_transactional` and the token minted in the same transaction |
| `DecideBegin`, `DecideLock`, `DecideCommit` | the decide route and `decide_approval_atomic` |
| `PublicBegin`, `PublicLockToken`, `PublicLockApproval`, `PublicCommit` | the public route and `consume_approval_token_and_decide`: token row first, approval second |
| `Revoke` | `revoke_approval_token_safe` |
| `ExpireBegin`, `ExpireRefused`, `ExpireLock`, `ExpireCommit` | scheduler (`<=`, active integrations only), then `expire_pending_approvals_for_integration`, which raises for a revoked integration or goes on (`<`, `SKIP LOCKED`) |
| `RevokeIntegration` | `revokeIntegration` (`IntegrationSecrets` has its transaction) |
| `Abort`, `Tick` | a transaction lost before its commit; the clock |

A replayed creation returns the existing row and mints no token, so an approval has at most one token and `Create`
happens once per approval. Status `cancelled` is declared and never written. All rows belong to one
integration: every statement filters on the tenant keys.

### ApprovalDelivery

`row[d]` is the delivery row, with time as two facts: its backoff is over (`due`), its lease is over
(`leaseOver`). `handler[h]` is one execution of the job. `queue[d]` counts jobs waiting in pg-boss.
`received`, `unanswered` and `expired` record what happened outside: POSTs the receiver accepted, answers
that were lost, leases that ran out. `WorkerOf` gives each handler its worker id, unique or shared.
`Claim` and `ClaimWhileRevoked` are the two ends of the same transaction: it updates the row and then joins
the integration, which may have been revoked in between. Retries are pg-boss's to make or not (`MayRequeue`):
the scheduler enqueues due rows anyway. A POST that outlives its lease costs a fault, because it
takes a receiver that trickles its answer, a paused process or an absent database. `Seen` is how a row looks to whoever
wrote it: open, delivered or failed; leases and retries are hidden. With it the queue implements `DeliveryTable`, whose
`HandOver` may come again for a row that is settled, for duplicates are possible, but whose `Settle` comes once.

### EventPipeline

`status` is `business_events.status`; `applied[e]` counts committed runs of the projector, a fact the code has no
column for; `run` is `workflow_runs.status`; `outbox[m]` a row; `send[w][m]` what dispatcher `w` does with its
claim; `job[<<m, d>>]` the pg-boss job of message `m` sent on day `d` (singleton keys last a day); `exec[h]` an
execution of `events.project`; `replaying` the events that a replay has read and not yet enqueued. `Kind` says
what a type means to the registry: a run event, a lead event (whose projector is
`LeadQualification`), a type without a projector, or an unknown type.

`Lock` and `Project` are the two steps of the projection transaction. Its other writes take row locks
that it holds until it commits, so they need no steps of their own. `ProjectUnanswered` is a commit
whose answer is lost; the code then records a failure over a projected event, which the mark refuses.

### LeadQualification

`lead`, `history` and `aiRuns` are the tables; `job[l]` the one `leads.qualify` job of a lead; `exec[x]` an
execution. `open` holds the events that are not projected yet: `EventPipeline` decides when that happens and that it
happens once (`AppliedOnce`), so each event is projected here by one atomic step, in any order.
`integration` is the status of the integration. When it is revoked, the projectors' functions raise and the event stays open; the
wrapper refuses a job (`Refuse`), which is retried; a job past that check finds no row (`ReadLead`), because the row policies hide the
lead, and completes; one that has read the lead is refused where it writes (`WriteDenied`), and is retried. `Qualified` is
atomic because its first update locks the lead's row; `ReadStatus` and `WriteReview` are two steps
because the function reads the status without a lock and tests it again in its `UPDATE`.
`AICallBudget`, prompts and schemas decide only whether the provider's answer counts.

### IncidentEscalation

`job[j]` is a job of any kind in pg-boss; its attempts are single steps, since an attempt reads and writes its own
job only and sends at most one other. `incidentJob[<<j, n>>]` is the incident job that the n-th attempt of `j` sent:
the singleton slot lasts a day, so two attempts either share one or send one each (`Send` allows both). `exec[x]` is
an execution of `incidents.open-from-failure`; `incident`, `keys` and `log` are `incidents` and the occurrence keys and
event types of `incident_events`. `Attempt` is what the wrapper is told of the retries:
`Number(job.retrycount ?? 0)`, of a job that was fetched without `includeMetadata` and has no such field, so 0 every time. Only permanent errors are
escalated, then (finding 1).

`LockIncident` is the advisory lock and the search for the occurrence under it; `WriteIncident` the rest of the
transaction, atomic because it locks the incident's row before it reads its status. Between the two, another
execution may record the same occurrence under another fingerprint: the unique index then refuses
the second (`RefuseDuplicate`), whose retry finds the first. `EndsQuietly` gathers the attempts that end without a word:
a failed send, a refusal before the handler, a dead process.

### Membership and Authorization

`member`, `invitation`, `client`, `clientRole` and `assigned` are the tables, `session` the users whose session has the
organization selected. `req[r]` is a request: the actor it has read (user, role, client ids) and how far it is.
`Can` is `can()` over the matrix, and every operation asks it with the actor that was read; `CanManage`,
`CanManageClient` and `ClientVisible` are the policies of the later transaction: they read the membership again, but only whether
it is active, and take the role from the context.

| Action | Code |
| --- | --- |
| `ReadMembership`, `ReadClients`, `Elevate` | `getActorFromRequest`, `loadAccessibleClientIds`, `requestElevation` |
| `CloseRead`, `CloseBegin`, `Deactivate`, `Remove` | `deactivateMember`, `removeMember`: checks and reads, then the statement, whose policy is evaluated in a snapshot before it may wait for the row |
| `InviteRead`, `InviteInsert`, `RevokeInvitation`, `Expire` | `inviteOrganizationMember`, `revokeInvitation`, the seven days of an invitation |
| `AcceptRead`, `AcceptFresh`, `AcceptBegin`, `AcceptInsert`, `AcceptCommit` | `acceptInvitation`: read, second read in the transaction that writes, the policy of the `INSERT` of the membership, its row once nobody else's uncommitted row has the key, `UPDATE` of the invitation |
| `CreateClient`, `UpdateClient`, `GrantRead`, `AddClientMember`, `AssignOperator`, `RemoveClientMember`, `UnassignOperator` | `db/services/clients.ts` |
| `SwitchRead`, `SwitchWrite`, `CreateOrganization` | `switchOrganization`, `createOrganization` |

Four variables record history: `admitted` counts the memberships an invitation brought; `crossed` are the invitations that
were revoked while an acceptance of them inserted its membership; `outrun` those whose member was removed while another acceptance of them,
past its policy, had yet to insert; `overtaken` says that a membership was closed by a request whose own
user had lost the right meanwhile. Removal cascades to access, deactivation does not. An inactive member cannot
accept again. Status `expired` of invitations is declared and never written. The row policy of an invitation's `INSERT`
(0003) asks for a context only. Apart from the list, creation and change of clients these services have no HTTP route yet.

### CallbackUrl and IntegrationSecrets

`secrets` are the rows of `integration_secrets` by version, with the column `revokedAt` and, as history, when the
transaction that wrote it committed (`endedAt`). `holder` is the advisory lock of a rotation. A rotation writes the time of
its transaction's start, which may be earlier than that of the secret it replaces; a revocation does not take that lock.
It is two steps: `RevokeMark` has the integration's row and takes the snapshot of the second `UPDATE`, and `RevokeWrite` ends the secrets of that
snapshot that are live still, which it may have had to wait for, and commits. `overlapped` records the versions of rotations that overlapped with a
revocation: one had read `active` when the revocation committed, or committed between the snapshot and the revocation's commit. `Verify` and
`Receive` are the two transactions of a signed delivery. The URL check (`ResolveCallbackUrl`) knows an address by its kind:
public, private or loopback. Who may send these requests is the matter of `Membership`.

### EmailDelivery

`email[k]` is the row with idempotency key `k`, `call[c]` a call of `createEmailDelivery`, `handler[h]` an execution of
`emails.send`, `mailbox` what the provider has accepted, a key once (its `Idempotency-Key`, external). `CreateLookup` and
`CreateInsert` are the two statements of the creation: when another call has inserted in between, the unique key
makes the second fail, with equal content too. `Reasons` are the answers the Resend client tells apart. The job's timeout and the provider's are both 30 s,
so either may come first: the one is answered as final, the other as retryable. `Mark` raises without an active integration and leaves
the row in `processing`. `Prune` is retention: 90 days later the row and its key are forgotten. `SeenEmail` maps a row, or the lack of
one, to `DeliveryTable`, where creation is `Add` and pruning `Forget`: what is handed over is always the row's content.

### WeeklyReports

`lead[l]` has the lead's `receivedAt`, which is the event's `occurredAt`, chosen by the sender, and `landed`, its commit. `trail` is
`incident_events` of one incident in the order of commits, each with its `createdAt` (the transaction's start) and its commit;
`operator[o]` is a transaction on the incident that has begun. `Poll` is the scheduler with `list_due_weekly_report_clients`, `Compute` and `Store`
the two statements of the job's transaction; the computation sees the rows committed by then. `Dashboard` is the live query
over the same dates, a different one: it counts by status and first occurrence where the report reads events. Of the eight metrics two are kept,
one of each kind: the leads, counted by one timestamp like the others, and whether the incident was open at the end of the week.

### Listings

`rows` are the rows of one list by sort key and id; `cursor` is the reader's `nextCursor`. `PageOf` is the common query: rows below the
cursor, descending, one more than the limit. `ToIsoString` is where microseconds become milliseconds. Rows that change during
the reading are not promised to it (`expected`): `updatedAt` and `lastSeenAt` are sort keys that move.

### pg-boss

pg-boss (`^10.1.5`) is external. Assumed, from how the code uses it: a send with a singleton key stores at most one job per
slot, also when the earlier job has completed; a job that fails or expires is retried until its
retry limit and then stays failed; a completion reaches an active job only; a worker that dies lets its job
expire.

## 3. What TLC checks

Each run ends within about three minutes with two TLC workers.

| Run | Instance | Distinct states | Shows |
| --- | --- | --- | --- |
| `ApprovalRace` | 1 approval, 2 requests, 1 expiry job, an integration that may be revoked, clock 0..2, TTL 1, 1 lost transaction | 159,422 | `SingleOutcome`, `TokenSpentByItsDecision`, `DeadlinesRespected`, `ImplementsOutcome`, `OverdueApprovalCloses`, `TransactionsEnd` |
| `ApprovalDelivery` | 1 row, 3 handlers of which 2 share a worker id, 2 attempts, 2 faults | 143,588 | `AttemptsAccounted`, `DuplicatesExplained`, `ImplementsTable`, `MarksOwnClaim`, `DeliverySettles` |
| `EventRace` | 2 events of one run, 2 messages, 2 executions, 1 retry, 1 fault | 698,879 | `AppliedOnce`, `RunExplained`, `CompletedIsSettled`, `ImplementsJournal` |
| `EventDispatch` | 2 events without projector, 2 dispatchers with one id, 2 days | 31,808 | `EventCarried`, `EventSettles` |
| `LeadRace` | 1 lead, 2 arrivals, 2 verdicts, 2 executions, 2 retries, an integration that may be revoked | 245,261 | `HistoryExplains`, `OpinionShows`, `ImplementsLifecycle`, `LeadIsDecided` |
| `IncidentRace` | 2 jobs (one tried twice), 2 permanent errors with a fingerprint each, 2 executions, 1 retry of incident jobs | 430,975 | `EventsExplain`, `CountedOnce`, `CompletedIsRecorded`, `ImplementsRegister`, `EscalatedIsRecorded` |
| `JobExhausted` | 1 job with 3 attempts, a permanent and a transient error | violated | `ExhaustionEscalates` fails (finding 1) |
| `TeamRace` | 2 users (one a platform administrator), 1 client, 1 invitation, 2 roles on offer, 2 requests | 2,429,349 | `ManagerRemains`, `SpentOnceUnlessOutrun`, `AdmissionExplained`, `AccessNeedsMembership` |
| `SecretRotation` | 3 requests, 3 versions, clock 0..2, grace period 1, 3 offered URLs | 7,957,515 | `OneSecretWhileActive`, `LiveSecretExplained`, `SecretsFade` |
| `EmailSend` | 1 key, 3 calls of which one differs, 2 handlers, 2 attempts, 2 faults | 1,122,063 | `AskedIsSent`, `VerdictExplained`, `EmailsImplementTable`, `EmailSettles` |
| `ListingPages` | 3 approvals, pages of one, 2 ticks to a millisecond | violated | `PagesCoverTheList` fails (finding 2) |
| `WeeklyReports` | 1 lead, 2 transactions on the incident, 1 execution, weeks of one tick, clock 0..2, 1 fault | 1,014,162 | `LeadsReported`, `OpenAtWeekEnd`, `LastWeekReported` |

`TypeOK` of each module is not a run's property: the proofs show it (`TypeCorrect`, `EmailTypeCorrect`). `Listings` has no proofs;
its `TypeOK` holds on the instance of `ListingPages.cfg` when it is named there.

**Bounds.** Rows of different approvals, deliveries, events, leads, e-mails and lists share no state but the dispatcher's batch and a
workflow run (hence two events in `EventRace`); otherwise one row shows every race for it. Two requests and a job are all pairs of
closing transactions, and three of them at once. Two executions are a timed-out handler and its retry; the
shared worker id needs a third, so that one may mark what another has taken over from a third. A clock
with one tick before, at and after the deadline tells `<` from `<=`. `MaxAttempts` and `RetryLimit` of 1 or 2
reach the limits that the tables set at 5 or 10. `MaxFaults` bounds crashes, lost answers and outlived leases
in one run; `MaxQueued` the jobs of one row; `MaxDay` the singleton slots. In `IncidentRace` one job fails for good twice under two
fingerprints, so that its incident jobs meet at the unique index, and a second job aggregates with it or reopens what it opened; transient errors,
which escalate nothing, are in `JobExhausted`. In `TeamRace` two users suffice for each property: the founder
and an invited user, who may be a second owner (two owners who remove each other), an operator (whose access outlives or precedes a membership)
or an elevated administrator; and two requests are every pair that overlaps; one that has finished makes room
for a third, such as a removal between two steps of an acceptance. In `SecretRotation` two rotations overlap with a third
request that revokes or delivers. `EmailSend` has two calls that race for the key with equal content and one that differs. In `WeeklyReports` a
tick is a week, so two weeks end, and two transactions on the incident overlap each other and the end of a week; executions that overlap, and more
than one integration, are left to the proofs of `LeadsReported` and `OpenAtWeekEnd` (`LastWeekReported` also passes for two executions, two
integrations and two faults when `Leads` and `Operators` are empty). `ListingPages` has
three rows, so that one is on the first page, one on the second, and one is skipped. The proofs have none of these bounds: they hold for every value.

**Deadlock** is not checked: the runs say `CHECK_DEADLOCK FALSE`, because their finite work ends (for approvals, when the integration was
revoked before there was one and the clock is at its bound). `TransactionsEnd` and the `*Settles`
properties say that nothing waits for ever.

**Fairness.**
- Approvals: strong fairness of a request's steps, because PostgreSQL queues those who wait for a row and none is
  overtaken for ever. Weak fairness of the expiry job (the scheduler polls) and of the clock. Nobody
  has to create, decide or revoke.
- Delivery and e-mail: weak fairness of scheduler, POST or send (they have timeouts), mark, backoff and abandoned leases; strong
  fairness of taking a job, which other jobs may delay. A POST that never settles is the fault `Lost`. A handler whose
  claim outlasted the job's timeout need not send: `AbortBeforeSend` is a fault.
- Events: as above for dispatchers; strong fairness of starting a job and of the advisory lock, whose queue is served in order.
- Leads: weak fairness of starting the job and of an execution, whose provider is given up after three
  attempts of 30 s. Events need not arrive.
- Incidents: weak fairness of jobs, of starting an incident job and of writing; strong fairness of the advisory lock.
  `EscalatedIsRecorded` allows for an incident job that is exhausted: nobody escalates its failure.
- Weekly reports: weak fairness of polling, of the end of a singleton slot (an hour, far less than a week), of starting a waiting job and
  of the transaction's end. The clock, leads and operators are not fair: `LastWeekReported` lets the next week end first.
- Timeouts, crashes, refusals and revocations are never fair. Members, integrations and lists have safety properties only:
  nobody is obliged to make a request.

## 4. What is proved

Each `*Proofs` module proves an inductive invariant for all values of the constants, from the named assumptions of
its module, and the properties that follow from it. The assumptions only say that `None` is nobody,
that bounds are numbers, that events have kinds and leads, and that invitable roles are offered.

- `ApprovalDecisionProofs`. `SingleOutcome` is not inductive: it must know that a transaction which is about to commit
  holds the lock, and that what it saw under the lock is still so. The invariant adds: whoever is in a locked
  phase holds the lock, an approval under a decider's lock is pending, one under the expiry job's lock is pending and
  overdue, a link in its holder's commit phase is valid for the instant its transaction began. From it:
  `TypeCorrect`, `OutcomeIsSingle`, `TokenSpentOnce`, `DeadlinesAreRespected`, and `OutcomeImplemented`: every step is a step of
  `ApprovalOutcome` or leaves it alone.
- `DeliveryProofs`, about approval results. `AttemptsAccounted` is not inductive: the invariant adds that a pending row has attempts
  left and that an expired lease, until it is reclaimed, pays for the claim that reclaims it. `TableImplemented` needs that a
  handler which will report success has been accepted by the receiver (`Successes`); it holds even when workers share ids, for a mark
  finds the row in `processing` whoever makes it. `OnlyOwnClaimsMarked` says that a handler which marks under an id that no other
  handler has marks its own claim: then a row's `lockedBy` names the handler of its last claim.
  `DuplicatesAreExplained` is a count over handlers: the copies received, and the handlers that may still bring one or were answered
  and have not told the row to try again (`Owing`), are paid for by lost answers, outlived leases, and one ticket, which a row
  has while it waits for its claim. A claim turns the ticket into a handler, a retryable answer gives it back, and a lease that runs out
  is itself paid for; so every step moves the two sides alike (`Owed`), and the handlers concerned are
  finitely many without an assumption on `Handlers`.
- `DeliveryProofs`, about e-mails. It extends `EmailRows`, with the rows and the properties, and instantiates the job as `Email`, because
  the two jobs name their steps alike. The invariant adds that a handler with a claim works on a row that exists, so that its row
  cannot be pruned and created anew under it while it still matters, and knows the answer that it will mark (`Sending`); that the provider
  has nothing but the content of a row that exists (`Carried`); that whoever was told yes asked for that
  content (`Told`); that a key without a row is as new (`Unused`); and that a sent row was accepted. From it: `EmailTypeCorrect`,
  `AskedEmailIsSent`, `EmailVerdictIsExplained`, and `EmailTableImplemented`.
- `EventPipelineProofs`. The invariant adds that a job's message is an event's outbox row, that at most one execution
  is in the locked part of a given event, and that the event it read there is still open: the
  failure transaction, which takes no lock, moves it only between open states. From it: `ProjectedOnce`,
  `RunsAreExplained`, `CompletedJobsSettle`, `NoEventForgotten`, `JournalImplemented`.
- `LeadQualificationProofs`. The invariant adds that jobs and executions belong to leads that exist, and that a lead whose
  status was read as other than `received` never goes back to it. From it: `HistoryIsTrue`,
  `CompletedJobsDecide` (but for a job that a revocation kept from seeing its lead) and `LifecycleImplemented` (the transition table in PL/pgSQL implements the one in TypeScript).
  `OpinionsShow` counts opinions where they are stored, one per step: at the first, the lead is at most `received`, from which every
  decision may move it, so the status follows the decision; every later one meets a lead that is decided and stays so. The verdicts that
  have been heard are finitely many without an assumption on the set of events, for the count grows by one.
- `IncidentEscalationProofs`. The invariant adds that an incident job that was sent, and an execution, have a fingerprint,
  and that an incident has finitely many keys. From it: `EventsAreTrue`, `FailuresCountOnce` (the unique index and the
  lock together), `CompletedJobsRecord`, `RegisterImplemented`.
- `MembershipProofs`. A request that closes a membership aims at another user, so as long as its own user may manage, a manager
  remains. The invariant adds this; that an acceptance which has inserted its membership does so for a user who is no member, and is the only one
  for that user (`Admitting`); and that an acceptance whose policy has passed is the first use of its invitation, or will be refused by its user's
  membership, or was outrun by a removal (`FirstUse`): when another acceptance commits first, the user is a member until removed, and
  the removal marks the invitation. So its commit replaces no membership, and is the first unless outrun. From it: `TypeCorrect`, `ManagersRemain`, `InvitationsSpentOnce`,
  `AdmissionsExplained`, `AccessOfMembersOnly` (the foreign key and the cascade together). The proofs use nothing of the
  authorization matrix: the properties hold whatever it lets pass.
- `WeeklyReportsProofs`. What an execution has computed stays true of the rows while they change, because whatever is committed later
  is stamped with a later commit; so storing it late, or twice, does no harm. For the incident it takes what the trail says of the
  order of its events, and that a report is made only of a week that has ended. From it: `TypeCorrect`,
  `ReportsCountTheirWeek`, `ReportsStateAtWeekEnd`.
- `IntegrationSecretsProofs`. Whatever a rotation finds, it leaves one live secret, the newest; only a revocation undoes that, and the
  invariant adds that a rotation which has read the status of an integration since revoked is marked, while the versions that a revocation
  leaves live are newer than its snapshot. `SecretsFade` is about
  two times, the column's, which is the start of the transaction, and the commit's: the invariant adds that the one is no later than the
  other, so a look-up that the column let pass was made in time for the commit too. From it: `TypeCorrect`, `OneSecret`,
  `LiveSecretsExplained`, `SecretsFadeAway`. The advisory lock is why the last read of a
  rotation and its writes may be one step of the module; beyond that the proofs do not need it.

Only model-checked: the liveness properties (`OverdueApprovalCloses`, `TransactionsEnd`, `DeliverySettles`,
`EventSettles`, `LeadIsDecided`, `EscalatedIsRecorded`, `EmailSettles`, `LastWeekReported`), which need fairness and ENABLED.
Every invariant, action property and refinement of the runs that pass is proved.

## 5. Findings

1. `JobExhausted`. `worker/index.ts:457` takes the attempt from `job.retrycount`. Jobs that `boss.work` hands out without `includeMetadata` (`:448`; pg-boss
   `^10.1.5`, `apps/worker/package.json:21`) have no such field, so the wrapper is told attempt 0 every time, and `escalateIfTerminal`
   (`jobs/wrapper.ts:107-110`) never takes a transient error for the last one. A job that exhausts its retries with `RETRYABLE` or `TIMEOUT` opens
   no incident; `README.md:11` says "Failed jobs become visible incidents with retry and recovery paths.", and
   `docs/runbooks/ai-provider-outage.md:153` "Jobs that exhausted all 10 retries during the outage will have created incidents:".
   `ExhaustionEscalates` already excuses a last attempt that could not speak (refused before its handler, dead, or without pg-boss).
2. `ListingPages`. A page's cursor is the sort key of its last row after `toISOString`, which keeps milliseconds, and the id; the rows are
   stamped in microseconds (`db/services/approvals.ts:448`, and alike `leads.ts:303`, `incidents.ts`, `workflows.ts`, `clients.ts`). The next page
   asks for rows below the cursor, so rows of the same millisecond that are not below it are never read: the approvals that one expiry stamped
   alike, for instance. `approvals.db.test.ts:181` expects two pages to have both rows. With one tick to a millisecond, and for
   reports, whose sort key is a Monday, the same model covers the lists.

Also met, and not promised by a property:
- The architecture document (`docs/architecture/leadops-saas-architecture.md:570`) says that a delivery becomes a dead letter when it exceeds its
  attempts. `claim_approval_delivery_exact` (0010:649) claims a row whose lease ran out without a look at `max_attempts`; only a mark compares. A
  delivery whose handlers die is attempted without bound: `AttemptsAccounted` charges each extra attempt to such a lease.
- `acceptInvitation` repeats its validation "inside the write transaction to stay race-safe" (`members.ts:137-138`). PostgreSQL
  evaluates the policy of its `INSERT` (0001:291-303, 330-333) before the row waits for another uncommitted one with the same key. Of two acceptances of
  one invitation the second passes, waits for the first, and, when the member is removed right after the first commits, inserts the membership
  again; its `UPDATE` (`members.ts:230-233`) finds no pending row, and its count is not looked at. `SpentOnceUnlessOutrun` says that
  this order is the only one (`outrun`).
- An overdue approval of a revoked integration that nobody decides stays `pending` for ever: the scheduler lists active integrations only
  (0010:428-432) and the expiry function refuses a revoked one (0010:536). `OverdueApprovalCloses` excuses it.
- A `leads.qualify` job whose integration is revoked between the wrapper's check and the read finds no row and completes
  (`worker/lead-projectors.ts:212-215`), with retries left and the lead still `received`. `LeadIsDecided` excuses it.
- `upsert_lead_dedupe` (0008:87) calls a converted or archived lead an immutable aggregate, and both writers of a qualification
  (`worker/lead-projectors.ts:151`, `:338`) overwrite its score, decision and summary; `OpinionShows` allows for it.
- `docs/runbooks/ai-provider-outage.md` expects the retries of `leads.qualify` to bridge an outage, while a provider that fails three
  times moves the lead to `needs_review` and completes the job.
- The architecture document calls the approval callback one-time (`:383`), and it is at least once, as `DuplicatesExplained` says.
- Two owners who close each other's membership at once can leave an organization without a manager: `ManagerRemains` names
  this as the only way (`overtaken`), since no text of the repository promises more.
- An invitation that is revoked while it is being accepted stays `revoked` beside the membership it brought (`crossed`).
- A rotation that overlaps with a revocation can leave a live secret on a revoked integration (`overlapped`): one that the revocation overtakes, or
  one that commits while the revocation's second `UPDATE` (`db/services/integrations.ts:174`) waits for the row it replaced. It verifies nothing while the
  integration is revoked, and nothing makes a revoked integration active again.
- A lead whose event occurred in a week that has been reported is in no snapshot; and weeks that end while no worker runs for
  longer than the next week are never reported.

## 6. Not modelled, and why

Left out for good: rendering, logging and metrics, cryptography (whether a signature is genuine is an input), the static n8n
templates, sign-up and log-in (Better Auth's), audit rows, and within the modelled components what changes no state or only
wording: idempotent replays of creations, names and timestamps of workflows, the normalisation of contact
fields, the alert that accompanies an incident, rates and the other counts of a report, and the commands `approve`, `reject` and `convert`,
which no production code issues.

Left out because they add no state to what is there: the worker's start and graceful shutdown (a worker that stops at any point is in every module as a
crash), batch limits of schedulers across clients, and the pruning of rows that nothing reads any more.

What would come next: compositions - approval decisions with delivery, so that the result of a decided approval reaches the requester or a
dead letter says so, and the pipeline with leads in place of the set `open`.

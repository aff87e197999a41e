---------------------------- MODULE WeeklyReports ----------------------------
(***************************************************************************)
(* The weekly report of one client: the scheduler that finds the last      *)
(* complete week without a snapshot, the job that computes the metrics and *)
(* stores them, once per week, and the rows that go on changing meanwhile: *)
(* leads that arrive late, and an incident whose events carry the start of *)
(* their transactions but become visible in the order of their commits.    *)
(*                                                                         *)
(* Time is counted in ticks, WeekLength of them a week; week w is the      *)
(* interval [w * WeekLength, (w + 1) * WeekLength).  Of the metrics two    *)
(* are kept, one of each kind: the leads, counted by one timestamp like    *)
(* approvals, appointments, workflow runs and resolutions, and whether     *)
(* the incident was open at the end.                                       *)
(***************************************************************************)
EXTENDS Naturals, FiniteSets, Sequences

CONSTANTS
  Leads,          \* the leads of the client
  Operators,      \* transactions on its incident that may overlap
  Workers,        \* executions of the report job that may overlap
  Integrations,   \* its integrations, numbered in the order of their ids
  Occurrences,    \* the occurredAt that its lead events may have
  WeekLength,     \* ticks in a week
  MaxTime,        \* bound on the clock
  MaxEvents,      \* bound on the events of the incident
  MaxQueued,      \* bound on the jobs waiting for one week and integration
  MaxFaults,      \* bound on lost and timed-out jobs
  None            \* no lead, no snapshot, nothing going on

ASSUME ClockAssumption ==
  /\ WeekLength \in Nat \ {0}
  /\ MaxTime \in Nat
  /\ Occurrences \subseteq Nat

ASSUME BoundsAssumption ==
  /\ Integrations \subseteq Nat
  /\ MaxEvents \in Nat
  /\ MaxQueued \in Nat
  /\ MaxFaults \in Nat

VARIABLES
  now,           \* the clock of the database
  lead,          \* lead[l]: the row of lead l
  incident,      \* the status of the incident's row
  trail,         \* its events, in the order of their commits
  operator,      \* operator[o]: when the transaction o on it has begun
  integrations,  \* the integrations with status 'active'
  client,        \* the client's status is 'active'
  slot,          \* the week last sent in this singleton slot of pg-boss, if any
  waiting,       \* waiting[w][i]: jobs pg-boss holds
  worker,        \* worker[g]: the report execution g has computed
  snapshot,      \* snapshot[w]: the row of report_snapshots
  faults         \* faults so far

clientVars == <<lead, incident, trail, operator>>
jobVars    == <<slot, waiting, worker, snapshot, faults>>
vars == <<now, clientVars, integrations, client, jobVars>>

Times == 0..MaxTime
Weeks == 0..(MaxTime \div WeekLength)

StartOf(w) == w * WeekLength
EndOf(w)   == (w + 1) * WeekLength
During(w)  == StartOf(w)..(EndOf(w) - 1)

Types   == {"opened", "occurred", "reopened", "acknowledged", "resolved"}
Lead    == [receivedAt : Occurrences, landed : Times]  \* when the row was committed
Event   == [type : Types, at : Times,                \* createdAt
            landed : Times]                          \* when it was committed
Metrics == [leads : SUBSET Leads, open : BOOLEAN,
            at : Times]                              \* generatedAt
Report  == [week : Weeks, integration : Integrations, metrics : Metrics]

TypeOK ==
  /\ now \in Times
  /\ lead \in [Leads -> Lead \cup {None}]
  /\ incident \in {"none", "open", "acknowledged", "resolved"}
  /\ trail \in Seq(Event)
  /\ operator \in [Operators -> Times \cup {None}]
  /\ integrations \subseteq Integrations
  /\ client \in BOOLEAN
  /\ slot \subseteq Weeks
  /\ waiting \in [Weeks -> [Integrations -> 0..MaxQueued]]
  /\ worker \in [Workers -> Report \cup {None}]
  /\ snapshot \in [Weeks -> Metrics \cup {None}]
  /\ faults \in 0..MaxFaults

Init ==
  /\ now = 0
  /\ lead = [l \in Leads |-> None]
  /\ incident = "none"
  /\ trail = <<>>
  /\ operator = [o \in Operators |-> None]
  /\ integrations = Integrations
  /\ client = TRUE
  /\ slot = {}
  /\ waiting = [w \in Weeks |-> [i \in Integrations |-> 0]]
  /\ worker = [g \in Workers |-> None]
  /\ snapshot = [w \in Weeks |-> None]
  /\ faults = 0

-----------------------------------------------------------------------------
(* What the queries count.                                                 *)

\* computeOperationsDashboard, for the dates of week w: what the pages show now.
Dashboard(w) ==
  [leads |-> {l \in Leads : lead[l] # None /\ lead[l].receivedAt \in During(w)},
   open  |-> incident \in {"open", "acknowledged"} /\ trail[1].at < EndOf(w)]

\* Mutant: the end of the week belongs to it too.
Received_Inclusive(w) ==
  {l \in Leads : lead[l] # None /\ lead[l].receivedAt \in StartOf(w)..EndOf(w)}

\* compute_weekly_report_metrics: its own query for the leads.
Received(w) ==
  {l \in Leads : lead[l] # None /\ lead[l].receivedAt \in During(w)}

\* Mutant: the status the incident has now, like the dashboard's.
OpenAtEnd_Now(w) == {incident \in {"open", "acknowledged"}}

\* The last event before the end of the week by its createdAt, and among events of
\* one createdAt any.
OpenAtEnd(w) ==
  LET before == {n \in DOMAIN trail : trail[n].at < EndOf(w)}
      latest == {n \in before : \A m \in before : trail[m].at <= trail[n].at}
  IN IF latest = {} THEN {FALSE} ELSE {trail[n].type # "resolved" : n \in latest}

\* computeClientPeriodMetrics: one statement, one view of the committed rows.
ClientPeriodMetrics(w) ==
  {[leads |-> Received(w), open |-> open, at |-> now] : open \in OpenAtEnd(w)}

-----------------------------------------------------------------------------
(* What happens at the client.                                             *)

\* A lead event is projected.  Its receivedAt is the occurredAt of the event, which
\* the caller chooses; a duplicate leaves it alone.
ProjectLead(l) ==
  /\ lead[l] = None
  /\ \E at \in Occurrences :
       lead' = [lead EXCEPT ![l] = [receivedAt |-> at, landed |-> now]]
  /\ UNCHANGED <<now, incident, trail, operator, integrations, client, jobVars>>

\* A transaction on the incident begins: its now() is fixed.
BeginIncident(o) ==
  /\ operator[o] = None
  /\ Len(trail) + Cardinality({other \in Operators : operator[other] # None}) < MaxEvents
  /\ operator' = [operator EXCEPT ![o] = now]
  /\ UNCHANGED <<now, lead, incident, trail, integrations, client, jobVars>>

\* It has its lock: an occurrence, an acknowledgement or a resolution is written and
\* committed, or the status found raises.
EndIncident(o) ==
  LET Becomes(status, type) ==
        /\ incident' = status
        /\ trail' = Append(trail, [type |-> type, at |-> operator[o], landed |-> now])
  IN
  /\ operator[o] # None
  /\ \/ incident = "none" /\ Becomes("open", "opened")
     \/ incident = "resolved" /\ Becomes("open", "reopened")
     \/ incident \in {"open", "acknowledged"} /\ Becomes(incident, "occurred")
     \/ incident = "open" /\ Becomes("acknowledged", "acknowledged")
     \/ incident \in {"open", "acknowledged"} /\ Becomes("resolved", "resolved")
     \/ incident # "open" /\ UNCHANGED <<incident, trail>>
  /\ operator' = [operator EXCEPT ![o] = None]
  /\ UNCHANGED <<now, lead, integrations, client, jobVars>>

RevokeIntegration(i) ==
  /\ i \in integrations
  /\ integrations' = integrations \ {i}
  /\ UNCHANGED <<now, clientVars, client, jobVars>>

\* updateClient, away from 'active'; that it may come back adds nothing here.
ArchiveClient ==
  /\ client
  /\ client' = FALSE
  /\ UNCHANGED <<now, clientVars, integrations, jobVars>>

-----------------------------------------------------------------------------
(* The scheduler and the job.                                              *)

\* The most recent complete week.
LastWeek == {w \in Weeks : now \in During(w + 1)}

\* Mutant: a client with any snapshot is done.
DueWeeks_Once == IF \A w \in Weeks : snapshot[w] = None THEN LastWeek ELSE {}

\* list_due_weekly_report_clients: of no older week.
DueWeeks == {w \in LastWeek : snapshot[w] = None}

\* createWeeklyReportScheduler: the key of the job names the client and the week,
\* and pg-boss takes it once per slot (singletonSeconds).  Of the active
\* integrations the first one is used.
Poll(w) ==
  /\ client
  /\ w \in DueWeeks
  /\ w \notin slot
  /\ \E i \in integrations :
       /\ \A other \in integrations : i <= other
       /\ waiting[w][i] < MaxQueued
       /\ waiting' = [waiting EXCEPT ![w] = [waiting[w] EXCEPT ![i] = waiting[w][i] + 1]]
  /\ slot' = {w}
  /\ UNCHANGED <<now, clientVars, integrations, client, worker, snapshot, faults>>

SlotEnds ==
  /\ slot # {}
  /\ slot' = {}
  /\ UNCHANGED <<now, clientVars, integrations, client, waiting, worker, snapshot, faults>>

Taken(w, i) ==
  /\ waiting[w][i] > 0
  /\ waiting' = [waiting EXCEPT ![w] = [waiting[w] EXCEPT ![i] = waiting[w][i] - 1]]

\* pg-boss runs a failed job again, until its retry limit.
MayRequeue(w, i) ==
  \/ UNCHANGED waiting
  \/ /\ waiting[w][i] < MaxQueued
     /\ waiting' = [waiting EXCEPT ![w] = [waiting[w] EXCEPT ![i] = waiting[w][i] + 1]]

\* handleReportsGenerateWeekly: its transaction begins and the metrics are computed.
Compute(g, w, i) ==
  /\ worker[g] = None
  /\ Taken(w, i)
  /\ i \in integrations
  /\ \E metrics \in ClientPeriodMetrics(w) :
       worker' = [worker EXCEPT ![g] = [week |-> w, integration |-> i, metrics |-> metrics]]
  /\ UNCHANGED <<now, clientVars, integrations, client, slot, snapshot, faults>>

\* Without an active integration it raises; every retry would, too.
Refuse(w, i) ==
  /\ i \notin integrations
  /\ Taken(w, i)
  /\ UNCHANGED <<now, clientVars, integrations, client, slot, worker, snapshot, faults>>

Generate(w, i) == Refuse(w, i) \/ \E g \in Workers : Compute(g, w, i)

\* ON CONFLICT DO NOTHING.
Stored(w, metrics) ==
  IF snapshot[w] = None THEN [snapshot EXCEPT ![w] = metrics] ELSE snapshot

\* The snapshot is inserted and the transaction commits, or it raises.
Store(g) ==
  LET report == worker[g] IN
  /\ report # None
  /\ IF report.integration \in integrations
     THEN snapshot' = Stored(report.week, report.metrics)
     ELSE UNCHANGED snapshot
  /\ worker' = [worker EXCEPT ![g] = None]
  /\ UNCHANGED <<now, clientVars, integrations, client, slot, waiting, faults>>

Fault == faults < MaxFaults /\ faults' = faults + 1

\* The process dies, and with it the transaction.
Lost(g) ==
  /\ worker[g] # None
  /\ Fault
  /\ worker' = [worker EXCEPT ![g] = None]
  /\ MayRequeue(worker[g].week, worker[g].integration)
  /\ UNCHANGED <<now, clientVars, integrations, client, slot, snapshot>>

\* The job's timeout: pg-boss may start it again while the transaction goes on.
Timeout(g) ==
  /\ worker[g] # None
  /\ Fault
  /\ MayRequeue(worker[g].week, worker[g].integration)
  /\ UNCHANGED <<now, clientVars, integrations, client, slot, worker, snapshot>>

Tick ==
  /\ now < MaxTime
  /\ now' = now + 1
  /\ UNCHANGED <<clientVars, integrations, client, jobVars>>

Next ==
  \/ \E l \in Leads : ProjectLead(l)
  \/ \E o \in Operators : BeginIncident(o) \/ EndIncident(o)
  \/ \E i \in Integrations : RevokeIntegration(i)
  \/ ArchiveClient
  \/ \E w \in Weeks : Poll(w) \/ \E i \in Integrations : Generate(w, i)
  \/ \E g \in Workers : Store(g) \/ Lost(g) \/ Timeout(g)
  \/ SlotEnds
  \/ Tick

\* The scheduler polls, slots of an hour end, pg-boss leaves no execution free while
\* jobs wait, and transactions end.  Nothing else has to happen.
Fairness ==
  /\ WF_vars(SlotEnds)
  /\ WF_vars(\E w \in Weeks : Poll(w))
  /\ WF_vars(\E w \in Weeks, i \in Integrations : Generate(w, i))
  /\ \A g \in Workers : WF_vars(Store(g))

Spec == Init /\ [][Next]_vars /\ Fairness

-----------------------------------------------------------------------------
(* Properties.                                                             *)

\* A snapshot has every lead of its week that was there before it was generated and
\* none of another week: it can differ from the dashboard of that week by late leads
\* only, and no lead is reported in two weeks.
LeadsReported ==
  \A w \in Weeks : snapshot[w] # None =>
    LET seen == Dashboard(w).leads IN
    /\ snapshot[w].leads \subseteq seen
    /\ \A l \in seen : lead[l].landed < snapshot[w].at => l \in snapshot[w].leads

\* Transactions on the incident that were committed in another order than they
\* began in, or across the end of the week.
Crossed(w) ==
  \/ \E m, n \in DOMAIN trail : m < n /\ trail[n].at <= trail[m].at
  \/ \E n \in DOMAIN trail : trail[n].at < EndOf(w) /\ trail[n].landed >= EndOf(w)

\* The incident was open when week w ended.
WasOpen(w) ==
  \E n \in DOMAIN trail :
    /\ trail[n].landed < EndOf(w)
    /\ trail[n].type # "resolved"
    /\ \A m \in DOMAIN trail : m > n => trail[m].landed >= EndOf(w)

\* A snapshot says whether the incident was open when its week ended, however late
\* the report was made, unless transactions crossed; and as long as nothing has
\* happened to the incident since, the dashboard of that week says the same.
OpenAtWeekEnd ==
  \A w \in Weeks : (snapshot[w] # None /\ ~Crossed(w)) =>
    /\ snapshot[w].open = WasOpen(w)
    /\ (\A n \in DOMAIN trail : trail[n].landed < EndOf(w))
         => snapshot[w].open = Dashboard(w).open

\* The last complete week is reported, unless the next one ends first or the client
\* has no active integration, or is not active itself.
LastWeekReported ==
  \A w \in Weeks :
    w \in LastWeek ~> \/ snapshot[w] # None
                      \/ w \notin LastWeek
                      \/ integrations = {}
                      \/ ~client
==============================================================================

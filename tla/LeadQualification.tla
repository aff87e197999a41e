-------------------------- MODULE LeadQualification --------------------------
(***************************************************************************)
(* Leads: the projectors of lead.received and lead.qualified, and the      *)
(* leads.qualify job, which asks an AI provider between two transactions.  *)
(* A workflow in n8n and the provider may qualify the same lead at once.   *)
(*                                                                         *)
(* EventPipeline shows that a projector takes effect once and as a whole:  *)
(* here an event is open until it is projected, and a failed projection    *)
(* changes nothing.  It also carries an outbox row to pg-boss: here the    *)
(* job waits as soon as its row is committed.                              *)
(*                                                                         *)
(* The integration all of this came through may be revoked for good.  The  *)
(* row policies then hide the leads from the worker, and the functions     *)
(* that write raise.                                                       *)
(*                                                                         *)
(* A transaction whose first write locks the lead's row is one step.  The  *)
(* one that applies needs_review reads the status without a lock, so it is *)
(* two.                                                                    *)
(***************************************************************************)
EXTENDS Naturals, Sequences, FiniteSets

CONSTANTS
  Leads,       \* dedupe keys of one client, each from a source and an external id
  Arrivals,    \* lead.received events
  Verdicts,    \* lead.qualified events
  LeadOf,      \* LeadOf[e]: the lead the event e is about
  Contacts,    \* contact names
  NoContact,   \* a name that is absent
  Executions,  \* executions of leads.qualify that may overlap
  RetryLimit,  \* retryLimit of leads.qualify (10 in the registry)
  None         \* no lead

ASSUME EventsAssumption ==
  /\ LeadOf \in [Arrivals \cup Verdicts -> Leads]
  /\ Arrivals \cap Verdicts = {}

ASSUME LimitsAssumption == RetryLimit \in Nat /\ None \notin Leads /\ NoContact \notin Contacts

VARIABLES
  lead,     \* lead[l]: the row of leads
  history,  \* history[l]: the rows of lead_status_history, oldest first
  aiRuns,   \* aiRuns[l]: how many rows of ai_runs
  job,      \* job[l]: the leads.qualify job in pg-boss
  open,     \* events not yet projected
  exec,     \* exec[x]: what execution x is doing
  integration  \* the status of the integration

vars == <<lead, history, aiRuns, job, open, exec, integration>>

Status    == {"received", "qualified", "needs_review", "approved", "rejected",
              "converted", "archived"}
Terminal  == {"converted", "archived"}
Decisions == {"qualified", "needs_review", "disqualified"}
Commands  == {"qualify", "needs_review", "approve", "reject", "convert", "archive"}

Lead == [status : Status \cup {"none"}, decision : Decisions \cup {"none"},
         contact : Contacts \cup {NoContact}]
HistoryRow == [from : Status \cup {"none"}, to : Status, command : Commands \cup {"lead.received"}]
Job == [state : {"none", "waiting", "active", "completed", "exhausted"}, retries : 0..RetryLimit]
Execution == [phase : {"idle", "started", "asking", "decided", "undecided", "reviewing"},
              lead : Leads \cup {None}, decision : Decisions \cup {"none"},
              read : Status \cup {"none"}, timedOut : BOOLEAN]

Idle == [phase |-> "idle", lead |-> None, decision |-> "none", read |-> "none",
         timedOut |-> FALSE]

TypeOK ==
  /\ lead \in [Leads -> Lead]
  /\ history \in [Leads -> Seq(HistoryRow)]
  /\ aiRuns \in [Leads -> Nat]
  /\ job \in [Leads -> Job]
  /\ open \subseteq Arrivals \cup Verdicts
  /\ exec \in [Executions -> Execution]
  /\ integration \in {"active", "revoked"}

Init ==
  /\ lead = [l \in Leads |-> [status |-> "none", decision |-> "none", contact |-> NoContact]]
  /\ history = [l \in Leads |-> << >>]
  /\ aiRuns = [l \in Leads |-> 0]
  /\ job = [l \in Leads |-> [state |-> "none", retries |-> 0]]
  /\ open = Arrivals \cup Verdicts
  /\ exec = [x \in Executions |-> Idle]
  /\ integration = "active"

-----------------------------------------------------------------------------
(* apply_lead_status_atomic.                                               *)

\* The transitions the function spells out.
Allowed(from, command, to) ==
  \/ from = "received" /\ command = "qualify" /\ to = "qualified"
  \/ from = "received" /\ command = "needs_review" /\ to = "needs_review"
  \/ from \in {"qualified", "needs_review"} /\ command = "approve" /\ to = "approved"
  \/ from \in {"qualified", "needs_review"} /\ command = "reject" /\ to = "rejected"
  \/ from = "approved" /\ command = "convert" /\ to = "converted"
  \/ /\ from \in {"received", "qualified", "needs_review", "approved", "rejected"}
     /\ command = "archive" /\ to = "archived"

\* qualificationDecisionToStatus.
StatusOf(d) == IF d = "disqualified" THEN "archived" ELSE d

\* canApplyQualificationDecision.
CommandOf(d) ==
  CASE d = "qualified"    -> "qualify"
    [] d = "needs_review" -> "needs_review"
    [] d = "disqualified" -> "archive"

\* Both callers pass 'received' as the previous status.
Recorded(l, to, command) ==
  [history EXCEPT ![l] = Append(@, [from |-> "received", to |-> to, command |-> command])]

\* The update of the qualification, which looks at no status, locks the row: the
\* status that apply_lead_status_atomic reads after it is the one it updates.  Its
\* result is ignored.
Qualified(l, d) ==
  IF Allowed(lead[l].status, CommandOf(d), StatusOf(d))
  THEN /\ lead' = [lead EXCEPT ![l].decision = d, ![l].status = StatusOf(d)]
       /\ history' = Recorded(l, StatusOf(d), CommandOf(d))
  ELSE /\ lead' = [lead EXCEPT ![l].decision = d]
       /\ UNCHANGED history

-----------------------------------------------------------------------------
(* The projectors.  Under a revoked integration their functions raise, the *)
(* projection fails and the event stays open.                              *)

\* Mutant: the row is inserted and its job is not.
ReceiveNew_NoJob(e) ==
  LET l == LeadOf[e] IN
  /\ e \in open
  /\ integration = "active"
  /\ lead[l].status = "none"
  /\ \E c \in Contacts \cup {NoContact} :
       lead' = [lead EXCEPT ![l] = [status |-> "received", decision |-> "none", contact |-> c]]
  /\ history' = [history EXCEPT ![l] =
                   <<[from |-> "none", to |-> "received", command |-> "lead.received"]>>]
  /\ open' = open \ {e}
  /\ UNCHANGED <<aiRuns, job, exec, integration>>

\* upsert_lead_dedupe inserts: the row, its first history row and the outbox row of
\* its job are committed with the event.
ReceiveNew(e) ==
  LET l == LeadOf[e] IN
  /\ e \in open
  /\ integration = "active"
  /\ lead[l].status = "none"
  /\ \E c \in Contacts \cup {NoContact} :
       lead' = [lead EXCEPT ![l] = [status |-> "received", decision |-> "none", contact |-> c]]
  /\ history' = [history EXCEPT ![l] =
                   <<[from |-> "none", to |-> "received", command |-> "lead.received"]>>]
  /\ job' = [job EXCEPT ![l] = [state |-> "waiting", retries |-> 0]]
  /\ open' = open \ {e}
  /\ UNCHANGED <<aiRuns, exec, integration>>

\* Mutant: inew is true for a known lead.
ReceiveAgain_New(e) ==
  LET l == LeadOf[e] IN
  /\ e \in open
  /\ integration = "active"
  /\ lead[l].status # "none"
  /\ history' = [history EXCEPT ![l] =
                   Append(@, [from |-> "none", to |-> "received", command |-> "lead.received"])]
  /\ job' = [job EXCEPT ![l] = [state |-> "waiting", retries |-> 0]]
  /\ open' = open \ {e}
  /\ UNCHANGED <<lead, aiRuns, exec, integration>>

\* upsert_lead_dedupe meets a lead it knows: it fills in what is missing, unless the
\* lead is terminal.
ReceiveAgain(e) ==
  LET l == LeadOf[e] IN
  /\ e \in open
  /\ integration = "active"
  /\ lead[l].status # "none"
  /\ \E c \in Contacts \cup {NoContact} :
       lead' = IF lead[l].status \in Terminal \/ lead[l].contact # NoContact THEN lead
               ELSE [lead EXCEPT ![l].contact = c]
  /\ open' = open \ {e}
  /\ UNCHANGED <<history, aiRuns, job, exec, integration>>

\* lead.qualified.  For a lead that is not there yet the projection fails, and the
\* event stays open.
ProjectQualified(e) ==
  LET l == LeadOf[e] IN
  /\ e \in open
  /\ integration = "active"
  /\ lead[l].status # "none"
  /\ \E d \in Decisions : Qualified(l, d)
  /\ open' = open \ {e}
  /\ UNCHANGED <<aiRuns, job, exec, integration>>

-----------------------------------------------------------------------------
(* The leads.qualify job.                                                  *)

\* pg-boss runs a job that failed again, until its retry limit.
Retried(l) ==
  job' = [job EXCEPT ![l] = IF @.retries < RetryLimit
                            THEN [state |-> "waiting", retries |-> @.retries + 1]
                            ELSE [@ EXCEPT !.state = "exhausted"]]

\* An execution that has timed out no longer reports to pg-boss.
Reports(x, report) == IF exec[x].timedOut THEN UNCHANGED job ELSE report

Completed(x) ==
  /\ exec' = [exec EXCEPT ![x] = Idle]
  /\ Reports(x, job' = [job EXCEPT ![exec[x].lead].state = "completed"])

\* The wrapper has found the integration active, in a transaction of its own.
Start(x, l) ==
  /\ exec[x].phase = "idle"
  /\ integration = "active"
  /\ job[l].state = "waiting"
  /\ job' = [job EXCEPT ![l].state = "active"]
  /\ exec' = [exec EXCEPT ![x] = [Idle EXCEPT !.phase = "started", !.lead = l]]
  /\ UNCHANGED <<lead, history, aiRuns, open, integration>>

\* The wrapper finds it revoked: the job fails before its handler runs.
Refuse(l) ==
  /\ job[l].state = "waiting"
  /\ integration = "revoked"
  /\ Retried(l)
  /\ UNCHANGED <<lead, history, aiRuns, open, exec, integration>>

\* The first transaction reads the lead.  One that is not 'received' is left alone,
\* and so is one that is not found, because the integration has been revoked since
\* the wrapper's check: in both cases the job completes.
ReadLead(x) ==
  /\ exec[x].phase = "started"
  /\ IF integration = "active" /\ lead[exec[x].lead].status = "received"
     THEN exec' = [exec EXCEPT ![x].phase = "asking"] /\ UNCHANGED job
     ELSE Completed(x)
  /\ UNCHANGED <<lead, history, aiRuns, open, integration>>

\* runQualificationOrNeedsReview: a decision that passes the schema and the budget.
ProviderAnswers(x) ==
  /\ exec[x].phase = "asking"
  /\ \E d \in Decisions :
       exec' = [exec EXCEPT ![x].phase = "decided", ![x].decision = d]
  /\ UNCHANGED <<lead, history, aiRuns, job, open, integration>>

\* The provider timed out or failed on every attempt, its output is not valid or it
\* cost too much: this is no error of the job.
ProviderFails(x) ==
  /\ exec[x].phase = "asking"
  /\ exec' = [exec EXCEPT ![x].phase = "undecided"]
  /\ UNCHANGED <<lead, history, aiRuns, job, open, integration>>

\* Mutant: the status moves and the decision is not stored with it.
WriteDecision_NotStored(x) ==
  LET l == exec[x].lead
      d == exec[x].decision IN
  /\ exec[x].phase = "decided"
  /\ integration = "active"
  /\ aiRuns' = [aiRuns EXCEPT ![l] = @ + 1]
  /\ IF Allowed(lead[l].status, CommandOf(d), StatusOf(d))
     THEN /\ lead' = [lead EXCEPT ![l].status = StatusOf(d)]
          /\ history' = Recorded(l, StatusOf(d), CommandOf(d))
     ELSE UNCHANGED <<lead, history>>
  /\ Completed(x)
  /\ UNCHANGED <<open, integration>>

\* The second transaction, with a decision.  It does not look at the status again.
WriteDecision(x) ==
  LET l == exec[x].lead IN
  /\ exec[x].phase = "decided"
  /\ integration = "active"
  /\ aiRuns' = [aiRuns EXCEPT ![l] = @ + 1]
  /\ Qualified(l, exec[x].decision)
  /\ Completed(x)
  /\ UNCHANGED <<open, integration>>

\* The second transaction, without one: the function checks the access and reads the
\* status ...
ReadStatus(x) ==
  /\ exec[x].phase = "undecided"
  /\ integration = "active"
  /\ exec' = [exec EXCEPT ![x].phase = "reviewing", ![x].read = lead[exec[x].lead].status]
  /\ UNCHANGED <<lead, history, aiRuns, job, open, integration>>

\* Mutant: the update does not look at the status again.
WriteReview_Unfenced(x) ==
  LET l == exec[x].lead IN
  /\ exec[x].phase = "reviewing"
  /\ aiRuns' = [aiRuns EXCEPT ![l] = @ + 1]
  /\ IF Allowed(exec[x].read, "needs_review", "needs_review")
     THEN /\ lead' = [lead EXCEPT ![l].status = "needs_review"]
          /\ history' = Recorded(l, "needs_review", "needs_review")
     ELSE UNCHANGED <<lead, history>>
  /\ Completed(x)
  /\ UNCHANGED <<open, integration>>

\* ... and updates the row only if it still has that status.
WriteReview(x) ==
  LET l == exec[x].lead IN
  /\ exec[x].phase = "reviewing"
  /\ aiRuns' = [aiRuns EXCEPT ![l] = @ + 1]
  /\ IF /\ Allowed(exec[x].read, "needs_review", "needs_review")
        /\ lead[l].status = exec[x].read
     THEN /\ lead' = [lead EXCEPT ![l].status = "needs_review"]
          /\ history' = Recorded(l, "needs_review", "needs_review")
     ELSE UNCHANGED <<lead, history>>
  /\ Completed(x)
  /\ UNCHANGED <<open, integration>>

\* The second transaction finds the integration revoked: the policy of ai_runs or the
\* function raises, and everything is rolled back.
WriteDenied(x) ==
  /\ exec[x].phase \in {"decided", "undecided"}
  /\ integration = "revoked"
  /\ exec' = [exec EXCEPT ![x] = Idle]
  /\ Reports(x, Retried(exec[x].lead))
  /\ UNCHANGED <<lead, history, aiRuns, open, integration>>

\* The wrapper rejects the job after 120 s, and the execution runs on.
Timeout(x) ==
  /\ exec[x].phase # "idle"
  /\ ~exec[x].timedOut
  /\ exec' = [exec EXCEPT ![x].timedOut = TRUE]
  /\ Retried(exec[x].lead)
  /\ UNCHANGED <<lead, history, aiRuns, open, integration>>

\* The process dies, or a transaction fails and is rolled back.
ExecutionFails(x) ==
  /\ exec[x].phase # "idle"
  /\ exec' = [exec EXCEPT ![x] = Idle]
  /\ Reports(x, Retried(exec[x].lead))
  /\ UNCHANGED <<lead, history, aiRuns, open, integration>>

\* A user revokes the integration (IntegrationSecrets has the transaction).
RevokeIntegration ==
  /\ integration = "active"
  /\ integration' = "revoked"
  /\ UNCHANGED <<lead, history, aiRuns, job, open, exec>>

Qualify(x) == \/ ReadLead(x) \/ ProviderAnswers(x) \/ ProviderFails(x)
              \/ WriteDecision(x) \/ ReadStatus(x) \/ WriteReview(x) \/ WriteDenied(x)

Next ==
  \/ \E e \in Arrivals : ReceiveNew(e) \/ ReceiveAgain(e)
  \/ \E e \in Verdicts : ProjectQualified(e)
  \/ \E l \in Leads, x \in Executions : Start(x, l)
  \/ \E l \in Leads : Refuse(l)
  \/ RevokeIntegration
  \/ \E x \in Executions : Qualify(x) \/ Timeout(x) \/ ExecutionFails(x)

\* pg-boss hands out waiting jobs, and an execution runs on: the provider is given up
\* after three attempts of 30 s.  Timeouts and failures may never come.
Fairness ==
  /\ \A l \in Leads : WF_vars(\E x \in Executions : Start(x, l)) /\ WF_vars(Refuse(l))
  /\ \A x \in Executions : WF_vars(Qualify(x))

Spec == Init /\ [][Next]_vars /\ Fairness

-----------------------------------------------------------------------------
(* Properties.                                                             *)

\* The history explains the lead: it starts with the arrival, each row is an allowed
\* transition from where the row before it led, and the last one led to the status the
\* lead has.  The previous status a row records is the true one, except that an
\* archival after the lead was settled still says 'received'.
HistoryExplains ==
  \A l \in Leads :
    /\ lead[l].status = "none" <=> history[l] = << >>
    /\ history[l] # << >> =>
         /\ history[l][1] = [from |-> "none", to |-> "received", command |-> "lead.received"]
         /\ history[l][Len(history[l])].to = lead[l].status
    /\ \A i \in 2..Len(history[l]) :
         /\ Allowed(history[l][i - 1].to, history[l][i].command, history[l][i].to)
         /\ history[l][i].from # history[l][i - 1].to =>
              history[l][i].command = "archive" /\ history[l][i].from = "received"

\* A job completes only when its lead is qualified, in review or archived, although
\* nobody looks at the result of apply_lead_status_atomic.  The exception is a job
\* that could no longer see its lead, because the integration was revoked.
CompletedIsDecided ==
  \A l \in Leads :
    job[l].state = "completed" =>
      lead[l].status \notin {"none", "received"} \/ integration = "revoked"

Opinions(l) == aiRuns[l] + Cardinality({e \in Verdicts \ open : LeadOf[e] = l})

\* As long as one opinion has been heard about a lead, from the provider or from a
\* workflow, the status says what the recorded decision says.  Only a second opinion
\* can make them disagree.
OpinionShows ==
  \A l \in Leads :
    /\ Opinions(l) = 0 => lead[l].status \in {"none", "received"} /\ lead[l].decision = "none"
    /\ Opinions(l) = 1 => lead[l].status = IF lead[l].decision = "none" THEN "needs_review"
                                           ELSE StatusOf(lead[l].decision)
    /\ Opinions(l) > 1 => lead[l].status \notin {"none", "received"}

Lifecycle == INSTANCE LeadLifecycle WITH status <- [l \in Leads |-> lead[l].status]

\* The database moves a lead as the state machine of packages/core allows, whichever of
\* its writers come late: a terminal lead stays terminal, and no transition is lost.
ImplementsLifecycle == Lifecycle!Spec

\* A lead does not stay 'received', unless the retries of its job are used up or a
\* revocation of the integration, between the wrapper's check and the read, hid the
\* lead from a job that then completed.
LeadIsDecided ==
  \A l \in Leads :
    lead[l].status = "received" ~>
      \/ lead[l].status # "received"
      \/ job[l].state = "exhausted"
      \/ job[l].state = "completed" /\ integration = "revoked"

=============================================================================

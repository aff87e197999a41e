----------------------- MODULE LeadQualificationProofs -----------------------
(***************************************************************************)
(* Theorems about LeadQualification, for any sets of leads, events and     *)
(* executions and any retry limit.                                         *)
(*                                                                         *)
(* The argument: executions and jobs belong to leads that exist (Known,    *)
(* JobHasLead), and no step takes a lead back to 'received' (Forward), so  *)
(* an execution that read another status than 'received' need not look     *)
(* again (ReadHolds).  Every write of the status is an allowed transition  *)
(* that appends its own row to the history.                                *)
(*                                                                         *)
(* Opinions are counted where they are stored (HeardFinite): before the    *)
(* first, the lead is at most received, so the first one is allowed to     *)
(* move it, and any later one meets a lead that is decided.                *)
(***************************************************************************)
EXTENDS LeadQualification, FiniteSetTheorems, SequenceTheorems, TLAPS

USE EventsAssumption, LimitsAssumption

Undecided == {"none", "received"}

\* An execution works on a lead that exists.
Known ==
  \A x \in Executions :
    exec[x].phase # "idle" =>
      exec[x].lead \in Leads /\ lead[exec[x].lead].status # "none"

\* What the provider answered is a decision.
Chosen == \A x \in Executions : exec[x].phase = "decided" => exec[x].decision \in Decisions

\* What the review read was the status of a lead, and if that was not 'received', the
\* lead is decided.
ReadHolds ==
  \A x \in Executions :
    exec[x].phase = "reviewing" =>
      exec[x].read = "received" \/ lead[exec[x].lead].status \notin Undecided

JobHasLead == \A l \in Leads : job[l].state # "none" => lead[l].status # "none"

IInv == /\ TypeOK /\ Known /\ Chosen /\ ReadHolds /\ JobHasLead
        /\ HistoryExplains /\ CompletedIsDecided

\* No step removes a lead or takes it back to 'received'.
Forward ==
  \A l \in Leads :
    /\ lead[l].status # "none" => lead'[l].status # "none"
    /\ lead[l].status \notin Undecided => lead'[l].status \notin Undecided

\* A revocation is for good.
Lasting ==
  /\ integration' \in {"active", "revoked"}
  /\ integration = "revoked" => integration' = "revoked"

LEMMA StepLasts == TypeOK /\ [Next]_vars => Lasting
BY DEF TypeOK, Lasting, Next, vars, ReceiveNew, ReceiveAgain, ProjectQualified, Start, Refuse,
   RevokeIntegration, Qualify, ReadLead, ProviderAnswers, ProviderFails, WriteDecision,
   ReadStatus, WriteReview, WriteDenied, Timeout, ExecutionFails

StatusMap == [l \in Leads |-> lead[l].status]

-----------------------------------------------------------------------------
(* The two ways a status is written, and the many ways it is not.          *)

\* A step that leaves every status and the history alone.
LEMMA StatusStays ==
  ASSUME \A l \in Leads : lead'[l].status = lead[l].status
  PROVE  /\ Forward
         /\ StatusMap' = StatusMap
         /\ UNCHANGED history /\ HistoryExplains => HistoryExplains'
<1>1. Forward /\ StatusMap' = StatusMap
  BY DEF Forward, StatusMap
<1>2. ASSUME UNCHANGED history, HistoryExplains PROVE HistoryExplains'
  BY <1>2 DEF HistoryExplains
<1> QED
  BY <1>1, <1>2

\* A transition that is allowed, and its row, keep the history right.
LEMMA HistoryGrows ==
  ASSUME TypeOK, HistoryExplains,
         NEW l \in Leads, NEW to \in Status, NEW command \in Commands,
         lead[l].status # "none",
         Allowed(lead[l].status, command, to),
         lead[l].status # "received" => command = "archive",
         \A k \in Leads : lead'[k].status = IF k = l THEN to ELSE lead[k].status,
         history' = Recorded(l, to, command)
  PROVE  HistoryExplains' /\ history' \in [Leads -> Seq(HistoryRow)]
<1> DEFINE row == [from |-> "received", to |-> to, command |-> command]
           h   == history[l]
<1>1. row \in HistoryRow /\ h \in Seq(HistoryRow) /\ to # "none"
  BY DEF HistoryRow, TypeOK, Status
<1>2. /\ history' = [history EXCEPT ![l] = Append(h, row)]
      /\ history \in [Leads -> Seq(HistoryRow)]
  BY DEF Recorded, TypeOK
<1>3. history'[l] = Append(h, row) /\ \A k \in Leads : k # l => history'[k] = history[k]
  BY <1>2
<1>4. Append(h, row) \in Seq(HistoryRow)
  BY <1>1
<1>5. history' \in [Leads -> Seq(HistoryRow)]
  BY <1>2, <1>4
<1>6. /\ Len(h) \in Nat /\ h # << >> /\ Len(h) > 0
      /\ Len(Append(h, row)) = Len(h) + 1
      /\ \A i \in 1..Len(h) : Append(h, row)[i] = h[i]
      /\ Append(h, row)[Len(h) + 1] = row
  <2>1. h # << >>
    BY DEF HistoryExplains
  <2> QED
    BY <1>1, <2>1
<1>7. ASSUME NEW k \in Leads
      PROVE  /\ lead'[k].status = "none" <=> history'[k] = << >>
             /\ history'[k] # << >> =>
                  /\ history'[k][1] = [from |-> "none", to |-> "received",
                                       command |-> "lead.received"]
                  /\ history'[k][Len(history'[k])].to = lead'[k].status
             /\ \A i \in 2..Len(history'[k]) :
                  /\ Allowed(history'[k][i - 1].to, history'[k][i].command, history'[k][i].to)
                  /\ history'[k][i].from # history'[k][i - 1].to =>
                       history'[k][i].command = "archive" /\ history'[k][i].from = "received"
  <2>1. CASE k # l
    BY <2>1, <1>3 DEF HistoryExplains
  <2>2. CASE k = l
    <3>1. /\ h[1] = [from |-> "none", to |-> "received", command |-> "lead.received"]
          /\ h[Len(h)].to = lead[l].status
      BY <1>6 DEF HistoryExplains
    <3>2. /\ lead'[l].status = to
          /\ Append(h, row) # << >>
          /\ Append(h, row)[1] = h[1]
          /\ Append(h, row)[Len(Append(h, row))].to = to
      BY <1>1, <1>6
    <3>3. ASSUME NEW i \in 2..Len(Append(h, row))
          PROVE  /\ Allowed(Append(h, row)[i - 1].to, Append(h, row)[i].command,
                            Append(h, row)[i].to)
                 /\ Append(h, row)[i].from # Append(h, row)[i - 1].to =>
                      /\ Append(h, row)[i].command = "archive"
                      /\ Append(h, row)[i].from = "received"
      <4>1. CASE i = Len(h) + 1
        <5>1. Append(h, row)[i] = row /\ Append(h, row)[i - 1] = h[Len(h)]
          BY <4>1, <1>6
        <5> QED
          BY <5>1, <3>1
      <4>2. CASE i # Len(h) + 1
        <5>1. i \in 2..Len(h) /\ i - 1 \in 1..Len(h) /\ i \in 1..Len(h)
          BY <4>2, <1>6
        <5>2. Append(h, row)[i] = h[i] /\ Append(h, row)[i - 1] = h[i - 1]
          BY <5>1, <1>6
        <5> QED
          BY <5>1, <5>2 DEF HistoryExplains
      <4> QED
        BY <4>1, <4>2
    <3> QED
      BY <2>2, <1>1, <1>3, <3>1, <3>2, <3>3
  <2> QED
    BY <2>1, <2>2
<1> QED
  BY <1>5, <1>7 DEF HistoryExplains

\* The abstract state machine makes the same move.
LEMMA LifecycleMoves ==
  ASSUME NEW l \in Leads, NEW to, NEW command \in Commands,
         Allowed(lead[l].status, command, to),
         \A k \in Leads : lead'[k].status = IF k = l THEN to ELSE lead[k].status
  PROVE  Lifecycle!Next
<1>1. lead[l].status \in Lifecycle!From[command] /\ to = Lifecycle!To[command]
  BY DEF Allowed, Commands, Lifecycle!From, Lifecycle!To
<1>2. StatusMap' = [StatusMap EXCEPT ![l] = to]
  BY DEF StatusMap
<1>3. Lifecycle!Apply(l, command)
  BY <1>1, <1>2 DEF Lifecycle!Apply, StatusMap
<1> QED
  BY <1>3 DEF Lifecycle!Next, Lifecycle!Commands, Commands

Decisive == Lifecycle!Next \/ StatusMap' = StatusMap

\* Storing a decision, allowed or not, leaves the lead decided.
LEMMA QualifiedStep ==
  ASSUME TypeOK, HistoryExplains, NEW l \in Leads, NEW d \in Decisions,
         lead[l].status # "none", Qualified(l, d)
  PROVE  /\ lead' \in [Leads -> Lead] /\ history' \in [Leads -> Seq(HistoryRow)]
         /\ Forward /\ HistoryExplains' /\ Decisive
         /\ lead'[l].status \notin Undecided
<1> DEFINE to == StatusOf(d)
           command == CommandOf(d)
<1>1. to \in Status /\ command \in Commands /\ to \notin Undecided
  BY DEF Decisions, StatusOf, CommandOf, Status, Commands, Undecided
<1>2. lead[l] \in Lead /\ lead \in [Leads -> Lead] /\ history \in [Leads -> Seq(HistoryRow)]
  BY DEF TypeOK
<1>3. CASE Allowed(lead[l].status, command, to)
  <2>1. /\ lead' = [lead EXCEPT ![l].decision = d, ![l].status = to]
        /\ history' = Recorded(l, to, command)
    BY <1>3 DEF Qualified
  <2>2. lead' \in [Leads -> Lead]
    BY <1>1, <1>2, <2>1 DEF Lead
  <2>3. \A k \in Leads : lead'[k].status = IF k = l THEN to ELSE lead[k].status
    BY <1>2, <2>1 DEF Lead
  <2>4. lead[l].status # "received" => command = "archive"
    BY <1>3 DEF Allowed, CommandOf, Decisions
  <2>5. HistoryExplains' /\ history' \in [Leads -> Seq(HistoryRow)]
    BY <1>1, <1>3, <2>1, <2>3, <2>4, HistoryGrows
  <2>6. Forward
    BY <1>1, <2>3 DEF Forward, Undecided
  <2>7. Lifecycle!Next
    BY <1>1, <1>3, <2>3, LifecycleMoves
  <2> QED
    BY <1>1, <2>2, <2>3, <2>5, <2>6, <2>7 DEF Decisive
<1>4. CASE ~Allowed(lead[l].status, command, to)
  <2>1. lead' = [lead EXCEPT ![l].decision = d] /\ UNCHANGED history
    BY <1>4 DEF Qualified
  <2>2. lead' \in [Leads -> Lead] /\ \A k \in Leads : lead'[k].status = lead[k].status
    BY <1>2, <2>1 DEF Lead
  <2>3. lead[l].status # "received"
    BY <1>4 DEF Allowed, CommandOf, StatusOf, Decisions
  <2> QED
    BY <1>2, <2>1, <2>2, <2>3, StatusStays DEF Decisive, Undecided
<1> QED
  BY <1>3, <1>4

\* The review, when the status it read still stands.
LEMMA ReviewStep ==
  ASSUME TypeOK, HistoryExplains, NEW l \in Leads, lead[l].status = "received",
         lead' = [lead EXCEPT ![l].status = "needs_review"],
         history' = Recorded(l, "needs_review", "needs_review")
  PROVE  /\ lead' \in [Leads -> Lead] /\ history' \in [Leads -> Seq(HistoryRow)]
         /\ Forward /\ HistoryExplains' /\ Decisive
         /\ lead'[l].status \notin Undecided
<1>1. lead[l] \in Lead /\ lead \in [Leads -> Lead]
  BY DEF TypeOK
<1>2. lead' \in [Leads -> Lead]
  BY <1>1 DEF Lead, Status
<1>3. \A k \in Leads : lead'[k].status = IF k = l THEN "needs_review" ELSE lead[k].status
  BY <1>1 DEF Lead
<1>4. /\ Allowed(lead[l].status, "needs_review", "needs_review")
      /\ "needs_review" \in Status /\ "needs_review" \in Commands
  BY DEF Allowed, Status, Commands
<1>5. HistoryExplains' /\ history' \in [Leads -> Seq(HistoryRow)]
  BY <1>3, <1>4, HistoryGrows
<1>6. Lifecycle!Next
  BY <1>3, <1>4, LifecycleMoves
<1> QED
  BY <1>2, <1>3, <1>5, <1>6 DEF Forward, Undecided, Decisive

-----------------------------------------------------------------------------
(* What a step does to the job and to the executions.                      *)

\* Parts of the invariant that only Forward and the job decide.
JobPart == job \in [Leads -> Job] /\ JobHasLead /\ CompletedIsDecided

\* Parts of the invariant that only Forward and the executions decide.
ExecPart == exec \in [Executions -> Execution] /\ Known /\ Chosen /\ ReadHolds

LEMMA JobStays ==
  ASSUME IInv, Lasting, Forward, UNCHANGED job
  PROVE  JobPart'
BY DEF IInv, Lasting, Forward, JobPart, TypeOK, JobHasLead, CompletedIsDecided, Undecided

LEMMA JobRetried ==
  ASSUME IInv, Lasting, Forward, NEW l \in Leads, lead[l].status # "none", Retried(l)
  PROVE  JobPart'
<1> DEFINE j == IF job[l].retries < RetryLimit
                THEN [state |-> "waiting", retries |-> job[l].retries + 1]
                ELSE [job[l] EXCEPT !.state = "exhausted"]
<1>1. job \in [Leads -> Job] /\ job[l] \in Job /\ RetryLimit \in Nat
  BY DEF IInv, TypeOK
<1>2. j \in Job /\ j.state \in {"waiting", "exhausted"}
  BY <1>1 DEF Job
<1>3. job' = [job EXCEPT ![l] = j]
  BY DEF Retried
<1>4. job' \in [Leads -> Job]
  BY <1>1, <1>2, <1>3
<1>5. job'[l].state \in {"waiting", "exhausted"} /\ \A k \in Leads : k # l => job'[k] = job[k]
  BY <1>1, <1>2, <1>3
<1>6. JobHasLead'
  BY <1>5 DEF IInv, JobHasLead, Forward
<1>7. CompletedIsDecided'
  BY <1>5 DEF IInv, Lasting, CompletedIsDecided, Forward, Undecided
<1> QED
  BY <1>4, <1>6, <1>7 DEF JobPart

LEMMA ExecStays ==
  ASSUME IInv, Forward, UNCHANGED exec
  PROVE  ExecPart'
BY DEF IInv, Forward, ExecPart, TypeOK, Known, Chosen, ReadHolds

LEMMA ExecIdle ==
  ASSUME IInv, Forward, NEW x \in Executions, exec' = [exec EXCEPT ![x] = Idle]
  PROVE  ExecPart'
<1>1. Idle \in Execution /\ Idle.phase = "idle"
  BY DEF Idle, Execution
<1>2. exec \in [Executions -> Execution]
  BY DEF IInv, TypeOK
<1>3. exec' \in [Executions -> Execution]
  BY <1>1, <1>2
<1>4. exec'[x].phase = "idle" /\ \A y \in Executions : y # x => exec'[y] = exec[y]
  BY <1>1, <1>2
<1>5. Known' /\ Chosen' /\ ReadHolds'
  BY <1>4 DEF IInv, Known, Chosen, ReadHolds, Forward
<1> QED
  BY <1>3, <1>5 DEF ExecPart

\* A job completes with a lead that is decided, or hidden for good.
LEMMA CompletedKeeps ==
  ASSUME IInv, Lasting, Forward, NEW x \in Executions, exec[x].phase # "idle",
         lead'[exec[x].lead].status \notin Undecided \/ integration' = "revoked",
         Completed(x)
  PROVE  JobPart' /\ ExecPart'
<1> DEFINE l == exec[x].lead
<1>1. l \in Leads
  BY DEF IInv, Known
<1>2. ExecPart'
  BY ExecIdle DEF Completed
<1>3. CASE exec[x].timedOut
  BY <1>2, <1>3, JobStays DEF Completed, Reports
<1>4. CASE ~exec[x].timedOut
  <2>1. job' = [job EXCEPT ![l].state = "completed"]
    BY <1>4 DEF Completed, Reports
  <2>2. job \in [Leads -> Job] /\ job[l] \in Job
    BY <1>1 DEF IInv, TypeOK
  <2>3. job' \in [Leads -> Job]
    BY <1>1, <2>1, <2>2 DEF Job
  <2>4. \A k \in Leads : k # l => job'[k] = job[k]
    BY <2>1, <2>2
  <2>5. JobHasLead'
    BY <1>1, <2>4 DEF IInv, Known, JobHasLead, Forward
  <2>6. CompletedIsDecided'
    BY <1>1, <2>4 DEF IInv, Lasting, CompletedIsDecided, Forward, Undecided, Known
  <2> QED
    BY <1>2, <2>3, <2>5, <2>6 DEF JobPart
<1> QED
  BY <1>3, <1>4

\* An execution whose work goes on.
LEMMA ExecMoves ==
  ASSUME IInv, Forward, NEW x \in Executions, NEW r \in Execution,
         exec' = [exec EXCEPT ![x] = r],
         r.phase # "idle" => r.lead \in Leads /\ lead'[r.lead].status # "none",
         r.phase = "decided" => r.decision \in Decisions,
         r.phase = "reviewing" => \/ r.read = "received"
                                  \/ lead'[r.lead].status \notin Undecided
  PROVE  ExecPart'
<1>1. exec \in [Executions -> Execution]
  BY DEF IInv, TypeOK
<1>2. exec' \in [Executions -> Execution]
  BY <1>1
<1>3. exec'[x] = r /\ \A y \in Executions : y # x => exec'[y] = exec[y]
  BY <1>1
<1>4. Known' /\ Chosen' /\ ReadHolds'
  BY <1>3 DEF IInv, Known, Chosen, ReadHolds, Forward
<1> QED
  BY <1>2, <1>4 DEF ExecPart

-----------------------------------------------------------------------------

LEMMA InitiallyInvariant == Init => IInv
<1> SUFFICES ASSUME Init PROVE IInv
  OBVIOUS
<1>1. TypeOK
  <2>1. /\ Idle \in Execution
        /\ [state |-> "none", retries |-> 0] \in Job
        /\ [status |-> "none", decision |-> "none", contact |-> NoContact] \in Lead
    BY DEF Idle, Execution, Job, Lead
  <2>2. history \in [Leads -> Seq(HistoryRow)]
    BY DEF Init
  <2> QED
    BY <2>1, <2>2 DEF Init, TypeOK
<1>2. \A x \in Executions : exec[x].phase = "idle"
  BY DEF Init, Idle
<1>3. Known /\ Chosen /\ ReadHolds
  BY <1>2 DEF Known, Chosen, ReadHolds
<1>4. JobHasLead /\ CompletedIsDecided
  BY DEF Init, JobHasLead, CompletedIsDecided
<1>5. HistoryExplains
  BY DEF Init, HistoryExplains
<1> QED
  BY <1>1, <1>3, <1>4, <1>5 DEF IInv

\* What a step has to show.
Kept == /\ lead' \in [Leads -> Lead] /\ history' \in [Leads -> Seq(HistoryRow)]
        /\ aiRuns' \in [Leads -> Nat] /\ open' \subseteq Arrivals \cup Verdicts
        /\ HistoryExplains' /\ JobPart' /\ ExecPart' /\ Decisive /\ Lasting

LEMMA KeptSuffices == Kept => IInv' /\ Decisive
BY DEF Kept, Lasting, JobPart, ExecPart, IInv, TypeOK

\* Steps that touch neither the lead's status nor its history.
LEMMA Quiet ==
  ASSUME IInv, Lasting, lead' \in [Leads -> Lead], \A l \in Leads : lead'[l].status = lead[l].status,
         UNCHANGED <<history, aiRuns>>, open' \subseteq open
  PROVE  Forward /\ (JobPart' /\ ExecPart' => Kept)
BY StatusStays DEF IInv, TypeOK, Kept, Decisive

LEMMA ReceiveNewKeeps ==
  ASSUME IInv, Lasting, NEW e \in Arrivals, ReceiveNew(e)
  PROVE  Kept
<1> DEFINE l == LeadOf[e]
           first == [from |-> "none", to |-> "received", command |-> "lead.received"]
<1>1. l \in Leads /\ lead \in [Leads -> Lead] /\ history \in [Leads -> Seq(HistoryRow)]
  BY DEF IInv, TypeOK
<1>2. PICK c \in Contacts \cup {NoContact} :
        lead' = [lead EXCEPT ![l] = [status |-> "received", decision |-> "none", contact |-> c]]
  BY DEF ReceiveNew
<1>3. lead' \in [Leads -> Lead]
  BY <1>1, <1>2 DEF Lead, Status
<1>4. lead'[l].status = "received" /\ \A k \in Leads : k # l => lead'[k] = lead[k]
  BY <1>1, <1>2
<1>5. first \in HistoryRow /\ history' = [history EXCEPT ![l] = <<first>>]
  BY DEF HistoryRow, Status, ReceiveNew
<1>6. history' \in [Leads -> Seq(HistoryRow)]
  BY <1>1, <1>5
<1>7. history'[l] = <<first>> /\ \A k \in Leads : k # l => history'[k] = history[k]
  BY <1>1, <1>5
<1>8. ASSUME NEW k \in Leads
      PROVE  /\ lead'[k].status = "none" <=> history'[k] = << >>
             /\ history'[k] # << >> =>
                  /\ history'[k][1] = first
                  /\ history'[k][Len(history'[k])].to = lead'[k].status
             /\ \A i \in 2..Len(history'[k]) :
                  /\ Allowed(history'[k][i - 1].to, history'[k][i].command, history'[k][i].to)
                  /\ history'[k][i].from # history'[k][i - 1].to =>
                       history'[k][i].command = "archive" /\ history'[k][i].from = "received"
  <2>1. CASE k # l
    BY <2>1, <1>4, <1>7 DEF IInv, HistoryExplains
  <2>2. CASE k = l
    <3>1. /\ <<first>> # << >> /\ Len(<<first>>) = 1 /\ <<first>>[1] = first
          /\ first.to = "received" /\ ~ \E i \in 2..1 : TRUE
      OBVIOUS
    <3> QED
      BY <2>2, <1>4, <1>7, <3>1
  <2> QED
    BY <2>1, <2>2
<1>9. lead[l].status = "none"
  BY DEF ReceiveNew
<1>10. Forward
  BY <1>4, <1>9 DEF Forward, Undecided
<1>11. JobPart'
  <2>1. job' = [job EXCEPT ![l] = [state |-> "waiting", retries |-> 0]]
    BY DEF ReceiveNew
  <2>2. [state |-> "waiting", retries |-> 0] \in Job /\ job \in [Leads -> Job]
    BY DEF Job, IInv, TypeOK
  <2>3. job' \in [Leads -> Job]
    BY <2>1, <2>2
  <2>4. job'[l].state = "waiting" /\ \A k \in Leads : k # l => job'[k] = job[k]
    BY <1>1, <2>1, <2>2
  <2> QED
    BY <1>4, <1>10, <2>3, <2>4
    DEF IInv, Lasting, JobPart, JobHasLead, CompletedIsDecided, Forward, Undecided
<1>12. ExecPart'
  BY <1>10, ExecStays DEF ReceiveNew
<1>13. Lifecycle!Next
  <2>1. StatusMap' = [StatusMap EXCEPT ![l] = "received"] /\ StatusMap[l] = "none"
    BY <1>1, <1>4, <1>9 DEF StatusMap
  <2> QED
    BY <1>1, <2>1 DEF Lifecycle!Next, Lifecycle!Receive, StatusMap
<1>14. HistoryExplains'
  BY <1>8 DEF HistoryExplains
<1> QED
  BY <1>3, <1>6, <1>14, <1>11, <1>12, <1>13 DEF Kept, Decisive, ReceiveNew, IInv, TypeOK

LEMMA ReceiveAgainKeeps ==
  ASSUME IInv, Lasting, NEW e \in Arrivals, ReceiveAgain(e)
  PROVE  Kept
<1> DEFINE l == LeadOf[e]
<1>1. l \in Leads /\ lead \in [Leads -> Lead] /\ lead[l] \in Lead
  BY DEF IInv, TypeOK
<1>2. PICK c \in Contacts \cup {NoContact} :
        lead' = IF lead[l].status \in Terminal \/ lead[l].contact # NoContact THEN lead
                ELSE [lead EXCEPT ![l].contact = c]
  BY DEF ReceiveAgain
<1>3. lead' \in [Leads -> Lead] /\ \A k \in Leads : lead'[k].status = lead[k].status
  BY <1>1, <1>2 DEF Lead
<1>4. UNCHANGED <<history, aiRuns, job, exec>> /\ open' \subseteq open
  BY DEF ReceiveAgain
<1> QED
  BY <1>3, <1>4, Quiet, JobStays, ExecStays

LEMMA ProjectQualifiedKeeps ==
  ASSUME IInv, Lasting, NEW e \in Verdicts, ProjectQualified(e)
  PROVE  Kept
<1> DEFINE l == LeadOf[e]
<1>1. l \in Leads /\ lead[l].status # "none"
  BY DEF ProjectQualified
<1>2. PICK d \in Decisions : Qualified(l, d)
  BY DEF ProjectQualified
<1>3. /\ lead' \in [Leads -> Lead] /\ history' \in [Leads -> Seq(HistoryRow)]
      /\ Forward /\ HistoryExplains' /\ Decisive
  BY <1>1, <1>2, QualifiedStep DEF IInv
<1>4. JobPart' /\ ExecPart'
  BY <1>3, JobStays, ExecStays DEF ProjectQualified
<1> QED
  BY <1>3, <1>4 DEF Kept, ProjectQualified, IInv, TypeOK

LEMMA StartKeeps ==
  ASSUME IInv, Lasting, NEW x \in Executions, NEW l \in Leads, Start(x, l)
  PROVE  Kept
<1> DEFINE r == [Idle EXCEPT !.phase = "started", !.lead = l]
<1>1. r \in Execution /\ r.phase = "started" /\ r.lead = l
  BY DEF Idle, Execution
<1>2. job \in [Leads -> Job] /\ job[l] \in Job /\ job[l].state = "waiting"
  BY DEF IInv, TypeOK, Start
<1>3. UNCHANGED <<lead, history, aiRuns, open>>
  BY DEF Start
<1>4. Forward /\ (JobPart' /\ ExecPart' => Kept)
  BY <1>3, Quiet DEF IInv, TypeOK
<1>5. lead[l].status # "none"
  BY <1>2 DEF IInv, JobHasLead
<1>6. ExecPart'
  BY <1>1, <1>3, <1>4, <1>5, ExecMoves DEF Start
<1>7. JobPart'
  <2>1. job' = [job EXCEPT ![l].state = "active"]
    BY DEF Start
  <2>2. job' \in [Leads -> Job]
    BY <1>2, <2>1 DEF Job
  <2>3. job'[l].state = "active" /\ \A k \in Leads : k # l => job'[k] = job[k]
    BY <1>2, <2>1 DEF Job
  <2> QED
    BY <1>3, <1>5, <2>2, <2>3 DEF IInv, Lasting, JobPart, JobHasLead, CompletedIsDecided
<1> QED
  BY <1>4, <1>6, <1>7

\* Steps of an execution that write no table.
LEMMA ThinkingKeeps ==
  ASSUME IInv, Lasting, NEW x \in Executions,
         ReadLead(x) \/ ProviderAnswers(x) \/ ProviderFails(x) \/ ReadStatus(x)
  PROVE  Kept
<1> DEFINE l == exec[x].lead
<1>1. UNCHANGED <<lead, history, aiRuns, open>> /\ exec[x].phase # "idle"
  BY DEF ReadLead, ProviderAnswers, ProviderFails, ReadStatus
<1>2. Forward /\ (JobPart' /\ ExecPart' => Kept)
  BY <1>1, Quiet DEF IInv, TypeOK
<1>3. l \in Leads /\ lead[l].status # "none" /\ lead[l].status \in Status
  BY <1>1 DEF IInv, Known, TypeOK, Lead
<1>4. exec[x] \in Execution
  BY DEF IInv, TypeOK
<1>5. CASE ReadLead(x)
  <2>1. CASE integration = "active" /\ lead[l].status = "received"
    <3> DEFINE r == [exec[x] EXCEPT !.phase = "asking"]
    <3>1. r \in Execution /\ r.phase = "asking" /\ r.lead = l
      BY <1>4 DEF Execution
    <3>2. exec' = [exec EXCEPT ![x] = r] /\ UNCHANGED job
      BY <1>5, <2>1 DEF ReadLead
    <3> QED
      BY <1>1, <1>2, <1>3, <3>1, <3>2, JobStays, ExecMoves
  <2>2. CASE ~(integration = "active" /\ lead[l].status = "received")
    <3>1. Completed(x)
      BY <1>5, <2>2 DEF ReadLead
    <3>2. lead'[l].status \notin Undecided \/ integration' = "revoked"
      BY <1>1, <1>3, <2>2 DEF IInv, TypeOK, Lasting, Undecided
    <3> QED
      BY <1>1, <1>2, <3>1, <3>2, CompletedKeeps
  <2> QED
    BY <2>1, <2>2
<1>6. CASE ProviderAnswers(x)
  <2>1. PICK d \in Decisions :
          exec' = [exec EXCEPT ![x].phase = "decided", ![x].decision = d]
    BY <1>6 DEF ProviderAnswers
  <2> DEFINE r == [exec[x] EXCEPT !.phase = "decided", !.decision = d]
  <2>2. r \in Execution /\ r.phase = "decided" /\ r.lead = l /\ r.decision = d
    BY <1>4 DEF Execution
  <2>3. exec' = [exec EXCEPT ![x] = r] /\ UNCHANGED job
    BY <1>6, <2>1 DEF ProviderAnswers, IInv, TypeOK
  <2> QED
    BY <1>1, <1>2, <1>3, <2>2, <2>3, JobStays, ExecMoves
<1>7. CASE ProviderFails(x)
  <2> DEFINE r == [exec[x] EXCEPT !.phase = "undecided"]
  <2>1. r \in Execution /\ r.phase = "undecided" /\ r.lead = l
    BY <1>4 DEF Execution
  <2>2. exec' = [exec EXCEPT ![x] = r] /\ UNCHANGED job
    BY <1>7 DEF ProviderFails
  <2> QED
    BY <1>1, <1>2, <1>3, <2>1, <2>2, JobStays, ExecMoves
<1>8. CASE ReadStatus(x)
  <2> DEFINE r == [exec[x] EXCEPT !.phase = "reviewing", !.read = lead[l].status]
  <2>1. r \in Execution /\ r.phase = "reviewing" /\ r.lead = l /\ r.read = lead[l].status
    BY <1>3, <1>4 DEF Execution
  <2>2. exec' = [exec EXCEPT ![x] = r] /\ UNCHANGED job
    BY <1>8 DEF ReadStatus, IInv, TypeOK
  <2>3. r.read = "received" \/ lead'[l].status \notin Undecided
    BY <1>1, <1>3, <2>1 DEF Undecided
  <2> QED
    BY <1>1, <1>2, <1>3, <2>1, <2>2, <2>3, JobStays, ExecMoves
<1> QED
  BY <1>5, <1>6, <1>7, <1>8

LEMMA WriteDecisionKeeps ==
  ASSUME IInv, Lasting, NEW x \in Executions, WriteDecision(x)
  PROVE  Kept
<1> DEFINE l == exec[x].lead
           d == exec[x].decision
<1>1. l \in Leads /\ lead[l].status # "none" /\ d \in Decisions
  BY DEF IInv, Known, Chosen, WriteDecision
<1>2. /\ lead' \in [Leads -> Lead] /\ history' \in [Leads -> Seq(HistoryRow)]
      /\ Forward /\ HistoryExplains' /\ Decisive /\ lead'[l].status \notin Undecided
  BY <1>1, QualifiedStep DEF IInv, WriteDecision
<1>3. JobPart' /\ ExecPart'
  BY <1>2, CompletedKeeps DEF WriteDecision
<1>4. aiRuns' \in [Leads -> Nat] /\ UNCHANGED open
  BY <1>1 DEF WriteDecision, IInv, TypeOK
<1> QED
  BY <1>2, <1>3, <1>4 DEF Kept, IInv, TypeOK

LEMMA WriteReviewKeeps ==
  ASSUME IInv, Lasting, NEW x \in Executions, WriteReview(x)
  PROVE  Kept
<1> DEFINE l == exec[x].lead
<1>1. l \in Leads /\ lead[l].status # "none" /\ exec[x].phase = "reviewing"
  BY DEF IInv, Known, WriteReview
<1>2. aiRuns' \in [Leads -> Nat] /\ UNCHANGED open /\ Completed(x)
  BY <1>1 DEF WriteReview, IInv, TypeOK
<1>3. /\ lead' \in [Leads -> Lead] /\ history' \in [Leads -> Seq(HistoryRow)]
      /\ Forward /\ HistoryExplains' /\ Decisive /\ lead'[l].status \notin Undecided
  <2>1. CASE exec[x].read = "received" /\ lead[l].status = "received"
    <3>1. Allowed(exec[x].read, "needs_review", "needs_review")
      BY <2>1 DEF Allowed
    <3>2. /\ lead' = [lead EXCEPT ![l].status = "needs_review"]
          /\ history' = Recorded(l, "needs_review", "needs_review")
      BY <2>1, <3>1 DEF WriteReview
    <3> QED
      BY <1>1, <2>1, <3>2, ReviewStep DEF IInv
  <2>2. CASE ~(exec[x].read = "received" /\ lead[l].status = "received")
    <3>1. ~(Allowed(exec[x].read, "needs_review", "needs_review")
              /\ lead[l].status = exec[x].read)
      BY <2>2 DEF Allowed
    <3>2. UNCHANGED <<lead, history>>
      BY <3>1 DEF WriteReview
    <3>3. lead[l].status \notin Undecided
      BY <1>1, <2>2 DEF IInv, ReadHolds, Undecided
    <3> QED
      BY <3>2, <3>3, StatusStays DEF IInv, TypeOK, Decisive
  <2> QED
    BY <2>1, <2>2
<1>4. JobPart' /\ ExecPart'
  BY <1>1, <1>2, <1>3, CompletedKeeps
<1> QED
  BY <1>2, <1>3, <1>4 DEF Kept, IInv, TypeOK

LEMMA TimeoutKeeps ==
  ASSUME IInv, Lasting, NEW x \in Executions, Timeout(x)
  PROVE  Kept
<1> DEFINE r == [exec[x] EXCEPT !.timedOut = TRUE]
<1>1. UNCHANGED <<lead, history, aiRuns, open>>
  BY DEF Timeout
<1>2. Forward /\ (JobPart' /\ ExecPart' => Kept)
  BY <1>1, Quiet DEF IInv, TypeOK
<1>3. exec[x] \in Execution /\ exec[x].phase # "idle"
  BY DEF IInv, TypeOK, Timeout
<1>4. /\ r \in Execution /\ r.phase = exec[x].phase /\ r.lead = exec[x].lead
      /\ r.decision = exec[x].decision /\ r.read = exec[x].read
  BY <1>3 DEF Execution
<1>5. exec' = [exec EXCEPT ![x] = r]
  BY DEF Timeout
<1>6. ExecPart'
  BY <1>1, <1>2, <1>3, <1>4, <1>5, ExecMoves DEF IInv, Known, Chosen, ReadHolds
<1>7. JobPart'
  BY <1>2, <1>3, JobRetried DEF IInv, Known, Timeout
<1> QED
  BY <1>2, <1>6, <1>7

LEMMA ExecutionFailsKeeps ==
  ASSUME IInv, Lasting, NEW x \in Executions, ExecutionFails(x) \/ WriteDenied(x)
  PROVE  Kept
<1> USE DEF WriteDenied
<1>1. UNCHANGED <<lead, history, aiRuns, open>>
  BY DEF ExecutionFails
<1>2. Forward /\ (JobPart' /\ ExecPart' => Kept)
  BY <1>1, Quiet DEF IInv, TypeOK
<1>3. ExecPart'
  BY <1>2, ExecIdle DEF ExecutionFails
<1>4. CASE exec[x].timedOut
  BY <1>2, <1>3, <1>4, JobStays DEF ExecutionFails, Reports
<1>5. CASE ~exec[x].timedOut
  BY <1>2, <1>3, <1>5, JobRetried DEF ExecutionFails, Reports, IInv, Known
<1> QED
  BY <1>4, <1>5

LEMMA RefuseKeeps ==
  ASSUME IInv, Lasting, NEW l \in Leads, Refuse(l)
  PROVE  Kept
<1>1. UNCHANGED <<lead, history, aiRuns, open, exec>> /\ lead[l].status # "none"
  BY DEF Refuse, IInv, JobHasLead
<1>2. Forward /\ (JobPart' /\ ExecPart' => Kept)
  BY <1>1, Quiet DEF IInv, TypeOK
<1> QED
  BY <1>1, <1>2, JobRetried, ExecStays DEF Refuse

-----------------------------------------------------------------------------

LEMMA StepInvariant == IInv /\ [Next]_vars => IInv' /\ Decisive
<1> SUFFICES ASSUME IInv, [Next]_vars PROVE Kept
  BY KeptSuffices
<1> Lasting
  BY StepLasts DEF IInv
<1>1. ASSUME NEW e \in Arrivals, ReceiveNew(e) \/ ReceiveAgain(e) PROVE Kept
  BY <1>1, ReceiveNewKeeps, ReceiveAgainKeeps
<1>2. ASSUME NEW e \in Verdicts, ProjectQualified(e) PROVE Kept
  BY <1>2, ProjectQualifiedKeeps
<1>3. ASSUME NEW l \in Leads, NEW x \in Executions, Start(x, l) PROVE Kept
  BY <1>3, StartKeeps
<1>4. ASSUME NEW x \in Executions, Qualify(x) PROVE Kept
  BY <1>4, ThinkingKeeps, WriteDecisionKeeps, WriteReviewKeeps, ExecutionFailsKeeps DEF Qualify
<1>5. ASSUME NEW x \in Executions, Timeout(x) \/ ExecutionFails(x) PROVE Kept
  BY <1>5, TimeoutKeeps, ExecutionFailsKeeps
<1>6. ASSUME NEW l \in Leads, Refuse(l) PROVE Kept
  BY <1>6, RefuseKeeps
<1>7. CASE RevokeIntegration \/ UNCHANGED vars
  <2>1. UNCHANGED <<lead, history, aiRuns, open, job, exec>>
    BY <1>7 DEF vars, RevokeIntegration
  <2> QED
    BY <2>1, Quiet, JobStays, ExecStays DEF IInv, TypeOK
<1> QED
  BY <1>1, <1>2, <1>3, <1>4, <1>5, <1>6, <1>7 DEF Next

\* The inductive invariant: jobs and executions belong to leads, what a review has read
\* cannot become 'received' again, and the history explains the status.
THEOREM InductiveInvariant == Spec => []IInv
<1>1. Init => IInv
  BY InitiallyInvariant
<1>2. IInv /\ [Next]_vars => IInv'
  BY StepInvariant
<1> QED
  BY <1>1, <1>2, PTL DEF Spec

\* Rows, jobs and executions have their types.
THEOREM TypeCorrect == Spec => []TypeOK
BY InductiveInvariant, PTL DEF IInv

\* lead_status_history explains the status of every lead, and misreports a previous
\* status only for an archival after the lead was settled.
THEOREM HistoryIsTrue == Spec => []HistoryExplains
BY InductiveInvariant, PTL DEF IInv

\* While the integration is active, a leads.qualify job completes only when its lead
\* is decided.
THEOREM CompletedJobsDecide == Spec => []CompletedIsDecided
BY InductiveInvariant, PTL DEF IInv

\* apply_lead_status_atomic and its callers keep the state machine of packages/core.
THEOREM LifecycleImplemented == Spec => ImplementsLifecycle
<1>1. Init => Lifecycle!Init
  BY DEF Init, Lifecycle!Init
<1>2. IInv /\ [Next]_vars => [Lifecycle!Next]_StatusMap
  BY StepInvariant DEF Decisive
<1>3. IInv /\ [Next]_vars => [Lifecycle!Next]_([l \in Leads |-> lead[l].status])
  BY <1>2 DEF StatusMap
<1> QED
  BY <1>1, <1>3, InductiveInvariant, PTL DEF Spec, ImplementsLifecycle, Lifecycle!Spec

-----------------------------------------------------------------------------
(* What the status says of the opinions that have been heard.              *)

Heard(l) == {e \in Verdicts \ open : LeadOf[e] = l}

\* Nothing is counted that cannot be, although there may be infinitely many events.
HeardFinite == \A l \in Leads : IsFiniteSet(Heard(l))

\* A row r after n opinions.
Fits(n, r) ==
  /\ n = 0 => r.status \in Undecided /\ r.decision = "none"
  /\ n = 1 => r.status = IF r.decision = "none" THEN "needs_review" ELSE StatusOf(r.decision)
  /\ n > 1 => r.status \notin Undecided

LEMMA ShowsFits == OpinionShows <=> \A l \in Leads : Fits(Opinions(l), lead[l])
BY DEF OpinionShows, Fits, Undecided

LEMMA OpinionsNatural ==
  ASSUME TypeOK, HeardFinite, NEW l \in Leads
  PROVE  Opinions(l) \in Nat
<1>1. Cardinality(Heard(l)) \in Nat
  BY FS_CardinalityType DEF HeardFinite
<1> QED
  BY <1>1 DEF TypeOK, Opinions, Heard

\* A step that hears no opinion: it may create a lead, or leave status and decision.
LEMMA NothingHeard ==
  ASSUME TypeOK, HeardFinite, OpinionShows,
         UNCHANGED aiRuns, Verdicts \ open' = Verdicts \ open,
         \A l \in Leads : \/ /\ lead'[l].status = lead[l].status
                             /\ lead'[l].decision = lead[l].decision
                          \/ /\ lead[l].status = "none"
                             /\ lead'[l].status = "received"
                             /\ lead'[l].decision = "none"
  PROVE  HeardFinite' /\ OpinionShows'
<1>1. \A l \in Leads : Heard(l)' = Heard(l)
  BY DEF Heard
<1>2. HeardFinite'
  BY <1>1 DEF HeardFinite
<1>3. ASSUME NEW l \in Leads PROVE Fits(Opinions(l)', lead'[l])
  <2>1. Opinions(l)' = Opinions(l)
    BY <1>1 DEF Opinions, Heard
  <2>2. Fits(Opinions(l), lead[l]) /\ Opinions(l) \in Nat
    BY OpinionsNatural, ShowsFits
  <2>3. CASE lead'[l].status = lead[l].status /\ lead'[l].decision = lead[l].decision
    BY <2>1, <2>2, <2>3 DEF Fits
  <2>4. CASE /\ lead[l].status = "none"
             /\ lead'[l].status = "received"
             /\ lead'[l].decision = "none"
    <3>1. Opinions(l) = 0
      BY <2>2, <2>4 DEF Fits, Undecided, StatusOf, OpinionShows, TypeOK, Lead, Decisions
    <3> QED
      BY <2>1, <2>4, <3>1 DEF Fits, Undecided
  <2> QED
    BY <2>3, <2>4
<1>4. OpinionShows'
  BY <1>3 DEF OpinionShows, Fits, Undecided
<1> QED
  BY <1>2, <1>4

\* A step that hears one opinion about l: the lead is decided, and the first opinion
\* is what the row says.
LEMMA OneHeard ==
  ASSUME TypeOK, HeardFinite, OpinionShows, NEW l \in Leads,
         Opinions(l)' = Opinions(l) + 1,
         \A k \in Leads : k # l => Opinions(k)' = Opinions(k) /\ lead'[k] = lead[k],
         lead'[l].status \notin Undecided,
         Opinions(l) = 0 => lead'[l].status = IF lead'[l].decision = "none" THEN "needs_review"
                                              ELSE StatusOf(lead'[l].decision)
  PROVE  OpinionShows'
<1>1. Opinions(l) \in Nat
  BY OpinionsNatural
<1>2. ASSUME NEW k \in Leads PROVE Fits(Opinions(k)', lead'[k])
  <2>1. CASE k = l
    BY <1>1, <2>1 DEF Fits
  <2>2. CASE k # l
    BY <2>2, ShowsFits
  <2> QED
    BY <2>1, <2>2
<1> QED
  BY <1>2 DEF OpinionShows, Fits, Undecided

\* Storing a decision when no opinion has been heard: it is what the status becomes.
LEMMA FirstDecision ==
  ASSUME TypeOK, OpinionShows, NEW l \in Leads, NEW d \in Decisions,
         lead[l].status # "none", Qualified(l, d)
  PROVE  /\ \A k \in Leads : k # l => lead'[k] = lead[k]
         /\ Opinions(l) = 0 => lead'[l].decision = d /\ lead'[l].status = StatusOf(d)
<1>1. lead \in [Leads -> Lead] /\ lead[l] \in Lead
  BY DEF TypeOK
<1>2. \A k \in Leads : k # l => lead'[k] = lead[k]
  BY <1>1 DEF Qualified
<1>3. ASSUME Opinions(l) = 0 PROVE lead'[l].decision = d /\ lead'[l].status = StatusOf(d)
  <2>1. lead[l].status = "received"
    BY <1>3 DEF OpinionShows
  <2>2. Allowed(lead[l].status, CommandOf(d), StatusOf(d))
    BY <2>1 DEF Allowed, CommandOf, StatusOf, Decisions
  <2>3. lead' = [lead EXCEPT ![l].decision = d, ![l].status = StatusOf(d)]
    BY <2>2 DEF Qualified
  <2> QED
    BY <1>1, <2>3 DEF Lead
<1> QED
  BY <1>2, <1>3

\* The provider's opinion is counted in ai_runs.
LEMMA RunCounted ==
  ASSUME TypeOK, HeardFinite, NEW l \in Leads,
         aiRuns' = [aiRuns EXCEPT ![l] = @ + 1], UNCHANGED open
  PROVE  /\ HeardFinite'
         /\ Opinions(l)' = Opinions(l) + 1
         /\ \A k \in Leads : k # l => Opinions(k)' = Opinions(k)
<1>1. \A k \in Leads : Heard(k)' = Heard(k)
  BY DEF Heard
<1>2. \A k \in Leads : aiRuns'[k] = IF k = l THEN aiRuns[k] + 1 ELSE aiRuns[k]
  BY DEF TypeOK
<1>3. \A k \in Leads : Opinions(k) = aiRuns[k] + Cardinality(Heard(k))
  BY DEF Opinions, Heard
<1>4. \A k \in Leads : Opinions(k)' = aiRuns'[k] + Cardinality(Heard(k))
  BY <1>1 DEF Opinions, Heard
<1>5. aiRuns[l] \in Nat /\ Cardinality(Heard(l)) \in Nat
  BY FS_CardinalityType DEF HeardFinite, TypeOK
<1>6. Opinions(l)' = Opinions(l) + 1
  BY <1>2, <1>3, <1>4, <1>5
<1>7. \A k \in Leads : k # l => Opinions(k)' = Opinions(k)
  BY <1>2, <1>3, <1>4
<1>8. HeardFinite'
  BY <1>1 DEF HeardFinite
<1> QED
  BY <1>6, <1>7, <1>8

\* A workflow's opinion is counted by its projected event.
LEMMA EventCounted ==
  ASSUME TypeOK, HeardFinite, NEW e \in Verdicts, e \in open,
         open' = open \ {e}, UNCHANGED aiRuns
  PROVE  /\ HeardFinite'
         /\ Opinions(LeadOf[e])' = Opinions(LeadOf[e]) + 1
         /\ \A k \in Leads : k # LeadOf[e] => Opinions(k)' = Opinions(k)
<1> DEFINE l == LeadOf[e]
<1>1. l \in Leads
  OBVIOUS
<1>2. Heard(l)' = Heard(l) \cup {e} /\ e \notin Heard(l)
  BY DEF Heard
<1>3. \A k \in Leads : k # l => Heard(k)' = Heard(k)
  BY DEF Heard
<1>4. /\ IsFiniteSet(Heard(l)) /\ Cardinality(Heard(l)) \in Nat
      /\ IsFiniteSet(Heard(l) \cup {e})
      /\ Cardinality(Heard(l) \cup {e}) = Cardinality(Heard(l)) + 1
  BY <1>1, <1>2, FS_AddElement, FS_CardinalityType DEF HeardFinite
<1>5. HeardFinite'
  BY <1>2, <1>3, <1>4 DEF HeardFinite
<1>6. \A k \in Leads : Opinions(k) = aiRuns[k] + Cardinality(Heard(k))
  BY DEF Opinions, Heard
<1>7. \A k \in Leads : Opinions(k)' = aiRuns[k] + Cardinality(Heard(k)')
  BY DEF Opinions, Heard
<1>8. aiRuns[l] \in Nat
  BY DEF TypeOK
<1>9. Opinions(l)' = Opinions(l) + 1
  <2>1. Cardinality(Heard(l)') = Cardinality(Heard(l)) + 1
    BY <1>2, <1>4
  <2>2. /\ Opinions(l) = aiRuns[l] + Cardinality(Heard(l))
        /\ Opinions(l)' = aiRuns[l] + Cardinality(Heard(l)')
    BY <1>1, <1>6, <1>7
  <2> QED
    BY <1>4, <1>8, <2>1, <2>2
<1> QED
  BY <1>3, <1>5, <1>6, <1>7, <1>9

LEMMA OpinionsStep ==
  ASSUME IInv, HeardFinite, OpinionShows, [Next]_vars
  PROVE  HeardFinite' /\ OpinionShows'
<1> USE DEF IInv
<1>1. ASSUME NEW e \in Arrivals, ReceiveNew(e) \/ ReceiveAgain(e)
      PROVE  HeardFinite' /\ OpinionShows'
  <2>1. lead \in [Leads -> Lead] /\ LeadOf[e] \in Leads /\ lead[LeadOf[e]] \in Lead
    BY DEF TypeOK
  <2>2. UNCHANGED aiRuns /\ Verdicts \ open' = Verdicts \ open
    BY <1>1 DEF ReceiveNew, ReceiveAgain
  <2>3. ASSUME NEW l \in Leads
        PROVE  \/ /\ lead'[l].status = lead[l].status
                  /\ lead'[l].decision = lead[l].decision
               \/ /\ lead[l].status = "none"
                  /\ lead'[l].status = "received"
                  /\ lead'[l].decision = "none"
    <3>1. CASE ReceiveNew(e)
      BY <2>1, <3>1 DEF ReceiveNew
    <3>2. CASE ReceiveAgain(e)
      BY <2>1, <3>2 DEF ReceiveAgain, Lead
    <3> QED
      BY <1>1, <3>1, <3>2
  <2> QED
    BY <2>2, <2>3, NothingHeard
<1>2. ASSUME NEW e \in Verdicts, ProjectQualified(e)
      PROVE  HeardFinite' /\ OpinionShows'
  <2> DEFINE l == LeadOf[e]
  <2>1. PICK d \in Decisions : Qualified(l, d)
    BY <1>2 DEF ProjectQualified
  <2>2. l \in Leads /\ lead[l].status # "none" /\ d # "none"
    BY <1>2 DEF ProjectQualified, Decisions
  <2>3. lead'[l].status \notin Undecided
    BY <2>1, <2>2, QualifiedStep
  <2>4. /\ \A k \in Leads : k # l => lead'[k] = lead[k]
        /\ Opinions(l) = 0 => lead'[l].decision = d /\ lead'[l].status = StatusOf(d)
    BY <2>1, <2>2, FirstDecision
  <2>5. HeardFinite' /\ Opinions(l)' = Opinions(l) + 1
        /\ \A k \in Leads : k # l => Opinions(k)' = Opinions(k)
    BY <1>2, EventCounted DEF ProjectQualified
  <2> HIDE DEF l
  <2> QED
    BY <2>2, <2>3, <2>4, <2>5, OneHeard
<1>3. ASSUME NEW x \in Executions, WriteDecision(x)
      PROVE  HeardFinite' /\ OpinionShows'
  <2> DEFINE l == exec[x].lead
             d == exec[x].decision
  <2>1. /\ l \in Leads /\ lead[l].status # "none" /\ d \in Decisions /\ d # "none"
        /\ Qualified(l, d)
    BY <1>3 DEF WriteDecision, Known, Chosen, Decisions
  <2>2. aiRuns' = [aiRuns EXCEPT ![l] = @ + 1] /\ UNCHANGED open
    BY <1>3 DEF WriteDecision
  <2> HIDE DEF l, d
  <2>3. lead'[l].status \notin Undecided
    BY <2>1, QualifiedStep
  <2>4. /\ \A k \in Leads : k # l => lead'[k] = lead[k]
        /\ Opinions(l) = 0 => lead'[l].decision = d /\ lead'[l].status = StatusOf(d)
    BY <2>1, FirstDecision
  <2>5. \A n \in Leads : n = l => 
          /\ HeardFinite' /\ Opinions(n)' = Opinions(n) + 1
          /\ \A k \in Leads : k # n => Opinions(k)' = Opinions(k)
    BY <2>1, <2>2, RunCounted
  <2> QED
    BY <2>1, <2>3, <2>4, <2>5, OneHeard
<1>4. ASSUME NEW x \in Executions, WriteReview(x)
      PROVE  HeardFinite' /\ OpinionShows'
  <2> DEFINE l == exec[x].lead
  <2>1. /\ l \in Leads /\ lead[l].status # "none" /\ lead[l] \in Lead
        /\ lead \in [Leads -> Lead]
    BY <1>4 DEF WriteReview, Known, TypeOK
  <2>2. aiRuns' = [aiRuns EXCEPT ![l] = @ + 1] /\ UNCHANGED open
    BY <1>4 DEF WriteReview
  <2>3. /\ lead'[l].status \notin Undecided
        /\ \A k \in Leads : k # l => lead'[k] = lead[k]
        /\ Opinions(l) = 0 => lead'[l].decision = "none" /\ lead'[l].status = "needs_review"
    <3>1. CASE exec[x].read = "received" /\ lead[l].status = "received"
      <4>1. lead' = [lead EXCEPT ![l].status = "needs_review"]
        BY <1>4, <3>1 DEF WriteReview, Allowed
      <4>2. /\ lead'[l].status = "needs_review" /\ lead'[l].decision = lead[l].decision
            /\ \A k \in Leads : k # l => lead'[k] = lead[k]
        BY <2>1, <4>1 DEF Lead
      <4> QED
        BY <2>1, <4>2 DEF OpinionShows, Undecided
    <3>2. CASE ~(exec[x].read = "received" /\ lead[l].status = "received")
      <4>1. UNCHANGED lead
        BY <1>4, <3>2 DEF WriteReview, Allowed
      <4>2. lead[l].status \notin Undecided
        BY <1>4, <2>1, <3>2 DEF WriteReview, ReadHolds, Undecided
      <4> QED
        BY <2>1, <4>1, <4>2, ShowsFits DEF Fits
    <3> QED
      BY <3>1, <3>2
  <2> HIDE DEF l
  <2>4. \A n \in Leads : n = l =>
          /\ HeardFinite' /\ Opinions(n)' = Opinions(n) + 1
          /\ \A k \in Leads : k # n => Opinions(k)' = Opinions(k)
    BY <2>1, <2>2, RunCounted
  <2> QED
    BY <2>1, <2>3, <2>4, OneHeard
<1>5. ASSUME UNCHANGED <<lead, aiRuns, open>>
      PROVE  HeardFinite' /\ OpinionShows'
  BY <1>5, NothingHeard
<1>6. ASSUME NEW l \in Leads, Refuse(l) \/ \E x \in Executions : Start(x, l)
      PROVE  HeardFinite' /\ OpinionShows'
  BY <1>5, <1>6 DEF Start, Refuse
<1>7. ASSUME NEW x \in Executions,
             \/ ReadLead(x) \/ ProviderAnswers(x) \/ ProviderFails(x)
             \/ ReadStatus(x) \/ WriteDenied(x) \/ Timeout(x) \/ ExecutionFails(x)
      PROVE  HeardFinite' /\ OpinionShows'
  <2>1. UNCHANGED <<lead, aiRuns, open>>
    BY <1>7 DEF ReadLead, ProviderAnswers, ProviderFails, ReadStatus, WriteDenied, Timeout,
       ExecutionFails
  <2> QED
    BY <1>5, <2>1
<1>8. CASE RevokeIntegration \/ UNCHANGED vars
  BY <1>5, <1>8 DEF vars, RevokeIntegration
<1> QED
  BY <1>1, <1>2, <1>3, <1>4, <1>6, <1>7, <1>8 DEF Next, Qualify

\* As long as one opinion has been heard about a lead, its status says what the
\* recorded decision says: the provider's opinion and a workflow's are stored and
\* applied in one step each.
THEOREM OpinionsShow == Spec => []OpinionShows
<1>1. Init => HeardFinite /\ OpinionShows
  <2> SUFFICES ASSUME Init PROVE HeardFinite /\ OpinionShows
    OBVIOUS
  <2>1. \A l \in Leads : Heard(l) = {}
    BY DEF Init, Heard
  <2>2. HeardFinite
    BY <2>1, FS_EmptySet DEF HeardFinite
  <2>3. \A l \in Leads : Opinions(l) = 0
    <3>1. \A l \in Leads : Opinions(l) = aiRuns[l] + Cardinality(Heard(l))
      BY DEF Opinions, Heard
    <3>2. \A l \in Leads : aiRuns[l] = 0 /\ Cardinality(Heard(l)) = 0
      BY <2>1, FS_EmptySet DEF Init
    <3> QED
      BY <3>1, <3>2
  <2> QED
    BY <2>2, <2>3 DEF Init, OpinionShows
<1>2. IInv /\ HeardFinite /\ OpinionShows /\ [Next]_vars => HeardFinite' /\ OpinionShows'
  BY OpinionsStep
<1> QED
  BY <1>1, <1>2, InductiveInvariant, PTL DEF Spec
=============================================================================

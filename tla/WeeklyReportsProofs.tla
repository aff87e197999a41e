------------------------- MODULE WeeklyReportsProofs -------------------------
(***************************************************************************)
(* Theorems about WeeklyReports, for any leads, transactions, executions,  *)
(* integrations, length of the week and bounds.                            *)
(*                                                                         *)
(* The argument: what an execution has computed stays true of the rows     *)
(* while they change (Computed), because whatever is committed later is    *)
(* stamped with a later commit, so storing it late does no harm.  For the  *)
(* incident this takes what the trail says of the order of its events      *)
(* (Trail) and that a report is only made of a week that has ended.        *)
(***************************************************************************)
EXTENDS WeeklyReports, TLAPS

USE ClockAssumption, BoundsAssumption

\* The trail: no event is stamped after its commit, commits are in order, and the
\* status of the row is what the last event says.
Trail ==
  /\ \A n \in DOMAIN trail : trail[n].at <= trail[n].landed /\ trail[n].landed <= now
  /\ \A m, n \in DOMAIN trail : m < n => trail[m].landed <= trail[n].landed
  /\ \A o \in Operators : operator[o] # None => operator[o] <= now
  /\ incident \in {"open", "acknowledged"} <=>
       (Len(trail) > 0 /\ trail[Len(trail)].type # "resolved")

LeadsTrue(w, m) ==
  /\ m.leads \subseteq Received(w)
  /\ \A l \in Received(w) : lead[l].landed < m.at => l \in m.leads

OpenTrue(w, m) == ~Crossed(w) => m.open = WasOpen(w)

\* Metrics m of week w are true and of a week that has ended.
True(w, m) ==
  /\ m \in Metrics
  /\ m.at <= now
  /\ EndOf(w) <= m.at
  /\ LeadsTrue(w, m)
  /\ OpenTrue(w, m)

Computed ==
  /\ \A w \in Weeks : snapshot[w] # None => True(w, snapshot[w])
  /\ \A g \in Workers : worker[g] # None => True(worker[g].week, worker[g].metrics)

\* Jobs are for weeks that have ended.
Waiting == \A w \in Weeks, i \in Integrations : waiting[w][i] > 0 => EndOf(w) <= now

IInv == TypeOK /\ Trail /\ Waiting /\ Computed

-----------------------------------------------------------------------------
(* Weeks and types.                                                        *)

LEMMA WeekFacts ==
  ASSUME NEW w \in Weeks
  PROVE  /\ w \in Nat
         /\ StartOf(w) \in Nat
         /\ EndOf(w) \in Nat
         /\ w \in LastWeek /\ now \in Times => EndOf(w) <= now
<1>1. w \in Nat
  BY DEF Weeks
<1>2. \A x, y \in Nat : x * y \in Nat
  OBVIOUS
<1>3. StartOf(w) \in Nat /\ EndOf(w) \in Nat
  BY <1>1, <1>2 DEF StartOf, EndOf
<1>4. ASSUME w \in LastWeek, now \in Times PROVE EndOf(w) <= now
  <2>1. now \in EndOf(w)..(EndOf(w + 1) - 1)
    BY <1>4 DEF LastWeek, During, StartOf, EndOf
  <2> QED BY <2>1
<1> QED BY <1>1, <1>3, <1>4

LEMMA TypeStep == TypeOK /\ [Next]_vars => TypeOK'
<1> SUFFICES ASSUME TypeOK, [Next]_vars PROVE TypeOK'
  OBVIOUS
<1>1. ASSUME NEW l \in Leads, ProjectLead(l) PROVE TypeOK'
  <2>1. PICK at \in Occurrences : lead' = [lead EXCEPT ![l] = [receivedAt |-> at, landed |-> now]]
    BY <1>1 DEF ProjectLead
  <2>2. [receivedAt |-> at, landed |-> now] \in Lead
    BY DEF TypeOK, Lead
  <2>3. lead' \in [Leads -> Lead \cup {None}]
    BY <2>1, <2>2 DEF TypeOK
  <2> QED BY <1>1, <2>3 DEF ProjectLead, TypeOK, jobVars
<1>2. ASSUME NEW o \in Operators, BeginIncident(o) PROVE TypeOK'
  BY <1>2 DEF BeginIncident, TypeOK, jobVars
<1>3. ASSUME NEW o \in Operators, EndIncident(o) PROVE TypeOK'
  <2>1. operator[o] \in Times
    BY <1>3 DEF EndIncident, TypeOK
  <2>2. ASSUME NEW type \in Types
        PROVE  Append(trail, [type |-> type, at |-> operator[o], landed |-> now]) \in Seq(Event)
    <3>1. [type |-> type, at |-> operator[o], landed |-> now] \in Event
      BY <2>1 DEF Event, TypeOK
    <3> QED BY <3>1 DEF TypeOK
  <2>3. trail' \in Seq(Event) /\ incident' \in {"none", "open", "acknowledged", "resolved"}
    BY <1>3, <2>2 DEF EndIncident, TypeOK, Types
  <2>4. operator' \in [Operators -> Times \cup {None}]
    BY <1>3 DEF EndIncident, TypeOK
  <2> QED BY <1>3, <2>3, <2>4 DEF EndIncident, TypeOK, jobVars
<1>4. ASSUME NEW i \in Integrations, RevokeIntegration(i) PROVE TypeOK'
  BY <1>4 DEF RevokeIntegration, TypeOK, clientVars, jobVars
<1>5. ASSUME ArchiveClient PROVE TypeOK'
  BY <1>5 DEF ArchiveClient, TypeOK, clientVars, jobVars
<1>6. ASSUME NEW w \in Weeks, NEW i \in Integrations, waiting[w][i] < MaxQueued,
             waiting' = [waiting EXCEPT ![w] = [waiting[w] EXCEPT ![i] = waiting[w][i] + 1]]
      PROVE  waiting' \in [Weeks -> [Integrations -> 0..MaxQueued]]
  <2>1. waiting[w][i] + 1 \in 0..MaxQueued
    BY <1>6 DEF TypeOK
  <2>2. [waiting[w] EXCEPT ![i] = waiting[w][i] + 1] \in [Integrations -> 0..MaxQueued]
    BY <2>1 DEF TypeOK
  <2> QED BY <1>6, <2>2 DEF TypeOK
<1>7. ASSUME NEW w \in Weeks, NEW i \in Integrations, Taken(w, i)
      PROVE  waiting' \in [Weeks -> [Integrations -> 0..MaxQueued]]
  <2>1. waiting[w][i] - 1 \in 0..MaxQueued
    BY <1>7 DEF Taken, TypeOK
  <2>2. [waiting[w] EXCEPT ![i] = waiting[w][i] - 1] \in [Integrations -> 0..MaxQueued]
    BY <2>1 DEF TypeOK
  <2> QED BY <1>7, <2>2 DEF Taken, TypeOK
<1>8. ASSUME NEW w \in Weeks, Poll(w) PROVE TypeOK'
  <2>1. integrations \subseteq Integrations
    BY DEF TypeOK
  <2>2. waiting' \in [Weeks -> [Integrations -> 0..MaxQueued]]
    BY <1>6, <1>8, <2>1 DEF Poll
  <2> QED BY <1>8, <2>2 DEF Poll, TypeOK, clientVars
<1>9. ASSUME NEW g \in Workers, NEW w \in Weeks, NEW i \in Integrations, Compute(g, w, i)
      PROVE  TypeOK'
  <2>1. PICK m \in ClientPeriodMetrics(w) :
          worker' = [worker EXCEPT ![g] = [week |-> w, integration |-> i, metrics |-> m]]
    BY <1>9 DEF Compute
  <2>2. m \in Metrics
    <3>1. OpenAtEnd(w) \subseteq BOOLEAN
      BY DEF OpenAtEnd
    <3>2. PICK open \in BOOLEAN : m = [leads |-> Received(w), open |-> open, at |-> now]
      BY <2>1, <3>1 DEF ClientPeriodMetrics
    <3> QED BY <3>2 DEF Metrics, Received, TypeOK
  <2>3. worker' \in [Workers -> Report \cup {None}]
    BY <2>1, <2>2 DEF Report, TypeOK
  <2>4. waiting' \in [Weeks -> [Integrations -> 0..MaxQueued]]
    BY <1>7, <1>9 DEF Compute
  <2> QED BY <1>9, <2>3, <2>4 DEF Compute, TypeOK, clientVars
<1>10. ASSUME NEW w \in Weeks, NEW i \in Integrations, Refuse(w, i) PROVE TypeOK'
  <2>1. waiting' \in [Weeks -> [Integrations -> 0..MaxQueued]]
    BY <1>7, <1>10 DEF Refuse
  <2> QED BY <1>10, <2>1 DEF Refuse, TypeOK, clientVars
<1>11. ASSUME NEW g \in Workers, Store(g) PROVE TypeOK'
  <2>1. worker[g] \in Report
    BY <1>11 DEF Store, TypeOK
  <2>2. worker[g].week \in Weeks /\ worker[g].metrics \in Metrics
    BY <2>1 DEF Report
  <2>3. snapshot' \in [Weeks -> Metrics \cup {None}]
    BY <1>11, <2>2 DEF Store, Stored, TypeOK
  <2>4. worker' \in [Workers -> Report \cup {None}]
    BY <1>11 DEF Store, TypeOK
  <2> QED BY <1>11, <2>3, <2>4 DEF Store, TypeOK, clientVars
<1>12. ASSUME NEW g \in Workers, Lost(g) \/ Timeout(g) PROVE TypeOK'
  <2>1. worker[g] \in Report
    BY <1>12 DEF Lost, Timeout, TypeOK
  <2>2. worker[g].week \in Weeks /\ worker[g].integration \in Integrations
    BY <2>1 DEF Report
  <2>3. MayRequeue(worker[g].week, worker[g].integration)
    BY <1>12 DEF Lost, Timeout
  <2>4. waiting' \in [Weeks -> [Integrations -> 0..MaxQueued]]
    BY <1>6, <2>2, <2>3 DEF MayRequeue, TypeOK
  <2>5. faults' \in 0..MaxFaults
    BY <1>12 DEF Lost, Timeout, Fault, TypeOK
  <2>6. worker' \in [Workers -> Report \cup {None}]
    BY <1>12 DEF Lost, Timeout, TypeOK
  <2> QED BY <1>12, <2>4, <2>5, <2>6 DEF Lost, Timeout, TypeOK, clientVars
<1>13. ASSUME SlotEnds PROVE TypeOK'
  BY <1>13 DEF SlotEnds, TypeOK, clientVars
<1>14. ASSUME Tick PROVE TypeOK'
  BY <1>14 DEF Tick, TypeOK, Times, clientVars, jobVars
<1>15. ASSUME UNCHANGED vars PROVE TypeOK'
  BY <1>15 DEF vars, TypeOK, clientVars, jobVars
<1> QED BY <1>1, <1>2, <1>3, <1>4, <1>5, <1>8, <1>9, <1>10, <1>11, <1>12, <1>13, <1>14, <1>15
        DEF Next, Generate

-----------------------------------------------------------------------------
(* How the rows of the client grow, and what stays true of them.           *)

\* Event e is committed now.
Commits(e) ==
  /\ e \in Event
  /\ e.landed = now
  /\ e.at <= now
  /\ trail' = Append(trail, e)
  /\ incident' \in {"open", "acknowledged"} <=> e.type # "resolved"

Grow ==
  /\ now' \in Times /\ now <= now'
  /\ \A l \in Leads : /\ lead[l] # None => lead'[l] = lead[l]
                      /\ lead[l] = None /\ lead'[l] # None => lead'[l].landed = now
  /\ trail' = trail \/ \E e \in Event : Commits(e)

LEMMA EndIncidentCommits ==
  ASSUME TypeOK, Trail, NEW o \in Operators, EndIncident(o)
  PROVE  UNCHANGED <<incident, trail>> \/ \E e \in Event : Commits(e)
<1>1. operator[o] \in Times /\ operator[o] <= now
  BY DEF EndIncident, TypeOK, Trail
<1>2. ASSUME NEW type \in Types,
             trail' = Append(trail, [type |-> type, at |-> operator[o], landed |-> now]),
             incident' \in {"open", "acknowledged"} <=> type # "resolved"
      PROVE  \E e \in Event : Commits(e)
  <2> DEFINE e == [type |-> type, at |-> operator[o], landed |-> now]
  <2>1. e \in Event
    BY <1>1 DEF Event, TypeOK
  <2>2. Commits(e)
    BY <1>1, <1>2, <2>1 DEF Commits
  <2> QED BY <2>1, <2>2
<1>3. CASE UNCHANGED <<incident, trail>>
  BY <1>3
<1>4. CASE ~UNCHANGED <<incident, trail>>
  <2>1. \E type \in Types :
          /\ trail' = Append(trail, [type |-> type, at |-> operator[o], landed |-> now])
          /\ incident' \in {"open", "acknowledged"} <=> type # "resolved"
    BY <1>4 DEF EndIncident, Types
  <2> QED BY <1>2, <2>1
<1> QED BY <1>3, <1>4

LEMMA RowsGrow == TypeOK /\ Trail /\ [Next]_vars => Grow
<1> SUFFICES ASSUME TypeOK, Trail, [Next]_vars PROVE Grow
  OBVIOUS
<1>0. now \in Times
  BY DEF TypeOK
<1>1. ASSUME NEW l \in Leads, ProjectLead(l) PROVE Grow
  <2>1. PICK at \in Occurrences : lead' = [lead EXCEPT ![l] = [receivedAt |-> at, landed |-> now]]
    BY <1>1 DEF ProjectLead
  <2> QED BY <1>0, <1>1, <2>1 DEF ProjectLead, Grow, TypeOK, Times
<1>2. ASSUME NEW o \in Operators, EndIncident(o) PROVE Grow
  <2>1. trail' = trail \/ \E e \in Event : Commits(e)
    BY <1>2, EndIncidentCommits
  <2>2. now' = now /\ lead' = lead
    BY <1>2 DEF EndIncident
  <2> QED BY <1>0, <2>1, <2>2 DEF Grow, Times
<1>3. ASSUME Tick PROVE Grow
  BY <1>0, <1>3 DEF Tick, Grow, Times, clientVars
<1>4. ASSUME UNCHANGED <<now, lead, trail>> PROVE Grow
  BY <1>0, <1>4 DEF Grow, Times
<1> QED BY <1>1, <1>2, <1>3, <1>4
        DEF Next, Generate, BeginIncident, RevokeIntegration, ArchiveClient, Poll, Compute,
            Refuse, Store, Lost, Timeout, SlotEnds, vars, clientVars

LEMMA TrueKept ==
  ASSUME TypeOK, Grow, NEW w \in Weeks, NEW m, True(w, m)
  PROVE  True(w, m)'
<1>1. /\ m \in Metrics /\ m.at \in Times /\ m.at <= now /\ EndOf(w) <= m.at
      /\ now \in Times /\ EndOf(w) \in Nat /\ EndOf(w) <= now
      /\ now' \in Times /\ now <= now' /\ m.at <= now'
  BY WeekFacts DEF True, Metrics, TypeOK, Times, Grow
<1>2. LeadsTrue(w, m)'
  <2>1. Received(w) \subseteq Received(w)'
    BY DEF Received, Grow
  <2>2. ASSUME NEW l \in Received(w)', lead'[l].landed < m.at PROVE l \in m.leads
    <3>1. CASE lead[l] = None
      <4>1. lead'[l].landed = now
        BY <2>2, <3>1 DEF Received, Grow
      <4> QED BY <1>1, <2>2, <4>1 DEF Times
    <3>2. CASE lead[l] # None
      BY <2>2, <3>2 DEF Received, Grow, True, LeadsTrue
    <3> QED BY <3>1, <3>2
  <2> QED BY <2>1, <2>2 DEF True, LeadsTrue
<1>3. OpenTrue(w, m)'
  <2>1. CASE trail' = trail
    BY <2>1 DEF True, OpenTrue, Crossed, WasOpen, EndOf
  <2>2. ASSUME NEW e \in Event, Commits(e) PROVE OpenTrue(w, m)'
    <3>1. /\ DOMAIN trail = 1..Len(trail) /\ Len(trail) \in Nat
          /\ DOMAIN trail' = 1..(Len(trail) + 1)
          /\ trail'[Len(trail) + 1] = e
          /\ \A n \in DOMAIN trail : trail'[n] = trail[n]
      BY <2>2 DEF Commits, TypeOK
    <3>2. e.landed >= EndOf(w)
      BY <1>1, <2>2 DEF Commits, Times
    <3>3. EndOf(w)' = EndOf(w)
      BY DEF EndOf
    <3>4. Crossed(w) => Crossed(w)'
      BY <3>1, <3>3 DEF Crossed
    <3>5. WasOpen(w)' <=> WasOpen(w)
      <4>1. ASSUME WasOpen(w) PROVE WasOpen(w)'
        <5>1. PICK n \in DOMAIN trail :
                /\ trail[n].landed < EndOf(w)
                /\ trail[n].type # "resolved"
                /\ \A k \in DOMAIN trail : k > n => trail[k].landed >= EndOf(w)
          BY <4>1 DEF WasOpen
        <5>2. \A k \in DOMAIN trail' : k \in DOMAIN trail \/ trail'[k] = e
          BY <3>1
        <5> QED BY <3>1, <3>2, <3>3, <5>1, <5>2 DEF WasOpen
      <4>2. ASSUME WasOpen(w)' PROVE WasOpen(w)
        <5>1. PICK n \in DOMAIN trail' :
                /\ trail'[n].landed < EndOf(w)
                /\ trail'[n].type # "resolved"
                /\ \A k \in DOMAIN trail' : k > n => trail'[k].landed >= EndOf(w)
          BY <3>3, <4>2 DEF WasOpen
        <5>2. n # Len(trail) + 1
          BY <1>1, <2>2, <3>1, <3>2, <5>1 DEF Event, Times
        <5> QED BY <3>1, <5>1, <5>2 DEF WasOpen
      <4> QED BY <4>1, <4>2
    <3>6. WasOpen(w)' = WasOpen(w)
      BY <3>5 DEF WasOpen
    <3> QED BY <3>4, <3>6 DEF True, OpenTrue
  <2> QED BY <2>1, <2>2 DEF Grow
<1> QED BY <1>1, <1>2, <1>3 DEF True, EndOf

-----------------------------------------------------------------------------
(* What an execution computes.                                             *)

LEMMA OpenComputed ==
  ASSUME TypeOK, Trail, NEW w \in Weeks, ~Crossed(w), NEW open \in OpenAtEnd(w)
  PROVE  open = WasOpen(w)
<1> DEFINE before == {n \in DOMAIN trail : trail[n].at < EndOf(w)}
           latest == {n \in before : \A m \in before : trail[m].at <= trail[n].at}
<1>1. /\ EndOf(w) \in Nat
      /\ DOMAIN trail \subseteq Nat
      /\ \A n \in DOMAIN trail : trail[n].at \in Nat /\ trail[n].landed \in Nat
  <2>1. EndOf(w) \in Nat
    BY WeekFacts
  <2>2. DOMAIN trail = 1..Len(trail) /\ \A n \in DOMAIN trail : trail[n] \in Event
    BY DEF TypeOK
  <2>3. \A e \in Event : e.at \in Nat /\ e.landed \in Nat
    BY DEF Event, Times
  <2> QED BY <2>1, <2>2, <2>3
<1>2. \A n \in DOMAIN trail : n \in before <=> trail[n].landed < EndOf(w)
  BY <1>1 DEF Crossed, Trail
<1>3. \A m, n \in DOMAIN trail : m < n => trail[m].at < trail[n].at
  BY <1>1 DEF Crossed
<1>4. ASSUME NEW n \in latest, NEW m \in DOMAIN trail, m > n PROVE m \notin before
  BY <1>1, <1>3, <1>4
<1>5. ASSUME NEW n \in before, \A m \in DOMAIN trail : m > n => m \notin before
      PROVE  n \in latest
  <2>1. \A m \in before : m = n \/ m < n
    BY <1>1, <1>5
  <2> QED BY <1>1, <1>3, <2>1
<1>6. CASE latest = {}
  <2>1. open = FALSE
    BY <1>6 DEF OpenAtEnd
  <2>2. ~WasOpen(w)
    BY <1>1, <1>2, <1>5, <1>6 DEF WasOpen
  <2>3. WasOpen(w) = FALSE
    BY <2>2 DEF WasOpen
  <2> QED BY <2>1, <2>3
<1>7. CASE latest # {}
  <2>1. PICK n \in latest : open = (trail[n].type # "resolved")
    BY <1>7 DEF OpenAtEnd
  <2>2. \A m \in DOMAIN trail : m > n => trail[m].landed >= EndOf(w)
    BY <1>1, <1>2, <1>4
  <2>3. ASSUME WasOpen(w) PROVE trail[n].type # "resolved"
    <3>1. PICK k \in DOMAIN trail :
            /\ trail[k].landed < EndOf(w)
            /\ trail[k].type # "resolved"
            /\ \A m \in DOMAIN trail : m > k => trail[m].landed >= EndOf(w)
      BY <2>3 DEF WasOpen
    <3>2. k = n
      BY <1>1, <1>2, <2>2, <3>1
    <3> QED BY <3>1, <3>2
  <2>4. ASSUME trail[n].type # "resolved" PROVE WasOpen(w)
    BY <1>2, <2>2, <2>4 DEF WasOpen
  <2>5. WasOpen(w) \in BOOLEAN
    BY DEF WasOpen
  <2> QED BY <2>1, <2>3, <2>4, <2>5
<1> QED BY <1>6, <1>7

LEMMA ComputedTrue ==
  ASSUME TypeOK, Trail, NEW w \in Weeks, EndOf(w) <= now, NEW m \in ClientPeriodMetrics(w)
  PROVE  True(w, m)
<1>1. PICK open \in OpenAtEnd(w) : m = [leads |-> Received(w), open |-> open, at |-> now]
  BY DEF ClientPeriodMetrics
<1>2. open \in BOOLEAN
  BY DEF OpenAtEnd
<1>3. m \in Metrics
  BY <1>1, <1>2 DEF Metrics, Received, TypeOK
<1>4. OpenTrue(w, m)
  BY <1>1, OpenComputed DEF OpenTrue
<1>5. LeadsTrue(w, m)
  BY <1>1 DEF LeadsTrue
<1>6. m.at <= now
  BY <1>1 DEF TypeOK, Times
<1> QED BY <1>1, <1>3, <1>4, <1>5, <1>6 DEF True

-----------------------------------------------------------------------------
(* The invariant.                                                          *)

LEMMA TrailStep == TypeOK /\ Trail /\ [Next]_vars => Trail'
<1> SUFFICES ASSUME TypeOK, Trail, [Next]_vars PROVE Trail'
  OBVIOUS
<1>0. now \in Times /\ now' \in Times /\ now <= now'
  BY RowsGrow DEF Grow, TypeOK
<1>1. ASSUME trail' = trail, incident' = incident,
             \A o \in Operators : operator'[o] # None =>
               operator'[o] = operator[o] \/ operator'[o] = now
      PROVE  Trail'
  <2>1. \A o \in Operators : operator'[o] # None => operator'[o] <= now'
    BY <1>0, <1>1 DEF Trail, TypeOK, Times
  <2>2. \A n \in DOMAIN trail : trail[n].landed \in Nat
    <3>1. \A n \in DOMAIN trail : trail[n] \in Event
      BY DEF TypeOK
    <3>2. \A e \in Event : e.landed \in Nat
      BY DEF Event, Times
    <3> QED BY <3>1, <3>2
  <2>3. \A n \in DOMAIN trail : trail[n].landed <= now'
    BY <1>0, <2>2 DEF Trail, Times
  <2> QED BY <1>1, <2>1, <2>3 DEF Trail
<1>2. ASSUME NEW o \in Operators, EndIncident(o) PROVE Trail'
  <2>1. \A q \in Operators : operator'[q] # None => operator'[q] = operator[q]
    BY <1>2 DEF EndIncident, TypeOK
  <2>2. CASE UNCHANGED <<incident, trail>>
    BY <1>1, <2>1, <2>2
  <2>3. ASSUME NEW e \in Event, Commits(e) PROVE Trail'
    <3>1. /\ DOMAIN trail = 1..Len(trail) /\ Len(trail) \in Nat
          /\ DOMAIN trail' = 1..(Len(trail) + 1)
          /\ Len(trail') = Len(trail) + 1
          /\ trail'[Len(trail) + 1] = e
          /\ \A n \in DOMAIN trail : trail'[n] = trail[n]
      BY <2>3 DEF Commits, TypeOK
    <3>2. now' = now /\ e.landed = now /\ e.at <= now
      BY <1>2, <2>3 DEF EndIncident, Commits
    <3>3. \A n \in DOMAIN trail' : trail'[n].at <= trail'[n].landed /\ trail'[n].landed <= now'
      BY <1>0, <3>1, <3>2 DEF Trail, Times
    <3>4. \A m, n \in DOMAIN trail' : m < n => trail'[m].landed <= trail'[n].landed
      BY <3>1, <3>2 DEF Trail
    <3>5. \A q \in Operators : operator'[q] # None => operator'[q] <= now'
      BY <2>1, <3>2 DEF Trail
    <3>6. incident' \in {"open", "acknowledged"} <=>
            (Len(trail') > 0 /\ trail'[Len(trail')].type # "resolved")
      BY <2>3, <3>1 DEF Commits
    <3> QED BY <3>3, <3>4, <3>5, <3>6 DEF Trail
  <2> QED BY <1>2, <2>2, <2>3, EndIncidentCommits
<1>3. ASSUME NEW o \in Operators, BeginIncident(o) PROVE Trail'
  BY <1>1, <1>3 DEF BeginIncident, TypeOK
<1>4. ASSUME UNCHANGED <<incident, trail, operator>> PROVE Trail'
  BY <1>1, <1>4
<1> QED BY <1>2, <1>3, <1>4
        DEF Next, Generate, ProjectLead, RevokeIntegration, ArchiveClient, Poll, Compute,
            Refuse, Store, Lost, Timeout, SlotEnds, Tick, vars, clientVars

\* A job appears for a week that has ended, or for that of an execution.
LEMMA WaitingStep == IInv /\ [Next]_vars => Waiting'
<1> SUFFICES ASSUME IInv, [Next]_vars PROVE Waiting'
  OBVIOUS
<1>0. /\ TypeOK
      /\ now \in Times /\ now' \in Times /\ now <= now'
      /\ waiting \in [Weeks -> [Integrations -> 0..MaxQueued]]
  BY RowsGrow DEF IInv, Grow, TypeOK
<1>1. ASSUME NEW v \in Weeks, EndOf(v) <= now,
             \A w \in Weeks, i \in Integrations :
               w # v => waiting'[w][i] = waiting[w][i]
      PROVE  Waiting'
  <2>1. ASSUME NEW w \in Weeks, NEW i \in Integrations, waiting'[w][i] > 0
        PROVE  EndOf(w) <= now'
    <3>1. EndOf(w) <= now
      BY <1>1, <2>1 DEF IInv, Waiting
    <3>2. EndOf(w) \in Nat
      BY WeekFacts
    <3> QED BY <1>0, <3>1, <3>2 DEF Times
  <2> QED BY <2>1 DEF Waiting, EndOf
<1>2. ASSUME \A w \in Weeks, i \in Integrations :
               waiting'[w][i] > 0 => waiting[w][i] > 0
      PROVE  Waiting'
  <2>1. ASSUME NEW w \in Weeks, NEW i \in Integrations, waiting'[w][i] > 0
        PROVE  EndOf(w) <= now'
    <3>1. EndOf(w) <= now
      BY <1>2, <2>1 DEF IInv, Waiting
    <3>2. EndOf(w) \in Nat
      BY WeekFacts
    <3> QED BY <1>0, <3>1, <3>2 DEF Times
  <2> QED BY <2>1 DEF Waiting, EndOf
<1>3. ASSUME NEW w \in Weeks, Poll(w) PROVE Waiting'
  <2>1. EndOf(w) <= now
    BY <1>0, <1>3, WeekFacts DEF Poll, DueWeeks
  <2>2. \A v \in Weeks : v # w => waiting'[v] = waiting[v]
    BY <1>0, <1>3 DEF Poll
  <2> QED BY <1>1, <2>1, <2>2
<1>4. ASSUME NEW w \in Weeks, NEW i \in Integrations, Taken(w, i) PROVE Waiting'
  <2>1. \A v \in Weeks : v # w => waiting'[v] = waiting[v]
    BY <1>0, <1>4 DEF Taken
  <2>2. EndOf(w) <= now
    BY <1>4 DEF Taken, IInv, Waiting
  <2> QED BY <1>1, <2>1, <2>2
<1>5. ASSUME NEW g \in Workers, Lost(g) \/ Timeout(g) PROVE Waiting'
  <2>1. worker[g] \in Report /\ True(worker[g].week, worker[g].metrics)
    BY <1>5 DEF Lost, Timeout, IInv, TypeOK, Computed
  <2>2. PICK w \in Weeks, i \in Integrations, m \in Metrics :
          /\ worker[g].week = w /\ worker[g].integration = i
          /\ True(w, m) /\ MayRequeue(w, i)
    BY <1>5, <2>1 DEF Report, Lost, Timeout
  <2>3. EndOf(w) <= now
    BY <1>0, <2>2, WeekFacts DEF True, Metrics, Times
  <2>4. \A v \in Weeks : v # w => waiting'[v] = waiting[v]
    BY <1>0, <2>2 DEF MayRequeue
  <2> QED BY <1>1, <2>3, <2>4
<1>6. ASSUME UNCHANGED waiting PROVE Waiting'
  BY <1>2, <1>6
<1> QED BY <1>3, <1>4, <1>5, <1>6
        DEF Next, Generate, ProjectLead, BeginIncident, EndIncident, RevokeIntegration,
            ArchiveClient, Compute, Refuse, Store, SlotEnds, Tick, vars, jobVars

LEMMA ComputedStep == IInv /\ [Next]_vars => Computed'
<1> SUFFICES ASSUME IInv, [Next]_vars PROVE Computed'
  OBVIOUS
<1>0. TypeOK /\ Grow
  BY RowsGrow DEF IInv
<1>1. ASSUME NEW w \in Weeks, snapshot[w] # None PROVE True(w, snapshot[w])'
                                                     \/ snapshot'[w] # snapshot[w]
  <2>1. PICK m : m = snapshot[w]
    OBVIOUS
  <2>2. True(w, m)'
    BY <1>0, <1>1, <2>1, TrueKept DEF IInv, Computed
  <2> QED BY <2>1, <2>2
<1>2. ASSUME NEW g \in Workers, worker[g] # None
      PROVE  /\ worker[g].week \in Weeks
             /\ \A m : m = worker[g].metrics => True(worker[g].week, m)
  BY <1>0, <1>2 DEF IInv, Computed, TypeOK, Report
<1>3. \A w \in Weeks : snapshot'[w] # None =>
        \/ snapshot'[w] = snapshot[w]
        \/ \E g \in Workers : /\ worker[g] # None /\ worker[g].week = w
                              /\ snapshot'[w] = worker[g].metrics
  BY <1>0 DEF TypeOK, Next, Generate, ProjectLead, BeginIncident, EndIncident,
              RevokeIntegration, ArchiveClient, Poll, Compute, Refuse, Store, Stored, Lost,
              Timeout, SlotEnds, Tick, vars, jobVars
<1>4. \A g \in Workers : worker'[g] # None =>
        \/ worker'[g] = worker[g]
        \/ \E w \in Weeks, i \in Integrations : Compute(g, w, i)
  BY <1>0 DEF TypeOK, Next, Generate, ProjectLead, BeginIncident, EndIncident,
              RevokeIntegration, ArchiveClient, Poll, Compute, Refuse, Store, Lost,
              Timeout, SlotEnds, Tick, vars, jobVars
<1>5. ASSUME NEW w \in Weeks, NEW m, True(w, m), NEW n, n = m PROVE True(w, n)'
  BY <1>0, <1>5, TrueKept
<1>6. ASSUME NEW w \in Weeks, snapshot'[w] # None
      PROVE  \E m : m = snapshot'[w] /\ True(w, m)
  BY <1>2, <1>3, <1>6 DEF IInv, Computed
<1>7. ASSUME NEW g \in Workers, worker'[g] # None
      PROVE  \E w \in Weeks :
               \E m : /\ w = worker'[g].week /\ m = worker'[g].metrics
                      /\ True(w, m)
  <2>1. CASE worker'[g] = worker[g]
    BY <1>2, <1>7, <2>1
  <2>2. ASSUME NEW w \in Weeks, NEW i \in Integrations, Compute(g, w, i)
        PROVE  \E m : /\ w = worker'[g].week /\ m = worker'[g].metrics
                      /\ True(w, m)
    <3>1. PICK m \in ClientPeriodMetrics(w) :
            worker'[g] = [week |-> w, integration |-> i, metrics |-> m]
      BY <1>0, <2>2 DEF Compute, TypeOK
    <3>2. EndOf(w) <= now
      BY <2>2 DEF Compute, Taken, IInv, Waiting
    <3>3. True(w, m)
      BY <1>0, <3>2, ComputedTrue DEF IInv
    <3> QED BY <3>1, <3>3
  <2> QED BY <1>4, <1>7, <2>1, <2>2
<1>8. \A w \in Weeks : snapshot'[w] # None => True(w, snapshot[w])'
  <2> SUFFICES ASSUME NEW w \in Weeks, snapshot'[w] # None PROVE True(w, snapshot[w])'
    OBVIOUS
  <2>1. PICK m : m = snapshot'[w] /\ True(w, m)
    BY <1>6
  <2>2. True(w, m)'
    BY <1>5, <2>1
  <2> QED BY <2>1, <2>2
<1>9. \A g \in Workers : worker'[g] # None => True(worker[g].week, worker[g].metrics)'
  <2> SUFFICES ASSUME NEW g \in Workers, worker'[g] # None
               PROVE  True(worker[g].week, worker[g].metrics)'
    OBVIOUS
  <2>0. PICK w \in Weeks :
          \E m : w = worker'[g].week /\ m = worker'[g].metrics /\ True(w, m)
    BY <1>7
  <2>1. PICK m : w = worker'[g].week /\ m = worker'[g].metrics /\ True(w, m)
    BY <2>0
  <2>2. True(w, m)'
    BY <1>5, <2>1
  <2> QED BY <2>1, <2>2
<1> QED BY <1>8, <1>9 DEF Computed

LEMMA Initially == Init => IInv
<1> SUFFICES ASSUME Init PROVE IInv
  OBVIOUS
<1>1. TypeOK
  BY DEF Init, TypeOK, Times
<1>2. Trail
  BY DEF Init, Trail
<1>3. Waiting
  BY DEF Init, Waiting
<1>4. Computed
  BY DEF Init, Computed
<1> QED BY <1>1, <1>2, <1>3, <1>4 DEF IInv

LEMMA Invariance == Spec => []IInv
<1>1. IInv /\ [Next]_vars => IInv'
  BY TypeStep, TrailStep, WaitingStep, ComputedStep DEF IInv
<1> QED BY Initially, <1>1, PTL DEF Spec

\* Every variable keeps its type: rows, jobs and computed metrics are those of the
\* tables and payloads.
THEOREM TypeCorrect == Spec => []TypeOK
<1>1. IInv => TypeOK
  BY DEF IInv
<1> QED BY <1>1, Invariance, PTL

\* A snapshot differs from the dashboard of its week by late leads only, whenever it
\* is stored and however many executions compute it.
THEOREM ReportsCountTheirWeek == Spec => []LeadsReported
<1>1. IInv => LeadsReported
  <2> SUFFICES ASSUME IInv, NEW w \in Weeks, snapshot[w] # None
               PROVE  /\ snapshot[w].leads \subseteq Dashboard(w).leads
                      /\ \A l \in Dashboard(w).leads :
                           lead[l].landed < snapshot[w].at => l \in snapshot[w].leads
    BY DEF LeadsReported
  <2>1. Dashboard(w).leads = Received(w)
    BY DEF Dashboard, Received
  <2> QED BY <2>1 DEF IInv, Computed, True, LeadsTrue
<1> QED BY <1>1, Invariance, PTL

\* Unless transactions crossed, a snapshot has the state of the incident when its week
\* ended, and the dashboard shows the same until something happens to the incident.
THEOREM ReportsStateAtWeekEnd == Spec => []OpenAtWeekEnd
<1>1. IInv => OpenAtWeekEnd
  <2> SUFFICES ASSUME IInv, NEW w \in Weeks, snapshot[w] # None, ~Crossed(w)
               PROVE  /\ snapshot[w].open = WasOpen(w)
                      /\ (\A n \in DOMAIN trail : trail[n].landed < EndOf(w))
                           => snapshot[w].open = Dashboard(w).open
    BY DEF OpenAtWeekEnd
  <2>1. snapshot[w].open = WasOpen(w)
    BY DEF IInv, Computed, True, OpenTrue
  <2>2. ASSUME \A n \in DOMAIN trail : trail[n].landed < EndOf(w)
        PROVE  WasOpen(w) = Dashboard(w).open
    <3>1. /\ DOMAIN trail = 1..Len(trail) /\ Len(trail) \in Nat
          /\ \A n \in DOMAIN trail : trail[n] \in Event
      BY DEF IInv, TypeOK
    <3>2. EndOf(w) \in Nat /\ \A e \in Event : e.at \in Nat /\ e.landed \in Nat
      BY WeekFacts DEF Event, Times
    <3>3. WasOpen(w) <=> (Len(trail) > 0 /\ trail[Len(trail)].type # "resolved")
      BY <2>2, <3>1, <3>2 DEF WasOpen
    <3>4. Len(trail) > 0 => trail[1].at < EndOf(w)
      BY <2>2, <3>1, <3>2 DEF IInv, Trail
    <3>5. Dashboard(w).open <=> WasOpen(w)
      BY <3>3, <3>4 DEF Dashboard, IInv, Trail
    <3> QED BY <3>5 DEF Dashboard, WasOpen
  <2> QED BY <2>1, <2>2
<1> QED BY <1>1, Invariance, PTL
==============================================================================

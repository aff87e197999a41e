------------------------------- MODULE Listings -------------------------------
(***************************************************************************)
(* The lists of the read API - clients, leads, approvals, incidents,       *)
(* workflow runs, reports - and a reader that follows nextCursor from page *)
(* to page while rows are added and changed.  Every list is sorted by a    *)
(* timestamp and the id, descending, and its cursor is the timestamp and   *)
(* the id of the last row of the page.                                     *)
(*                                                                         *)
(* The database keeps microseconds, a JavaScript Date milliseconds: a      *)
(* tick is a microsecond and TicksPerMs of them a millisecond.             *)
(***************************************************************************)
EXTENDS Naturals, FiniteSets

CONSTANTS
  Lists,       \* the lists read: "clients", "leads", "approvals", "incidents", "runs", "reports"
  Ids,         \* ids of the rows: numbers, in the order of the uuids
  TicksPerMs,  \* at least 1; 1000 in the real system
  PageSize,    \* limit, at least 1
  MaxTime,     \* bound on the clock
  None         \* no cursor

VARIABLES
  list,     \* the list that is read
  clock,    \* now(), in ticks
  rows,     \* rows of the list: their sort key, and whether the filter accepts them
  cursor,   \* the reader's nextCursor
  reader,   \* "idle", "reading", "done"
  listed,   \* ids it has been given
  expected  \* ids that were there when it began and have not changed since

vars == <<list, clock, rows, cursor, reader, listed, expected>>

TypeOK ==
  /\ list \in Lists
  /\ clock \in 0..MaxTime
  /\ rows \subseteq [at : 0..MaxTime, id : Ids, matches : BOOLEAN]
  /\ cursor \in [at : 0..MaxTime, id : Ids] \cup {None}
  /\ reader \in {"idle", "reading", "done"}
  /\ listed \subseteq Ids
  /\ expected \subseteq Ids

Init ==
  /\ list \in Lists
  /\ clock = 0
  /\ rows = {}
  /\ cursor = None
  /\ reader = "idle"
  /\ listed = {}
  /\ expected = {}

IdsOf(S) == {r.id : r \in S}

-----------------------------------------------------------------------------
(* One page.                                                               *)

Before(r, s) == r.at < s.at \/ (r.at = s.at /\ r.id < s.id)

\* What toISOString keeps of a timestamp.
ToIsoString(at) == at - (at % TicksPerMs)

\* WHERE (key, id) < cursor ORDER BY key DESC, id DESC LIMIT limit + 1, of which the
\* first limit are the page.
PageOf(S, c) ==
  LET rest == IF c = None THEN S ELSE {r \in S : Before(r, c)}
      page == {r \in rest : Cardinality({s \in rest : Before(r, s)}) < PageSize}
      last == CHOOSE r \in page : \A s \in page : ~Before(s, r)
  IN [items |-> page,
      nextCursor |-> IF page = rest THEN None ELSE [at |-> ToIsoString(last.at), id |-> last.id]]

Matching == {r \in rows : r.matches}

\* By createdAt; no filter.
ListAccessibleClients(c) == PageOf(rows, c)
\* By receivedAt; filters on status, score, source and date.
ListLeads(c) == PageOf(Matching, c)
\* By updatedAt; filter on status.
ListApprovalsForTenant(c) == PageOf(Matching, c)
\* By lastSeenAt; filters on status, severity and date.
ListIncidentsForTenant(c) == PageOf(Matching, c)
\* By createdAt; filters on status and date.
ListWorkflowRunsForTenant(c) == PageOf(Matching, c)
\* By periodStart; a filter on the date.
ListReportSnapshotsForTenant(c) == PageOf(Matching, c)

Page(c) ==
  CASE list = "clients"   -> ListAccessibleClients(c)
    [] list = "leads"     -> ListLeads(c)
    [] list = "approvals" -> ListApprovalsForTenant(c)
    [] list = "incidents" -> ListIncidentsForTenant(c)
    [] list = "runs"      -> ListWorkflowRunsForTenant(c)
    [] list = "reports"   -> ListReportSnapshotsForTenant(c)

-----------------------------------------------------------------------------
(* The rows change, and the reader reads.                                  *)

Tick ==
  /\ clock < MaxTime
  /\ clock' = clock + 1
  /\ UNCHANGED <<list, rows, cursor, reader, listed, expected>>

\* A period starts with a Monday, so on a whole millisecond.
Stamped == IF list = "reports" THEN clock % TicksPerMs = 0 ELSE TRUE

\* A lead is stamped with its event's occurredAt, which may be long past.
Insert(id) ==
  /\ id \notin IdsOf(rows)
  /\ Stamped
  /\ \E at \in (IF list = "leads" THEN 0..clock ELSE {clock}) :
       rows' = rows \cup {[at |-> at, id |-> id, matches |-> TRUE]}
  /\ UNCHANGED <<list, clock, cursor, reader, listed, expected>>

\* One transaction stamps updatedAt (the expiry of a batch of approvals, a decision)
\* or lastSeenAt (an occurrence), and may move rows in or out of the filter.
Update(S) ==
  /\ S # {}
  /\ list \in {"approvals", "incidents"}
  /\ list = "incidents" => Cardinality(S) = 1
  /\ \E matches \in BOOLEAN :
       rows' = (rows \ S) \cup {[at |-> clock, id |-> r.id, matches |-> matches] : r \in S}
  /\ expected' = expected \ IdsOf(S)
  /\ UNCHANGED <<list, clock, cursor, reader, listed>>

\* A lead's or a run's status changes, and not its sort key.
Filtered(r) ==
  /\ list \in {"leads", "runs"}
  /\ rows' = (rows \ {r}) \cup {[r EXCEPT !.matches = ~@]}
  /\ expected' = expected \ {r.id}
  /\ UNCHANGED <<list, clock, cursor, reader, listed>>

FirstPage ==
  /\ reader = "idle"
  /\ expected' = IdsOf(Matching)
  /\ listed' = IdsOf(Page(None).items)
  /\ cursor' = Page(None).nextCursor
  /\ reader' = IF Page(None).nextCursor = None THEN "done" ELSE "reading"
  /\ UNCHANGED <<list, clock, rows>>

NextPage ==
  /\ reader = "reading"
  /\ listed' = listed \cup IdsOf(Page(cursor).items)
  /\ cursor' = Page(cursor).nextCursor
  /\ reader' = IF Page(cursor).nextCursor = None THEN "done" ELSE "reading"
  /\ UNCHANGED <<list, clock, rows, expected>>

Next ==
  \/ Tick
  \/ \E id \in Ids : Insert(id)
  \/ \E S \in SUBSET rows : Update(S)
  \/ \E r \in rows : Filtered(r)
  \/ FirstPage
  \/ NextPage

Spec == Init /\ [][Next]_vars

-----------------------------------------------------------------------------
(* Properties.                                                             *)

\* "paginates deterministically": the pages of one reading, taken together, are all
\* the rows of the list, apart from those that changed meanwhile.
PagesCoverTheList == reader = "done" => expected \subseteq listed
===============================================================================

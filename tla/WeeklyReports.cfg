\* One lead, two overlapping transactions on the incident, one execution of the
\* job at a time, two weeks that end.
CONSTANTS
  l1 = l1
  o1 = o1
  o2 = o2
  g1 = g1
  Leads = {l1}
  Operators = {o1, o2}
  Workers = {g1}
  Integrations = {1}
  Occurrences = {1}
  WeekLength = 1
  MaxTime = 2
  MaxEvents = 2
  MaxQueued = 1
  MaxFaults = 1
  None = None
SPECIFICATION Spec
INVARIANTS
  LeadsReported
  OpenAtWeekEnd
PROPERTIES
  LastWeekReported
CHECK_DEADLOCK FALSE

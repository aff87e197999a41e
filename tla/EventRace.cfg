\* Two events of one workflow run in any order, or one event and its replay, with two
\* overlapping executions.
SPECIFICATION Spec
CONSTANTS
  e1 = e1
  e2 = e2
  r1 = r1
  m1 = m1
  m2 = m2
  w1 = w1
  w2 = w2
  h1 = h1
  h2 = h2
  None = None
  Events = {e1, e2}
  Runs = {r1}
  Kind <- MCKindRace
  RunOf <- MCRunRace
  Messages = {m1, m2}
  Dispatchers = {w1}
  IdOf <- MCOne
  Executions = {h1, h2}
  MaxAttempts = 1
  RetryLimit = 1
  BatchSize = 2
  MaxDay = 1
  MaxFaults = 1
SYMMETRY MCSymmetry
INVARIANTS
  AppliedOnce
  RunExplained
  CompletedIsSettled
PROPERTIES
  ImplementsJournal
CHECK_DEADLOCK FALSE

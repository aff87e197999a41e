\* Events without a projector, two dispatchers with one worker id, two days.
SPECIFICATION Spec
CONSTANTS
  e1 = e1
  e2 = e2
  r1 = r1
  m1 = m1
  m2 = m2
  w1 = w1
  w2 = w2
  h1 = h1
  h2 = h2
  None = None
  Events = {e1, e2}
  Runs = {r1}
  Kind <- MCKindOdd
  RunOf <- MCRunOdd
  Messages = {m1}
  Dispatchers = {w1, w2}
  IdOf <- MCShared
  Executions = {h1}
  MaxAttempts = 2
  RetryLimit = 0
  BatchSize = 1
  MaxDay = 2
  MaxFaults = 1
INVARIANTS
  EventCarried
PROPERTIES
  EventSettles
CHECK_DEADLOCK FALSE

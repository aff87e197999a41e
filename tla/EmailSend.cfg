\* One idempotency key, three calls (two alike), two handlers in two processes.
CONSTANTS
  k1 = k1
  c1 = c1
  c2 = c2
  c3 = c3
  h1 = h1
  h2 = h2
  w1 = w1
  w2 = w2
  Keys = {k1}
  Callers = {c1, c2, c3}
  KeyOf <- MCKeyOf
  ContentOf <- MCContentOf
  Handlers = {h1, h2}
  WorkerOf <- MCWorkerOf
  MaxAttempts = 2
  MaxQueued = 1
  MaxFaults = 2
  None = None
SPECIFICATION Spec
INVARIANTS
  AskedIsSent
  VerdictExplained
PROPERTIES
  EmailsImplementTable
  EmailSettles
CHECK_DEADLOCK FALSE

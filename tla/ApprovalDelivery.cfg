\* Three executions, two of which share a worker id.
SPECIFICATION Spec
CONSTANTS
  d1 = d1
  h1 = h1
  h2 = h2
  h3 = h3
  Deliveries = {d1}
  Handlers = {h1, h2, h3}
  WorkerOf <- MCWorkerOf
  MaxAttempts = 2
  MaxQueued = 1
  MaxFaults = 2
  None = None
INVARIANTS
  AttemptsAccounted
  DuplicatesExplained
PROPERTIES
  ImplementsTable
  MarksOwnClaim
  DeliverySettles
CHECK_DEADLOCK FALSE

\* Two jobs of one name that fail for good with two errors; one is tried twice.
SPECIFICATION Spec
CONSTANTS
  j1 = j1
  j2 = j2
  rejected = rejected
  disabled = disabled
  outage = outage
  None = None
  Jobs = {j1, j2}
  Errors = {rejected, disabled}
  Permanent = {rejected, disabled}
  Fingerprints = {rejected, disabled}
  FingerprintOf <- MCFingerprintOf
  Executions = {x1, x2}
  RetryLimit <- MCRetryLimit
  IncidentRetryLimit = 1
INVARIANTS
  EventsExplain
  CountedOnce
  CompletedIsRecorded
PROPERTIES
  ImplementsRegister
  EscalatedIsRecorded
CHECK_DEADLOCK FALSE

\* One job that exhausts its retries with transient errors.
SPECIFICATION Spec
CONSTANTS
  j1 = j1
  j2 = j2
  rejected = rejected
  disabled = disabled
  outage = outage
  None = None
  Jobs = {j1}
  Errors = {rejected, outage}
  Permanent = {rejected}
  Fingerprints = {rejected, outage}
  FingerprintOf <- MCFingerprintOf
  Executions = {x1, x2}
  RetryLimit <- MCRetryLimitTwo
  IncidentRetryLimit = 1
INVARIANT ExhaustionEscalates
CHECK_DEADLOCK FALSE

\* One approval, two racing requests and the expiry job, over a clock that passes
\* the deadline.  Nothing is left to do once the clock is at its bound and a revoked
\* integration has no approval; TransactionsEnd is what rules out a lock cycle.
SPECIFICATION Spec
CONSTANTS
  Approvals = {a1}
  Requests = {r1, r2}
  ExpireJobs = {j1}
  ExpectedVersions <- MCExpectedVersions
  TTL = 1
  MaxTime = 2
  MaxFaults = 1
  None = None
INVARIANTS
  SingleOutcome
  TokenSpentByItsDecision
  DeadlinesRespected
PROPERTIES
  ImplementsOutcome
  OverdueApprovalCloses
  TransactionsEnd
CHECK_DEADLOCK FALSE

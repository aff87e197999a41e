\* One lead that arrives twice, two verdicts of workflows, and two executions of its job.
SPECIFICATION Spec
CONSTANTS
  l1 = l1
  a1 = a1
  a2 = a2
  v1 = v1
  v2 = v2
  x1 = x1
  x2 = x2
  None = None
  NoContact = NoContact
  Leads = {l1}
  Arrivals = {a1, a2}
  Verdicts = {v1, v2}
  LeadOf <- MCLeadOf
  Contacts = {Ada, Grace}
  Executions = {x1, x2}
  RetryLimit = 2
INVARIANTS
  HistoryExplains
  OpinionShows
PROPERTIES
  ImplementsLifecycle
  LeadIsDecided
CHECK_DEADLOCK FALSE

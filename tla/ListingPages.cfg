\* Three approvals, pages of one, two microseconds to a millisecond.
CONSTANTS
  Lists = {"approvals"}
  Ids <- MCIds
  TicksPerMs = 2
  PageSize = 1
  MaxTime = 3
  None = None
SPECIFICATION Spec
INVARIANTS
  PagesCoverTheList
CHECK_DEADLOCK FALSE

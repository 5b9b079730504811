CONSTANTS
  j1 = j1
  j2 = j2
  Jobs = {j1, j2}
  Training = {j1, j2}
  NoJob = NoJob
  RecentLimit = 1
  MaxUnread = 1
SYMMETRY MCSymmetry
SPECIFICATION Spec
INVARIANT ControlFollowsRequest
CHECK_DEADLOCK FALSE

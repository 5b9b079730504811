CONSTANTS
  j1 = j1
  j2 = j2
  Jobs = {j1, j2}
  Training = {j1}
  NoJob = NoJob
  RecentLimit = 1
  MaxUnread = 1
SPECIFICATION FairSpec
INVARIANTS OneJobAtATime TimerIsTheActiveJobs QueueIsServed RecordsAreTrue
PROPERTY CancelledJobsEnd
CHECK_DEADLOCK FALSE

CONSTANTS
  MaxLoads = 3
  MaxPlies = 2
  MaxTarget = 2
  PoolSize = 2
  Computer = {{}, {1}, {0, 1}}
  \* A directory that can be read and one that cannot.
  Dirs = {"good", "broken"}
  NoDir = "none"
  Broken = {"broken"}
  Unreadable = {}
  MaxRequests = 4
  MaxVersion = 1
  Readers = 2
SPECIFICATION DesktopSpec
INVARIANTS PageIsTrue ListIsTrue
PROPERTIES KeepsContract ChildrenEnd NothingGoesBack PagesAnswer
CHECK_DEADLOCK FALSE

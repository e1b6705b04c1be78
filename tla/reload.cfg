SPECIFICATION FairSpec
CONSTANTS
  File = {root, include}
  Watcher = Watcher
  Request = {r1}
  MaxEdits = 2
  MaxReloads = 2
CHECK_DEADLOCK FALSE
INVARIANTS ReloadSafe
PROPERTIES NeverBackwards WatcherLive

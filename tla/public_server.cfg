SPECIFICATION FairSpec
CONSTANTS
  KeyOrder <- MCKeyOrder
  StateOrder <- MCStateOrder
  NaN = NaN
  Malformed = Malformed
  None = None
  HardMaxPending = 3
  HardMaxAfter = 2
  HardMaxStates = 3
  HardMaxTTL = 2
  DefaultLimit = 2
  DefaultAttempts = 3
  Disk <- MCDisk
  Edited <- MCEdited
  Requests <- MCRequests
  SessionKeys <- MCSessionKeys
  MaxSessions = 1
  MaxCandidates = 2
  LogSize = 2
  MaxRequests = 3
  MaxReloads = 1
  MaxMoves = 1
CHECK_DEADLOCK FALSE
INVARIANTS ConfigUsable AnswersHold
PROPERTIES MissesAreRecent LoadEnds

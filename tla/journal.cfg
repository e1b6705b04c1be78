SPECIFICATION JournalSpec
CONSTANTS
  NoSession = NoSession
  Session = {}
  Client = {c1}
  Delivery = {1, 2, 3, 4}
  MaxAttempts = 1
  LogSize = 2
  Limits = {1}
  Filters = {"any", "delivered"}
  Modes = {"replay", "duplicate"}
VIEW View
CHECK_DEADLOCK FALSE
INVARIANTS IndexMatchesRing JournalTellsTruth WalkSound DuplicateIsIdentical
PROPERTIES ImplementsRecentLog

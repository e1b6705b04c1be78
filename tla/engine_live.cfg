SPECIFICATION FairSpec
CONSTANTS
  header = header  p1 = p1  new = new  processing = processing
  succeeded = succeeded
  NoKey = NoKey  NoState = NoState
  Client = {c1, w1}
  Worker = {w1}
  Sweeper = sweeper
  Key = {k1}
  Scenario = {sc1}
  Selector = {header}
  SelectorOf <- OneSelector
  PathSelector = {}
  Path = {p1}
  PathsOf <- OnePath
  MaxSessions = 0
  Uses = {"expire", "reload"}
  MaxMade = 1
  State = {new, processing, succeeded}
  Initial <- StartsNew
  Rules <- PaymentRules
  Enter <- PaymentEnter
  MaxPending = 0
  MaxHistory = 0
  MaxMoves = 1
  MaxReplays = 0
CHECK_DEADLOCK FALSE
PROPERTIES CallsReturn GotoFires

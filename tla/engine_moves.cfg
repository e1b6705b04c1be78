SPECIFICATION Spec
CONSTANTS
  header = header  p1 = p1  new = new  processing = processing
  succeeded = succeeded
  NoKey = NoKey  NoState = NoState
  Client = {c1, c2, w1}
  Worker = {w1}
  Sweeper = sweeper
  Key = {k1}
  Scenario = {sc1}
  Selector = {header}
  SelectorOf <- OneSelector
  PathSelector = {}
  Path = {p1}
  PathsOf <- OnePath
  MaxSessions = 0
  Uses = {"start", "admin"}
  MaxMade = 1
  State = {new, processing, succeeded}
  Initial <- StartsNew
  Rules <- PaymentRules
  Enter <- PaymentEnter
  MaxPending = 1
  MaxHistory = 2
  MaxMoves = 2
  MaxReplays = 1
CHECK_DEADLOCK FALSE
SYMMETRY Symmetry
VIEW View
INVARIANTS TypeOK PendingBounded HistoryExplainsState
PROPERTY StaleGotoDropped

SPECIFICATION StoreSpec
CONSTANTS
  k1 = k1  k2 = k2  sc1 = sc1  sc2 = sc2
  header = header  path = path  p1 = p1  p2 = p2
  NoKey = NoKey
  Client = {c1, c2}
  Sweeper = sweeper
  Key = {k1, k2}
  Scenario = {sc1}
  Selector = {header}
  SelectorOf <- SameHeader
  PathSelector = {}
  Path = {p1}
  PathsOf <- OnePath
  MaxSessions = 1
  Uses = {"reload", "expire", "start", "admin"}
  MaxMade = 2
CHECK_DEADLOCK FALSE
SYMMETRY Symmetry
VIEW View
INVARIANTS IndexesAgree LengthExact LimitHeld ReachableUnlessPath

SPECIFICATION FairSpec
CONSTANTS
  Call = {c1, c2}
  Path = {p1, p2}
  Default = p1
  ConfigSet = FALSE
  Served = p2
  Port = {p8080, p40001}
  ConfigPort = p8080
  None = None
  Engine = {e1, e2, e3}
  External = Ext
  MaxChanges = 1
CHECK_DEADLOCK FALSE
INVARIANTS EngineAgrees
PROPERTIES LoadSafe CallsReturn

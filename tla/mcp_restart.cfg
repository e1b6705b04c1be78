SPECIFICATION Spec
CONSTANTS
  Call = {c1}
  Path = {p1}
  Default = p1
  ConfigSet = FALSE
  External = Ext
  Served = p1
  Port = {p8080, p40001}
  ConfigPort = p8080
  None = None
  Engine = {e1, e2, e3}
  MaxChanges = 1
CHECK_DEADLOCK FALSE
INVARIANT NeverDeadServer

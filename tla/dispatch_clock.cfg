SPECIFICATION Spec
CONSTANTS
  NoSession = NoSession
  Session = {s1}
  Worker = {w1}
  Caller = {c1}
  Event = {e1}
  Hooks = {TRUE}
  Ops = {"advance", "expire"}
  Delays = {1}
  Windows = {2}
  MaxAttempts = 2
  Backoff = 1
  MaxFired = 2
  Hour = 9
  MaxDelivery = 2
  MaxCalls = 1
  MaxNow = 1
CHECK_DEADLOCK FALSE
VIEW View
INVARIANTS TypeOK Ownership NoLostWakeup
PROPERTIES ImplementsOutbox DueTimeStable DriveInOrder WindowCovered

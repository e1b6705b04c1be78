SPECIFICATION FairSpec
CONSTANTS
  NoSession = NoSession
  Session = {s1}
  Worker = {w1}
  Caller = {c1}
  Event = {e1}
  Hooks = {TRUE}
  Ops = {"advance", "deliver", "cancel", "stop", "expire"}
  Delays = {1}
  Windows = {2}
  MaxAttempts = 2
  Backoff = 1
  MaxFired = 9
  Hour = 9
  MaxDelivery = 1
  MaxCalls = 1
  MaxNow = 0
CHECK_DEADLOCK FALSE
PROPERTIES EventuallySettled CallsReturn StopDrains

SPECIFICATION Spec
CONSTANTS
  NoSession = NoSession
  Session = {s1}
  Worker = {w1}
  Caller = {c1}
  Event = {e1}
  Hooks = {TRUE}
  Ops = {"advance"}
  Delays = {1}
  Windows = {2}
  MaxAttempts = 1
  Backoff = 1
  MaxFired = 9
  Hour = 9
  MaxDelivery = 2
  MaxCalls = 1
  MaxNow = 0
CHECK_DEADLOCK FALSE
PROPERTY TransitionBeforeClock

SPECIFICATION Spec
CONSTANTS
  NoSession = NoSession
  Session = {s1}
  Worker = {w1}
  Caller = {c1, c2}
  Event = {e1}
  Hooks = {FALSE}
  Ops = {"advance", "deliver", "cancel", "reset", "trigger", "expire"}
  Delays = {1}
  Windows = {2}
  MaxAttempts = 2
  Backoff = 1
  MaxFired = 9
  Hour = 9
  MaxDelivery = 1
  MaxCalls = 3
  MaxNow = 0
CHECK_DEADLOCK FALSE
SYMMETRY Symmetry
VIEW View
INVARIANTS Ownership NothingStranded
PROPERTIES ImplementsOutbox CanceledClockStops ResetCancelsQueued

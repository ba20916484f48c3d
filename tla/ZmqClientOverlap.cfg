CONSTANTS
  MaxPolls = 2
  MaxCalls = 2
  MaxCallbacks = 0
  Senders = {s1}
  Overlap = TRUE
  SendOverlap = FALSE
  FrontFails = FALSE
  SetupFails = FALSE
SPECIFICATION Spec
INVARIANT OnePollThread
CHECK_DEADLOCK FALSE

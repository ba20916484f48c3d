CONSTANTS
  Models = {"send"}
  MaxPolls = 3
  MaxCalls = 3
  MaxCallbacks = 1
  Senders = {s1}
  Overlap = FALSE
  SendOverlap = FALSE
  FrontFails = FALSE
  SetupFails = TRUE
  Apps = {a1, a2}
  Owner = a1
  MaxTimerCalls = 6
  RestartInDestroy = FALSE
  TickMod = 16
  PerSecond = 3
  Settings <- MCSettings
  Period = 4
  Race = FALSE
  Frozen = FALSE
  Clients = {"dealer"}
  SendThreads = {t1, t2}
  Overloads = {"string", "chars"}
  CommandSizes = {1}
  Hwm = 1
  IovSize = 2
  MaxSends = 4
  ConnectedFirst = TRUE
SPECIFICATION MCSpec
INVARIANT ServerGetsCalls
CHECK_DEADLOCK FALSE

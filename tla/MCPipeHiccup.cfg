CONSTANTS
  Hwm <- SocketHwm
  MaxWmDelta = 1
  MaxMsgs <- TwoWayMsgs
  MaxTerms <- SocketOnly
  MaxHiccups = 1
SPECIFICATION FairSpec
PROPERTIES TerminationCompletes
CHECK_DEADLOCK FALSE

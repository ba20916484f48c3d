CONSTANTS
  Hwm <- SocketHwm
  MaxWmDelta = 1
  MaxMsgs <- SocketMsgs
  MaxTerms <- OnceEach
  MaxHiccups = 1
SPECIFICATION FairSpec
INVARIANT PipeSafe
PROPERTY PipeLives
CHECK_DEADLOCK FALSE

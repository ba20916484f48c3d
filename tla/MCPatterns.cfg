CONSTANTS
  Pipes = {p1, p2, p3}
  MaxMessages = 5
  MaxArrivals = 5
  MaxParts = 2
  ClosingMidMessage = FALSE
  CloseMidMessage = FALSE
  ThirdGoes = FALSE
  ReqSettings <- MCReqSettings
  ReqRaces = {}
  MaxRequests = 3
  MaxReplies = 3
  MaxIds = 3
SYMMETRY Symmetry
SPECIFICATION MCSpec
INVARIANTS LbRight FqRight RightReply
CHECK_DEADLOCK FALSE

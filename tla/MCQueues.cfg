CONSTANTS
  Values = {v1, v2}
  MaxItems = 4
  Chunks = {k1, k2, k3, k4}
  N = 2
  MaxPush = 5
  Senders = {s1, s2, s3}
  MaxCmds = 2
  MaxWrites = 4
  Slots = {m1, m2, m3, m4}
  Contents = {c1, c2}
  MaxPipes = 3
SPECIFICATION MCSpec
INVARIANTS IInv YqueueSafe MailboxInv NobodyInsideAfterDestroy NewerOnce CountedRight
PROPERTIES ImplementsFifo Delivered
CHECK_DEADLOCK FALSE

CONSTANTS
  socket = socket
  session = session
  connecter = connecter
  listener = listener
  thread = thread
  io1 = io1
  io2 = io2
  Objects = {socket, session, connecter, listener}
  Root = socket
  Parent <- MCParent
  Thread <- MCThread
  Lingering = {session}
  Connecters = {connecter}
  MaxBinds = 1
  App = {a1, a2}
  Binders = {a2}
  CtxConnecters = {a1}
  Pairs = {1}
  Addr = {x}
  None = None
  RecvIdentity = {}
  MaxSockets = 3
  MaxInterrupts = 1
SPECIFICATION MCSpec
INVARIANTS OwnSafe CtxSafe
PROPERTY ShutdownEnds
CHECK_DEADLOCK FALSE

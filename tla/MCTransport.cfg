CONSTANTS
  Models = {"session", "engine", "greeting", "codec", "mechanism"}
  Options <- MCOptions
  SessionRaces = {}
  MaxPipes = 3
  MaxEngines = 2
  SessionMessages = 1
  MaxWaits = 4
  Settings <- MCSettings
  Hwm = 2
  MaxPeer = 3
  MaxSend = 1
  MaxConns = 2
  EngineRaces = {}
  Peers = {"new", "v2", "v1", "long", "short"}
  Mechanisms = {"NULL", "CURVE"}
  Escape = 7
  Buffer = 6
  MaxSizes <- MCMaxSizes
  Queues <- MCQueues
  Confs <- MCConfs
  MechanismRaces = {}
  MaxMessages = 2
  Nonces = 8
SPECIFICATION MCFairSpec
INVARIANTS SessionSafe EngineSafe WireRight MechanismSafe
PROPERTY ConnectionsEnd
CHECK_DEADLOCK FALSE

CONSTANTS
  Models = {"subscriptions", "pubsub", "router", "poller"}
  Keys <- MCKeys
  SubscriptionPipes = {p1, p2}
  MaxTrie = 4
  MaxMtrie = 3
  Subscribers = {s1, s2}
  Settings <- MCSettings
  Prefixes_ <- MCPrefixes
  Topics <- MCTopics
  Hwm = 1
  SubHwm = 10
  Fragile = {s1}
  RouterPipes = {c1, c2}
  RouterKinds = {"ROUTER", "MANDATORY", "RAW", "REP", "STREAM"}
  Names = {"A"}
  RouterRaces = {}
  MaxSent <- MCMaxSent
  MaxReceived = 2
  MaxConnections = 2
  Kinds = {"epoll", "kqueue", "poll", "select", "devpoll"}
  Sinks = {k1, k2}
  Timed <- MCTimed
  MaxFd = 1
  MaxEntries = 2
  MaxCalls = 2
  max_io_events = 2
  PollerRaces = {}
SPECIFICATION MCSpec
INVARIANTS TriesExact PubSubRight Routed RightHandler
CHECK_DEADLOCK FALSE

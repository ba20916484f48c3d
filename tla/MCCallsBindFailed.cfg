CONSTANTS
  Models = {"monitor"}
  s1 = s1
  s2 = s2
  Sockets = {s1, s2}
  Timeouts <- MCTimeouts
  Called = {s1}
  ItemSets <- MCItemSets
  Hwm = 1
  inbound_poll_rate = 2
  MaxMessages = 1
  IoThreads = {io1, io2}
  Reported = {"LISTENING", "BIND_FAILED"}
  MonitorHwm = 1
  MaxEvents = 3
  MonitorRaces = {}
  ProxyHwm = 1
  ProxyMessages = 2
  Commands <- MCCommands
  Captures = {"none", "pub", "push"}
  Listeners = {l1, l2}
  Addresses <- MCAddresses
  Clients = {c1, c2}
  Allowed = {c1}
  MaxFds = 2
  ListenRaces = {}
SPECIFICATION MCSpec
INVARIANT OwnHandler
CHECK_DEADLOCK FALSE

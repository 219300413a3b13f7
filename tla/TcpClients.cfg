SPECIFICATION FairSpec
CONSTANTS
  client_limit = 2
  Addrs = {a1, a2}
  a1 = a1
  a2 = a2
  NoAddr = NoAddr
  MaxClients = 3
  MaxRequests = 2
  MaxBatch = 2
INVARIANTS
  CountIsExact
  AcceptsIffRoom
  WatchersOwned
  StopLeavesNoWatcher
  AskerGetsItsAnswer
PROPERTIES
  WaitingIsServed

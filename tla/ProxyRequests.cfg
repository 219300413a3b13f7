SPECIFICATION DrainSpec
CONSTANTS
  Reqs = {u1, t1}
  TcpReqs = {t1}
  u1 = u1
  t1 = t1
  Answers <- MCAnswers
  AddrChars <- MCChars
  HostnameLen = 254
  POLLER_ADDR_LIST_SIZE = 8
  MaxLists = 3
INVARIANTS
  RequestFreedOnce
  FetchesUseCurrentList
  ReadyMeansServing
  StatsAddUp
  AddressesStillServed
PROPERTIES
  DrainLosesNothing
  ShutdownEnds

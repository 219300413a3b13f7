SPECIFICATION FairSpec
CONSTANTS
  Fds = {s1, s2, s3}
  s1 = s1
  s2 = s2
  s3 = s3
  NoFd = NoFd
  io_events_count = 3
  MaxSockets = 3
  Answers <- MCAnswers
  AddrChars <- MCChars
  POLLER_ADDR_LIST_SIZE = 10
INVARIANTS
  TimerKeepsRunning
  OneQuery
  SlotsFollowSockets
  ListingIsExact
PROPERTIES
  CleanupOnlyStops
  PollsAgainIfCalledBack

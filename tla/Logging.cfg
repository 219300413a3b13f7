SPECIFICATION FairSpec
CONSTANTS
  MIN_FLIGHT_RECORDER = 3
  MAX_FLIGHT_RECORDER = 4
  CommandLines <- MCCommandLines
  MaxMessages = 7
  MaxSignals = 2
  MaxFailures = 2
INVARIANTS
  RecorderHoldsTheLast
PROPERTIES
  LinesAreFlushed
  SignalLeadsToDump

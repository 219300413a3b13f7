SPECIFICATION Spec
CONSTANTS
  Queries <- MCQueries
  Responses <- MCResponses
  MaxAttempts = 50
  ResponseSizes = {1, 2, 3}
INVARIANTS
  UdpResponseFits
  KeepsAnAnswerBelowLimit
  TruncationIsFlagged
  StreamStaysFramed
PROPERTIES
  RespondReturns

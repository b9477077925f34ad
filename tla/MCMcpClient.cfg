SPECIFICATION McpSpec
CONSTANTS
  MaxRequests = 4
  MaxIgnored = 2
  MaxNoise = 1
INVARIANTS LateAnswersTolerated ClosedMeansExited
CHECK_DEADLOCK FALSE

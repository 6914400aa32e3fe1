SPECIFICATION ClientSpec
CONSTANTS
  N = 1
  Ipy = {}
  Suites = {}
  Children = 1
  Streaming = TRUE
  MaxFail = 0
  Phases <- OnePhase
  Outcomes <- GoodAndBad
CHECK_DEADLOCK FALSE
PROPERTIES
  WaitIsBounded

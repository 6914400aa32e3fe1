SPECIFICATION Spec
CONSTANTS
  N = 1
  Ipy = {}
  Suites = {}
  Children = 1
  Streaming = TRUE
  MaxFail = 0
  Phases <- TwoPhases
  Outcomes <- GoodAndBad
CHECK_DEADLOCK FALSE
INVARIANTS
  EveryResultReported

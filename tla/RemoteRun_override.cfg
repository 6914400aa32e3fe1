SPECIFICATION Spec
CONSTANTS
  N = 2
  Ipy = {2}
  Suites = {}
  Children = 1
  Streaming = FALSE
  MaxFail = 0
  Phases <- OnePhase
  Outcomes <- GoodAndBad
CHECK_DEADLOCK FALSE
INVARIANTS
  EveryResultReported

SPECIFICATION FairSpec
CONSTANTS
  N = 3
  Ipy = {2}
  Suites = {2}
  Children = 2
  Streaming = TRUE
  MaxFail = 1
  Phases <- TwoPhases
  Outcomes <- GoodAndBad
CHECK_DEADLOCK FALSE
INVARIANTS
  TypeOK
  FramesBelongToRequest
  NoDoubleReport
  NeverSilent
  AnswerToCome
PROPERTIES
  StopIsFinal
  OwedSpec
  Ends

SPECIFICATION Spec
CONSTANTS
  N = 2
  Ipy = {2}
  Suites = {2}
  Children = 2
  Streaming = TRUE
  MaxFail = 0
  Phases <- TwoPhases
  Outcomes <- Translated
CHECK_DEADLOCK FALSE
INVARIANTS
  NeverGreenOnFailure
  ReportsComeFromHost
  ResultsKept
PROPERTIES
  ComesNearer

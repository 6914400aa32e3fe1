CONSTANTS
  w1 = w1
  w2 = w2
  b1 = b1
  b2 = b2
  Nothing = Nothing
  Windows = {w1, w2}
  Buttons = {b1, b2}
  Texts <- ButtonTexts
  K <- Keywords
  Exact <- ExactMatches
  Within <- Matches
  Blocked <- BlockedTexts
SPECIFICATION FairSpec
INVARIANTS
  TypeOK
  OneScanAfterStop
  ScanServes
PROPERTIES
  PressedAsChosen
  NoSecondPress
  Served
  StopReturns
CHECK_DEADLOCK FALSE

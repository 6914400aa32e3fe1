SPECIFICATION Spec
CONSTANTS
  p1 = p1
  p2 = p2
  p3 = p3
  kA = kA
  kB = kB
  AnyVersion = AnyVersion
  NoHost = NoHost
  Procs = {p1, p2, p3}
  Suites = {kA}
  SuiteOf <- OneSuite
  Hosts = {1}
  Version <- JustOne
  Wanted <- Loose
  Modes = {"discover"}
PROPERTIES
  RejectedOnlyIfHeld

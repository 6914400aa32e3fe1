SPECIFICATION Spec
CONSTANTS
  p1 = p1
  p2 = p2
  p3 = p3
  kA = kA
  kB = kB
  AnyVersion = AnyVersion
  NoHost = NoHost
  Procs = {p1, p2}
  Suites = {kA, kB}
  SuiteOf <- TwoSuites
  Hosts = {1, 2}
  Version <- TwoVersions
  Wanted <- LooseAndNewer
  Modes = {"discover", "pipe"}
INVARIANTS
  TypeOK
  IInv
  LeasesInjective
  SharingIsBlind
  RightVersion
  LaunchesOnlyWhenAllTaken
PROPERTIES
  NoWayBack

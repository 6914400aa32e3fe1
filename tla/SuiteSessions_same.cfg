SPECIFICATION FairSpec
CONSTANTS
  p1 = p1
  p2 = p2
  p3 = p3
  kA = kA
  kB = kB
  AnyVersion = AnyVersion
  NoHost = NoHost
  Procs = {p1, p2}
  Suites = {kA}
  SuiteOf <- SameSuite
  Hosts = {1}
  Version <- JustOne
  Wanted <- Loose
  Modes = {"discover", "force", "pipe", "pipeForce"}
INVARIANTS
  SuiteExclusive
PROPERTIES
  LockSpec
  SessionEnds

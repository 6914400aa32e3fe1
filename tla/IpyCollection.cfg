CONSTANTS
  A = A
  B = B
  test_a = test_a
  test_b = test_b
  Nothing = Nothing
  Classes = {A, B}
  Methods = {test_a, test_b}
  Suite <- SuiteItem
  MaxLines = 6
  MaxLevel = 2
SPECIFICATION Spec
SYMMETRY Names
INVARIANTS
  TypeOK
  NothingMissed
  NothingInvented
  NothingTwice
  RefusedOnlyWithoutCase
CHECK_DEADLOCK FALSE

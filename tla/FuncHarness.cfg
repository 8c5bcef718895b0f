SPECIFICATION Spec
CONSTANTS
  Tests <- SomeTests
  TestCnt = 8
  Hardware <- SomeHardware
  Mantissa = 8
INVARIANTS
  TypeOK
  VerdictExact
  PrefixMatrixExact
  MatrixShowsHardware
\* The program ends.
CHECK_DEADLOCK FALSE

SPECIFICATION Spec
CONSTANTS
  Tests <- SomeTests
  TestCnt = 8
  Hardware <- RoundingHardware
  Mantissa = 8
INVARIANT DeviationsReported
CHECK_DEADLOCK FALSE

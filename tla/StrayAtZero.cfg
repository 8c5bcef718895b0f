SPECIFICATION Spec
CONSTANTS
  Tests <- ThreeTests
  Causes = {9, 10}
  StrayEpcs = {0, 400}
  StartMayFail = FALSE
  MaxStrays = 1
INVARIANT
  NoStrayCaptured
\* The program ends, with its report or in the default handler.
CHECK_DEADLOCK FALSE

SPECIFICATION Spec
CONSTANTS
  Tests <- ThreeTests
  Causes = {9, 10}
  StrayEpcs = {400}
  StartMayFail = TRUE
  MaxStrays = 2
INVARIANTS
  SkippedUnlessInstalled
\* The program ends, with its report or in the default handler.
CHECK_DEADLOCK FALSE

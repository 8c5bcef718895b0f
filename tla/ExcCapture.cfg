SPECIFICATION FairSpec
CONSTANTS
  Tests <- ThreeTests
  Causes = {9, 10}
  \* A thread that jumps through a null pointer faults at 0.
  StrayEpcs = {0, 400}
  StartMayFail = TRUE
  MaxStrays = 2
INVARIANTS
  TypeOK
  VerdictSound
  FatalOnlyUninstalled
PROPERTIES
  CapturedOnlyAtZero
  Completes
\* The program ends, with its report or in the default handler.
CHECK_DEADLOCK FALSE

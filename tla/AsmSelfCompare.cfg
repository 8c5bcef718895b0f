SPECIFICATION Spec
CONSTANTS
  Insts <- ThreeInsts
  Workers = {w1, w2}
  Binaries = {"a", "b"}
  MaxExtra = 0
INVARIANT
  DifferencesReported

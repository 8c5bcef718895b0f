SPECIFICATION FairSpec
CONSTANTS
  Insts <- ThreeInsts
  Workers = {w1, w2}
  Binaries = {"a", "b"}
  MaxExtra = 1
INVARIANTS
  TypeOK
  EvidenceKept
  RefusalsReported
PROPERTY
  Ends

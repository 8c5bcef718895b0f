SPECIFICATION FairSpec
CONSTANTS
  Encodings <- Layouts
  Table <- Instructions
  Selected <- VcstAndVsync
  ChunkSize = 1500
  Workers = {w1, w2}
  Suspects <- MCSuspects
  FieldOrder <- SortedFields
INVARIANTS
  TypeOK
  EncodingsDisjoint
  EveryWordOnce
  ReportExact
PROPERTY
  Ends

SPECIFICATION MCSpec
CONSTANTS
  NumMatrices = 1
  Regs <- Elements
  Insts <- Both
  Apply <- TermApply
  InitFile <- InitialTerms
  NoInst = NoInst
  MaxInsts = 2
INVARIANTS
  TypeOK
  PendingReadsIntact
  PartialResult
PROPERTY
  ImplementsPseudocode
\* A program ends after its instructions.
CHECK_DEADLOCK FALSE

SPECIFICATION Spec
CONSTANTS
  NumMatrices = 3
  Tests <- Sequence
  JitSlots = 16
  REG_PAIRS_DEBUGS = 4
  Apply <- TermApply
INVARIANTS
  TypeOK
  NoFalseAlarm
  VerdictConfirmsClass
  ErrorsAccounted
PROPERTIES
  OnlyIllegalFails
  OverlapNotionsAgree
  SweepComplete
\* The program ends with its report.
CHECK_DEADLOCK FALSE

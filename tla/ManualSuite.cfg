SPECIFICATION Spec
CONSTANTS
  Unknown = Unknown
  Other = Other
  Fprs = 3
  Repeats = 2
  MaxErrs = 4
  NumTests = 3
  Inputs <- MCInputs
  MaxInterrupts = 1
  Consoles <- MCConsoles
INVARIANTS
  TypeOK
  ControlVerdict
  LoadBugVerdict
  FpuVerdict
  DelaySlotVerdict
  ReportsKept
\* The program ends.
CHECK_DEADLOCK FALSE

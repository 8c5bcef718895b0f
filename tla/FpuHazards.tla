----------------------------- MODULE FpuHazards -----------------------------
(***************************************************************************)
(* check_allegrex_fpu (fp-unit.c): which FPU instructions may read the     *)
(* result of the one before them too early. Every pair of a writer and a   *)
(* reader is run on NumTests random inputs, right after each other and     *)
(* with nops between; an early reader gets what was written the time       *)
(* before, so it shows only where that differs.                            *)
(*                                                                         *)
(* An interrupt between the two gives the result time to arrive. It cannot *)
(* be seen anywhere else, and comes nowhere else.                          *)
(***************************************************************************)
EXTENDS FpuCode, FiniteSets

CONSTANTS
  Inputs,         \* the sequences of outcomes that are drawn
  MaxInterrupts,  \* how many interrupts come during the check (a bound)
  Other           \* a value no test writes

VARIABLES
  hw,          \* the console: hazard, the cycles each pair needs
  less,        \* opa[n] < opb[n]
  randbits,
  next,        \* the next element of FpuCode
  latch,       \* [cur, old]: what was written last and what a reader may
               \* still get instead, fresh while it does
  seen,        \* result array -> test -> value
  errs,        \* reports so far
  interrupts   \* interrupts so far

Arrays == {"ref", "res0", "res1"}

Undrawn == [n \in Tests |-> FALSE]
Empty   == [cur |-> Other, old |-> Other, fresh |-> FALSE]

Idle ==
  /\ less = Undrawn /\ randbits = Undrawn
  /\ next = 0 /\ latch = Empty
  /\ seen = [a \in Arrays |-> [n \in Tests |-> Other]]

\* The inputs and results are local to it.
Leave ==
  /\ less' = Undrawn /\ randbits' = Undrawn
  /\ next' = 0 /\ latch' = Empty
  /\ seen' = [a \in Arrays |-> [n \in Tests |-> Other]]

-----------------------------------------------------------------------------
At(op) == next \in DOMAIN FpuCode /\ FpuCode[next].op = op
i      == FpuCode[next]

Draw ==
  /\ next = 0
  /\ less' \in Inputs /\ randbits' \in Inputs
  /\ next' = 1
  /\ UNCHANGED <<latch, seen, errs, interrupts>>

\* The condition bit, $v0 and an operand of add.s are three places: what was
\* in them before the tests of each is no result of a test.
Unit(by) == CASE by \in {"c.lt", "ctc1"} -> "cc" [] by = "mfc1" -> "v0" [] OTHER -> "f"
Written  == CASE i.by = "c.lt" -> less[i.n] [] i.by = "ctc1" -> randbits[i.n] [] OTHER -> i.n

FirstOfUnit == \A p \in 1..next-1 : FpuCode[p].op = "write" => Unit(FpuCode[p].by) # Unit(i.by)

ExecWrite ==
  /\ At("write")
  /\ latch' = [cur |-> Written, old |-> IF FirstOfUnit THEN Other ELSE latch.cur, fresh |-> TRUE]
  /\ next' = next + 1
  /\ UNCHANGED <<less, randbits, seen, errs, interrupts>>

Interrupt ==
  /\ At("read") /\ latch.fresh /\ interrupts < MaxInterrupts
  /\ latch' = [latch EXCEPT !.fresh = FALSE]
  /\ interrupts' = interrupts + 1
  /\ UNCHANGED <<less, randbits, next, seen, errs>>

ExecRead ==
  /\ At("read")
  /\ seen' = [seen EXCEPT ![i.array][i.n] =
                IF latch.fresh /\ hw.hazard[i.pair] > i.delay THEN latch.old ELSE latch.cur]
  /\ next' = next + 1
  /\ UNCHANGED <<less, randbits, latch, errs, interrupts>>

Value(array, n) == CASE array = "randbits" -> randbits[n] [] array = "real" -> n
                     [] OTHER -> seen[array][n]

\* FILL_ERR and break, at the first difference.
ExecMatch ==
  /\ At("match")
  /\ IF \A n \in i.at : Value(i.a, n) = Value(i.b, n)
     THEN next' = next + 1 /\ UNCHANGED errs
     ELSE /\ next' = CHOOSE p \in next..Len(FpuCode) :
                       FpuCode[p] = EndOfBlock /\ \A q \in next..p-1 : FpuCode[q] # EndOfBlock
          /\ errs' = Append(errs, i.report)
  /\ UNCHANGED <<less, randbits, latch, seen, interrupts>>

\* mismcnt == 0
ExecDiffer ==
  /\ At("differ")
  /\ errs' = IF seen["res0"] = seen["ref"] THEN Append(errs, i.report) ELSE errs
  /\ next' = next + 1
  /\ UNCHANGED <<less, randbits, latch, seen, interrupts>>

LeaveBlock ==
  /\ At("end")
  /\ next' = next + 1
  /\ UNCHANGED <<less, randbits, latch, seen, errs, interrupts>>

Next == /\ \/ Draw \/ ExecWrite \/ Interrupt \/ ExecRead
           \/ ExecMatch \/ ExecDiffer \/ LeaveBlock
        /\ UNCHANGED hw

Done == next > Len(FpuCode)

-----------------------------------------------------------------------------
\* What should be reported of this console.
Deviations == {pair \in Pairs : hw.hazard[pair] > Documented[pair]}
                \cup {m \in {NoHazard} : hw.hazard["c.lt/bc1t"] = 0}

\* The outcome changes from one test to the next more often than interrupts come.
Varied(s) == Cardinality({n \in 2..NumTests : s[n] # s[n-1]}) > MaxInterrupts

\* A report is about a real deviation, but for the missing hazard, which a poor
\* draw or interrupts may hide; with inputs that vary more often than the check
\* is interrupted every deviation is reported and no other (fp-unit.c 12-27).
Verdict ==
  Done =>
    /\ Range(errs) \ {NoHazard} \subseteq Deviations
    /\ Varied(less) /\ Varied(randbits) => Range(errs) = Deviations
=============================================================================

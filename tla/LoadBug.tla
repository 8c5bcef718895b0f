------------------------------ MODULE LoadBug ------------------------------
(***************************************************************************)
(* check_unaligned_vfpu_load_bug (memops.c, memops-helper.S): on the first *)
(* console model lvl.q, lvr.q and ulv.q overwrite an FPU register with     *)
(* what was moved to the FPU last. The check loads every quad register     *)
(* after marking the FPU registers, many times over since the corruption   *)
(* is erratic, and compares what it saw with what the model should do.     *)
(*                                                                         *)
(* The mark of a register is its number. The sixteen alignments repeat the *)
(* same experiment and one of them is modelled.                            *)
(***************************************************************************)
EXTENDS Integers, Sequences, SequencesExt

CONSTANTS
  Fprs,           \* FPU registers; there are twice as many quad registers
  Repeats,        \* how often the loads are made
  MaxErrs,        \* the check gives up after this many errors
  MaxInterrupts,  \* how many interrupts come during the check (a bound)
  Other           \* a value that is no mark

VARIABLES
  hw,          \* the console: is_fat, and the register its loads corrupt
  step,        \* "fill", "load", "save", "accumulate", "compare" or "done"
  load,        \* the load being made, or the quad register being compared
  fpr,         \* FPU register -> value
  moved,       \* what was moved to the FPU last
  res,         \* instruction -> quad register -> FPU registers found changed
  maskres,     \* the same, of all repetitions
  errs,        \* <<instruction, quad register>> of the reports so far
  interrupts   \* interrupts so far

Fpr   == 0..Fprs-1
Quads == 0..2*Fprs-1
Loads == <<"lvl", "lvr", "ulv">>
Insts == {"lvl", "lvr", "ulv"}
Run   == Len(Loads) * 2 * Fprs      \* loads of one repetition

Marked     == [f \in Fpr |-> f]
Each(regs) == [op \in Insts |-> [q \in Quads |-> regs]]

\* The FPU registers a load of q changes: none, as documented the one of its
\* own number, one of the next two, or its own but for register 0 only.
Effects == {"none", "own", "next", "far", "first"}
Corrupts(q) ==
  CASE hw.corrupts = "none"  -> {}
    [] hw.corrupts = "own"   -> {q % Fprs}
    [] hw.corrupts = "next"  -> {(q + 1) % Fprs}
    [] hw.corrupts = "far"   -> {(q + 2) % Fprs}
    [] hw.corrupts = "first" -> IF q = 0 THEN {0} ELSE {}

Idle ==
  /\ step = "fill" /\ load = 0
  /\ fpr = Marked /\ moved = Other
  /\ res = Each(Fpr) /\ maskres = Each({})

\* Its results are not used after it, and start anew if it is called again.
Leave ==
  /\ step' = "fill" /\ load' = 0
  /\ fpr' = Marked /\ moved' = Other
  /\ res' = Each(Fpr) /\ maskres' = Each({})

-----------------------------------------------------------------------------
inst == Loads[((load \div (2 * Fprs)) % Len(Loads)) + 1]
quad == load % (2 * Fprs)

\* reset_fpu_regs and fillreg(rndreg).
Fill ==
  /\ step = "fill"
  /\ fpr' = Marked /\ moved' = (quad + 1) % Fprs
  /\ step' = "load"
  /\ UNCHANGED <<load, res, maskres, errs, interrupts>>

\* The kernel restores the registers, what it moves last is its own affair.
Interrupt ==
  /\ step = "load" /\ interrupts < MaxInterrupts
  /\ moved' \in Fpr \cup {Other}
  /\ interrupts' = interrupts + 1
  /\ UNCHANGED <<step, load, fpr, res, maskres, errs>>

Load ==
  /\ step = "load"
  /\ fpr' = [f \in Fpr |-> IF f \in Corrupts(quad) THEN moved ELSE fpr[f]]
  /\ step' = "save"
  /\ UNCHANGED <<load, moved, res, maskres, errs, interrupts>>

\* save_fpu_regs, and the comparison with the marks.
Save ==
  /\ step = "save"
  /\ res' = [res EXCEPT ![inst][quad] = {f \in Fpr : fpr[f] # f}]
  /\ load' = load + 1
  /\ step' = IF load' % Run = 0 THEN "accumulate" ELSE "fill"
  /\ UNCHANGED <<fpr, moved, maskres, errs, interrupts>>

NextRun ==
  /\ res' = Each(Fpr)
  /\ IF load = Repeats * Run THEN step' = "compare" /\ load' = 0
                             ELSE step' = "fill" /\ UNCHANGED load
  /\ UNCHANGED <<fpr, moved, errs, interrupts>>

\* Mutant: the masks of the last repetition only.
AccumulateLast ==
  /\ step = "accumulate"
  /\ maskres' = res
  /\ NextRun

Accumulate ==
  /\ step = "accumulate"
  /\ maskres' = [op \in Insts |-> [q \in Quads |-> maskres[op][q] \cup res[op][q]]]
  /\ NextRun

Expected(q) == IF hw.is_fat THEN {q % Fprs} ELSE {}

\* FILL_ERR if the load of a quad register has not changed what it should.
Wrong(op) == IF maskres[op][load] # Expected(load) THEN <<<<op, load>>>> ELSE <<>>

\* One quad register: its up to three errors, then the limit.
Compare ==
  /\ step = "compare"
  /\ errs' = errs \o Wrong("lvl") \o Wrong("lvr") \o Wrong("ulv")
  /\ IF Len(errs') >= MaxErrs \/ load = 2 * Fprs - 1
     THEN step' = "done" /\ UNCHANGED load
     ELSE load' = load + 1 /\ UNCHANGED step
  /\ UNCHANGED <<fpr, moved, res, maskres, interrupts>>

Next == (Fill \/ Interrupt \/ Load \/ Save \/ Accumulate \/ Compare) /\ UNCHANGED hw

-----------------------------------------------------------------------------
Deviates(q) == Corrupts(q) # Expected(q)

\* The register marked last is overwritten with its own mark.
Unseen == ~hw.is_fat /\ hw.corrupts = "next"

\* The check reports nothing but deviations, and all of them up to its limit,
\* as long as it repeats the loads more often than it is interrupted; except a
\* later model that corrupts the very register that is marked last
\* (memops.c 111-114, memops-helper.S 80-90).
Verdict ==
  step = "done" =>
    /\ \A e \in Range(errs) : Deviates(e[2])
    /\ Len(errs) < MaxErrs + Len(Loads)
    /\ Len(errs) < MaxErrs /\ ~Unseen =>
         \A op \in Insts, q \in Quads : Deviates(q) => <<op, q>> \in Range(errs)
=============================================================================

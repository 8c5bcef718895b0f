---------------------------- MODULE ControlTests ----------------------------
(***************************************************************************)
(* Two checks of the manual test program about the control registers, as   *)
(* the instruction sequences of their assembly blocks: validate_ccregs     *)
(* (vfpu-cc.c), and check_conditionals (test-conditional.c), which keeps   *)
(* interrupts out of the block whose timing it is about.                   *)
(*                                                                         *)
(* An interrupt may come between any two instructions. The kernel leaves   *)
(* the registers of the interrupted program as they were, but time passes. *)
(* Vector registers R000 and R100 hold the few values compared; a result   *)
(* is Unknown when it is random or was computed under a prefix.            *)
(***************************************************************************)
EXTENDS VfpuControl, ControlCode, SequencesExt

CONSTANTS
  Unknown,        \* a value the checks must not depend on
  MaxInterrupts   \* how many interrupts come (a bound)

-----------------------------------------------------------------------------
VARIABLES
  pc,          \* the next element of Code
  ctl,         \* the control registers
  regs,        \* row -> lane -> value
  seeds,       \* random draws made so far, standing for the RCX registers
  out,         \* slot -> value read
  masked,      \* interrupts are disabled
  errs,        \* the failed expectations, as positions in Code, in order
  interrupts,  \* interrupts so far
  disturbed    \* history: positions before which one came

vars == <<pc, ctl, regs, seeds, out, masked, errs, interrupts, disturbed>>

\* outcodes[], the prefixes read and the two copies of the RCX registers.
Slots == {"o0", "o1", "o2", "o3", "o4", "o5", "o6"}
           \cup {"pfs", "pft", "pfd"} \cup {"A", "B"}

Init ==
  /\ pc = 1 /\ ctl = Reset
  /\ regs = [row \in {"R000", "R100"} |-> [lane \in 0..3 |-> Unknown]]
  /\ seeds = 0
  /\ out = [slot \in Slots |-> 0]
  /\ masked = FALSE
  /\ errs = <<>> /\ interrupts = 0 /\ disturbed = {}

-----------------------------------------------------------------------------
(* One action per kind of instruction.                                      *)

At(op) == pc <= Len(Code) /\ Code[pc].op = op
i      == Code[pc]

\* What lane of the destination gets when no prefix is set.
Computed(fn, lane) ==
  LET negated(v) == IF v = Unknown THEN Unknown ELSE -v
      doubled(v) == IF v = Unknown THEN Unknown ELSE v + v
  IN CASE fn = "zero"       -> 0
       [] fn = "one"        -> 1
       [] fn = "minus_S010" -> negated(regs["R000"][1])
       [] fn = "twice_S010" -> doubled(regs["R000"][1])
       [] fn = "twice"      -> doubled(regs["R000"][lane])
       [] fn = "minus_R000" -> negated(regs["R000"][lane])
       [] fn = "random"     -> Unknown

ExecVpfx ==
  /\ At("vpfx")
  /\ ctl' = Vpfx(ctl, i.r, i.payload)
  /\ pc' = pc + 1
  /\ UNCHANGED <<regs, seeds, out, masked, errs, interrupts, disturbed>>

\* A prefix changes or masks the result, but a draw moves the seeds anyway.
ExecVector ==
  /\ At("vector")
  /\ regs' = [regs EXCEPT ![i.row] =
                [lane \in 0..3 |-> IF lane \notin i.lanes THEN @[lane]
                                   ELSE IF ctl.pfx # DefaultPrefixes THEN Unknown
                                   ELSE Computed(i.fn, lane)]]
  /\ seeds' = IF i.fn = "random" THEN seeds + 1 ELSE seeds
  /\ ctl' = Vector(ctl)
  /\ pc' = pc + 1
  /\ UNCHANGED <<out, masked, errs, interrupts, disturbed>>

ExecVnop ==
  /\ At("vnop")
  /\ ctl' = Vector(ctl)
  /\ pc' = pc + 1
  /\ UNCHANGED <<regs, seeds, out, masked, errs, interrupts, disturbed>>

\* R000 against row; a lane compares either way when a value is unknown or a
\* prefix is set.
ExecVcmp ==
  /\ At("vcmp")
  /\ LET lanes   == 0..i.n-1
         unsure  == IF ctl.pfx # DefaultPrefixes THEN lanes
                    ELSE {l \in lanes : Unknown \in {regs["R000"][l], regs[i.row][l]}}
         true    == {l \in lanes \ unsure :
                       (regs["R000"][l] = regs[i.row][l]) = (i.cond = "EQ")}
     IN \E more \in SUBSET unsure : ctl' = Vcmp(ctl, i.n, true \cup more)
  /\ pc' = pc + 1
  /\ UNCHANGED <<regs, seeds, out, masked, errs, interrupts, disturbed>>

ExecMtvc ==
  /\ At("mtvc")
  /\ ctl' = Mtvc(ctl, {})
  /\ pc' = pc + 1
  /\ UNCHANGED <<regs, seeds, out, masked, errs, interrupts, disturbed>>

ExecMfvc ==
  /\ At("mfvc")
  /\ out' = [out EXCEPT ![i.slot] = Mfvc(ctl, i.number)]
  /\ ctl' = Settled(ctl)
  /\ pc' = pc + 1
  /\ UNCHANGED <<regs, seeds, masked, errs, interrupts, disturbed>>

readrndreg ==
  /\ At("seeds")
  /\ out' = [out EXCEPT ![i.slot] = seeds]
  /\ ctl' = Settled(ctl)
  /\ pc' = pc + 1
  /\ UNCHANGED <<regs, seeds, masked, errs, interrupts, disturbed>>

\* 0 when the branch skips the store of 1.
ExecBranch ==
  /\ At("bvt")
  /\ out' = [out EXCEPT ![i.slot] = IF Branches(ctl, i.bit, TRUE) THEN 0 ELSE 1]
  /\ ctl' = Settled(ctl)
  /\ pc' = pc + 1
  /\ UNCHANGED <<regs, seeds, masked, errs, interrupts, disturbed>>

\* RET_ERR and RET_ERRS.
RetErr(failed) ==
  /\ errs' = IF failed THEN Append(errs, pc) ELSE errs
  /\ ctl' = Settled(ctl)
  /\ pc' = pc + 1
  /\ UNCHANGED <<regs, seeds, out, masked, interrupts, disturbed>>

Check == \/ At("expect") /\ RetErr(out[i.slot] # i.value)
         \/ At("changed") /\ RetErr(out["A"] = out["B"])

\* Mutant: the wrong way round, interrupts are enabled for the block.
SetInterruptsSwapped ==
  /\ At("interrupts")
  /\ masked' = i.on
  /\ ctl' = Settled(ctl)
  /\ pc' = pc + 1
  /\ UNCHANGED <<regs, seeds, out, errs, interrupts, disturbed>>

SetInterrupts ==
  /\ At("interrupts")
  /\ masked' = ~i.on
  /\ ctl' = Settled(ctl)
  /\ pc' = pc + 1
  /\ UNCHANGED <<regs, seeds, out, errs, interrupts, disturbed>>

Interrupt ==
  /\ ~masked /\ interrupts < MaxInterrupts /\ pc <= Len(Code)
  /\ ctl' = Settled(ctl)
  /\ interrupts' = interrupts + 1
  /\ disturbed' = disturbed \cup {pc}
  /\ UNCHANGED <<pc, regs, seeds, out, masked, errs>>

Next ==
  \/ ExecVpfx \/ ExecVector \/ ExecVnop \/ ExecVcmp
  \/ ExecMtvc \/ ExecMfvc \/ readrndreg \/ ExecBranch
  \/ Check \/ SetInterrupts \/ Interrupt

Spec == Init /\ [][Next]_vars

-----------------------------------------------------------------------------
(* Properties.                                                              *)

\* Every variable has its type; payloads fit in their prefix registers.
TypeOK ==
  /\ pc \in 1..Len(Code) + 1
  /\ ctl.pfx \in [Prefixed -> Nat] /\ \A r \in Prefixed : ctl.pfx[r] < 2^PayloadBits(r)
  /\ ctl.cc \subseteq 0..5 /\ ctl.seen \subseteq 0..5
  /\ \A row \in DOMAIN regs, lane \in 0..3 : regs[row][lane] \in -4..4 \cup {Unknown}
  /\ DOMAIN out = Slots /\ \A slot \in Slots : out[slot] \in Nat
  /\ masked \in BOOLEAN
  /\ seeds \in Nat /\ interrupts \in 0..MaxInterrupts /\ disturbed \subseteq 1..Len(Code)

\* A vcmp never compares values another test left or works under its prefixes:
\* validate_ccregs clears the prefixes it set (vfpu-cc.c 204-205) and each
\* check loads its own operands.
ComparesOwnOperands ==
  At("vcmp") =>
    /\ ctl.pfx = DefaultPrefixes
    /\ \A lane \in 0..i.n-1 : Unknown \notin {regs["R000"][lane], regs[i.row][lane]}

\* validate_ccregs finds nothing wrong but the old condition code, and that
\* exactly when an interrupt came between the vcmp and the first mfvc.
OnlyHazardReported ==
  /\ \A p \in Range(errs) : p < Conditionals => p = HazardCheck
  /\ pc > HazardCheck => (HazardCheck \in Range(errs) <=> HazardRead \in disturbed)
=============================================================================

---------------------------- MODULE ManualSuite ----------------------------
(***************************************************************************)
(* The manual test program (psp-tests/manual/main.c): its checks run one   *)
(* after the other, each appends its errors to one of two arrays from the  *)
(* place it is given and returns how many they are, and at the end the     *)
(* program prints that many entries of each array.                         *)
(*                                                                         *)
(* Four of the checks are the modules ControlTests (two of its parts),     *)
(* LoadBug, FpuHazards and DelaySlot, run on a console that deviates from  *)
(* the documentation in at most one respect. The others are external: they *)
(* report something only when the deviation is one of theirs.              *)
(***************************************************************************)
EXTENDS ControlCode, FpuCode

CONSTANTS
  Unknown, Other,              \* values of ControlTests, LoadBug and FpuHazards
  Fprs, Repeats, MaxErrs,      \* of LoadBug
  Inputs,                      \* of FpuHazards
  MaxInterrupts,               \* how many interrupts come in each check (a bound)
  Consoles                     \* what the program is run on

ASSUME ConstantsAssumption ==
       /\ {Fprs, Repeats, MaxErrs} \subseteq Nat \ {0}
       /\ MaxInterrupts \in Nat
       /\ Unknown \notin -4..4      \* the values that ControlTests computes
       /\ Inputs \subseteq [1..NumTests -> BOOLEAN]

VARIABLES
  hw,            \* the console
  pc, ctl, regs, seeds, out, disturbed,               \* of ControlTests
  step, load, fpr, moved, res, maskres,               \* of LoadBug
  less, randbits, next, latch, seen,                  \* of FpuHazards
  prog, fetch, pending, outval,                       \* of DelaySlot
  errs, masked, interrupts,    \* of whichever check is running
  check,         \* its number in Checks
  check_info, err_info,        \* the arrays: index -> entry
  checkcnt, nerrs,             \* entries in use
  printed,       \* what has been printed
  found          \* history: what the checks have returned

ctlVars  == <<pc, ctl, regs, seeds, out, disturbed>>
loadVars == <<step, load, fpr, moved, res, maskres>>
fpuVars  == <<less, randbits, next, latch, seen>>
slotVars == <<prog, fetch, pending, outval>>
runVars  == <<errs, masked, interrupts>>
mainVars == <<check, check_info, err_info, checkcnt, nerrs, printed, found>>
vars     == <<hw, ctlVars, loadVars, fpuVars, slotVars, runVars, mainVars>>

Control == INSTANCE ControlTests
Bug     == INSTANCE LoadBug
Fpu     == INSTANCE FpuHazards
Slot    == INSTANCE DelaySlot

\* The load bug shows in one of the ways that LoadBug tells apart, and no
\* transfer takes effect before its delay slot.
ASSUME ConsolesAssumption ==
       \A console \in Consoles : /\ console.corrupts \in Bug!Effects
                                  /\ {console.jump, console.branch} \subseteq Nat \ {0, 1}

\* The calls of main; no model tells the last five from one another: NaNs,
\* vhtfm, f16, vidt and rounding.
Checks == <<"allegrex", "ccregs", "memops", "aligned", "loadbug", "fpu",
            "conditionals", "delay", "last_five">>
Sanity   == 1..6      \* the calls that fill check_info
External == {"allegrex", "memops", "aligned", "last_five"}

Name == Checks[check]
Runs(name) == check <= Len(Checks) /\ Name = name

Init ==
  /\ hw \in Consoles
  /\ Control!Init
  /\ Bug!Idle /\ Fpu!Idle /\ Slot!Idle
  /\ check = 1
  /\ check_info = <<>> /\ err_info = <<>>
  /\ checkcnt = 0 /\ nerrs = 0
  /\ printed = <<>> /\ found = <<>>

-----------------------------------------------------------------------------
(* The checks themselves.                                                   *)

\* Each of the two parts of Control's Code is a function of its own.
RunControl ==
  /\ \/ Runs("ccregs") /\ pc < Conditionals
     \/ Runs("conditionals") /\ pc >= Conditionals
  /\ Control!Next
  /\ UNCHANGED <<hw, loadVars, fpuVars, slotVars, mainVars>>

RunLoadBug ==
  /\ Runs("loadbug")
  /\ Bug!Next
  /\ UNCHANGED <<ctlVars, masked, fpuVars, slotVars, mainVars>>

RunFpu ==
  /\ Runs("fpu")
  /\ Fpu!Next
  /\ UNCHANGED <<ctlVars, masked, loadVars, slotVars, mainVars>>

RunDelay ==
  /\ Runs("delay")
  /\ Slot!Next
  /\ UNCHANGED <<ctlVars, loadVars, fpuVars, mainVars>>

Finished ==
  CASE Name = "ccregs"       -> pc = Conditionals
    [] Name = "loadbug"      -> step = "done"
    [] Name = "fpu"          -> Fpu!Done
    [] Name = "conditionals" -> pc > Len(Code)
    [] Name = "delay"        -> Slot!Done
    [] OTHER                 -> TRUE

-----------------------------------------------------------------------------
(* main                                                                     *)

Tagged(list) == [n \in DOMAIN list |-> <<Name, list[n]>>]

\* A check's FILL_ERR and RET_ERR from the entry base on, whatever was there.
Filled(array, base, list) ==
  [k \in DOMAIN array \cup (base..base + Len(list) - 1) |->
     IF k >= base /\ k < base + Len(list) THEN list[k - base + 1] ELSE array[k]]

\* The arrays are zero where nothing has been filled in.
Blank == <<>>
Entry(array, k) == IF k \in DOMAIN array THEN array[k] ELSE Blank

\* What the running check returns.
Returned == IF Name \notin External THEN {errs}
            ELSE IF hw.other THEN {<<>>, <<Other>>} ELSE {<<>>}

\* Mutant: the errors of every sanity check are put at the start of the array.
ReturnToStart ==
  /\ check <= Len(Checks) /\ Finished
  /\ \E list \in Returned :
       /\ found' = found \o Tagged(list)
       /\ IF check \in Sanity
          THEN /\ check_info' = Filled(check_info, 0, Tagged(list))
               /\ checkcnt' = checkcnt + Len(list)
               /\ UNCHANGED <<err_info, nerrs>>
          ELSE /\ err_info' = Filled(err_info, nerrs, Tagged(list))
               /\ nerrs' = nerrs + Len(list)
               /\ UNCHANGED <<check_info, checkcnt>>
  /\ check' = check + 1
  /\ errs' = <<>> /\ interrupts' = 0
  /\ disturbed' = {} /\ out' = [slot \in Control!Slots |-> 0]
  /\ Bug!Leave /\ Fpu!Leave
  /\ UNCHANGED <<hw, pc, ctl, regs, seeds, slotVars, masked, printed>>

\* The entries were filled in before the check returned, but nobody looks at
\* them earlier. Its local variables and those of the model are gone.
Return ==
  /\ check <= Len(Checks) /\ Finished
  /\ \E list \in Returned :
       /\ found' = found \o Tagged(list)
       /\ IF check \in Sanity
          THEN /\ check_info' = Filled(check_info, checkcnt, Tagged(list))
               /\ checkcnt' = checkcnt + Len(list)
               /\ UNCHANGED <<err_info, nerrs>>
          ELSE /\ err_info' = Filled(err_info, nerrs, Tagged(list))
               /\ nerrs' = nerrs + Len(list)
               /\ UNCHANGED <<check_info, checkcnt>>
  /\ check' = check + 1
  /\ errs' = <<>> /\ interrupts' = 0
  /\ disturbed' = {} /\ out' = [slot \in Control!Slots |-> 0]
  /\ Bug!Leave /\ Fpu!Leave
  /\ UNCHANGED <<hw, pc, ctl, regs, seeds, slotVars, masked, printed>>

Report ==
  /\ check = Len(Checks) + 1
  /\ printed' = [n \in 1..checkcnt |-> Entry(check_info, n-1)]
                \o [n \in 1..nerrs |-> Entry(err_info, n-1)]
  /\ check' = check + 1
  /\ UNCHANGED <<hw, ctlVars, loadVars, fpuVars, slotVars, runVars,
                 check_info, err_info, checkcnt, nerrs, found>>

Next == RunControl \/ RunLoadBug \/ RunFpu \/ RunDelay \/ Return \/ Report

Spec == Init /\ [][Next]_vars

-----------------------------------------------------------------------------
(* Properties.                                                              *)

\* Every variable has its type, and the arrays are filled without a gap.
TypeOK ==
  /\ hw \in Consoles
  /\ Control!TypeOK
  /\ check \in 1..Len(Checks) + 2
  /\ DOMAIN check_info = 0..checkcnt - 1 /\ DOMAIN err_info = 0..nerrs - 1

\* A vcmp compares the operands its check has loaded, whatever ran before; the
\* first part reports the old condition code and nothing else, exactly when an
\* interrupt shows it; the second part reports nothing (vfpu-cc.c 158-219,
\* test-conditional.c 39-117).
ControlVerdict ==
  /\ Control!ComparesOwnOperands
  /\ Runs("ccregs") => Control!OnlyHazardReported
  /\ Runs("conditionals") => errs = <<>>

\* Reports on the load bug are exact for the model (LoadBug, memops.c 106-146).
LoadBugVerdict == Runs("loadbug") => Bug!Verdict

\* Reports on the FPU are exact for inputs that vary (FpuHazards, fp-unit.c).
FpuVerdict == Runs("fpu") => Fpu!Verdict

\* Reports on delay slots are exact (DelaySlot, undefined-behaviour.c).
DelaySlotVerdict == Runs("delay") => Slot!Verdict

\* What is printed is what the checks have found, each error once and under
\* its own check: no call overwrites the entries of another (main.c 116-143).
ReportsKept == check > Len(Checks) + 1 => printed = found
=============================================================================

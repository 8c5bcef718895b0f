--------------------------- MODULE RegtestHarness ---------------------------
(***************************************************************************)
(* The register-compatibility test program gen-regtests.py generates       *)
(* (run_reg_tests) and the report of psp-tests/regcompat/main.c. For every *)
(* instruction it finds out whether results change when the output         *)
(* register overlaps an input: a stub (loads, the instruction, stores,     *)
(* jr ra) is built in a JIT buffer for a reference run on registers that   *)
(* cannot overlap, then patched and run again for every register number of *)
(* every operand, in nested loops.                                         *)
(*                                                                         *)
(* The instruction under test executes as in VfpuPipeline, one pass after  *)
(* the other, so that illegal overlaps do give wrong results.              *)
(***************************************************************************)
EXTENDS VfpuIsa, Sequences

CONSTANTS
  Tests,            \* sequence of [op, shape, rounds]: the instructions in order,
                    \* and how many input sets and immediates are tried
  JitSlots,         \* words in instb
  REG_PAIRS_DEBUGS, \* failing register choices kept per instruction
  Apply(_, _, _)    \* value of a lane, from the values it reads

Noise == [x \in Elements |-> <<"noise", x>>]    \* bg_noise

INST == INSTANCE VfpuInst WITH Regs <- Elements, Insts <- {}, InitFile <- Noise

-----------------------------------------------------------------------------
(* The generated tables.                                                    *)

Sizes == {<<"single", 1>>} \cup ({"vector"} \X (1..4)) \cup ({"matrix"} \X (2..4))

Ascending(S) ==
  [k \in 1..Cardinality(S) |-> CHOOSE r \in S : Cardinality({q \in S : q < r}) = k - 1]

rmap       == [s \in Sizes |-> Ascending(RegNumbers(s[1], s[2]))]
subreg_map == [s \in Sizes |-> [r \in RegNumbers(s[1], s[2]) |-> SubRegs(s[1], s[2], r)]]

\* The operands of a test in loop order: inputs by name, then the output.
itregs(t) == CASE DOMAIN t.shape.in = {}     -> <<"rd">>
               [] DOMAIN t.shape.in = {"rs"} -> <<"rs", "rd">>
               [] OTHER                      -> <<"rs", "rt", "rd">>

Inputs(t)          == DOMAIN t.shape.in
allregs(t)         == Inputs(t) \cup {"rd"}
Operand(t, reg)    == IF reg = "rd" THEN t.shape.out ELSE t.shape.in[reg]
Size(t, reg)       == <<Operand(t, reg).kind, Operand(t, reg).n>>
Numbers(t, reg)    == rmap[Size(t, reg)]
Subregs(t, reg, r) == subreg_map[Size(t, reg)][r]

-----------------------------------------------------------------------------
(* The stub. Word 0 of an operand's loads or stores is at Base; the stores  *)
(* leave one word for the instruction.                                      *)

Loads(t, reg) == IF reg \in Inputs(t) THEN Count(Operand(t, reg)) ELSE 0
prolsize(t)   == Loads(t, "rs") + Loads(t, "rt")
stubsize(t)   == prolsize(t) + Count(t.shape.out)

Base(t, reg) == CASE reg = "rs" -> 0
                  [] reg = "rt" -> Loads(t, "rs")
                  [] reg = "rd" -> prolsize(t) + 1

\* What the instruction table has of every instruction under test, and the
\* sizes of the generated program. As in VfpuInst, the declared class says
\* something of the passes and the reads. The two instructions that write to
\* other elements than rd names fail the test on registers that do not overlap
\* too (reg_compat.txt marks them [ERR!]): what is claimed below is not claimed
\* of them.
Testable(t) ==
  LET lanes == Upto(Count(t.shape.out))
  IN /\ Inputs(t) \in {{}, {"rs"}, {"rs", "rt"}}
     /\ \A f \in allregs(t) : Size(t, f) \in Sizes
     /\ \A l \in lanes : \A p \in t.shape.reads[l] :
          p[1] \in Inputs(t) /\ p[2] \in Upto(Count(Operand(t, p[1])))
     /\ t.shape.compat \in {"any", "partial-overlap", "no-overlap"}
     /\ t.shape.compat = "any" =>
          PassCount(t.shape.perf, t.shape.out.n) = 1 \/ \A l \in lanes : t.shape.reads[l] = {}
     /\ t.shape.compat = "partial-overlap" =>
          \A l \in lanes : \A p \in t.shape.reads[l] :
            Count(Operand(t, p[1])) = Count(t.shape.out) => p[2] = l
     /\ t.op \notin Erroneous
     /\ t.rounds \in Nat \ {0} /\ stubsize(t) + 3 <= JitSlots

ASSUME TestsAssumption ==
  /\ Len(Tests) \in Nat /\ \A e \in 1..Len(Tests) : Testable(Tests[e])
  /\ JitSlots \in Nat /\ REG_PAIRS_DEBUGS \in Nat /\ NumMatrices >= 3

Slots(t, reg) == Base(t, reg)..Base(t, reg) + Count(Operand(t, reg)) - 1

\* The loads or stores of some operands, for the register numbers in regs.
Patch(buf, t, F, regs) ==
  LET word(s, f) == [op |-> IF f = "rd" THEN "sv.s" ELSE "lv.s",
                     reg |-> Subregs(t, f, regs[f])[s - Base(t, f)],
                     arg |-> f, offset |-> s - Base(t, f)]
  IN [s \in DOMAIN buf |-> IF \E f \in F : s \in Slots(t, f)
                           THEN word(s, CHOOSE f \in F : s \in Slots(t, f))
                           ELSE buf[s]]

\* Running the code that the processor sees, with the file holding noise.
\* A lv.s loads a word of the input of the round, a sv.s stores to out.
Input(round, arg, k) == <<"input", arg, round, k>>

RunPasses(t, regs, file) ==
  LET i      == Decoded(t.op, t.shape, regs)
      passes == PassCount(t.shape.perf, t.shape.out.n)
      after[n \in 0..passes] == IF n = 0 THEN file ELSE INST!ExecutePass(i, n - 1, after[n - 1])
  IN after[passes]

Execute(st, w, t, round) ==
  IF st.returned THEN st ELSE
  CASE w.op = "nop"  -> st
    [] w.op = "jr"   -> [st EXCEPT !.returned = TRUE]
    [] w.op = "lv.s" -> [st EXCEPT !.file[w.reg] = Input(round, w.arg, w.offset)]
    [] w.op = "sv.s" -> [st EXCEPT !.out[w.offset] = st.file[w.reg]]
    [] w.op = "vfpu" -> [st EXCEPT !.file = RunPasses(t, w.regs, @)]

Run(code, t, round, out0) ==
  LET after[n \in 0..JitSlots] ==
        IF n = 0 THEN [file |-> Noise, out |-> out0, returned |-> FALSE]
        ELSE Execute(after[n - 1], code[n - 1], t, round)
  IN after[JitSlots].out

-----------------------------------------------------------------------------
VARIABLES
  entry,     \* entrycnt: the instruction under test
  round,     \* its current input set
  phase,     \* "start", "reference" or "loops"
  level,     \* how deep in the loop nest
  at,        \* reg_rs, reg_rt, reg_rd: the loop variables
  basew,     \* the register fields of the instruction word
  instb,     \* the JIT buffer
  icache,    \* what the processor would fetch from its addresses
  out,       \* the output array the stub stores to
  expected,  \* its contents after the reference run
  info       \* reginfo[]: the counters and the failing register choices

vars == <<entry, round, phase, level, at, basew, instb, icache, out, expected, info>>

Fields    == {"rs", "rt", "rd"}
test      == Tests[entry]
nest      == itregs(test)
loop      == nest[level]
Words     == 0..JitSlots - 1
NoCounts  == [test_cnt |-> 0, test_errs |-> 0, nonoverlap_errors |-> 0,
              compat_overlap_errors |-> 0, incompat_overlap_errors |-> 0,
              reg_pairs |-> <<>>]
CC(t, w)  == [k \in 0..Count(Operand(t, "rd")) - 1 |-> w]

Init ==
  /\ entry = 1 /\ round = 1 /\ phase = "start" /\ level = 1
  /\ at = [f \in Fields |-> 0] /\ basew = [f \in Fields |-> 0]
  /\ instb = [s \in Words |-> [op |-> "nop"]] /\ icache = instb
  /\ out = <<>> /\ expected = <<>>
  /\ info = [e \in 1..Len(Tests) |-> NoCounts]

\* Entering an instruction's block: the epilogue is written once.
StartTest ==
  /\ entry <= Len(Tests) /\ phase = "start"
  /\ instb' = [instb EXCEPT ![stubsize(test) + 1] = [op |-> "jr"],
                            ![stubsize(test) + 2] = [op |-> "nop"]]
  /\ basew' = [f \in Fields |-> 0]
  /\ phase' = "reference"
  /\ UNCHANGED <<entry, round, level, at, icache, out, expected, info>>

\* The reference run uses registers 0, 4 and 8: three matrices.
ReferenceNumber(k) == 4 * (k - 1)

ReferenceRegs == [f \in Fields |-> IF \E k \in DOMAIN nest : nest[k] = f
                                  THEN ReferenceNumber(CHOOSE k \in DOMAIN nest : nest[k] = f)
                                  ELSE basew[f]]

ReferenceCode ==
  [Patch(instb, test, allregs(test), ReferenceRegs)
     EXCEPT ![prolsize(test)] = [op |-> "vfpu", regs |-> ReferenceRegs]]

\* Faults: the reference stub runs without its cache sync; the reference is
\* saved before the stub has run.
ReferenceRunUnsynced ==
  /\ phase = "reference"
  /\ instb' = ReferenceCode
  /\ out' = Run(icache, test, round, CC(test, "unset"))
  /\ expected' = out'
  /\ phase' = "loops" /\ level' = 1
  /\ at' = [at EXCEPT ![nest[1]] = 0]
  /\ UNCHANGED <<entry, round, basew, icache, info>>

ReferenceRunSavedEarly ==
  /\ phase = "reference"
  /\ instb' = ReferenceCode
  /\ icache' = instb'
  /\ out' = Run(icache', test, round, CC(test, "unset"))
  /\ expected' = out
  /\ phase' = "loops" /\ level' = 1
  /\ at' = [at EXCEPT ![nest[1]] = 0]
  /\ UNCHANGED <<entry, round, basew, info>>

ReferenceRun ==
  /\ phase = "reference"
  /\ instb' = ReferenceCode
  /\ icache' = instb'                          \* jit_finish()
  /\ out' = Run(icache', test, round, CC(test, "unset"))
  /\ expected' = out'
  /\ phase' = "loops" /\ level' = 1
  /\ at' = [at EXCEPT ![nest[1]] = 0]
  /\ UNCHANGED <<entry, round, basew, info>>

InLoop == phase = "loops"
More   == at[loop] < Len(Numbers(test, loop))

regcol(r, s) == Collide(Subregs(test, r, basew'[r]), Subregs(test, s, basew'[s]))

\* Fault: the direction of the registers is not compared.
regcompatcolByMask(r, s) ==
  Mask(Subregs(test, r, basew'[r])) = Mask(Subregs(test, s, basew'[s]))

regcompatcol(r, s) ==
  CompatCollide(basew'[r], Subregs(test, r, basew'[r]), basew'[s], Subregs(test, s, basew'[s]))

SelectNumber(reg) ==
  basew' = [basew EXCEPT ![reg] = Numbers(test, reg)[at[reg] + 1]]

\* Faults: the loads are not patched; overlapping inputs end the loop
\* (break) where they should go on with the next register (continue).
SelectInputUnpatched ==
  /\ InLoop /\ loop # "rd" /\ More
  /\ SelectNumber(loop)
  /\ IF nest[level + 1] = "rd" /\ Cardinality(Inputs(test)) = 2 /\ regcol("rs", "rt")
     THEN /\ at' = [at EXCEPT ![loop] = @ + 1]
          /\ UNCHANGED level
     ELSE /\ level' = level + 1
          /\ at' = [at EXCEPT ![nest[level + 1]] = 0]
  /\ UNCHANGED <<entry, round, phase, instb, icache, out, expected, info>>

SelectInputBreaking ==
  /\ InLoop /\ loop # "rd" /\ More
  /\ SelectNumber(loop)
  /\ instb' = Patch(instb, test, {loop}, basew')
  /\ IF nest[level + 1] = "rd" /\ Cardinality(Inputs(test)) = 2 /\ regcol("rs", "rt")
     THEN /\ at' = [at EXCEPT ![loop] = Len(Numbers(test, loop))]
          /\ UNCHANGED level
     ELSE /\ level' = level + 1
          /\ at' = [at EXCEPT ![nest[level + 1]] = 0]
  /\ UNCHANGED <<entry, round, phase, icache, out, expected, info>>

\* The body of an input's loop: patch its loads, then the next inner loop,
\* unless the two inputs overlap each other.
SelectInput ==
  /\ InLoop /\ loop # "rd" /\ More
  /\ SelectNumber(loop)
  /\ instb' = Patch(instb, test, {loop}, basew')
  /\ IF nest[level + 1] = "rd" /\ Cardinality(Inputs(test)) = 2 /\ regcol("rs", "rt")
     THEN /\ at' = [at EXCEPT ![loop] = @ + 1]
          /\ UNCHANGED level
     ELSE /\ level' = level + 1
          /\ at' = [at EXCEPT ![nest[level + 1]] = 0]
  /\ UNCHANGED <<entry, round, phase, icache, out, expected, info>>

\* Fault: one register choice too many is kept.
CountErrorOneMore(i) ==
  LET col    == \E r \in Inputs(test) : regcol(r, "rd")
      compat == \A r \in Inputs(test) : regcompatcol(r, "rd") \/ ~regcol(r, "rd")
  IN [i EXCEPT
        !.test_errs = @ + 1,
        !.nonoverlap_errors       = @ + (IF ~col THEN 1 ELSE 0),
        !.compat_overlap_errors   = @ + (IF col /\ compat THEN 1 ELSE 0),
        !.incompat_overlap_errors = @ + (IF col /\ ~compat THEN 1 ELSE 0),
        !.reg_pairs = IF Len(@) <= REG_PAIRS_DEBUGS THEN Append(@, basew') ELSE @]

\* How a wrong result is counted.
CountError(i) ==
  LET col    == \E r \in Inputs(test) : regcol(r, "rd")
      compat == \A r \in Inputs(test) : regcompatcol(r, "rd") \/ ~regcol(r, "rd")
  IN [i EXCEPT
        !.test_errs = @ + 1,
        !.nonoverlap_errors       = @ + (IF ~col THEN 1 ELSE 0),
        !.compat_overlap_errors   = @ + (IF col /\ compat THEN 1 ELSE 0),
        !.incompat_overlap_errors = @ + (IF col /\ ~compat THEN 1 ELSE 0),
        !.reg_pairs = IF Len(@) < REG_PAIRS_DEBUGS THEN Append(@, basew') ELSE @]

\* Fault: the patched stub runs without its cache sync.
TryOutputUnsynced ==
  /\ InLoop /\ loop = "rd" /\ More
  /\ SelectNumber("rd")
  /\ instb' = [Patch(instb, test, {"rd"}, basew') EXCEPT
                 ![prolsize(test)] = [op |-> "vfpu", regs |-> basew']]
  /\ out' = Run(icache, test, round, out)
  /\ info' = [info EXCEPT ![entry] =
                LET counted == IF out' # expected THEN CountError(@) ELSE @
                IN [counted EXCEPT !.test_cnt = @ + 1]]
  /\ at' = [at EXCEPT !["rd"] = @ + 1]
  /\ UNCHANGED <<entry, round, phase, level, icache, expected>>

\* The body of the output's loop: patch the stores, run, compare.
TryOutput ==
  /\ InLoop /\ loop = "rd" /\ More
  /\ SelectNumber("rd")
  /\ instb' = [Patch(instb, test, {"rd"}, basew') EXCEPT
                 ![prolsize(test)] = [op |-> "vfpu", regs |-> basew']]
  /\ icache' = instb'                          \* jit_finish()
  /\ out' = Run(icache', test, round, out)
  /\ info' = [info EXCEPT ![entry] =
                LET counted == IF out' # expected THEN CountError(@) ELSE @
                IN [counted EXCEPT !.test_cnt = @ + 1]]
  /\ at' = [at EXCEPT !["rd"] = @ + 1]
  /\ UNCHANGED <<entry, round, phase, level, expected>>

\* A loop ends: the next iteration of the one around it, the next round,
\* or the next instruction.
LeaveLoop ==
  /\ InLoop /\ ~More
  /\ IF level > 1
     THEN /\ level' = level - 1
          /\ at' = [at EXCEPT ![nest[level - 1]] = @ + 1]
          /\ UNCHANGED <<entry, round, phase>>
     ELSE /\ IF round < test.rounds
             THEN round' = round + 1 /\ phase' = "reference" /\ UNCHANGED entry
             ELSE round' = 1 /\ phase' = "start" /\ entry' = entry + 1
          /\ UNCHANGED <<level, at>>
  /\ UNCHANGED <<basew, instb, icache, out, expected, info>>

Next == StartTest \/ ReferenceRun \/ SelectInput \/ TryOutput \/ LeaveLoop

Spec == Init /\ [][Next]_vars

-----------------------------------------------------------------------------
(* The report.                                                              *)

Finished(e) == e < entry

sanity(e) == IF info[e].nonoverlap_errors # 0 THEN "[ERR!]" ELSE "[ OK ]"
compat(e) == CASE info[e].compat_overlap_errors = 0 /\ info[e].incompat_overlap_errors = 0
                    -> "[ALL-REGS]"
               [] info[e].compat_overlap_errors = 0 /\ info[e].incompat_overlap_errors # 0
                    -> "[COMPAT-R]"
               [] OTHER -> "[NO-OVERL]"
-----------------------------------------------------------------------------
TypeOK ==
  /\ entry \in 1..Len(Tests) + 1 /\ round \in Nat
  /\ phase \in {"start", "reference", "loops"} /\ level \in 1..3
  /\ at \in [Fields -> 0..128] /\ basew \in [Fields -> 0..127]
  /\ DOMAIN instb = Words /\ DOMAIN icache = Words
  /\ phase = "loops" => DOMAIN out = DOMAIN expected
  /\ \A e \in 1..Len(Tests) : info[e].test_cnt \in Nat

(***************************************************************************)
(* The harness itself never spoils a result: registers that do not overlap *)
(* give what the reference run gave, whatever earlier stubs, rounds and    *)
(* iterations left in the JIT buffer, the cache and the output array.      *)
(***************************************************************************)
NoFalseAlarm == \A e \in 1..Len(Tests) : sanity(e) = "[ OK ]"

(***************************************************************************)
(* The report confirms reg-compat of the instruction table: an instruction *)
(* declared unrestricted never fails, one declared partial-overlap never   *)
(* fails on identical registers, and a declared restriction is needed: the *)
(* strictest one shows whenever an input can be identical to the output.   *)
(***************************************************************************)
ClassHonoured ==
  \A e \in 1..Len(Tests) :
    LET class == Tests[e].shape.compat
    IN /\ class = "any" => compat(e) = "[ALL-REGS]"
       /\ class = "partial-overlap" => compat(e) # "[NO-OVERL]"

RestrictionShown ==
  \A e \in 1..Len(Tests) :
    LET class == Tests[e].shape.compat
    IN /\ Finished(e) /\ class # "any" => compat(e) # "[ALL-REGS]"
       /\ Finished(e) /\ class = "no-overlap"
            /\ (\E r \in Inputs(Tests[e]) : Size(Tests[e], r) = Size(Tests[e], "rd"))
            => compat(e) = "[NO-OVERL]"

VerdictConfirmsClass == ClassHonoured /\ RestrictionShown

(***************************************************************************)
(* Every error is counted in one of the three classes, and the failing     *)
(* register choices the report prints (main.c: the first test_errs of      *)
(* them, at most REG_PAIRS_DEBUGS) have all been recorded.                 *)
(***************************************************************************)
ErrorsAccounted ==
  \A e \in 1..Len(Tests) :
    /\ info[e].test_errs = info[e].nonoverlap_errors + info[e].compat_overlap_errors
                             + info[e].incompat_overlap_errors
    /\ info[e].test_errs <= info[e].test_cnt
    /\ Len(info[e].reg_pairs) = IF info[e].test_errs < REG_PAIRS_DEBUGS
                                THEN info[e].test_errs ELSE REG_PAIRS_DEBUGS

Failing == \E e \in 1..Len(Tests) : info'[e].test_errs # info[e].test_errs
Tried   == Decoded(test.op, test.shape, basew')

(***************************************************************************)
(* What the assembler accepts works: a register choice that fails is one   *)
(* check_overlap (asm-tester.py) refuses for the declared class.           *)
(***************************************************************************)
OnlyIllegalFails == [][Failing => ~INST!Legal(Tried)]_vars

(***************************************************************************)
(* The two descriptions of a tolerable overlap agree: the test program's   *)
(* (same mask, same direction bit) counts a failure as compatible exactly  *)
(* when the assembler tester's (same element list) would accept it for a   *)
(* partial-overlap instruction.                                            *)
(***************************************************************************)
OverlapNotionsAgree ==
  [][Failing =>
       (info'[entry].compat_overlap_errors # info[entry].compat_overlap_errors)
         = INST!Legal([Tried EXCEPT !.compat = "partial-overlap"])]_vars

(***************************************************************************)
(* No choice is skipped or tried twice: at the end of an instruction the   *)
(* count is that of all register numbers whose inputs are disjoint.        *)
(***************************************************************************)
Choices(t) ==
  {c \in RegisterChoices(t.shape) :
     Cardinality(Inputs(t)) = 2 => ~Collide(Subregs(t, "rs", c.rs), Subregs(t, "rt", c.rt))}

SweepComplete ==
  [][entry' # entry => info[entry].test_cnt = test.rounds * Cardinality(Choices(test))]_vars
=============================================================================

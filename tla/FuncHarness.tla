---------------------------- MODULE FuncHarness ----------------------------
(***************************************************************************)
(* The functional test program gen-tests.py generates (run_<inst> and      *)
(* run_tests), with its comparisons (test-utils.c) and the prefix matrix   *)
(* of functional/main.c. Every instruction runs on a series of inputs, and *)
(* for each of them once per prefix and immediate; the result is compared  *)
(* with the pseudo-code under an emulation of the prefix (prefix-func.h).  *)
(*                                                                         *)
(* The hardware is a parameter: it may ignore some prefixes of some        *)
(* instructions and compute some results wrong, which the program is to    *)
(* find out. Numbers are fixed point, in units of 1/8; infinities are a    *)
(* number larger than any other, and NaN one that no operation is made on. *)
(***************************************************************************)
EXTENDS VfpuControl, FiniteSetsExt, Sequences

CONSTANTS
  Tests,      \* sequence of [name, kind, n, imms, accuracy]: the instructions
              \* in order; accuracy is <<"exact", 0>>, <<"relative", k>> for one
              \* in k, or <<"absolute", d>>
  TestCnt,    \* --num-tests, a power of two: values tried per input
  Hardware,   \* the [name, ignored, when, off] that may run the program: it
              \* ignores the <<operand, prefix word>> in `ignored' of that
              \* instruction, whose lane 0 is `off' too large if it should be in `when'
  Mantissa    \* bits of a mantissa (23 on the machine)

\* The exponents of the inputs and constants below need six bits. That powers
\* are positive is said for the provers, which know only those of numbers.
ASSUME BoundsAssumption ==
  /\ TestCnt \in Nat \ {0} /\ \A n \in 0..2 : TestCnt^n \in Nat \ {0}
  /\ Mantissa \in Nat /\ Mantissa >= 6

Accuracies ==
  ({"exact"} \X {0}) \cup ({"relative"} \X (Nat \ {0})) \cup ({"absolute"} \X Nat)

ASSUME TestsAssumption ==
  Tests \in Seq([name : STRING, kind : {"vadd", "vcmp", "vcmovt", "vzero", "vrcp", "vlog2"},
                 n : 1..4, imms : Seq(Nat) \ {<<>>}, accuracy : Accuracies])

ASSUME HardwareAssumption == \A h \in Hardware : h.off \in Int

Lanes(n)  == 0..n-1
Bit(w, k) == (w \div 2^k) % 2
Abs(v)    == IF v < 0 THEN -v ELSE v

Inf       == 2^16
NaN       == 2^17

-----------------------------------------------------------------------------
(* Inputs and comparisons (test-utils.c).                                   *)

gen_input_f32(n) ==
  LET picks == <<0, 0, 8, -8, 4, 16, 1, -32, 40, -52, 25, -25, 64, -64, 62, -76>>
  IN picks[1 + (IF n < 16 THEN n ELSE (7 * n) % 16)]

\* Bit 16 of the n-th state of a linear congruential generator.
gen_input_bit(n) == IF n \in {2, 10, 13, 14, 15, 16, 17, 20, 22, 23} THEN 1 ELSE 0

\* The last element takes the first number.
gen_inputs_f32(tn, n) == [l \in 0..3 |-> IF l < n THEN gen_input_f32(tn + n-1 - l) ELSE 0]
gen_inputs_bits(tn)   == {k \in 0..5 : gen_input_bit(tn + 5 - k) = 1}

\* A number other than zero as exponent and fraction.
exponent(v) == CHOOSE e \in 0..Mantissa : 2^e <= Abs(v) /\ Abs(v) < 2^(e+1)
fraction(v) == (Abs(v) - 2^exponent(v)) * 2^(Mantissa - exponent(v))

ctz(m) == IF m = 0 THEN 0
          ELSE CHOOSE k \in 0..Mantissa : m % 2^k = 0 /\ m % 2^(k+1) # 0

\* The values are the same but for a unit of the fraction, trailing zeros that
\* both have taken away.
CloseFractions(a, b) ==
  LET shift == 2^Min({ctz(fraction(a)), ctz(fraction(b))})
  IN Abs(fraction(a) \div shift - fraction(b) \div shift) <= 1

fpdif(a, b) ==
  /\ a # b
  /\ ~(/\ a # 0 /\ b # 0 /\ (a < 0) = (b < 0)
       /\ exponent(a) = exponent(b) /\ CloseFractions(a, b))

\* Both measures compare with >, which is false of a NaN: one that is compared,
\* or the difference of infinities, or that divided by an infinity.
fprelerr(ref, val, k) ==
  NaN \notin {ref, val} /\ Abs(val) # Inf /\ Abs(ref - val) * k > Abs(val)

fpabserr(ref, val, d) == NaN \notin {ref, val} /\ Abs(ref - val) > d

\* compare_code: the emulated lanes against those of the hardware.
Miscompare(u, final, out) ==
  \E l \in Lanes(u.n) :
    CASE u.accuracy[1] = "absolute" -> fpabserr(final[l], out[l], u.accuracy[2])
      [] u.accuracy[1] = "relative" -> fprelerr(final[l], out[l], u.accuracy[2])
      [] u.accuracy[1] = "exact"    -> fpdif(final[l], out[l])

-----------------------------------------------------------------------------
(* Prefixes (prefix-func.h).                                                *)

\* 0, 1, 2, 1/2, 3, 1/3, 1/4, 1/6; the thirds are rounded and not used below.
prefix_cnt == [k \in 0..7 |-> <<0, 8, 16, 4, 24, 3, 2, 1>>[k + 1]]

pfx_src(input, pfx, n) ==
  [i \in 0..3 |->
     LET swsel == (pfx \div 4^i) % 4
         absel == Bit(pfx, 8 + i)
         value == IF Bit(pfx, 12 + i) = 1 THEN prefix_cnt[swsel + 4 * absel]
                  ELSE IF absel = 1 THEN Abs(input[swsel]) ELSE input[swsel]
     IN IF i >= n THEN input[i] ELSE IF Bit(pfx, 16 + i) = 1 THEN -value ELSE value]

Saturated(v, low) == IF v = NaN THEN v ELSE IF v > 8 THEN 8 ELSE IF v <= low THEN low ELSE v

\* A masked element keeps what old has there.
pfx_dst(old, input, pfx, n) ==
  [i \in 0..3 |->
     IF i >= n \/ Bit(pfx, 8 + i) = 1 THEN old[i]
     ELSE IF Bit(pfx, 2 * i) = 0 THEN input[i]
     ELSE Saturated(input[i], IF Bit(pfx, 2 * i + 1) = 1 THEN -8 ELSE 0)]

\* Prefix register of an operand.
Reg == [rs |-> "s", rt |-> "t", rd |-> "d"]

-----------------------------------------------------------------------------
(* The instructions under test.                                             *)

Zeros == [l \in 0..3 |-> 0]

\* Inputs in the order of their registers.
regsin(t) == CASE t.kind = "vadd"   -> <<"rs", "rt">>
               [] t.kind = "vcmp"   -> <<"rs", "rt">>
               [] t.kind = "vcmovt" -> <<"rs", "vfpu_cc">>
               [] t.kind = "vzero"  -> <<>>
               [] t.kind \in {"vrcp", "vlog2"} -> <<"rs">>

HasInput(t, reg) == \E k \in DOMAIN regsin(t) : regsin(t)[k] = reg
HasOutput(t)     == t.kind # "vcmp"           \* rd, and not the condition code

comparefn(cond, a, b) == CASE cond = 1 -> (a = b)
                           [] cond = 2 -> (a < b)
                           [] cond = 6 -> (a >= b)

Reciprocal(v) == CASE v = 0 -> Inf
                   [] v > 0 -> 64 \div v
                   [] v < 0 -> -(64 \div Abs(v))

log2(v) == CASE v = 0 -> -Inf
             [] v > 0 -> 8 * (exponent(v) - 3)
             [] v < 0 -> NaN

Truths(t, imm, rs, rt) == {l \in Lanes(t.n) : comparefn(imm, rs[l], rt[l])}

pcode(t, imm, rs, rt, cc, rd) ==
  [l \in 0..3 |->
     IF l >= t.n THEN rd[l]
     ELSE CASE t.kind = "vadd"   -> rs[l] + rt[l]
            [] t.kind = "vcmovt" -> IF (IF imm = 6 THEN l ELSE imm) \in cc THEN rs[l] ELSE rd[l]
            [] t.kind = "vzero"  -> 0
            [] t.kind = "vrcp"   -> Reciprocal(rs[l])
            [] t.kind = "vlog2"  -> log2(rs[l])]

\* The hardware: the operands as the pending prefixes change them, unless the
\* instruction ignores the prefix, and then a result that may be wrong.
Seen(hw, t, reg, values, pending) ==
  IF hw.name = t.name /\ <<reg, pending>> \in hw.ignored THEN values ELSE pfx_src(values, pending, t.n)

Miscomputes(hw, t, v) == hw.name = t.name /\ v \in hw.when

ExecuteTruths(hw, t, imm, rs, rt, pfx) ==
  LET s == Seen(hw, t, "rs", rs, pfx["s"])
      true == Truths(t, imm, s, Seen(hw, t, "rt", rt, pfx["t"]))
  IN IF ~Miscomputes(hw, t, s[0]) THEN true
     ELSE IF 0 \in true THEN true \ {0} ELSE true \cup {0}

ExecuteValues(hw, t, imm, rs, rt, cc, rd, pfx) ==
  LET value == pcode(t, imm, Seen(hw, t, "rs", rs, pfx["s"]),
                     Seen(hw, t, "rt", rt, pfx["t"]), cc, rd)
      made  == [value EXCEPT ![0] = IF Miscomputes(hw, t, @) THEN @ + hw.off ELSE @]
  IN IF hw.name = t.name /\ <<"rd", pfx["d"]>> \in hw.ignored
     THEN made ELSE pfx_dst(rd, made, pfx["d"], t.n)

-----------------------------------------------------------------------------
(* The rounds of an instruction, and their input number i.                  *)

swzc == <<\hE4, \hE1, \hC9, \h39>>

SourceChecks(t, r) ==
  IF ~HasInput(t, r) THEN <<>>
  ELSE <<<<r, "swz", swzc[t.n]>>,
         <<r, "neg", \h500E4>>, <<r, "neg", \hA00E4>>, <<r, "neg", \hF00E4>>,
         <<r, "abs", \h5E4>>, <<r, "abs", \hAE4>>, <<r, "abs", \hFE4>>,
         <<r, "cst", \hF4A7>>>>

NoPrefix == <<"none", "none", 0>>

pref_checks(t) ==
  SourceChecks(t, "rs") \o SourceChecks(t, "rt")
    \o (IF HasOutput(t)
        THEN <<<<"rd", "msk", \hF00>>, <<"rd", "sat", \h55>>, <<"rd", "sat", \hFF>>>>
        ELSE <<>>)
    \o <<NoPrefix>>

\* itertools.product of the prefixes and the immediates.
pfxl == [t \in {Tests[k] : k \in DOMAIN Tests} |-> pref_checks(t)]

RoundCount(t)  == Len(pfxl[t]) * Len(t.imms)
Prefix(t, r)   == pfxl[t][((r - 1) \div Len(t.imms)) + 1]
Imm(t, r)      == t.imms[((r - 1) % Len(t.imms)) + 1]
InputCount(t)  == TestCnt^Len(regsin(t))
Shifted(t, reg, i) ==
  i \div TestCnt^((CHOOSE k \in DOMAIN regsin(t) : regsin(t)[k] = reg) - 1)

Ref(t, reg, i) == IF HasInput(t, reg) THEN gen_inputs_f32(Shifted(t, reg, i), t.n) ELSE Zeros
CcRef(t, i)    == IF HasInput(t, "vfpu_cc") THEN gen_inputs_bits(Shifted(t, "vfpu_cc", i)) ELSE {}

\* The emulation: sources under the prefix, pseudo-code, destination.
EmulatedSource(t, i, r, reg) ==
  IF Prefix(t, r)[1] = reg THEN pfx_src(Ref(t, reg, i), Prefix(t, r)[3], t.n) ELSE Ref(t, reg, i)

EmulatedCc(t, i, r) ==
  Aggregate({}, t.n, Truths(t, Imm(t, r), EmulatedSource(t, i, r, "rs"),
                            EmulatedSource(t, i, r, "rt")))

Final(t, i, r) ==
  LET rd == pcode(t, Imm(t, r), EmulatedSource(t, i, r, "rs"), EmulatedSource(t, i, r, "rt"),
                  CcRef(t, i), Zeros)
  IN IF Prefix(t, r)[1] = "rd" THEN pfx_dst(Zeros, rd, Prefix(t, r)[3], t.n) ELSE rd

-----------------------------------------------------------------------------
VARIABLES
  hw,        \* the hardware that runs the program
  test,      \* index of the current run_<inst>
  i,         \* its input number
  round,     \* its round, a block of the generated loop
  pc,        \* "prologue", "prefix", "inst" or "read"
  ctl,       \* control registers
  regs,      \* rows rs and rt and matrix M400 (rd), as lanes
  errlist,   \* errors reported: [test, i, round]
  pfxinfo    \* test -> [tested, errors]

vars == <<hw, test, i, round, pc, ctl, regs, errlist, pfxinfo>>

t == Tests[test]

Init ==
  /\ hw \in Hardware
  /\ test = 1 /\ i = 0 /\ round = 1 /\ pc = "prologue"
  /\ ctl = Reset
  /\ regs = [reg \in {"rs", "rt", "rd"} |-> Zeros]
  /\ errlist = <<>>
  /\ pfxinfo = [k \in DOMAIN Tests |->
                  [tested |-> {}, errors |-> [reg \in {"rs", "rt", "rd"} |-> {}]]]

\* Mutant: M400 is not cleared.
PrologueKeepingOutput ==
  /\ pc = "prologue" /\ test <= Len(Tests)
  /\ pfxinfo' = [pfxinfo EXCEPT ![test].tested = {pfxl[t][c][1] : c \in DOMAIN pfxl[t]} \ {"none"}]
  /\ ctl' = Mtvc(Mtvc(ctl, {}), CcRef(t, i))
  /\ regs' = [reg \in {"rs", "rt", "rd"} |->
                IF HasInput(t, reg) THEN Ref(t, reg, i) ELSE regs[reg]]
  /\ pc' = "prefix"
  /\ UNCHANGED <<hw, test, i, round, errlist>>

\* Clears the condition code and M400, then loads the inputs; the vmzero is
\* the next instruction for a prefix nobody has consumed.
Prologue ==
  /\ pc = "prologue" /\ test <= Len(Tests)
  /\ pfxinfo' = [pfxinfo EXCEPT ![test].tested = {pfxl[t][c][1] : c \in DOMAIN pfxl[t]} \ {"none"}]
  /\ ctl' = Mtvc(Vector(Mtvc(ctl, {})), CcRef(t, i))
  /\ regs' = [reg \in {"rs", "rt", "rd"} |->
                IF reg = "rd" THEN pfx_dst(regs[reg], Zeros, ctl.pfx["d"], 4)
                ELSE [l \in 0..3 |-> IF HasInput(t, reg) /\ l < t.n THEN Ref(t, reg, i)[l]
                                     ELSE regs[reg][l]]]
  /\ pc' = "prefix"
  /\ UNCHANGED <<hw, test, i, round, errlist>>

SetPrefix ==
  /\ pc = "prefix"
  /\ ctl' = IF Prefix(t, round) = NoPrefix THEN ctl
            ELSE Vpfx(ctl, Reg[Prefix(t, round)[1]], Prefix(t, round)[3])
  /\ pc' = "inst"
  /\ UNCHANGED <<hw, test, i, round, regs, errlist, pfxinfo>>

Instruction ==
  /\ pc = "inst"
  /\ LET imm == Imm(t, round)
     IN IF HasOutput(t)
        THEN /\ ctl' = Vector(ctl)
             /\ regs' = [regs EXCEPT !["rd"] =
                  ExecuteValues(hw, t, imm, regs["rs"], regs["rt"], ctl.cc, @, ctl.pfx)]
        ELSE /\ ctl' = Vcmp(ctl, t.n, ExecuteTruths(hw, t, imm, regs["rs"], regs["rt"], ctl.pfx))
             /\ UNCHANGED regs
  /\ pc' = "read"
  /\ UNCHANGED <<hw, test, i, round, errlist, pfxinfo>>

\* sv.s of the lanes, or vnop and mfvc, compared with the emulation.
Mismatch ==
  IF HasOutput(t) THEN Miscompare(t, Final(t, i, round), regs["rd"])
  ELSE Mfvc(Vector(ctl), 131) # Word(EmulatedCc(t, i, round))

\* The bit of pfxinfo's error words that a kind of prefix has.
enum == [swz |-> 0, neg |-> 1, abs |-> 2, cst |-> 3, msk |-> 0, sat |-> 1]

\* Mutant: the bit replaces the others.
NoteAlone(pfx) ==
  [pfxinfo EXCEPT ![test].errors[pfx[1]] = {enum[pfx[2]]}]

Note(pfx) ==
  [pfxinfo EXCEPT ![test].errors[pfx[1]] = @ \cup {enum[pfx[2]]}]

\* Mutant: a round too many.
AdvanceOneMore ==
  IF round <= RoundCount(t)
  THEN round' = round + 1 /\ UNCHANGED <<test, i>>
  ELSE /\ round' = 1
       /\ IF i + 1 < InputCount(t) THEN i' = i + 1 /\ UNCHANGED test
          ELSE i' = 0 /\ test' = test + 1

\* After a round: the next one, the next input, or the next instruction.
Advance ==
  IF round < RoundCount(t)
  THEN round' = round + 1 /\ UNCHANGED <<test, i>>
  ELSE /\ round' = 1
       /\ IF i + 1 < InputCount(t) THEN i' = i + 1 /\ UNCHANGED test
          ELSE i' = 0 /\ test' = test + 1

\* Mutant: leaves the immediates and not the inputs.
BreakInner ==
  /\ round' = 1
  /\ IF i + 1 < InputCount(t) THEN i' = i + 1 /\ UNCHANGED test
     ELSE i' = 0 /\ test' = test + 1

\* errcnt++; break;
Break == round' = 1 /\ i' = 0 /\ test' = test + 1

Compare ==
  /\ pc = "read"
  /\ ctl' = IF HasOutput(t) THEN ctl ELSE Vector(ctl)
  /\ CASE ~Mismatch -> Advance /\ UNCHANGED <<errlist, pfxinfo>>
       [] Mismatch /\ Prefix(t, round) # NoPrefix ->
            pfxinfo' = Note(Prefix(t, round)) /\ Advance /\ UNCHANGED errlist
       [] OTHER ->
            /\ errlist' = Append(errlist, [test |-> test, i |-> i, round |-> round])
            /\ Break /\ UNCHANGED pfxinfo
  /\ pc' = "prologue"
  /\ UNCHANGED <<hw, regs>>

Next == Prologue \/ SetPrefix \/ Instruction \/ Compare

Spec == Init /\ [][Next]_vars

\* The line of the prefix validity matrix: operand -> kinds printed as ***.
Matrix(k) ==
  [reg \in pfxinfo[k].tested |->
     {op \in IF reg = "rd" THEN {"msk", "sat"} ELSE {"swz", "neg", "abs", "cst"} :
        enum[op] \in pfxinfo[k].errors[reg]}]

-----------------------------------------------------------------------------
(* Properties.                                                              *)

TypeOK ==
  /\ hw \in Hardware
  /\ test \in 1..Len(Tests) + 1 /\ i \in Nat /\ round \in Nat \ {0}
  /\ test <= Len(Tests) => i < InputCount(t) /\ round <= RoundCount(t)
  /\ pc \in {"prologue", "prefix", "inst", "read"}
  /\ \A reg \in DOMAIN regs, l \in 0..3 : regs[reg][l] \in Int
  /\ Len(errlist) < test
  /\ \A k \in DOMAIN pfxinfo : \A reg \in {"rs", "rt", "rd"} :
       pfxinfo[k].errors[reg] \subseteq 0..(IF reg = "rd" THEN 1 ELSE 3)

\* What the hardware does in a round that nothing before it has touched.
Alone(k, x, r) ==
  LET u   == Tests[k]
      pfx == IF Prefix(u, r) = NoPrefix THEN DefaultPrefixes
             ELSE [DefaultPrefixes EXCEPT ![Reg[Prefix(u, r)[1]]] = Prefix(u, r)[3]]
  IN IF HasOutput(u)
     THEN ExecuteValues(hw, u, Imm(u, r), Ref(u, "rs", x), Ref(u, "rt", x), CcRef(u, x), Zeros, pfx)
     ELSE Aggregate({}, u.n, ExecuteTruths(hw, u, Imm(u, r), Ref(u, "rs", x), Ref(u, "rt", x), pfx))

\* Beyond the accuracy the instruction is tested for. A NaN hides any error,
\* and so does an infinity of the hardware where errors are relative to it.
Outside(accuracy, want, got) ==
  LET margin == IF accuracy[1] = "relative" THEN Abs(got) \div accuracy[2] ELSE accuracy[2]
      hidden == NaN \in {want, got} \/ (accuracy[1] = "relative" /\ got \in {Inf, -Inf})
  IN IF accuracy[1] = "exact" THEN fpdif(want, got)
     ELSE ~hidden /\ want \notin got - margin..got + margin

Differs(k, x, r) ==
  IF HasOutput(Tests[k])
  THEN \E l \in Lanes(Tests[k].n) :
         Outside(Tests[k].accuracy, Final(Tests[k], x, r)[l], Alone(k, x, r)[l])
  ELSE EmulatedCc(Tests[k], x, r) # Alone(k, x, r)

Failing(k) == {x \in 0..InputCount(Tests[k])-1 :
                 \E r \in 1..RoundCount(Tests[k]) :
                   Prefix(Tests[k], r) = NoPrefix /\ Differs(k, x, r)}

Tried(k) == IF Failing(k) = {} THEN 0..InputCount(Tests[k])-1 ELSE 0..Min(Failing(k))

\* The first input and immediate that show it; none if there are none.
Report(k) ==
  {e \in [test : {k}, i : Failing(k), round : 1..RoundCount(Tests[k])] :
     /\ e.i = Min(Failing(k))
     /\ Prefix(Tests[k], e.round) = NoPrefix /\ Differs(k, e.i, e.round)
     /\ \A q \in 1..e.round-1 : Prefix(Tests[k], q) = NoPrefix => ~Differs(k, e.i, q)}

Marked(k, reg, op) ==
  \E x \in Tried(k), r \in 1..RoundCount(Tests[k]) :
    Prefix(Tests[k], r)[1] = reg /\ Prefix(Tests[k], r)[2] = op /\ Differs(k, x, r)

Ended == test > Len(Tests)

\* run_tests reports every instruction the hardware miscomputes once, with the
\* first input and immediate that show it, and no other: no round is disturbed
\* by what the one before it left in M400, in the condition code or in the
\* prefixes (gen-tests.py 249, 322).
VerdictExact ==
  Ended => \A k \in DOMAIN Tests :
    {errlist[e] : e \in {e \in DOMAIN errlist : errlist[e].test = k}} = Report(k)

\* The matrix marks a kind of prefix exactly when some round with it, up to the
\* input at which the instruction itself failed, gives another result than the
\* emulation (gen-tests.py 317-322, main.c 47-72).
PrefixMatrixExact ==
  Ended => \A k \in DOMAIN Tests : \A reg \in pfxinfo[k].tested :
    Matrix(k)[reg] = {op \in DOMAIN enum : Marked(k, reg, op)}

\* A swizzle of one element is the identity, vzero has nothing to show, and of
\* x and -x one has no logarithm: emulation or hardware give the NaN that
\* passes every comparison.
Visible(k, reg, op) ==
  /\ Tests[k].kind # "vzero" /\ ~(op = "swz" /\ Tests[k].n = 1)
  /\ ~(Tests[k].kind = "vlog2" /\ op \in {"neg", "abs"})

\* On hardware that computes right the matrix is the truth about it: a kind of
\* prefix is marked if and only if the instruction ignores one of its words,
\* visible kinds only ("validates ... instruction prefix validity",
\* gen-tests.py 5-8).
MatrixShowsHardware ==
  Ended /\ hw.when = {} =>
    \A k \in DOMAIN Tests : \A reg \in pfxinfo[k].tested : \A op \in DOMAIN enum :
      op \in Matrix(k)[reg] <=>
        /\ Tests[k].name = hw.name /\ Visible(k, reg, op)
        /\ \E c \in DOMAIN pfxl[Tests[k]] :
             /\ pfxl[Tests[k]][c][1] = reg /\ pfxl[Tests[k]][c][2] = op
             /\ <<reg, pfxl[Tests[k]][c][3]>> \in hw.ignored

\* An instruction with a result that is not the expected one is reported: the
\* comparison "checks for equality and returns 1 on differences"
\* (test-utils.c). The numbers of the model are far from a unit apart.
DeviationsReported ==
  Ended => \A k \in DOMAIN Tests :
    (\E x \in 0..InputCount(Tests[k])-1, r \in 1..RoundCount(Tests[k]) :
       /\ Prefix(Tests[k], r) = NoPrefix /\ HasOutput(Tests[k])
       /\ \E l \in Lanes(Tests[k].n) : Final(Tests[k], x, r)[l] # Alone(k, x, r)[l])
    => \E e \in DOMAIN errlist : errlist[e].test = k
=============================================================================

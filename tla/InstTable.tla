----------------------------- MODULE InstTable -----------------------------
(***************************************************************************)
(* The encodings and instructions of inst-vfpu-desc.yaml, as InstDb takes  *)
(* them: the bits of every instruction, and its flavors.                   *)
(***************************************************************************)
EXTENDS InstDb

F(name, size) == [field |-> name, size |-> size]

LayoutNames ==
  {"vfpu-fixedop", "vfpu-prefix", "vfpu-memory", "vfpu-memory-quad", "vfpu-alu",
   "vfpu-alu-m1", "vfpu-alu-compare", "vector-imm5", "vector-imm8",
   "vector-imm16", "vfpu-condmove", "vfpu-branch", "vfpu-gpr-control",
   "vfpu-write-control", "vfpu-read-control"}

Layouts ==
  [name \in LayoutNames |->
    CASE name = "vfpu-fixedop" ->
           <<F("opcode", 32)>>
      [] name = "vfpu-prefix" ->
           <<F("opcode", 6), F("ptype", 2), F("imm24", 24)>>
      [] name = "vfpu-memory" ->
           <<F("opcode", 6), F("gpr", 5), F("rtlo", 5), F("offset", 14),
             F("rthi", 2)>>
      [] name = "vfpu-memory-quad" ->
           <<F("opcode", 6), F("gpr", 5), F("rtlo", 5), F("offset", 14),
             F("partop", 1), F("rthi", 1)>>
      [] name = "vfpu-alu" ->
           <<F("opcode", 9), F("rt", 7), F("sizehi", 1), F("rs", 7),
             F("sizelo", 1), F("rd", 7)>>
      [] name = "vfpu-alu-m1" ->
           <<F("opcode", 9), F("rt", 7), F("sizehi-m1", 1), F("rs", 7),
             F("sizelo-m1", 1), F("rd", 7)>>
      [] name = "vfpu-alu-compare" ->
           <<F("opcode", 9), F("rt", 7), F("sizehi", 1), F("rs", 7),
             F("sizelo", 1), Str(3, \b000), F("cond", 4)>>
      [] name = "vector-imm5" ->
           <<F("opcode", 9), F("opcode2", 2), F("imval", 5), F("sizehi", 1),
             F("rs", 7), F("sizelo", 1), F("rd", 7)>>
      [] name = "vector-imm8" ->
           <<F("opcode", 8), F("imval", 8), F("sizehi", 1), F("rs", 7),
             F("sizelo", 1), F("rd", 7)>>
      [] name = "vector-imm16" ->
           <<F("opcode", 8), F("itype", 1), F("rd", 7), F("imval", 16)>>
      [] name = "vfpu-condmove" ->
           <<F("opcode", 12), F("rcond", 1), F("cc_sel", 3), F("sizehi", 1),
             F("rs", 7), F("sizelo", 1), F("rd", 7)>>
      [] name = "vfpu-branch" ->
           <<F("opcode", 11), F("vfpucc", 3), F("likely", 1), F("value", 1),
             F("offset", 16)>>
      [] name = "vfpu-gpr-control" ->
           <<Str(8, \b01001000), F("direction", 1), Str(2, \b11), F("gpr", 5),
             Str(8, \b00000000), F("ccreg", 8)>>
      [] name = "vfpu-write-control" ->
           <<Str(17, \b11010000010100010), F("rs", 7), F("ccreg", 8)>>
      [] name = "vfpu-read-control" ->
           <<Str(16, \b1101000001010000), F("ccreg", 8), Str(1, \b0), F("rd", 7)>>]

-----------------------------------------------------------------------------
(* Entries, by the encodings they share. Flavors: the sizes of "sptq", or   *)
(* an instruction that has none.                                            *)

Plain == <<0>>
S == <<1>>
P == <<2>>
T == <<3>>
Q == <<4>>
SP == <<1, 2>>
PQ == <<2, 4>>
PTQ == <<2, 3, 4>>
SPTQ == <<1, 2, 3, 4>>
STPQ == <<1, 3, 2, 4>>

Entry(name, encoding, fixed, flavors) ==
  [name |-> name, encoding |-> encoding, fixed |-> fixed, flavors |-> flavors]

Str32(hi, lo) == [size |-> 32, ones |-> At(16, Ones(hi, 16)) \cup Ones(lo, 16)]

Op(n) == Str(9, n)

\* Arithmetic with two register sources, one, or none (rs then is zero).
Alu(name, op, flavors)   == Entry(name, "vfpu-alu", [opcode |-> Op(op)], flavors)
AluM1(name, op, flavors) == Entry(name, "vfpu-alu-m1", [opcode |-> Op(op)], flavors)
One(name, op, rt, flavors) ==
  Entry(name, "vfpu-alu", [opcode |-> Op(op), rt |-> Str(7, rt)], flavors)
Zero(name, op, rt, flavors) ==
  Entry(name, "vfpu-alu", [opcode |-> Op(op), rt |-> Str(7, rt), rs |-> Str(7, 0)], flavors)
Alu1(name, rt, flavors) == One(name, \b110100000, rt, flavors)
Alu0(name, rt, flavors) == Zero(name, \b110100000, rt, flavors)
Mat1(name, rt, flavors) == One(name, \b111100111, rt, flavors)
Mat0(name, rt, flavors) == Zero(name, \b111100111, rt, flavors)
Imm5(name, op, op2, flavors) ==
  Entry(name, "vector-imm5", [opcode |-> Op(op), opcode2 |-> Str(2, op2)], flavors)
Quad(name, op, part) ==
  Entry(name, "vfpu-memory-quad", [opcode |-> Str(6, op), partop |-> Num(part)], Plain)
Branch(name, likely, value) ==
  Entry(name, "vfpu-branch",
        [opcode |-> Str(11, \b01001001000), likely |-> Num(likely), value |-> Num(value)], Plain)

-----------------------------------------------------------------------------
\* Branches on the condition code.
Branches ==
  <<Branch("bvf", 0, 0), Branch("bvfl", 1, 0), Branch("bvt", 0, 1),
    Branch("bvtl", 1, 1)>>

\* Moves to and from the control registers.
ControlMoves ==
  <<Entry("mtvc", "vfpu-gpr-control", [direction |-> Num(1)], Plain),
    Entry("mfvc", "vfpu-gpr-control", [direction |-> Num(0)], Plain),
    Entry("vmtvc", "vfpu-write-control", <<>>, Plain),
    Entry("vmfvc", "vfpu-read-control", <<>>, Plain)>>

\* Loads and stores.
MemoryOps ==
  <<Entry("lv.s", "vfpu-memory", [opcode |-> Str(6, \b110010)], Plain),
    Quad("lv.q", \b110110, 0), Quad("lvl.q", \b110101, 0),
    Quad("lvr.q", \b110101, 1),
    Entry("sv.s", "vfpu-memory", [opcode |-> Str(6, \b111010)], Plain),
    Quad("sv.q", \b111110, 0), Quad("svl.q", \b111101, 0),
    Quad("svr.q", \b111101, 1)>>

\* Two sources.
BinaryOps ==
  <<Alu("vadd", \b011000000, SPTQ), Alu("vsub", \b011000001, SPTQ),
    Alu("vmul", \b011001000, SPTQ), Alu("vdiv", \b011000111, SPTQ),
    Alu("vmin", \b011011010, SPTQ), Alu("vmax", \b011011011, SPTQ),
    Alu("vscmp", \b011011101, SPTQ), Alu("vsge", \b011011110, SPTQ),
    Alu("vslt", \b011011111, SPTQ), Alu("vcrs", \b011001101, T),
    Alu("vcrsp", \b111100101, T), Alu("vqmul", \b111100101, Q),
    Alu("vsbn", \b011000010, S), Alu("vscl", \b011001010, PTQ),
    Alu("vdot", \b011001001, PTQ), Alu("vdet", \b011001110, P),
    Alu("vhdp", \b011001100, PTQ)>>

\* One source, to the conversions.
UnaryOps ==
  <<Alu1("vmov", \b0000000, SPTQ), Alu1("vabs", \b0000001, SPTQ),
    Alu1("vneg", \b0000010, SPTQ), Alu1("vsat0", \b0000100, SPTQ),
    Alu1("vsat1", \b0000101, SPTQ), Alu1("vrcp", \b0010000, SPTQ),
    Alu1("vrsq", \b0010001, SPTQ), Alu1("vsin", \b0010010, SPTQ),
    Alu1("vcos", \b0010011, SPTQ), Alu1("vexp2", \b0010100, SPTQ),
    Alu1("vlog2", \b0010101, SPTQ), Alu1("vlgb", \b0110111, S),
    Alu1("vsbz", \b0110110, S),
    Entry("vwbn", "vector-imm8", [opcode |-> Str(8, \b11010011)], S)>>

\* One source, continued.
MoreUnaryOps ==
  <<Alu1("vsqrt", \b0010110, SPTQ), Alu1("vasin", \b0010111, SPTQ),
    Alu1("vnrcp", \b0011000, SPTQ), Alu1("vnsin", \b0011010, SPTQ),
    Alu1("vrexp2", \b0011100, SPTQ), Alu1("vsrt1", \b1000000, Q),
    Alu1("vsrt2", \b1000001, Q), Alu1("vsrt3", \b1001000, Q),
    Alu1("vsrt4", \b1001001, Q), Alu1("vbfy1", \b1000010, PQ),
    Alu1("vbfy2", \b1000011, Q), Alu1("vsgn", \b1001010, SPTQ),
    Alu1("vocp", \b1000100, SPTQ)>>

\* Conversions with a scale, rotation, reductions and comparison.
Conversions ==
  <<Imm5("vi2f", \b110100101, \b00, SPTQ),
    Imm5("vf2in", \b110100100, \b00, SPTQ),
    Imm5("vf2iz", \b110100100, \b01, SPTQ),
    Imm5("vf2iu", \b110100100, \b10, SPTQ),
    Imm5("vf2id", \b110100100, \b11, SPTQ),
    Imm5("vrot", \b111100111, \b01, PTQ), Alu1("vsocp", \b1000101, SP),
    Alu1("vavg", \b1000111, PTQ), Alu1("vfad", \b1000110, PTQ),
    Entry("vcmp", "vfpu-alu-compare", [opcode |-> Str(9, \b011011000)], SPTQ)>>

\* No source.
Generators ==
  <<Alu0("vidt", \b0000011, PQ), Alu0("vzero", \b0000110, SPTQ),
    Alu0("vone", \b0000111, SPTQ),
    Entry("vrnds", "vfpu-alu", [opcode |-> Str(9, \b110100000), rt |-> Str(7, \b0100000), rd |-> Str(7, \b0000000)], S),
    Alu0("vrndi", \b0100001, SPTQ), Alu0("vrndf1", \b0100010, SPTQ),
    Alu0("vrndf2", \b0100011, SPTQ)>>

\* Matrices.
MatrixOps ==
  <<Alu("vmmul", \b111100000, PTQ), Alu("vmscl", \b111100100, PTQ),
    Mat1("vmmov", \b0000000, PTQ), Mat0("vmidt", \b0000011, PTQ),
    Mat0("vmzero", \b0000110, PTQ), Mat0("vmone", \b0000111, PTQ),
    Alu("vtfm2", \b111100001, P), Alu("vtfm3", \b111100010, T),
    Alu("vtfm4", \b111100011, Q), AluM1("vhtfm2", \b111100001, P),
    AluM1("vhtfm3", \b111100010, T), AluM1("vhtfm4", \b111100011, Q)>>

\* Conditional moves, packing and unpacking.
MovesAndPacks ==
  <<Entry("vcmovf", "vfpu-condmove", [opcode |-> Str(12, \b110100101010), rcond |-> Num(1)], STPQ),
    Entry("vcmovt", "vfpu-condmove", [opcode |-> Str(12, \b110100101010), rcond |-> Num(0)], STPQ),
    Alu1("vi2uc", \b0111100, Q), Alu1("vi2c", \b0111101, Q),
    Alu1("vi2us", \b0111110, PQ), Alu1("vi2s", \b0111111, PQ),
    Alu1("vf2h", \b0110010, PQ), Alu1("vs2i", \b0111011, SP),
    Alu1("vus2i", \b0111010, SP), Alu1("vc2i", \b0111001, S),
    Alu1("vuc2ifs", \b0111000, S), Alu1("vh2f", \b0110011, SP),
    Alu1("vt4444", \b1011001, Q), Alu1("vt5551", \b1011010, Q),
    Alu1("vt5650", \b1011011, Q)>>

\* Immediates, fixed words and prefixes.
ConstantsAndControl ==
  <<Entry("viim", "vector-imm16", [opcode |-> Str(8, \b11011111), itype |-> Num(0)], S),
    Entry("vfim", "vector-imm16", [opcode |-> Str(8, \b11011111), itype |-> Num(1)], S),
    Entry("vcst", "vector-imm5", [opcode |-> Str(9, \b110100000), opcode2 |-> Str(2, \b11), rs |-> Str(7, \b0000000)], SPTQ),
    Entry("vnop", "vfpu-fixedop", [opcode |-> Str32(\b1111111111111111, \b0000000000000000)], Plain),
    Entry("vflush", "vfpu-fixedop", [opcode |-> Str32(\b1111111111111111, \b0000010000001101)], Plain),
    Entry("vsync", "vfpu-fixedop", [opcode |-> Str32(\b1111111111111111, \b0000001100100000)], Plain),
    Entry("vpfxs", "vfpu-prefix", [opcode |-> Str(6, \b110111), ptype |-> Str(2, \b00)], Plain),
    Entry("vpfxt", "vfpu-prefix", [opcode |-> Str(6, \b110111), ptype |-> Str(2, \b01)], Plain),
    Entry("vpfxd", "vfpu-prefix", [opcode |-> Str(6, \b110111), ptype |-> Str(2, \b10)], Plain)>>

Instructions ==
  Branches \o ControlMoves \o MemoryOps \o BinaryOps \o UnaryOps \o MoreUnaryOps \o
  Conversions \o Generators \o MatrixOps \o MovesAndPacks \o ConstantsAndControl
=============================================================================

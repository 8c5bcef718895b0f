--------------------------- MODULE MCVfpuPipeline ---------------------------
(***************************************************************************)
(* Instances of the pipeline for TLC. Values are terms: the value of a     *)
(* lane is the operation applied to the values it read, so two files are   *)
(* equal exactly when every real operation would make them equal.          *)
(***************************************************************************)
EXTENDS VfpuIsa, VfpuPipeline

\* Every way of filling the register fields of a shape.
AllOf(op, shape) == {Decoded(op, shape, regs) : regs \in RegisterChoices(shape)}

\* One instruction of every overlap class and way of splitting into passes,
\* few enough for programs of two instructions.
Paired2 ==
  LET near(i) == i.dst[0] \in {0, 1} /\ \A o \in DOMAIN i.src : i.src[o][0] \in {0, 1}
  IN {i \in UNION {AllOf("vcos.p", Transcendental(2)), AllOf("vmmov.p", Vmmov(2)),
                   AllOf("vdiv.p", Vdiv(2)), AllOf("vmmul.p", Vmmul(2)),
                   AllOf("vbfy1.p", Adjacent(2))} : near(i)}

\* Every shape of the instruction table with every choice of source registers
\* in one matrix. Of the destinations the first of each half will do: what a
\* legal instruction can tell apart is which elements its registers share, and
\* rows are columns, and the other columns the first, up to renaming them. Left
\* out are the vhtfm2.p and vhtfm3.t that the erratum hits (VfpuIsa, Written):
\* they are documented not to compute their pseudo-code.
AllInto0(op, shape) ==
  {i \in {Decoded(op, shape, regs) : regs \in {r \in RegisterChoices(shape) : r.rd \in {0, 64}}} :
     Faithful(i)}

Alone ==
  UNION {AllInto0("vcos.q", Transcendental(4)), AllInto0("vcos.t", Transcendental(3)),
         AllInto0("vmmov.t", Vmmov(3)), AllInto0("vmmov.p", Vmmov(2)),
         AllInto0("vmscl.t", Vmscl(3)), AllInto0("vmscl.p", Vmscl(2)),
         AllInto0("vmmul.p", Vmmul(2)), AllInto0("vmidt.t", MatrixInit(3)),
         AllInto0("vtfm2.p", Vtfm(2, 2)), AllInto0("vhtfm2.p", Vtfm(2, 1)),
         AllInto0("vtfm3.t", Vtfm(3, 3)), AllInto0("vhtfm3.t", Vtfm(3, 2)),
         AllInto0("vqmul.q", Vqmul), AllInto0("vcrsp.t", Vcrsp), AllInto0("vcrs.t", Vcrs),
         AllInto0("vdiv.p", Vdiv(2)), AllInto0("vadd.q", Elementwise(4)),
         AllInto0("vscl.p", Vscl(2)), AllInto0("vdot.q", Reduce2(4)),
         AllInto0("vhdp.q", Vhdp(4)), AllInto0("vavg.q", Reduce(4)),
         AllInto0("vrot.q", Vrot(4)), AllInto0("vs2i.p", Expand(2, 2)),
         AllInto0("vi2s.q", Pack2(4)), AllInto0("vsrt1.q", Adjacent(4)),
         AllInto0("vsrt2.q", Mirrored), AllInto0("vbfy2.q", Halves),
         AllInto0("vmov.t", Unary(3)), AllInto0("vcmovt.p", Condmove(2)),
         AllInto0("vzero.q", Nullary(4, "bit-manipulation")),
         AllInto0("vrndi.p", Draw(2)), AllInto0("vi2f.p", Conversion(2))}

\* Names without parameters, so that TLC computes the tables once.
Pairs == Paired2
Table == Alone
Both  == Pairs \cup Table

TermApply(op, lane, read) == <<op, lane, read>>

InitialTerms == [x \in Elements |-> <<"initial", x>>]

\* A program is either two instructions of Pairs or one of the whole table.
VARIABLE program

MCInit == Init /\ program \in {"pairs", "table"}

MCNext ==
  /\ \/ Pass
     \/ program = "pairs" /\ \E i \in Pairs : Issue(i)
     \/ program = "table" /\ issued = 0 /\ \E i \in Table : Issue(i)
  /\ UNCHANGED program

MCSpec == MCInit /\ [][MCNext]_<<vars, program>>
=============================================================================

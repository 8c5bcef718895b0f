------------------------------ MODULE VfpuIsa ------------------------------
(***************************************************************************)
(* The vector instructions of inst-vfpu-desc.yaml by their dataflow: which *)
(* operands an instruction of n elements has, which operand elements the   *)
(* pseudo-code of each result lane mentions, the declared overlap class    *)
(* (reg-compat) and the performance class. Instructions with one dataflow  *)
(* share a definition; what their lanes compute is left uninterpreted.     *)
(***************************************************************************)
EXTENDS VfpuRegs

Upto(n) == 0..n-1

\* Operand descriptions: kind and size, as expsize() derives them from the
\* operand table and the flavor.
Single    == [kind |-> "single", n |-> 1]
Vector(n) == [kind |-> "vector", n |-> n]
Square(n) == [kind |-> "matrix", n |-> n]

\* Element counts (cntelem).
Count(opd) == CASE opd.kind = "single" -> 1
                [] opd.kind = "vector" -> opd.n
                [] opd.kind = "matrix" -> opd.n * opd.n

Shape(out, in, reads, compat, perf) ==
  [out |-> out, in |-> in, reads |-> reads, compat |-> compat, perf |-> perf]

One(r)     == [o \in {"rs"} |-> r]
Two(r, s)  == [o \in {"rs", "rt"} |-> IF o = "rs" THEN r ELSE s]
None       == [o \in {} |-> Single]
RS(K)      == {"rs"} \X K
RT(K)      == {"rt"} \X K

-----------------------------------------------------------------------------
(* Binary vector operations.                                                *)

\* vadd vsub vmul vmin vmax vscmp vsge vslt, and vsbn on one element
Elementwise(n) ==
  Shape(Vector(n), Two(Vector(n), Vector(n)),
        [i \in Upto(n) |-> RS({i}) \cup RT({i})], "any", "arithmetic")

Vdiv(n) ==
  Shape(Vector(n), Two(Vector(n), Vector(n)),
        [i \in Upto(n) |-> RS({i}) \cup RT({i})], "partial-overlap", "division")

Vcrs ==
  Shape(Vector(3), Two(Vector(3), Vector(3)),
        [i \in Upto(3) |-> RS({(i+1) % 3}) \cup RT({(i+2) % 3})], "any", "arithmetic")

Vcrsp ==
  Shape(Vector(3), Two(Vector(3), Vector(3)),
        [i \in Upto(3) |-> RS(Upto(3) \ {i}) \cup RT(Upto(3) \ {i})],
        "no-overlap", "transform")

Vqmul ==
  Shape(Vector(4), Two(Vector(4), Vector(4)),
        [i \in Upto(4) |-> RS(Upto(4)) \cup RT(Upto(4))], "no-overlap", "transform")

Vscl(n) ==
  Shape(Vector(n), Two(Vector(n), Single),
        [i \in Upto(n) |-> RS({i}) \cup RT({0})], "any", "arithmetic")

\* vdot, vdet; vhdp reads the last element of rt alone
Reduce2(n) ==
  Shape(Single, Two(Vector(n), Vector(n)),
        [i \in {0} |-> RS(Upto(n)) \cup RT(Upto(n))], "any", "arithmetic-reduction")

Vhdp(n) ==
  Shape(Single, Two(Vector(n), Vector(n)),
        [i \in {0} |-> RS(Upto(n-1)) \cup RT(Upto(n))], "any", "arithmetic-reduction")

-----------------------------------------------------------------------------
(* Unary vector operations.                                                 *)

\* vmov vabs vneg vsat0 vsat1
Unary(n) ==
  Shape(Vector(n), One(Vector(n)), [i \in Upto(n) |-> RS({i})],
        "any", "bit-manipulation")

\* vsgn vocp, and the conversions vi2f vf2in vf2iz vf2iu vf2id: the scale, an
\* immediate, is part of the operation
Conversion(n) == [Unary(n) EXCEPT !.perf = "arithmetic"]

\* vrcp vrsq vsin vcos vexp2 vlog2 vsqrt vasin vnrcp vnsin vrexp2
Transcendental(n) ==
  Shape(Vector(n), One(Vector(n)), [i \in Upto(n) |-> RS({i})],
        "partial-overlap", "transcendental")

\* vsrt1 vsrt3 and vbfy1 pair 0-1 and 2-3; vsrt2 vsrt4 pair 0-3 and 1-2;
\* vbfy2 pairs 0-2 and 1-3
Paired(n, mate) ==
  Shape(Vector(n), One(Vector(n)), [i \in Upto(n) |-> RS({i, mate[i]})],
        "any", "arithmetic")

Adjacent(n) == Paired(n, [i \in Upto(n) |-> IF i % 2 = 0 THEN i + 1 ELSE i - 1])
Mirrored    == Paired(4, [i \in Upto(4) |-> 3 - i])
Halves      == Paired(4, [i \in Upto(4) |-> (i + 2) % 4])

Vrot(n) ==
  Shape(Vector(n), One(Single), [i \in Upto(n) |-> RS({0})], "no-overlap", "rot-matrix")

\* vsocp vs2i vus2i vh2f (two lanes per element), vc2i vuc2ifs (four)
Expand(n, by) ==
  Shape(Vector(n * by), One(Vector(n)), [i \in Upto(n * by) |-> RS({i \div by})],
        "any", "bit-manipulation")

\* vavg vfad, and the packs vi2uc vi2c (to one element)
Reduce(n) ==
  Shape(Single, One(Vector(n)), [i \in {0} |-> RS(Upto(n))],
        "any", "arithmetic-reduction")

\* vi2us vi2s vf2h vt4444 vt5551 vt5650 (two elements per lane)
Pack2(n) ==
  Shape(Vector(n \div 2), One(Vector(n)),
        [i \in Upto(n \div 2) |-> RS({2*i, 2*i + 1})], "any", "bit-manipulation")

\* vcmovf vcmovt: a lane that is not moved keeps what rd held
Condmove(n) ==
  Shape(Vector(n), [o \in {"rd", "rs"} |-> Vector(n)],
        [i \in Upto(n) |-> {"rd", "rs"} \X {i}], "any", "arithmetic")

\* vidt vzero vone, and vcst with an immediate
Nullary(n, perf) ==
  Shape(Vector(n), None, [i \in Upto(n) |-> {}], "any", perf)

\* vrndi vrndf1 vrndf2
Draw(n) == Nullary(n, "random-draw")

-----------------------------------------------------------------------------
(* Matrix operations. The pseudo-code's {c} is i % n and its {r} i \div n    *)
(* (expand_pcode in gen-tests.py).                                          *)

Vmmul(n) ==
  Shape(Square(n), Two(Square(n), Square(n)),
        [i \in Upto(n*n) |->
           RS({(i % n) * n + k : k \in Upto(n)}) \cup RT({(i \div n) * n + k : k \in Upto(n)})],
        "no-overlap", "matrix-multiplication")

Vmscl(n) ==
  Shape(Square(n), Two(Square(n), Single),
        [i \in Upto(n*n) |-> RS({i}) \cup RT({0})], "partial-overlap", "matrix-scaling")

Vmmov(n) ==
  Shape(Square(n), One(Square(n)), [i \in Upto(n*n) |-> RS({i})],
        "partial-overlap", "matrix-init")

\* vmidt vmzero vmone
MatrixInit(n) ==
  Shape(Square(n), None, [i \in Upto(n*n) |-> {}], "any", "matrix-init")

\* vtfm2/3/4 with n terms; the homogeneous vhtfm2/3/4 with n - 1, the last
\* element of rt being taken as 1 (where the smaller two go wrong: Written)
Vtfm(n, terms) ==
  Shape(Vector(n), Two(Square(n), Vector(n)),
        [i \in Upto(n) |-> RS({n*i + k : k \in Upto(n)}) \cup RT(Upto(terms))],
        "no-overlap", "transform")

-----------------------------------------------------------------------------
(* Performance classes: the throughput figure is the number of passes an    *)
(* instruction of n elements keeps its unit busy for (14 cycles each for    *)
(* the division, 3 for a random draw).                                      *)
PassCount(perf, n) ==
  CASE perf = "matrix-multiplication" -> n * n
    [] perf = "rot-matrix" -> IF n > 1 THEN 2 ELSE 1
    [] perf \in {"transcendental", "transform", "random-draw", "matrix-init",
                 "matrix-scaling", "division"} -> n
    [] OTHER -> 1

\* The lanes are produced in order, evenly spread over the passes.
PassOf(shape) ==
  LET total == Count(shape.out)
  IN [i \in Upto(total) |-> (i * PassCount(shape.perf, shape.out.n)) \div total]

-----------------------------------------------------------------------------
(* The erratum of vhtfm2.p and vhtfm3.t: with rd in the second half of its  *)
(* line, the result lands one element before the named ones (vhtfm2.p) or   *)
(* one after, wrapping around the line (vhtfm3.t).                          *)
Erroneous == {"vhtfm2.p", "vhtfm3.t"}

\* The whole row or column a register number is part of.
Line(r) == VectorElements(4, r % 64)

Written(op, opd, rd) ==
  LET n    == opd.n
      slip == IF n = 2 THEN -1 ELSE 1
  IN IF op \in Erroneous /\ Half(rd) = 1
     THEN [k \in Upto(n) |-> Line(rd)[(k + (4 - n) + slip) % 4]]
     ELSE SubRegs(opd.kind, n, rd)

-----------------------------------------------------------------------------
\* The instruction obtained by filling the register fields of a shape.
Decoded(op, shape, regs) ==
  [op      |-> op,
   compat  |-> shape.compat,
   dst     |-> SubRegs(shape.out.kind, shape.out.n, regs["rd"]),
   written |-> Written(op, shape.out, regs["rd"]),
   src     |-> [o \in DOMAIN shape.in |-> SubRegs(shape.in[o].kind, shape.in[o].n, regs[o])],
   reads   |-> shape.reads,
   pass    |-> PassOf(shape)]

\* Every way of filling them.
RegisterChoices(shape) ==
  LET choices(opd) == RegNumbers(opd.kind, opd.n)
  IN CASE DOMAIN shape.in = {} -> [rd : choices(shape.out)]
       [] DOMAIN shape.in \ {"rd"} = {"rs"} ->
            [rd : choices(shape.out), rs : choices(shape.in["rs"])]
       [] DOMAIN shape.in = {"rs", "rt"} ->
            [rd : choices(shape.out), rs : choices(shape.in["rs"]),
             rt : choices(shape.in["rt"])]
=============================================================================

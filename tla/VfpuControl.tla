---------------------------- MODULE VfpuControl ----------------------------
(***************************************************************************)
(* The control registers of the VFPU, as the instruction table documents   *)
(* them: the three operand prefixes ($128 to $130), set by a vpfx and      *)
(* consumed by the next vector instruction whichever it is, and the        *)
(* condition code ($131), which vcmp writes, a branch reads at once and    *)
(* mfvc, having no interlock, reads one instruction late.                  *)
(*                                                                         *)
(* A control state is a record                                             *)
(*   pfx    operand -> prefix payload                                      *)
(*   cc     the condition code, as the set of its bits that are one        *)
(*   seen   the condition code that a mfvc issued now would read           *)
(* and every instruction maps a control state to the next one.             *)
(***************************************************************************)
EXTENDS Integers, FiniteSets

Sources  == {"s", "t"}
Prefixed == Sources \cup {"d"}

PayloadBits(r) == IF r \in Sources THEN 20 ELSE 12

\* Identity swizzle for the sources, neither saturation nor mask for rd.
DefaultPrefixes == [r \in Prefixed |-> IF r \in Sources THEN \hE4 ELSE 0]

Reset == [pfx |-> DefaultPrefixes, cc |-> {}, seen |-> {}]

\* Time for one more instruction has passed since a vcmp.
Settled(c) == [c EXCEPT !.seen = c.cc]

\* Mutant: the register keeps the whole field of the instruction.
VpfxUntrimmed(c, r, payload) == [Settled(c) EXCEPT !.pfx[r] = payload]

\* vpfxs, vpfxt, vpfxd: what the register held before is overridden.
Vpfx(c, r, payload) == [Settled(c) EXCEPT !.pfx[r] = payload % 2^PayloadBits(r)]

\* Any vector instruction, vnop included.
Vector(c) == [Settled(c) EXCEPT !.pfx = DefaultPrefixes]

\* Bits 0 to n-1 of the elements that compare true, bit 4 their or, 5 their
\* and; the bits of the elements n to 3 are left alone.
Aggregate(cc, n, true) ==
  (cc \ (0..n-1 \cup {4, 5})) \cup true
    \cup {b \in {4} : true # {}} \cup {b \in {5} : true = 0..n-1}

Vcmp(c, n, true) ==
  [pfx |-> DefaultPrefixes, cc |-> Aggregate(c.cc, n, true), seen |-> c.cc]

Mtvc(c, bits) == [c EXCEPT !.cc = bits, !.seen = bits]

\* The number that the six bits of a condition code make.
Word(bits) ==
  LET bit(b) == IF b \in bits THEN 2^b ELSE 0
  IN bit(0) + bit(1) + bit(2) + bit(3) + bit(4) + bit(5)

\* What mfvc moves to a general register; it consumes nothing.
Mfvc(c, number) ==
  CASE number = 128 -> c.pfx["s"]
    [] number = 129 -> c.pfx["t"]
    [] number = 130 -> c.pfx["d"]
    [] number = 131 -> Word(c.seen)

Branches(c, bit, value) == (bit \in c.cc) = value
=============================================================================

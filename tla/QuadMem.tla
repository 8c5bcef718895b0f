------------------------------ MODULE QuadMem ------------------------------
(***************************************************************************)
(* What the pseudo-instructions ulv.q and usv.q promise: one move of four  *)
(* consecutive words between memory and a quad register, wherever the      *)
(* words are.                                                              *)
(***************************************************************************)
EXTENDS Integers

CONSTANTS
  Size,     \* words of memory
  Quads,    \* quad registers
  Values,   \* values of a word
  Bytes     \* the low bits of an address that occur

VARIABLES
  mem,      \* word number -> value
  vreg      \* quad register -> lane -> value

Words == 0..Size-1
Lanes == 0..3

\* Byte addresses whose four words are in memory; the two low bits are ignored.
Addresses == {a \in 0..4*Size-1 : a \div 4 + 3 < Size /\ a % 4 \in Bytes}

Quad(m, w)     == [j \in Lanes |-> m[w + j]]
Written(m, w, quad) == [x \in Words |-> IF x - w \in Lanes THEN quad[x - w] ELSE m[x]]

Init == mem \in [Words -> Values] /\ vreg \in [Quads -> [Lanes -> Values]]

Load(r, a)  == vreg' = [vreg EXCEPT ![r] = Quad(mem, a \div 4)] /\ UNCHANGED mem
Store(r, a) == mem' = Written(mem, a \div 4, vreg[r]) /\ UNCHANGED vreg

\* Any other instruction, as it writes a lane of the register.
Compute(r, j, v) == vreg' = [vreg EXCEPT ![r][j] = v] /\ UNCHANGED mem

Next == \E r \in Quads :
          \/ \E a \in Addresses : Load(r, a) \/ Store(r, a)
          \/ \E j \in Lanes, v \in Values : Compute(r, j, v)

Spec == Init /\ [][Next]_<<mem, vreg>>
=============================================================================

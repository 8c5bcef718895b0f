------------------------------ MODULE VfpuRegs ------------------------------
(***************************************************************************)
(* The VFPU register file as reginfo.py describes it: 128 single elements  *)
(* arranged as 8 matrices of 4x4, and the numbers under which an           *)
(* instruction names an element, a vector (2, 3 or 4 elements of a column  *)
(* or a row) or a matrix (2x2, 3x3 or 4x4, plain "M" or transposed "E").   *)
(*                                                                         *)
(* Element x lies in matrix (x \div 4) % 8, column x % 4, row x \div 32.   *)
(* reginfo.py enumerates every register with the list of its elements;     *)
(* here the same lists are closed forms over the number's bit fields:      *)
(* bits 0-1 column, bits 2-4 matrix, bit 5 direction, bit 6 second half.   *)
(***************************************************************************)
EXTENDS Integers, FiniteSets

CONSTANT NumMatrices   \* how many of the 8 matrices an instance uses

ASSUME NumMatricesAssumption == NumMatrices \in 1..8

Kinds == {"single", "vector", "matrix"}

Matrix(x)    == (x \div 4) % 8
Column(x)    == x % 4
Direction(r) == (r \div 32) % 2     \* 0: columns / M, 1: rows / E
Half(r)      == r \div 64           \* 0: from the first element, 1: up to the last

\* The elements of the file that the instance uses.
Elements == {x \in 0..127 : Matrix(x) < NumMatrices}

-----------------------------------------------------------------------------
(* Element lists, numbered from 0 as the instructions' pseudo-code numbers  *)
(* its operands.                                                            *)

\* First element of the 4-element row that row number r (0..31) selects.
RowStart(r) == (r - Column(r)) + Column(r) * 32

VectorElements(n, r) ==
  LET line == r % 32
      skip == (4 - n) * Half(r)
  IN [k \in 0..n-1 |-> IF Direction(r) = 0
                       THEN line + 32 * (k + skip)
                       ELSE RowStart(line) + (k + skip)]

MatrixElements(n, r) ==
  LET origin == 4 * Matrix(r)
      far    == (4 - n) * Half(r)
      base   == IF Direction(r) = 0 THEN origin + Column(r) + 32 * far
                                    ELSE origin + far + 32 * Column(r)
  IN [k \in 0..n*n-1 |-> IF Direction(r) = 0
                         THEN base + (k % n) + 32 * (k \div n)
                         ELSE base + (k \div n) + 32 * (k % n)]

SubRegs(kind, n, r) ==
  CASE kind = "single" \/ (kind = "vector" /\ n = 1) -> [k \in {0} |-> r]
    [] kind = "vector" /\ n > 1 -> VectorElements(n, r)
    [] kind = "matrix" -> MatrixElements(n, r)

\* The numbers that name a register of this kind and size, within the
\* matrices of the instance.
RegNumbers(kind, n) ==
  LET all == {r \in 0..127 : Matrix(r) < NumMatrices}
  IN CASE kind = "single" \/ (kind = "vector" /\ n < 4) -> all
       [] kind = "vector" /\ n = 4 -> {r \in all : r < 64}
       [] kind = "matrix" -> {r \in all : /\ Column(r) \in {0, 4 - n}
                                          /\ n = 4 => r < 64}

\* reginfo.regcount: the bound of the generated loops over a kind.
RegCount(kind, n) ==
  CASE kind = "single" -> 128
    [] kind = "vector" -> IF n = 4 THEN 64 ELSE 128
    [] kind = "matrix" -> IF n = 4 THEN 16 ELSE 64

-----------------------------------------------------------------------------
(* Two registers that meet.                                                 *)

Mask(elems) == {elems[k] : k \in DOMAIN elems}

\* regcol() of the generated tests, and the set intersection of the
\* assembler tester: the registers share an element.
Collide(s1, s2) == Mask(s1) \cap Mask(s2) # {}

\* regcompatcol() of the generated tests: the same elements, read in the
\* same direction (bit 0x20 of both numbers).
CompatCollide(r1, s1, r2, s2) ==
  /\ Mask(s1) = Mask(s2)
  /\ Direction(r1) = Direction(r2)
=============================================================================

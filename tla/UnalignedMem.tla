---------------------------- MODULE UnalignedMem ----------------------------
(***************************************************************************)
(* Quad accesses to memory as memops.c validates them: lv.q and sv.q move  *)
(* an aligned quad; lvl, lvr, svl and svr move the part of a quad that     *)
(* lies in one 16-byte block, and the pairs ulv.q (lvl off+12, lvr off)    *)
(* and usv.q (svl off+12, svr off) together move any quad.                 *)
(***************************************************************************)
EXTENDS Integers

CONSTANTS
  Size,     \* words of memory
  Quads,    \* quad registers
  Values,   \* values of a word
  Bytes     \* the low bits of an address that occur

ASSUME SizeAssumption  == Size \in Nat
ASSUME QuadsAssumption == Quads # {}

VARIABLES
  mem,      \* word number -> value
  vreg,     \* quad register -> lane -> value
  half      \* the instruction of a pair that is left: [op, reg, at], op is
            \* "lvr", "svr" or "none"

vars == <<mem, vreg, half>>

Words     == 0..Size-1
Lanes     == 0..3
Addresses == {a \in 0..4*Size-1 : a \div 4 + 3 < Size /\ a % 4 \in Bytes}

NoHalf == "none"
Halves == {NoHalf, "lvr", "svr"}

-----------------------------------------------------------------------------
(* The partial accesses; a is a byte address, its two low bits are ignored. *)

Word(a)  == a \div 4
Place(a) == Word(a) % 4      \* of the word in its 16-byte block

\* Mutant: the left part ends before the word addressed.
LoadedLeftShort(m, quad, a) ==
  [j \in Lanes |-> IF j >= 3 - Place(a) /\ j < 3 THEN m[Word(a) - 3 + j] ELSE quad[j]]

\* The words of the block up to the one addressed, into the last lanes.
LoadedLeft(m, quad, a) ==
  [j \in Lanes |-> IF j >= 3 - Place(a) THEN m[Word(a) - 3 + j] ELSE quad[j]]

\* The words of the block from the one addressed, into the first lanes.
LoadedRight(m, quad, a) ==
  [j \in Lanes |-> IF j <= 3 - Place(a) THEN m[Word(a) + j] ELSE quad[j]]

StoredLeft(m, quad, a) ==
  [x \in Words |-> IF x \in Word(a) - Place(a)..Word(a) THEN quad[x - Word(a) + 3] ELSE m[x]]

\* Mutant: the last word of the block is left out.
StoredRightShort(m, quad, a) ==
  [x \in Words |-> IF x \in Word(a)..Word(a) + 2 - Place(a) THEN quad[x - Word(a)] ELSE m[x]]

StoredRight(m, quad, a) ==
  [x \in Words |-> IF x \in Word(a)..Word(a) + 3 - Place(a) THEN quad[x - Word(a)] ELSE m[x]]

-----------------------------------------------------------------------------
Init ==
  /\ mem \in [Words -> Values]
  /\ vreg \in [Quads -> [Lanes -> Values]]
  /\ half = [op |-> NoHalf, reg |-> CHOOSE r \in Quads : TRUE, at |-> 0]

Free == half.op = NoHalf

\* lv.q and sv.q fault on any other address (ExcCapture).
Lv(r, a) ==
  /\ Free /\ a % 16 = 0
  /\ vreg' = [vreg EXCEPT ![r] = [j \in Lanes |-> mem[Word(a) + j]]]
  /\ UNCHANGED <<mem, half>>

Sv(r, a) ==
  /\ Free /\ a % 16 = 0
  /\ mem' = [x \in Words |-> IF x - Word(a) \in Lanes THEN vreg[r][x - Word(a)] ELSE mem[x]]
  /\ UNCHANGED <<vreg, half>>

\* Mutant: the left half is one word short.
UlvShort(r, a) ==
  /\ Free
  /\ vreg' = [vreg EXCEPT ![r] = LoadedLeft(mem, @, a + 8)]
  /\ half' = [op |-> "lvr", reg |-> r, at |-> a]
  /\ UNCHANGED mem

\* lvl.q off+12, and lvr.q off to come.
Ulv(r, a) ==
  /\ Free
  /\ vreg' = [vreg EXCEPT ![r] = LoadedLeft(mem, @, a + 12)]
  /\ half' = [op |-> "lvr", reg |-> r, at |-> a]
  /\ UNCHANGED mem

Lvr ==
  /\ half.op = "lvr"
  /\ vreg' = [vreg EXCEPT ![half.reg] = LoadedRight(mem, @, half.at)]
  /\ half' = [half EXCEPT !.op = NoHalf]
  /\ UNCHANGED mem

\* Mutant: the second half uses the address of the first.
UsvSameAddress(r, a) ==
  /\ Free
  /\ mem' = StoredLeft(mem, vreg[r], a + 12)
  /\ half' = [op |-> "svr", reg |-> r, at |-> a + 12]
  /\ UNCHANGED vreg

\* svl.q off+12, and svr.q off to come.
Usv(r, a) ==
  /\ Free
  /\ mem' = StoredLeft(mem, vreg[r], a + 12)
  /\ half' = [op |-> "svr", reg |-> r, at |-> a]
  /\ UNCHANGED vreg

Svr ==
  /\ half.op = "svr"
  /\ mem' = StoredRight(mem, vreg[half.reg], half.at)
  /\ half' = [half EXCEPT !.op = NoHalf]
  /\ UNCHANGED vreg

\* Any other instruction, as it writes a lane.
Compute(r, j, v) ==
  /\ Free
  /\ vreg' = [vreg EXCEPT ![r][j] = v]
  /\ UNCHANGED <<mem, half>>

Next ==
  \/ \E r \in Quads, a \in Addresses : Lv(r, a) \/ Sv(r, a) \/ Ulv(r, a) \/ Usv(r, a)
  \/ \E r \in Quads, j \in Lanes, v \in Values : Compute(r, j, v)
  \/ Lvr \/ Svr

Spec == Init /\ [][Next]_vars

-----------------------------------------------------------------------------
(* Properties.                                                              *)

\* Every variable has its type: partial accesses stay inside register and memory.
TypeOK ==
  /\ mem \in [Words -> Values]
  /\ vreg \in [Quads -> [Lanes -> Values]]
  /\ half \in [op : Halves, reg : Quads, at : {0} \cup Addresses]
  /\ half.op # NoHalf => half.at \in Addresses

\* The lanes that the second half of a pair will not move.
Rest(a) == {j \in Lanes : j > 3 - Place(a)}

\* Between the two instructions of a pair, register and memory agree on every
\* lane the second one leaves alone: the pair tears no quad whatever its
\* alignment (memops.c 214-216).
HalfMoved ==
  half.op # NoHalf =>
    \A j \in Rest(half.at) : vreg[half.reg][j] = mem[Word(half.at) + j]

\* Memory and registers as they are when the pending half has been made.
FullMem == IF half.op = "svr"
           THEN [x \in Words |-> IF x - Word(half.at) \in Lanes
                                 THEN vreg[half.reg][x - Word(half.at)] ELSE mem[x]]
           ELSE mem
FullReg == IF half.op = "lvr"
           THEN [vreg EXCEPT ![half.reg] = [j \in Lanes |-> mem[Word(half.at) + j]]]
           ELSE vreg

Atomic == INSTANCE QuadMem WITH mem <- FullMem, vreg <- FullReg

\* A pair is one move of a quad, which happens at its first instruction.
ImplementsQuad == Atomic!Spec
=============================================================================

------------------------------ MODULE VfpuInst ------------------------------
(***************************************************************************)
(* One decoded vector instruction: which elements it writes, which it      *)
(* reads for each result lane, how strictly its operands may overlap, and  *)
(* the two ways of executing it that matter here: as the pseudo-code of    *)
(* inst-vfpu-desc.yaml does (every lane from the values the operands had   *)
(* before the instruction) and lane group by lane group.                   *)
(*                                                                         *)
(* An instruction is a record                                              *)
(*   op      what the lanes compute (uninterpreted, see Apply)             *)
(*   compat  "any", "partial-overlap" or "no-overlap" (reg-compat)         *)
(*   dst     lane -> element the register number names                     *)
(*   written lane -> element the hardware writes: dst, but for the erratum *)
(*           of VfpuIsa                                                    *)
(*   src     operand name -> (index -> element read)                       *)
(*   reads   lane -> set of <<operand, index>> its pseudo-code mentions    *)
(*   pass    lane -> the hardware pass that produces it                    *)
(***************************************************************************)
EXTENDS Integers, FiniteSets

CONSTANTS
  Regs,           \* the elements of the register file
  Insts,          \* the decoded instructions programs are made of
  Apply(_, _, _), \* value of an operation's lane, given the values it reads
  InitFile        \* contents of the file when the program starts

Lanes(i)        == DOMAIN i.dst
Operands(i)     == DOMAIN i.src
Passes(i)       == {i.pass[l] : l \in Lanes(i)}
Elems(list)     == {list[k] : k \in DOMAIN list}

-----------------------------------------------------------------------------
(* Well-formed instructions. The last two conjuncts tie the declared class  *)
(* to what the instruction does: one that claims no restriction finishes    *)
(* its reads in one pass, and one that tolerates identical registers reads, *)
(* from an operand as long as the result, only the lane it is writing.      *)

SinglePass(i) == \A l, m \in Lanes(i) : i.pass[l] = i.pass[m]

LaneLocal(i) ==
  \A l \in Lanes(i) : \A p \in i.reads[l] :
    DOMAIN i.src[p[1]] = Lanes(i) => p[2] = l

WellFormed(i) ==
  /\ i.compat \in {"any", "partial-overlap", "no-overlap"}
  /\ Lanes(i) # {}
  /\ \A l \in Lanes(i) : i.dst[l] \in Regs /\ i.pass[l] \in Nat
  /\ \A l, m \in Lanes(i) : i.dst[l] = i.dst[m] => l = m
  /\ \A l \in Lanes(i) : \A p \in i.reads[l] :
       /\ p[1] \in Operands(i)
       /\ p[2] \in DOMAIN i.src[p[1]]
       /\ i.src[p[1]][p[2]] \in Regs
  /\ i.compat = "any" => SinglePass(i) \/ \A l \in Lanes(i) : i.reads[l] = {}
  /\ i.compat = "partial-overlap" => LaneLocal(i)

IsFile(f) == f = [x \in Regs |-> f[x]]

ASSUME InstsAssumption == \A i \in Insts : WellFormed(i)
ASSUME FileAssumption  == IsFile(InitFile)

-----------------------------------------------------------------------------
(* The overlap restriction the assembler enforces before an instruction may *)
(* appear in a program (asm-tester.py check_overlap).                       *)

\* Faults the properties are held against (see README, "Mutants"): identical
\* registers taken as the same set of elements; only the first input looked
\* at; a no-overlap instruction allowed its own output as input.
LegalBySet(i) ==
  i.compat # "any" =>
    \A o \in Operands(i) : \/ Elems(i.dst) \cap Elems(i.src[o]) = {}
                           \/ i.compat = "partial-overlap" /\ Elems(i.src[o]) = Elems(i.dst)

LegalFirstInput(i) ==
  i.compat # "any" =>
    \A o \in Operands(i) \cap {"rs"} :
      \/ Elems(i.dst) \cap Elems(i.src[o]) = {}
      \/ i.compat = "partial-overlap" /\ i.src[o] = i.dst

LegalIdentical(i) ==
  i.compat # "any" =>
    \A o \in Operands(i) : Elems(i.dst) \cap Elems(i.src[o]) = {} \/ i.src[o] = i.dst

Legal(i) ==
  /\ i.compat = "no-overlap" =>
       \A o \in Operands(i) : Elems(i.dst) \cap Elems(i.src[o]) = {}
  /\ i.compat = "partial-overlap" =>
       \A o \in Operands(i) : \/ Elems(i.dst) \cap Elems(i.src[o]) = {}
                              \/ i.src[o] = i.dst

-----------------------------------------------------------------------------
(* Execution against a register file.                                       *)

Result(i, l, file) ==
  Apply(i.op, l, [p \in i.reads[l] |-> file[i.src[p[1]][p[2]]]])

\* The file after the lanes of L have been written to the elements the map
\* to gives them, all of them computed from the values in file.
Write(i, to, L, file) ==
  [x \in Regs |-> IF \E l \in L : to[l] = x
                  THEN Result(i, CHOOSE l \in L : to[l] = x, file)
                  ELSE file[x]]

WriteLanes(i, L, file) == Write(i, i.dst, L, file)

Execute(i, file)     == WriteLanes(i, Lanes(i), file)

ExecutePass(i, n, file) == Write(i, i.written, {l \in Lanes(i) : i.pass[l] = n}, file)

\* The hardware writes the elements the register number names.
Faithful(i) == i.written = i.dst
=============================================================================

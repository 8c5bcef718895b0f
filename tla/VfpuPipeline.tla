---------------------------- MODULE VfpuPipeline ----------------------------
(***************************************************************************)
(* The VFPU executing the same instructions pass by pass. The performance  *)
(* classes give the number of passes: one for the native vector-vector     *)
(* operations, one per lane (or per matrix element or column) for those    *)
(* the hardware decomposes. A pass reads its operands from the register    *)
(* file as the earlier passes of the same instruction have left it.        *)
(***************************************************************************)
EXTENDS VfpuInst

CONSTANTS
  NoInst,    \* the pipeline is idle
  MaxInsts   \* how many instructions the program issues (a bound)

ASSUME BoundAssumption == MaxInsts \in Nat /\ NoInst \notin Insts

VARIABLES
  file,      \* the register file
  inst,      \* the instruction in execution, or NoInst
  todo,      \* its passes not yet made
  issued,    \* instructions issued so far
  entry      \* history: the file when inst was issued

vars == <<file, inst, todo, issued, entry>>

Init ==
  /\ file = InitFile
  /\ inst = NoInst
  /\ todo = {}
  /\ issued = 0
  /\ entry = InitFile

\* Only what the assembler accepts reaches the pipeline.
Issue(i) ==
  /\ inst = NoInst
  /\ issued < MaxInsts
  /\ Legal(i)
  /\ inst' = i
  /\ todo' = Passes(i)
  /\ issued' = issued + 1
  /\ entry' = file
  /\ UNCHANGED file

\* Fault: the last pass does not free the pipeline.
PassWithoutRetiring ==
  /\ inst # NoInst
  /\ \E n \in todo :
       /\ \A m \in todo : n <= m
       /\ file' = ExecutePass(inst, n, file)
       /\ todo' = todo \ {n}
  /\ UNCHANGED <<inst, issued, entry>>

\* The passes of an instruction are made in order.
Pass ==
  /\ inst # NoInst
  /\ \E n \in todo :
       /\ \A m \in todo : n <= m
       /\ file' = ExecutePass(inst, n, file)
       /\ todo' = todo \ {n}
       /\ inst' = IF todo = {n} THEN NoInst ELSE inst
  /\ UNCHANGED <<issued, entry>>

Next == Pass \/ \E i \in Insts : Issue(i)

Spec == Init /\ [][Next]_vars

-----------------------------------------------------------------------------
TypeOK ==
  /\ IsFile(file) /\ IsFile(entry)
  /\ inst \in Insts \cup {NoInst}
  /\ issued \in 0..MaxInsts
  /\ (inst = NoInst) = (todo = {})
  /\ inst # NoInst => todo \subseteq Passes(inst)

\* The lanes of the instruction in execution that a pass has produced.
Done == {l \in Lanes(inst) : inst.pass[l] \notin todo}

(***************************************************************************)
(* No lane is computed from an operand that the same instruction has       *)
(* already overwritten: what a pending lane will read is still what it was *)
(* at issue. This is the hazard of the register hazards section, and holds *)
(* only because of the overlap rules the assembler enforces.               *)
(***************************************************************************)
PendingReadsIntact ==
  inst # NoInst =>
    \A l \in Lanes(inst) \ Done : \A p \in inst.reads[l] :
      file[inst.src[p[1]][p[2]]] = entry[inst.src[p[1]][p[2]]]

(***************************************************************************)
(* Between two passes the file is a cut of the atomic execution: produced  *)
(* lanes hold their final value, every other element its value at issue.   *)
(***************************************************************************)
PartialResult ==
  inst # NoInst => file = WriteLanes(inst, Done, entry)

(***************************************************************************)
(* The pipeline implements the pseudo-code: seen from outside the file     *)
(* changes once per instruction, to what the pseudo-code computes.         *)
(***************************************************************************)
Atomic == INSTANCE VfpuAtomic
            WITH file <- IF inst = NoInst THEN file ELSE entry

ImplementsPseudocode == Atomic!Spec
=============================================================================

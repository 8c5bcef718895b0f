----------------------------- MODULE VfpuAtomic -----------------------------
(***************************************************************************)
(* What the pseudo-code promises: an instruction takes effect in one step, *)
(* each result lane a function of the values its operands had before it.   *)
(* This is the semantics the generated functional tests compute on the CPU *)
(* (gen-tests.py emits the pseudo-code over operand arrays of their own).  *)
(***************************************************************************)
EXTENDS VfpuInst

VARIABLE file

Init == file = InitFile

Instruction(i) ==
  /\ Legal(i)
  /\ file' = Execute(i, file)

Next == \E i \in Insts : Instruction(i)

Spec == Init /\ [][Next]_file
=============================================================================

------------------------- MODULE VfpuPipelineProofs -------------------------
(***************************************************************************)
(* For every register file, every set of well-formed instructions and      *)
(* every length of program: the pipeline computes what the pseudo-code     *)
(* computes, provided only legal instructions are issued and none of them  *)
(* is one that writes other elements than its rd names (NoErrata).         *)
(*                                                                         *)
(* The argument is one lemma, LegalReads: a lane still to be produced by a *)
(* legal instruction reads no element a produced lane has written. From it *)
(* PassComposes shows that running one more pass on the partial result is  *)
(* the partial result with one more pass, which makes PartialResult        *)
(* inductive and the last pass a step of the abstract specification.       *)
(***************************************************************************)
EXTENDS VfpuPipeline, TLAPS

\* No instruction of the program is one the erratum of VfpuIsa hits.
NoErrata == \A i \in Insts : Faithful(i)

-----------------------------------------------------------------------------
(* Facts about writing lanes.                                               *)

\* A written element holds the result of the only lane that goes there.
LEMMA WrittenLane ==
  ASSUME NEW i, WellFormed(i), NEW L \in SUBSET Lanes(i), NEW l \in L, NEW f
  PROVE  WriteLanes(i, L, f)[i.dst[l]] = Result(i, l, f)
<1>1. i.dst[l] \in Regs
  BY DEF WellFormed
<1>2. \A m \in L : i.dst[m] = i.dst[l] => m = l
  BY DEF WellFormed
<1>3. (CHOOSE m \in L : i.dst[m] = i.dst[l]) = l
  BY <1>2
<1> QED BY <1>1, <1>3 DEF WriteLanes, Write

\* An element no lane goes to keeps its value.
LEMMA UnwrittenElement ==
  ASSUME NEW i, NEW L, NEW x \in Regs, \A l \in L : i.dst[l] # x, NEW f
  PROVE  WriteLanes(i, L, f)[x] = f[x]
BY DEF WriteLanes, Write

\* Writing lanes yields a register file.
LEMMA WriteLanesIsFile ==
  ASSUME NEW i, NEW L, NEW f
  PROVE  IsFile(WriteLanes(i, L, f))
BY DEF IsFile, WriteLanes, Write

\* So does a pass, whatever elements it writes.
LEMMA PassIsFile ==
  ASSUME NEW i, NEW n, NEW f
  PROVE  IsFile(ExecutePass(i, n, f))
BY DEF IsFile, ExecutePass, Write

-----------------------------------------------------------------------------
(* What the overlap rules buy.                                              *)

\* D are the lanes of the passes made, n a pass still to be made: no lane
\* of pass n reads an element that a lane of D has written.
LEMMA LegalReads ==
  ASSUME NEW i, WellFormed(i), Legal(i),
         NEW S, NEW l \in Lanes(i), i.pass[l] \in S,
         NEW d \in Lanes(i), i.pass[d] \notin S,
         NEW p \in i.reads[l]
  PROVE  i.dst[d] # i.src[p[1]][p[2]]
<1>1. /\ p[1] \in Operands(i)
      /\ p[2] \in DOMAIN i.src[p[1]]
  BY DEF WellFormed
<1>2. i.dst[d] \in Elems(i.dst)
  BY DEF Elems, Lanes
<1>3. i.src[p[1]][p[2]] \in Elems(i.src[p[1]])
  BY <1>1 DEF Elems
<1>4. CASE i.compat = "any"
  BY <1>4 DEF WellFormed, SinglePass
<1>5. CASE i.compat = "no-overlap"
  <2>1. Elems(i.dst) \cap Elems(i.src[p[1]]) = {}
    BY <1>1, <1>5 DEF Legal
  <2> QED BY <1>2, <1>3, <2>1
<1>6. CASE i.compat = "partial-overlap"
  <2>1. CASE Elems(i.dst) \cap Elems(i.src[p[1]]) = {}
    BY <1>2, <1>3, <2>1
  <2>2. CASE i.src[p[1]] = i.dst
    <3>1. p[2] = l
      BY <1>6, <2>2 DEF WellFormed, LaneLocal, Lanes
    <3>2. d # l
      OBVIOUS
    <3> QED BY <2>2, <3>1, <3>2 DEF WellFormed
  <2> QED BY <1>1, <1>6, <2>1, <2>2 DEF Legal
<1> QED BY <1>4, <1>5, <1>6 DEF WellFormed
\* Running the lanes of one more pass on a partial result is the partial
\* result with those lanes too. S are the passes still to be made.
LEMMA PassComposes ==
  ASSUME NEW i, WellFormed(i), Legal(i), Faithful(i), NEW f, NEW S, NEW n \in S
  PROVE  ExecutePass(i, n, WriteLanes(i, {l \in Lanes(i) : i.pass[l] \notin S}, f))
           = WriteLanes(i, {l \in Lanes(i) : i.pass[l] \notin S \ {n}}, f)
<1> DEFINE made == {l \in Lanes(i) : i.pass[l] \notin S}
           next == {l \in Lanes(i) : i.pass[l] = n}
           both == {l \in Lanes(i) : i.pass[l] \notin S \ {n}}
           part == WriteLanes(i, made, f)
<1>1. both = made \cup next
  OBVIOUS
<1>2. ASSUME NEW l \in next PROVE Result(i, l, part) = Result(i, l, f)
  <2>1. ASSUME NEW p \in i.reads[l]
        PROVE  part[i.src[p[1]][p[2]]] = f[i.src[p[1]][p[2]]]
    <3>1. l \in Lanes(i) /\ i.pass[l] \in S
      BY <1>2
    <3>2. \A d \in made : i.dst[d] # i.src[p[1]][p[2]]
      BY <2>1, <3>1, LegalReads
    <3>3. i.src[p[1]][p[2]] \in Regs
      BY <2>1, <3>1 DEF WellFormed
    <3> HIDE DEF made
    <3> QED BY <3>2, <3>3, UnwrittenElement
  <2>2. [p \in i.reads[l] |-> part[i.src[p[1]][p[2]]]]
          = [p \in i.reads[l] |-> f[i.src[p[1]][p[2]]]]
    <3> HIDE DEF part
    <3> QED BY <2>1
  <2> QED BY <2>2 DEF Result
<1>3. ASSUME NEW x \in Regs
      PROVE  WriteLanes(i, next, part)[x] = WriteLanes(i, both, f)[x]
  <2>1. CASE \E l \in next : i.dst[l] = x
    <3>1. PICK l \in next : i.dst[l] = x
      BY <2>1
    <3>2. WriteLanes(i, next, part)[x] = Result(i, l, part)
      BY <3>1, WrittenLane
    <3>3. WriteLanes(i, both, f)[x] = Result(i, l, f)
      BY <1>1, <3>1, WrittenLane
    <3> QED BY <1>2, <3>2, <3>3
  <2>2. CASE \A l \in next : i.dst[l] # x
    <3>1. WriteLanes(i, next, part)[x] = part[x]
      BY <2>2, UnwrittenElement
    <3>2. CASE \E l \in made : i.dst[l] = x
      <4>1. PICK l \in made : i.dst[l] = x
        BY <3>2
      <4>2. part[x] = Result(i, l, f)
        BY <4>1, WrittenLane
      <4>3. WriteLanes(i, both, f)[x] = Result(i, l, f)
        BY <1>1, <4>1, WrittenLane
      <4> QED BY <3>1, <4>2, <4>3
    <3>3. CASE \A l \in made : i.dst[l] # x
      <4>1. part[x] = f[x]
        BY <3>3, UnwrittenElement
      <4>2. WriteLanes(i, both, f)[x] = f[x]
        <5>1. \A l \in both : i.dst[l] # x
          BY <1>1, <2>2, <3>3
        <5> HIDE DEF both
        <5> QED BY <5>1, UnwrittenElement
      <4> QED BY <3>1, <4>1, <4>2
    <3> QED BY <3>2, <3>3
  <2> QED BY <2>1, <2>2
<1>4. IsFile(WriteLanes(i, next, part)) /\ IsFile(WriteLanes(i, both, f))
  BY WriteLanesIsFile
<1>5. WriteLanes(i, next, part) = WriteLanes(i, both, f)
  <2> DEFINE a == WriteLanes(i, next, part)
             b == WriteLanes(i, both, f)
  <2>1. a = [x \in Regs |-> a[x]] /\ b = [x \in Regs |-> b[x]]
    BY <1>4 DEF IsFile
  <2>2. \A x \in Regs : a[x] = b[x]
    BY <1>3
  <2> HIDE DEF a, b
  <2>3. a = b
    BY <2>1, <2>2
  <2> QED BY <2>3 DEF a, b
<1>6. ExecutePass(i, n, part) = WriteLanes(i, next, part)
  BY DEF ExecutePass, WriteLanes, Faithful
<1> QED BY <1>5, <1>6
-----------------------------------------------------------------------------
(* The inductive invariant: nothing illegal is ever in the pipeline, and    *)
(* the file is always a partial result of what is.                          *)

Inv ==
  /\ TypeOK
  /\ inst # NoInst => Legal(inst)
  /\ PartialResult

\* Writing no lane changes nothing; an instruction being issued has made
\* no pass.
LEMMA WriteNothing ==
  ASSUME NEW i, NEW f, IsFile(f), NEW S, \A l \in Lanes(i) : i.pass[l] \in S
  PROVE  f = WriteLanes(i, {l \in Lanes(i) : i.pass[l] \notin S}, f)
BY DEF IsFile, WriteLanes, Write

\* The types of the pipeline's state, in every reachable state: these need
\* nothing of the instructions but that they are well-formed.
THEOREM TypeCorrect == Spec => []TypeOK
<1>1. Init => TypeOK
  BY FileAssumption, BoundAssumption DEF Init, TypeOK
<1>2. TypeOK /\ [Next]_vars => TypeOK'
  <2> SUFFICES ASSUME TypeOK, [Next]_vars PROVE TypeOK'
    OBVIOUS
  <2>1. CASE Pass
    <3>1. PICK n \in todo : /\ file' = ExecutePass(inst, n, file)
                           /\ todo' = todo \ {n}
                           /\ inst' = IF todo = {n} THEN NoInst ELSE inst
      BY <2>1 DEF Pass
    <3>2. IsFile(file)' /\ IsFile(entry)'
      <4>1. IsFile(file')
        BY <3>1, PassIsFile
      <4>2. entry' = entry
        BY <2>1 DEF Pass
      <4> QED BY <4>1, <4>2 DEF TypeOK, IsFile
    <3> QED BY <2>1, <3>1, <3>2 DEF Pass, TypeOK
  <2>2. ASSUME NEW i \in Insts, Issue(i) PROVE TypeOK'
    <3>1. i # NoInst /\ WellFormed(i)
      BY BoundAssumption, InstsAssumption
    <3>2. Passes(i) # {}
      BY <3>1 DEF WellFormed, Passes
    <3> QED BY <2>2, <3>1, <3>2, BoundAssumption DEF TypeOK, Issue
  <2>3. CASE UNCHANGED vars
    BY <2>3 DEF vars, TypeOK
  <2> QED BY <2>1, <2>2, <2>3 DEF Next
<1> QED BY <1>1, <1>2, PTL DEF Spec

\* The invariant holds before the first instruction is issued.
LEMMA InitInv == Init => Inv
BY FileAssumption, BoundAssumption DEF Init, Inv, TypeOK, PartialResult

\* Issuing a legal instruction keeps the invariant: none of its lanes is written.
LEMMA IssueInv ==
  ASSUME Inv, NEW i \in Insts, Issue(i)
  PROVE  Inv'
<1>1. i # NoInst /\ WellFormed(i)
  BY BoundAssumption, InstsAssumption
<1>2. Passes(i) # {}
  BY <1>1 DEF WellFormed, Passes
<1>3. TypeOK'
  BY <1>1, <1>2, BoundAssumption DEF Inv, TypeOK, Issue
<1>4. (inst # NoInst => Legal(inst))'
  BY DEF Issue, Legal, Operands
<1>5. PartialResult'
  <2>1. \A l \in Lanes(i) : i.pass[l] \in Passes(i)
    BY DEF Passes
  <2>2. file = WriteLanes(i, {l \in Lanes(i) : i.pass[l] \notin Passes(i)}, file)
    BY <2>1, WriteNothing DEF Inv, TypeOK
  <2>3. Done' = {l \in Lanes(i) : i.pass[l] \notin Passes(i)}
    BY DEF Done, Issue
  <2>4. file' = file /\ entry' = file /\ inst' = i
    BY DEF Issue
  <2> QED BY <2>2, <2>3, <2>4 DEF PartialResult
<1> QED BY <1>3, <1>4, <1>5 DEF Inv

\* What a pass does to the file, whether or not it is the last.
LEMMA PassEffect ==
  ASSUME NoErrata, Inv, Pass
  PROVE  \E n \in todo :
           /\ todo' = todo \ {n}
           /\ inst' = IF todo = {n} THEN NoInst ELSE inst
           /\ file' = WriteLanes(inst, {l \in Lanes(inst) : inst.pass[l] \notin todo'}, entry)
           /\ inst \in Insts /\ Legal(inst) /\ inst # NoInst
<1>1. PICK n \in todo : /\ file' = ExecutePass(inst, n, file)
                       /\ todo' = todo \ {n}
                       /\ inst' = IF todo = {n} THEN NoInst ELSE inst
  BY DEF Pass
<1>2. inst \in Insts /\ Legal(inst) /\ inst # NoInst
  BY DEF Inv, TypeOK, Pass
<1>3. WellFormed(inst) /\ Faithful(inst)
  BY <1>2, InstsAssumption DEF NoErrata
<1>4. file = WriteLanes(inst, {l \in Lanes(inst) : inst.pass[l] \notin todo}, entry)
  BY <1>2 DEF Inv, PartialResult, Done
<1>5. file' = WriteLanes(inst, {l \in Lanes(inst) : inst.pass[l] \notin todo \ {n}}, entry)
  BY <1>1, <1>2, <1>3, <1>4, PassComposes
<1> QED BY <1>1, <1>2, <1>5

\* A pass keeps the invariant: its lanes join those already written.
LEMMA PassInv ==
  ASSUME NoErrata, Inv, Pass
  PROVE  Inv'
<1>1. PICK n \in todo :
        /\ todo' = todo \ {n}
        /\ inst' = IF todo = {n} THEN NoInst ELSE inst
        /\ file' = WriteLanes(inst, {l \in Lanes(inst) : inst.pass[l] \notin todo'}, entry)
        /\ inst \in Insts /\ Legal(inst) /\ inst # NoInst
  BY PassEffect
<1>2. entry' = entry /\ issued' = issued
  BY DEF Pass
<1>3. TypeOK'
  <2>1. IsFile(file)' /\ IsFile(entry)'
    <3>1. IsFile(file')
      BY <1>1, WriteLanesIsFile
    <3> QED BY <1>2, <3>1 DEF Inv, TypeOK, IsFile
  <2> QED BY <1>1, <1>2, <2>1 DEF Inv, TypeOK
<1>4. (inst # NoInst => Legal(inst))'
  BY <1>1 DEF Legal, Operands
<1>5. PartialResult'
  BY <1>1, <1>2 DEF PartialResult, Done
<1> QED BY <1>3, <1>4, <1>5 DEF Inv

\* Every step keeps the invariant.
LEMMA NextInv == NoErrata /\ Inv /\ [Next]_vars => Inv'
<1> SUFFICES ASSUME NoErrata, Inv, [Next]_vars PROVE Inv'
  OBVIOUS
<1>1. CASE Pass
  BY <1>1, PassInv
<1>2. ASSUME NEW i \in Insts, Issue(i) PROVE Inv'
  BY <1>2, IssueInv
<1>3. CASE UNCHANGED vars
  BY <1>3 DEF vars, Inv, TypeOK, PartialResult, Done
<1> QED BY <1>1, <1>2, <1>3 DEF Next

\* The file is always the lanes made so far over the file at issue, and the
\* instruction in flight is always legal.
THEOREM Invariance ==
  ASSUME NoErrata
  PROVE  Spec => []Inv
BY InitInv, NextInv, PTL DEF Spec

\* Between two passes the register file is a cut of the atomic execution
\* (PartialResult), whatever the instruction, its overlap class and its
\* registers.
THEOREM PartialResults ==
  ASSUME NoErrata
  PROVE  Spec => []PartialResult
<1>1. Inv => PartialResult
  BY DEF Inv
<1> QED BY <1>1, Invariance, PTL

\* No instruction reads what it has itself overwritten: the register hazard
\* cannot occur under the assembler's overlap rules.
THEOREM NoRegisterHazard ==
  ASSUME NoErrata
  PROVE  Spec => []PendingReadsIntact
<1>1. Inv => PendingReadsIntact
  <2> SUFFICES ASSUME Inv, inst # NoInst, NEW l \in Lanes(inst) \ Done,
                      NEW p \in inst.reads[l]
               PROVE  file[inst.src[p[1]][p[2]]] = entry[inst.src[p[1]][p[2]]]
    BY DEF PendingReadsIntact
  <2>1. inst \in Insts /\ Legal(inst)
    BY DEF Inv, TypeOK
  <2>2. WellFormed(inst)
    BY <2>1, InstsAssumption
  <2>3. l \in Lanes(inst) /\ inst.pass[l] \in todo
    BY DEF Done
  <2>4. \A d \in Done : inst.dst[d] # inst.src[p[1]][p[2]]
    BY <2>1, <2>2, <2>3, LegalReads DEF Done
  <2>5. inst.src[p[1]][p[2]] \in Regs
    BY <2>2, <2>3 DEF WellFormed
  <2>6. file = WriteLanes(inst, Done, entry)
    BY DEF Inv, PartialResult
  <2> QED BY <2>4, <2>5, <2>6, UnwrittenElement
<1> QED BY <1>1, Invariance, PTL

-----------------------------------------------------------------------------
(* Refinement: the last pass of an instruction is the abstract step, every  *)
(* other step a stutter.                                                    *)

\* The pipeline starts where the pseudo-code starts.
LEMMA InitRefines == Init => Atomic!Init
BY DEF Init, Atomic!Init

\* Issuing changes nothing that the pseudo-code sees.
LEMMA IssueStutters ==
  ASSUME Inv, NEW i \in Insts, Issue(i)
  PROVE  UNCHANGED IF inst = NoInst THEN file ELSE entry
BY BoundAssumption DEF Issue

\* The last pass is the step of the pseudo-code, the others are stutters.
LEMMA PassRefines ==
  ASSUME NoErrata, Inv, Pass
  PROVE  [Atomic!Next]_(IF inst = NoInst THEN file ELSE entry)
<1>1. PICK n \in todo :
        /\ todo' = todo \ {n}
        /\ inst' = IF todo = {n} THEN NoInst ELSE inst
        /\ file' = WriteLanes(inst, {l \in Lanes(inst) : inst.pass[l] \notin todo'}, entry)
        /\ inst \in Insts /\ Legal(inst) /\ inst # NoInst
  BY PassEffect
<1>2. CASE todo = {n}
  <2>1. inst' = NoInst
    BY <1>1, <1>2
  <2>2. {l \in Lanes(inst) : inst.pass[l] \notin todo'} = Lanes(inst)
    BY <1>1, <1>2
  <2>3. file' = Execute(inst, entry)
    BY <1>1, <2>2 DEF Execute
  <2>4. Atomic!Legal(inst)
    BY <1>1 DEF Atomic!Legal, Legal, Atomic!Operands, Operands, Atomic!Elems, Elems
  <2>5. Atomic!Execute(inst, entry) = Execute(inst, entry)
    BY DEF Atomic!Execute, Execute, Atomic!WriteLanes, WriteLanes, Atomic!Write, Write,
           Atomic!Lanes, Lanes, Atomic!Result, Result
  <2>6. Atomic!Instruction(inst)
    BY <1>1, <2>1, <2>3, <2>4, <2>5 DEF Atomic!Instruction
  <2> QED BY <1>1, <2>6 DEF Atomic!Next
<1>3. CASE todo # {n}
  BY <1>1, <1>3 DEF Pass
<1> QED BY <1>2, <1>3

\* Every step of the pipeline is a step of the pseudo-code or a stutter.
LEMMA NextRefines ==
  NoErrata /\ Inv /\ [Next]_vars => [Atomic!Next]_(IF inst = NoInst THEN file ELSE entry)
<1> SUFFICES ASSUME NoErrata, Inv, [Next]_vars
             PROVE  [Atomic!Next]_(IF inst = NoInst THEN file ELSE entry)
  OBVIOUS
<1>1. CASE Pass
  BY <1>1, PassRefines
<1>2. ASSUME NEW i \in Insts, Issue(i)
      PROVE  [Atomic!Next]_(IF inst = NoInst THEN file ELSE entry)
  BY <1>2, IssueStutters
<1>3. CASE UNCHANGED vars
  BY <1>3 DEF vars
<1> QED BY <1>1, <1>2, <1>3 DEF Next

\* The pass-by-pass machine implements the pseudo-code of the instruction
\* table: the register file a program sees between instructions changes as
\* if each had executed at once.
THEOREM PipelineImplementsPseudocode ==
  ASSUME NoErrata
  PROVE  Spec => ImplementsPseudocode
<1>1. Init => Atomic!Init
  BY InitRefines
<1>2. Inv /\ [Next]_vars => [Atomic!Next]_(IF inst = NoInst THEN file ELSE entry)
  BY NextRefines
<1> QED BY <1>1, <1>2, Invariance, PTL DEF Spec, ImplementsPseudocode, Atomic!Spec

=============================================================================

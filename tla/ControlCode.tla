---------------------------- MODULE ControlCode ----------------------------
(***************************************************************************)
(* The code of ControlTests: the instruction sequences of the assembly     *)
(* blocks of validate_ccregs (vfpu-cc.c) and check_conditionals            *)
(* (test-conditional.c), and what the C code around them compares.         *)
(***************************************************************************)
EXTENDS Integers, Sequences

Prefix(r, payload)     == [op |-> "vpfx", r |-> r, payload |-> payload]
Vnop                   == [op |-> "vnop"]
Zero(lane)             == [op |-> "vector", row |-> "R000", lanes |-> {lane}, fn |-> "zero"]
One(lane)              == [op |-> "vector", row |-> "R000", lanes |-> {lane}, fn |-> "one"]
Negative(lane)         == [op |-> "vector", row |-> "R000", lanes |-> {lane}, fn |-> "minus_S010"]
Twice(lane)            == [op |-> "vector", row |-> "R000", lanes |-> {lane}, fn |-> "twice_S010"]
Doubled(lanes)         == [op |-> "vector", row |-> "R000", lanes |-> lanes, fn |-> "twice"]
NegatedRow             == [op |-> "vector", row |-> "R100", lanes |-> 0..3, fn |-> "minus_R000"]
Draw(lanes)            == [op |-> "vector", row |-> "R000", lanes |-> lanes, fn |-> "random"]
Compare(cond, n, row)  == [op |-> "vcmp", cond |-> cond, n |-> n, row |-> row]
Clear                  == [op |-> "mtvc"]
Read(number, slot)     == [op |-> "mfvc", number |-> number, slot |-> slot]
ReadSeeds(slot)        == [op |-> "seeds", slot |-> slot]
BranchOver(bit, slot)  == [op |-> "bvt", bit |-> bit, slot |-> slot]
Expect(slot, value)    == [op |-> "expect", slot |-> slot, value |-> value]
ExpectChanged          == [op |-> "changed"]
Interrupts(on)         == [op |-> "interrupts", on |-> on]

ReadPrefixes           == <<Read(128, "pfs"), Read(129, "pft"), Read(130, "pfd")>>
ExpectPrefixes(d, s, t) == <<Expect("pfd", d), Expect("pfs", s), Expect("pft", t)>>

\* Loads R000 with 0, 1, -1, 2 and R100 with its negation.
Operands == <<Zero(0), One(1), Negative(2), Twice(3), NegatedRow>>

\* vcmp followed by four reads.
HazardReads ==
  <<Compare("EQ", 4, "R000"), Read(131, "o0"), Read(131, "o1"), Read(131, "o2"), Read(131, "o3"),
    Clear>>

validate_ccregs ==
  <<Prefix("d", \h100), Prefix("s", \h55), Prefix("t", \hAA)>>
    \o ReadPrefixes \o ExpectPrefixes(\h100, \h55, \hAA)
    \o <<Doubled(0..3)>> \o ReadPrefixes \o ExpectPrefixes(0, \hE4, \hE4)
    \o <<Prefix("s", \hFFFFFF), Prefix("t", \hFFFFFF), Prefix("d", \hFFFFFF)>>
    \o ReadPrefixes \o ExpectPrefixes(\hFFF, \hFFFFF, \hFFFFF)
    \o <<ReadSeeds("A"), Draw({0}), ReadSeeds("B"), ExpectChanged,
         Draw(0..1), ReadSeeds("A"), ExpectChanged,
         Draw(0..3), ReadSeeds("B"), ExpectChanged,
         One(0), Draw({0}), ReadSeeds("A"), ExpectChanged>>
    \o <<Clear>> \o Operands \o HazardReads
    \o <<Prefix("d", \hF00), Read(130, "o4"), Prefix("s", \hF00E4), Read(128, "o5"),
         Prefix("t", \hF00E4), Read(129, "o6")>>
    \o <<Expect("o0", 0), Expect("o1", \h3F), Expect("o2", \h3F), Expect("o3", \h3F),
         Expect("o4", \hF00), Expect("o5", \hF00E4), Expect("o6", \hF00E4)>>
    \o <<Vnop, Doubled({0}), Vnop>>

ComparedAndRead(cond, n, row, slot) ==
  <<Clear, Compare(cond, n, row), Vnop, Read(131, slot)>>

check_conditionals ==
  <<Interrupts(FALSE), Clear>> \o Operands \o HazardReads
    \o <<Compare("EQ", 4, "R000"), Vnop, Read(131, "o4"), Clear,
         Compare("EQ", 4, "R000"), BranchOver(0, "o5"), Interrupts(TRUE)>>
    \o <<Expect("o0", 0), Expect("o1", \h3F), Expect("o2", \h3F), Expect("o3", \h3F),
         Expect("o4", \h3F), Expect("o5", 0)>>
    \o ComparedAndRead("EQ", 4, "R000", "o0") \o ComparedAndRead("NE", 4, "R000", "o1")
    \o ComparedAndRead("EQ", 4, "R100", "o2") \o ComparedAndRead("NE", 4, "R100", "o3")
    \o <<Expect("o0", \h3F), Expect("o1", 0), Expect("o2", \h11), Expect("o3", \h1E)>>
    \o ComparedAndRead("EQ", 1, "R000", "o0") \o ComparedAndRead("EQ", 2, "R000", "o1")
    \o ComparedAndRead("EQ", 3, "R000", "o2")
    \o <<Expect("o0", \h31), Expect("o1", \h33), Expect("o2", \h37)>>

\* main.c makes checks of memory and of the FPU between the two; they leave no
\* prefix behind, and what they leave in R000 and R100 is not read.
Code == validate_ccregs \o check_conditionals
Conditionals == Len(validate_ccregs) + 1       \* where the second check starts

\* The mfvc of validate_ccregs that has the hazard and the check of its value.
HazardRead  == CHOOSE p \in 2..Conditionals : Code[p-1].op = "vcmp" /\ Code[p].op = "mfvc"
HazardCheck == CHOOSE p \in HazardRead..Conditionals :
                 Code[p].op = "expect" /\ Code[p].slot = "o0"
=============================================================================

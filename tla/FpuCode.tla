------------------------------ MODULE FpuCode ------------------------------
(***************************************************************************)
(* The code of FpuHazards: the blocks of check_allegrex_fpu (fp-unit.c),   *)
(* loop by loop, as one sequence of instructions and comparisons.          *)
(***************************************************************************)
EXTENDS Integers, Sequences, SequencesExt

CONSTANT
  NumTests        \* NUM_RND_TESTS

ASSUME NumTestsAssumption == NumTests \in Nat \ {0}

Tests == 1..NumTests
EachTest(Body(_)) == FlattenSeq([n \in Tests |-> Body(n)])

Write(by, n)                    == [op |-> "write", by |-> by, n |-> n]
Readback(pair, delay, array, n) ==
  [op |-> "read", pair |-> pair, delay |-> delay, array |-> array, n |-> n]
\* Compares two arrays at the tests given, and leaves the block at an error.
\* A report is named for the pair it is about.
Match(a, b, at, report)         == [op |-> "match", a |-> a, b |-> b, at |-> at, report |-> report]
NoHazard                        == "c.lt/bc1t has no hazard"
SomeDiffer(report)              == [op |-> "differ", report |-> report]
EndOfBlock                      == [op |-> "end"]

\* A loop around two instructions with delay nops between them.
Measured(by, pair, delay, array) ==
  LET body(n) == <<Write(by, n), Readback(pair, delay, array, n)>> IN EachTest(body)

\* Mutant: both loops wait for a cycle.
CompareAndBranchNoZero ==
  Measured("c.lt", "c.lt/bc1t", 7, "ref") \o Measured("c.lt", "c.lt/bc1t", 1, "res0")
    \o Measured("c.lt", "c.lt/bc1t", 1, "res1")
    \o <<Match("res1", "ref", Tests, "c.lt/bc1t"), EndOfBlock,
         SomeDiffer(NoHazard)>>

CompareAndBranch ==
  Measured("c.lt", "c.lt/bc1t", 7, "ref") \o Measured("c.lt", "c.lt/bc1t", 0, "res0")
    \o Measured("c.lt", "c.lt/bc1t", 1, "res1")
    \o <<Match("res1", "ref", Tests, "c.lt/bc1t"), EndOfBlock,
         SomeDiffer(NoHazard)>>

CompareAndRead ==
  Measured("c.lt", "c.lt/cfc1", 7, "ref") \o Measured("c.lt", "c.lt/cfc1", 0, "res0")
    \o <<Match("res0", "ref", Tests, "c.lt/cfc1"), EndOfBlock>>

LoadAndBranch ==
  Measured("ctc1", "ctc1/bc1t", 0, "res0")
    \o <<Match("res0", "randbits", Tests, "ctc1/bc1t"), EndOfBlock>>

\* The sum of test n is n, read from the FPU register and by two moves.
MoveFrom ==
  LET body(n) == <<Write("mfc1", n), Readback("mfc1", 0, "res0", n), Readback("mfc1", 1, "res1", n),
                   Match("res0", "real", {n}, "mfc1"),
                   Match("res1", "real", {n}, "mfc1, two cycles")>>
  IN EachTest(body) \o <<EndOfBlock>>

\* mtc1 and lwc1: the sum added at once and after four nops.
MoveTo(by) ==
  LET body(n) == <<Write(by, n), Readback(by, 0, "res0", n),
                   Write(by, n), Readback(by, 4, "ref", n),
                   Match("res0", "ref", {n}, by)>>
  IN EachTest(body) \o <<EndOfBlock>>

FpuCode == CompareAndBranch \o CompareAndRead \o LoadAndBranch \o MoveFrom
             \o MoveTo("mtc1") \o MoveTo("lwc1")

Pairs      == {"c.lt/bc1t", "c.lt/cfc1", "ctc1/bc1t", "mfc1", "mtc1", "lwc1"}
Documented == [pair \in Pairs |-> IF pair = "c.lt/bc1t" THEN 1 ELSE 0]
=============================================================================

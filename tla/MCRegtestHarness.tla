-------------------------- MODULE MCRegtestHarness --------------------------
(***************************************************************************)
(* The harness on short instruction sequences, chosen so that a stub is    *)
(* followed by a shorter and by a longer one, and that every overlap class *)
(* and loop depth occurs. Values are terms (see MCVfpuPipeline).           *)
(***************************************************************************)
EXTENDS RegtestHarness

Test(op, shape, rounds) == [op |-> op, shape |-> shape, rounds |-> rounds]

Sequence ==
  <<Test("vzero.p", Nullary(2, "bit-manipulation"), 2), Test("vmmul.p", Vmmul(2), 1),
    Test("vmmov.p", Vmmov(2), 2), Test("vcos.p", Transcendental(2), 2),
    Test("vbfy1.p", Adjacent(2), 1), Test("vrot.p", Vrot(2), 1),
    Test("vs2i.s", Expand(1, 2), 1)>>

TermApply(op, lane, read) == <<op, lane, read>>
=============================================================================

--------------------------- MODULE MCDisasmTester ---------------------------
(***************************************************************************)
(* The whole instruction table; of it, an instruction whose words make two *)
(* full chunks and a rest, and one that is a single word. The disassemblers *)
(* may disagree on the first word of the second chunk and the last of all. *)
(***************************************************************************)
EXTENDS InstTable, DisasmTester

Named(name) == CHOOSE e \in {Insts[k] : k \in DOMAIN Insts} : e.name = name
Vcst        == Named(<<"vcst", 1>>)

VcstAndVsync == {<<"vcst", 1>>, <<"vsync", 0>>}

SortedFields ==
  <<"cc_sel", "ccreg", "cond", "gpr", "imm24", "imval", "offset", "rd", "rs", "rt",
    "rthi", "rtlo", "sizehi", "sizehi-m1", "sizelo", "sizelo-m1", "vfpucc">>

MCSuspects == {Word(Vcst, 1500), Word(Vcst, 4095)}
=============================================================================

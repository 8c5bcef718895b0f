---------------------------- MODULE MCAsmTester ----------------------------
(* One instruction with legal and illegal lines, one without illegal ones,  *)
(* and one whose operands are not supported.                                *)
EXTENDS AsmTester

ThreeInsts ==
  <<[good |-> 2, bad |-> 2, supported |-> TRUE],
    [good |-> 1, bad |-> 0, supported |-> TRUE],
    [good |-> 1, bad |-> 0, supported |-> FALSE]>>
=============================================================================

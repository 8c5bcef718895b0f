---------------------------- MODULE MCExcCapture ----------------------------
(***************************************************************************)
(* Three tests in the order check_allegrex_insts makes them: a HI/LO test, *)
(* which leaves the block armed, then one more and an ordinary one; causes *)
(* 9 (breakpoint) and 10 (reserved instruction).                           *)
(***************************************************************************)
EXTENDS ExcCapture

ThreeTests ==
  <<[check |-> "hilo", cause |-> 9,  bug |-> TRUE,  epc |-> 100],
    [check |-> "hilo", cause |-> 10, bug |-> FALSE, epc |-> 200],
    [check |-> "trap", cause |-> 10, bug |-> FALSE, epc |-> 300]>>
=============================================================================

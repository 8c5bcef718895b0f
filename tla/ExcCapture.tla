----------------------------- MODULE ExcCapture -----------------------------
(***************************************************************************)
(* Testing that instructions trap. A kernel module (exception-module/)     *)
(* replaces the system's default exception handler and captures the        *)
(* exceptions the test program announces in a control block it shares with *)
(* the module; every other exception goes to the handler that was there    *)
(* before. The test program fills the block, runs the instruction, clears  *)
(* the block and looks at what was captured.                               *)
(*                                                                         *)
(* Other threads run beside the test program (a debug shell, a breakpoint  *)
(* being hit) and may raise exceptions between any two of its steps: the   *)
(* handler is the default one of the whole system. The handler itself runs *)
(* with exceptions disabled, so it is one step.                            *)
(***************************************************************************)
EXTENDS Integers, Sequences, FiniteSets

CONSTANTS
  Tests,        \* sequence of [check, cause, bug, epc]: the macro used, the cause
                \* and HI/LO bug expected, the address of the trapping instruction
  Causes,       \* cause codes an exception may have
  StrayEpcs,    \* addresses at which other threads may fault
  StartMayFail, \* whether starting the kernel module may fail
  MaxStrays     \* how many exceptions of other threads (a bound)

ASSUME TestsAssumption ==
  /\ Tests \in Seq([check : {"trap", "hilo"}, cause : Causes, bug : BOOLEAN, epc : Nat \ {0}])
  /\ \A t \in DOMAIN Tests : Tests[t].epc \notin StrayEpcs
ASSUME ConstantsAssumption ==
  /\ Causes \subseteq Nat \ {0} /\ StrayEpcs \subseteq Nat
  /\ StartMayFail \in BOOLEAN /\ MaxStrays \in Nat

VARIABLES
  pc,         \* where the test program is
  t,          \* the test it is on
  ecb,        \* does it have a control block (ecb # NULL)
  installed,  \* is the module's handler the default one
  block,      \* ctrl_block
  unset,      \* fields of it still to be filled for this test
  outcome,    \* history: what each tested instruction did: the cause raised (0
              \* for none), whether the next one wrote HI/LO before the trap, and
              \* whether HI/LO held in the end what that one writes
  errors,     \* what was reported, per test
  strays,     \* exceptions of other threads so far
  spoiled,    \* history: tests during which one of those was captured
  forwarded   \* exceptions handed to the previous handler

vars == <<pc, t, ecb, installed, block, unset, outcome, errors, strays, spoiled, forwarded>>

\* Fault: the block is set to ones instead of zeros.
ClearedToOnes == [magic |-> TRUE, armed |-> TRUE, expected_epc |-> -1,
                  exception_count |-> -1, cause |-> -1, hilo |-> "unset"]

Cleared == [magic |-> FALSE, armed |-> FALSE, expected_epc |-> 0,
            exception_count |-> 0, cause |-> 0, hilo |-> "unset"]

Init ==
  /\ pc = "load" /\ t = 1 /\ ecb = FALSE /\ installed = FALSE
  /\ block = Cleared /\ unset = {}
  /\ outcome = [i \in DOMAIN Tests |-> [cause |-> 0, bug |-> FALSE, final |-> TRUE]]
  /\ errors = [i \in DOMAIN Tests |-> {}]
  /\ strays = 0 /\ spoiled = {} /\ forwarded = 0

-----------------------------------------------------------------------------
(* The exception handler: what is not expected goes to previous_handler.    *)

\* Fault: the handler does not compare the address.
ExpectedAnywhere(epc) == installed /\ block.magic /\ block.armed

Expected(epc) ==
  installed /\ block.magic /\ block.armed /\ block.expected_epc = epc

\* Dumps the processor's state, counts, and resumes after the instruction.
Capture(cause, hilo) ==
  /\ block' = [block EXCEPT !.exception_count = @ + 1, !.cause = cause, !.hilo = hilo]
  /\ UNCHANGED forwarded

Forward == forwarded' = forwarded + 1 /\ UNCHANGED block

StrayException ==
  /\ strays < MaxStrays
  /\ strays' = strays + 1
  /\ \E epc \in StrayEpcs, cause \in Causes :
       IF Expected(epc) THEN Capture(cause, "other") /\ spoiled' = spoiled \cup {t}
                        ELSE Forward /\ UNCHANGED spoiled
  /\ UNCHANGED <<pc, t, ecb, installed, unset, outcome, errors>>

-----------------------------------------------------------------------------
(* The test program: main() and the macros _check_illegal_inst,             *)
(* _check_unaligned_access and _TEST_HILO_BUG.                              *)

test == Tests[t]

\* Neither path to the module's file loads: the tests needing it are skipped.
LoadFails ==
  /\ pc = "load"
  /\ pc' = "report"
  /\ UNCHANGED <<t, ecb, installed, block, unset, outcome, errors, strays, spoiled, forwarded>>

\* The module is loaded and started; whether it started is not looked at.
LoadAndStart ==
  /\ pc = "load"
  /\ ecb' = TRUE
  /\ installed' \in IF StartMayFail THEN BOOLEAN ELSE {TRUE}
  /\ pc' = IF Tests = <<>> THEN "report" ELSE "reset"
  /\ UNCHANGED <<t, block, unset, outcome, errors, strays, spoiled, forwarded>>

\* Fault: the block keeps what the test before captured.
ResetNothing ==
  /\ pc = "reset"
  /\ unset' = {"magic", "armed"}
  /\ pc' = "fill"
  /\ UNCHANGED <<t, ecb, installed, block, outcome, errors, strays, spoiled, forwarded>>

\* memset(ecb, 0, sizeof(*ecb)): one step, as its magic words, without which
\* nothing is captured, come first.
Reset ==
  /\ pc = "reset"
  /\ block' = Cleared
  /\ unset' = {"magic", "armed"}
  /\ pc' = "fill"
  /\ UNCHANGED <<t, ecb, installed, outcome, errors, strays, spoiled, forwarded>>

\* Fault: the magic word is not written.
FillArmedOnly ==
  /\ pc = "fill"
  /\ \E f \in unset :
       /\ block' = [block EXCEPT !.armed = TRUE]
       /\ unset' = unset \ {f}
       /\ pc' = IF unset = {f} THEN "announce" ELSE "fill"
  /\ UNCHANGED <<t, ecb, installed, outcome, errors, strays, spoiled, forwarded>>

\* Plain stores: the compiler may emit them in any order.
Fill ==
  /\ pc = "fill"
  /\ \E f \in unset :
       /\ block' = [block EXCEPT ![f] = TRUE]
       /\ unset' = unset \ {f}
       /\ pc' = IF unset = {f} THEN "announce" ELSE "fill"
  /\ UNCHANGED <<t, ecb, installed, outcome, errors, strays, spoiled, forwarded>>

\* The assembly block stores the address of its label 1, then runs up to it.
StoreEpc ==
  /\ pc = "announce"
  /\ block' = [block EXCEPT !.expected_epc = test.epc]
  /\ pc' = "trap"
  /\ UNCHANGED <<t, ecb, installed, unset, outcome, errors, strays, spoiled, forwarded>>

\* The instruction at the label. It may not trap at all, and may trap with
\* any cause; a trap the handler does not capture is fatal to the program. The
\* HI/LO test then writes HI/LO again and reads it back into its result.
Outcomes ==
  {o \in [cause : Causes \cup {0}, bug : BOOLEAN, final : BOOLEAN] :
     /\ o.bug => test.check = "hilo" /\ o.cause # 0
     /\ ~o.final => test.check = "hilo"}

TestedInstruction ==
  /\ pc = "trap"
  /\ \E o \in Outcomes :
       /\ outcome' = [outcome EXCEPT ![t] = o]
       /\ \/ o.cause = 0 /\ pc' = "disarm" /\ UNCHANGED <<block, forwarded>>
          \/ /\ o.cause # 0 /\ Expected(test.epc)
             /\ Capture(o.cause, IF o.bug THEN "new" ELSE "old") /\ pc' = "disarm"
          \/ o.cause # 0 /\ ~Expected(test.epc) /\ Forward /\ pc' = "dead"
  /\ UNCHANGED <<t, ecb, installed, unset, errors, strays, spoiled>>

\* Fault: the instruction is tried again until it traps.
DisarmWhenCaught ==
  /\ pc = "disarm"
  /\ block' = IF test.check = "hilo" THEN block ELSE [block EXCEPT !.armed = FALSE]
  /\ pc' = IF block.exception_count = 0 THEN "reset" ELSE "validate"
  /\ UNCHANGED <<t, ecb, installed, unset, outcome, errors, strays, spoiled, forwarded>>

\* ecb->armed = 0, which _TEST_HILO_BUG leaves out.
Disarm ==
  /\ pc = "disarm"
  /\ block' = IF test.check = "hilo" THEN block ELSE [block EXCEPT !.armed = FALSE]
  /\ pc' = "validate"
  /\ UNCHANGED <<t, ecb, installed, unset, outcome, errors, strays, spoiled, forwarded>>

\* FILL_ERR for each failed check; the HI/LO test stops at the first.
Reported ==
  LET uncaught == block.exception_count # 1
      other    == block.cause # test.cause
      final    == ~outcome[t].final   \* the local variable result # 0xbaad
      hilo     == block.hilo # (IF test.bug THEN "new" ELSE "old")
  IN IF test.check = "hilo"
     THEN IF uncaught THEN {"not raised"}
          ELSE IF other THEN {"cause"}
          ELSE IF final THEN {"final"}
          ELSE IF hilo  THEN {"hilo"} ELSE {}
     ELSE {e \in {"not raised", "cause"} : IF e = "cause" THEN other ELSE uncaught}

Validate ==
  /\ pc = "validate"
  /\ errors' = [errors EXCEPT ![t] = Reported]
  /\ t' = t + 1
  /\ pc' = IF t = Len(Tests) THEN "report" ELSE "reset"
  /\ UNCHANGED <<ecb, installed, block, unset, outcome, strays, spoiled, forwarded>>

Program ==
  \/ LoadFails \/ LoadAndStart \/ Reset \/ Fill \/ StoreEpc
  \/ TestedInstruction \/ Disarm \/ Validate

Next == Program \/ StrayException

Spec     == Init /\ [][Next]_vars
FairSpec == Spec /\ WF_vars(Program)

-----------------------------------------------------------------------------
TypeOK ==
  /\ pc \in {"load", "reset", "fill", "announce", "trap", "disarm", "validate",
            "report", "dead"}
  /\ t \in 1..Len(Tests) + 1
  /\ ecb \in BOOLEAN /\ installed \in BOOLEAN
  /\ block \in [magic : BOOLEAN, armed : BOOLEAN, expected_epc : Nat,
               exception_count : Nat, cause : Nat, hilo : {"unset", "old", "new", "other"}]
  /\ unset \subseteq {"magic", "armed"}
  /\ outcome \in [DOMAIN Tests -> [cause : Causes \cup {0}, bug : BOOLEAN, final : BOOLEAN]]
  /\ errors \in [DOMAIN Tests -> SUBSET {"not raised", "cause", "final", "hilo"}]
  /\ strays \in 0..MaxStrays /\ spoiled \subseteq 1..Len(Tests) + 1 /\ forwarded \in Nat

(***************************************************************************)
(* A test reports nothing exactly when its instruction did what it should: *)
(* trapped once, with the cause and the HI/LO behaviour expected, whatever *)
(* the tests before it left in the block and whatever other threads did    *)
(* meanwhile. If an exception of another thread was captured during the    *)
(* test, it is silent at most for an instruction that did not trap: the    *)
(* other thread's trap is taken for it.                                    *)
(***************************************************************************)
AsExpected(i) ==
  /\ outcome[i].cause = Tests[i].cause
  /\ Tests[i].check = "hilo" => outcome[i].final /\ outcome[i].bug = Tests[i].bug

VerdictSound ==
  \A i \in 1..t-1 : IF i \in spoiled THEN errors[i] = {} => outcome[i].cause = 0
                                     ELSE errors[i] = {} <=> AsExpected(i)

(***************************************************************************)
(* An exception of another thread is captured only while the block         *)
(* announces address 0: after the store of armed and before that of the    *)
(* address of the tested instruction, never when the test before left the  *)
(* block armed and never beside the instruction itself.                    *)
(***************************************************************************)
CapturedOnlyAtZero ==
  [][strays' # strays /\ block' # block =>
       pc \in {"fill", "announce"} /\ block.armed /\ block.expected_epc = 0]_vars

(***************************************************************************)
(* The block says which instruction is expected to trap "so that we do not *)
(* capture unexpected exceptions (like a bug in the actual test)"          *)
(* (exmod.c): no exception of another thread is captured.                  *)
(***************************************************************************)
NoStrayCaptured == spoiled = {}

(***************************************************************************)
(* A tested instruction that traps is fatal to the test program only if    *)
(* the module is not there to capture it: no state of the block and no     *)
(* exception of another thread makes the handler refuse it.                *)
(***************************************************************************)
FatalOnlyUninstalled == pc = "dead" => ~installed

(***************************************************************************)
(* Tests that cannot be made are skipped: "Some tests will be skipped!"    *)
(* (main.c), and "if (!ecb) return 0" in the checks. They are never made   *)
(* without the handler in place.                                           *)
(***************************************************************************)
SkippedUnlessInstalled == pc = "trap" => installed

\* With the handler in place the program comes to its report. Weak fairness
\* is that of a thread with nothing to wait for; the others are bounded.
Completes == installed ~> pc = "report"
=============================================================================

-------------------------- MODULE ExcCaptureProofs --------------------------
(***************************************************************************)
(* For any sequence of trap tests, any causes and any number of exceptions *)
(* of other threads, address 0 included: a trap of the tested instruction  *)
(* is captured whenever the handler is installed; an exception of another  *)
(* thread only at address 0, from the store of armed to that of the        *)
(* address; and the verdict of every test without one is right.            *)
(*                                                                         *)
(* None of this is inductive. Whether the handler captures depends on what *)
(* the block holds, which the program fills store by store beside the      *)
(* other threads; BlockInv says what it holds at every point of a test,    *)
(* WindowInv which addresses it announces there, CountInv what the handler *)
(* has left in it, for tests that are spoiled and for those that are not.  *)
(***************************************************************************)
EXTENDS ExcCapture, TLAPS

Testing == {"reset", "fill", "announce", "trap", "disarm", "validate"}

\* What the program has stored of the block.
BlockInv ==
  /\ pc = "load" => t = 1
  /\ pc \in Testing => t \in DOMAIN Tests
  /\ pc = "fill" => /\ block.magic \/ "magic" \in unset
                    /\ block.armed \/ "armed" \in unset
  /\ pc \in {"announce", "trap"} => block.magic /\ block.armed
  /\ pc = "trap" => block.expected_epc = Tests[t].epc

\* What it announces: address 0 while it is being filled, and at no other time
\* an address at which another thread faults, unless it is not armed.
WindowInv ==
  /\ pc = "load" => ~block.armed
  /\ pc \in {"fill", "announce"} => block.expected_epc = 0
  /\ pc \notin {"fill", "announce"} /\ block.armed => block.expected_epc \notin StrayEpcs

\* What the handler has stored in it: nothing before the tested instruction,
\* what that instruction did after it, unless an exception of another thread
\* was counted as well.
Untouched == block.exception_count = 0 /\ block.cause = 0

Holds(o) ==
  IF o.cause = 0 THEN Untouched
  ELSE /\ block.exception_count = 1 /\ block.cause = o.cause
       /\ block.hilo = IF o.bug THEN "new" ELSE "old"

CountInv ==
  /\ spoiled \subseteq 1..t /\ (pc \in {"load", "reset"} => t \notin spoiled)
  /\ pc \in {"fill", "announce", "trap"} =>
       IF t \in spoiled THEN block.exception_count >= 1 ELSE Untouched
  /\ pc \in {"disarm", "validate"} =>
       IF t \in spoiled THEN outcome[t].cause # 0 => block.exception_count >= 2
                       ELSE Holds(outcome[t])

HandlerInv == TypeOK /\ BlockInv /\ FatalOnlyUninstalled
CaptureInv == HandlerInv /\ WindowInv /\ CountInv /\ VerdictSound

-----------------------------------------------------------------------------
(* The block and the handler, whatever other threads do.                    *)

\* Causes and counters are numbers.
LEMMA CausesNat ==
  /\ \A c \in Causes \cup {0} : c \in Nat
  /\ 0 \notin Causes /\ MaxStrays \in Nat
BY ConstantsAssumption

\* The counters can be counted up.
LEMMA Counters == TypeOK => forwarded + 1 \in Nat /\ strays \in Nat
<1> SUFFICES ASSUME TypeOK PROVE forwarded + 1 \in Nat /\ strays \in Nat
  OBVIOUS
<1>1. forwarded \in Nat /\ strays \in 0..MaxStrays
  BY DEF TypeOK
<1> QED BY <1>1, CausesNat

\* The handler changes counters only: what it compares stays as it is.
LEMMA CaptureKeepsAnnouncement ==
  ASSUME TypeOK, NEW c \in Nat, NEW h \in {"old", "new", "other"}, Capture(c, h)
  PROVE  /\ block' \in [magic : BOOLEAN, armed : BOOLEAN, expected_epc : Nat,
                        exception_count : Nat, cause : Nat,
                        hilo : {"unset", "old", "new", "other"}]
         /\ block'.magic = block.magic /\ block'.armed = block.armed
         /\ block'.expected_epc = block.expected_epc
         /\ block'.exception_count = block.exception_count + 1
         /\ block'.cause = c /\ block'.hilo = h
         /\ UNCHANGED forwarded
<1>1. block \in [magic : BOOLEAN, armed : BOOLEAN, expected_epc : Nat, exception_count : Nat,
                cause : Nat, hilo : {"unset", "old", "new", "other"}]
  BY DEF TypeOK
<1>2. block.exception_count + 1 \in Nat
  BY <1>1
<1>3. /\ UNCHANGED forwarded
      /\ block' = [block EXCEPT !.exception_count = block.exception_count + 1,
                                !.cause = c, !.hilo = h]
  BY DEF Capture
<1>4. block' \in [magic : BOOLEAN, armed : BOOLEAN, expected_epc : Nat, exception_count : Nat,
                 cause : Nat, hilo : {"unset", "old", "new", "other"}]
  BY <1>1, <1>2, <1>3
<1>5. /\ block'.magic = block.magic /\ block'.armed = block.armed
      /\ block'.expected_epc = block.expected_epc
  BY <1>1, <1>3
<1>6. block'.exception_count = block.exception_count + 1 /\ block'.cause = c /\ block'.hilo = h
  BY <1>1, <1>3
<1> QED BY <1>3, <1>4, <1>5, <1>6

\* What a test is.
LEMMA EveryTest ==
  ASSUME NEW i \in DOMAIN Tests
  PROVE  /\ Tests[i] \in [check : {"trap", "hilo"}, cause : Causes, bug : BOOLEAN, epc : Nat \ {0}]
         /\ Tests[i].epc \notin StrayEpcs
         /\ DOMAIN Tests = 1..Len(Tests) /\ Len(Tests) \in Nat
<1>1. \A S : \A s \in Seq(S) : /\ Len(s) \in Nat /\ DOMAIN s = 1..Len(s)
                               /\ \A j \in DOMAIN s : s[j] \in S
  OBVIOUS
<1> QED BY <1>1, TestsAssumption

\* The test program is at a test whenever it is not at its start or end.
LEMMA AtATest ==
  ASSUME TypeOK, BlockInv, pc \in Testing
  PROVE  /\ t \in 1..Len(Tests) /\ test.epc \in Nat /\ test.check \in {"trap", "hilo"}
         /\ test.cause \in Causes /\ test.cause \in Nat \ {0} /\ test.bug \in BOOLEAN
         /\ test.epc \notin StrayEpcs
<1>1. t \in DOMAIN Tests /\ DOMAIN Tests = 1..Len(Tests)
  BY TestsAssumption DEF BlockInv
<1>2. test \in [check : {"trap", "hilo"}, cause : Causes, bug : BOOLEAN, epc : Nat \ {0}]
  BY <1>1, EveryTest DEF test
<1> QED BY <1>1, <1>2, EveryTest, ConstantsAssumption DEF test

\* Where there are tests there is a first one.
LEMMA SomeTest == Tests # <<>> => 1 \in DOMAIN Tests
<1>1. \A S : \A s \in Seq(S) : s # <<>> => 1 \in DOMAIN s
  OBVIOUS
<1> QED BY <1>1, TestsAssumption

\* The block and the handler, at the start and after every step.
LEMMA HandlerStart == Init => HandlerInv
<1> SUFFICES ASSUME Init PROVE HandlerInv
  OBVIOUS
<1>1. Tests \in Seq([check : {"trap", "hilo"}, cause : Causes, bug : BOOLEAN, epc : Nat \ {0}])
  BY TestsAssumption
<1>2. ecb \in BOOLEAN /\ installed \in BOOLEAN
  BY Zenon DEF Init
<1>3. TypeOK
  BY <1>1, <1>2, ConstantsAssumption DEF Init, Cleared, TypeOK
<1> QED BY <1>3 DEF Init, HandlerInv, BlockInv, Testing, FatalOnlyUninstalled

\* Every step, of the program or of another thread, keeps it.
LEMMA HandlerStep == HandlerInv /\ [Next]_vars => HandlerInv'
<1> SUFFICES ASSUME HandlerInv, [Next]_vars PROVE HandlerInv'
  OBVIOUS
<1> USE DEF HandlerInv
<1>1. CASE LoadFails
  BY <1>1 DEF LoadFails, TypeOK, BlockInv, Testing, FatalOnlyUninstalled
<1>2. CASE LoadAndStart
  <2>1. UNCHANGED <<t, block, unset, outcome, errors, strays, spoiled, forwarded>> /\ ecb' = TRUE
    BY <1>2 DEF LoadAndStart
  <2>2. installed' \in BOOLEAN
    BY Zenon, <1>2 DEF LoadAndStart
  <2>3. pc' = IF Tests = <<>> THEN "report" ELSE "reset"
    BY <1>2 DEF LoadAndStart
  <2>4. Tests # <<>> => 1 \in DOMAIN Tests
    BY SomeTest
  <2>5. t = 1
    BY <1>2 DEF LoadAndStart, BlockInv
  <2>6. TypeOK'
    BY <2>1, <2>2, <2>3 DEF TypeOK
  <2> QED BY <2>1, <2>3, <2>4, <2>5, <2>6 DEF BlockInv, Testing, FatalOnlyUninstalled
<1>3. CASE Reset
  BY <1>3 DEF Reset, Cleared, TypeOK, BlockInv, Testing, FatalOnlyUninstalled
<1>4. CASE Fill
  BY <1>4 DEF Fill, TypeOK, BlockInv, Testing, FatalOnlyUninstalled
<1>5. CASE StoreEpc
  BY <1>5, AtATest DEF StoreEpc, test, TypeOK, BlockInv, Testing, FatalOnlyUninstalled
<1>6. CASE TestedInstruction
  <2>1. /\ pc = "trap" /\ UNCHANGED <<t, ecb, installed, unset, errors, strays, spoiled>>
    BY <1>6 DEF TestedInstruction
  <2>2. PICK o \in Outcomes :
          /\ outcome' = [outcome EXCEPT ![t] = o]
          /\ \/ o.cause = 0 /\ pc' = "disarm" /\ UNCHANGED <<block, forwarded>>
             \/ /\ o.cause # 0 /\ Expected(test.epc)
                /\ Capture(o.cause, IF o.bug THEN "new" ELSE "old") /\ pc' = "disarm"
             \/ o.cause # 0 /\ ~Expected(test.epc) /\ Forward /\ pc' = "dead"
    BY <1>6 DEF TestedInstruction
  <2>a. o \in [cause : Causes \cup {0}, bug : BOOLEAN, final : BOOLEAN]
    BY DEF Outcomes
  <2>b. o.cause \in Nat
    <3>1. o.cause \in Causes \cup {0}
      BY <2>a
    <3> QED BY <3>1, CausesNat
  <2>c. outcome' \in [DOMAIN Tests -> [cause : Causes \cup {0}, bug : BOOLEAN, final : BOOLEAN]]
    BY <2>2, <2>a DEF TypeOK
  <2>3. /\ o \in [cause : Causes \cup {0}, bug : BOOLEAN, final : BOOLEAN] /\ o.cause \in Nat
        /\ outcome' \in [DOMAIN Tests -> [cause : Causes \cup {0}, bug : BOOLEAN, final : BOOLEAN]]
    BY <2>a, <2>b, <2>c
  <2>4. CASE pc' = "disarm" /\ UNCHANGED <<block, forwarded>>
    BY <2>1, <2>3, <2>4 DEF TypeOK, BlockInv, Testing, FatalOnlyUninstalled
  <2>5. CASE Capture(o.cause, IF o.bug THEN "new" ELSE "old") /\ pc' = "disarm"
    BY <2>1, <2>3, <2>5, CaptureKeepsAnnouncement DEF TypeOK, BlockInv, Testing, FatalOnlyUninstalled
  <2>6. CASE ~Expected(test.epc) /\ Forward /\ pc' = "dead"
    <3>1. ~installed
      BY <2>1, <2>6 DEF Expected, BlockInv, test
    <3>2. forwarded' \in Nat /\ UNCHANGED block
      BY <2>6, Counters DEF Forward
    <3> QED BY <2>1, <2>3, <2>6, <3>1, <3>2 DEF TypeOK, BlockInv, Testing, FatalOnlyUninstalled
  <2> QED BY <2>2, <2>4, <2>5, <2>6
<1>7. CASE Disarm
  BY <1>7 DEF Disarm, TypeOK, BlockInv, Testing, FatalOnlyUninstalled
<1>8. CASE Validate
  <2>1. Reported \in SUBSET {"not raised", "cause", "final", "hilo"}
    BY DEF Reported
  <2>2. t \in 1..Len(Tests) /\ Len(Tests) \in Nat
    BY <1>8, AtATest, EveryTest DEF Validate, Testing, BlockInv
  <2>d. t' = t + 1 /\ pc' = IF t = Len(Tests) THEN "report" ELSE "reset"
    BY <1>8 DEF Validate
  <2>a. /\ errors' = [errors EXCEPT ![t] = Reported]
        /\ UNCHANGED <<ecb, installed, block, unset, outcome, strays, spoiled, forwarded>>
    BY <1>8 DEF Validate
  <2>b. t' \in 1..Len(Tests) + 1
    BY <2>2, <2>d
  <2>e. pc' = "reset" => t' \in DOMAIN Tests
    <3>1. t \in DOMAIN Tests /\ DOMAIN Tests = 1..Len(Tests)
      BY <1>8, AtATest, EveryTest DEF Validate, Testing, BlockInv
    <3> QED BY <2>2, <2>d, <3>1
  <2>c. errors' \in [DOMAIN Tests -> SUBSET {"not raised", "cause", "final", "hilo"}]
    BY <2>1, <2>a DEF TypeOK
  <2>3. TypeOK'
    BY <2>d, <2>a, <2>b, <2>c DEF TypeOK
  <2>4. BlockInv'
    BY <2>a, <2>d, <2>e DEF BlockInv, Testing
  <2> QED BY <1>8, <2>3, <2>4 DEF Validate, FatalOnlyUninstalled
<1>9. CASE StrayException
  <2>1. /\ UNCHANGED <<pc, t, ecb, installed, unset, outcome, errors>>
        /\ strays < MaxStrays /\ strays' = strays + 1
    BY <1>9 DEF StrayException
  <2> strays' \in 0..MaxStrays
    BY <2>1, Counters, CausesNat
  <2>s. spoiled' \subseteq 1..Len(Tests) + 1
    BY <1>9 DEF StrayException, TypeOK
  <2>2. CASE Forward
    <3>1. forwarded' \in Nat /\ UNCHANGED block
      BY <2>2, Counters DEF Forward
    <3> QED BY <2>1, <2>s, <3>1 DEF TypeOK, BlockInv, FatalOnlyUninstalled
  <2>3. ASSUME NEW cause \in Causes, Capture(cause, "other") PROVE HandlerInv'
    <3>1. cause \in Nat
      BY ConstantsAssumption
    <3> QED BY <2>1, <2>s, <2>3, <3>1, CaptureKeepsAnnouncement DEF TypeOK, BlockInv, FatalOnlyUninstalled
  <2> QED BY <1>9, <2>2, <2>3 DEF StrayException
<1>10. CASE UNCHANGED vars
  BY <1>10 DEF vars, TypeOK, BlockInv, Testing, FatalOnlyUninstalled
<1> QED BY <1>1, <1>2, <1>3, <1>4, <1>5, <1>6, <1>7, <1>8, <1>9, <1>10 DEF Next, Program

\* Every variable keeps its type: what the handler counts included.
THEOREM TypeCorrect == Spec => []TypeOK
<1>1. HandlerInv => TypeOK
  BY DEF HandlerInv
<1> QED BY HandlerStart, HandlerStep, <1>1, PTL DEF Spec

\* A trap is fatal only without the handler, whatever other threads do and
\* wherever they fault (exhndlr.S _tests_exception_handler, 58-166).
THEOREM TrapsCaptured == Spec => []FatalOnlyUninstalled
<1>1. HandlerInv => FatalOnlyUninstalled
  BY DEF HandlerInv
<1> QED BY HandlerStart, HandlerStep, <1>1, PTL DEF Spec

-----------------------------------------------------------------------------
(* What the block announces to other threads.                               *)

\* The tested instruction leaves what is announced as it is.
LEMMA TrapKeepsAnnouncement ==
  ASSUME HandlerInv, TestedInstruction
  PROVE  /\ pc = "trap" /\ pc' \in {"disarm", "dead"}
         /\ block'.armed = block.armed /\ block'.expected_epc = block.expected_epc
<1>1. PICK o \in Outcomes :
        \/ pc' = "disarm" /\ UNCHANGED block
        \/ Capture(o.cause, IF o.bug THEN "new" ELSE "old") /\ pc' = "disarm"
        \/ Forward /\ pc' = "dead"
  BY DEF TestedInstruction
<1>2. o.cause \in Nat
  BY CausesNat DEF Outcomes
<1>3. pc = "trap"
  BY DEF TestedInstruction
<1>4. CASE UNCHANGED block /\ pc' = "disarm"
  BY <1>3, <1>4
<1>5. CASE Forward /\ pc' = "dead"
  BY <1>3, <1>5 DEF Forward
<1>6. CASE Capture(o.cause, IF o.bug THEN "new" ELSE "old") /\ pc' = "disarm"
  BY <1>2, <1>3, <1>6, CaptureKeepsAnnouncement DEF HandlerInv
<1> QED BY <1>1, <1>4, <1>5, <1>6

\* An exception of another thread goes to the previous handler, or the block
\* announces address 0.
LEMMA StrayCases ==
  ASSUME HandlerInv, WindowInv, StrayException
  PROVE  /\ UNCHANGED <<pc, t, outcome, errors>>
         /\ \/ UNCHANGED <<block, spoiled>>
            \/ /\ pc \in {"fill", "announce"} /\ block.armed /\ block.expected_epc = 0
               /\ block'.armed = block.armed /\ block'.expected_epc = block.expected_epc
               /\ block'.exception_count = block.exception_count + 1
               /\ spoiled' = spoiled \cup {t}
<1>1. UNCHANGED <<pc, t, outcome, errors>>
  BY DEF StrayException
<1>2. PICK epc \in StrayEpcs, cause \in Causes :
        IF Expected(epc) THEN Capture(cause, "other") /\ spoiled' = spoiled \cup {t}
                         ELSE Forward /\ UNCHANGED spoiled
  BY DEF StrayException
<1>3. CASE ~Expected(epc)
  BY <1>1, <1>2, <1>3 DEF Forward
<1>4. CASE Expected(epc)
  <2>1. block.armed /\ pc \in {"fill", "announce"} /\ block.expected_epc = 0
    BY <1>4 DEF Expected, WindowInv
  <2>2. cause \in Nat /\ Capture(cause, "other")
    BY <1>2, <1>4, CausesNat
  <2>3. /\ block'.armed = block.armed /\ block'.expected_epc = block.expected_epc
        /\ block'.exception_count = block.exception_count + 1
    BY <2>2, CaptureKeepsAnnouncement DEF HandlerInv
  <2> QED BY <1>1, <1>2, <1>4, <2>1, <2>3
<1> QED BY <1>3, <1>4

\* What is announced, at the start and after every step.
LEMMA WindowStart == Init => WindowInv
BY DEF Init, Cleared, WindowInv

\* Every step keeps it: what the instruction's address replaces is 0, and the
\* handler changes no address.
LEMMA WindowStep ==
  ASSUME HandlerInv, WindowInv, [Next]_vars
  PROVE  WindowInv'
<1>1. CASE LoadFails \/ LoadAndStart
  BY <1>1 DEF LoadFails, LoadAndStart, WindowInv
<1>2. CASE Reset
  BY <1>2 DEF Reset, Cleared, WindowInv
<1>3. CASE Fill
  <2>1. PICK f \in unset : block' = [block EXCEPT ![f] = TRUE] /\ f \in {"magic", "armed"}
    BY <1>3 DEF Fill, HandlerInv, TypeOK
  <2>2. block'.expected_epc = block.expected_epc
    BY <2>1 DEF HandlerInv, TypeOK
  <2> QED BY <1>3, <2>2 DEF Fill, WindowInv
<1>4. CASE StoreEpc
  <2>1. block'.expected_epc = test.epc /\ pc' = "trap" /\ pc = "announce"
    BY <1>4 DEF StoreEpc, HandlerInv, TypeOK
  <2>2. test.epc \notin StrayEpcs
    BY <2>1, AtATest DEF HandlerInv, Testing
  <2> QED BY <2>1, <2>2 DEF WindowInv
<1>5. CASE TestedInstruction
  BY <1>5, TrapKeepsAnnouncement DEF WindowInv
<1>6. CASE Disarm
  <2>1. block'.expected_epc = block.expected_epc /\ (block'.armed => block.armed)
    BY <1>6 DEF Disarm, HandlerInv, TypeOK
  <2> QED BY <1>6, <2>1 DEF Disarm, WindowInv
<1>7. CASE Validate
  BY <1>7 DEF Validate, WindowInv
<1>8. CASE StrayException
  BY <1>8, StrayCases DEF WindowInv
<1>9. CASE UNCHANGED vars
  BY <1>9 DEF vars, WindowInv
<1> QED BY <1>1, <1>2, <1>3, <1>4, <1>5, <1>6, <1>7, <1>8, <1>9 DEF Next, Program

\* An exception of another thread changes the block only while that announces
\* address 0 (exhndlr.S, 58-93; mips-allegrex.c, 73-87 and 639-663).
THEOREM StraysForwarded == Spec => CapturedOnlyAtZero
<1>1. HandlerInv /\ WindowInv /\ [Next]_vars =>
        [strays' # strays /\ block' # block =>
           pc \in {"fill", "announce"} /\ block.armed /\ block.expected_epc = 0]_vars
  <2> SUFFICES ASSUME HandlerInv, WindowInv, [Next]_vars, strays' # strays, block' # block
               PROVE  pc \in {"fill", "announce"} /\ block.armed /\ block.expected_epc = 0
    OBVIOUS
  <2>1. StrayException
    BY DEF Next, Program, LoadFails, LoadAndStart, Reset, Fill, StoreEpc, TestedInstruction,
           Disarm, Validate, vars
  <2> QED BY <2>1, StrayCases
<1>2. HandlerInv /\ WindowInv /\ [Next]_vars => (HandlerInv /\ WindowInv)'
  BY HandlerStep, WindowStep
<1>3. Init => HandlerInv /\ WindowInv
  BY HandlerStart, WindowStart
<1> QED BY <1>1, <1>2, <1>3, PTL DEF Spec, CapturedOnlyAtZero

-----------------------------------------------------------------------------
(* What is counted, and the verdicts.                                       *)

\* The tests before the one at hand.
LEMMA TestsBefore ==
  ASSUME HandlerInv
  PROVE  t \in Nat /\ \A i \in 1..t-1 : i \in DOMAIN Tests /\ i # t
<1>1. DOMAIN Tests = 1..Len(Tests) /\ Len(Tests) \in Nat
  <2>1. \A S : \A s \in Seq(S) : Len(s) \in Nat /\ DOMAIN s = 1..Len(s)
    OBVIOUS
  <2> QED BY <2>1, TestsAssumption
<1>2. t \in 1..Len(Tests) + 1
  BY DEF HandlerInv, TypeOK
<1>3. t \in Nat /\ \A i \in 1..t-1 : i \in 1..Len(Tests) /\ i # t
  BY <1>1, <1>2
<1> QED BY <1>1, <1>3

\* Nothing is captured at first.
LEMMA CountStart == Init => CountInv
BY DEF Init, CountInv

\* The tested instruction leaves what it did, added to what was there.
LEMMA TrapCounted ==
  ASSUME HandlerInv, CountInv, TestedInstruction
  PROVE  CountInv'
<1>1. /\ pc = "trap" /\ UNCHANGED <<t, installed, spoiled>> /\ t \in DOMAIN Tests
      /\ spoiled \subseteq 1..t
      /\ IF t \in spoiled THEN block.exception_count >= 1 ELSE Untouched
  BY DEF TestedInstruction, HandlerInv, BlockInv, Testing, CountInv
<1>2. PICK o \in Outcomes :
        /\ outcome' = [outcome EXCEPT ![t] = o]
        /\ \/ o.cause = 0 /\ pc' = "disarm" /\ UNCHANGED <<block, forwarded>>
           \/ /\ o.cause # 0 /\ Expected(test.epc)
              /\ Capture(o.cause, IF o.bug THEN "new" ELSE "old") /\ pc' = "disarm"
           \/ o.cause # 0 /\ ~Expected(test.epc) /\ Forward /\ pc' = "dead"
  BY DEF TestedInstruction
<1>3. outcome'[t] = o
  BY <1>1, <1>2 DEF HandlerInv, TypeOK
<1>4. CASE o.cause = 0 /\ pc' = "disarm" /\ UNCHANGED <<block, forwarded>>
  BY <1>1, <1>3, <1>4 DEF CountInv, Holds, Untouched
<1>5. CASE o.cause # 0 /\ Capture(o.cause, IF o.bug THEN "new" ELSE "old") /\ pc' = "disarm"
  <2>1. o.cause \in Causes \cup {0}
    BY DEF Outcomes
  <2>2. /\ block'.exception_count = block.exception_count + 1
        /\ block'.cause = o.cause
        /\ block'.hilo = IF o.bug THEN "new" ELSE "old"
    BY <1>5, <2>1, CausesNat, CaptureKeepsAnnouncement DEF HandlerInv
  <2>3. block.exception_count \in Nat
    BY DEF HandlerInv, TypeOK
  <2>4. CASE t \in spoiled
    BY <1>1, <1>5, <2>2, <2>3, <2>4 DEF CountInv
  <2>5. CASE t \notin spoiled
    BY <1>1, <1>3, <1>5, <2>2, <2>5 DEF CountInv, Holds, Untouched
  <2> QED BY <2>4, <2>5
<1>6. CASE Forward /\ pc' = "dead"
  BY <1>1, <1>6 DEF CountInv
<1> QED BY <1>2, <1>4, <1>5, <1>6

\* Every step keeps the count.
LEMMA CountStep ==
  ASSUME HandlerInv, WindowInv, CountInv, [Next]_vars
  PROVE  CountInv'
<1>1. CASE LoadFails \/ LoadAndStart
  BY <1>1 DEF LoadFails, LoadAndStart, CountInv
<1>2. CASE Reset
  BY <1>2 DEF Reset, Cleared, CountInv, Untouched
<1>3. CASE Fill
  <2>1. PICK f \in unset : block' = [block EXCEPT ![f] = TRUE] /\ f \in {"magic", "armed"}
    BY <1>3 DEF Fill, HandlerInv, TypeOK
  <2>2. block'.exception_count = block.exception_count /\ block'.cause = block.cause
    BY <2>1 DEF HandlerInv, TypeOK
  <2>3. pc = "fill" /\ pc' \in {"fill", "announce"} /\ UNCHANGED <<t, spoiled>>
    BY <1>3 DEF Fill
  <2> QED BY <2>2, <2>3 DEF CountInv, Untouched
<1>4. CASE StoreEpc
  <2>1. /\ block'.exception_count = block.exception_count /\ block'.cause = block.cause
        /\ pc' = "trap" /\ pc = "announce" /\ UNCHANGED <<t, spoiled>>
    BY <1>4 DEF StoreEpc, HandlerInv, TypeOK
  <2> QED BY <2>1 DEF CountInv, Untouched
<1>5. CASE TestedInstruction
  BY <1>5, TrapCounted
<1>6. CASE Disarm
  <2>1. /\ block'.exception_count = block.exception_count /\ block'.cause = block.cause
        /\ block'.hilo = block.hilo /\ pc = "disarm" /\ pc' = "validate"
        /\ UNCHANGED <<t, outcome, spoiled>>
    BY <1>6 DEF Disarm, HandlerInv, TypeOK
  <2> QED BY <2>1 DEF CountInv, Holds, Untouched
<1>7. CASE Validate
  <2>1. t' = t + 1 /\ spoiled' = spoiled /\ pc' \in {"report", "reset"} /\ t \in Nat
    BY <1>7, TestsBefore DEF Validate
  <2>2. spoiled \subseteq 1..t
    BY DEF CountInv
  <2>3. spoiled' \subseteq 1..t' /\ t' \notin spoiled'
    BY <2>1, <2>2
  <2> QED BY <2>1, <2>3 DEF CountInv
<1>8. CASE StrayException
  <2>1. UNCHANGED <<pc, t, outcome>>
    BY <1>8, StrayCases
  <2>2. CASE UNCHANGED <<block, spoiled>>
    BY <2>1, <2>2 DEF CountInv, Holds, Untouched
  <2>3. CASE /\ pc \in {"fill", "announce"} /\ spoiled' = spoiled \cup {t}
             /\ block'.exception_count = block.exception_count + 1
    <3>a. block.exception_count \in Nat /\ t \in 1..Len(Tests) + 1
      BY DEF HandlerInv, TypeOK
    <3>b. t \in Nat
      BY TestsBefore
    <3>1. t \in 1..t
      BY <3>a, <3>b
    <3>c. spoiled \subseteq 1..t
      BY DEF CountInv
    <3>2. spoiled' \subseteq 1..t /\ block'.exception_count >= 1
      BY <2>3, <3>a, <3>1, <3>c
    <3> QED BY <2>1, <2>3, <3>2 DEF CountInv
  <2> QED BY <1>8, <2>2, <2>3, StrayCases
<1>9. CASE UNCHANGED vars
  BY <1>9 DEF vars, CountInv, Holds, Untouched
<1> QED BY <1>1, <1>2, <1>3, <1>4, <1>5, <1>6, <1>7, <1>8, <1>9 DEF Next, Program

\* The checks of each kind of test, in the order they are made.
LEMMA ReportedWhen ==
  ASSUME HandlerInv, pc = "validate"
  PROVE  Reported = {} <=>
           /\ block.exception_count = 1 /\ block.cause = test.cause
           /\ test.check = "hilo" =>
                outcome[t].final /\ (block.hilo = IF test.bug THEN "new" ELSE "old")
<1> DEFINE uncaught == block.exception_count # 1
           other    == block.cause # test.cause
           final    == ~outcome[t].final
           hilo     == block.hilo # (IF test.bug THEN "new" ELSE "old")
<1>1. test.check \in {"trap", "hilo"}
  BY AtATest DEF HandlerInv, Testing
<1>2. CASE test.check = "trap"
  <2>1. Reported = {e \in {"not raised", "cause"} : IF e = "cause" THEN other ELSE uncaught}
    BY <1>2, Zenon DEF Reported
  <2>2. "cause" \in Reported <=> other
    BY <2>1
  <2>3. "not raised" \in Reported <=> uncaught
    BY <2>1
  <2>4. Reported \subseteq {"not raised", "cause"}
    BY <2>1, Zenon
  <2> HIDE DEF other, uncaught
  <2>5. Reported = {} <=> ~uncaught /\ ~other
    BY <2>2, <2>3, <2>4
  <2> QED BY <1>2, <2>5 DEF other, uncaught
<1>3. CASE test.check = "hilo"
  <2>1. Reported = IF uncaught THEN {"not raised"} ELSE IF other THEN {"cause"}
                   ELSE IF final THEN {"final"} ELSE IF hilo THEN {"hilo"} ELSE {}
    BY <1>3, Zenon DEF Reported
  <2> HIDE DEF uncaught, other, final, hilo
  <2>2. Reported = {} <=> ~uncaught /\ ~other /\ ~final /\ ~hilo
    BY <2>1
  <2> QED BY <1>3, <2>2 DEF uncaught, other, final, hilo
<1> QED BY <1>1, <1>2, <1>3

\* What is reported of a test whose outcome is in the block, and of one that an
\* exception of another thread was added to.
LEMMA ReportedRight ==
  ASSUME HandlerInv, CountInv, pc = "validate"
  PROVE  IF t \in spoiled THEN Reported = {} => outcome[t].cause = 0
                          ELSE Reported = {} <=> AsExpected(t)
<1>1. /\ test.check \in {"trap", "hilo"} /\ test.cause \in Nat \ {0} /\ test.bug \in BOOLEAN
  BY AtATest DEF HandlerInv, Testing
<1>2. outcome[t].bug \in BOOLEAN
  BY AtATest DEF HandlerInv, TypeOK, BlockInv, Testing
<1>3. CASE t \in spoiled
  <2>1. outcome[t].cause # 0 => block.exception_count >= 2
    BY <1>3 DEF CountInv
  <2> QED BY <1>3, <2>1, ReportedWhen
<1>4. CASE t \notin spoiled
  <2>1. Holds(outcome[t])
    BY <1>4 DEF CountInv
  <2>2. CASE outcome[t].cause = 0
    <3>1. block.exception_count = 0
      BY <2>1, <2>2 DEF Holds, Untouched
    <3>2. ~(Reported = {}) /\ ~AsExpected(t)
      BY <1>1, <2>2, <3>1, ReportedWhen DEF AsExpected, test
    <3> QED BY <1>4, <3>2
  <2>3. CASE outcome[t].cause # 0
    <3>1. /\ block.exception_count = 1 /\ block.cause = outcome[t].cause
          /\ (block.hilo = IF test.bug THEN "new" ELSE "old") <=> outcome[t].bug = test.bug
      BY <1>1, <1>2, <2>1, <2>3 DEF Holds
    <3>2. Reported = {} <=> AsExpected(t)
      BY <3>1, ReportedWhen DEF AsExpected, test
    <3> QED BY <1>4, <3>2
  <2> QED BY <2>2, <2>3
<1> QED BY <1>3, <1>4

\* A verdict is right when it is given and stays as it is.
LEMMA VerdictStep ==
  ASSUME CaptureInv, [Next]_vars
  PROVE  VerdictSound'
<1> USE DEF CaptureInv
<1>1. CASE Validate
  <2>1. t' = t + 1 /\ errors' = [errors EXCEPT ![t] = Reported] /\ UNCHANGED <<outcome, spoiled>>
    BY <1>1 DEF Validate
  <2>2. /\ t \in DOMAIN Tests /\ t \in Nat /\ DOMAIN errors = DOMAIN Tests
    BY <1>1, TestsBefore DEF Validate, Testing, HandlerInv, BlockInv, TypeOK
  <2>3. IF t \in spoiled THEN Reported = {} => outcome[t].cause = 0
                         ELSE Reported = {} <=> AsExpected(t)
    BY <1>1, ReportedRight DEF Validate
  <2> SUFFICES ASSUME NEW i \in 1..t
               PROVE  IF i \in spoiled THEN errors'[i] = {} => outcome[i].cause = 0
                                       ELSE errors'[i] = {} <=> AsExpected(i)
    BY <2>1, <2>2 DEF VerdictSound, AsExpected
  <2>4. CASE i = t
    BY <2>1, <2>2, <2>3, <2>4 DEF HandlerInv, TypeOK
  <2>5. CASE i # t
    BY <2>1, <2>2, <2>5 DEF VerdictSound
  <2> QED BY <2>4, <2>5
<1>2. CASE TestedInstruction
  <2>1. UNCHANGED <<t, errors, spoiled>> /\ \A i \in 1..t-1 : outcome'[i] = outcome[i]
    BY <1>2, TestsBefore DEF TestedInstruction, HandlerInv, TypeOK
  <2> QED BY <2>1 DEF VerdictSound, AsExpected
<1>3. CASE StrayException
  <2>1. UNCHANGED <<t, outcome, errors>> /\ (spoiled' = spoiled \/ spoiled' = spoiled \cup {t})
    BY <1>3, StrayCases
  <2>2. \A i \in 1..t-1 : i \in spoiled' <=> i \in spoiled
    BY <2>1, TestsBefore
  <2> QED BY <2>1, <2>2 DEF VerdictSound, AsExpected
<1>4. CASE \/ LoadFails \/ LoadAndStart \/ Reset \/ Fill \/ StoreEpc \/ Disarm \/ UNCHANGED vars
  <2>1. UNCHANGED <<t, outcome, errors, spoiled>>
    BY <1>4 DEF LoadFails, LoadAndStart, Reset, Fill, StoreEpc, Disarm, vars
  <2> QED BY <2>1 DEF VerdictSound, AsExpected
<1> QED BY <1>1, <1>2, <1>3, <1>4 DEF Next, Program

\* All of it, at the start and after every step.
LEMMA CaptureStart == Init => CaptureInv
<1>1. Init => VerdictSound
  BY DEF Init, VerdictSound
<1> QED BY <1>1, HandlerStart, WindowStart, CountStart DEF CaptureInv

\* Every step keeps the counts and the verdicts.
LEMMA CaptureStep == CaptureInv /\ [Next]_vars => CaptureInv'
BY HandlerStep, WindowStep, CountStep, VerdictStep DEF CaptureInv

\* A test during which no exception of another thread was captured reports
\* nothing exactly when its instruction trapped once and as expected; a test
\* during which one was, at most when its instruction did not trap (memops.c
\* _check_unaligned_access, 354-378; mips-allegrex.c _check_illegal_inst, 73-97,
\* and _TEST_HILO_BUG, 636-679).
THEOREM VerdictsRight == Spec => []VerdictSound
<1>1. CaptureInv => VerdictSound
  BY DEF CaptureInv
<1> QED BY CaptureStart, CaptureStep, <1>1, PTL DEF Spec
=============================================================================

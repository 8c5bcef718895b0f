----------------------------- MODULE AsmTester -----------------------------
(***************************************************************************)
(* asm-tester.py: for every instruction, a block of all its legal lines is *)
(* assembled by two assemblers and the outputs compared, and a block of    *)
(* all its illegal lines (check_overlap, the operator Legal of VfpuInst)   *)
(* must be refused with as many messages as it has lines. Blocks run in a  *)
(* pool of worker processes; the main process submits them all, then       *)
(* collects the results in order.                                          *)
(*                                                                         *)
(* Assemblers and objcopy are external: any outcome is possible, and the   *)
(* history variable saw records which one it was.                          *)
(***************************************************************************)
EXTENDS Integers, Sequences, FiniteSets, FiniteSetsExt

CONSTANTS
  Insts,     \* sequence of [good, bad, supported]: how many legal and illegal
             \* lines an instruction has, whether its operands can be listed
  Workers,   \* the processes of the pool
  Binaries,  \* .text contents an assembler may produce
  MaxExtra   \* bound: messages the reference may write beyond one per line

ASSUME InstsAssumption ==
  Insts \in Seq([good : Nat, bad : Nat, supported : BOOLEAN])

ASSUME MaxExtraAssumption == MaxExtra \in Nat

\* Blocks in the order they are submitted: legal, then illegal lines.
Blocks    == 1..2 * Len(Insts)
inst(b)   == Insts[(b + 1) \div 2]
Valid(b)  == b % 2 = 1
lines(b)  == IF Valid(b) THEN inst(b).good ELSE inst(b).bad

VARIABLES
  submitted, task, result, collected, aborted,   \* see WorkerPool
  step,       \* worker -> where it is in process_block
  files,      \* temporary files on disk: <<block, what>>
  saw,        \* history: block -> what the assemblers did with it, <<>> if not
              \* run: the two outputs, or the lines refused, the messages and
              \* whether the reference failed
  printed,    \* failures the main process printed
  totals      \* totalinsts and badinsts

Pool == INSTANCE WorkerPool WITH NumBlocks <- 2 * Len(Insts),
                                 Results   <- {"ok", "failed", "exception"}

pool == <<submitted, task, result, collected, aborted>>
own  == <<step, files, saw, printed, totals>>
vars == <<pool, own>>

Init ==
  /\ Pool!Init
  /\ step = [w \in Workers |-> "idle"]
  /\ files = {}
  /\ saw = [b \in Blocks |-> <<>>]
  /\ printed = {} /\ totals = [good |-> 0, bad |-> 0]

-----------------------------------------------------------------------------
(* process_block, in a worker.                                              *)

Submit == Pool!Submit /\ UNCHANGED own

Take(w) ==
  /\ step[w] = "idle" /\ Pool!Take(w)
  /\ step' = [step EXCEPT ![w] = "start"]
  /\ UNCHANGED <<files, saw, printed, totals>>

\* Most steps of a worker end its block or go on to the next step.
Return(w, r) == Pool!Return(w, r) /\ step' = [step EXCEPT ![w] = "idle"]
Go(w, s)     == step' = [step EXCEPT ![w] = s] /\ UNCHANGED pool

\* Instructions with operands it cannot list count as successes; others
\* have their lines written, and go on only if there are any.
Generate(w) ==
  /\ ~aborted /\ step[w] = "start"
  /\ LET b == task[w]
     IN \/ ~inst(b).supported /\ Return(w, "ok") /\ UNCHANGED files
        \/ inst(b).supported /\ lines(b) = 0 /\ Return(w, "ok") /\ UNCHANGED files
        \/ /\ inst(b).supported /\ lines(b) > 0
           /\ files' = files \cup {<<b, "asm">>}
           /\ Go(w, "assemble")
  /\ UNCHANGED <<saw, printed, totals>>

\* Fault: the lines are removed although an assembler failed on them.
AssembleUnlinking(w) ==
  /\ ~aborted /\ step[w] = "assemble" /\ Valid(task[w])
  /\ \E ref, under \in Binaries \cup {"fails"} :
       /\ saw' = [saw EXCEPT ![task[w]] = <<ref, under>>]
       /\ files' = files \ {<<task[w], "asm">>}
       /\ IF "fails" \in {ref, under} THEN Return(w, "failed") ELSE Go(w, "dump")
  /\ UNCHANGED <<printed, totals>>

\* run_sidebyside: a failing assembler leaves no object file, and ends the
\* block with whatever object the other one wrote still on disk.
Assemble(w) ==
  /\ ~aborted /\ step[w] = "assemble" /\ Valid(task[w])
  /\ \E ref, under \in Binaries \cup {"fails"} :
       /\ saw' = [saw EXCEPT ![task[w]] = <<ref, under>>]
       /\ files' = files \cup {f \in {task[w]} \X {"obj1", "obj2"} :
                                 IF f[2] = "obj1" THEN ref # "fails" ELSE under # "fails"}
       /\ IF "fails" \in {ref, under} THEN Return(w, "failed") ELSE Go(w, "dump")
  /\ UNCHANGED <<printed, totals>>

\* objcopy of both objects; the assertion that both succeed, or the end of
\* the objects.
Dump(w) ==
  /\ ~aborted /\ step[w] = "dump"
  /\ LET b == task[w]
     IN \/ Return(w, "exception") /\ UNCHANGED files
        \/ /\ files' = (files \ ({b} \X {"obj1", "obj2"})) \cup ({b} \X {"raw1", "raw2"})
           /\ Go(w, "compare")
  /\ UNCHANGED <<saw, printed, totals>>

\* The comparison: open(rawf1) == open(rawf1).
SameOutput(b) == saw[b][1] = saw[b][1]

Compare(w) ==
  /\ ~aborted /\ step[w] = "compare"
  /\ LET b == task[w]
     IN IF SameOutput(b)
        THEN files' = files \ ({b} \X {"raw1", "raw2", "asm"}) /\ Return(w, "ok")
        ELSE files' = files \ ({b} \X {"raw1", "raw2"}) /\ Return(w, "failed")
  /\ UNCHANGED <<saw, printed, totals>>

\* What the reference may do with a block of illegal lines: it fails if it
\* refuses a line, or of its own accord. Each refused line has a message, and
\* any line may have further ones, a warning if it was accepted. The header
\* that precedes them makes up for the last line end, which strip removed: the
\* line ends counted are the messages. <<lines refused, messages, it failed>>:
Complaints(b) ==
  {c \in (0..lines(b)) \X (0..lines(b) + MaxExtra) \X BOOLEAN :
     c[1] <= c[2] /\ (c[1] > 0 => c[3])}

\* Fault: any message is enough.
RefuseAny(w) ==
  /\ ~aborted /\ step[w] = "assemble" /\ ~Valid(task[w])
  /\ \E c \in Complaints(task[w]) :
       LET b == task[w]
       IN /\ saw' = [saw EXCEPT ![b] = c]
          /\ IF c[3] /\ c[2] > 0
             THEN files' = files \ {<<b, "asm">>} /\ Return(w, "ok")
             ELSE /\ files' = files \cup (IF c[3] THEN {} ELSE {<<b, "obj1">>})
                  /\ Return(w, "failed")
  /\ UNCHANGED <<printed, totals>>

\* run_errors: the reference must fail, with as many messages as there are
\* lines. Only if it does not fail does it leave an object. Messages that are
\* not ASCII cannot be decoded, which is an exception.
Refuse(w) ==
  /\ ~aborted /\ step[w] = "assemble" /\ ~Valid(task[w])
  /\ \E c \in Complaints(task[w]) :
       LET b == task[w]
       IN /\ saw' = [saw EXCEPT ![b] = c]
          /\ \/ c[3] /\ Return(w, "exception") /\ UNCHANGED files
             \/ IF c[3] /\ c[2] = lines(b)
                THEN files' = files \ {<<b, "asm">>} /\ Return(w, "ok")
                ELSE /\ files' = files \cup (IF c[3] THEN {} ELSE {<<b, "obj1">>})
                     /\ Return(w, "failed")
  /\ UNCHANGED <<printed, totals>>

-----------------------------------------------------------------------------
(* The main process, once everything is submitted.                          *)

Collect ==
  /\ Pool!Collect
  /\ LET b == collected + 1
         n == IF inst(b).supported THEN lines(b) ELSE 0
     IN /\ printed' = IF result[b] = "failed" THEN printed \cup {b} ELSE printed
        /\ totals' = IF result[b] = "ok"
                     THEN [totals EXCEPT ![IF Valid(b) THEN "good" ELSE "bad"] = @ + n]
                     ELSE totals
  /\ UNCHANGED <<step, files, saw>>

Work(w) == Take(w) \/ Generate(w) \/ Assemble(w) \/ Dump(w) \/ Compare(w) \/ Refuse(w)

Finished == Pool!Finished
\* The report, or the traceback, is the end.
End == (Finished \/ aborted) /\ UNCHANGED vars

Next == Submit \/ (\E w \in Workers : Work(w)) \/ Collect \/ End

Spec     == Init /\ [][Next]_vars
FairSpec == Spec /\ WF_vars(Submit) /\ WF_vars(Collect) /\ \A w \in Workers : WF_vars(Work(w))

-----------------------------------------------------------------------------
TypeOK ==
  /\ Pool!TypeOK
  /\ \A w \in Workers : step[w] \in {"idle", "start", "assemble", "dump", "compare"}
  /\ \A w \in Workers : step[w] = "idle" <=> task[w] = 0
  /\ files \subseteq Blocks \X {"asm", "obj1", "obj2", "raw1", "raw2"}
  /\ printed \subseteq 1..collected

(***************************************************************************)
(* What is on disk at the end is the evidence of the failures: their lines *)
(* and the objects of the assembler that did not fail; nothing of a block  *)
(* that succeeded.                                                         *)
(***************************************************************************)
EvidenceKept ==
  Finished => /\ \A b \in printed : <<b, "asm">> \in files
              /\ \A f \in files : f[1] \in printed /\ f[2] \notin {"raw1", "raw2"}

(***************************************************************************)
(* Every block of legal lines one of the assemblers gave up on is          *)
(* reported, and every block of illegal lines the reference accepted some  *)
(* of ("each line should be invalid", run_errors), unless exactly as many  *)
(* further messages make up for the lines accepted: run_errors counts the  *)
(* messages and does not see which line one is about. What is not reported *)
(* is counted as tested.                                                   *)
(***************************************************************************)
GaveUp(b)   == saw[b][1] = "fails" \/ saw[b][2] = "fails"
Accepted(b) == lines(b) - saw[b][1]
Further(b)  == saw[b][2] - saw[b][1]

FailureSeen(b) ==
  saw[b] # <<>> /\ (IF Valid(b) THEN GaveUp(b) ELSE ~saw[b][3] \/ Accepted(b) # Further(b))

LinesOf(B) == MapThenSumSet(lines, {b \in B : inst(b).supported})

RefusalsReported ==
  Finished =>
    /\ {b \in Blocks : FailureSeen(b)} \subseteq printed
    /\ totals.good + totals.bad = LinesOf(Blocks \ printed)

(***************************************************************************)
(* "This script can compare the output of two "as" builds" (asm-tester.py, *)
(* header): legal lines that the two assemble differently are reported.    *)
(***************************************************************************)
DifferencesReported ==
  Finished => \A b \in Blocks :
    Valid(b) /\ saw[b] # <<>> /\ saw[b][1] # saw[b][2] => b \in printed

\* The run ends: no result is waited for that no worker will produce.
Ends == <>(Finished \/ aborted)
=============================================================================

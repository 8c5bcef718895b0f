------------------------- MODULE DisasmTesterProofs -------------------------
(***************************************************************************)
(* For any table of instructions, any selection of them, any workers and   *)
(* whatever the disassemblers do: when disasm-tester.py has reported,      *)
(* every block was compared, and the report and the disk both say of each  *)
(* block what was seen of it.                                              *)
(*                                                                         *)
(* That is not inductive: SeenInv says for every step a worker may be at,  *)
(* and for every result, what was seen of the block and whether its file   *)
(* is on disk. What the disassemblers disagree on is settled before any    *)
(* block is taken (ProgramInv).                                            *)
(*                                                                         *)
(* That the table and the list of work are finite lists is a hypothesis of *)
(* the theorems: the length of the list of work is a sum of powers of two, *)
(* which the provers know nothing of. The run evaluates both.              *)
(***************************************************************************)
EXTENDS DisasmTester, TLAPS

Lists == Len(Insts) \in Nat /\ Len(Work) \in Nat

Steps    == {"idle", "write", "run", "unlink"}
Outcomes == {"same", "differs", "exception"}
Both     == <<TRUE, TRUE>>

\* The database, and a pool that does nothing before it is loaded.
ProgramInv ==
  /\ program \in {"instparse", "disasm-tester"} /\ faulty \subseteq Suspects
  /\ loaded \in 0..Len(Insts) /\ checked \in 0..loaded /\ crashed \in BOOLEAN
  /\ ~Testing => /\ \A w \in Workers : task[w] = 0
                 /\ \A b \in Blocks : result[b] = "none"

StepsInv ==
  /\ step \in [Workers -> Steps]
  /\ \A w \in Workers : step[w] = "idle" <=> task[w] = 0

\* What was seen of a block, and its file: at a step, at its end.
Good(b) == saw[b] = Both /\ Agree(b)

Doing(b, s) ==
  /\ s = "write"  => b \notin files
  /\ s = "run"    => b \in files
  /\ s = "unlink" => b \in files /\ Good(b)

Done(b, r) ==
  /\ r = "same"    => b \notin files /\ Good(b)
  /\ r = "differs" => b \in files /\ saw[b] # <<>> /\ ~Good(b)

SeenInv ==
  /\ files \subseteq Blocks
  /\ saw \in [Blocks -> (BOOLEAN \X BOOLEAN) \cup {<<>>}]
  /\ \A w \in Workers : task[w] # 0 => Doing(task[w], step[w])
  /\ \A b \in Blocks : result[b] # "none" => Done(b, result[b])
  /\ \A b \in Blocks : result[b] = "none" /\ (\A w \in Workers : task[w] # b) => b \notin files

ReportInv == printed = {b \in 1..collected : result[b] = "differs"}

\* The pool's invariant. A worker's block has no result, so what the pool hands
\* out next is in nobody's hands.
PoolInv == Pool!TypeOK /\ Pool!OneWorkerPerBlock /\ Pool!CollectedReturned

DisasmInv == PoolInv /\ ProgramInv /\ StepsInv /\ SeenInv /\ ReportInv

-----------------------------------------------------------------------------
(* The pool below.                                                          *)

\* The pool starts with nothing submitted.
LEMMA PoolStart ==
  ASSUME Lists, Pool!Init
  PROVE  PoolInv
<1>1. aborted \in BOOLEAN
  BY Zenon DEF Pool!Init
<1> QED BY <1>1 DEF Lists, Pool!Init, PoolInv, Pool!TypeOK, Pool!OneWorkerPerBlock,
                Pool!CollectedReturned, Pool!Blocks

\* A block that is handed out has no result and no other worker.
LEMMA PoolTakes ==
  ASSUME Lists, PoolInv, NEW w \in Workers, Pool!Take(w)
  PROVE  PoolInv'
<1>1. PICK b \in 1..submitted : ~Pool!Taken(b) /\ Pool!Assign(w, b)
  BY DEF Pool!Take
<1>2. /\ task' = [task EXCEPT ![w] = b] /\ b # 0
      /\ UNCHANGED <<submitted, result, collected, aborted>>
  BY <1>1 DEF Pool!Assign, PoolInv, Pool!TypeOK
<1>3. Pool!TypeOK' /\ Pool!CollectedReturned'
  BY <1>2 DEF Lists, PoolInv, Pool!TypeOK, Pool!CollectedReturned
<1>4. Pool!OneWorkerPerBlock'
  <2> SUFFICES ASSUME NEW u \in Workers, NEW v \in Workers, task'[u] # 0
               PROVE  result'[task'[u]] = "none" /\ (task'[u] = task'[v] => u = v)
    BY DEF Pool!OneWorkerPerBlock
  <2>1. result[b] = "none" /\ \A v1 \in Workers : task[v1] # b
    BY <1>1 DEF Pool!Taken
  <2> QED BY <1>2, <2>1 DEF PoolInv, Pool!TypeOK, Pool!OneWorkerPerBlock
<1> QED BY <1>3, <1>4 DEF PoolInv

\* A result is that of the worker's own block, which had none before and was
\* therefore not collected.
LEMMA PoolReturns ==
  ASSUME Lists, PoolInv, NEW w \in Workers,
         NEW r \in {"same", "differs", "exception"}, Pool!Return(w, r)
  PROVE  PoolInv'
<1> DEFINE b == task[w]
<1>1. b # 0 /\ b \in 1..submitted /\ b \in Pool!Blocks /\ result[b] = "none"
  BY DEF Lists, Pool!Return, PoolInv, Pool!TypeOK, Pool!OneWorkerPerBlock, Pool!Blocks
<1>2. /\ result' = [result EXCEPT ![b] = r] /\ task' = [task EXCEPT ![w] = 0]
      /\ UNCHANGED <<submitted, collected, aborted>>
  BY DEF Pool!Return
<1>3. Pool!TypeOK'
  BY <1>1, <1>2 DEF Lists, PoolInv, Pool!TypeOK
<1>4. Pool!OneWorkerPerBlock'
  <2> SUFFICES ASSUME NEW u \in Workers, NEW v \in Workers, task'[u] # 0
               PROVE  result'[task'[u]] = "none" /\ (task'[u] = task'[v] => u = v)
    BY DEF Pool!OneWorkerPerBlock
  <2>1. u # w /\ task'[u] = task[u] /\ task[u] # b
    BY <1>1, <1>2 DEF PoolInv, Pool!TypeOK, Pool!OneWorkerPerBlock
  <2> QED BY <1>1, <1>2, <2>1
          DEF Lists, PoolInv, Pool!TypeOK, Pool!OneWorkerPerBlock, Pool!Blocks
<1>5. Pool!CollectedReturned'
  <2> SUFFICES ASSUME NEW c \in 1..collected
               PROVE  result'[c] \notin {"none", "exception"}
    BY <1>2 DEF Pool!CollectedReturned
  <2>1. result[c] \notin {"none", "exception"}
    BY DEF PoolInv, Pool!CollectedReturned
  <2> QED BY <1>1, <1>2, <2>1 DEF Lists, PoolInv, Pool!TypeOK, Pool!Blocks
<1> QED BY <1>3, <1>4, <1>5 DEF PoolInv

\* The main process takes the next result if it is there, and stops at an
\* exception.
LEMMA PoolCollects ==
  ASSUME Lists, PoolInv, Pool!Collect
  PROVE  PoolInv'
<1>1. UNCHANGED <<submitted, task, result>>
  BY DEF Pool!Collect
<1>2. Pool!TypeOK'
  <2>1. aborted' \in BOOLEAN
    BY Zenon DEF Pool!Collect, PoolInv, Pool!TypeOK
  <2>2. collected' \in {collected, collected + 1}
    BY Zenon DEF Pool!Collect
  <2>3. collected' \in 0..submitted'
    BY <1>1, <2>2 DEF Lists, Pool!Collect, PoolInv, Pool!TypeOK
  <2> QED BY <1>1, <2>1, <2>3 DEF PoolInv, Pool!TypeOK
<1>3. Pool!OneWorkerPerBlock' /\ Pool!CollectedReturned'
  BY <1>1 DEF Lists, Pool!Collect, PoolInv, Pool!TypeOK, Pool!OneWorkerPerBlock,
                   Pool!CollectedReturned
<1> QED BY <1>2, <1>3 DEF PoolInv

\* Submission changes the number of blocks submitted and nothing else.
LEMMA PoolSubmits ==
  ASSUME Lists, PoolInv, Pool!Submit
  PROVE  PoolInv'
BY DEF Lists, Pool!Submit, PoolInv, Pool!TypeOK, Pool!OneWorkerPerBlock,
             Pool!CollectedReturned, Pool!Blocks

\* Every step of the tester is a step of its pool, or leaves it alone.
LEMMA PoolKeeps ==
  ASSUME Lists, PoolInv, [Next]_vars
  PROVE  PoolInv'
<1>1. CASE Submit
  BY <1>1, PoolSubmits DEF Submit
<1>2. CASE Collect
  BY <1>2, PoolCollects DEF Collect
<1>3. ASSUME NEW w \in Workers, Take(w) PROVE PoolInv'
  BY <1>3, PoolTakes DEF Take
<1>4. CASE UNCHANGED pool
  BY <1>4 DEF pool, PoolInv, Pool!TypeOK, Pool!OneWorkerPerBlock, Pool!CollectedReturned
<1>5. ASSUME NEW w \in Workers, WriteWords(w) \/ Run(w) \/ Unlink(w) \/ Raise(w)
      PROVE  PoolInv'
  <2>1. (\E r \in {"same", "differs", "exception"} : Return(w, r)) \/ (\E s : Go(w, s))
    BY <1>5 DEF WriteWords, Run, Unlink, Raise
  <2> QED BY <2>1, <1>4, PoolReturns DEF Return, Go
<1>6. CASE Import \/ Validate \/ UNCHANGED vars
  BY <1>4, <1>6 DEF Import, Validate, vars
<1> QED BY <1>1, <1>2, <1>3, <1>5, <1>6 DEF Next, Process, End

-----------------------------------------------------------------------------
(* The blocks above.                                                        *)

\* Types of the pool's variables.
LEMMA PoolTypes ==
  ASSUME Lists, DisasmInv
  PROVE  /\ task \in [Workers -> 0..submitted] /\ 0..submitted \subseteq Blocks \cup {0}
         /\ result \in [Blocks -> Outcomes \cup {"none"}]
         /\ collected \in Nat /\ 1..collected \subseteq Blocks
BY DEF Lists, DisasmInv, PoolInv, Pool!TypeOK, Pool!Blocks, Blocks, Outcomes

\* What is known of a worker in the middle of its block.
LEMMA OwnBlock ==
  ASSUME Lists, DisasmInv, NEW w \in Workers, step[w] # "idle"
  PROVE  /\ task[w] \in Blocks /\ task[w] # 0
         /\ result[task[w]] = "none" /\ task[w] \notin 1..collected
         /\ \A v \in Workers \ {w} : task[v] # task[w]
         /\ Doing(task[w], step[w])
<1>1. task[w] \in Blocks /\ task[w] # 0
  BY PoolTypes DEF DisasmInv, StepsInv
<1>2. result[task[w]] = "none" /\ \A v \in Workers \ {w} : task[v] # task[w]
  BY <1>1 DEF DisasmInv, PoolInv, Pool!OneWorkerPerBlock
<1>3. task[w] \notin 1..collected
  BY <1>2 DEF DisasmInv, PoolInv, Pool!CollectedReturned
<1> QED BY <1>1, <1>2, <1>3 DEF DisasmInv, SeenInv

\* What is seen of other blocks and their files is left alone.
OthersKept(b) ==
  /\ UNCHANGED faulty
  /\ files' \subseteq Blocks
  /\ saw' \in [Blocks -> (BOOLEAN \X BOOLEAN) \cup {<<>>}]
  /\ \A c \in Blocks \ {b} : (c \in files' <=> c \in files) /\ saw'[c] = saw[c]

\* A worker goes on to a step that finds its block as it expects it.
LEMMA GoKeeps ==
  ASSUME Lists, DisasmInv, NEW w \in Workers, step[w] # "idle", NEW s \in Steps \ {"idle"},
         NEW b, b = task[w], Go(w, s), OthersKept(b), Doing(b, s)', UNCHANGED printed
  PROVE  StepsInv' /\ SeenInv' /\ ReportInv'
<1>1. UNCHANGED <<task, result, collected>> /\ step' = [step EXCEPT ![w] = s]
  BY DEF Go, pool
<1>2. StepsInv'
  BY <1>1 DEF DisasmInv, StepsInv
<1>3. ReportInv'
  BY <1>1 DEF DisasmInv, ReportInv
<1>4. ASSUME NEW v \in Workers, task'[v] # 0 PROVE (Doing(task[v], step[v]))'
  <2>1. CASE v = w
    BY <1>1, <2>1 DEF DisasmInv, StepsInv, Doing, Good, Agree
  <2>2. CASE v # w
    <3>1. task[v] \in Blocks \ {b} /\ Doing(task[v], step[v]) /\ step'[v] = step[v]
      BY <1>1, <1>4, <2>2, OwnBlock, PoolTypes DEF DisasmInv, StepsInv, SeenInv
    <3> QED BY <1>1, <3>1 DEF OthersKept, Doing, Good, Agree
  <2> QED BY <2>1, <2>2
<1>5. ASSUME NEW c \in Blocks, result'[c] # "none" PROVE (Done(c, result[c]))'
  <2>1. c # b /\ Done(c, result[c])
    BY <1>1, <1>5, OwnBlock DEF DisasmInv, SeenInv
  <2> QED BY <1>1, <2>1 DEF OthersKept, Done, Good, Agree
<1>6. ASSUME NEW c \in Blocks, result'[c] = "none", \A v \in Workers : task'[v] # c
      PROVE  c \notin files'
  <2>1. c # b /\ c \notin files
    BY <1>1, <1>6 DEF DisasmInv, SeenInv
  <2> QED BY <2>1 DEF OthersKept
<1>7. SeenInv'
  BY <1>4, <1>5, <1>6 DEF SeenInv, OthersKept
<1> QED BY <1>2, <1>3, <1>7

\* A worker ends its block as its result promises.
LEMMA ReturnKeeps ==
  ASSUME Lists, DisasmInv, NEW w \in Workers, step[w] # "idle", NEW r \in Outcomes,
         NEW b, b = task[w], Return(w, r), OthersKept(b), Done(b, r)', UNCHANGED printed
  PROVE  StepsInv' /\ SeenInv' /\ ReportInv'
<1>1. /\ UNCHANGED collected /\ step' = [step EXCEPT ![w] = "idle"]
      /\ task' = [task EXCEPT ![w] = 0] /\ result' = [result EXCEPT ![task[w]] = r]
  BY DEF Return, Pool!Return
<1>2. StepsInv'
  BY <1>1, PoolTypes DEF DisasmInv, StepsInv, Steps
<1>3. ReportInv'
  BY <1>1, PoolTypes, OwnBlock DEF DisasmInv, ReportInv
<1>4. ASSUME NEW v \in Workers, task'[v] # 0 PROVE (Doing(task[v], step[v]))'
  <2>1. v # w /\ task'[v] = task[v] /\ step'[v] = step[v]
    BY <1>1, <1>4, PoolTypes DEF DisasmInv, StepsInv
  <2>2. task[v] \in Blocks \ {b} /\ Doing(task[v], step[v])
    BY <1>4, <2>1, OwnBlock, PoolTypes DEF DisasmInv, SeenInv
  <2> QED BY <2>1, <2>2 DEF OthersKept, Doing, Good, Agree
<1>5. ASSUME NEW c \in Blocks, result'[c] # "none" PROVE (Done(c, result[c]))'
  <2>1. CASE c = b
    BY <1>1, <2>1, PoolTypes DEF Done, Good, Agree
  <2>2. CASE c # b
    <3>1. result'[c] = result[c] /\ Done(c, result[c])
      BY <1>1, <1>5, <2>2, PoolTypes DEF DisasmInv, SeenInv
    <3> QED BY <2>2, <3>1 DEF OthersKept, Done, Good, Agree
  <2> QED BY <2>1, <2>2
<1>6. ASSUME NEW c \in Blocks, result'[c] = "none", \A v \in Workers : task'[v] # c
      PROVE  c \notin files'
  <2>1. c # b
    BY <1>1, <1>6, PoolTypes DEF Outcomes
  <2>2. result[c] = "none" /\ \A v \in Workers : task[v] # c
    BY <1>1, <1>6, <2>1, PoolTypes
  <2>3. c \notin files
    BY <2>2 DEF DisasmInv, SeenInv
  <2> QED BY <2>1, <2>3 DEF OthersKept
<1>7. SeenInv'
  BY <1>4, <1>5, <1>6 DEF SeenInv, OthersKept
<1> QED BY <1>2, <1>3, <1>7

\* The words of a block are written to its file.
LEMMA WriteWordsKeeps ==
  ASSUME Lists, DisasmInv, NEW w \in Workers, WriteWords(w)
  PROVE  StepsInv' /\ SeenInv' /\ ReportInv'
<1>1. step[w] = "write" /\ UNCHANGED <<faulty, saw, printed>> /\ Go(w, "run")
  BY DEF WriteWords
<1>2. PICK b \in Blocks : b = task[w]
  BY <1>1, OwnBlock
<1>3. OthersKept(b) /\ Doing(b, "run")'
  BY <1>2 DEF WriteWords, DisasmInv, SeenInv, OthersKept, Doing
<1> QED BY <1>1, <1>2, <1>3, GoKeeps DEF Steps

\* A block whose disassemblers succeed and agree is to be cleaned up, any
\* other is a difference.
LEMMA RunKeeps ==
  ASSUME Lists, DisasmInv, NEW w \in Workers, Run(w)
  PROVE  StepsInv' /\ SeenInv' /\ ReportInv'
<1>1. step[w] = "run" /\ UNCHANGED <<faulty, files, printed>>
  BY DEF Run
<1>2. PICK b \in Blocks : b = task[w]
  BY <1>1, OwnBlock
<1>3. PICK ok \in BOOLEAN \X BOOLEAN :
        /\ saw' = [saw EXCEPT ![b] = ok]
        /\ IF ok[1] /\ ok[2] /\ Agree(b) THEN Go(w, "unlink") ELSE Return(w, "differs")
  BY <1>2 DEF Run
<1>4. b \in files /\ saw'[b] = ok /\ ok # <<>>
  BY <1>1, <1>2, <1>3, OwnBlock DEF Doing, DisasmInv, SeenInv
<1>5. OthersKept(b)
  BY <1>1, <1>2, <1>3 DEF DisasmInv, SeenInv, OthersKept
<1>6. ok = Both <=> ok[1] /\ ok[2]
  <2>1. PICK x \in BOOLEAN, y \in BOOLEAN : ok = <<x, y>>
    OBVIOUS
  <2> QED BY <2>1 DEF Both
<1>7. Agree(b)' <=> Agree(b)
  BY <1>1 DEF Agree
<1>8. CASE ok = Both /\ Agree(b)
  <2>1. Doing(b, "unlink")'
    BY <1>1, <1>4, <1>7, <1>8 DEF Doing, Good
  <2> QED BY <1>1, <1>2, <1>3, <1>5, <1>6, <1>8, <2>1, GoKeeps DEF Steps
<1>9. CASE ~(ok = Both /\ Agree(b))
  <2>1. Done(b, "differs")'
    BY <1>1, <1>4, <1>7, <1>9 DEF Done, Good
  <2> QED BY <1>1, <1>2, <1>3, <1>5, <1>6, <1>9, <2>1, ReturnKeeps DEF Outcomes
<1> QED BY <1>8, <1>9

\* The file of a block without a difference is removed.
LEMMA UnlinkKeeps ==
  ASSUME Lists, DisasmInv, NEW w \in Workers, Unlink(w)
  PROVE  StepsInv' /\ SeenInv' /\ ReportInv'
<1>1. step[w] = "unlink" /\ UNCHANGED <<faulty, saw, printed>> /\ Return(w, "same")
  BY DEF Unlink
<1>2. PICK b \in Blocks : b = task[w]
  BY <1>1, OwnBlock
<1>3. b \in files /\ Good(b)
  BY <1>1, <1>2, OwnBlock DEF Doing
<1>4. OthersKept(b) /\ Done(b, "same")'
  BY <1>1, <1>2, <1>3 DEF Unlink, DisasmInv, SeenInv, OthersKept, Done, Good, Agree
<1> QED BY <1>1, <1>2, <1>4, ReturnKeeps DEF Outcomes

\* An exception may leave the file or not.
LEMMA RaiseKeeps ==
  ASSUME Lists, DisasmInv, NEW w \in Workers, Raise(w)
  PROVE  StepsInv' /\ SeenInv' /\ ReportInv'
<1>1. step[w] # "idle" /\ UNCHANGED <<faulty, saw, printed>> /\ Return(w, "exception")
  BY DEF Raise
<1>2. PICK b \in Blocks : b = task[w]
  BY <1>1, OwnBlock
<1>3. OthersKept(b) /\ Done(b, "exception")'
  BY <1>1, <1>2 DEF Raise, DisasmInv, SeenInv, OthersKept, Done
<1> QED BY <1>1, <1>2, <1>3, ReturnKeeps DEF Outcomes

\* A block that is taken has no file.
LEMMA TakeKeeps ==
  ASSUME Lists, DisasmInv, NEW w \in Workers, Take(w)
  PROVE  StepsInv' /\ SeenInv' /\ ReportInv'
<1>1. PICK b \in 1..submitted : ~Pool!Taken(b) /\ Pool!Assign(w, b)
  BY DEF Take, Pool!Take
<1>2. /\ task' = [task EXCEPT ![w] = b] /\ step' = [step EXCEPT ![w] = "write"]
      /\ UNCHANGED <<result, collected, faulty, files, saw, printed>>
  BY <1>1 DEF Take, Pool!Assign
<1>3. b \in Blocks /\ b # 0
  BY PoolTypes DEF DisasmInv, PoolInv, Pool!TypeOK, Lists
<1>4. b \notin files /\ result[b] = "none" /\ task[w] = 0
  BY <1>1, <1>3 DEF Pool!Taken, Pool!Assign, DisasmInv, SeenInv
<1>5. StepsInv' /\ ReportInv'
  BY <1>2, <1>3, PoolTypes DEF DisasmInv, StepsInv, Steps, ReportInv
<1>6. ASSUME NEW v \in Workers, task'[v] # 0 PROVE (Doing(task[v], step[v]))'
  <2>1. CASE v = w
    BY <1>2, <1>4, <2>1, PoolTypes DEF DisasmInv, StepsInv, Doing
  <2>2. CASE v # w
    <3>1. task'[v] = task[v] /\ step'[v] = step[v] /\ Doing(task[v], step[v])
      BY <1>2, <1>6, <2>2, PoolTypes DEF DisasmInv, StepsInv, SeenInv
    <3> QED BY <1>2, <3>1 DEF Doing, Good, Agree
  <2> QED BY <2>1, <2>2
<1>7. \A c \in Blocks : result'[c] # "none" => (Done(c, result[c]))'
  BY <1>2 DEF DisasmInv, SeenInv, Done, Good, Agree
<1>8. ASSUME NEW c \in Blocks, result'[c] = "none", \A v \in Workers : task'[v] # c
      PROVE  c \notin files'
  <2>1. c # 0
    BY DEF Blocks
  <2>2. \A v \in Workers : task[v] # c
    BY <1>2, <1>4, <1>8, <2>1, PoolTypes
  <2> QED BY <1>2, <1>8, <2>2 DEF DisasmInv, SeenInv
<1>9. SeenInv'
  BY <1>2, <1>6, <1>7, <1>8 DEF DisasmInv, SeenInv
<1> QED BY <1>5, <1>9

\* The main process prints the differences as it meets them.
LEMMA CollectKeeps ==
  ASSUME Lists, DisasmInv, Collect
  PROVE  StepsInv' /\ SeenInv' /\ ReportInv'
<1>1. UNCHANGED <<task, result, faulty, step, files, saw>>
  BY DEF Collect, Pool!Collect
<1>2. StepsInv' /\ SeenInv'
  BY <1>1 DEF DisasmInv, StepsInv, SeenInv, Doing, Done, Good, Agree
<1>3. \/ result[collected + 1] = "exception" /\ UNCHANGED collected
      \/ result[collected + 1] # "exception" /\ collected' = collected + 1
  BY DEF Collect, Pool!Collect
<1>4. printed' = IF result[collected + 1] = "differs" THEN printed \cup {collected + 1} ELSE printed
  BY DEF Collect
<1>5. ReportInv'
  BY <1>1, <1>3, <1>4, PoolTypes DEF DisasmInv, ReportInv
<1> QED BY <1>2, <1>5

\* The program runs on what it has loaded, and loads before anything is done.
LEMMA ProgramKeeps ==
  ASSUME Lists, DisasmInv, [Next]_vars
  PROVE  ProgramInv'
<1>1. CASE Import
  <2>1. UNCHANGED <<program, pool, checked>> /\ loaded < Len(Insts)
    BY <1>1 DEF Import, Load
  <2>2. \/ loaded' = loaded + 1 /\ UNCHANGED crashed
        \/ crashed' = TRUE /\ UNCHANGED loaded
    BY <1>1 DEF Import, Load
  <2>3. faulty' \subseteq Suspects
    BY <1>1 DEF Import, DisasmInv, ProgramInv
  <2>4. ~Testing
    BY <2>1 DEF Testing, Loaded, DisasmInv, ProgramInv, Lists
  <2>5. loaded' \in 0..Len(Insts) /\ checked' \in 0..loaded'
    BY <2>1, <2>2 DEF DisasmInv, ProgramInv, Lists
  <2>6. crashed' \in BOOLEAN
    BY Zenon, <2>2 DEF DisasmInv, ProgramInv
  <2> QED BY <2>1, <2>3, <2>4, <2>5, <2>6 DEF DisasmInv, ProgramInv, pool
<1>2. CASE Validate
  <2>1. /\ UNCHANGED <<program, faulty, pool, loaded>> /\ program = "instparse"
        /\ loaded = Len(Insts) /\ checked < Len(Insts)
    BY <1>2 DEF Validate, Check, Loaded
  <2>2. \/ checked' = checked + 1 /\ UNCHANGED crashed
        \/ crashed' = TRUE /\ UNCHANGED checked
    BY <1>2 DEF Validate, Check
  <2>3. crashed' \in BOOLEAN
    BY Zenon, <2>2 DEF DisasmInv, ProgramInv
  <2>4. checked' \in 0..loaded'
    BY <2>1, <2>2 DEF DisasmInv, ProgramInv, Lists
  <2> QED BY <2>1, <2>3, <2>4 DEF DisasmInv, ProgramInv, Testing, pool
<1>3. CASE UNCHANGED vars
  BY <1>3 DEF vars, dbvars, pool, DisasmInv, ProgramInv, Testing, Loaded
<1>4. CASE Submit \/ Collect \/ \E w \in Workers : Process(w) \/ Raise(w)
  <2>1. UNCHANGED <<program, faulty, loaded, checked, crashed>>
    BY <1>4 DEF Submit, Collect, Process, Take, WriteWords, Run, Unlink, Raise, dbvars
  <2>2. Testing
    BY <1>4 DEF Submit, Collect, Process, Take, WriteWords, Run, Unlink, Raise, Alive
  <2> QED BY <2>1, <2>2 DEF DisasmInv, ProgramInv, Testing, Loaded
<1> QED BY <1>1, <1>2, <1>3, <1>4 DEF Next, End

\* All of it, at the start and after every step.
LEMMA DisasmStart ==
  ASSUME Lists
  PROVE  Init => DisasmInv
<1> SUFFICES ASSUME Init PROVE DisasmInv
  OBVIOUS
<1>1. PoolInv
  BY PoolStart DEF Init
<1>2. crashed \in BOOLEAN
  BY Zenon DEF Init, DbInit
<1>3. ProgramInv
  BY <1>2 DEF Lists, Init, DbInit, Pool!Init, Pool!Blocks, Blocks, ProgramInv
<1>4. StepsInv /\ SeenInv /\ ReportInv
  BY DEF Init, Pool!Init, Pool!Blocks, Blocks, StepsInv, Steps, SeenInv, ReportInv
<1> QED BY <1>1, <1>3, <1>4 DEF DisasmInv

\* Loading has no part in what the workers do.
LEMMA ImportKeeps ==
  ASSUME Lists, DisasmInv, Import
  PROVE  StepsInv' /\ SeenInv' /\ ReportInv'
<1>1. UNCHANGED <<program, pool, step, files, saw, printed>> /\ ~Testing
  BY DEF Import, Load, Testing, Loaded, DisasmInv, ProgramInv, Lists
<1>2. (\A w \in Workers : task[w] = 0) /\ \A b \in Blocks : result[b] = "none"
  BY <1>1 DEF DisasmInv, ProgramInv
<1> QED BY <1>1, <1>2 DEF pool, DisasmInv, StepsInv, SeenInv, ReportInv

\* Every step keeps all of it.
LEMMA DisasmStep ==
  ASSUME Lists
  PROVE  DisasmInv /\ [Next]_vars => DisasmInv'
<1> SUFFICES ASSUME DisasmInv, [Next]_vars PROVE StepsInv' /\ SeenInv' /\ ReportInv'
  BY PoolKeeps, ProgramKeeps DEF DisasmInv
<1>1. CASE Import
  BY <1>1, ImportKeeps
<1>2. CASE Validate \/ Submit \/ UNCHANGED vars
  <2>1. UNCHANGED <<task, result, collected, faulty, step, files, saw, printed>>
    BY <1>2 DEF Validate, Submit, Pool!Submit, vars, pool
  <2> QED BY <2>1 DEF DisasmInv, StepsInv, SeenInv, ReportInv, Doing, Done, Good, Agree
<1>3. CASE Collect
  BY <1>3, CollectKeeps
<1>4. ASSUME NEW w \in Workers, Process(w) \/ Raise(w) PROVE StepsInv' /\ SeenInv' /\ ReportInv'
  BY <1>4, TakeKeeps, WriteWordsKeeps, RunKeeps, UnlinkKeeps, RaiseKeeps DEF Process
<1> QED BY <1>1, <1>2, <1>3, <1>4 DEF Next, End

\* What was seen of every block, once all results are collected.
LEMMA SeenThen ==
  ASSUME Lists, DisasmInv, Finished
  PROVE  /\ \A b \in Blocks : result[b] \in {"same", "differs"} /\ Done(b, result[b])
         /\ printed = {b \in Blocks : result[b] = "differs"}
<1>1. collected = Len(Work) /\ Blocks = 1..collected
  BY DEF Finished, Pool!Finished, Blocks
<1>2. \A b \in Blocks : result[b] \in {"same", "differs"}
  BY <1>1, PoolTypes DEF DisasmInv, PoolInv, Pool!CollectedReturned, Outcomes
<1> QED BY <1>1, <1>2 DEF DisasmInv, SeenInv, ReportInv

\* A complete report is one of every block: none was skipped.
LEMMA EveryBlockCompared ==
  ASSUME Lists, DisasmInv, Finished
  PROVE  Compared = Blocks
<1>1. ASSUME NEW b \in Blocks PROVE saw[b] # <<>>
  <2>1. result[b] \in {"same", "differs"} /\ Done(b, result[b])
    BY SeenThen
  <2>2. CASE result[b] = "same"
    BY <2>1, <2>2 DEF Done, Good, Both
  <2>3. CASE result[b] = "differs"
    BY <2>1, <2>3 DEF Done
  <2> QED BY <2>1, <2>2, <2>3
<1> QED BY <1>1 DEF Compared

\* When the report is complete, no block of the list was skipped, for any
\* number of workers and whatever they find (disasm-tester.py main loop,
\* 95-105). What EveryWordOnce says beyond this is about the list alone.
THEOREM NoBlockSkipped == ASSUME Lists PROVE Spec => [](Finished => Compared = Blocks)
<1>1. DisasmInv => (Finished => Compared = Blocks)
  BY EveryBlockCompared
<1> QED BY DisasmStart, DisasmStep, <1>1, PTL DEF Spec

\* Every variable keeps its type, if the instructions of the table are well
\* formed, as the run evaluates for each as it is loaded.
THEOREM TypeCorrect ==
  ASSUME Lists, \A k \in 1..Len(Insts) : FieldsFree(Insts[k])
  PROVE  Spec => []TypeOK
<1>1. DisasmInv => TypeOK
  <2> SUFFICES ASSUME DisasmInv PROVE TypeOK
    OBVIOUS
  <2>1. DbTypeOK
    <3>1. loaded \in 0..Len(Insts) /\ checked \in 0..loaded /\ crashed \in BOOLEAN
      BY DEF DisasmInv, ProgramInv
    <3>2. \A k \in {loaded} \ {0} : k \in 1..Len(Insts)
      BY <3>1 DEF Lists
    <3> QED BY <3>1, <3>2 DEF DbTypeOK
  <2>2. Pool!TypeOK
    BY DEF DisasmInv, PoolInv
  <2> QED BY <2>1, <2>2 DEF DisasmInv, ProgramInv, StepsInv, Steps, SeenInv, ReportInv, TypeOK
<1> QED BY DisasmStart, DisasmStep, <1>1, PTL DEF Spec

\* The report and the disk agree with what was seen of each block, if every
\* legal word is in the file of one, as the run evaluates (disasm-tester.py
\* process_block and the main loop, 70-105).
THEOREM ReportComplete ==
  ASSUME Lists, LegalWords \subseteq UNION {WordsOf[b] : b \in Blocks}
  PROVE  Spec => []ReportExact
<1>1. DisasmInv => ReportExact
  <2> SUFFICES ASSUME DisasmInv, Finished PROVE ReportExact
    BY DEF ReportExact
  <2>1. printed = {b \in Blocks : ~Good(b)}
    BY SeenThen DEF Done
  <2>2. files = printed
    BY <2>1, SeenThen DEF Done, DisasmInv, SeenInv
  <2>3. ASSUME NEW word \in faulty \cap LegalWords
        PROVE  \E b \in printed : word \in WordsOf[b]
    <3>1. PICK b \in Blocks : word \in WordsOf[b]
      OBVIOUS
    <3>2. ~Agree(b)
      BY <3>1 DEF Agree
    <3> QED BY <2>1, <3>1, <3>2 DEF Good
  <2> QED BY <2>1, <2>2, <2>3 DEF ReportExact, Good, Both
<1> QED BY DisasmStart, DisasmStep, <1>1, PTL DEF Spec

-----------------------------------------------------------------------------
(* The chunks, and words of two instructions.                               *)

\* itchunk cuts 0..num-1 into intervals: each number is in just one of them,
\* none is empty or longer than a chunk, for every number of words and every
\* size of chunk (disasm-tester.py itchunk, 42-46).
THEOREM ChunksPartition ==
  ASSUME NEW num \in Nat
  PROVE  /\ \A n \in 0..num - 1 : \E i \in DOMAIN Chunks(num) :
              /\ n \in Chunks(num)[i].start..Chunks(num)[i].stop - 1
              /\ \A j \in DOMAIN Chunks(num) :
                   n \in Chunks(num)[j].start..Chunks(num)[j].stop - 1 => j = i
         /\ \A i \in DOMAIN Chunks(num) :
              /\ 0 <= Chunks(num)[i].start /\ Chunks(num)[i].stop <= num
              /\ Chunks(num)[i].stop - Chunks(num)[i].start \in 1..ChunkSize
<1> DEFINE C == ChunkSize
           last == (num + C - 1) \div C
<1>1. C \in Nat \ {0}
  BY ChunkAssumption
<1>2. last \in Nat /\ last * C <= num + C - 1 /\ num + C - 1 < last * C + C
  BY <1>1
<1>3. /\ DOMAIN Chunks(num) = 1..last
      /\ \A i \in 1..last : /\ Chunks(num)[i].start = (i - 1) * C
                            /\ Chunks(num)[i].stop = IF num < i * C THEN num ELSE i * C
  BY DEF Chunks
<1>4. \A i, j \in Nat : i < j => i * C + C <= j * C
  <2> SUFFICES ASSUME NEW i \in Nat, NEW j \in Nat, i < j PROVE i * C + C <= j * C
    OBVIOUS
  <2>1. (i + 1) * C <= j * C
    BY <1>1
  <2> QED BY <1>1, <2>1
<1>5. ASSUME NEW n \in 0..num - 1
      PROVE  \E i \in 1..last : /\ (i - 1) * C <= n /\ n < i * C
                                /\ \A j \in 1..last : (j - 1) * C <= n /\ n < j * C => j = i
  <2> DEFINE i == n \div C + 1
  <2>1. i \in Nat \ {0} /\ (i - 1) * C <= n /\ n < i * C
    BY <1>1
  <2>2. i <= last
    <3> SUFFICES ASSUME last < i PROVE FALSE
      BY <1>2, <2>1
    <3>1. last <= i - 1 /\ i - 1 \in Nat
      BY <1>2, <2>1
    <3>2. last * C <= (i - 1) * C
      BY <1>1, <1>2, <3>1
    <3> HIDE DEF i, last
    <3> QED BY <1>1, <1>2, <2>1, <3>2
  <2> HIDE DEF i, last
  <2>3. ASSUME NEW j \in 1..last, (j - 1) * C <= n, n < j * C PROVE j = i
    <3>1. j \in Nat /\ j - 1 \in Nat /\ i - 1 \in Nat
      BY <1>2, <2>1, <2>3
    <3>2. j < i => j * C <= (i - 1) * C
      BY <1>1, <2>1, <3>1
    <3>3. i < j => i * C <= (j - 1) * C
      BY <1>1, <2>1, <3>1
    <3> QED BY <1>1, <2>1, <2>3, <3>1, <3>2, <3>3
  <2> QED BY <1>2, <2>1, <2>2, <2>3
<1>6. ASSUME NEW i \in 1..last
      PROVE  /\ (i - 1) * C \in Nat /\ i * C = (i - 1) * C + C /\ (i - 1) * C < num
  <2> HIDE DEF last
  <2>1. (i - 1) * C \in Nat /\ i * C \in Nat /\ i * C = (i - 1) * C + C
    BY <1>1, <1>2
  <2>2. i * C <= last * C
    BY <1>1, <1>2
  <2> QED BY <1>1, <1>2, <2>1, <2>2
<1> HIDE DEF last
<1>7. \A i \in 1..last, n \in 0..num - 1 :
        n \in Chunks(num)[i].start..Chunks(num)[i].stop - 1 <=> (i - 1) * C <= n /\ n < i * C
  BY <1>1, <1>2, <1>3, <1>6
<1>8. \A i \in 1..last :
        /\ 0 <= Chunks(num)[i].start /\ Chunks(num)[i].stop <= num
        /\ Chunks(num)[i].stop - Chunks(num)[i].start \in 1..ChunkSize
  BY <1>1, <1>2, <1>3, <1>6
<1> QED BY <1>3, <1>5, <1>7, <1>8

\* The words an instruction accepts.
Accepts(e, word) == word \cap e.mask = e.base

\* Overlap is what it says: two instructions overlap just if some word is of
\* both. LegalWords are the words accepted, so disjoint encodings have
\* disjoint lists of words.
THEOREM OverlapIsSharedWord ==
  ASSUME NEW e1, NEW e2, e1.base \subseteq e1.mask, e2.base \subseteq e2.mask,
         e1.mask \subseteq Bits, e2.mask \subseteq Bits
  PROVE  Overlap(e1, e2) <=> \E word \in SUBSET Bits : Accepts(e1, word) /\ Accepts(e2, word)
<1>1. ASSUME Overlap(e1, e2)
      PROVE  \E word \in SUBSET Bits : Accepts(e1, word) /\ Accepts(e2, word)
  <2>1. e1.base \cup e2.base \in SUBSET Bits
    OBVIOUS
  <2>2. Accepts(e1, e1.base \cup e2.base) /\ Accepts(e2, e1.base \cup e2.base)
    BY <1>1 DEF Overlap, Accepts
  <2> QED BY <2>1, <2>2
<1>2. ASSUME NEW word \in SUBSET Bits, Accepts(e1, word), Accepts(e2, word)
      PROVE  Overlap(e1, e2)
  BY <1>2 DEF Overlap, Accepts
<1> QED BY <1>1, <1>2

\* The words accepted are the ones that are numbered: the base with any of the
\* free bits.
LEMMA AcceptedWords ==
  ASSUME NEW e, e.base \subseteq e.mask, e.mask \subseteq Bits
  PROVE  {e.base \cup free : free \in SUBSET (Bits \ e.mask)} =
           {word \in SUBSET Bits : Accepts(e, word)}
<1>1. ASSUME NEW free \in SUBSET (Bits \ e.mask)
      PROVE  e.base \cup free \in SUBSET Bits /\ Accepts(e, e.base \cup free)
  BY DEF Accepts
<1>2. ASSUME NEW word \in SUBSET Bits, Accepts(e, word)
      PROVE  \E free \in SUBSET (Bits \ e.mask) : word = e.base \cup free
  <2> WITNESS word \ e.mask \in SUBSET (Bits \ e.mask)
  <2> QED BY <1>2 DEF Accepts
<1> QED BY <1>1, <1>2

\* validate() compares the bases, each under its own mask: what it objects to
\* overlaps, and of two instructions with the same fixed bits it misses none
\* (instparse.py validate, 317-330).
THEOREM ValidateSound ==
  ASSUME NEW e1, NEW e2, e1.base \subseteq e1.mask, e2.base \subseteq e2.mask
  PROVE  /\ Same(e1, e2) => Overlap(e1, e2)
         /\ e1.mask = e2.mask /\ Overlap(e1, e2) => Same(e1, e2)
BY DEF Same, Overlap
=============================================================================

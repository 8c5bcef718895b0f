-------------------------- MODULE AsmTesterProofs --------------------------
(***************************************************************************)
(* For any number of instructions and lines, any workers and assemblers of *)
(* any behaviour: what is on disk when the tester has reported is the      *)
(* evidence of the failures, and what it did not report is counted.        *)
(*                                                                         *)
(* That is not inductive: FilesInv says what is on disk for every step a   *)
(* worker may be at and for every result, and that other blocks have none. *)
(***************************************************************************)
EXTENDS AsmTester, WellFoundedInduction, FiniteSetTheorems, TLAPS

Steps == {"idle", "start", "assemble", "dump", "compare"}
Kinds == {"asm", "obj1", "obj2", "raw1", "raw2"}

StepsInv ==
  /\ step \in [Workers -> Steps]
  /\ \A w \in Workers : step[w] = "idle" <=> task[w] = 0

\* The files of a block: none, those of a step, those of a result.
Clean(b) == \A k \in Kinds : <<b, k>> \notin files

Held(b, s) ==
  IF s = "start" THEN Clean(b)
  ELSE /\ <<b, "asm">> \in files
       /\ s = "assemble" => \A k \in Kinds \ {"asm"} : <<b, k>> \notin files
       /\ s = "dump" => <<b, "raw1">> \notin files /\ <<b, "raw2">> \notin files
       /\ s = "compare" => <<b, "obj1">> \notin files /\ <<b, "obj2">> \notin files

Left(b, r) ==
  /\ r = "ok" => Clean(b)
  /\ r = "failed" => /\ <<b, "asm">> \in files
                     /\ <<b, "raw1">> \notin files /\ <<b, "raw2">> \notin files

FilesInv ==
  /\ files \subseteq Blocks \X Kinds
  /\ \A w \in Workers : task[w] # 0 => Held(task[w], step[w])
  /\ \A b \in Blocks : result[b] # "none" => Left(b, result[b])
  /\ \A b \in Blocks : result[b] = "none" /\ (\A w \in Workers : task[w] # b) => Clean(b)

ReportInv == printed = {b \in 1..collected : result[b] = "failed"}

\* The pool's invariant. A worker's block has no result, so what the pool hands
\* out next is in nobody's hands.
PoolInv == Pool!TypeOK /\ Pool!OneWorkerPerBlock /\ Pool!CollectedReturned

AsmInv == PoolInv /\ StepsInv /\ FilesInv /\ ReportInv

\* What the assemblers did with a block: nothing before they run, nothing to be
\* reported while the block is still being compared, and none if it succeeded.
Unseen(b, s) == IF s \in {"start", "assemble"} THEN saw[b] = <<>> ELSE ~FailureSeen(b)

SawInv ==
  /\ DOMAIN saw = Blocks
  /\ \A w \in Workers : task[w] # 0 => Unseen(task[w], step[w])
  /\ \A b \in Blocks : result[b] = "ok" => ~FailureSeen(b)
  /\ \A b \in Blocks : result[b] = "none" /\ (\A w \in Workers : task[w] # b) => saw[b] = <<>>

\* The totals are the lines of the blocks that succeeded.
CountInv ==
  /\ totals \in [good : Nat, bad : Nat]
  /\ totals.good + totals.bad = LinesOf({b \in 1..collected : result[b] = "ok"})

TestedInv == AsmInv /\ SawInv /\ CountInv

-----------------------------------------------------------------------------
(* The pool below.                                                          *)

\* The pool's assumptions hold of its instance.
LEMMA PoolAssumptions ==
  /\ 2 * Len(Insts) \in Nat
  /\ "none" \notin {"ok", "failed", "exception"}
BY InstsAssumption

\* The pool starts with nothing submitted.
LEMMA PoolStart ==
  ASSUME Pool!Init
  PROVE  PoolInv
<1>1. aborted \in BOOLEAN
  BY Zenon DEF Pool!Init
<1> QED BY <1>1, PoolAssumptions DEF Pool!Init, PoolInv, Pool!TypeOK, Pool!OneWorkerPerBlock,
                Pool!CollectedReturned, Pool!Blocks

\* A block that is handed out has no result and no other worker.
LEMMA PoolTakes ==
  ASSUME PoolInv, NEW w \in Workers, Pool!Take(w)
  PROVE  PoolInv'
<1>1. PICK b \in 1..submitted : ~Pool!Taken(b) /\ Pool!Assign(w, b)
  BY DEF Pool!Take
<1>2. /\ task' = [task EXCEPT ![w] = b] /\ b # 0
      /\ UNCHANGED <<submitted, result, collected, aborted>>
  BY <1>1 DEF Pool!Assign, PoolInv, Pool!TypeOK
<1>3. Pool!TypeOK' /\ Pool!CollectedReturned'
  BY <1>2, PoolAssumptions DEF PoolInv, Pool!TypeOK, Pool!CollectedReturned
<1>4. Pool!OneWorkerPerBlock'
  <2> SUFFICES ASSUME NEW u \in Workers, NEW v \in Workers, task'[u] # 0
               PROVE  result'[task'[u]] = "none" /\ (task'[u] = task'[v] => u = v)
    BY DEF Pool!OneWorkerPerBlock
  <2>1. result[b] = "none" /\ \A v1 \in Workers : task[v1] # b
    BY <1>1 DEF Pool!Taken
  <2> QED BY <1>2, <2>1 DEF PoolInv, Pool!TypeOK, Pool!OneWorkerPerBlock
<1> QED BY <1>3, <1>4 DEF PoolInv

\* A result is that of the worker's own block, which had none before and was
\* therefore not collected.
LEMMA PoolReturns ==
  ASSUME PoolInv, NEW w \in Workers,
         NEW r \in {"ok", "failed", "exception"}, Pool!Return(w, r)
  PROVE  PoolInv'
<1> DEFINE b == task[w]
<1>1. b # 0 /\ b \in 1..submitted /\ b \in Pool!Blocks /\ result[b] = "none"
  BY PoolAssumptions DEF Pool!Return, PoolInv, Pool!TypeOK, Pool!OneWorkerPerBlock, Pool!Blocks
<1>2. /\ result' = [result EXCEPT ![b] = r] /\ task' = [task EXCEPT ![w] = 0]
      /\ UNCHANGED <<submitted, collected, aborted>>
  BY DEF Pool!Return
<1>3. Pool!TypeOK'
  BY <1>1, <1>2, PoolAssumptions DEF PoolInv, Pool!TypeOK
<1>4. Pool!OneWorkerPerBlock'
  <2> SUFFICES ASSUME NEW u \in Workers, NEW v \in Workers, task'[u] # 0
               PROVE  result'[task'[u]] = "none" /\ (task'[u] = task'[v] => u = v)
    BY DEF Pool!OneWorkerPerBlock
  <2>1. u # w /\ task'[u] = task[u] /\ task[u] # b
    BY <1>1, <1>2 DEF PoolInv, Pool!TypeOK, Pool!OneWorkerPerBlock
  <2> QED BY <1>1, <1>2, <2>1, PoolAssumptions
          DEF PoolInv, Pool!TypeOK, Pool!OneWorkerPerBlock, Pool!Blocks
<1>5. Pool!CollectedReturned'
  <2> SUFFICES ASSUME NEW c \in 1..collected
               PROVE  result'[c] \notin {"none", "exception"}
    BY <1>2 DEF Pool!CollectedReturned
  <2>1. result[c] \notin {"none", "exception"}
    BY DEF PoolInv, Pool!CollectedReturned
  <2> QED BY <1>1, <1>2, <2>1, PoolAssumptions DEF PoolInv, Pool!TypeOK, Pool!Blocks
<1> QED BY <1>3, <1>4, <1>5 DEF PoolInv

\* The main process takes the next result if it is there, and stops at an
\* exception.
LEMMA PoolCollects ==
  ASSUME PoolInv, Pool!Collect
  PROVE  PoolInv'
<1>1. UNCHANGED <<submitted, task, result>>
  BY DEF Pool!Collect
<1>2. Pool!TypeOK'
  <2>1. aborted' \in BOOLEAN
    BY Zenon DEF Pool!Collect, PoolInv, Pool!TypeOK
  <2>2. collected' \in {collected, collected + 1}
    BY Zenon DEF Pool!Collect
  <2>3. collected' \in 0..submitted'
    BY <1>1, <2>2, PoolAssumptions DEF Pool!Collect, PoolInv, Pool!TypeOK
  <2> QED BY <1>1, <2>1, <2>3 DEF PoolInv, Pool!TypeOK
<1>3. Pool!OneWorkerPerBlock' /\ Pool!CollectedReturned'
  BY <1>1, PoolAssumptions DEF Pool!Collect, PoolInv, Pool!TypeOK, Pool!OneWorkerPerBlock,
                   Pool!CollectedReturned
<1> QED BY <1>2, <1>3 DEF PoolInv

\* Submission changes the number of blocks submitted and nothing else.
LEMMA PoolSubmits ==
  ASSUME PoolInv, Pool!Submit
  PROVE  PoolInv'
BY PoolAssumptions DEF Pool!Submit, PoolInv, Pool!TypeOK, Pool!OneWorkerPerBlock,
             Pool!CollectedReturned, Pool!Blocks

\* Every step of the tester is a step of its pool, or leaves it alone.
LEMMA PoolKeeps ==
  ASSUME PoolInv, [Next]_vars
  PROVE  PoolInv'
<1>1. CASE Submit
  BY <1>1, PoolSubmits DEF Submit
<1>2. CASE Collect
  BY <1>2, PoolCollects DEF Collect
<1>3. ASSUME NEW w \in Workers, Take(w) PROVE PoolInv'
  BY <1>3, PoolTakes DEF Take
<1>4. CASE UNCHANGED pool
  BY <1>4 DEF pool, PoolInv, Pool!TypeOK, Pool!OneWorkerPerBlock, Pool!CollectedReturned
<1>5. ASSUME NEW w \in Workers, Generate(w) \/ Assemble(w) \/ Dump(w) \/ Compare(w) \/ Refuse(w)
      PROVE  PoolInv'
  <2>1. (\E r \in {"ok", "failed", "exception"} : Return(w, r)) \/ (\E s : Go(w, s))
    BY <1>5 DEF Generate, Assemble, Dump, Compare, Refuse
  <2> QED BY <2>1, <1>4, PoolReturns DEF Return, Go
<1>6. CASE UNCHANGED vars
  BY <1>4, <1>6 DEF vars
<1> QED BY <1>1, <1>2, <1>3, <1>5, <1>6 DEF Next, Work, End

-----------------------------------------------------------------------------
(* The files above.                                                         *)

\* What is known of a worker in the middle of its block.
LEMMA OwnBlock ==
  ASSUME AsmInv, NEW w \in Workers, step[w] # "idle"
  PROVE  /\ task[w] \in Blocks /\ task[w] # 0
         /\ result[task[w]] = "none" /\ task[w] \notin 1..collected
         /\ \A v \in Workers \ {w} : task[v] # task[w]
         /\ Held(task[w], step[w])
<1>1. task[w] \in Blocks /\ task[w] # 0
  BY PoolAssumptions DEF AsmInv, StepsInv, PoolInv, Pool!TypeOK, Blocks
<1>2. result[task[w]] = "none" /\ \A v \in Workers \ {w} : task[v] # task[w]
  BY <1>1 DEF AsmInv, PoolInv, Pool!OneWorkerPerBlock
<1>3. task[w] \notin 1..collected
  BY <1>2 DEF AsmInv, PoolInv, Pool!CollectedReturned
<1> QED BY <1>1, <1>2, <1>3 DEF AsmInv, FilesInv

\* The files of other blocks are left alone.
OthersKept(b) ==
  /\ files' \subseteq Blocks \X Kinds
  /\ \A c \in Blocks \ {b}, k \in Kinds : <<c, k>> \in files' <=> <<c, k>> \in files

\* A worker goes on to a step that finds its files as it expects them.
LEMMA GoKeeps ==
  ASSUME AsmInv, NEW w \in Workers, step[w] # "idle", NEW s \in Steps \ {"idle"},
         NEW b, b = task[w], Go(w, s), OthersKept(b), Held(b, s)', UNCHANGED printed
  PROVE  StepsInv' /\ FilesInv' /\ ReportInv'
<1>1. UNCHANGED <<task, result, collected>> /\ step' = [step EXCEPT ![w] = s]
  BY DEF Go, pool
<1>2. StepsInv'
  BY <1>1 DEF AsmInv, StepsInv
<1>3. ReportInv'
  BY <1>1 DEF AsmInv, ReportInv
<1>4. ASSUME NEW v \in Workers, task'[v] # 0 PROVE (Held(task[v], step[v]))'
  <2>1. CASE v = w
    BY <1>1, <2>1 DEF AsmInv, StepsInv, Held, Clean
  <2>2. CASE v # w
    <3>1. task[v] \in Blocks \ {b} /\ Held(task[v], step[v]) /\ step'[v] = step[v]
      BY <1>1, <1>4, <2>2, OwnBlock, PoolAssumptions
         DEF AsmInv, StepsInv, FilesInv, PoolInv, Pool!TypeOK, Blocks
    <3> QED BY <1>1, <3>1 DEF OthersKept, Held, Clean, Kinds
  <2> QED BY <2>1, <2>2
<1>5. ASSUME NEW c \in Blocks, result'[c] # "none" PROVE (Left(c, result[c]))'
  <2>1. c # b /\ Left(c, result[c])
    BY <1>1, <1>5, OwnBlock DEF AsmInv, FilesInv
  <2> QED BY <1>1, <2>1 DEF OthersKept, Left, Clean, Kinds
<1>6. ASSUME NEW c \in Blocks, result'[c] = "none", \A v \in Workers : task'[v] # c
      PROVE  Clean(c)'
  <2>1. c # b /\ Clean(c)
    BY <1>1, <1>6 DEF AsmInv, FilesInv
  <2> QED BY <2>1 DEF OthersKept, Clean
<1>7. FilesInv'
  BY <1>4, <1>5, <1>6 DEF FilesInv, OthersKept
<1> QED BY <1>2, <1>3, <1>7

\* A worker ends its block and leaves the files its result promises.
LEMMA ReturnKeeps ==
  ASSUME AsmInv, NEW w \in Workers, step[w] # "idle",
         NEW r \in {"ok", "failed", "exception"},
         NEW b, b = task[w], Return(w, r), OthersKept(b), Left(b, r)', UNCHANGED printed
  PROVE  StepsInv' /\ FilesInv' /\ ReportInv'
<1>1. /\ UNCHANGED collected /\ step' = [step EXCEPT ![w] = "idle"]
      /\ task' = [task EXCEPT ![w] = 0] /\ result' = [result EXCEPT ![task[w]] = r]
  BY DEF Return, Pool!Return
<1>2. /\ task \in [Workers -> 0..submitted] /\ 0..submitted \subseteq Blocks \cup {0}
      /\ result \in [Blocks -> {"ok", "failed", "exception", "none"}]
      /\ 1..collected \subseteq Blocks
  BY PoolAssumptions DEF AsmInv, PoolInv, Pool!TypeOK, Blocks, Pool!Blocks
<1>3. StepsInv'
  BY <1>1, <1>2 DEF AsmInv, StepsInv, Steps
<1>4. ReportInv'
  BY <1>1, <1>2, OwnBlock DEF AsmInv, ReportInv
<1>5. ASSUME NEW v \in Workers, task'[v] # 0 PROVE (Held(task[v], step[v]))'
  <2>1. v # w /\ task'[v] = task[v] /\ step'[v] = step[v]
    BY <1>1, <1>2, <1>5 DEF AsmInv, StepsInv
  <2>2. task[v] \in Blocks \ {b} /\ Held(task[v], step[v])
    BY <1>2, <1>5, <2>1, OwnBlock DEF AsmInv, FilesInv
  <2> QED BY <2>1, <2>2 DEF OthersKept, Held, Clean, Kinds
<1>6. ASSUME NEW c \in Blocks, result'[c] # "none" PROVE (Left(c, result[c]))'
  <2>1. CASE c = b
    BY <1>1, <1>2, <2>1 DEF Left, Clean
  <2>2. CASE c # b
    <3>1. result'[c] = result[c] /\ Left(c, result[c])
      BY <1>1, <1>2, <1>6, <2>2 DEF AsmInv, FilesInv
    <3> QED BY <2>2, <3>1 DEF OthersKept, Left, Clean, Kinds
  <2> QED BY <2>1, <2>2
<1>7. ASSUME NEW c \in Blocks, result'[c] = "none", \A v \in Workers : task'[v] # c
      PROVE  Clean(c)'
  <2>1. c # b
    BY <1>1, <1>2, <1>7
  <2>2. result[c] = "none" /\ \A v \in Workers : task[v] # c
    BY <1>1, <1>2, <1>7, <2>1
  <2>3. Clean(c)
    BY <2>2 DEF AsmInv, FilesInv
  <2> QED BY <2>1, <2>3 DEF OthersKept, Clean
<1>8. FilesInv'
  BY <1>5, <1>6, <1>7 DEF FilesInv, OthersKept
<1> QED BY <1>3, <1>4, <1>8

\* What a worker writes and removes is its own.
LEMMA OwnFiles ==
  ASSUME NEW b \in Blocks, NEW A \in SUBSET Kinds, NEW R \in SUBSET Kinds,
         files \subseteq Blocks \X Kinds, files' = (files \ ({b} \X R)) \cup ({b} \X A)
  PROVE  /\ OthersKept(b)
         /\ \A k \in Kinds : <<b, k>> \in files' <=> k \in A \/ (<<b, k>> \in files /\ k \notin R)
BY DEF OthersKept

\* Lines are written for a block that has nothing on disk.
LEMMA GenerateKeeps ==
  ASSUME AsmInv, NEW w \in Workers, Generate(w)
  PROVE  StepsInv' /\ FilesInv' /\ ReportInv'
<1>a. step[w] # "idle"
  BY DEF Generate
<1>b. PICK b \in Blocks : b = task[w]
  BY <1>a, OwnBlock
<1>1. /\ step[w] # "idle" /\ UNCHANGED printed /\ files \subseteq Blocks \X Kinds
      /\ Clean(b)
  BY <1>a, <1>b, OwnBlock DEF Generate, AsmInv, FilesInv, Held
<1>2. CASE Return(w, "ok") /\ UNCHANGED files
  <2>1. OthersKept(b) /\ Left(b, "ok")'
    BY <1>b, <1>1, <1>2 DEF OthersKept, Left, Clean
  <2> QED BY <1>b, <1>1, <1>2, <2>1, ReturnKeeps
<1>3. CASE files' = files \cup {<<b, "asm">>} /\ Go(w, "assemble")
  <2>1. files' = (files \ ({b} \X {})) \cup ({b} \X {"asm"})
    BY <1>3
  <2>2. /\ OthersKept(b)
        /\ \A k \in Kinds : <<b, k>> \in files' <=> k = "asm" \/ <<b, k>> \in files
    BY <1>1, <2>1, OwnFiles, {"asm"} \in SUBSET Kinds, {} \in SUBSET Kinds DEF Kinds
  <2>3. Held(b, "assemble")'
    BY <1>1, <2>2 DEF Kinds, Held, Clean
  <2> QED BY <1>b, <1>1, <1>3, <2>2, <2>3, GoKeeps DEF Steps
<1> QED BY <1>b, <1>2, <1>3 DEF Generate

\* The objects on disk are those of the assemblers that did not fail.
LEMMA AssembleKeeps ==
  ASSUME AsmInv, NEW w \in Workers, Assemble(w)
  PROVE  StepsInv' /\ FilesInv' /\ ReportInv'
<1>a. step[w] # "idle"
  BY DEF Assemble
<1>b. PICK b \in Blocks : b = task[w]
  BY <1>a, OwnBlock
<1>1. /\ step[w] = "assemble" /\ UNCHANGED printed /\ files \subseteq Blocks \X Kinds
      /\ Held(b, "assemble")
  BY <1>a, <1>b, OwnBlock DEF Assemble, AsmInv, FilesInv
<1>2. PICK ref \in Binaries \cup {"fails"}, under \in Binaries \cup {"fails"} :
        /\ files' = files \cup {f \in {b} \X {"obj1", "obj2"} :
                                  IF f[2] = "obj1" THEN ref # "fails" ELSE under # "fails"}
        /\ IF "fails" \in {ref, under} THEN Return(w, "failed") ELSE Go(w, "dump")
  BY <1>b, <1>1 DEF Assemble
<1> DEFINE objs == {k \in {"obj1", "obj2"} :
                      IF k = "obj1" THEN ref # "fails" ELSE under # "fails"}
<1>3. files' = (files \ ({b} \X {})) \cup ({b} \X objs)
  BY <1>2
<1>4. OthersKept(b) /\ \A k \in Kinds : <<b, k>> \in files' <=> k \in objs \/ <<b, k>> \in files
  <2>1. objs \in SUBSET Kinds /\ {} \in SUBSET Kinds
    BY DEF Kinds
  <2> HIDE DEF objs
  <2> QED BY <1>b, <1>1, <1>3, <2>1, OwnFiles
<1>5. Held(b, "dump")' /\ Left(b, "failed")'
  BY <1>b, <1>1, <1>4 DEF Kinds, Held, Left
<1> QED BY <1>b, <1>1, <1>2, <1>4, <1>5, GoKeeps, ReturnKeeps DEF Steps

\* A failed objcopy leaves everything where it is.
LEMMA DumpKeeps ==
  ASSUME AsmInv, NEW w \in Workers, Dump(w)
  PROVE  StepsInv' /\ FilesInv' /\ ReportInv'
<1>a. step[w] # "idle"
  BY DEF Dump
<1>b. PICK b \in Blocks : b = task[w]
  BY <1>a, OwnBlock
<1>1. /\ step[w] = "dump" /\ UNCHANGED printed /\ files \subseteq Blocks \X Kinds
      /\ Held(b, "dump")
  BY <1>a, <1>b, OwnBlock DEF Dump, AsmInv, FilesInv
<1>2. CASE Return(w, "exception") /\ UNCHANGED files
  <2>1. OthersKept(b) /\ Left(b, "exception")'
    BY <1>b, <1>1, <1>2 DEF OthersKept, Left
  <2> QED BY <1>b, <1>1, <1>2, <2>1, ReturnKeeps
<1>3. CASE /\ files' = (files \ ({b} \X {"obj1", "obj2"})) \cup ({b} \X {"raw1", "raw2"})
           /\ Go(w, "compare")
  <2>1. {"obj1", "obj2"} \in SUBSET Kinds /\ {"raw1", "raw2"} \in SUBSET Kinds
    BY DEF Kinds
  <2>2. /\ OthersKept(b)
        /\ \A k \in Kinds : <<b, k>> \in files' <=>
             k \in {"raw1", "raw2"} \/ (<<b, k>> \in files /\ k \notin {"obj1", "obj2"})
    BY <1>1, <1>3, <2>1, OwnFiles
  <2>3. Held(b, "compare")'
    BY <1>1, <2>2 DEF Kinds, Held
  <2> QED BY <1>b, <1>1, <1>3, <2>2, <2>3, GoKeeps DEF Steps
<1> QED BY <1>b, <1>2, <1>3 DEF Dump

\* The raw outputs are removed whatever the comparison says, the lines only if
\* it says they are the same.
LEMMA CompareKeeps ==
  ASSUME AsmInv, NEW w \in Workers, Compare(w)
  PROVE  StepsInv' /\ FilesInv' /\ ReportInv'
<1>a. step[w] # "idle"
  BY DEF Compare
<1>b. PICK b \in Blocks : b = task[w]
  BY <1>a, OwnBlock
<1>1. /\ step[w] = "compare" /\ UNCHANGED printed /\ files \subseteq Blocks \X Kinds
      /\ Held(b, "compare")
  BY <1>a, <1>b, OwnBlock DEF Compare, AsmInv, FilesInv
<1>2. CASE files' = files \ ({b} \X {"raw1", "raw2", "asm"}) /\ Return(w, "ok")
  <2>1. files' = (files \ ({b} \X {"raw1", "raw2", "asm"})) \cup ({b} \X {})
    BY <1>2
  <2>2. {"raw1", "raw2", "asm"} \in SUBSET Kinds /\ {} \in SUBSET Kinds
    BY DEF Kinds
  <2>3. /\ OthersKept(b)
        /\ \A k \in Kinds : <<b, k>> \in files' <=>
             <<b, k>> \in files /\ k \notin {"raw1", "raw2", "asm"}
    BY <1>1, <2>1, <2>2, OwnFiles
  <2>4. Left(b, "ok")'
    BY <1>1, <2>3 DEF Kinds, Held, Left, Clean
  <2> QED BY <1>b, <1>1, <1>2, <2>3, <2>4, ReturnKeeps
<1>3. CASE files' = files \ ({b} \X {"raw1", "raw2"}) /\ Return(w, "failed")
  <2>1. files' = (files \ ({b} \X {"raw1", "raw2"})) \cup ({b} \X {})
    BY <1>3
  <2>2. OthersKept(b) /\ Left(b, "failed")'
    BY <1>b, <1>1, <2>1, OwnFiles DEF Kinds, Held, Left
  <2> QED BY <1>b, <1>1, <1>3, <2>2, ReturnKeeps
<1> QED BY <1>b, <1>2, <1>3 DEF Compare

\* Lines that were not all refused are kept, with the object if there is one.
LEMMA RefuseKeeps ==
  ASSUME AsmInv, NEW w \in Workers, Refuse(w)
  PROVE  StepsInv' /\ FilesInv' /\ ReportInv'
<1>a. step[w] # "idle"
  BY DEF Refuse
<1>b. PICK b \in Blocks : b = task[w]
  BY <1>a, OwnBlock
<1>1. /\ step[w] = "assemble" /\ UNCHANGED printed /\ files \subseteq Blocks \X Kinds
      /\ Held(b, "assemble")
  BY <1>a, <1>b, OwnBlock DEF Refuse, AsmInv, FilesInv
<1>2. CASE files' = files \ {<<b, "asm">>} /\ Return(w, "ok")
  <2>1. files' = (files \ ({b} \X {"asm"})) \cup ({b} \X {})
    BY <1>2
  <2>2. OthersKept(b) /\ Left(b, "ok")'
    BY <1>b, <1>1, <2>1, OwnFiles DEF Kinds, Held, Left, Clean
  <2> QED BY <1>b, <1>1, <1>2, <2>2, ReturnKeeps
<1>3. ASSUME NEW O \in SUBSET {"obj1"}, files' = files \cup ({b} \X O), Return(w, "failed")
      PROVE  StepsInv' /\ FilesInv' /\ ReportInv'
  <2>1. files' = (files \ ({b} \X {})) \cup ({b} \X O) /\ O \in SUBSET Kinds
    BY <1>3 DEF Kinds
  <2>2. OthersKept(b) /\ Left(b, "failed")'
    BY <1>b, <1>1, <2>1, OwnFiles DEF Kinds, Held, Left
  <2> QED BY <1>b, <1>1, <1>3, <2>2, ReturnKeeps
<1>4. \/ files' = files \ {<<b, "asm">>} /\ Return(w, "ok")
      \/ files' = files \cup {<<b, "obj1">>} /\ Return(w, "failed")
      \/ files' = files \cup {} /\ Return(w, "failed")
      \/ UNCHANGED files /\ Return(w, "exception")
  BY <1>b DEF Refuse
<1>5. {<<b, "obj1">>} = {b} \X {"obj1"} /\ {} = {b} \X {}
  OBVIOUS
<1>6. CASE UNCHANGED files /\ Return(w, "exception")
  <2>1. OthersKept(b) /\ Left(b, "exception")'
    BY <1>1, <1>6 DEF OthersKept, Left
  <2> QED BY <1>b, <1>1, <1>6, <2>1, ReturnKeeps
<1> QED BY <1>2, <1>3, <1>4, <1>5, <1>6

\* A block that is taken has nothing on disk.
LEMMA TakeKeeps ==
  ASSUME AsmInv, NEW w \in Workers, Take(w)
  PROVE  StepsInv' /\ FilesInv' /\ ReportInv'
<1>1. PICK b \in 1..submitted : ~Pool!Taken(b) /\ Pool!Assign(w, b)
  BY DEF Take, Pool!Take
<1>2. /\ task' = [task EXCEPT ![w] = b] /\ step' = [step EXCEPT ![w] = "start"]
      /\ UNCHANGED <<result, collected, files, printed>>
  BY <1>1 DEF Take, Pool!Assign
<1>3. b \in Blocks /\ b # 0 /\ task \in [Workers -> 0..submitted]
  BY PoolAssumptions DEF AsmInv, PoolInv, Pool!TypeOK, Blocks
<1>4. Clean(b) /\ result[b] = "none"
  BY <1>1, <1>3 DEF Pool!Taken, AsmInv, FilesInv
<1>5. StepsInv' /\ ReportInv'
  BY <1>2, <1>3 DEF AsmInv, StepsInv, Steps, ReportInv
<1>6. FilesInv'
  <2>1. ASSUME NEW v \in Workers, task'[v] # 0 PROVE (Held(task[v], step[v]))'
    BY <1>2, <1>3, <1>4, <2>1 DEF AsmInv, StepsInv, FilesInv, Held, Clean
  <2>2. \A c \in Blocks : result'[c] # "none" => (Left(c, result[c]))'
    BY <1>2 DEF AsmInv, FilesInv, Left, Clean
  <2>3. ASSUME NEW c \in Blocks, result'[c] = "none", \A v \in Workers : task'[v] # c
        PROVE  Clean(c)'
    <3>1. \A v \in Workers : task[v] # c \/ v = w
      BY <1>2, <1>3, <2>3
    <3>2. CASE task[w] = c
      BY <3>2, <1>1, <1>3 DEF Pool!Assign, Blocks
    <3> QED BY <1>2, <2>3, <3>1, <3>2 DEF AsmInv, FilesInv, Clean
  <2> QED BY <1>2, <2>1, <2>2, <2>3 DEF AsmInv, FilesInv
<1> QED BY <1>5, <1>6

\* The main process prints the failures as it meets them.
LEMMA CollectKeeps ==
  ASSUME AsmInv, Collect
  PROVE  StepsInv' /\ FilesInv' /\ ReportInv'
<1>1. UNCHANGED <<task, result, step, files>>
  BY DEF Collect, Pool!Collect
<1>2. StepsInv' /\ FilesInv'
  BY <1>1 DEF AsmInv, StepsInv, FilesInv, Held, Left, Clean
<1>3. collected \in Nat
  BY PoolAssumptions DEF AsmInv, PoolInv, Pool!TypeOK
<1>4. \/ result[collected + 1] = "exception" /\ UNCHANGED collected
      \/ result[collected + 1] # "exception" /\ collected' = collected + 1
  BY DEF Collect, Pool!Collect
<1>5. printed' = IF result[collected + 1] = "failed" THEN printed \cup {collected + 1} ELSE printed
  BY DEF Collect
<1>6. ReportInv'
  BY <1>1, <1>3, <1>4, <1>5 DEF AsmInv, ReportInv
<1> QED BY <1>2, <1>6

\* All of it, at the start and after every step.
LEMMA AsmStart == Init => AsmInv
<1> SUFFICES ASSUME Init PROVE AsmInv
  OBVIOUS
<1>1. PoolInv
  BY PoolStart DEF Init
<1>2. StepsInv /\ FilesInv /\ ReportInv
  BY DEF Init, Pool!Init, Pool!Blocks, Blocks, StepsInv, Steps, FilesInv, Clean, ReportInv
<1> QED BY <1>1, <1>2 DEF AsmInv

LEMMA AsmStep == AsmInv /\ [Next]_vars => AsmInv'
<1> SUFFICES ASSUME AsmInv, [Next]_vars PROVE StepsInv' /\ FilesInv' /\ ReportInv'
  BY PoolKeeps DEF AsmInv
<1>1. CASE Submit
  BY <1>1 DEF Submit, Pool!Submit, own, AsmInv, StepsInv, FilesInv, ReportInv, Held, Left, Clean
<1>2. ASSUME NEW w \in Workers, Work(w) PROVE StepsInv' /\ FilesInv' /\ ReportInv'
  BY <1>2, TakeKeeps, GenerateKeeps, AssembleKeeps, DumpKeeps, CompareKeeps, RefuseKeeps DEF Work
<1>3. CASE Collect
  BY <1>3, CollectKeeps
<1>4. CASE UNCHANGED vars
  BY <1>4 DEF vars, own, pool, AsmInv, StepsInv, FilesInv, ReportInv, Held, Left, Clean
<1> QED BY <1>1, <1>2, <1>3, <1>4 DEF Next, End

\* When everything is collected, the disk holds what was printed.
LEMMA EvidenceThen == AsmInv => EvidenceKept
<1> SUFFICES ASSUME AsmInv, Finished PROVE EvidenceKept
  BY DEF EvidenceKept
<1>1. collected = 2 * Len(Insts) /\ Blocks = 1..collected
  BY DEF Finished, Pool!Finished, Blocks
<1>2. \A b \in Blocks : result[b] \in {"ok", "failed"} /\ Left(b, result[b])
  BY <1>1, PoolAssumptions
     DEF AsmInv, FilesInv, Blocks,
         PoolInv, Pool!TypeOK, Pool!Blocks, Pool!CollectedReturned
<1>3. printed = {b \in Blocks : result[b] = "failed"}
  BY <1>1 DEF AsmInv, ReportInv
<1>4. ASSUME NEW f \in files PROVE f[1] \in printed /\ f[2] \notin {"raw1", "raw2"}
  <2>1. PICK b \in Blocks, k \in Kinds : f = <<b, k>>
    BY DEF AsmInv, FilesInv
  <2> QED BY <1>2, <1>3, <2>1 DEF Left, Clean
<1> QED BY <1>2, <1>3, <1>4 DEF EvidenceKept, Left

-----------------------------------------------------------------------------
(* The sum of the lines of a set of blocks, by its recursive definition.     *)

\* Induction on natural numbers, stated of a set in place of a predicate.
LEMMA NatInd ==
  ASSUME NEW T, 0 \in T, \A n \in Nat : n \in T => n + 1 \in T
  PROVE  Nat \subseteq T
<1> SUFFICES ASSUME Nat \ T # {} PROVE FALSE
  OBVIOUS
<1> DEFINE R == {ss \in Nat \X Nat : ss[1] < ss[2]}
<1>1. OpToRel(<, Nat) = R
  BY Zenon DEF OpToRel
<1>2. PICK n \in Nat \ T : \A m \in Nat \ T : ~(<<m, n>> \in R)
  BY <1>1, NatLessThanWellFounded, WFMin
<1>3. n # 0 /\ n - 1 \in Nat /\ <<n - 1, n>> \in R /\ (n - 1) + 1 = n
  BY <1>2
<1> HIDE DEF R
<1> QED BY <1>2, <1>3

\* Induction over the subsets of a finite set.
LEMMA SetInd ==
  ASSUME NEW S, IsFiniteSet(S), NEW Q,
         \A s \in SUBSET S : (\A r \in SUBSET s : r # s => r \in Q) => s \in Q
  PROVE  SUBSET S \subseteq Q
<1> SUFFICES ASSUME (SUBSET S) \ Q # {} PROVE FALSE
  OBVIOUS
<1>1. SUBSET S \subseteq FiniteSubsetsOf(S)
  BY FS_Subset DEF FiniteSubsetsOf
<1> DEFINE left == (SUBSET S) \ Q
<1>2. PICK s \in left : \A r \in left : ~(<<r, s>> \in StrictSubsetOrdering(S))
  <2>1. IsWellFoundedOn(StrictSubsetOrdering(S), FiniteSubsetsOf(S))
    BY FS_StrictSubsetOrderingWellFounded
  <2>2. left \subseteq FiniteSubsetsOf(S) /\ left # {}
    BY <1>1
  <2> HIDE DEF left
  <2> QED BY <2>1, <2>2, WFMin
<1>3. ASSUME NEW r \in SUBSET s, r # s PROVE r \in Q
  BY <1>2, <1>3 DEF StrictSubsetOrdering
<1> QED BY <1>2, <1>3

\* The recursive function that adds up the lines of the subsets of a set.
Any(s) == CHOOSE x \in s : TRUE

Sum(S) == CHOOSE iter : iter = [s \in SUBSET S |->
            IF s = {} THEN 0 ELSE lines(Any(s)) + iter[s \ {Any(s)}]]

\* It is what MapThenSumSet unfolds to.
LEMMA SumOfLines ==
  ASSUME NEW S
  PROVE  MapThenSumSet(lines, S) = Sum(S)[S]
BY DEF MapThenSumSet, MapThenFoldSet, Sum, Any

\* There is one, for every finite set: by induction on the size of the subsets.
LEMMA SumExists ==
  ASSUME NEW S, IsFiniteSet(S)
  PROVE  Sum(S) = [s \in SUBSET S |->
                     IF s = {} THEN 0 ELSE lines(Any(s)) + Sum(S)[s \ {Any(s)}]]
<1> DEFINE Upto(n) == {s \in SUBSET S : Cardinality(s) <= n}
           Solves(h, n) == h = [s \in Upto(n) |->
                                  IF s = {} THEN 0 ELSE lines(Any(s)) + h[s \ {Any(s)}]]
           T == {n \in Nat : \E h : Solves(h, n)}
<1>1. \A s \in SUBSET S :
        /\ Cardinality(s) \in Nat /\ (Cardinality(s) = 0 <=> s = {})
        /\ s # {} => Any(s) \in s /\ Cardinality(s \ {Any(s)}) = Cardinality(s) - 1
  BY FS_Subset, FS_CardinalityType, FS_EmptySet, FS_RemoveElement DEF Any
<1>2. 0 \in T
  <2>1. ASSUME NEW s \in Upto(0) PROVE s = {}
    <3>1. Cardinality(s) \in Nat /\ Cardinality(s) <= 0
      BY <1>1
    <3>2. Cardinality(s) = 0
      BY <3>1
    <3> QED BY <1>1, <3>2
  <2>2. Solves([s \in Upto(0) |-> 0], 0)
    BY <2>1
  <2> QED BY <2>2
<1>3. ASSUME NEW n \in Nat, n \in T PROVE n + 1 \in T
  <2>1. PICK h : Solves(h, n)
    BY <1>3
  <2> DEFINE g == [s \in Upto(n + 1) |->
                     IF s = {} THEN 0 ELSE lines(Any(s)) + h[s \ {Any(s)}]]
  <2>2. Upto(n) \subseteq Upto(n + 1)
    <3> SUFFICES ASSUME NEW s \in Upto(n) PROVE Cardinality(s) <= n + 1
      OBVIOUS
    <3>1. Cardinality(s) \in Nat /\ Cardinality(s) <= n
      BY <1>1
    <3> QED BY <3>1
  <2>3. \A s \in Upto(n) : g[s] = h[s]
    BY <2>1, <2>2
  <2>4. \A s \in Upto(n + 1) : s # {} => s \ {Any(s)} \in Upto(n)
    BY <1>1
  <2>5. Solves(g, n + 1)
    BY <2>3, <2>4
  <2>6. n + 1 \in Nat
    OBVIOUS
  <2> HIDE DEF g, Solves
  <2> QED BY <2>5, <2>6
<1>4. Nat \subseteq T
  <2> HIDE DEF T
  <2> QED BY <1>2, <1>3, NatInd
<1>5. Cardinality(S) \in Nat
  BY <1>1
<1>6. PICK h : Solves(h, Cardinality(S))
  BY <1>4, <1>5
<1>7. Upto(Cardinality(S)) = SUBSET S
  BY FS_Subset
<1> QED BY <1>6, <1>7 DEF Sum

\* The sum of a set is a number.
LEMMA SumType ==
  ASSUME NEW S, IsFiniteSet(S), \A b \in S : lines(b) \in Nat
  PROVE  \A s \in SUBSET S : Sum(S)[s] \in Nat
<1> DEFINE Q == {s \in SUBSET S : Sum(S)[s] \in Nat}
<1>1. ASSUME NEW s \in SUBSET S, \A r \in SUBSET s : r # s => r \in Q PROVE s \in Q
  <2>1. CASE s = {}
    <3>1. Sum(S)[s] = 0
      BY <2>1, SumExists
    <3> QED BY <3>1
  <2>2. CASE s # {}
    <3>1. Any(s) \in s
      BY <2>2 DEF Any
    <3>2. Sum(S)[s] = lines(Any(s)) + Sum(S)[s \ {Any(s)}]
      BY <2>2, SumExists
    <3>3. Sum(S)[s \ {Any(s)}] \in Nat /\ lines(Any(s)) \in Nat
      BY <1>1, <3>1
    <3> QED BY <3>2, <3>3
  <2> QED BY <2>1, <2>2
<1> HIDE DEF Q
<1>2. SUBSET S \subseteq Q
  BY <1>1, SetInd
<1> QED BY <1>2 DEF Q

\* It does not depend on the set around it.
LEMMA SumSame ==
  ASSUME NEW T, IsFiniteSet(T), NEW S \in SUBSET T
  PROVE  \A s \in SUBSET S : Sum(T)[s] = Sum(S)[s]
<1> DEFINE Q == {s \in SUBSET S : Sum(T)[s] = Sum(S)[s]}
<1>f. IsFiniteSet(S)
  BY FS_Subset
<1>1. ASSUME NEW s \in SUBSET S, \A r \in SUBSET s : r # s => r \in Q PROVE s \in Q
  <2>t. s \in SUBSET T
    OBVIOUS
  <2>1. CASE s = {}
    <3>1. Sum(S)[s] = 0 /\ Sum(T)[s] = 0
      BY <1>f, <2>t, <2>1, SumExists
    <3> QED BY <3>1
  <2>2. CASE s # {}
    <3>1. Any(s) \in s
      BY <2>2 DEF Any
    <3>2. Sum(S)[s] = lines(Any(s)) + Sum(S)[s \ {Any(s)}]
      BY <1>f, <2>2, SumExists
    <3>3. Sum(T)[s] = lines(Any(s)) + Sum(T)[s \ {Any(s)}]
      BY <2>t, <2>2, SumExists
    <3>4. Sum(T)[s \ {Any(s)}] = Sum(S)[s \ {Any(s)}]
      BY <1>1, <3>1
    <3> QED BY <3>2, <3>3, <3>4
  <2> QED BY <2>1, <2>2
<1> HIDE DEF Q
<1>2. SUBSET S \subseteq Q
  BY <1>f, <1>1, SetInd
<1> QED BY <1>2 DEF Q

\* Whichever member is taken out first.
LEMMA SumAdd ==
  ASSUME NEW S, IsFiniteSet(S), \A b \in S : lines(b) \in Nat
  PROVE  \A s \in SUBSET S : \A b \in s : Sum(S)[s] = lines(b) + Sum(S)[s \ {b}]
<1> DEFINE Q == {s \in SUBSET S : \A b \in s : Sum(S)[s] = lines(b) + Sum(S)[s \ {b}]}
<1>1. ASSUME NEW s \in SUBSET S, \A r \in SUBSET s : r # s => r \in Q PROVE s \in Q
  <2> SUFFICES ASSUME NEW b \in s PROVE Sum(S)[s] = lines(b) + Sum(S)[s \ {b}]
    OBVIOUS
  <2> DEFINE a == Any(s)
             rest == (s \ {a}) \ {b}
  <2>1. a \in s
    BY DEF Any
  <2>2. Sum(S)[s] = lines(a) + Sum(S)[s \ {a}]
    BY SumExists, s # {}
  <2> HIDE DEF a
  <2>3. CASE a = b
    BY <2>2, <2>3
  <2>4. CASE a # b
    <3>1. s \ {a} \in Q /\ b \in s \ {a} /\ s \ {b} \in Q /\ a \in s \ {b}
      BY <1>1, <2>1, <2>4
    <3>2. (s \ {b}) \ {a} = rest
      OBVIOUS
    <3>3. Sum(S)[s \ {a}] = lines(b) + Sum(S)[rest] /\ Sum(S)[s \ {b}] = lines(a) + Sum(S)[rest]
      BY <3>1, <3>2
    <3>4. Sum(S)[rest] \in Nat /\ lines(a) \in Nat /\ lines(b) \in Nat
      BY <2>1, SumType
    <3> HIDE DEF rest, Q
    <3> QED BY <2>2, <3>3, <3>4
  <2> QED BY <2>3, <2>4
<1> HIDE DEF Q
<1>2. SUBSET S \subseteq Q
  BY <1>1, SetInd
<1> QED BY <1>2 DEF Q

\* A block more adds its lines.
LEMMA LinesAdd ==
  ASSUME NEW S, IsFiniteSet(S), NEW c, c \notin S, \A b \in S \cup {c} : lines(b) \in Nat
  PROVE  /\ MapThenSumSet(lines, S \cup {c}) = lines(c) + MapThenSumSet(lines, S)
         /\ MapThenSumSet(lines, S) \in Nat
<1> DEFINE T == S \cup {c}
<1>1. IsFiniteSet(T)
  BY FS_AddElement
<1>2. T \in SUBSET T /\ c \in T /\ T \ {c} = S /\ S \in SUBSET T /\ S \in SUBSET S
  OBVIOUS
<1> HIDE DEF T
<1>3. \A b \in T : lines(b) \in Nat
  BY DEF T
<1>4. Sum(T)[T] = lines(c) + Sum(T)[S]
  BY <1>1, <1>2, <1>3, SumAdd
<1>5. Sum(T)[S] = Sum(S)[S]
  BY <1>1, <1>2, SumSame
<1>6. Sum(S)[S] \in Nat
  BY <1>2, <1>3, SumType
<1>7. MapThenSumSet(lines, T) = Sum(T)[T] /\ MapThenSumSet(lines, S) = Sum(S)[S]
  BY SumOfLines
<1> QED BY <1>4, <1>5, <1>6, <1>7 DEF T

-----------------------------------------------------------------------------
(* What the assemblers did, and what is counted.                            *)

\* An instruction has a number of lines of each kind.
LEMMA LinesType == \A b \in Blocks : lines(b) \in Nat
<1> SUFFICES ASSUME NEW b \in Blocks PROVE lines(b) \in Nat
  OBVIOUS
<1>1. Len(Insts) \in Nat /\ \A i \in 1..Len(Insts) : Insts[i].good \in Nat /\ Insts[i].bad \in Nat
  <2>1. \A S : \A s \in Seq(S) : Len(s) \in Nat /\ \A i \in 1..Len(s) : s[i] \in S
    OBVIOUS
  <2>2. Len(Insts) \in Nat
        /\ \A i \in 1..Len(Insts) : Insts[i] \in [good : Nat, bad : Nat, supported : BOOLEAN]
    BY <2>1, InstsAssumption
  <2> QED BY <2>2
<1>2. (b + 1) \div 2 \in 1..Len(Insts)
  BY <1>1 DEF Blocks
<1>3. inst(b).good \in Nat /\ inst(b).bad \in Nat
  BY <1>1, <1>2 DEF inst
<1> QED BY <1>3 DEF lines

\* One block more: its lines are counted if its instruction has operands that
\* can be listed.
LEMMA LinesOfOneMore ==
  ASSUME NEW n \in Nat, NEW B \in SUBSET (1..n), n + 1 \in Blocks, 1..n \subseteq Blocks
  PROVE  /\ LinesOf(B \cup {n + 1}) =
              LinesOf(B) + (IF inst(n + 1).supported THEN lines(n + 1) ELSE 0)
         /\ LinesOf(B) \in Nat
<1> DEFINE S == {b \in B : inst(b).supported}
           S1 == {b \in B \cup {n + 1} : inst(b).supported}
<1>1. IsFiniteSet(S) /\ n + 1 \notin S
  <2>1. IsFiniteSet(1..n)
    BY FS_Interval
  <2>2. S \in SUBSET (1..n)
    OBVIOUS
  <2>3. n + 1 \notin 1..n
    OBVIOUS
  <2> QED BY <2>1, <2>2, <2>3, FS_Subset
<1>2. \A b \in S \cup {n + 1} : lines(b) \in Nat
  BY LinesType
<1> HIDE DEF S
<1>3. /\ MapThenSumSet(lines, S \cup {n + 1}) = lines(n + 1) + MapThenSumSet(lines, S)
      /\ MapThenSumSet(lines, S) \in Nat /\ lines(n + 1) \in Nat
  BY <1>1, <1>2, LinesAdd
<1>4. S1 = IF inst(n + 1).supported THEN S \cup {n + 1} ELSE S
  BY DEF S
<1>5. LinesOf(B) = MapThenSumSet(lines, S) /\ LinesOf(B \cup {n + 1}) = MapThenSumSet(lines, S1)
  BY DEF LinesOf, S
<1>6. /\ inst(n + 1).supported => LinesOf(B \cup {n + 1}) = lines(n + 1) + LinesOf(B)
      /\ ~inst(n + 1).supported => LinesOf(B \cup {n + 1}) = LinesOf(B)
      /\ LinesOf(B) \in Nat /\ lines(n + 1) \in Nat
  BY <1>3, <1>4, <1>5, Zenon
<1> QED BY <1>6

\* No blocks, no lines.
LEMMA LinesOfNone == LinesOf({}) = 0
<1>1. Sum({})[{}] = 0
  BY FS_EmptySet, SumExists
<1>2. {b \in {} : inst(b).supported} = {}
  OBVIOUS
<1> QED BY <1>1, <1>2, SumOfLines DEF LinesOf

\* What a worker learns of its block is not written over that of another.
OthersSaw(b) == DOMAIN saw' = Blocks /\ \A c \in Blocks \ {b} : saw'[c] = saw[c]

\* A worker goes on to a step for which its block is in the right state.
LEMMA GoSaw ==
  ASSUME AsmInv, SawInv, NEW w \in Workers, step[w] # "idle", NEW s \in Steps \ {"idle"},
         NEW b \in Blocks, b = task[w], Go(w, s), OthersSaw(b), Unseen(b, s)'
  PROVE  SawInv'
<1>1. UNCHANGED <<task, result>> /\ step' = [step EXCEPT ![w] = s]
  BY DEF Go, pool
<1>2. result[b] = "none" /\ \A v \in Workers \ {w} : task[v] # b
  BY OwnBlock
<1>3. ASSUME NEW v \in Workers, task'[v] # 0 PROVE Unseen(task[v], step[v])'
  <2>1. CASE v = w
    BY <1>1, <2>1 DEF AsmInv, StepsInv, Unseen, FailureSeen, GaveUp, Accepted, Further
  <2>2. CASE v # w
    <3>1. task[v] \in Blocks \ {b}
      BY <1>1, <1>2, <1>3, <2>2, PoolAssumptions
         DEF AsmInv, PoolInv, Pool!TypeOK, Blocks
    <3>2. Unseen(task[v], step[v]) /\ step'[v] = step[v] /\ task'[v] = task[v]
      BY <1>1, <1>3, <2>2 DEF AsmInv, StepsInv, SawInv
    <3> QED BY <3>1, <3>2 DEF OthersSaw, Unseen, FailureSeen, GaveUp, Accepted, Further
  <2> QED BY <2>1, <2>2
<1>4. ASSUME NEW c \in Blocks, result'[c] = "ok" PROVE ~FailureSeen(c)'
  <2>1. c # b /\ ~FailureSeen(c)
    BY <1>1, <1>2, <1>4 DEF SawInv
  <2> QED BY <2>1 DEF OthersSaw, FailureSeen, GaveUp, Accepted, Further
<1>5. ASSUME NEW c \in Blocks, result'[c] = "none", \A v \in Workers : task'[v] # c
      PROVE  saw'[c] = <<>>
  BY <1>1, <1>5 DEF SawInv, OthersSaw
<1> QED BY <1>3, <1>4, <1>5 DEF SawInv, OthersSaw

\* A worker ends its block, and calls it a success only if it saw no failure.
LEMMA ReturnSaw ==
  ASSUME AsmInv, SawInv, NEW w \in Workers, step[w] # "idle",
         NEW r \in {"ok", "failed", "exception"}, NEW b \in Blocks, b = task[w],
         Return(w, r), OthersSaw(b), r = "ok" => ~FailureSeen(b)'
  PROVE  SawInv'
<1>1. /\ task' = [task EXCEPT ![w] = 0] /\ result' = [result EXCEPT ![b] = r]
      /\ step' = [step EXCEPT ![w] = "idle"]
  BY DEF Return, Pool!Return
<1>2. /\ result \in [Blocks -> {"ok", "failed", "exception", "none"}]
      /\ task \in [Workers -> 0..submitted] /\ 0..submitted \subseteq Blocks \cup {0}
      /\ step \in [Workers -> Steps]
  BY PoolAssumptions DEF AsmInv, StepsInv, PoolInv, Pool!TypeOK, Blocks, Pool!Blocks
<1>3. \A v \in Workers \ {w} : task[v] # b
  BY OwnBlock
<1>4. ASSUME NEW v \in Workers, task'[v] # 0 PROVE Unseen(task[v], step[v])'
  <2>1. v # w /\ task'[v] = task[v] /\ step'[v] = step[v]
    BY <1>1, <1>2, <1>4
  <2>2. task[v] \in Blocks \ {b} /\ Unseen(task[v], step[v])
    BY <1>2, <1>3, <1>4, <2>1 DEF SawInv
  <2> QED BY <2>1, <2>2 DEF OthersSaw, Unseen, FailureSeen, GaveUp, Accepted, Further
<1>5. ASSUME NEW c \in Blocks, result'[c] = "ok" PROVE ~FailureSeen(c)'
  <2>1. CASE c = b
    BY <1>1, <1>2, <1>5, <2>1
  <2>2. CASE c # b
    <3>1. ~FailureSeen(c)
      BY <1>1, <1>2, <1>5, <2>2 DEF SawInv
    <3> QED BY <2>2, <3>1 DEF OthersSaw, FailureSeen, GaveUp, Accepted, Further
  <2> QED BY <2>1, <2>2
<1>6. ASSUME NEW c \in Blocks, result'[c] = "none", \A v \in Workers : task'[v] # c
      PROVE  saw'[c] = <<>>
  <2>1. c # b
    BY <1>1, <1>2, <1>6
  <2>2. result[c] = "none" /\ \A v \in Workers : task[v] # c
    BY <1>1, <1>2, <1>6, <2>1
  <2> QED BY <2>1, <2>2 DEF SawInv, OthersSaw
<1> QED BY <1>4, <1>5, <1>6 DEF SawInv, OthersSaw

\* The assemblers run for a block once, when nothing was seen of it, and the
\* later steps look only at what they did.
LEMMA StepSaw ==
  ASSUME AsmInv, SawInv, NEW w \in Workers,
         Generate(w) \/ Assemble(w) \/ Dump(w) \/ Compare(w) \/ Refuse(w)
  PROVE  SawInv'
<1>a. step[w] # "idle"
  BY DEF Generate, Assemble, Dump, Compare, Refuse
<1>b. PICK b \in Blocks : b = task[w] /\ task[w] # 0
  BY <1>a, OwnBlock
<1>c. Unseen(b, step[w]) /\ DOMAIN saw = Blocks
  BY <1>b DEF SawInv
<1>d. saw' = saw => OthersSaw(b) /\ (FailureSeen(b)' <=> FailureSeen(b))
  BY <1>c DEF OthersSaw, FailureSeen, GaveUp, Accepted, Further
<1>1. CASE Generate(w)
  <2>1. step[w] = "start" /\ saw' = saw /\ (Return(w, "ok") \/ Go(w, "assemble"))
    BY <1>1 DEF Generate
  <2>2. saw'[b] = <<>> /\ ~FailureSeen(b)' /\ Unseen(b, "assemble")'
    BY <1>c, <2>1 DEF Unseen, FailureSeen, GaveUp, Accepted, Further
  <2> QED BY <1>a, <1>b, <1>d, <2>1, <2>2, GoSaw, ReturnSaw DEF Steps
<1>2. CASE Assemble(w)
  <2>1. PICK ref \in Binaries \cup {"fails"}, under \in Binaries \cup {"fails"} :
          /\ saw' = [saw EXCEPT ![b] = <<ref, under>>]
          /\ IF "fails" \in {ref, under} THEN Return(w, "failed") ELSE Go(w, "dump")
    BY <1>b, <1>2 DEF Assemble
  <2>2. Valid(b)
    BY <1>b, <1>2 DEF Assemble
  <2>3. OthersSaw(b) /\ saw'[b] = <<ref, under>>
    BY <1>c, <2>1 DEF OthersSaw
  <2>4. "fails" \notin {ref, under} => Unseen(b, "dump")'
    BY <2>2, <2>3 DEF Unseen, FailureSeen, GaveUp, Accepted, Further
  <2> QED BY <1>a, <1>b, <2>1, <2>3, <2>4, GoSaw, ReturnSaw DEF Steps
<1>3. CASE Dump(w)
  <2>1. step[w] = "dump" /\ saw' = saw /\ (Return(w, "exception") \/ Go(w, "compare"))
    BY <1>3 DEF Dump
  <2>2. Unseen(b, "compare")'
    BY <1>c, <1>d, <2>1 DEF Unseen
  <2> QED BY <1>a, <1>b, <1>d, <2>1, <2>2, GoSaw, ReturnSaw DEF Steps
<1>4. CASE Compare(w)
  <2>1. step[w] = "compare" /\ saw' = saw /\ (Return(w, "ok") \/ Return(w, "failed"))
    BY <1>4 DEF Compare
  <2>2. ~FailureSeen(b)'
    BY <1>c, <1>d, <2>1 DEF Unseen
  <2> QED BY <1>a, <1>b, <1>d, <2>1, <2>2, ReturnSaw
<1>5. CASE Refuse(w)
  <2>1. PICK c \in Complaints(b) :
          /\ saw' = [saw EXCEPT ![b] = c]
          /\ \/ c[3] /\ c[2] = lines(b) /\ Return(w, "ok")
             \/ Return(w, "failed") \/ Return(w, "exception")
    BY <1>b, <1>5 DEF Refuse
  <2>2. ~Valid(b) /\ lines(b) \in Nat
    BY <1>b, <1>5, LinesType DEF Refuse
  <2>3. OthersSaw(b) /\ saw'[b] = c
    BY <1>c, <2>1 DEF OthersSaw
  <2>4. c[1] \in Int /\ c[2] \in Int
    BY <2>2, MaxExtraAssumption DEF Complaints
  <2>5. c[3] /\ c[2] = lines(b) => ~FailureSeen(b)'
    BY <2>2, <2>3, <2>4 DEF FailureSeen, GaveUp, Accepted, Further
  <2> QED BY <1>a, <1>b, <2>1, <2>3, <2>5, ReturnSaw
<1> QED BY <1>1, <1>2, <1>3, <1>4, <1>5

\* A block that is taken has not been seen.
LEMMA TakeSaw ==
  ASSUME AsmInv, SawInv, NEW w \in Workers, Take(w)
  PROVE  SawInv'
<1>1. PICK b \in 1..submitted : ~Pool!Taken(b) /\ Pool!Assign(w, b)
  BY DEF Take, Pool!Take
<1>2. /\ task' = [task EXCEPT ![w] = b] /\ step' = [step EXCEPT ![w] = "start"]
      /\ UNCHANGED <<result, saw>> /\ task[w] = 0
  BY <1>1 DEF Take, Pool!Assign
<1>3. b \in Blocks /\ b # 0 /\ task \in [Workers -> 0..submitted] /\ step \in [Workers -> Steps]
  BY PoolAssumptions DEF AsmInv, StepsInv, PoolInv, Pool!TypeOK, Blocks
<1>4. saw[b] = <<>>
  BY <1>1, <1>3 DEF Pool!Taken, SawInv
<1>5. ASSUME NEW v \in Workers, task'[v] # 0 PROVE Unseen(task[v], step[v])'
  BY <1>2, <1>3, <1>4, <1>5 DEF SawInv, Unseen, FailureSeen, GaveUp, Accepted, Further
<1>6. \A c \in Blocks : result'[c] = "ok" => ~FailureSeen(c)'
  BY <1>2 DEF SawInv, FailureSeen, GaveUp, Accepted, Further
<1>7. ASSUME NEW c \in Blocks, result'[c] = "none", \A v \in Workers : task'[v] # c
      PROVE  saw'[c] = <<>>
  <2>1. ASSUME NEW v \in Workers PROVE task[v] # c
    <3>1. CASE v = w
      BY <1>1, <1>2, <1>7, <3>1 DEF Blocks, AsmInv
    <3>2. CASE v # w
      BY <1>2, <1>3, <1>7, <3>2
    <3> QED BY <3>1, <3>2
  <2> QED BY <1>2, <1>7, <2>1 DEF SawInv
<1> QED BY <1>2, <1>5, <1>6, <1>7 DEF SawInv

\* Only the main process counts; a result it has collected does not change.
LEMMA WorkerCounts ==
  ASSUME AsmInv, CountInv, NEW w \in Workers, Work(w)
  PROVE  CountInv'
<1>1. UNCHANGED <<totals, collected>>
  BY DEF Work, Take, Pool!Take, Pool!Assign, Generate, Assemble, Dump, Compare, Refuse,
         Return, Pool!Return, Go, pool
<1>2. ASSUME NEW b \in 1..collected PROVE result'[b] = result[b]
  <2>1. CASE result' = result
    BY <2>1
  <2>2. CASE result' # result
    <3>1. step[w] # "idle" /\ \E r : result' = [result EXCEPT ![task[w]] = r]
      BY <2>2 DEF Work, Take, Pool!Take, Pool!Assign, Generate, Assemble, Dump, Compare, Refuse,
                  Return, Pool!Return, Go, pool
    <3>2. task[w] \notin 1..collected
      BY <3>1, OwnBlock
    <3> QED BY <3>1, <3>2
  <2> QED BY <2>1, <2>2
<1>3. {b \in 1..collected : result'[b] = "ok"} = {b \in 1..collected : result[b] = "ok"}
  BY <1>2
<1> QED BY <1>1, <1>3 DEF CountInv

\* The main process adds the lines of each success to the total of its kind.
LEMMA CollectCounts ==
  ASSUME AsmInv, CountInv, Collect
  PROVE  CountInv'
<1> DEFINE c == collected + 1
           B == {b \in 1..collected : result[b] = "ok"}
           n == IF inst(c).supported THEN lines(c) ELSE 0
<1>1. /\ collected \in Nat /\ c \in Blocks /\ 1..collected \subseteq Blocks /\ B \in SUBSET (1..collected)
      /\ lines(c) \in Nat
  BY PoolAssumptions, LinesType
     DEF Collect, Pool!Collect, AsmInv, PoolInv, Pool!TypeOK, Blocks
<1>2. n \in Nat
  BY <1>1
<1>3. UNCHANGED result /\ result[c] # "none"
  BY DEF Collect, Pool!Collect
<1>4. CASE result[c] # "ok"
  <2>1. totals' = totals
    BY <1>4 DEF Collect
  <2>2. {b \in 1..collected' : result'[b] = "ok"} = B
    <3>1. collected' = collected \/ collected' = collected + 1
      BY DEF Collect, Pool!Collect
    <3> QED BY <1>1, <1>3, <1>4, <3>1
  <2> QED BY <2>1, <2>2 DEF CountInv
<1>5. CASE result[c] = "ok"
  <2>1. collected' = c
    BY <1>5 DEF Collect, Pool!Collect
  <2>2. {b \in 1..collected' : result'[b] = "ok"} = B \cup {c}
    BY <1>1, <1>3, <1>5, <2>1
  <2>3. LinesOf(B \cup {c}) = LinesOf(B) + n /\ LinesOf(B) \in Nat
    BY <1>1, LinesOfOneMore
  <2>4. totals' = [totals EXCEPT !.good = @ + n] \/ totals' = [totals EXCEPT !.bad = @ + n]
    BY <1>5 DEF Collect
  <2>5. totals.good \in Nat /\ totals.bad \in Nat /\ totals.good + totals.bad = LinesOf(B)
    BY DEF CountInv
  <2> HIDE DEF n, c, B
  <2>6. totals.good + n \in Nat /\ totals.bad + n \in Nat
    BY <1>2, <2>5
  <2>7. /\ totals' \in [good : Nat, bad : Nat]
        /\ \/ totals'.good = totals.good + n /\ totals'.bad = totals.bad
           \/ totals'.good = totals.good /\ totals'.bad = totals.bad + n
    BY <2>4, <2>6 DEF CountInv
  <2>8. totals'.good + totals'.bad = (totals.good + totals.bad) + n
    BY <1>2, <2>5, <2>7
  <2> QED BY <2>2, <2>3, <2>5, <2>7, <2>8 DEF CountInv
<1> QED BY <1>4, <1>5

\* All of it, at the start and after every step.
LEMMA TestedStart == Init => TestedInv
<1> SUFFICES ASSUME Init PROVE SawInv /\ CountInv
  BY AsmStart DEF TestedInv
<1>1. SawInv
  BY DEF Init, Pool!Init, Pool!Blocks, Blocks, SawInv, Unseen, FailureSeen, GaveUp, Accepted, Further
<1>2. {b \in 1..collected : result[b] = "ok"} = {}
  BY DEF Init, Pool!Init
<1>3. totals = [good |-> 0, bad |-> 0]
  BY DEF Init
<1> QED BY <1>1, <1>2, <1>3, LinesOfNone DEF CountInv

LEMMA TestedStep == TestedInv /\ [Next]_vars => TestedInv'
<1> SUFFICES ASSUME TestedInv, [Next]_vars PROVE SawInv' /\ CountInv'
  BY AsmStep DEF TestedInv
<1>0. AsmInv /\ SawInv /\ CountInv
  BY DEF TestedInv
<1>1. CASE Submit
  BY <1>0, <1>1 DEF Submit, Pool!Submit, own, SawInv, Unseen, FailureSeen, GaveUp, Accepted, Further, CountInv
<1>2. ASSUME NEW w \in Workers, Work(w) PROVE SawInv' /\ CountInv'
  BY <1>0, <1>2, TakeSaw, StepSaw, WorkerCounts DEF Work
<1>3. CASE Collect
  <2>1. UNCHANGED <<task, result, step, saw>>
    BY <1>3 DEF Collect, Pool!Collect
  <2>2. SawInv'
    BY <1>0, <2>1 DEF SawInv, Unseen, FailureSeen, GaveUp, Accepted, Further
  <2> QED BY <1>0, <1>3, <2>2, CollectCounts
<1>4. CASE UNCHANGED vars
  BY <1>0, <1>4 DEF vars, own, pool, SawInv, Unseen, FailureSeen, GaveUp, Accepted, Further, CountInv
<1> QED BY <1>1, <1>2, <1>3, <1>4 DEF Next, End

\* When everything is collected, a block has failed and is printed, or it has
\* succeeded and is counted.
LEMMA RefusalsThen == TestedInv => RefusalsReported
<1> SUFFICES ASSUME TestedInv, Finished PROVE RefusalsReported
  BY DEF RefusalsReported
<1>1. collected = 2 * Len(Insts) /\ Blocks = 1..collected
  BY DEF Finished, Pool!Finished, Blocks
<1>2. \A b \in Blocks : result[b] \in {"ok", "failed"}
  BY <1>1, PoolAssumptions
     DEF TestedInv, AsmInv, PoolInv, Pool!TypeOK, Pool!Blocks,
         Pool!CollectedReturned, Blocks
<1>3. printed = {b \in Blocks : result[b] = "failed"}
  BY <1>1 DEF TestedInv, AsmInv, ReportInv
<1>4. ASSUME NEW b \in Blocks, FailureSeen(b) PROVE b \in printed
  BY <1>2, <1>3, <1>4 DEF TestedInv, SawInv
<1>5. Blocks \ printed = {b \in 1..collected : result[b] = "ok"}
  BY <1>1, <1>2, <1>3
<1>6. totals.good + totals.bad = LinesOf(Blocks \ printed)
  BY <1>5 DEF TestedInv, CountInv
<1> QED BY <1>4, <1>6 DEF RefusalsReported

-----------------------------------------------------------------------------
(* What follows of every run.                                               *)

\* Every part keeps its type (asm-tester.py process_block and the main process,
\* 163-231), and nothing is printed that was not collected.
THEOREM TypeCorrect == Spec => []TypeOK
<1>1. AsmInv => TypeOK
  BY DEF AsmInv, StepsInv, Steps, FilesInv, Kinds, ReportInv, PoolInv,
         Pool!TypeOK, Pool!Blocks, TypeOK
<1> QED BY AsmStart, AsmStep, <1>1, PTL DEF Spec

\* What is on disk at the end is the evidence of the failures, and of them
\* only: for any list of instructions, any number of workers and whatever the
\* assemblers do (asm-tester.py process_block and the main loop, 163-231).
THEOREM Evidence == Spec => []EvidenceKept
BY AsmStart, AsmStep, EvidenceThen, PTL DEF Spec

\* Every block of legal lines that an assembler gave up on is printed, and
\* every block of illegal lines that the reference let through unless further
\* messages make up exactly for the lines it accepted; the totals printed last
\* are the lines of all other blocks. This holds for any list of instructions,
\* any number of workers, and assemblers that refuse, warn, fail or write
\* unreadable messages as they like (run_errors and the main loop, 68-86, 118-231).
THEOREM Refusals == Spec => []RefusalsReported
BY TestedStart, TestedStep, RefusalsThen, PTL DEF Spec
=============================================================================

----------------------------- MODULE WorkerPool -----------------------------
(***************************************************************************)
(* What both testers build on: multiprocessing.Pool used as asm-tester.py  *)
(* and disasm-tester.py use it. The main process submits every block with  *)
(* apply_async while worker processes already take them, oldest first;     *)
(* then it gets the results in the order of submission. An exception of a  *)
(* worker travels with its result: get() raises it, and leaving the with   *)
(* statement terminates the pool, whatever the workers are doing.          *)
(***************************************************************************)
EXTENDS Integers

CONSTANTS
  NumBlocks,  \* how many blocks of work are submitted
  Workers,    \* the processes of the pool
  Results     \* what a block may return, "exception" if it raised one

Blocks == 1..NumBlocks

VARIABLES
  submitted,  \* blocks handed to the pool so far
  task,       \* worker -> the block it works on, 0 if none
  result,     \* block -> what it returned, "none" until then
  collected,  \* results taken by the main process
  aborted     \* get() raised the exception of a worker

vars == <<submitted, task, result, collected, aborted>>

Init ==
  /\ submitted = 0 /\ collected = 0
  /\ task = [w \in Workers |-> 0]
  /\ result = [b \in Blocks |-> "none"]
  /\ aborted = FALSE

Submit ==
  /\ submitted < NumBlocks
  /\ submitted' = submitted + 1
  /\ UNCHANGED <<task, result, collected, aborted>>

Taken(b) == result[b] # "none" \/ \E w \in Workers : task[w] = b

Assign(w, b) ==
  /\ ~aborted /\ task[w] = 0
  /\ task' = [task EXCEPT ![w] = b]
  /\ UNCHANGED <<submitted, result, collected, aborted>>

\* Fault: the last block is never handed out.
TakeAllButLast(w) ==
  \E b \in 1..submitted - 1 :
    /\ ~Taken(b) /\ \A c \in 1..b-1 : Taken(c)
    /\ Assign(w, b)

\* The pool hands out the oldest block nobody has taken.
Take(w) ==
  \E b \in 1..submitted :
    /\ ~Taken(b) /\ \A c \in 1..b-1 : Taken(c)
    /\ Assign(w, b)

\* Fault: the worker keeps its block.
ReturnKeepingTask(w, r) ==
  /\ ~aborted /\ task[w] # 0
  /\ result' = [result EXCEPT ![task[w]] = r]
  /\ UNCHANGED <<submitted, task, collected, aborted>>

Return(w, r) ==
  /\ ~aborted /\ task[w] # 0
  /\ result' = [result EXCEPT ![task[w]] = r]
  /\ task' = [task EXCEPT ![w] = 0]
  /\ UNCHANGED <<submitted, collected, aborted>>

\* r.get() of the next result, once everything is submitted.
Collect ==
  /\ ~aborted /\ submitted = NumBlocks /\ collected < NumBlocks
  /\ result[collected + 1] # "none"
  /\ IF result[collected + 1] = "exception"
     THEN aborted' = TRUE /\ UNCHANGED collected
     ELSE collected' = collected + 1 /\ UNCHANGED aborted
  /\ UNCHANGED <<submitted, task, result>>

Finished == collected = NumBlocks

Next ==
  \/ Submit \/ Collect
  \/ \E w \in Workers : Take(w) \/ \E r \in Results : Return(w, r)

Spec == Init /\ [][Next]_vars

-----------------------------------------------------------------------------
\* Blocks are counted, workers have blocks that were submitted.
TypeOK ==
  /\ submitted \in 0..NumBlocks /\ collected \in 0..submitted
  /\ task \in [Workers -> 0..submitted]
  /\ result \in [Blocks -> Results \cup {"none"}]
  /\ aborted \in BOOLEAN

\* A block is worked on once, by one worker at a time: what a worker has in
\* hand has not been returned, and no other worker has it.
OneWorkerPerBlock ==
  \A v, w \in Workers : task[v] # 0 =>
    /\ result[task[v]] = "none"
    /\ task[v] = task[w] => v = w

\* Results are taken in order and none is skipped: what the main process has
\* collected was returned, and no exception is among it.
CollectedReturned ==
  \A b \in 1..collected : result[b] \notin {"none", "exception"}
=============================================================================

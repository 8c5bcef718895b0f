---------------------------- MODULE DisasmTester ----------------------------
(***************************************************************************)
(* disasm-tester.py: every word of the selected instructions is given to   *)
(* two disassemblers and their outputs compared. Importing the database    *)
(* (InstDb) expands it; the words of an instruction are numbered by its    *)
(* free bits, cut into chunks, and the chunks are blocks for a pool of     *)
(* workers (WorkerPool). The script that holds the database may also be    *)
(* run on its own, to look for overlaps: program says which of the two     *)
(* this is.                                                                *)
(*                                                                         *)
(* The disassemblers are external: each may fail on a block, and they      *)
(* disagree on the words of faulty, any set of Suspects.                   *)
(***************************************************************************)
EXTENDS InstDb

CONSTANTS
  Selected,   \* the names the regular expression matches
  ChunkSize,  \* most words in a block
  Workers,    \* the processes of the pool
  Suspects,   \* words the disassemblers may disagree on
  FieldOrder  \* the names of fields, sorted

ASSUME ChunkAssumption == ChunkSize \in Nat \ {0}

-----------------------------------------------------------------------------
(* The list of work.                                                        *)

\* Fields that are free, sorted by name, as the numbering of words takes them.
FreeFields(e) == SelectSeq(FieldOrder, LAMBDA f : f \in DOMAIN e.fields \ e.filled)

NumBits(e) == MapThenSumSet(LAMBDA f : e.fields[f].size, DOMAIN e.fields \ e.filled)

\* Fault: what is left after the full chunks is dropped.
FullChunks(num) ==
  [n \in 1..num \div ChunkSize |-> [start |-> (n - 1) * ChunkSize, stop |-> n * ChunkSize]]

\* itchunk: the half-open intervals the numbers 0..num-1 are cut into.
Chunks(num) ==
  [n \in 1..(num + ChunkSize - 1) \div ChunkSize |->
     [start |-> (n - 1) * ChunkSize,
      stop  |-> IF num < n * ChunkSize THEN num ELSE n * ChunkSize]]

\* The blocks of an instruction, and those of all that are selected.
BlocksOf(e) ==
  LET chunks == Chunks(2^NumBits(e))
  IN [n \in DOMAIN chunks |-> [inst |-> e, start |-> chunks[n].start, stop |-> chunks[n].stop]]

Work ==
  LET add(list, e) == IF e.name \in Selected THEN list \o BlocksOf(e) ELSE list
  IN FoldLeft(add, <<>>, Insts)

Blocks == 1..Len(Work)

\* The word with number n: its bits are dealt to the fields in order.
Word(e, n) ==
  LET fds       == FreeFields(e)
      offset(j) == MapThenSumSet(LAMBDA i : e.fields[fds[i]].size, 1..j-1)
  IN e.base \cup UNION {At(e.fields[fds[j]].lsb, Ones(n \div 2^offset(j), e.fields[fds[j]].size)) :
                          j \in DOMAIN fds}

\* The words of every block's file.
WordsOf ==
  LET words == [block \in Range(Work) |->
                  {Word(block.inst, n) : n \in block.start..block.stop - 1}]
  IN [b \in Blocks |-> words[Work[b]]]

-----------------------------------------------------------------------------
VARIABLES
  program,    \* "instparse" or "disasm-tester"
  faulty,     \* words the two disassemblers print differently
  submitted, task, result, collected, aborted,   \* see WorkerPool
  step,       \* worker -> where it is in process_block
  files,      \* blocks whose file is on disk
  saw,        \* history: block -> did the disassemblers succeed, <<>> if not run
  printed     \* blocks the main process printed as failures

Pool == INSTANCE WorkerPool WITH NumBlocks <- Len(Work),
                                 Results   <- {"same", "differs", "exception"}

pool == <<submitted, task, result, collected, aborted>>
vars == <<dbvars, program, faulty, pool, step, files, saw, printed>>

Init ==
  /\ DbInit /\ program \in {"instparse", "disasm-tester"}
  /\ faulty = {} /\ Pool!Init
  /\ step = [w \in Workers |-> "idle"]
  /\ files = {} /\ printed = {}
  /\ saw = [b \in Blocks |-> <<>>]

Testing == program = "disasm-tester" /\ Loaded
Alive   == Testing /\ ~aborted

\* Both programs load the database; the tester then meets its disassemblers.
Import ==
  /\ Load
  /\ IF program = "disasm-tester" /\ loaded' = Len(Insts)
     THEN \E F \in SUBSET Suspects : faulty' = F ELSE UNCHANGED faulty
  /\ UNCHANGED <<program, pool, step, files, saw, printed>>

Validate ==
  /\ program = "instparse" /\ Check
  /\ UNCHANGED <<program, faulty, pool, step, files, saw, printed>>

Submit ==
  /\ Testing /\ Pool!Submit
  /\ UNCHANGED <<dbvars, program, faulty, step, files, saw, printed>>

Take(w) ==
  /\ Testing /\ step[w] = "idle" /\ Pool!Take(w)
  /\ step' = [step EXCEPT ![w] = "write"]
  /\ UNCHANGED <<dbvars, program, faulty, files, saw, printed>>

Return(w, r) == Pool!Return(w, r) /\ step' = [step EXCEPT ![w] = "idle"]
Go(w, s)     == step' = [step EXCEPT ![w] = s] /\ UNCHANGED pool

\* Whatever a worker does may raise an exception: its file stays if it was
\* opened.
Raise(w) ==
  /\ Alive /\ step[w] # "idle"
  /\ Return(w, "exception")
  /\ files' \in {files, files \cup {task[w]}}
  /\ UNCHANGED <<dbvars, program, faulty, saw, printed>>

WriteWords(w) ==
  /\ Alive /\ step[w] = "write"
  /\ files' = files \cup {task[w]}
  /\ Go(w, "run")
  /\ UNCHANGED <<dbvars, program, faulty, saw, printed>>

\* Two disassemblers that succeed print the same for a block.
Agree(b) == faulty \cap WordsOf[b] = {}

\* Fault: one disassembler that succeeds is enough.
RunEither(w) ==
  /\ Alive /\ step[w] = "run"
  /\ \E ok \in BOOLEAN \X BOOLEAN :
       /\ saw' = [saw EXCEPT ![task[w]] = ok]
       /\ IF (ok[1] \/ ok[2]) /\ Agree(task[w])
          THEN Go(w, "unlink") ELSE Return(w, "differs")
  /\ UNCHANGED <<dbvars, program, faulty, files, printed>>

\* run_sidebyside: both must succeed and print the same; else the block ends
\* with its file kept.
Run(w) ==
  /\ Alive /\ step[w] = "run"
  /\ \E ok \in BOOLEAN \X BOOLEAN :
       /\ saw' = [saw EXCEPT ![task[w]] = ok]
       /\ IF ok[1] /\ ok[2] /\ Agree(task[w])
          THEN Go(w, "unlink") ELSE Return(w, "differs")
  /\ UNCHANGED <<dbvars, program, faulty, files, printed>>

Unlink(w) ==
  /\ Alive /\ step[w] = "unlink"
  /\ files' = files \ {task[w]}
  /\ Return(w, "same")
  /\ UNCHANGED <<dbvars, program, faulty, saw, printed>>

\* v = r.get(); what is not None is printed.
Collect ==
  /\ Testing /\ Pool!Collect
  /\ printed' = printed \cup (IF result[collected + 1] = "differs" THEN {collected + 1} ELSE {})
  /\ UNCHANGED <<dbvars, program, faulty, step, files, saw>>

Process(w) == Take(w) \/ WriteWords(w) \/ Run(w) \/ Unlink(w)

Finished == Testing /\ Pool!Finished
Stopped  == crashed \/ aborted \/ Finished \/ (program = "instparse" /\ Loaded /\ checked = Len(Insts))
End      == Stopped /\ UNCHANGED vars

Next ==
  \/ Import \/ Validate
  \/ Submit \/ Collect
  \/ \E w \in Workers : Process(w) \/ Raise(w)
  \/ End

Spec == Init /\ [][Next]_vars

\* The scheduler runs every process; nothing makes a worker raise exceptions.
FairSpec ==
  Spec /\ WF_vars(Import) /\ WF_vars(Validate) /\ WF_vars(Submit) /\ WF_vars(Collect)
       /\ \A w \in Workers : WF_vars(Process(w))

-----------------------------------------------------------------------------
TypeOK ==
  /\ DbTypeOK /\ Pool!TypeOK
  /\ program \in {"instparse", "disasm-tester"} /\ faulty \subseteq Suspects
  /\ \A w \in Workers : step[w] \in {"idle", "write", "run", "unlink"}
  /\ \A w \in Workers : step[w] = "idle" <=> task[w] = 0
  /\ files \subseteq Blocks /\ printed \subseteq 1..collected

(***************************************************************************)
(* When the report is complete, every word of the selected instructions    *)
(* was compared, in one block only, and no other word was.                 *)
(***************************************************************************)
LegalWords ==
  UNION {{e.base \cup free : free \in SUBSET (Bits \ e.mask)} :
           e \in {x \in Range(Insts) : x.name \in Selected}}

Compared == {b \in Blocks : saw[b] # <<>>}

EveryWordOnce ==
  Finished =>
    /\ UNION {WordsOf[b] : b \in Compared} = LegalWords
    /\ MapThenSumSet(LAMBDA b : Work[b].stop - Work[b].start, Compared) = Cardinality(LegalWords)

(***************************************************************************)
(* The report and the disk tell the same story: the blocks printed are     *)
(* those with a word the disassemblers disagree on, or that one of them    *)
(* failed on, and just their files are kept, so every such word can be     *)
(* looked up.                                                              *)
(***************************************************************************)
ReportExact ==
  Finished =>
    /\ printed = {b \in Blocks : \/ saw[b] # <<TRUE, TRUE>>
                                 \/ ~Agree(b)}
    /\ files = printed
    /\ faulty \cap LegalWords \subseteq UNION {WordsOf[b] : b \in printed}

\* Either program comes to its end.
Ends == <>Stopped
=============================================================================

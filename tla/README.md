# The VFPU documentation and its test suite, in TLA+

This repository documents the vector unit (VFPU) of the Sony PSP: an
instruction database in YAML, a documentation generator, checkers for
assemblers and disassemblers, and test programs that run on the console and
compare it with the database. The TLA+ modules beside this file model the
instructions as the database describes them and the programs that check them.
They answer questions a run on a console or a unit test hardly reaches: does
the declared overlap class of an instruction suffice for its data flow, does a
test harness ever blame the hardware for a mistake of its own (or miss a
mistake of the hardware), what happens when an interrupt, another thread or a
failing tool comes between two steps.

Contents: [system](#the-system), [modules](#the-modules),
[runs](#the-runs), [bounds](#bounds), [fairness](#fairness),
[mutants](#mutants), [proofs](#proofs), [findings](#findings),
[not modelled](#what-is-not-modelled), [plan](#plan).

## The system

| Part | Source | State it keeps | Operations | What is hard |
| --- | --- | --- | --- | --- |
| Register addressing | `reginfo.py` | none | numbers to element lists, overlap predicates | rows, columns and transposed matrices name the same elements in different orders |
| Instruction database | `inst-vfpu-desc.yaml`, `instparse.py` | parsed tables, base word, mask and fields of an encoding | expand flavors, fill fields, validate | instructions that share words, a size encoded from two bases, an overlap test that misses pairs |
| Vector instructions | the database, `docs/introduction.md` | register file, prefixes, condition code | issue, one or more passes | an instruction made in passes overwrites what a later pass reads |
| Control registers | the database, `vfpu-cc.c`, `test-conditional.c` | three prefixes, condition code | `vpfx*`, `vcmp`, `mtvc`, `mfvc`, branches | prefixes wait for the next vector instruction; `mfvc` has no interlock |
| Unaligned accesses | the database, `memops.c`, `memops-helper.S` | memory, quad registers, masks of corrupted registers | `lv.q sv.q lvl lvr svl svr`, pairs, repeated loads | a quad is moved in two steps; the PSP-1000 corrupts an FPU register, by chance with the value expected there |
| FPU hazards, delay slots | `fp-unit.c`, `undefined-behaviour.c` | results of every test, recorded path | writer and reader at some distance, jump in a delay slot | an early reader is right by luck; an interrupt changes the timing |
| Manual test program | `manual/main.c` | two shared arrays of errors, their counts | thirteen checks in order, report | every check writes at an offset the earlier ones returned |
| Register compatibility tests | `gen-regtests.py`, `regcompat/main.c` | JIT buffer, patched words, error counts | reference run, sweep over registers, report | stale code in the cache, stubs sharing a buffer, four nested loops with `continue` |
| Functional tests | `gen-tests.py`, `prefix-func.h`, `test-utils.c`, `functional/main.c` | registers, error list, prefix matrix | rounds per prefix and immediate, comparison, report | a round inherits registers and prefixes of the one before; tolerant comparison |
| Exception capture | `exception-module/`, `mips-allegrex.c`, `memops.c`, `manual/main.c` | control block shared with a kernel handler | load, fill, arm, trap, disarm, validate | handler of the whole system, other threads, module that fails to start |
| Assembler tester | `asm-tester.py` | queue of blocks, temporary files, results | submit, assemble twice, compare, refuse, collect | worker processes, tools that fail, files left or removed |
| Disassembler tester | `disasm-tester.py` | list of chunks, files of words, results | enumerate, disassemble twice, compare, collect | chunk borders, tools that fail, files left or removed |
| Documentation generator, helpers | `gen-docs.py`, `util.py` | none | templates, text rewriting | layout only |
| Measurements | `accuracy/`, `performance/`, `gen-perf-tests.py` | counters | time and error of instructions | no decision is taken on the results |

How they interact. Everything reads the database through `instparse.py`. The
generators emit C programs (the `autogen-*` files) that are linked with
`test-utils.c` and run on the console. `asm-tester.py` and `gen-regtests.py`
use the register tables of `reginfo.py`; both judge overlaps, each with its own
predicate. The manual tests share one kernel module and its control block by
pointer; they run one after the other in one thread, beside the other threads
and the interrupts of the console. The assembler tester's workers share the
file system with the main process and return results through the pool; those of
the disassembler tester do the same. That tester imports `instparse.py`, so it
stops if the database does; `validate()` runs only when `instparse.py` is a
program of its own.

What makes each part correct: register lists are those of the hardware and the
two notions of overlap agree; an accepted instruction computes its pseudo-code;
the harnesses report exactly what the hardware does wrong; a trap is captured
if and only if a test announced it; no word belongs to two instructions, and
each is compared in one block; a failing block leaves its evidence and a run
ends; a pair of partial accesses is one move of a quad; what the manual test
program prints is what its checks found.

## The modules

| Module | Models | State and actions |
| --- | --- | --- |
| `VfpuRegs` | `reginfo.py`, overlap predicates of the generated tests | operators; element lists as closed forms over the number's bits |
| `VfpuInst` | one decoded instruction; `check_overlap`; pseudo-code and pass execution | operators over instruction records |
| `VfpuIsa` | the vector instructions of the database by data flow, class and passes, and the erratum of `vhtfm2.p` and `vhtfm3.t` | operators; instructions with one data flow share a shape |
| `VfpuAtomic` | what the pseudo-code promises | `file`; one step per instruction |
| `VfpuPipeline` | the VFPU executing an instruction pass by pass | `file inst todo issued`; `Issue`, `Pass` |
| `VfpuPipelineProofs` | theorems about `VfpuPipeline` | |
| `RegtestHarness` | `run_reg_tests` as `gen-regtests.py` generates it, and the report | JIT words, patched numbers, loop counters, error counts; one action per stage of the loop nest |
| `RegtestHarnessProofs` | theorems about `RegtestHarness`, the registers and the overlap predicates | |
| `VfpuControl` | prefixes, condition code, `mfvc` hazard | operators on a control state |
| `ControlCode`, `ControlTests` | `validate_ccregs`, `check_conditionals`, interrupts | the code as a sequence; `pc ctl regs out masked errs`; one action per kind of instruction |
| `LoadBug` | `check_unaligned_vfpu_load_bug` and its assembly | FPU registers, what was moved to them last, masks; `Fill Interrupt Load Save Accumulate Compare` |
| `FpuCode`, `FpuHazards` | `check_allegrex_fpu` | the blocks as a sequence; what was written last and before, results; one action per kind of element |
| `DelaySlot` | `check_delay_slot_ub` and the pipeline its comment describes | fetched address, pending transfers, recorded path; `Start Cycle Interrupt Judge` |
| `ManualSuite` | `main` of the manual tests, composing the four above | `check check_info err_info checkcnt nerrs`; the running check's step, `Return`, `Report` |
| `ManualSuiteProofs` | theorems about `ManualSuite`, `ControlTests`, `LoadBug` and `DelaySlot` | |
| `FuncHarness` | the generated `run_<inst>` functions, `prefix-func.h`, `fpdif`, the matrix | loop counters, registers, `errlist`, `pfxinfo`; `Prologue SetPrefix Instruction Compare` |
| `FuncHarnessProofs` | theorems about `FuncHarness` | |
| `ExcCapture` | the handler, its loading and the three checking macros | the control block, stages of a test; stray exceptions of other threads |
| `ExcCaptureProofs` | theorems about `ExcCapture` | |
| `QuadMem` | what `ulv.q` and `usv.q` promise | memory, quad registers; `Load Store Compute` |
| `UnalignedMem` | `lv.q sv.q`, the four partial accesses, the pairs | the same and the pending half of a pair |
| `UnalignedMemProofs` | theorems about `UnalignedMem` | |
| `WorkerPool` | `multiprocessing.Pool` as both testers use it | blocks submitted, taken, returned, collected; `Submit Take Return Collect` |
| `AsmTester` | `asm-tester.py` on the pool | steps of the workers, files, report; `Submit Take Generate Assemble Dump Compare Refuse Collect` |
| `AsmTesterProofs` | theorems about `AsmTester` and its pool | |
| `InstDb` | `instparse.py`: layouts, `fill`, flavors, `validate` | instructions expanded and compared so far; `Load Check` |
| `InstTable` | the encodings and the 113 instructions of the database | constants of `InstDb` |
| `DisasmTester` | `disasm-tester.py` on the pool and the database | steps of the workers, files, report; `Import Validate Submit Take WriteWords Run Unlink Raise Collect` |
| `DisasmTesterProofs` | theorems about `DisasmTester` and pairs of encodings | |

`MC*` modules give constants their values for TLC. `VfpuPipeline`,
`RegtestHarness` and `AsmTester` share `VfpuInst`; `ControlTests` and
`FuncHarness` share `VfpuControl`; `AsmTester` and `DisasmTester` share
`WorkerPool`; `ManualSuite` runs `ControlTests`, `LoadBug`, `FpuHazards` and
`DelaySlot` one after the other. `VfpuPipeline` refines `VfpuAtomic`,
`UnalignedMem` refines `QuadMem`.

Abstractions that hold throughout:

- *Values are terms.* Where only data flow matters (pipeline, register
  compatibility) the value of a lane is the operation applied to the values it
  read, so two results are equal only if every real operation makes them so.
- *Passes.* The database gives latency and throughput, not the order in which
  the hardware produces lanes; `PassCount` reads the number of passes from the
  performance class, `PassOf` (external) assumes they go through the lanes in
  order. The properties are those of this order.
- *Numbers in `FuncHarness`* are fixed point in units of 1/8: all inputs of
  `gen_input_f32` and all results used are exact in it, but 1/3 and 1/6, which
  the tested prefix words do not select. Infinity is a number beyond all
  results, so that it orders, negates and saturates as it should, and NaN one
  that only the comparisons meet, which treat it apart. Zero has no sign (`-0`
  equals `0` for `fpdif`; the infinities it divides into are not told apart by
  the relative error, which accepts them all).
- *Time in `VfpuControl`* is counted in instructions: `mfvc` sees a condition
  code as soon as any instruction, or an interrupt, came after the `vcmp`.
- *Addresses in `UnalignedMem`* are bytes, memory is words; a register holds
  any value before a test.
- *Texts* (names, log lines, generated assembly) are left out. The assembler
  tester's lines are numbers of legal and illegal ones.
- *`rmap`* is taken in ascending order; the generated tables list the same
  numbers in the order of `reginfo`, on which no property depends.
- In `ControlTests` the RCX registers of the random generator are a counter of
  draws.
- *Words in `InstDb`* are sets of bit positions, so the bit operations of the
  code are those of sets, on 32 bits.
- *Disassemblers* are a set of words they disagree on, and may each fail on any
  block; an exception of a worker may come at any of its steps.
- *Consoles in `ManualSuite`* are as documented or deviate in one respect: what
  a load corrupts, how many cycles a pair of FPU instructions needs, when a
  jump takes effect, or a deviation only an unmodelled check can see. In
  `DelaySlot` an interrupt loses the jump whose delay slot is being executed
  when that slot holds another; the pipeline is the one the comment at the head
  of `undefined-behaviour.c` gives as an explanation, not known hardware.
- *Interrupts in `ManualSuite`* come where the code leaves them enabled, and in
  `FpuHazards` only between a writer and its reader, in `LoadBug` only before a
  load: elsewhere they change nothing that is looked at.

## The runs

Passing runs:

| Run | Question | Shows |
| --- | --- | --- |
| `Pipeline` | do programs of two instructions, and every shape of the table alone, compute their pseudo-code when made pass by pass? | yes, for legal registers, where the hardware writes the registers the instruction names (`PendingReadsIntact`, `PartialResult`, refinement of `VfpuAtomic`): the declared overlap classes are strict enough. `vhtfm2.p` and `vhtfm3.t` with `rd` from 64 up do not compute their pseudo-code; that is a documented erratum (`Written`), and they are left out |
| `RegtestHarness` | does the register compatibility program find exactly the illegal overlaps? | no error is its own (`NoFalseAlarm`, `OnlyIllegalFails`), the verdict is the declared class (`VerdictConfirmsClass`), the sweep skips no legal choice (`SweepComplete`), its overlap predicate agrees with that of the assembler tester (`OverlapNotionsAgree`), counts and kept pairs add up (`ErrorsAccounted`) |
| `ManualSuite` | what does the manual test program report of a console that is right, or deviates in one respect, when interrupts come? | control registers: only the hazard check of `validate_ccregs` fails, exactly when an interrupt came there, and no `vcmp` works on another test's values (`ControlVerdict`); load bug: every deviation but one blind spot is reported and nothing else (`LoadBugVerdict`); FPU: exactly the deviating pairs, if the inputs vary (`FpuVerdict`); delay slots: exactly the programs whose outcome depends on the latencies (`DelaySlotVerdict`); every error is printed once (`ReportsKept`) |
| `FuncHarness` | are the error list and the prefix matrix the hardware's? | yes, on perfect, prefix-ignoring and miscomputing hardware: reported exactly once with the first failing input (`VerdictExact`), matrix exact (`PrefixMatrixExact`) and, on hardware that computes right, the truth about ignored prefixes (`MatrixShowsHardware`). What escapes is written into the two: errors beside a NaN, infinities of the hardware under a relative accuracy, sign prefixes of a logarithm |
| `ExcCapture` | are trap tests sound beside threads that fault at any moment? | a verdict is right unless an exception of another thread was captured during its test, and then wrong in one direction only (`VerdictSound`: an instruction that did not trap may look as if it had); such an exception is captured only while the block announces address 0 (`CapturedOnlyAtZero`); a trap is fatal only without handler, the program comes to its report |
| `UnalignedMem` | do pairs of partial accesses move a quad? | yes at every place of a block, aligned to words or not (`HalfMoved`, refinement of `QuadMem`); each access moves exactly the words `memops.c` lists (`AccessesAsListed`) |
| `AsmTester` | what does the assembler tester do with assemblers that fail, refuse lines or accept them, warn, explain, or write messages that cannot be decoded? | a failure on legal lines is reported, and so is an accepted illegal line unless exactly as many further messages make up for the lines accepted (the blind spot that `RefusalsReported` names); evidence kept, temporary files removed, the run ends |
| `DisasmTester` | does the disassembler tester compare every word of an instruction, and does the database give each word to one? | no two of the 269 expanded instructions share a word (`EncodingsDisjoint`); each word is compared in one block (`EveryWordOnce`); the report and the kept files are the failing blocks (`ReportExact`); both programs end |

Runs that show a disagreement (see [findings](#findings)): `RoundingTolerance`,
`ExcStartIgnored`, `StrayAtZero`, `AsmSelfCompare`.

## Bounds

- `Pipeline`: one matrix of 16 elements; either two instructions, one of each
  overlap class, with registers near each other so that they meet, or one
  instruction of every shape of the table at a small flavor. A hazard needs one
  instruction; the second starts from what the first wrote. Registers of
  different matrices never meet. The destination is the first register of
  either half: what a legal instruction can tell apart is which elements its
  registers share, so the other columns, and the rows, are renamings. That is
  not so for `vhtfm2.p` and `vhtfm3.t`: with `rd` from 64 up they write other
  elements than `rd` names (`Written`), and `Pipeline` has only those of them
  that do not. The theorems have no bound, and assume the same (`NoErrata`).
- `RegtestHarness`: three matrices (the reference run puts its operands into
  three), seven instructions chosen so that a longer and a shorter stub follow
  each other and every class and loop depth occurs; `JitSlots` holds the
  longest of them; four failing pairs are kept, fewer than some tests produce.
- `ManualSuite`: 42 consoles; the code of the control checks, the delay slot
  programs and the FPU blocks as they are, with `NumTests` 3 instead of 256
  (enough for a pair of tests that differ and one that does not) and the inputs
  that vary, vary once, and do not vary. `LoadBug`: three FPU and six quad
  registers (own, next and the one after differ), `Repeats` 2 and
  `MaxInterrupts` 1 in each check, so that one repetition is undisturbed;
  `MaxErrs` 4, which a wrong console exceeds.
- `FuncHarness`: seven instructions (two sources, no source, compare with two
  immediates, conditional move, a single element, a relative and an absolute
  accuracy), eight inputs per operand; hardware just inside and just outside of
  the accuracy, and with an infinity or NaN in either place.
  With four, the inputs of `rs` and `rt` are so alike that `vcmp` does not show
  an ignored absolute value. 8 mantissa bits are enough for all numbers used.
- `ExcCapture`: a HI/LO test (which leaves the block armed), a second and an
  ordinary one; two stray exceptions at address 0, which the block announces
  from the store of `armed` until the address of the instruction is stored, or
  at another one that is no test's. `StrayAtZero` needs one of them.
- `UnalignedMem`: two blocks of four words, values 0 and 1, byte offsets 0 and
  3; a quad starts at every place of the first block. The theorems hold for
  every size.
- `AsmTester`: six blocks of up to two lines, two workers, two
  possible outputs, and up to one message more than there are lines
  (`MaxExtra`): one too many, and one to make up for an accepted line, occur.
  `AsmSelfCompare` needs no messages.
- `DisasmTester`: the whole table; of its instructions `vcst.s` (4096 words,
  two full chunks of 1500 and a rest) and `vsync` (a single word), two workers,
  disassemblers that disagree on any of the first word of the second chunk and
  the last word.

`CHECK_DEADLOCK FALSE` stands where the program really ends (its report, or
the default exception handler). `AsmTester` and `DisasmTester`
have an `End` action and `UnalignedMem` never ends, so deadlock is checked
there: no worker and no collection waits for ever.

## Fairness

- `ExcCapture!FairSpec`: weak fairness of the test program's thread. It never
  waits for anything, so a scheduler that runs it at all runs its next step;
  the other threads get none.
- `AsmTester!FairSpec`: weak fairness of submission, collection and of each
  worker. Each is a process of its own, and an assembler is assumed to return
  (the code has no timeout: one that hangs hangs the run, too).
- `DisasmTester!FairSpec`: the same, and weak fairness of the import and of
  `validate()`, which are one sequential program. Nothing makes a worker raise
  an exception, so `Raise` has no fairness.

All other properties are safety properties and need none.

## Mutants

Every property of a passing run has a mutant in `PROJECT.json`: a definition
of the model replaced by one with a plausible fault (a stub not synchronised
with the instruction cache, a reset left out, an overlap test by set, a branch
the wrong way, an offset one word short), under which TLC finds the property
violated. The faulty definitions stand just before the ones they replace, under
a comment that begins with *Fault* or *Mutant*; no specification uses them.

## Proofs

`VfpuPipelineProofs`, for any register file, instruction table and program:

- *Assumptions*: the named ones of `VfpuInst` and `VfpuPipeline`. The important
  one is `InstsAssumption`: instructions are `WellFormed`, that is, declare a
  class that fits their data flow (`"any"` only when made in one pass,
  `"partial-overlap"` only when every lane reads its own lane of operands as
  long as the result). That the instructions of the table are so is what
  the run `Pipeline` evaluates for its instances.
  `NoErrata` is a hypothesis of all the theorems but `TypeCorrect`: no
  instruction of the program is a `vhtfm2.p` or `vhtfm3.t` whose result lands
  elsewhere. `docs/bugs.md` says of those that they compute something else.
- *Invariant*: `Inv` is `TypeOK`, that the instruction in flight is legal, and
  `PartialResult`. Neither `PendingReadsIntact` nor the refinement is inductive:
  both need to know what the file is between passes (the lanes made so far,
  over the file at issue), and that no lane made so far is read by a lane to
  come (`LegalReads`), which follows from legality by cases on the class.
- *Results*: `TypeCorrect`, `PartialResults`, `NoRegisterHazard` and
  `PipelineImplementsPseudocode` (issue and all passes but the last are
  stutters, the last is the step of `VfpuAtomic`).

`UnalignedMemProofs`, for memory of every size, any registers and values:

- *Assumptions*: the size is a natural number, there is a register.
- *Invariant*: `TypeOK` and `HalfMoved`. It rests on `PairParts`: for every
  address, the part of the quad that `lvl`/`svl` at offset 12 moves starts
  where the part of `lvr`/`svr` ends, or is all of it when the address is
  aligned.
- *Results*: `TypeCorrect`, `NoTornQuad` and `PairsImplementQuads`. The
  refinement mapping predicts: while a half is pending, the abstract memory or
  register is the one after it, so the move happens at the first instruction.

`AsmTesterProofs`, for any list of instructions and lines, any workers and
whatever the assemblers do:

- *Assumptions*: `InstsAssumption` and `MaxExtraAssumption` of `AsmTester`; the
  number of further messages is arbitrary.
- *Pool*: `PoolInv` is the conjunction of `WorkerPool`'s three invariants; what
  the pool hands out has neither result nor worker, so they carry each other.
  Every step of the tester is one of the pool or leaves it alone (`PoolKeeps`).
  `DisasmTesterProofs` states the same of its own instance.
- *Invariant*: `AsmInv`, the pool's and what is on disk: `FilesInv` says it for
  each step a worker may be at, for each result, and that a block nobody has
  taken has no files. `GoKeeps` and `ReturnKeeps` do the work once; each action then only shows
  that it leaves other blocks' files alone and its own as the next step, or the
  result, wants them.
- *Totals*: `RefusalsReported` says that the totals printed are sums over the
  blocks collected. The library's induction theorems take an operator, which no
  prover here can instantiate; stated of a set (`NatInd`, `SetInd`) they can be
  used, and the fold of the community modules has the one step the sum needs.
- *Results*: `TypeCorrect`, `Evidence` and `Refusals`. The proof
  of the last found a flaw of the model: two arms of a `CASE` in `Collect`
  overlapped, of which TLC takes the first and the logic either.

`RegtestHarnessProofs`, for any table of testable instructions, any number of
matrices from three up, any JIT buffer the stubs fit in and any lane functions:

- *Assumption*: `TestsAssumption`. `Testable` is what the generator asserts of
  an instruction (operands `rs`, `rt`, `rd`, a size the tables have), that its
  stub fits, that its declared class says something of its passes and reads,
  as `WellFormed` does for the pipeline, and that it is not `vhtfm2.p` or
  `vhtfm3.t`, whose tests fail on hardware of any model (`reg_compat.txt`, lines
  197-198); the run evaluates it for its table.
- *Argument*. `LegalStub` is the heart: a complete stub whose registers are
  legal for the class leaves in the output array what the instruction computes
  of the round's inputs, whatever the file and the array held before. It needs
  that loads of inputs that do not overlap put every input in place
  (`LoadsLoad`), that the passes of a legal instruction compute its pseudo-code
  (`PassesExecute`, from `VfpuPipelineProofs`) and that the stores read distinct
  elements (`Registers`, from the closed forms of `VfpuRegs`).
- *Invariant*: `HarnessInv`. What each theorem states is not inductive, because
  a stub is made of words patched in different iterations: `Settled` says that
  the loops around the current one have their number in the instruction word
  and their loads in the buffer, `TestInv` that the return written once per
  instruction is behind the stub, `LoopInv` that the inputs the outer loops
  chose do not overlap and that the reference is what the instruction computes.
- *Overlaps*: every register is a box of columns and rows read along its
  direction (`HasBox`), from which the same mask and direction bit is the same
  list of elements, and conversely (`CompatibleIsSame`), for registers of any
  two sizes.
- *Results*: `TypeCorrect`, `NeverSpoils`, `AccountedAlways`, `OnlyIllegal`,
  `NotionsAgree` and `ClassesHonoured`, the half of `VerdictConfirmsClass` that
  says the report never contradicts a class. The other half, that a declared
  restriction shows in the report, is about the lane functions (a constant
  function never fails) and stays with TLC, whose lanes keep apart what they
  read.
- *Sweep*: `SweepsAll` (`SweepComplete`). `SweptAt` is the set of choices the
  nest has gone through: those in front of the place the loops stand at, in the
  order of the nest. Entering a loop or leaving it does not change that set
  (`SweptInward`, `SweptOutward`), a try adds the one choice the loops stand at
  (`SweptOn`, `SweptNew`), and a `continue` passes only choices whose inputs
  overlap (`CollidingInputs`). `SweepInv` says that the count is all choices for
  each round before this one, and for this round as many as that set has. It
  rests on the tables having each register number once (`NumbersOnce`).

`ExcCaptureProofs`, for any sequence of tests, any other threads and addresses:

- *Assumptions*: those of `ExcCapture` (a test's address is not 0 and not one
  at which another thread faults); other threads may fault at address 0.
- *Invariant*: `BlockInv` says what the program has stored in the block at each
  stage of a test. `WindowInv` adds that the address announced is 0 up to its
  store and after it, while the block is armed, none at which another thread
  faults. `CountInv` says how often the handler has counted at each stage, which
  depends on whether a stray was captured during this test (`spoiled`).
- *Results*: `TypeCorrect`, `TrapsCaptured`, `VerdictsRight`, `StraysForwarded`.
  None of them excludes an address: what a stray exception at 0 can do is part
  of what `VerdictSound` and `CapturedOnlyAtZero` say.

`DisasmTesterProofs`, for any table and selection of instructions, any workers
and whatever the disassemblers do:

- *Hypotheses*: the table and the list of work are finite lists (`Lists`: the
  length of the latter is a sum of powers of two, which the provers know nothing
  of); for `TypeCorrect` that the fields of each instruction are free of its
  fixed bits (`FieldsFree`), for `ReportComplete` that every legal word is in
  some block. The run evaluates all three.
- *Invariant*: the pool's, and `SeenInv`: for each step of a worker and each
  result, what was seen of the block and whether its file is on disk.
- *Results*: `TypeCorrect`, `ReportComplete`, `NoBlockSkipped` (what remains of
  `EveryWordOnce` is about the list of work alone); `ChunksPartition` (itchunk loses
  and repeats no number), `OverlapIsSharedWord` and `ValidateSound` about pairs
  of encodings.

`FuncHarnessProofs`, for any table of instructions of the kinds modelled, any
immediates and accuracies, any bounds on the inputs and any hardware:

- *Assumptions*: those of `FuncHarness`. Six bits of mantissa at least, because
  the inputs and constants have exponents up to six; the lane of a faulty
  result is off by a number. The hardware may ignore any prefixes and be wrong
  on any inputs.
- *Rounds*. The list of prefixes of an instruction ends with the rounds without
  prefix and has them nowhere else (`PrefixesAre`, `Rounds`), and each word of it
  selects lanes the instruction has, or constants (`WordSelects`). So what the
  instruction sees, and the emulation computes, depends on no lane that the
  prologue has not loaded (`SeenSame`, `PcodeSame`), and no operand leaves the
  range in which the emulation is defined (`SourceSmall`, `PcodeInt`).
- *Invariant*, first half: `RoundInv`. The properties compare a round with what
  it would be `Alone`, on a cleared machine. That is inductive once it is known
  at every step which prefixes are pending (all defaults but in front of the
  instruction), that the operands are loaded and, at the comparison, that the
  result is the one of `Alone`.
- *Second half*: `TallyInv`, what is recorded when some rounds are over. Of an
  instruction that is over it is what the properties say (`PastInv`); of the
  current one, that no round without prefix has differed yet and that the bits
  set are those of the rounds before this one (`CurrentInv`). Since the rounds
  without prefix come last, the instruction is left with every bit of the input
  that failed already recorded (`BreakTally`), which is what `Tried` says.
- *Comparison*: `MismatchIs` shows the three tolerances of the code to be the
  accuracies they stand for (`RelativeIs` about the division).
- *Results*: `TypeCorrect`, `VerdictIsExact`, `PrefixMatrixIsExact`, and
  `NothingIsMadeUp`: hardware that computes right is never reported, and a mark
  of the matrix names a prefix that it ignores.

For these proofs the model's word of a condition code is the sum of its six
bits (`Word`) where it was a fold over them.

`ManualSuiteProofs`, for any consoles, inputs and number of interrupts:

- *Assumptions*: the named ones of `ManualSuite`; `ConsolesAssumption` says that
  the load bug shows in one of the ways `LoadBug` tells apart and that a transfer
  takes two cycles at least, or it would have no delay slot, and
  `ConstantsAssumption` that the mark of an unknown value is none of the values
  computed. `LoadBugFound` also assumes that the loads are repeated more often
  than they are interrupted (the code repeats them 64 times) and two FPU
  registers (there are 32; with one the next register is the same one).
- *Reports*. `KeptInv` says that what the checks have found is what the used
  entries of the two arrays hold, those of the sanity checks first; that needs
  the second array to be empty as long as the first is filled. `FilledInUse` is
  the step: errors filled in behind the used entries are appended to them.
- *Load bug*. `BugInv`: the masks hold nothing but what a load corrupts, and if
  after k repetitions they lack something of it that can be seen, there were at
  least k interrupts (`Noted`), for an interrupt spoils one repetition at most.
  That alone is not inductive: it is said of the repetition under way, too, for
  the loads made so far and the one between its marks and its masks. With more
  repetitions than interrupts the masks are complete in the end;
  `CorruptionShows` concludes that only a corruption of the register marked last
  leaves no bit (`Unseen`).
- *Delay slots*. A program is followed cycle by cycle for latencies that are not
  known: `Started`, `Racing` and `Recording` are its phases, with any age of the
  transfers in flight, and it ends with `Outcome`, which depends on which of the
  two is later. `PastCycle` and `BothCycle` say what a cycle does with one and
  with two transfers in flight. Interrupts are excluded, not ignored: the
  invariant has them masked while a program runs.
- *Composition*. `SuiteInv` and `BranchInv` say that a check finds its variables
  as they were at the start of `main`, whichever checks ran before it.
- *Control registers*. `ControlInv` says what holds at every place in the code of
  the two checks, whatever interrupts came before: the prefixes set and not yet
  used, the rows that the next `vcmp` compares, the draws, what each slot read
  still holds (`Held`), and the errors, which are those of the comparisons passed.
  Only between a `vcmp` and the next instruction may the condition code that a
  `mfvc` reads depend on interrupts, and at place 47 a `mfvc` reads it there
  (`ConditionInv`). The parts carry each other: the condition code comes from the
  rows, the rows from the prefixes, the reports from the slots. `CodeParts` and
  `Listing` turn the code, a sequence, into facts about its 128 places; then
  there is one lemma for each part (`PrefixesNext`, `ConditionNext`, ...). TLC
  had checked the invariant before it was proved.
- *Results*: `TypesCorrect`, `AllPrinted`, `ControlExact`, `LoadBugFound`,
  `DelaySlotsExact`. `ControlExact` holds for any number of interrupts, where
  the run has one.

For these proofs `DelaySlot` gives a transfer in flight its age, where it had the
cycles left (the same states), and `LoadBug` its three comparisons one by one.

Only model-checked: `FpuVerdict` of `ManualSuite` (an induction over code that
is a function of the number of inputs), the other half of `MatrixShowsHardware`
(that an ignored prefix shows is about the inputs: with four of them it does not,
see [bounds](#bounds)),
`AccessesAsListed` (a comparison with a table), the second half of
`VerdictConfirmsClass`, of `EveryWordOnce` that the list of work has every word
once (sums over it), and `EncodingsDisjoint` (a property of the real table);
liveness throughout; the tables of `VfpuIsa` and
`InstTable`, which are constants and are evaluated.

## Findings

- `RoundingTolerance`: `fpdif` shifts out the zeros that both fractions end in
  before it allows a difference of one, so 1.5 and 1.75 compare equal. The
  comment admits the shift to be a guess; what it costs is that numbers with
  short fractions, most of the test inputs, are hardly compared.
- `ExcStartIgnored`: the result of starting the kernel module is not looked at;
  when it fails the trap tests are run without a handler.
- `StrayAtZero`: `armed` is stored before `expected_epc`, which the clearing
  left at 0. A thread that jumps through a null pointer between the two stores
  is captured, and resumed behind address 0, although the block is there "so
  that we do not capture unexpected exceptions" (`exmod.c` 30-31). The test
  under way then counts one exception too many, or takes the other thread's for
  that of an instruction that did not trap. Storing `armed` last would close the
  window.
- `AsmSelfCompare`: `run_sidebyside` compares the first assembler's output with
  itself.

What a passing run states exactly, because the code does it:

- `validate_ccregs` expects the *old* condition code from a `mfvc` right after a
  `vcmp` with interrupts enabled. An interrupt between the two makes it report a
  fault of hardware that has none (`ControlVerdict`: then, and only then). The
  same sequence in `check_conditionals` disables interrupts and says why.
- `run_errors` compares the number of lines the reference wrote to stderr with
  the number of illegal lines, and does not look at which line a message is
  about. An illegal line that is accepted goes unreported if another one that
  was refused has a second message, or the accepted one a warning
  (`RefusalsReported` excepts just that).

Met on the way, with no run of their own: the assembler under test is never
given an illegal line (`run_errors` runs the reference one); `asm-tester.py`
exits with 0 whatever it found; `vrot` can never get the verdict
`[NO-OVERL]`, since identical registers of different sizes do not exist, and
the list in `docs/introduction.md` 247-262 omits it; `print_pfx_err` in
`functional/main.c` is never set; `_TEST_HILO_BUG` leaves the control block
armed, harmless because the next test clears it first; the `bugs` field of
`vhtfm3` in the database (line 1684) says that with `rd` from 64 up the result
is "rotated left by two position", where `vfpu-bugs.c` (line 136) expects it one
position to the right of the elements `rd` names, three to the left, as
`docs/bugs.md` says, too (read from the top of the row or column the sentence is
right, but then that of `vhtfm2`, "left by one", is not; `Written` follows the
test); the comment at
`vfpu-cc.c` 66 says the prefix registers store 24 bits, its checks 20 and 12;
a `.s` instruction that ignores swizzles is never found out, the word tried
being the identity; `svr.q R001` at `memops.c` 342 stores what the block before
happened to leave in that register. `validate()` compares each word under its
own mask, so it misses overlapping pairs whose masks differ; the table has none
(`EncodingsDisjoint` tests for real overlap).
`fprelerr` divides by the hardware's value and not by the reference, so an
instruction that returns an infinity passes a test of relative accuracy on any
input. The prefix matrix cannot show that `vlog2`, `vsqrt` or `vrsq` ignore a
negation or an absolute value: of `x` and `-x` one gives a NaN, and a NaN passes. `safe_eval` raises an error that
names an undefined `unOps` for a formula with a unary minus; no formula has one.
In `fp-unit.c` the report of a two-cycle `mfc1` hazard needs one-cycle reads
that are right, which a longer hazard excludes, and the comment "bit 24"
stands over the mask of bit 23. The reports of `LoadBug` cannot show, on later
models, a load that corrupts the register marked last (`Unseen`): the
assembly's comment says so of register 31, and the order of the marks moves the
blind spot to the next register.

## What is not modelled

- Results of single operations (rounding, transcendental accuracy, conversions,
  `vsbn`, random numbers): the documentation states them as C fragments, which
  the functional tests execute as they are.
- `run_reg_sanity_tests`: restates the register tables to hardware.
- The matrix operands of functional tests: no prefix is tried on them.
- `ieee754-fun.c`, `vfpu-bugs.c` (but for where it expects the results of
  `vhtfm`, which `VfpuIsa` has from it) and the checks of roundings and conversions
  (`check_f16 check_vidt check_rounding`): straight-line comparisons of single
  results with constants; in `ManualSuite` they are external.
- `instparse.py`: operand and performance tables, pseudo-code, attributes. They
  are data handed on; `safe_eval`'s formulas decide nothing in the programs
  modelled.
- `gen-docs.py`, `util.py`: layout and wording. Measurements: no decisions.
- The generated C files are modelled through their generators. They make up
  nearly all lines of the repository (some 500000, the same dozen statements
  once for each register combination), so the part of the lines the modules
  stand for is small although the programs that wrote them are modelled.

## Plan

Done, in this order, the core first: registers and instructions
(`VfpuRegs VfpuInst VfpuIsa`), pipeline and its proofs, the register
compatibility harness built on both, exception capture, assembler tester,
control registers, functional harness, unaligned accesses with proofs; then the
instruction database and the disassembler tester, the worker pool both testers
share, the load bug, the FPU and delay slot checks, and the manual test program
that runs them.

Then the theorems about the exception capture, the two testers' reports and
the register compatibility harness, with the facts about registers and their
overlaps that it needs, and those about the manual test program: its reports,
the load bug and the delay slots.

Last, those about the functional test harness, its error list and its matrix,
that the register sweep of `RegtestHarness` is complete, and those about the
control registers of the manual test program.

Left is a theorem about its FPU hazards.

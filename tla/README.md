# A verification of mog-jit

mog-jit compiles *Generic Core* bytecode to ARMv6-M machine code on the device
that runs it, one procedure at a time and only when that procedure is called.
The compiled code lives in a small arena that need not hold the whole program:
what does not fit is evicted, what remains slides down, and an evicted
procedure is compiled again when it is next reached. This directory holds TLA+
modules that model that system from its source, the TLC configurations that
check them on small instances, and proofs of the central results for instances
of any size.

Everything that models code is translated from the C++ and the assembly under
`src/src/` and, for the tools that test and measure it, from `src/fuzz/`,
`src/support/` and `src/tools/`; the documents under `src/docs/` are quoted where
they state a promise. `PROJECT.json` maps each definition to the lines it stands for.

1. [The system](#1-the-system)
2. [Inventory](#2-inventory)
3. [Modules and the code they stand for](#3-modules-and-the-code-they-stand-for)
4. [Runs](#4-runs)
5. [Where the code and what is said of it differ](#5-where-the-code-and-what-is-said-of-it-differ)
6. [Fairness](#6-fairness)
7. [Proofs](#7-proofs)
8. [Limits of the models](#8-limits-of-the-models)
9. [What could come next](#9-what-could-come-next)

## 1. The system

```
 host firmware                                    interrupt
     |  Executor::run(program, args)                  |  Executor::cancel(code)
     v                                                v
 frame check -> stack budget -> loadProgram -> entry argument check
                                 (body scan)          |
     +------------------------------------------------+
     v
 enterDispatch (runtime.S): saves the host's registers, arms the sentinel slot
     |
     v           callHelper / returnHelper          translatorTrampoline
 compiled code ----------------------> dispatch table ------------> translateProc
     ^                                   slot[-1]: sentinel             |
     |                                   slot[i]: address, LRU stamp    | one halfword
     |                                                                  v at a time
     |    evict: pick oldest, close the gap, move slots         Assembler -> Runtime
     +--------------------------------- code arena <------------ ::ensureSpace
     |
     v   return, trap, resource error, cancellation
 .Lresume: disarms the sentinel, restores the host's registers -> ProgramResult
```

* **One core, one thread, interrupts.** Nothing runs in parallel. What makes
  the system hard is that its parts move each other's ground: emitting a
  halfword can move the code being emitted; a return can find its caller gone;
  a nested block of the translator can lower the line the arena may grow to;
  and `cancel` may come from an interrupt between any two instructions.
* **Compiled code is position-independent per body** and refers to every other
  procedure by index. A return record is (procedure, offset), never an address.
* **Sizes are not stored.** A body reaches to the next body's start or to the
  arena's cursor, so eviction is right only while bodies lie end to end.
* **Programs are validated elsewhere** (mog-core, not in the repository) and
  bound to that validation by the frame's hash. The code relies on the
  validator for stack balance at the end of a block, an acyclic call graph,
  the call and stack depth in the envelope, and never reading an accumulator
  nobody wrote. The models take those four as given and nothing else.

## 2. Inventory

For each part: the state it keeps, its operations, whom it talks to, what is
hard about it, and what makes it correct.

**Code arena** (`runtime/code_arena.h`) keeps the region, the cursor and the
live stack floor. `commit`, `closeGap`, `ceiling`, `hardFloor`,
`publishStackFloor`/`retractStackFloor`, and the `Excursion` object that
restores both at the end of a run. Shared by `Runtime` (which evicts) and the
translator's stack guards (which move the ceiling). Hard: with `onStack` the
code and the stack grow towards each other in one region. Correct if committed
code stays under every published floor and each run hands the arena back as it
was.

**Dispatch table** (`runtime/dispatch_table.h`) keeps a slot per procedure
(address or trampoline, last-use tick, handle of the bytecode body, static
facts) and the sentinel slot before them. Victim search, neighbour search,
retirement with relocation of every slot above. Hard: the tick wraps; a slot
that is moved by the wrong amount is a jump into the middle of other code.

**Runtime** (`runtime/runtime.{h,cpp}`) owns both for one program.
`ensureSpace` is called for every halfword and may evict one victim; `evict`
compacts; `pushStackFloor`/`popStackFloor` guard the translator's recursion;
`loadProgram` builds the directory.

**Dispatch helpers** (`runtime/runtime.S`, `dispatch_abi.*`) are the only
assembly: entry, call, return with and without reclaiming, trampoline, trap,
extension thunk, the landing, and the abort that puts sp back and jumps there.
Hard: every order of writes matters against an interrupt.

**Executor** (`runtime/executor.{h,cpp}`) is the host's interface: `run` makes
the checks in order, `cancel` lands an excursion from an interrupt.

**Stack budget** (`runtime/stack_budget.h`, `executor.cpp:22-97`) sums what the
excursion may use; the last term is the larger of two tails. Its C++ numbers come
from the **stack margin tool** (`tools/stack-margin.ts`), which walks the call
graph the compiler wrote down, from a root to the guards that check at run time.
Hard: one name may mean functions of several files, and a chain left out is stack
nobody reserves. Correct if no chain of calls needs more than the margin printed.

**Body scan** (`compiler/infra/proc_scan.*`) and **translator control flow**
(`compiler/translate/translate_control_flow.cpp`) walk the same bytes, at
different times and by different rules: the scan counts closers, the translator
recurses. Correct only if they agree on every body's end and on who saves lr.

**Translator data flow** (`translate_data_flow.cpp`) with the **operand
window** (`emit/window.*`), the **accumulator and flags** (`emit/accstate.*`,
`flagstate.h`, `shape.*`, `infra/effect.h`) and the **arithmetic emitters**
(`emit/arithmetic.*`): a compile-time account of where each run-time value is.
The top four operands live in r4-r7 in rotation, the rest in memory; the
accumulator may be in a register, in a local's register, in an immediate or in
the flags. Hard: every emission must keep the account true, at merges for both
paths at once.

**Extension site** (`emit/ext.*`, `infra/ext.h`): the calls a client's emitter
may make, in any order.

**Assembler and literal pool** (`infra/assembler.*`), **call and return
sequences** (`emit/abi_strategy.*`): one pass, literals deferred to a pool that
any emission may have to spill, forward branches chained through their own
displacement fields, a resume offset written before the code it skips. Hard:
reach limits that come due between two halfwords of a sequence.

**translateProc** (`translate_proc.cpp`): a Narrow attempt, then a Wide one,
then `RESOURCE_BRANCH_RANGE`.

**Entry arguments** (`entry_args.h`, `enterDispatch`): the block C++ lays out,
the loop that copies it, and the prologue that takes it over must agree on where
each argument is.

**Bytecode reader, decoder, frame**
(`runtime/bytecode*`, `program_frame.h`, `infra/decode_instr.*`), **ARMv6-M
encoder** (`infra/armv6.h`), **resource codes**: mostly pure functions.

**Raw memory extension** (`fuzz/ts/lib/rawmem_ext.ts`, `support/ext-rawmem/`): a
buffer of 1024 bytes with loads, stores and three block operations, written twice,
for the reference VM and as emitted code with helpers. Hard: every address is
masked and aligned, blocks overlap and run past the end, and lengths may be absurd.
Correct if the two halves never differ, in value or in buffer.

**Generators** (`fuzz/ts/gen/`): the corpus, the **mutator** (`mutate.ts`) that
rewrites a program node by node, the **filter** (`ub.ts`) that keeps back what
has no one answer, the **invalid lane** (`gen/invalid.ts`, `invalid.ts`) that
breaks programs on purpose, and the **minimizer** (`minimize.ts`). Hard: each is
right about a node and must be right about a program, generation after
generation. Correct if what they hand on is accepted and has one defined answer,
if what they break is refused, and if what they shrink still shows the finding.

**Reference evaluator** (`fuzz/ts/eval/ast-eval.ts`): a program's outcome by its
tree, with the conversions C prescribes; what the other engines are held to.

**Fuzzing campaign** (`fuzz/ts/fuzz.ts`, `driver.ts`, `lib/batch.ts`) keeps a
growing corpus, a pool of verified programs, the findings. It draws a mutant,
asks two reference engines, and feeds what they agree on in batches to three
sinks: the emulated target (`exec_runner.cpp`), the same image with its
assertions live (`assert_report.cpp`), the host build (`harness.cpp`). Each
sink is a process that reads one file and prints lines without names; the
driver waits for it. **Sweep** (`qemu-exec.ts`): saved programs through the
target, on a queue that a hang puts the rest of a batch back into. Hard: one
program can take a whole batch down, and which one it was is inferred from how
many lines came out. Correct if every finding names the guilty program, no
finding means that nothing is wrong, no program is lost, and the tool ends.

Outside that: the rest of `support/` (test encoder, images), the reports of
`fuzz/`, `bench/`, `test/`.

What is hard to test in all this is listed line by line in `PROJECT.json`
under `hazards`, each with the properties that would catch it.

## 3. Modules and the code they stand for

| Module | Stands for | Extends or composes |
|---|---|---|
| `CodeArena` | `code_arena.h` | |
| `DispatchTable` | `dispatch_table.h` | |
| `Runtime` | `runtime.h`, `runtime.cpp` (evict) | both above |
| `CodeCache` | ensureSpace, the stack guards, `translate_proc.cpp`, call/return/trampoline of `runtime.S`, any number of runs of one Executor | `Runtime`; implements `CallReturn` |
| `CallReturn` | abstract: what a program sees | |
| `Excursion` | `runtime.S` entry, landing and aborts; `executor.cpp` run and cancel | |
| `Assembler` | `assembler.cpp`, `abi_strategy.cpp`, the switch dispatch of `translate_control_flow.cpp` | |
| `Emitters` | `window.cpp`, `accstate.cpp`, `shape.cpp`, `arithmetic.cpp` as operators on one state | |
| `EntryArgs` | `entry_args.h`, the argument copy of `runtime.S` | `Emitters` |
| `Translator` | `translate_data_flow.cpp`, `translate_control_flow.cpp`, `ext.cpp` | `EntryArgs` |
| `ProgramLoad` | `runtime.cpp` (loadProgram), `proc_scan.cpp`, `executor.cpp` (checks), the translator's recursion | |
| `BatchSinks` | `batch.ts`, `exec_runner.cpp`, `assert_report.cpp`, `harness.cpp`, the bisection and comparison of `driver.ts` | |
| `Campaign` | `driver.ts`, `fuzz.ts` | `BatchSinks` |
| `Sweep` | `qemu-exec.ts` | `BatchSinks` |
| `FuzzTools` | either tool, and their properties | `Campaign`, `Sweep` |
| `Ast` | programs as trees; `walk.ts`, the types of `corpus.ts` | |
| `RawMem` | `rawmem_ext.ts`; what `ext_rawmem.cpp` emits, `ext_rawmem_helper.S` | |
| `AstEval` | `ast-eval.ts`, `entry_args.ts`; external: engines behind the lowerer | `Ast`, `RawMem` |
| `UbFilter` | `ub.ts` | `Ast` |
| `Lowering` | `checkGraph`, live code of `gen/invalid.ts`; external: what the lowerer and validator refuse | `Ast` |
| `Mutator` | `mutate.ts` | `Ast` |
| `InvalidLane` | `gen/invalid.ts`, `refusedBy` of `invalid.ts` | `Lowering`, `AstEval` |
| `Minimizer` | `minimize.ts` | `InvalidLane`, `UbFilter` |
| `Generator` | a program from seed to mutant, to broken or shrunk one; properties of all four | `Mutator`, `Minimizer` |
| `RawMemHalves` | the two halves of an opcode side by side | `RawMem` |
| `StackMargin` | `stack-margin.ts` | |
| `GeneratorTools` | the three above as one system | `Generator`, `RawMemHalves`, `StackMargin` |
| `CodeCache_proofs` | theorems about `CodeCache` | |
| `Excursion_proofs` | theorems about `Excursion` | |
| `ProgramLoad_proofs` | theorems about `ProgramLoad` | |
| `Assembler_proofs` | theorems about `Assembler` | |
| `Emitters_proofs` | lemmas about `Emitters`: the machine, the accumulator, pushing and popping runs of registers, the window's operations | |
| `Translator_proofs` | theorems about `Translator` | `Emitters_proofs` |
| `FuzzTools_proofs` | theorems about `FuzzTools` | |
| `Tools_proofs` | theorems about `RawMemHalves` and `StackMargin`, and the lemmas on recursive functions they share | |
| `MC*` | instances | |

Definitions whose name has the form `X_Fault` are faulty forms of `X`: a bug
the code could plausibly have, kept to show that a property would notice it.
Nothing in a specification uses them.

**CodeCache.** Addresses count halfwords. A halfword of code records which
procedure it belongs to, which attempt emitted it and its position, so "the
code is intact" is a statement about memory and not about bookkeeping. Compiled
code may do anything a validated program may: branch anywhere in its body, call
any procedure up to the call depth, return, or trap. `Dispatch` is
`callHelper`/`returnHelperTail`: stamp, tick, jump. When the slot holds the
trampoline the mode becomes `"translate"` and the steps are those of the
translator: `EmitFits`, `EmitEvicting` and `EmitExhausted` are `doEmit` through
`ensureSpace`; `OpenBlock`, `OpenBlockTooDeep` and `CloseBlock` are the guards;
`Finalize`, `RetryWide` and `BranchRangeLimit` are `translateProc`'s outcomes.
`EmitPastCeiling` is the assertion in `ensureSpace` not holding.

**CallReturn.** The promise: a program runs as though every procedure were
compiled and stayed put. Evicting, compacting, compiling are stutters of it.

**Excursion.** One action per write that an interrupt could see: `Publish` sets
`live`; `SaveLow`, `SaveHigh`, `WriteLanding`, `ParkSp` are `enterDispatch`;
`Disarm`, `PopHigh`, `PopLow` are `.Lresume`; `JumpWith` loads the registers of
`asyncAbortTrampoline`, `MoveSp` and `BranchToLanding` are its two instructions.
`Request` is a canceller wanting a stop, `Cancel` the call that is told true; a
call told false changes nothing and is not a step. Once `run` has returned,
`live` is false and the sentinel is whatever the stack then holds.

**Assembler.** A body is a sequence of halfwords that are what they do. Any
order of operations is allowed, a superset of what the translator asks for.
`inst`, which no step changes, holds the limits of the body that is assembled,
so that one run covers bodies under several sets of limits.
The limits (`MaxReach`, `MaxPending`, `CondReach`, ...) are constants, so
that a body of a dozen halfwords meets each of them.

**Emitters and Translator.** Two machines step together: `vm`, the bytecode's
operand stack and accumulator, and `jit`, which holds the translator's account
(`tos`, `kind`, `value`, `flags`) together with what the emitted code has done
to registers, memory and flags. Every action is one bytecode instruction: the
translator's handler runs, and the instructions it emits are executed as they
are emitted. Arithmetic is an opaque non-commutative function per family, so
that swapped operands or a lost value show: it is the constant `Arith`, of which
only what the emitters rely on is assumed (`Arithmetic`: that it is defined, that
subtracting nothing changes nothing, that RSUB is SUB the other way round and
that XOR may take its operands in either order).

**EntryArgs.** `BuildEntryArgs` is the block C++ lays out, `EnterDispatch` the
registers and the stack `runtime.S` makes of it; `Translator`'s initial states
are those in which the prologue has taken that over, so that
`WindowHoldsOperands` is about the entry procedure's arguments too.

**BatchSinks, Campaign, Sweep, FuzzTools.** The tools are synchronous: a sink
runs from start to end while its caller waits, so it is an operator, and a step
is a stretch of the tool's own script between two sinks or two rounds. A program
is a record of what each stage and sink will make of it. `Drop`, `Disagree`,
`Skip` and `Keep` are the four ways one round ends; `RunTarget`, `RunTargetDbg`
and `RunHost` take a chunk through the sinks; `EndBatch` is the batch boundary
with its stop conditions; `LastBatch` and `Report` come after the loop. In the
sweep `StepOver`, `StopShort` and `Compare` are the three ways a batch goes.
`RunQemu` prints lines, `ParseResults` reads them back: nothing else tells a
tool what happened. `Interrupt` is SIGINT at any time.

**Ast, AstEval, UbFilter, Lowering, Mutator, InvalidLane, Minimizer,
Generator.** A program is a tree of one shape of node, and each module is one file
of `fuzz/ts/`. `Evaluate` gives *every* outcome: where the language leaves the
order of operands open, every order is taken, which is what the reference
evaluator (left to right) and the engines behind the lowerer (right to left)
choose from. `Mutate` gives every mutant one call of `mutate` may return: its
random draws are nondeterministic, its probabilities are "at most one of these",
and its drawing of operators and literals is cut down to an alphabet.
`Generator` has the life of a program: `MutateSequenced` is a generation behind
the filter, `BreakProgram` the invalid lane, `Find` an engine found wrong with a
program (in one operator, chosen by the instance) or a file handed to the
minimizer, and `ShrinkFinding` a step of the minimizer's passes: one procedure,
one list, one path. `age` counts generations, `struck` remembers which breaker
struck and whether its program has to be refused in either form.

**RawMem, RawMemHalves.** `Exec` is the reference VM's half of an opcode, `Emitted`
the half of the compiled code, helper routines included. `RunOpcode` gives both
the same operands and buffer. Each loop of the helpers is a recursive function of
the steps it has taken.

**StackMargin.** `Measure` is the whole tool: parse, refuse, walk. The call
graph and the frames are the instance's; which functions hold a guard, and which
have a frame of unknown size, varies. `WalkFrom[onStack]` is `walk` with those
signatures on its stack, a function because the recursion ends where a signature
comes twice; `memo`, `cuts` and the problems, which the code keeps in variables,
go from call to call in a record.

**ProgramLoad.** One cursor, an instruction at a time; `scan` holds the frames
`GUARDED_scanBody` counts and `trans` the functions the translator will be in
on reaching the same byte. `truth` is the program's actual structure.

## 4. Runs

Every passing run checks its properties on the complete state graph of the
instance. `PROJECT.json` lists, for each property, a faulty form of the code
that makes it fail in the same instance, which is how we know that the bounds
are not too small to see it.

| Run | Question | Instance | States |
|---|---|---|---|
| `cache_split` | Do eviction, compaction, recompilation and retries ever show? | arena of 6 halfwords of its own (8 less the rounding of both ends); procedures of 3, 4 and 2 halfwords, the first only in its second attempt; one longer than the arena; one no encoding fits; call depth 2; tick modulo 8 | 435 000 |
| `cache_shared` | Do code and stack stay apart in one region? | one region, two nested guards, three procedures, an interrupt reserve of a word | 207 000 |
| `excursion` | Does a cancellation at any point leave the host intact? | two cancellations with different codes, one entry argument on the stack, two more words | 3 500 |
| `bodies` | Does every load reach its literal, every branch and table slot land where it was meant to, and nothing run into data? | two sets of limits. Calls: pools of at most 3, reach 40 bytes, margin 16, bodies started up to 24 bytes, two literals. Branches: reach 10 (conditional) and 14 bytes, one label, one loop, tables of 2 and 7 cases, pools of 2 | 1 690 000 |
| `window` | Is every operand where the window says, calls and entry arguments included, and do operands, accumulator and flags survive every instruction family and every merge? | windows of 3: stack of 5, 0 or 5 arguments, callees of 0, 2 and 5, leaf or not, an if/else. Windows of 2: six families of programs, 0, 1 or 3 arguments, stack of 3, or of 2 with constructs inside one another | 716 000 |
| `load` | Do scan and translator agree on each body? | two bodies of together at most 14 bytes, tables of 1, 2 and 3 cases, five kinds of extension, nesting 2 | 32 000 |
| `fuzz_tools` | Are the tools' reports right and complete, and do they end? | campaigns of six rounds, batches of 3 in chunks of at most 16 bytes, assertions every second batch, a corpus of one seed and one derived entry, programs of 2 or 5 bytes; sweeps over up to four programs in chunks of 14 bytes | 290 000 |
| `generator` | Is what the fuzzing tools generate, break and shrink what they say it is? Do the two halves of the raw memory extension agree? Does the stack margin cover every chain of calls? | 15 seeds of the corpus, each with an alphabet for one kind of mutation, one or two generations, six of them with every breaker after the first; 6 findings to shrink, each over two wrong engines, one from a file whose program races; words of four 2-bit bytes, a buffer of 8 bytes, 100 steps; any two opcodes from a zeroed buffer; call graphs over four functions in two files | 56 000 |

The four runs that end in a counterexample (`past_ceiling`,
`cancel_borrowed_base`, `far_callee`, `campaign_sigint`) are in section 5.

**Why the bounds are enough.**
`cache_split`: three bodies that fit pairwise but not together force every kind
of eviction (below, between and above other bodies, one and several per
emission), the odd-length body forces the cursor's rounding, depth 2 lets a
caller be evicted while its callee is compiled and recompiled on return, and
eight ticks wrap many times; runs follow each other without end.
`cache_shared`: two guards and two open calls are the least with which a floor
published inside another is both lower and later.
`bodies`: the limits scale down together. What the reach margin
covers is the longest sequence emitted without a check (a call: ten bytes and
two literals), and it keeps that relation here; a pool then comes due at every
offset relative to every sequence.
`window`: three registers wrap at three; five operands put two in memory, so a
run of slots splits at the wrap, and a call can take more arguments than the
window holds, exactly as many, or none.
Two values suffice because code only moves values or computes a
fixed function of them: two locations that should differ do differ in some
behaviour.
`load`: each construct's count of blocks differs from its neighbour's (tables
of 1, 2 and 3 cases have their own rules), and two levels put each construct in
each other.
`fuzz_tools`: three programs to a batch let one stand before, at and behind
another that hangs; two of the larger programs split a batch; six rounds are two
full batches, one with and one without the image that asserts, or one and a last
one that is cut short; four programs in a sweep let a requeued tail hang again
behind another chunk. There is one program for each way a stage can treat one.
`generator`: every kind of node the mutator rewrites is in a seed whose alphabet
lets it; two generations let a change be made below an earlier one (a shift
amount, a call). Each breaker meets a program it applies to, and the breaker of
shift amounts shifts at every place of an expression: at its root, behind a short
circuit, in the arms of a `?:`. A byte of two bits
still has a sign, and a word of four bytes every alignment; the buffer is two
words, so that addresses wrap and a block can overlap itself in both directions.
Two functions of one name in two files are the least with which a name does not
say which is meant. Larger programs with two generations were run while the
module was written and take hours without showing more.

What the properties say:

* `cache_split`, `cache_shared` — `ResidentsIntact`: each procedure the table
  says is compiled is there in full. `PackedEndToEnd`: sizes derived from
  neighbours are right. `BufferIntact`: what the translator has emitted
  survives the evictions it causes. `NeverPastCeiling`, `CommittedBelowCeiling`:
  the arena's limits. `HandsBackArena`: however a run ends. `VictimIsOldest`:
  no body younger than another goes first, the wrap of the tick
  notwithstanding, as long as nothing has been idle for a whole turn of it.
  `ExhaustedOnlyWhenTooLong`: the translator gives up for want of room only on
  code longer than the arena. `TranslationEnds`. `ImplementsCallReturn`.
* `excursion` — `HostResumes`: a cancellation anywhere lands on the registers
  `enterDispatch` saved. `DisarmedBeforePops`. `AcceptedCancelWins`: a canceller
  told true gets its code back as the result, even if the program was already
  trapping or returning. `CancelEndsRun`.
* `bodies` — `PendingFits`, `LoadsReach` (each load reads its own
  constant within reach), `NothingRunsIntoData` (no path runs into a pool word
  or a table slot), `ResumeAtEnd` (a call's record names the halfword after the
  call), `BranchesLand`, `SlotsLeadToCases`.
* `window` — `WindowHoldsOperands`, `AccIsReadable`,
  `BranchesAgree` (each conditional branch goes where the bytecode's does),
  `ArgumentsArrive` (a callee's window finds what its caller passed, a return
  leaves the caller its value, record and stack).
* `load` — `DirectoryNamesBodies`, `TranslatorEndsWithBody`, `LrSavedWhenUsed`.
* `fuzz_tools` — `BlameIsRight`: each finding names a program that has the fault
  it states. `CleanExitMeansClean`: exit code 0 means that each program put to
  the target answered as the reference engines did, buffer digest included, or
  bailed out. `Accounted`: no verified program misses its batch, and each program
  of a batch without a hang is compared; behind a hang the sweep compares them
  later, the campaign does not. `ToolEnds`.
* `generator` — `AcceptedHasOneAnswer`: whatever order operands are taken in, a
  program the filter lets through computes one answer, and a defined one.
  `MutantsLower`: a mutant of an accepted program is accepted. `BrokenIsRefused`:
  a program broken on purpose is refused, a shift amount out of range whether it is
  lowered to an immediate, which mog-core checks, or to a register, which the
  reference VM does when it gets there. `WitnessIsReal`: what the minimizer is
  left with is wrong because of the engine and not of the program, whatever the
  file it started from. `ShrunkIsMinimal`: when it ends no single reduction is
  left. `ShrinkEnds`. `HalvesAgree`: after any opcode both halves have the same
  value and buffer. `MarginIsWorst`: no chain of calls under the guards needs
  more than the number the tool prints.

Deadlock is checked in `cache_split`, `excursion` and `cancel_borrowed_base`,
whose systems run for ever. It is off in the others because there it means
something else: an assembly that is finished or refused, a translation that has
returned or reached its bound, a program loaded or refused, a tool that has
exited, a finding that is shrunk or a program no lane takes further; in the
instances on
a shared region, the state after the assertion in `ensureSpace` has failed,
past which nothing is modelled (run `past_ceiling`).

## 5. Where the code and what is said of it differ

Four runs end in a counterexample. Each checks one statement the repository
makes of itself.

* `past_ceiling`, `NeverPastCeiling`. `pushStackFloor` admits a level of the
  translator by comparing sp with `hardFloor()`, which follows the *committed*
  cursor; the code being emitted has passed it already. On a region shared with
  the stack a nested block may so publish a floor whose ceiling lies below code
  already written. Then `assert(end <= ceiling)` in `ensureSpace` fails; where
  assertions are compiled out, `end == ceiling` never matches again in this
  emission and the code grows without evicting. design.md §2 says that this
  encroachment ends in `RESOURCE_EXHAUSTED_TRANSLATOR_STACK`.
* `cancel_borrowed_base`, `DisarmedBeforePops`. The landing disarms the sentinel
  through r8. A cancellation accepted while an independently compiled C helper
  holds something else in r8 lands without disarming; design.md §19 says it
  always disarms. That r8 is reserved is a compiler flag of the emulator images
  and not a term of the helper contract.
* `far_callee`, `ResumeAtEnd`. When both the record and the callee's index of a
  call come from the pool (an index above 255), the second load makes its own
  room although the block has reserved two entries, and in one alignment of
  pool and sequence the pool comes out between the two loads. The record then
  names an offset inside the pool. design.md §8 and §17 say that the length of
  the sequence is constant and that no pool can land inside it.
* `campaign_sigint`, `SigintReports`. `fuzz.ts` says that SIGINT prints the same
  report a bounded run does. Its handler is a callback of the event loop, and
  the campaign is one synchronous call, sinks and lanes included, that leaves
  through `process.exit`: the handler never runs and the flag it sets is never
  seen. As installing it has removed the default action, the signal does not end
  the process either. In the counterexample a campaign without a bound goes on
  for ever after the signal.

Some more observations need no run of their own. What the sweep and the campaign promise of a
batch with a hang differs (`Accounted`): the answers printed before the hang are
compared by neither, and what stands behind it is run by the sweep only. And
`bisect` blames the last program by elimination when the whole batch failed but
neither half does, as a batch that only exceeded the host's common timeout would.

Of the generators:

* A breaker "whose violation only shows when the code *runs* has to land
  somewhere that runs" (`gen/invalid.ts:88-89`). The breaker of shift amounts is
  one where the amount is lowered to a register. It leaves out what an expression
  may skip, but strikes every live statement (`:269`), an `if`'s arm that is not
  taken or a loop's body that is not entered among them. Unless the lowerer makes
  an immediate of the amount, which is decided in another repository, the lane
  reports an escape that is none. A shift grown in an arm of the seed `if` is
  enough, and the model reaches it. `BrokenIsRefused` holds this breaker to a
  refusal by the VM only where it strikes the first thing of a statement that the
  entry is sure to come to (`StrikesWhatRuns`), and everywhere to one by mog-core if
  the amount is made an immediate.
* The breakers of switches strike every switch of a body (`gen/invalid.ts:285`,
  `:308`, `:343`), dead code included, although a breaker is to strike what is
  live (`:30-36`); and the one that detaches a label from its fall-through looks
  only for a `return` as the clause's last statement, not for an `if` whose arms
  both return. Either way a program that lowers counts as an escape. A second
  generation reaches the first case: an `if` that always returns, doubled, and the
  copy wrapped in a switch. `BrokenIsRefused` asks of these breakers only what
  they say where they strike live clauses that run on.
* Wrapping or dropping the `return` that closes a switch clause makes it run on;
  in the next generation its label may no longer be next to the one it runs into,
  and the mutant is refused. `driver.ts` calls a mutant that does not lower "a
  generator bug rather than a finding"; `MutantsLower` therefore asks the rule on
  labels of one generation only.
* `mutateExpr` does not pass its `depth` on (`mutate.ts:195-292`), so the bound on
  height is a bound on each subtree's.
* "Mutation never touches its control" (`countedLoop`): the induction variable is
  in scope of the body, whose mutation may assign it, and a counted do/while's
  increment is a statement of the body. What runs on too long is caught by the
  step limit only.
* `ub.ts` does not see a compound assignment whose right side assigns the same
  variable as a race; no seed leads to one.
* Dropping a procedure renumbers those above it, so an uncalled procedure stays
  in a shrunk finding while one above it is called. Reductions never make a race,
  so the minimizer's filter matters for the file it is given
  (`WitnessIsReal` fails without it only there).
* `stack-margin.ts` takes functions of two files with one signature for one when
  it looks for recursion, and refuses a chain through both: a false refusal, on
  the safe side.

## 6. Fairness

`CodeCache`: `WF(Translate)` and `WF(Leave)`. The translator is straight-line
C++ on the only core there is: once entered it takes its next step unless a
cancellation takes the excursion from it. Nothing is assumed of the compiled
program, which may loop for ever, nor that anyone starts another run.

`Excursion`: `WF` of the way in once begun and of the way out, again straight
line code; and `WF(Cancel)`, the host's side of the contract: cancel may be
refused in the windows at either end of a run, and a canceller that needs the
run to stop asks again, as `executor.h` tells it to. The program is under no
promise, which is what `CancelEndsRun` is about.

`FuzzTools`: `WF(ToolStep)`. A tool is one thread, every process it starts has a
timeout, and nothing else can hold it up. That the operator interrupts it is not
assumed.

`GeneratorTools`: `WF(ShrinkStep)`. The minimizer is one loop of one thread, and
each engine it asks has a step limit or a timeout.

No other module has a fairness condition and none states a liveness property.

## 7. Proofs

`tlapm` checks these for every value of the constants that satisfies the named
assumptions.

| Theorem | States |
|---|---|
| `TypeCorrect` | `Spec => []TypeOK` of `CodeCache` |
| `ResidentsStayIntact` | `Spec => []ResidentsIntact` |
| `BodiesArePacked` | `Spec => []PackedEndToEnd` |
| `BufferStaysIntact` | `Spec => []BufferIntact` |
| `ArenaHandedBack` | `Spec => []HandsBackArena` |
| `CacheIsInvisible` | `Spec => ImplementsCallReturn`: the code cache refines plain calls and returns |
| `CommittedStaysBelow` | `AlignedTop => (Spec => []CommittedBelowCeiling)` |
| `RegionNeverOverrun` | in an arena of its own, `Spec => []NeverPastCeiling` |
| `ExcursionResumesHost` | without `HelperBorrows`, `Spec => []HostResumes` |
| `ExcursionDisarms` | without `HelperBorrows`, `Spec => []DisarmedBeforePops` |
| `ExcursionHonoursCancel` | without `HelperBorrows`, `Spec => []AcceptedCancelWins` |
| `DirectoryIsRight` | `Spec => []DirectoryNamesBodies` |
| `ScanAndTranslatorAgree` | `Spec => []TranslatorEndsWithBody` |
| `HelpersFindLrSaved` | `Spec => []LrSavedWhenUsed` |
| `PoolFits` | `Spec => []PendingFits` |
| `BodyInvariant` | `Spec => []StateInv` of `Assembler`: what holds of a body at every step of its translation |
| `LoadsAlwaysReach` | `Spec => []LoadsReach` |
| `NothingEverRunsIntoData` | `Spec => []NothingRunsIntoData` |
| `BranchesAlwaysLand` | `Spec => []BranchesLand` |
| `SlotsAlwaysLeadToCases` | `Spec => []SlotsLeadToCases` |
| `CallsResumeAtTheirEnd` | `Spec => [](~("pool" \in Records /\ "pool" \in Callees) => ResumeAtEnd)` |
| `OldestGoesFirst` | `Spec => VictimIsOldest` |
| `GivesUpOnlyWhenTooLong` | `Spec => ExhaustedOnlyWhenTooLong` |
| `InductiveInvariant` | `Spec => []IInv` of `Translator`: translator, machine and bytecode machine in step |
| `OperandsAreHeld` | `Spec => []WindowHoldsOperands` |
| `AccCanBeRead` | `Spec => []AccIsReadable` |
| `BranchesGoWhereTheyShould` | `Spec => []BranchesAgree` |
| `ArgumentsAreFound` | `Spec => []ArgumentsArrive` |
| `BatchesInvariant` | `Spec => []BatchInv` of `FuzzTools`: what is batched, run and reported is what the programs make it |
| `BlameIsAlwaysRight` | `Spec => []BlameIsRight` |
| `CleanAlwaysMeansClean` | `Spec => []CleanExitMeansClean` |
| `AlwaysAccounted` | `Spec => []Accounted` |
| `HalvesAlwaysAgree` | `HalvesSpec => []HalvesAgree` |
| `AccessStaysInside` | a masked and aligned access lies in the buffer, whatever the offset |
| `MarginIsAlwaysWorst` | `MarginSpec => []MarginIsWorst` |

### The code cache

For every number of procedures, every length, arena, call depth, recursion bound
and tick width. `ArenaConstants`, `TableConstants` and `CacheConstants` say: an
arena is at least a word, lies below `NoFloor`, starts at the stack limit when
it is shared with the stack; a procedure has at least one halfword in either
encoding, its prologue included; the trampoline is outside the arena; one level
of the recursion takes no more than its measured margin.

**The invariant.** `PackedEndToEnd` is not inductive: it speaks of sizes as the
code computes them, from neighbours, and an eviction changes every neighbour.
`Inv` (in `CodeCache_proofs`) says instead what each body *is*: it occupies
`Span(p)`, its length rounded to a word (`Placed`), no two overlap (`Apart`),
each ends where another starts or at the cursor (`Continued`), and one starts
at the arena's start. That `OccupiedSizeOf` computes the span is then a lemma
(`OccupiedIsSpan`), and with it `EvictMoves`, `EvictedMem` and `EvictedLayout`
say where every body and every halfword is after an eviction, the buffer's
included. The rest of `Inv` is what carries these through a whole run: `Contents`
(each resident halfword is the right one), `Pending` (the attempt under way,
its buffer at the cursor, its procedure not resident), `Running` (pc is in a
resident body), `Callers` (each record names a procedure and an offset within
it), `FloorsBounded` (no floor above the code limit's). There is a lemma per
action, and `NextInv` puts them together.

**Refinement.** `DispatchArrives` is the heart: a dispatch to (procedure,
offset) either puts pc on that halfword or leaves it as the target of a
translation that will; `FinalizeStutters` shows that the translation does.

**Ceilings.** `Room` adds that every live or saved floor leaves the interrupt
its reserve above the cursor (`FloorsClear`). For a shared region this needs
the code limit to be a word boundary (`AlignedTop`). It is one whenever the
caller's `interruptReserve` is a multiple of a word, as every caller in the
repository has it; with an odd reserve `commit` would round the cursor past it.
`NeverPastCeiling` is proved only for a region of its own (`~OverlapsStack`):
run `past_ceiling` shows it false otherwise.

**What goes, and when nothing does.** Eviction sees ages, differences of a tick
that wraps; `VictimIsOldest` speaks of how many dispatches ago a body was
reached. `Ages` relates the two, for the bodies in the arena and the one being
translated and for no others, since evicting one resets its stamp: as long as
fewer than `TickMod` dispatches have gone by, the difference is the number.
`AgeAdvances` is the arithmetic, for every width of the tick.
`ExhaustedOnlyWhenTooLong` follows from the layout: without a resident body the
cursor is at the arena's start, so what does not fit is the code being emitted.

### The excursion

For any number of entry words, of words pushed and of cancellations
(`ExcursionConstants`), and only without `HelperBorrows`: run
`cancel_borrowed_base` shows `DisarmedBeforePops` false when a helper may use `r8`.

The three properties compare what is popped, answered and told at the end with
what was saved at the beginning, which no single state shows. `IInv` is what
holds in between, place by place: `StackInv`, that the six saved words are at
the bottom of the stack wherever the program can be interrupted and that `r8`
is the host's outside of that; `SlotInv`, that the sentinel is armed with the
landing and the saved stack pointer exactly where a cancellation would use it;
and `ToldInv`, that the code and tag on their way out are those of the last
cancellation accepted. `Cancel` may interleave with every one of the other
steps, and the proof has one lemma for each.

### Program loading

For any number of procedures, tables of any size, constructs nested to any
depth, extensions of any operand count and bodies of any length
(`LoadConstants`; a `BR_TABLE` has at least one case).

`Stacks` is the strengthening: while a body is read, three stacks, the program's
open constructs, the scan's frames and the translator's calls, are equally deep
and agree level by level (`SameConstruct`): all three have as many blocks left,
though the scan counts down, the translator counts up, and a `BR_TABLE 1` whose
first instruction has not been peeked at is not yet known to be an if.
`TerminatorAgrees` is the lemma that matters: a terminator closes or advances
all three together. The agreement is empty exactly when the body ends.

### The assembler

For every set of instances, every order of emissions and bodies of any length.
`AssemblerConstants` says of an instance's limits that a pool holds at least one
word, its reach is a multiple of four and at least 12, the margin at least 4 (the
code has 1020 and 128); of the branches' reaches and of how many labels, cases
and literals there are it says nothing.

**The pool's arrays.** `Fits`, that what is pending fits and is a sequence, is
kept by every operation. What the proof shows about the code is that the
reservation of an atomic block is not what keeps `parkPoolSite` inside its
arrays: `materializeImm32` asks for room itself, in a block or out of one
(`MaterializeFits`). The reservation is there so that this does not spill in the
middle, which `ResumeAtEnd` is about.

**The invariant.** The five properties about what the code says need one
another: that a branch does not lead into a pool needs that a label is bound
only where an instruction can go, that a pool can be put at all needs that what
stands before it does not fall through, and what bind patches needs that the
operands of unresolved branches have not been taken for anything else. `StateInv`
is all of it at once.

* `Body`: halfwords are typed; every pending site is a load of the value it waits
  for, none before the first (`Parked`), every other load reaches its word
  (`Loaded`); before each word and slot stands one that does not fall through
  (`Walled`); each resolved branch lands on an instruction or at the end of the
  code so far (`Resolved`), and the end stays a place to land on until something
  is put there that is not a pool (`Starts`).
* `Within`: how many bytes more may come before the oldest pending load is out of
  reach of its pool. With none to spare the pool can still be put, and each load
  then finds its word (`Displacement`); what suppresses the check has asked for
  its bytes first, a jump table's included.
* `Chains`: the sites of each unbound label, from its head down, are each other's
  targets, the lowest its own; labels share none.
* `Tabled`, `Entries`, `Slots`: the same for the gaps of the open switch, which
  are linked through the slots; each case started has its slot; each slot
  belongs to a case started or to the open table.
* `Resuming`: no `bx` between the load of a record and the jump of its call.

**The argument.** Every emission either only extends the code, by something a
branch may land on (`Grows`), or sets the operands of halfwords whose target has
just become known (`Repatched`, `Alters`), and each part of the invariant is kept
by both (`TrackedGrows`, `RepatchBody`, `EntriesAltered` and their neighbours).
There is a lemma for each action. The two walks, of a label's branches and of a
switch's gaps, are one operator, `Listed`. `ListedHolds` says that a list linked
in falling order holds what it should, and that as many steps as there are
halfwords, or cases, suffice. It is an induction over a number, which goes by way
of the least counterexample (`Least`, from the well-foundedness of `<`), as does
that the walk exists at all (`WalkExists`).

`CallsResumeAtTheirEnd` has a condition because the property is false without
it: run `far_callee`. The proof finds no other way for it to fail:
when only one of a call's two loads is from the pool, the block's reservation is
enough (`CallResumes`). TLC checked `StateInv` itself on the instances of
`bodies` before it was proved, and on tighter ones as far as five minutes went.

### The translator

For every size of window, every set of programs (any number of arguments,
callees and constructs, any nesting, stacks of any depth), any set of values that
contains 0 and 1, and any arithmetic with the properties above
(`EmittersConstants`, `Arithmetic`, `TranslatorConstants`).

**The invariant.** None of the four properties is inductive. That operands are
where the window says, for one, is kept by an instruction only if the accumulator
it pushes can be read; that it can be read, only if the flags are what is
believed of them; and a call keeps any of this only if what lies *under* the
window is in memory in the order the reload will pop it. `InStep` says all of it
of the translator's record and the bytecode machine's state together:

* `IsState`: every register, word and shape is one there can be. The account
  never points outside the window.
* `Layout`: slot for slot, what is in a register, what is in memory and at which
  index; with the words the prologue saved, `lr` among them, below. It is the
  `lr` word that makes spilled slots one word further for a procedure that is not
  a leaf, and that makes RETURN right (`ReturnLeaves`).
* `FlagsOk`: the flags are those of the comparison, or of the register, the
  translator remembers. This is why a CMP may be left out.
* `AccOk`: the accumulator's shape has its value: the register, the literal, or
  the condition the flags decide.

`FramesOk` adds what a block's end needs: an open construct was entered above
the arguments, no deeper than the ones inside it and no deeper than the stack is
now, so `Restore` at its end only ever lowers the window. Run `window` checked
the whole invariant before it was proved.

**The argument.** `Emitters_proofs` says what each operation of the machine and
of the accumulator does and leaves alone; its hard part is arithmetic:
`PhysReg` keeps the slots of a window apart (`PhysRegDistinct`), and a run of
slots that wraps is two runs of registers, which PUSH and POP, whose order is
the registers' and not the slots', put into memory in the slots' order
(`PushRunsDoes`, `PopRunsDoes`). It then does the same for the window's
operations. `Translator_proofs` has a lemma for each handler (`ConstGives` to
`ReturnGives`), one for the entry (`InitGives`: the block C++ lays out, the loop
of `enterDispatch` and the prologue agree), and `StepsKeep`.

While this was proved the model turned out wrong in one place, for values other
than 0 and 1: what a switch's dispatch should have used was recorded as whether
the selector is zero, not as the selector. It is corrected (`OpenSwitch`); the
instance has two values and could not tell.

### The fuzzing tools

For every set of programs the stages and sinks may treat in any way
(`IsProgram`), campaigns of any length, any cadences, any size of batch and of
window. `IsProgram` assumes two things besides types: a record the runner can
frame fits the window by itself (`PROGRAM_MAX` and 16 arguments are 4 kB of its
128 kB), and an answer is followed by its digest. `SweepConstants` says that the
sweep closes its chunks no later than the runner's window ends.

**The sinks.** `RunQemu`, `ParseResults`, `Packed` and `Bisect` go over a batch or
over lines in a recursive function. That such a function exists is `Recursion`,
what holds of its values follows by `Induct`. Then:

* `Heard`: what a tool reads back from a run. Lines carry no names, so this is an
  induction over the target's walk in step with the reader's: after the programs
  that answered the reader has one result for each, with its own digest, and it
  stops where the walk does (`Walk`, `Follows`).
* `Chunked`: each entry packed is in a chunk, no chunk is empty, and each fits the
  window, so that the runner never comes to a record past its end: a rejected one
  is one it cannot frame.
* `Bisected`: the program bisection is left with crashes if the batch does.

**The invariant.** The three properties speak of a tool that has reported or
ended; `BatchInv` is about every step before.

* `Typed`, `InStep`: what waits is chunks that fit the window, of programs that
  can be framed unless the sweep reads them; a chunk past the first sink has been
  handed to the target.
* `NoneLost`: a verified program was handed over, or waits in a chunk, or in the
  pool.
* `Settled`: each program of each batch run was compared, or one of the batch
  hung, or, in the sweep, it waits in the tail that is behind the one that hung.
  Tails have tails, and the queue holds only the last one: `Waits` looks for the
  program at the place it had in the batch that was run.
* `NothingMissed`: as long as nothing is reported, what was handed over was right,
  and did not crash the host unless its chunk has still to go there.

Run `fuzz_tools` checked each part before it was proved. The action lemmas
(`DropKeeps` to `CompareKeeps`) follow the models' actions.

### The raw memory extension

For bytes of any width, words of four of them, and a buffer of any power of two
from a word up to the address space (`RawMemAssumption`), and for every operand
there can be (`HalvesAssumption`).

**Where an access lands.** The reference masks an offset and clears its low bits;
the emitted code, which has no register to spare for a mask, shifts left and
right again. `ShiftsMask` says that two shifts leave the remainder, `MaskIsAt`
that the third, for an access wider than a byte, leaves the multiple of the
width below it. `AccessStaysInside` follows: the emitted code carries no bounds
check and needs none. That a power of two is what repeated doubling gives, and
that widths multiply (`PowersAdd`), goes by induction over the exponent.

**The loops.** The reference copies from its source while it writes, and so does
the helper, a byte at a time and upwards: `CopyIs` and `MoveAgrees` show the two
equal step by step, also where the ranges overlap and where the source wraps. A
comparison is in the reference the difference at the lowest place that differs,
in the helpers a loop that keeps the first difference it meets: `CmpAgrees` and
`SliceAgrees` say what the loop holds after `n` places (`FirstNext`).

### The stack margin

For any finite set of functions, in any files and of any frames, any calls,
guards and functions of dynamic frame (`StackMarginAssumption`: a call site is in
a function with a body, and the margin's function has one).

**What is in doubt.** The property speaks of every chain of calls there can be at
run time; the tool meets each function once, remembers what it found, cuts where
a guard is, and refuses when a signature comes twice on its stack. What was
found of a function below one caller is used below another, with another stack
above it.

**The argument.** `Good(f, b)`, that `b` is the depth of the deepest chain from
`f` and none of them meets a problem, does not mention the stack. `Sound` says
that every entry of the memo is `Good` as long as nothing has been refused, and
`Gives` that a walk keeps it so and never takes a refusal back; `RightWalk`, that
what it returns is `Good`. `WalkOneGives` shows this of one level from the level
with one more signature on the stack, `WalkIsRight` of all, by induction over the
signatures that are not on it. What carries it up are `ClearAbove`, that no chain
through `f` repeats a function if none below does (a chain that comes back to
`f` can go on to the callee it began with, and that one it repeats), and
`DeepestAbove`. A walk that meets a problem returns too little, and that may be
remembered too; but then the answer is a rejection.

`ChainsAreAll` closes the other side: the property counts chains by their number
of calls and stops at the number of functions. A chain without a repetition has
all its functions but the last different, so none is longer (`FS_Injection`).

`WalkFrom`, `ChainsOf`, `Best` and `Depth` are recursive functions, as are the
helpers' loops in `RawMem`; that each exists is `Recursion` or, where the argument is a set that grows,
`RankedRecursion`.

### Only model-checked

The properties of `Generator`, and the liveness properties. Nothing can be proved
of `GeneratorTools` itself, which reaches recursive operators: `HalvesSpec` and
`MarginSpec` are what it does to the variables of the two tools, step for step.
Liveness under fairness (and ENABLED) is beyond this prover, as is structural
induction over data: what a recursive definition (the evaluator and the mutator
over trees) computes for every input stays with TLC.

## 8. Limits of the models

* Encodings are not modelled: a halfword is what it does, and the only numbers
  kept are those that can fail to fit. Whether `armv6.h` encodes each operation
  rightly is a pure question its host tests settle case by case.
* `Assembler` lets any operation follow any other. It therefore also covers
  orders the translator never asks for; a violation would have to be checked
  against the translator, and the one found (`far_callee`) was.
* `Translator` follows one path through each construct, the one the program
  takes, as the emitted code does; that code of other paths has run before a
  merge is in `Joined`, which takes away from the machine what the paths need
  not agree on. A terminator that leaves a construct from inside an arm
  (`translate_control_flow.cpp`, handleGlobalJump) is stepped up to its return.
  A construct with nothing in either arm, for which nothing is emitted, is one step
  (`SkipIf`).
  FALLTHROUGH and DEFAULT, which run on into the next case, are in
  `ProgramLoad` and `Assembler` but not yet in `Translator`.
* In `Translator` a value is one of two; every arithmetic family is represented
  by an opaque function. What ADD adds is not the subject.
* In `ProgramLoad` an instruction is one byte, an extension's as many as its
  description says. LEB128 and the opcode table are not modelled.
* In `CodeCache` a call is one step, `callHelper` included; that helpers reach
  the translator with the operand stack in order is `Excursion`'s and
  `Translator`'s side. The tick wraps at a small constant instead of 2^32.
* `Excursion` takes the bytes of `run`'s frame as unchanged by the program:
  that the budget keeps the stack out of them is the stack budget's business.
* In `FuzzTools` a timeout is met by the program that spins and by no other: the
  limits are taken to be as generous as their comments say. SIGINT goes to the
  tool's process alone, not to the emulator it waits for. A lane passes or fails;
  a finding's program is identified by the round that drew it. The window of
  `qemu-exec.ts` is smaller than the runner's (0x6000 against 0x20000 bytes),
  and so it is here.
* In `GeneratorTools` a random draw is a choice among all it could give, so
  nothing is said of how likely a mutant is. A program is the tree, never its
  text: printing and parsing are taken to be inverse. What `Lowering` knows of
  the lowerer, which is another repository's, is what the comments and the
  retries of `fuzz/ts/` say of it. They do not say which constant shift amounts
  become immediates: a program counts as valid if it is accepted when all do, and
  as refused if it is so both when all do and when none does. A finding is an engine's wrong answer: a
  program the target hangs on is not shrunk here.
* `StackMargin` starts from the call graph; reading the compiler's `.su` and
  listing files is not modelled.

Not modelled, with the reason:

* the stack budget (`executor.cpp`, the sum of reserved bytes): its terms are
  measured sizes, constants to every module that uses them; it appears as a
  verdict in `ProgramLoad` and as margins in `CodeCache`;
* the encoder's bit layout, the opcode table, LEB128 and the frame's hash: pure
  functions with no state, each settled by host tests against another
  implementation;
* the routines of CLZ and REVBITS, for the same reason;
* the coverage image and its bitmap, the reports made of it, `bench/`, the
  start-up code of the target images and the disassembly dump: measurement and
  build tools, nothing of which the JIT depends on;
* a batch's aggregate timeout on programs that do end (`driver.ts:432`): the
  models take the limits to be as generous as their comments say;
* the validator (another repository): what the code relies on is listed in
  section 1.

## 9. What could come next

1. FALLTHROUGH, DEFAULT and returns out of arms in `Translator`, which has them
   only up to the branch.
2. The stack budget as a module, from the deepest stack of an excursion:
   records and operands of nested calls, the deeper of a helper and a
   translation, the interrupt's frame.
3. `FuzzTools`: the signal reaching a sink as well, and timeouts that a slow
   program can meet.
4. Proofs about `Generator`, once the provers can do induction over trees.

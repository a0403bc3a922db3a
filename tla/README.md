# StickVM in TLA+

A model of the StickVM register machine (`vm/`, `io/`), its TLC runs and its
TLAPS proofs. Paths and line numbers are those of the repository; `PROJECT.json`
maps every definition to the lines it stands for.

## 1. The system

StickVM is one process and one thread: `main` makes a VM, loads a `.stk` file
into it, runs it and exits with its panic code.

| Component | State | Operations |
| --- | --- | --- |
| Interpreter, `vm_run` (vm/vm.c:321) | `ip`, registers (tags and payloads in two arrays), globals, `panic_code` | one case per opcode; the macros of vm/typing.h:89-122 implement 68 of them |
| Calls (vm/vm.c:169-294, 487-544) | `frames`, `framecount`, `framecap`, `current` | `push_frame`, `pop_frame`, `vm_call`, CALL, RET |
| Values (vm/typing.h) | none of their own | a tag, and 8 bytes read through one member of a union |
| Arithmetic (vm/vm.c:547-645) | registers | binary, comparison, unary, cast |
| Encoding (vm/vm.h:100-131) | none | `pack`, field getters, two sign extensions |
| Loader (io/reader.c, `vm_load`, vm/vm.c:114) | the locals of `vm_load_file`, the owning fields of the VM | open, header, code, registers, constants, patching, globals, `vm_load`, two cleanup labels |
| Process, `main` (vm/vm.c:663) | the VM, the exit code | `vm_init`, load, run, `vm_free` |
| Tools (utils/*.py, Makefile) | files | write test programs, disassemble, run and compare exit codes |
| Heap header (vm/heap.h) | none yet | declarations nothing uses |

**How they interact.** The loader hands the instruction stream, the constants and
the function table to the VM, which owns them from then on; a callable constant is
turned from bytes `<entry, argc, regc>` into a `Func` pointer that the constant
pool and the table share. Files come from the writer of utils/test.py, which has
encoders of its own, and can be shown by utils/disasm.py, which has decoders of its
own; utils/runner.py runs the binary on each file and reads its exit code. The interpreter reads what the loader left and never
changes it. A call links two frames through the register file: the window of the
callee starts where that of the caller ends, and the result is written to a
register of the caller. `vm->current` points into the array that `push_frame`
reallocates. `main` reads the exit code out of the VM.

**What is hard.** There is no concurrency, nothing is persisted, nothing is sent.
The difficulties are long sequences of legal instructions (frames and register
windows many calls deep), limits (65536 registers, 256 frames, u16 bases, the
doubling of the frame array), pointers into memory that moves, tags and payloads
that have to change together, and a loader with thirteen gotos that share
two cleanup labels. `hazards` in `PROJECT.json` lists each of them at its line.

**What makes each component correct.** Calls: a frame resumes behind the CALL that
made it, its result goes where that CALL said, its registers are its own while it
is suspended, and the limits are the stated ones. Data: a register never holds the
payload of another type. Interpreter: it stops, if at all, with a code that tells
success from failure. Loader: nothing is freed twice, lost or left half made.
Process: what was allocated is freed and the exit code is the reason. Arithmetic:
the opcodes agree with each other as C's operators do. Encoding: what an author
asks for is what runs, and what is shown. Runner: a failure is not called a pass.

## 2. The modules

| Module | Stands for |
| --- | --- |
| `Errors` | the panic codes of vm/errors.h |
| `Typing` | tags, union members, opcode groups: vm/typing.h, vm/opcodes.h |
| `Arith` | what the operators behind the typed macros result in |
| `Chunk` | instructions, functions and programs as a load leaves them |
| `StickVM` | `vm_run` and everything it calls |
| `Laws` | programs that state laws of integer arithmetic, in the style of utils/test.py |
| `MCStickVM` | programs for TLC to run `StickVM` on, those of `Laws` among them |
| `PrivateFrames` | abstract: frames that own their registers |
| `FrameIsolation`, `MCFrames` | `StickVM` as an implementation of `PrivateFrames`, and programs for it |
| `Loader` | `vm_load_file`, `vm_load`, `vm_init`, `vm_free`, `main`: who owns which memory |
| `MCLoader` | files for TLC to run `Loader` on |
| `Encoding`, `MCEncoding` | a file between the writer, the machine and the disassembler |
| `Process`, `MCProcess` | `Loader` and `StickVM` composed as `main` does, and the verdict of utils/runner.py |
| `StickVM_proofs`, `FrameIsolation_proofs`, `Loader_proofs`, `Process_proofs`, `Encoding_proofs`, `Arith_proofs`, `Laws_proofs` | theorems about the modules of those names, checked by TLAPS |
| `WellOrdering` | induction over the naturals in a form the provers can use |

`StickVM` extends `Arith` and `Chunk`, which extend `Typing` and `Errors`; `Laws`
extends `StickVM`.
`Process` instantiates `Loader` and `StickVM`; `FrameIsolation` extends `StickVM`
and instantiates `PrivateFrames`. `Encoding` stands alone. A module of theorems
extends the module it is about; `FrameIsolation_proofs` also extends
`StickVM_proofs`, `Laws_proofs` that and `Arith_proofs`, and `Process_proofs`
instantiates the theorems of the two components.

### StickVM

One action is one iteration of the loop: fetch, the whole case, every helper.
`Binop`, `Cmpop`, `Unop` and `Cast` stand for all the cases that their macro
implements. A case that returns false is the same action with another outcome
(`Fail`), chosen in the order in which the code checks: `EnsureRegs(need, Rest)`
and `RequireType(regs, tag, Rest)` guard the rest of the case as `ensure_regs` and
`require_type` do.

- `types` and `payloads` are the two arrays of `vm->regs`. A payload records the
  union member it was last written through (`as`) and what it holds (`val`): this
  is what makes a payload under a foreign tag visible. The byte counts, the upper
  bytes of a float and the bits of a pointer are left out.
- `frames` is the live part of the frame array. `block` numbers its allocations
  and `current` is a pair of allocation and slot: after a `realloc` an old
  `current` is a dangling pointer, and shows as one.
- `status` says whether `vm_run` has been called, is running, or how it ended.
  `"wild"` is an access outside the registers or through a payload that is no
  pointer; `"trap"` a division that C leaves undefined. Both end the behaviour:
  past them C promises nothing.
- A `malloc` or `realloc` may fail whenever it is called.
- The program is a variable that never changes, chosen in `Init` from the constant
  `Programs`: one run covers all of them. `Program` says what the loader can
  produce, from the encoders of utils/test.py: callables in the constant pool name
  functions, callables in the global pool are raw bytes (io/reader.c:127 patches
  only the constants), booleans are 0 or 1 and tags are those of the enum.
- Numbers keep what the control tells apart: integers are words of `Width` bits
  (`HalfWord` is half of their range), floats are zero or not zero. The integer
  opcodes are exact (`Arith`): an opcode has a set of results, of one element where
  C defines the result and the whole type where it does not (signed overflow,
  shift counts outside the word, left shifts of negative numbers). gcc, which the
  Makefile names, defines the casts between `i64` and `u64` and the right shift of
  a negative number; those follow gcc.
- Native functions are external. Nothing in the repository makes one
  (`vm_new_native` is a comment, vm/vm.h:249); `CallNative` follows the branch of
  `vm_call` and lets the function leave a null or a boolean in its result
  register. Theorems that mention natives hold under that assumption.

### Loader

`vm_load_file` is one action per allocation or read, with the checks and the goto
behind it; `pc` names what comes next, the labels `fail_code` and `fail_file`
included. An allocation is named by the variable that receives it, `live` is the
set of those not freed, and `misuse` remembers a free of something that is not
live (`free(NULL)` is nothing). The FILE handle is an allocation too. A file is
what the loader tells apart: its header, the count of instructions, which
constants are callables, whether there are globals, and how many of its sections
are complete. `Run` is `vm_run` as far as memory and the exit code go.

The memory of a VM and the run of its program touch each other only through what
is loaded, which is why they are two modules: `StickVM` starts where `Loader` is at
`"loaded"`, with the globals that `vm_load` could or could not allocate (the two
alternatives of its `Init`).

### Process

`Process` puts the two together. It has the variables of both and, of its own, the
message that `vm_panic` printed, whether the runner uses valgrind, and its verdict.
Loading is the actions of `Loader`; `Boot` is the end of `Load`, where the machine
gets its globals and the panic code of `vm_load`; `Execute` is a step of `StickVM`;
`Return` hands frames and panic code back to the VM that `Loader!Exit` frees;
`Judge` is the runner. Where `Loader` leaves open what `vm_run` does (`Run`, any code
in `Codes`), the interpreter decides: `LoaderSpec` says that what it does is one of
the things `Loader` allows. The file is tied to the program it holds (`Holding`).
A run past what C defines ends the process with any verdict, a trap with a fail.

### PrivateFrames

What README.md:36 of the repository promises, without the means: there is no
register file and no base, a frame owns its registers, an instruction names only
those of the frame on top, RET hands one value to one register of the caller.
`FrameIsolation` maps the state of `StickVM` to it: `stack` is the sequence of
windows cut out of the register file (`Private`), everything else is itself. The
abstract machine has no outcome for a program that meets the register limit or
leaves the register file, so the refinement also says that neither happens. It is
stated for `Tidy` programs, in which no instruction names a register outside the
narrowest window: the machine does not check that, and an untidy program does
reach into other windows.

### Encoding

A behaviour takes one request of an author through a file: an instruction built
with `ins`, with a helper such as `JMPIF`, a function, or the counts of the header.
The writer turns it into bytes (`Write`), the machine reads and decodes them (`Run`),
the disassembler does so with its own decoders (`Disassemble`). Bytes are digits to
the base `Byte`. The writer and the disassembler fix little endian; the machine puts
the header in order byte by byte (`read_u32_le`) but reads words, and the fields of
a callable, in the order of its host, which is part of the state. The opcodes
included are those whose operands are decoded in different ways.

## 3. What is checked

| Run | Expectation | What it shows |
| --- | --- | --- |
| `vm_calls` | pass | frames, windows and limits over every program of four call-related instructions and over nested calls; termination and the measure behind it |
| `vm_data` | pass | tags and payloads over every opcode and every pair of operand types; ten laws of arithmetic over every pair of words |
| `private_frames` | pass | the register file with its bases implements frames that own their registers |
| `loader` | pass | ownership over every failing file and allocation |
| `encoding` | pass | writer, machine and disassembler agree, but for the high byte of conditional jumps |
| `process` | pass | verdicts, messages, exit codes and function lifetimes through load, run and free |
| `windows_wrap` | violated | a base wraps to 0 when the windows fill the register file |
| `args_dropped` | violated | arguments are not in the first registers of the callee |
| `scope_kept` | violated | RET clears nothing |
| `funcs_leaked` | violated | a callable behind another constant is not freed |
| `jumpif_offset` | violated | the writer drops the high byte of a conditional jump |
| `exit_code_lost` | violated | a failed load exits with 1, whatever the reason |

The six violated properties each state what a comment or the README of the
repository says; `findings` quotes the line.

**StickVM.**
`CurrentIsTop`: `vm->current` survives the reallocations.
`DisjointUntilFull`: frames do not share registers, as long as none between them
ends on the last register (there `windows_wrap` has its counterexample).
`FramesMirrorCalls`: a frame is the one its CALL asked for.
`SuspendedKept`: a step writes no register of a suspended frame, but for the RET
that delivers a result.
`OverflowOnlyAtLimit`: a stack overflow means MAX_FRAMES frames, not a capacity
that failed to grow.
`HonestExit`: success and failure have the exit codes they should, PANIC 0 aside.
`TagsAgree`: no payload under a foreign tag.
`RoomyIsSafe`: for programs whose functions reserve at most 255 registers, the
checks that RET and natives lack cannot matter: 16 + 255 * 255 + 256 is 65297, less
than 65536.
`LeavesByTheEnd`: no jump and no return leads out of the code; what does is a last
instruction that goes on to the next, and a function that the file puts outside.
`LeftToDoShrinks`: in a program without a backward jump each step leaves less to
do, in the lowest frame that it touches; recursion does not defeat it.
`CallsEnd`: such a program ends.
`LawsHold`: programs in the style of utils/test.py that compute both sides of a law,
such as `(x / y) * y + x % y = x`, find them equal on every pair of operands for
which C defines all their steps. They connect the signed integer opcodes with each
other, and with the unsigned sum, difference, product, left shift, negation and two
of the comparisons; which operands each law names is the list of what is undefined.
`FramesArePrivate`: the refinement of `PrivateFrames`.

**Loader.**
`FreedOnce`: nothing is freed that is not allocated.
`NothingLost`: while `vm_load_file` is at work everything allocated has an owner.
`FailedLoadIsClean`: a failed load leaves the VM as `vm_init` made it.
`FailureHasCode`: every failure but the one of the registers sets `err`.
`PoolPatched`: while a program runs its callables are pointers to live functions.
`Leftovers`: exactly what a process leaves allocated. When the callables come
first in the constant pool that is nothing, as it is in every pool that
utils/test.py writes, so no test shows the leak.

**Encoding.**
`RunsAsAsked`: what the machine runs is what the author asked for; a conditional
jump exactly when its offset is one unsigned byte.
`ShownIsRun`: the disassembler shows what the machine does, except for a
conditional jump that has a high byte.
`HeaderIsPortable`: the counts are right on a host of either byte order. Words and
functions are not, which is why the other two are about little-endian hosts.

**Process.**
`VerdictTells`: when a test passes. Without valgrind, exactly when the program
halted or returned, or chose PANIC 0. Under valgrind a file that fails to load
passes too, and so does PANIC 1, with which every test of utils/test.py reports a
failure: such a run cannot fail on a wrong result.
`CalleesLive`: a function that a register, a global or a frame holds is allocated
and is the one its constant points to.
`FailureIsSaid`: every failure the machine reports is printed and is the exit code.
`LostGlobals`: after a failed allocation of the globals, which nobody reports, the
program stops at the first instruction that needs one.
`LoaderSpec`: the process implements `Loader`.
`Verdict`: a test without a backward jump gets a verdict.

**Bounds, and why they are enough.**

- `vm_calls`: `MaxRegisters` = 14, `MaxFrames` = 5, `FirstFrameCap` = 2, so that the
  frame array is allocated, doubled, and doubled with the clamp; `BaseRegisters` = 2
  and functions of 0, 1, 6 and 12 registers, so that the frame limit comes first
  for narrow ones, the register limit for others, and windows end exactly on the
  last register after one call (12) and after two (6). `Byte` = 8 lets operands 0
  to 7 reach past a window and, near the limit, past the register file. Programs
  have four instructions, enough for recursion, for a return into the middle and
  for a caller that goes on with what it kept (`AnyFour`), or are a function that
  calls another, so that a return also goes to a caller above the entry frame
  (`Nested`), or jump and call around the end of their code (`AtTheEdge`): to its
  last instruction, to the place behind it and past that, with functions that begin
  inside, exactly at the end and behind it.
- `vm_data`: two constants are loaded, one instruction works on them, one more uses
  the result: `TagsAgree` is about single registers, so two operands, a result and
  a use are all there is to combine. Words have 4 bits: all 256 pairs of operands
  are tried on each law, the least integer, -1, and shift counts at and past the
  edge of the word among them.
- `private_frames`: `MaxFrames` = 3 and two functions of 2 or 3 registers, either of
  which may call itself or the other, so that a value can be kept by a frame while
  two more come and go above it; 13 instructions at three places, which are all
  the ways a value gets into, out of or across a frame.
- `encoding`: `Byte` = 8 keeps every carry and sign extension of `Byte` = 256 (the
  assumption is that it is even, for the sign bit, and at least the number of
  opcodes). Offsets go past one byte in both directions, register numbers past the
  last; header counts up to all four bytes.
- `process`: 821 programs with callables before and behind another constant, with
  no, a plain and an unpatched global, ending in each way there is, the trap and
  the wild call included; files that are good, cut, of another version or too
  long. `Byte` = 20 is the least that lets PANIC name a code without a message (19).
  `Loader` explores the failing files in full by itself.
- `loader`: pools of up to three constants cover a callable before, behind and
  between others; `MaxCount` = 1 puts the instruction count below, at and above
  the limit.
- All runs are complete explorations. `block`, `ip` and the depth of the stack are
  bounded by the programs themselves, but for programs that loop (`JMP -2`), whose
  states repeat: `block` grows only with `framecap`, which `MaxFrames` bounds.

**Fairness.** `vm_run` is a loop in one thread and no iteration waits for anything:
weak fairness of `Step` says no more than that the thread goes on. In `Process` it
also says that the runner, which waits without a timeout, goes on when the process
has ended. `Terminated`
lets ended behaviours stutter, so that deadlock stays checked in every run.

## 4. What is proved

Every safety property that a passing run checks is also a theorem: for every value
of the constants that satisfies the named assumptions.

| Module | Theorem | Property |
| --- | --- | --- |
| `StickVM_proofs` | `TypeCorrect` | `TypeOK` |
| | `FramePointerIsLive` | `CurrentIsTop` |
| | `NoMixedValues` | `TagsAgree` |
| | `WindowsAreDisjoint` | `DisjointUntilFull` |
| | `ReturnsMatchCalls` | `FramesMirrorCalls` |
| | `CallersAreKept` | `SuspendedKept` |
| | `OverflowIsTheLimit` | `OverflowOnlyAtLimit` |
| | `NoJumpLeavesTheCode` | `LeavesByTheEnd` |
| | `ExitCodeIsHonest` | `HonestExit` |
| | `NarrowProgramsAreSafe` | `RoomyIsSafe` |
| | `RunsShorten` | `LeftToDoShrinks` |
| `Laws_proofs` | `LawsAreKept` | `LawsHold` |
| `FrameIsolation_proofs` | `FramesOwnTheirRegisters` | `FramesArePrivate` |
| `Loader_proofs` | `LoaderTypes` | `TypeOK` |
| | `NoDoubleFree` | `FreedOnce` |
| | `NothingIsLost` | `NothingLost` |
| | `FailedLoadsClean` | `FailedLoadIsClean` |
| | `FailuresAreCoded` | `FailureHasCode` |
| | `CallablesArePatched` | `PoolPatched` |
| | `WhatIsLeft` | `Leftovers` |
| `Process_proofs` | `ProcessImplementsLoader` | `LoaderSpec` |
| | `VerdictsTell` | `VerdictTells` |
| | `FailuresAreSaid` | `FailureIsSaid` |
| | `CalleesAreLive` | `CalleesLive` |
| | `LostGlobalsStop` | `LostGlobals` |
| `Encoding_proofs` | `ProgramsRunAsAsked` | `RunsAsAsked` |
| | `ListingsAreTrue` | `ShownIsRun` |
| | `HeadersArePortable` | `HeaderIsPortable` |

Without a property of a passing run: the inductive invariants (`StackHolds`,
`LoaderInvariant`, `ProcessInvariant`, `EncodingInvariant`); `NoLeakWhenFirst`, which
is the leak of `funcs_leaked` turned round, that a process frees everything when the
callables come first in the constant pool; `DescentEnds`, that what
`LeftToDoShrinks` descends cannot be descended for ever; and the laws of
`Arith_proofs`.

**The interpreter.** A proof per action and property would repeat the same few facts
some twenty times over. `StepEffect` instead shows once that every action has one
of five shapes: a run *starts*, *works* inside the frame on top, *calls*, *returns*
or *stops*. A shape says which registers and globals may change, and for a stop
which panic code it has and what in the state excuses it. Each invariant is then
proved from the shapes. What an opcode computes enters only through
`DyadicResultsTyped`, `UnopResultsTyped` and `CastResultsTyped`: every result in
`Arith` is a value of its type.

- `Core` is inductive by itself: `TypeOK`, `TagsAgree`, `CurrentIsTop`, and that
  `panic_code` is clear while running. `TypeOK` needs `CurrentIsTop`, since
  registers are addressed through `current`; it needs `TagsAgree`, since CALL
  follows a payload whose tag says CALLABLE.
- `Stack`, relative to `Core`: the entry frame is at the bottom and the others run
  functions of the program and were called from inside its code, every window ends
  inside the register file, there are at most `framecap` frames, and
  `FramesMirrorCalls`, `DisjointUntilFull`. The window bound is what turns `U16(base + regc)` into either the plain sum or 0, the
  latter only behind a frame that ends on the last register.
- `Packed`, for programs of bounded width: frame `i` ends at or below
  `BaseRegisters + (i - 1) * width`. With at most `MaxFrames` frames, every base
  plus any operand is inside the register file.
- `EdgeInv`, relative to `Core` and `Stack`: `LeavesByTheEnd`, and that `ip` is 0
  before the run. A return lands behind a CALL of the code because `Stack` says
  where each frame was called.
- `SuspendedKept` and `OverflowOnlyAtLimit` are action properties and follow from
  `Core` and `Stack` in the state before the step.

**The refinement.** `FramesOwnTheirRegisters` takes the shapes one by one: a start
is a start of `PrivateFrames`, and so on. Its invariant `TidyInv` is `Core`, `Stack`,
the bound of `Packed` and `Isolated`: no register holds raw bytes, and the result of
a frame goes to a register inside the window of its caller. A call has to show that the windows below look as before and that the new one holds
what its registers held; a return, that the only register written is the one of
the caller that the abstract RET writes. A stop is easy except for the outcomes that
`PrivateFrames` does not have: no tidy program gets a register limit or leaves the
registers.

**The loader.** The invariant says that the heap is exactly what the pointers say
(`Owned`): between the first `fopen` and the cleanup, and again once the VM owns
what was loaded, an allocation is live if and only if a local of `vm_load_file`, a
field of the VM or an entry of the function table points to it. `FreedOnce` is not
inductive without it: that a free hits something live depends on which of the
thirteen gotos was taken. `Named` says that a pointer is null or its own
allocation, so no two alias; `Progress` how far each `pc` has come, so that a label
meets only pointers that were set or are still null; `Patched` that the callables
passed so far, and only those, are pointers, each in the table at its own index, and
that `funccount` is how many they are. `vm_free` goes through the first `funccount`
entries: `WhatIsLeft` is what that misses.

**The process.** The invariants of the two components carry over: each action of
`Process` is an action of the loader, a step of the interpreter, or touches neither,
so `LoaderInv`, `Core` and `Stack` hold in the composition and are cited, not proved
again. What is new is about the seam: `Shared` (the file is the one of the program,
and while the machine runs the loader stands at `"loaded"`), `Told` (what was printed
and returned is what the run ended with) and `Judged` (the verdict follows from
those). `CalleesLive` joins both sides: `StickVM` bounds which functions a register
can name, `Loader` says that those are allocated.

**The encoding.** Everything in a behaviour is a function of the request
(`EncodingInv`), so the theorems are about decoding what was encoded. `Divided`,
`Composed` and `Nested` give the digits of a sum of products, `Weights` that the
weights are powers of an even base, `SignExtends` and `SignComesBack` that a field
of two or three bytes comes back from its two's complement exactly when the number
fits. `HighByte` is why a conditional jump survives only with an offset of one
unsigned byte.

**Termination.** `LeftToDo` has one entry for each possible frame: how many
instructions are left from where the frame resumes, 0 where there is no frame.
An ordinary step, a forward jump included, makes the entry of the top frame
smaller; a call makes the entry of the caller smaller, which resumes behind the
CALL, whatever it adds above; a return makes that of its own frame 0. So each step
makes the tuple smaller where it first differs (`ShrinkStep`, by the shapes, from
`Core` and `Stack`). `DescentEnds` says that this order on tuples of bounded numbers
is well founded; `FirstOfMany` finds the least tuple of a set entry by entry. What
is left for `CallsEnd` is that the thread goes on, which is its fairness.

**Arithmetic.** `Arith_proofs` proves the laws for words of any width, of whatever
results the steps of the two sides may have: `DivisionLaw`, `NegationLaw`,
`SubtractionLaw`, `CastLaw`, `OrderLaw`, `DeMorganLaw`, `ExclusiveOrLaw`,
`ShiftLeftLaw`, `ShiftRightLaw` (the tenth, that `GE` is not `LT`, is immediate); and
`UnsignedIsExact`, that an unsigned operation has one result. `Truncates` is the
sign and size of C's remainder; `WrappedIs` turns wrapping into "differs by a
multiple of the range", and `WrappedIsOne` says that each number has one such form in
each type. The laws about single bits are inductions over the width: `Powers` that
`PowerOf2` doubles, `Halved` that a word shifted by one more place leaves one bit,
`BitsDecide` that a word is what its bits say.

**The laws in the machine.** A law's program has ten to fourteen instructions, so an
invariant that lists what the registers hold at each of them, for ten programs,
would be unreadable. `Laws_proofs` says once what an instruction of such a program
does to the instruction pointer and the first four registers (`Follows`), and that
the machine is always at the end of a trace of such steps, has halted, has run out
of memory, or is past an instruction that `Follows` does not speak of (`Traced`,
inductive relative to `Core` and `Stack`). In the last case the trace may end in
any state, `Lost` among them. For each law it then remains to go through its
program: no trace of it ends in `Lost`, since each instruction has a result that
`Follows` names, the law makes the comparison true, the jump passes over `PANIC`,
and nothing follows `HALT`.

**Assumptions.** Each is stated in the first module that needs it, and TLC evaluates
it on every run of a module that extends that one.

- `StickVM`: `HalfWordAssumption`, `SizesAssumption` (the entry window leaves at
  least one register, the first capacity is within the limit),
  `ImmediateAssumption` (an immediate fits an integer), `ProgramsAssumption`
  (programs are well formed). The code's constants satisfy them: `Byte` = 256,
  `MaxRegisters` = 65536, `BaseRegisters` = 16, `MaxFrames` = 256, `FirstFrameCap` = 8,
  `HalfWord` = 2^63, `Width` = 64. `WidthAssumption` ties `Width` to `HalfWord`: the
  laws about bits and shifts need it.
- `Laws`: `OperandsAssumption`, that registers 0 to 3 exist and can be named.
- `FrameIsolation`: `TidyAssumption`, which says of the programs what the machine
  does not check.
- `Loader`: `FilesAssumption`, `MaxCountAssumption` (MAX_INSTRUCTIONS is positive),
  `CodesAssumption`.
- `Process`: `MachineAssumption` and `FileAssumption` are those of the two components,
  and that the codes of a run are those of the interpreter; `StorableAssumption`,
  that every callable constant makes a function of its own and no function is native,
  as the patch loop of the loader has it.
- `Encoding`: `ByteAssumption` (even, and at least the number of opcodes),
  `AskedAssumption` (requests are well formed).

**Model-checked only.** `CallsEnd` and `Verdict`: liveness under fairness is out of
the prover's reach. Their safety half is `RunsShorten` with `DescentEnds`; what is
checked only is that a running machine can always take a step. The violated
properties are refuted by their runs and are no theorems. TLC checks the laws on
words of 4 bits, the proofs hold for any width.

## 5. What is not modelled

- The values of floats and doubles: a float is zero or not. Whether two of them
  compare, and what arithmetic on them gives, is left open.
- vm/heap.h: declarations for a collector that does not exist; no source file uses
  them, so there is no behaviour to model.
- Output: the listing of the code, the wording of messages, the tables of the
  runner, the text of the disassembler. The usage message of `main`. The Makefile.
- The table of tests in utils/test.py, which is data; `LawsHold` is about programs
  of the same form.
- A second load or run of the same VM, which vm/vm.c:105 forbids and no code in the
  repository does.
- Values no encoder of the repository writes: tags above 7, booleans other than 0
  and 1, callables whose bytes were built to be pointers.
- Timeouts, retries, restarts, lost messages: the code has none.

## 6. Plan

Done: every component with behaviour of its own, the composition, both
refinements, and a theorem for every safety property. What could be added:

1. Laws for the opcodes that none names yet (`SHL`, `DIV_U`, `MOD_U`, the unsigned
   bit operations, the other comparisons), proved the way of `Laws_proofs`.
2. The collector of vm/heap.h, when there is one.

## 7. Running

```
tlc -workers 2 -config vm_calls.cfg MCStickVM
tlc -workers 2 -config loader.cfg MCLoader
tlapm StickVM_proofs.tla
```

`vm_calls` and `vm_data` take about a minute each, `private_frames` and `process`
about half of one, the others a few seconds. From nothing, `StickVM_proofs`,
`Loader_proofs` and `Laws_proofs` take about two minutes each,
`FrameIsolation_proofs` one, the others less than one.

--------------------------- MODULE Process_proofs ---------------------------
(***************************************************************************)
(* Theorems about Process: what holds of one run of the binary because it  *)
(* holds of its components.  The invariants of StickVM_proofs and          *)
(* Loader_proofs carry over to the composition: an action of Process is an *)
(* action of the loader, a step of the interpreter, or neither.            *)
(***************************************************************************)
EXTENDS Process, TLAPS

LP == INSTANCE Loader_proofs
MP == INSTANCE StickVM_proofs

-----------------------------------------------------------------------------
(* The modules with the proofs, and the modules that Process is made of,   *)
(* have the same definitions.                                              *)

\* What the theorems of the two modules assume of the constants.
LEMMA SameConstants ==
  /\ Programs \subseteq MP!Program /\ Files \subseteq LP!File
  /\ L!File = LP!File /\ M!Program = MP!Program
  /\ HalfWord \in Nat \ {0} /\ Width \in Nat /\ MP!PowerOf2[Width] = 2 * HalfWord
  /\ Byte \in Nat \ {0} /\ Byte * Byte <= 2 * HalfWord
  /\ MaxRegisters \in Nat /\ BaseRegisters \in 1 .. MaxRegisters - 1
  /\ MaxFrames \in Nat \ {0} /\ FirstFrameCap \in 1 .. MaxFrames
  /\ MaxCount \in Nat \ {0} /\ Codes \subseteq Nat
<1>1. L!File = LP!File
  BY DEF L!File, LP!File
<1>2. M!Program = MP!Program
  BY DEF M!Program, MP!Program, M!Instr, MP!Instr, M!Operand, MP!Operand, M!Value, MP!Value,
         M!Payload, MP!Payload, M!View, MP!View, M!Type, MP!Type, M!NumType, MP!NumType,
         M!Func, MP!Func, M!Reg, MP!Reg, M!Held, MP!Held, M!Agree, MP!Agree,
         M!ViewOf, MP!ViewOf, M!DataOf, MP!DataOf
<1>3. M!PowerOf2 = MP!PowerOf2
  BY DEF M!PowerOf2, MP!PowerOf2
<1> QED BY <1>1, <1>2, <1>3, MachineAssumption, FileAssumption

LEMMA SameMachine == M!Step => MP!Step
BY DEF M!NO_ERROR, MP!NO_ERROR, M!PANIC_OOB, MP!PANIC_OOB, M!PANIC_NO_HALT,
   MP!PANIC_NO_HALT, M!PANIC_OOM, MP!PANIC_OOM, M!PANIC_REG_LIMIT, MP!PANIC_REG_LIMIT,
   M!PANIC_STACK_OVERFLOW, MP!PANIC_STACK_OVERFLOW, M!PANIC_STACK_UNDERFLOW,
   MP!PANIC_STACK_UNDERFLOW, M!PANIC_INVALID_CALLABLE, MP!PANIC_INVALID_CALLABLE,
   M!PANIC_CALL_FAILED, MP!PANIC_CALL_FAILED, M!PANIC_TYPE_MISMATCH,
   MP!PANIC_TYPE_MISMATCH, M!PANIC_INVALID_OPCODE, MP!PANIC_INVALID_OPCODE, M!NumType,
   MP!NumType, M!ViewOf, MP!ViewOf, M!DataOf, MP!DataOf, M!Bits, MP!Bits, M!NulBits,
   MP!NulBits, M!Falsy, MP!Falsy, M!BinopOf, MP!BinopOf, M!CmpopOf, MP!CmpopOf,
   M!UnopOf, MP!UnopOf, M!Casts, MP!Casts, M!Implemented, MP!Implemented, M!Abs,
   MP!Abs, M!PowerOf2, MP!PowerOf2, M!Quotient, MP!Quotient, M!BitOf, MP!BitOf, M!Wrapped, MP!Wrapped,
   M!Fitting, MP!Fitting, M!BitResult, MP!BitResult, M!Bitwise, MP!Bitwise,
   M!DivisionUndefined, MP!DivisionUndefined, M!ShiftUndefined, MP!ShiftUndefined,
   M!IntegerResults, MP!IntegerResults, M!Holds, MP!Holds, M!IntType, MP!IntType,
   M!BinopResults, MP!BinopResults, M!CmpopResults, MP!CmpopResults, M!DyadicResults,
   MP!DyadicResults, M!UnopResults, MP!UnopResults, M!CastResults, MP!CastResults,
   M!data, MP!data, M!stack, MP!stack, M!Signed, MP!Signed, M!SignedI16, MP!SignedI16,
   M!SignedI24, MP!SignedI24, M!U16, MP!U16, M!Ins, MP!Ins, M!Fetch, MP!Fetch, M!Base,
   MP!Base, M!GoTo, MP!GoTo, M!Continue, MP!Continue, M!End, MP!End, M!Fail, MP!Fail,
   M!Wild, MP!Wild, M!EnsureRegs, MP!EnsureRegs, M!RequireType, MP!RequireType,
   M!HighestOf, MP!HighestOf, M!SetReg, MP!SetReg, M!JumpRel, MP!JumpRel, M!NewCap,
   MP!NewCap, M!PushErrors, MP!PushErrors, M!PushFrame, MP!PushFrame, M!PopFrame,
   MP!PopFrame, M!RefreshCurrent, MP!RefreshCurrent, M!EntryFrame, MP!EntryFrame,
   M!Start, MP!Start, M!Halt, MP!Halt, M!Panic, MP!Panic, M!Jmp, MP!Jmp, M!JmpOn,
   MP!JmpOn, M!JmpIf, MP!JmpIf, M!JmpIfz, MP!JmpIfz, M!InvalidOpcode, MP!InvalidOpcode,
   M!NoHalt, MP!NoHalt, M!Copied, MP!Copied, M!Copy, MP!Copy, M!Moved, MP!Moved,
   M!Move, MP!Move, M!LoadI, MP!LoadI, M!LoadFrom, MP!LoadFrom, M!LoadC, MP!LoadC,
   M!LoadG, MP!LoadG, M!StoreG, MP!StoreG, M!CallFailed, MP!CallFailed, M!CalleeFrame,
   MP!CalleeFrame, M!CallBytecode, MP!CallBytecode, M!CallNative, MP!CallNative,
   M!Call, MP!Call, M!ReturnSlot, MP!ReturnSlot, M!Ret, MP!Ret, M!Compute, MP!Compute,
   M!Dyadic, MP!Dyadic, M!Binop, MP!Binop, M!Cmpop, MP!Cmpop, M!Unop, MP!Unop, M!Cast,
   MP!Cast, M!Lnot, MP!Lnot, M!Step, MP!Step

LEMMA SameLoader ==
  /\ L!Init <=> LP!Init
  /\ [L!Next]_(L!vars) <=> [LP!Next]_(LP!vars)
BY DEF L!NULL, LP!NULL, L!Block, LP!Block, L!Fn, LP!Fn, L!heap, LP!heap, L!pool, LP!pool,
   L!vars, LP!vars, L!NewVM, LP!NewVM, L!Init, LP!Init, L!Allocate, LP!Allocate,
   L!Free, LP!Free, L!Fail, LP!Fail, L!OpenFile, LP!OpenFile, L!HeaderError,
   LP!HeaderError, L!ReadHeader, LP!ReadHeader, L!ReadCode, LP!ReadCode, L!MakeRegs,
   LP!MakeRegs, L!PoolFailed, LP!PoolFailed, L!ReadConsts, LP!ReadConsts,
   L!PatchedPayload, LP!PatchedPayload, L!Counted, LP!Counted, L!StoreFunc,
   LP!StoreFunc, L!Patch, LP!Patch, L!ReadGlobals, LP!ReadGlobals, L!Load, LP!Load,
   L!CleanedVM, LP!CleanedVM, L!FailCode, LP!FailCode, L!FailFile, LP!FailFile,
   L!Freed, LP!Freed, L!VmFree, LP!VmFree, L!Refuse, LP!Refuse, L!Run, LP!Run,
   L!ExitCode, LP!ExitCode, L!Exit, LP!Exit, L!Next, LP!Next, L!NO_ERROR, LP!NO_ERROR,
   L!PANIC_FILE, LP!PANIC_FILE, L!PANIC_BAD_MAGIC, LP!PANIC_BAD_MAGIC,
   L!PANIC_UNSUPPORTED_VERSION, LP!PANIC_UNSUPPORTED_VERSION, L!PANIC_EMPTY_PROGRAM,
   LP!PANIC_EMPTY_PROGRAM, L!PANIC_PROGRAM_TOO_BIG, LP!PANIC_PROGRAM_TOO_BIG,
   L!PANIC_OOM, LP!PANIC_OOM, L!PANIC_TRUNCATED_CODE, LP!PANIC_TRUNCATED_CODE,
   L!PANIC_CONST_READ, LP!PANIC_CONST_READ, L!PANIC_GLOBAL_READ, LP!PANIC_GLOBAL_READ,
   L!Terminated, LP!Terminated

-----------------------------------------------------------------------------
(* The invariant                                                           *)

\* What the interpreter has before a file is loaded: a VM as vm_init leaves it.
Fresh ==
  /\ ip = 0
  /\ types = [r \in MP!Reg |-> "NUL"]
  /\ payloads = [r \in MP!Reg |-> MP!NulBits]
  /\ globals = << >> /\ frames = << >> /\ framecap = 0 /\ block = 0
  /\ current = [block |-> 0, index |-> 0]
  /\ panic_code = NO_ERROR

\* Where the loader and the interpreter stand, and what they share.
Shared ==
  /\ prog \in Programs /\ file \in Holding(prog)
  /\ status = "unloaded" => Fresh
  /\ status = "unloaded" <=> pc \notin {"loaded", "ran", "exited"}
  /\ status # "unloaded" => MP!Core /\ MP!Stack
  /\ pc \in {"ran", "exited"} => status \in {"ok", "failed"}
  /\ pc = "loaded" /\ vm.globals = L!NULL => globals = << >>

\* A run that failed has a panic code, or the code its PANIC asked for.
Explained ==
  \/ panic_code \in 1 .. PANIC_INVALID_OPCODE
  \/ /\ ip \in DOMAIN prog.code /\ prog.code[ip].op = "PANIC"
     /\ panic_code = prog.code[ip].a

\* The code on its way from vm_run to the shell.
Told ==
  /\ status = "ok" => panic_code = NO_ERROR
  /\ status = "failed" => Explained
  /\ pc = "ran" => vm.panic_code = panic_code
  /\ pc = "exited" => /\ exit = panic_code
                      /\ said = IF status = "failed" THEN Said(panic_code) ELSE NO_ERROR
  /\ pc = "refused" => exit = 1

Judged ==
  verdict # "none" /\ Defined =>
    pc \in {"refused", "exited"} /\ (verdict = "PASS" <=> Passes(exit))

ProcessInv == LP!LoaderInv /\ Shared /\ Told /\ Judged

LEMMA MachineInit == MP!Init => MP!Core /\ MP!Stack
BY MP!CoreInit, MP!StackInit, SameConstants

LEMMA MachineStep ==
  ASSUME MP!Core, MP!Stack, [MP!Next]_(MP!vars)
  PROVE  /\ MP!Core' /\ MP!Stack'
         /\ \/ UNCHANGED MP!vars
            \/ MP!Starts \/ MP!Works \/ MP!Calls \/ MP!Returns \/ MP!Stops
BY MP!CoreStep, MP!StackStep, MP!NextEffect, SameConstants

LEMMA LoaderStays ==
  ASSUME LP!LoaderInv, [L!Next]_(L!vars)
  PROVE  LP!LoaderInv'
BY LP!LoaderStep, SameLoader, SameConstants

LEMMA ProcessInit ==
  ASSUME Init
  PROVE  ProcessInv
<1>1. LP!LoaderInv
  BY LP!LoaderInit, SameLoader, SameConstants DEF Init
<1>2. pc = "start" /\ status = "unloaded" /\ verdict = "none" /\ prog \in Programs
  BY DEF Init, L!Init
<1>3. Fresh
  BY DEF Init, Fresh, M!Reg, MP!Reg, M!NulBits, MP!NulBits, M!Bits, MP!Bits, M!ViewOf, MP!ViewOf
<1>4. Shared
  BY <1>2, <1>3 DEF Init, Shared
<1> QED BY <1>1, <1>2, <1>4 DEF ProcessInv, Told, Judged

\* The codes a run can end with are codes the loader knows.
LEMMA CodesKnown ==
  ASSUME Shared, Told, status \in {"ok", "failed"}
  PROVE  panic_code \in Codes
<1>1. MP!Core
  BY DEF Shared
<1>2. 0 \in 0 .. PANIC_INVALID_OPCODE /\ 1 .. PANIC_INVALID_OPCODE \subseteq 0 .. PANIC_INVALID_OPCODE
  BY DEF PANIC_INVALID_OPCODE
<1>3. CASE status = "ok"
  BY <1>2, <1>3, FileAssumption DEF Told, NO_ERROR
<1>4. CASE status = "failed"
  <2>1. \A k \in DOMAIN prog.code : prog.code[k].a \in 0 .. Byte - 1
    <3>1. prog.code \in Seq(MP!Instr)
      BY <1>1 DEF MP!Core, MP!TypeOK, MP!Program
    <3>2. \A k \in DOMAIN prog.code : prog.code[k] \in MP!Instr
      BY <3>1
    <3> QED BY <3>2 DEF MP!Instr, MP!Operand
  <2> QED BY <1>2, <1>4, <2>1, FileAssumption DEF Told, Explained
<1> QED BY <1>3, <1>4

\* The loader sees of a run what Loader says of vm_run.
LEMMA ReturnIsRun ==
  ASSUME ProcessInv, Return
  PROVE  L!Run
<1>1. LP!LoaderInv /\ Shared /\ Told /\ pc = "loaded" /\ status \in {"ok", "failed"}
  BY DEF ProcessInv, Return
<1>2. vm \in LP!VMs /\ vm.frames = L!NULL
  BY <1>1 DEF LP!LoaderInv, LP!TypeOK, LP!VMs, LP!Progress, L!NULL, LP!NULL
<1>3. panic_code \in Codes
  BY <1>1, CodesKnown
<1>4. block = 0 => panic_code = PANIC_OOM
  BY <1>1 DEF Shared, MP!Stack, MP!PANIC_OOM, PANIC_OOM
<1>5. CASE block = 0
  <2>1. vm' = [vm EXCEPT !.frames = L!NULL, !.panic_code = panic_code]
    BY <1>5 DEF Return, FramesLeft
  <2>2. vm' = [vm EXCEPT !.panic_code = L!PANIC_OOM]
    BY <1>2, <1>4, <1>5, <2>1 DEF LP!VMs, PANIC_OOM, L!PANIC_OOM
  <2> QED BY <1>1, <1>5, <2>2 DEF Return, L!Run, L!Allocate, L!pool
<1>6. CASE block # 0
  BY <1>1, <1>3, <1>6 DEF Return, L!Run, L!Allocate, L!pool, FramesLeft
<1> QED BY <1>5, <1>6

LEMMA LoaderSteps ==
  ASSUME ProcessInv, [Next]_vars
  PROVE  [L!Next]_(L!vars)
<1>1. CASE Loading
  BY <1>1 DEF Loading, L!Next
<1>2. CASE Boot
  BY <1>2 DEF Boot, L!Next
<1>3. CASE Return
  BY <1>3, ReturnIsRun DEF L!Next
<1>4. CASE Finish
  BY <1>4 DEF Finish, L!Next
<1>5. CASE UNCHANGED loader
  BY <1>5 DEF loader, L!vars, L!pool, L!heap
<1> QED BY <1>1, <1>2, <1>3, <1>4, <1>5
        DEF Next, Step, Execute, Judge, Terminated, vars

-----------------------------------------------------------------------------
(* Every action keeps the invariant                                        *)

LEMMA LoadingKeeps ==
  ASSUME ProcessInv, Loading
  PROVE  Shared' /\ Told' /\ Judged'
<1>1. /\ UNCHANGED <<file, machine, observed>>
      /\ pc \notin {"loaded", "ran", "refused", "exited"}
      /\ pc' \notin {"loaded", "ran", "exited"}
      /\ pc' = "refused" => exit' = 1
  <2>1. CASE L!Refuse
    <3>1. vm'.panic_code = NO_ERROR
      BY <2>1 DEF L!Refuse, L!VmFree, L!NewVM, L!NO_ERROR, NO_ERROR
    <3> QED BY <2>1, <3>1 DEF Loading, L!Refuse, L!NO_ERROR, NO_ERROR
  <2>2. CASE ~L!Refuse
    BY <2>2 DEF Loading, L!OpenFile, L!ReadHeader, L!ReadCode, L!MakeRegs, L!ReadConsts,
                L!Patch, L!ReadGlobals, L!FailCode, L!FailFile, L!Allocate, L!Fail
  <2> QED BY <2>1, <2>2
<1>2. status = "unloaded" /\ Fresh /\ verdict = "none"
  BY <1>1 DEF ProcessInv, Shared, Judged, Defined
<1>3. Fresh' /\ status' = "unloaded" /\ verdict' = "none" /\ prog' = prog
  BY <1>1, <1>2 DEF machine, observed, Fresh
<1>4. Shared'
  BY <1>1, <1>3 DEF ProcessInv, Shared
<1> QED BY <1>1, <1>3, <1>4 DEF Told, Judged

LEMMA EmptyWhenNone ==
  ASSUME NEW S, NEW seq \in Seq(S), Len(seq) = 0
  PROVE  seq = << >>
OBVIOUS

\* vm_load hands over what it could allocate: the state that vm_run starts from.
LEMMA BootInits ==
  ASSUME ProcessInv, Boot
  PROVE  MP!Init'
<1>1. /\ pc = "load" /\ status' = "loaded" /\ globals' = GlobalsLoaded
      /\ panic_code' = vm'.panic_code
      /\ UNCHANGED <<prog, ip, types, payloads, frames, framecap, block, current>>
  BY DEF Boot, L!Load
<1>2. Fresh /\ prog \in Programs /\ file \in Holding(prog) /\ status = "unloaded"
  BY <1>1 DEF ProcessInv, Shared
<1>3. vm \in LP!VMs /\ vm.globals = L!NULL
  BY <1>1 DEF ProcessInv, LP!LoaderInv, LP!TypeOK, LP!VMs, LP!Named, L!NULL, LP!NULL
<1>4. prog \in MP!Program /\ file.globals = Len(prog.globals)
  BY <1>2, SameConstants DEF Holding
<1>5. \/ globals' = prog.globals /\ panic_code' = MP!NO_ERROR
      \/ prog.globals # << >> /\ globals' = << >> /\ panic_code' = MP!PANIC_OOM
  <2>1. prog.globals \in Seq(MP!Value)
    BY <1>4 DEF MP!Program
  <2>2. CASE file.globals = 0
    <3>1. vm'.globals = L!NULL /\ vm'.panic_code = L!NO_ERROR
      <4>1. vm' = [vm EXCEPT !.istream = local.code, !.consts = local.consts,
                             !.panic_code = L!NO_ERROR]
        BY <2>2 DEF Boot, L!Load
      <4> QED BY <1>3, <4>1 DEF LP!VMs
    <3>2. prog.globals = << >>
      <4>1. Len(prog.globals) = 0
        BY <1>4, <2>2
      <4> QED BY <2>1, <4>1, EmptyWhenNone
    <3> QED BY <1>1, <3>1, <3>2 DEF GlobalsLoaded, L!NO_ERROR, MP!NO_ERROR
  <2>3. CASE file.globals > 0
    <3>1. prog.globals # << >>
      BY <1>4, <2>3
    <3>2. \/ vm'.globals = L!NULL /\ vm'.panic_code = L!PANIC_OOM
          \/ vm'.globals = L!Block("globals") /\ vm'.panic_code = L!NO_ERROR
      <4> DEFINE loaded == [vm EXCEPT !.istream = local.code, !.consts = local.consts,
                                      !.panic_code = L!NO_ERROR]
      <4>1. \/ vm' = [loaded EXCEPT !.globals = L!NULL, !.panic_code = L!PANIC_OOM]
            \/ vm' = [loaded EXCEPT !.globals = L!Block("globals")]
        BY <2>3 DEF Boot, L!Load
      <4> QED BY <1>3, <4>1 DEF LP!VMs
    <3>3. L!Block("globals") # L!NULL
      BY DEF L!Block, L!NULL
    <3> QED BY <1>1, <3>1, <3>2, <3>3
            DEF GlobalsLoaded, L!NO_ERROR, MP!NO_ERROR, L!PANIC_OOM, MP!PANIC_OOM
  <2> QED BY <1>4, <2>1, <2>2, <2>3
<1> QED BY <1>1, <1>2, <1>5 DEF MP!Init, Fresh

LEMMA BootKeeps ==
  ASSUME ProcessInv, Boot
  PROVE  Shared' /\ Told' /\ Judged'
<1>1. /\ pc = "load" /\ pc' = "loaded" /\ status' = "loaded" /\ globals' = GlobalsLoaded
      /\ UNCHANGED <<prog, file, observed>>
  BY DEF Boot, L!Load
<1>2. MP!Core' /\ MP!Stack'
  <2>1. (MP!Init => MP!Core /\ MP!Stack)'
    BY MachineInit, PTL
  <2> QED BY <2>1, BootInits
<1>3. verdict' = "none"
  BY <1>1 DEF ProcessInv, Judged, Shared, Defined, observed
<1>4. prog \in Programs /\ file \in Holding(prog)
  BY DEF ProcessInv, Shared
<1>5. Shared'
  BY <1>1, <1>2, <1>4 DEF Shared, GlobalsLoaded
<1> QED BY <1>1, <1>3, <1>5 DEF Told, Judged

\* One step of the interpreter, by its shapes.
LEMMA ExecuteShape ==
  ASSUME ProcessInv, Execute
  PROVE  /\ pc = "loaded" /\ UNCHANGED <<loader, observed>>
         /\ MP!Core /\ MP!Stack /\ MP!Core' /\ MP!Stack'
         /\ \/ UNCHANGED MP!vars
            \/ MP!Starts \/ MP!Works \/ MP!Calls \/ MP!Returns \/ MP!Stops
<1>1. pc = "loaded" /\ M!Step /\ UNCHANGED <<loader, observed>>
  BY DEF Execute
<1>2. MP!Core /\ MP!Stack
  BY <1>1 DEF ProcessInv, Shared
<1>3. [MP!Next]_(MP!vars)
  BY <1>1, SameMachine DEF MP!Next
<1> QED BY <1>1, <1>2, <1>3, MachineStep

LEMMA ExecuteKeeps ==
  ASSUME ProcessInv, Execute
  PROVE  Shared' /\ Told' /\ Judged'
<1>1. /\ pc = "loaded" /\ pc' = "loaded" /\ UNCHANGED <<file, vm, exit, said, valgrind, verdict>>
      /\ MP!Core /\ MP!Core' /\ MP!Stack'
      /\ \/ UNCHANGED MP!vars
         \/ MP!Starts \/ MP!Works \/ MP!Calls \/ MP!Returns \/ MP!Stops
  BY ExecuteShape DEF loader, observed
<1>2. /\ prog' = prog
      /\ \/ UNCHANGED MP!vars
         \/ status \in {"loaded", "running"} /\ (status' = "running" \/ MP!Stops)
  BY <1>1 DEF MP!vars, MP!Starts, MP!Works, MP!Calls, MP!Returns, MP!Stops, MP!AtInstr
<1>3. status' # "unloaded"
  BY <1>1 DEF MP!Core, MP!TypeOK, MP!Status
<1>4. globals = << >> => globals' = << >>
  <2>1. CASE MP!Works
    <3>1. MP!Fetch({MP!Ins.op})
      BY <2>1 DEF MP!Works, MP!AtInstr, MP!Fetch
    <3>2. MP!Ins.b \in Nat
      BY <1>1, <3>1, MP!Fetched, SameConstants
    <3>3. globals = << >> => MP!Ins.op # "STOREG"
      BY <2>1, <3>2 DEF MP!Works, MP!Proceeds
    <3> QED BY <2>1, <3>3 DEF MP!Works
  <2>2. CASE ~MP!Works
    BY <1>1, <2>2 DEF MP!vars, MP!data, MP!Starts, MP!Calls, MP!Returns, MP!Stops
  <2> QED BY <2>1, <2>2
<1>5. Shared'
  BY <1>1, <1>2, <1>3, <1>4 DEF ProcessInv, Shared
<1>6. Told'
  <2>1. CASE UNCHANGED MP!vars
    BY <1>1, <2>1 DEF ProcessInv, Told, Explained, Said, MP!vars
  <2>2. CASE status' = "running"
    BY <1>1, <2>2 DEF Told
  <2>3. CASE MP!Stops
    <3>1. status' = "ok" => panic_code' = NO_ERROR
      BY <1>1, <2>3 DEF MP!Stops, MP!Excused, MP!Core, MP!AtInstr, MP!NO_ERROR, NO_ERROR
    <3>2. status' = "failed" => Explained'
      <4>1. CASE status = "loaded" /\ panic_code' \in MP!PushErrors
        BY <4>1 DEF MP!PushErrors, MP!PANIC_OOM, MP!PANIC_STACK_OVERFLOW,
                    Explained, PANIC_INVALID_OPCODE
      <4>2. CASE panic_code' = MP!PANIC_NO_HALT
        BY <4>2 DEF MP!PANIC_NO_HALT, Explained, PANIC_INVALID_OPCODE
      <4>3. CASE MP!AtInstr /\ ip' = ip + 1 /\ MP!Excused(status', panic_code')
        <5>1. ip + 1 \in DOMAIN prog.code
          <6>1. prog.code \in Seq(MP!Instr) /\ ip \in Nat /\ ip < Len(prog.code)
            BY <1>1, <4>3 DEF MP!AtInstr, MP!Core, MP!TypeOK, MP!Program
          <6> QED BY <6>1
        <5> QED BY <1>2, <4>3, <5>1
                DEF MP!Excused, MP!Ins, Explained, PANIC_INVALID_OPCODE, MP!PANIC_INVALID_OPCODE
      <4> QED BY <2>3, <4>1, <4>2, <4>3 DEF MP!Stops
    <3> QED BY <1>1, <3>1, <3>2 DEF Told
  <2> QED BY <1>2, <2>1, <2>2, <2>3
<1>7. Judged'
  <2>1. CASE Defined
    BY <1>1, <2>1 DEF ProcessInv, Judged
  <2>2. CASE ~Defined
    BY <1>1, <1>2, <2>2 DEF Judged, Defined, MP!vars
  <2> QED BY <2>1, <2>2
<1> QED BY <1>5, <1>6, <1>7

LEMMA ReturnKeeps ==
  ASSUME ProcessInv, Return
  PROVE  Shared' /\ Told' /\ Judged'
<1>1. /\ pc = "loaded" /\ pc' = "ran" /\ status \in {"ok", "failed"}
      /\ vm' = [vm EXCEPT !.frames = FramesLeft, !.panic_code = panic_code]
      /\ UNCHANGED <<file, machine, observed>>
  BY DEF Return
<1>2. vm \in LP!VMs
  BY DEF ProcessInv, LP!LoaderInv, LP!TypeOK, LP!VMs
<1>3. vm'.panic_code = panic_code
  BY <1>1, <1>2 DEF LP!VMs
<1>4. MP!Core' /\ MP!Stack' /\ UNCHANGED <<prog, ip, panic_code, status>>
  <2>1. UNCHANGED MP!vars /\ MP!Core /\ MP!Stack
    BY <1>1 DEF machine, MP!vars, MP!data, MP!stack, ProcessInv, Shared
  <2> QED BY <2>1, MachineStep DEF MP!vars
<1>5. Shared'
  BY <1>1, <1>4 DEF ProcessInv, Shared
<1> QED BY <1>1, <1>3, <1>4, <1>5 DEF ProcessInv, Told, Explained, Judged, Defined, observed

LEMMA FinishKeeps ==
  ASSUME ProcessInv, Finish
  PROVE  Shared' /\ Told' /\ Judged'
<1>1. /\ pc = "ran" /\ pc' = "exited" /\ exit' = vm.panic_code
      /\ said' = IF status = "failed" /\ vm.panic_code # NO_ERROR
                 THEN Said(vm.panic_code) ELSE NO_ERROR
      /\ UNCHANGED <<file, machine, valgrind, verdict>>
  BY DEF Finish, L!Exit, L!ExitCode
<1>2. vm.panic_code = panic_code /\ status \in {"ok", "failed"} /\ verdict = "none"
  BY <1>1 DEF ProcessInv, Shared, Told, Judged, Defined
<1>3. MP!Core' /\ MP!Stack' /\ UNCHANGED <<prog, ip, panic_code, status>>
  <2>1. UNCHANGED MP!vars /\ MP!Core /\ MP!Stack
    BY <1>1 DEF machine, MP!vars, MP!data, MP!stack, ProcessInv, Shared
  <2> QED BY <2>1, MachineStep DEF MP!vars
<1>4. Shared'
  BY <1>1, <1>2, <1>3 DEF ProcessInv, Shared
<1>5. Told'
  BY <1>1, <1>2, <1>3 DEF ProcessInv, Told, Explained, Said, NO_ERROR, PANIC_CODE_COUNT
<1> QED BY <1>1, <1>2, <1>4, <1>5 DEF Judged

LEMMA JudgeKeeps ==
  ASSUME ProcessInv, Judge
  PROVE  Shared' /\ Told' /\ Judged'
<1>1. UNCHANGED <<loader, machine, said, valgrind>>
  BY DEF Judge
<1>2. Shared' /\ Told'
  <2>1. UNCHANGED MP!vars
    BY <1>1 DEF machine, MP!vars, MP!data, MP!stack
  <2>2. status # "unloaded" => MP!Core' /\ MP!Stack'
    BY <2>1, MachineStep DEF ProcessInv, Shared
  <2> QED BY <1>1, <2>2 DEF loader, machine, ProcessInv, Shared, Told, Fresh, Explained
<1>3. Judged'
  BY <1>1 DEF Judge, Judged, loader, machine, Defined, Passes
<1> QED BY <1>2, <1>3

LEMMA ProcessStep ==
  ASSUME ProcessInv, [Next]_vars
  PROVE  ProcessInv'
<1>1. LP!LoaderInv'
  BY LoaderSteps, LoaderStays DEF ProcessInv
<1>2. CASE UNCHANGED vars
  <2>1. UNCHANGED MP!vars /\ UNCHANGED <<loader, machine, observed>>
    BY <1>2 DEF vars, machine, MP!vars, MP!data, MP!stack
  <2>2. status # "unloaded" => MP!Core' /\ MP!Stack'
    BY <2>1, MachineStep DEF ProcessInv, Shared
  <2>3. Shared' /\ Told' /\ Judged'
    BY <2>1, <2>2 DEF loader, machine, observed, ProcessInv, Shared, Told, Fresh, Explained,
                      Judged, Defined, Passes
  <2> QED BY <1>1, <2>3 DEF ProcessInv
<1> QED BY <1>1, <1>2, LoadingKeeps, BootKeeps, ExecuteKeeps, ReturnKeeps, FinishKeeps,
           JudgeKeeps DEF Next, Step, Terminated, ProcessInv

-----------------------------------------------------------------------------
(* Theorems                                                                *)

\* The invariants of the loader and of the interpreter hold in the composition,
\* and what main printed and returned is what the two of them ended with.
THEOREM ProcessInvariant == Spec => []ProcessInv
<1>1. Init => ProcessInv
  BY ProcessInit
<1>2. ProcessInv /\ [Next]_vars => ProcessInv'
  BY ProcessStep
<1> QED BY <1>1, <1>2, PTL DEF Spec

\* main, the interpreter inside it, is an implementation of the loader: what
\* Loader says of vm_run, an array of frames and a code, is all a program does to
\* the memory of the VM.
THEOREM ProcessImplementsLoader == Spec => LoaderSpec
<1>1. Init => L!Init
  BY DEF Init
<1>2. ProcessInv /\ [Next]_vars => [L!Next]_(L!vars)
  BY LoaderSteps
<1> QED BY <1>1, <1>2, ProcessInvariant, PTL DEF Spec, LoaderSpec, L!Spec

\* A test passes exactly if its program ended well, or with PANIC 0, or, under
\* valgrind, with the code 1 of a failed load and of PANIC 1.
THEOREM VerdictsTell == Spec => []VerdictTells
<1>1. ASSUME ProcessInv, verdict # "none", Defined
      PROVE  verdict = "PASS" <=>
               \/ status = "ok"
               \/ status = "failed" /\ panic_code = NO_ERROR
               \/ valgrind /\ (status = "unloaded" \/ panic_code = PANIC_FILE)
  <2>1. Shared /\ Told /\ pc \in {"refused", "exited"} /\ (verdict = "PASS" <=> Passes(exit))
    BY <1>1 DEF ProcessInv, Judged
  <2>2. CASE pc = "refused"
    BY <2>1, <2>2 DEF Shared, Told, Passes
  <2>3. CASE pc = "exited"
    BY <2>1, <2>3 DEF Shared, Told, Passes, NO_ERROR, PANIC_FILE
  <2> QED BY <2>1, <2>2, <2>3
<1>2. ProcessInv => VerdictTells
  BY <1>1 DEF VerdictTells
<1> QED BY <1>2, ProcessInvariant, PTL

\* Every failure that vm_run reports reaches stderr and the shell with its own
\* code; only the PANIC of a program can end with 0, or without a message.
THEOREM FailuresAreSaid == Spec => []FailureIsSaid
<1>1. ASSUME ProcessInv, pc = "exited", status = "failed"
      PROVE  \/ said = panic_code /\ exit = panic_code /\ exit # NO_ERROR
             \/ /\ ip \in DOMAIN prog.code /\ prog.code[ip].op = "PANIC"
                /\ exit = prog.code[ip].a
                /\ said = IF exit \in 1 .. M!PANIC_INVALID_OPCODE THEN exit ELSE NO_ERROR
  <2>1. /\ exit = panic_code /\ said = Said(panic_code) /\ Explained /\ panic_code \in Nat
    BY <1>1 DEF ProcessInv, Shared, Told, MP!Core, MP!TypeOK
  <2>2. /\ panic_code \in 1 .. PANIC_INVALID_OPCODE => Said(panic_code) = panic_code
        /\ Said(panic_code) = IF panic_code \in 1 .. PANIC_INVALID_OPCODE
                              THEN panic_code ELSE NO_ERROR
    BY <2>1 DEF Said, NO_ERROR, PANIC_CODE_COUNT, PANIC_INVALID_OPCODE
  <2>3. 0 \notin 1 .. PANIC_INVALID_OPCODE /\ M!PANIC_INVALID_OPCODE = PANIC_INVALID_OPCODE
    BY DEF M!PANIC_INVALID_OPCODE, PANIC_INVALID_OPCODE
  <2> QED BY <2>1, <2>2, <2>3 DEF Explained, NO_ERROR
<1>2. ProcessInv => FailureIsSaid
  BY <1>1 DEF FailureIsSaid
<1> QED BY <1>2, ProcessInvariant, PTL

\* Every function in reach of the interpreter is one the loader made, patched
\* into the constant it belongs to, and has not freed.
THEOREM CalleesAreLive == Spec => []CalleesLive
<1>1. ASSUME ProcessInv, status \in {"loaded", "running"}, NEW fn \in DOMAIN prog.funcs
      PROVE  /\ L!Fn(ConstOf(prog, fn)) \in live
             /\ payload[ConstOf(prog, fn)] = L!Fn(ConstOf(prog, fn))
  <2>1. /\ pc = "loaded" /\ prog \in Programs /\ file \in Holding(prog) /\ MP!Core
        /\ LP!LoaderInv
    BY <1>1 DEF ProcessInv, Shared
  <2>2. \E k \in Callables(prog) : prog.consts[k].bits.val = fn
    <3>1. M!Bits("CALLABLE", fn) \in { prog.consts[k].bits : k \in Callables(prog) }
      BY <2>1, StorableAssumption DEF Storable
    <3> QED BY <3>1 DEF M!Bits
  <2>3. ConstOf(prog, fn) \in Callables(prog)
    BY <2>2 DEF ConstOf
  <2>4. file.pool[ConstOf(prog, fn)] /\ ConstOf(prog, fn) \in 1 .. Len(file.pool)
    <3>1. prog.consts \in Seq(MP!Value) /\ DOMAIN prog.consts = 1 .. Len(prog.consts)
      BY <2>1 DEF MP!Core, MP!TypeOK, MP!Program
    <3>2. file.pool = [k \in DOMAIN prog.consts |-> k \in Callables(prog)]
      BY <2>1 DEF Holding
    <3>3. file.pool \in Seq(BOOLEAN)
      BY <2>1, SameConstants DEF Holding, LP!File
    <3>4. ConstOf(prog, fn) \in DOMAIN prog.consts
      BY <2>3 DEF Callables
    <3> QED BY <2>3, <3>2, <3>3, <3>4
  <2>5. LP!PoolPatched
    BY <2>1, LP!PatchedWhileLoaded, SameConstants
  <2> QED BY <2>1, <2>4, <2>5 DEF LP!PoolPatched, LP!Fn, L!Fn
<1>2. ASSUME ProcessInv, status \in {"loaded", "running"}
      PROVE  /\ \A r \in M!Reg : payloads[r].as = "fn" =>
                  payloads[r].val = 0 \/ payloads[r].val \in DOMAIN prog.funcs
             /\ \A g \in DOMAIN globals : globals[g].bits.as = "fn" =>
                  globals[g].bits.val = 0 \/ globals[g].bits.val \in DOMAIN prog.funcs
             /\ \A i \in DOMAIN frames :
                  frames[i].callee = 0 \/ frames[i].callee \in DOMAIN prog.funcs
  <2>1. MP!Core /\ MP!Stack
    BY <1>2 DEF ProcessInv, Shared
  <2>2. prog.funcs \in Seq(MP!Func)
    BY <2>1 DEF MP!Core, MP!TypeOK, MP!Program
  <2>3. \A p \in MP!Held(Len(prog.funcs)) :
          p.as = "fn" => p.val = 0 \/ p.val \in DOMAIN prog.funcs
    BY <2>2 DEF MP!Held, MP!Payload
  <2>4. /\ payloads \in [MP!Reg -> MP!Held(Len(prog.funcs))]
        /\ globals \in Seq([type : MP!Type, bits : MP!Held(Len(prog.funcs))])
    BY <2>1 DEF MP!Core, MP!TypeOK
  <2>5. \A g \in DOMAIN globals : globals[g].bits \in MP!Held(Len(prog.funcs))
    <3> DEFINE Cell == [type : MP!Type, bits : MP!Held(Len(prog.funcs))]
    <3>1. \A c \in Cell : c.bits \in MP!Held(Len(prog.funcs))
      OBVIOUS
    <3>2. globals \in Seq(Cell)
      BY <2>4
    <3> HIDE DEF Cell
    <3>3. \A g \in DOMAIN globals : globals[g] \in Cell
      BY <3>2
    <3> QED BY <3>1, <3>3
  <2>6. \A i \in DOMAIN frames : frames[i].callee = 0 \/ frames[i].callee \in DOMAIN prog.funcs
    <3>1. frames \in Seq(MP!Frame) /\ DOMAIN frames = 1 .. Len(frames) /\ Len(frames) \in Nat
      BY <2>1 DEF MP!Core, MP!TypeOK
    <3>2. \A i \in 2 .. Len(frames) : frames[i].callee \in DOMAIN prog.funcs
      BY <2>1 DEF MP!Stack
    <3>3. frames # << >> => frames[1].callee = 0
      BY <2>1 DEF MP!Stack, MP!EntryFrame
    <3> QED BY <3>1, <3>2, <3>3
  <2> QED BY <2>3, <2>4, <2>5, <2>6 DEF M!Reg, MP!Reg
<1>3. ASSUME ProcessInv PROVE CalleesLive
  BY <1>1, <1>2, <1>3 DEF CalleesLive
<1> QED BY <1>3, ProcessInvariant, PTL

\* A program whose globals could not be had stops at the first instruction that
\* needs one.
THEOREM LostGlobalsStop == Spec => LostGlobals
<1> DEFINE Needs == /\ pc = "loaded" /\ file.globals > 0 /\ L!Block("globals") \notin live
                    /\ M!AtInstr /\ M!Ins.op \in {"LOADG", "STOREG"}
<1>1. ASSUME ProcessInv, Next, vars' # vars, Needs
      PROVE  status' = "failed" /\ panic_code' = PANIC_OOB
  <2>1. /\ pc = "loaded" /\ status = "running" /\ MP!AtInstr
        /\ MP!Ins.op \in {"LOADG", "STOREG"} /\ LP!LoaderInv /\ Shared
    BY <1>1 DEF ProcessInv, M!AtInstr, MP!AtInstr, M!Ins, MP!Ins
  <2>2. globals = << >>
    <3>1. live = (LP!Owners \ {LP!NULL}) \cup LP!Funcs
      BY <2>1 DEF LP!LoaderInv, LP!Owned, LP!Done
    <3>2. vm.globals \in {LP!NULL, LP!Block("globals")}
      BY <2>1 DEF LP!LoaderInv, LP!Named
    <3>3. LP!Block("globals") # LP!NULL
      BY DEF LP!Block, LP!NULL
    <3>4. vm.globals = LP!NULL
      BY <1>1, <3>1, <3>2, <3>3 DEF LP!Owners, L!Block, LP!Block
    <3> QED BY <2>1, <3>4 DEF Shared, L!NULL, LP!NULL
  <2>3. Execute
    BY <1>1, <2>1 DEF Next, Step, Loading, Boot, Return, Finish, Judge, Terminated,
                      ProcessInv, Judged, Defined,
                      L!OpenFile, L!ReadHeader, L!ReadCode, L!MakeRegs, L!ReadConsts,
                      L!Patch, L!ReadGlobals, L!FailCode, L!FailFile, L!Refuse, L!Load, L!Exit
  <2>4. \/ UNCHANGED MP!vars
        \/ MP!Starts \/ MP!Works \/ MP!Calls \/ MP!Returns \/ MP!Stops
    BY <1>1, <2>3, ExecuteShape
  <2>5. UNCHANGED <<loader, observed>>
    BY <2>3 DEF Execute
  <2>6. ~UNCHANGED MP!vars
    BY <1>1, <2>5 DEF vars, machine, MP!vars, MP!data, MP!stack
  <2>7. MP!Ins.b \in Nat
    <3>1. MP!Fetch({MP!Ins.op}) /\ MP!Core
      BY <2>1 DEF MP!AtInstr, MP!Fetch, Shared
    <3> QED BY <3>1, MP!Fetched, SameConstants
  <2>8. ~MP!Proceeds
    BY <2>1, <2>2, <2>7 DEF MP!Proceeds
  <2>9. MP!Stops
    BY <2>1, <2>4, <2>6, <2>8 DEF MP!Starts, MP!Works, MP!Calls, MP!Returns
  <2>10. MP!Excused(status', panic_code')
    <3>1. ip < Len(prog.code) /\ ip \in Nat /\ Len(prog.code) \in Nat
      BY <2>1 DEF MP!AtInstr, Shared, MP!Core, MP!TypeOK, MP!Program
    <3>2. ~(ip >= Len(prog.code))
      BY <3>1
    <3> QED BY <2>1, <2>9, <3>2 DEF MP!Stops
  <2> QED BY <2>1, <2>8, <2>10 DEF MP!Excused, MP!PANIC_OOB, PANIC_OOB
<1>2. ProcessInv /\ [Next]_vars => [Needs => status' = "failed" /\ panic_code' = PANIC_OOB]_vars
  BY <1>1
<1> QED BY <1>2, ProcessInvariant, PTL DEF Spec, LostGlobals

=============================================================================

------------------------------ MODULE StickVM ------------------------------
(***************************************************************************)
(* The interpreter: vm_run, vm_call and the helpers they call (vm/vm.c,    *)
(* vm/vm.h, the macros of vm/typing.h), from a loaded VM to the return of  *)
(* vm_run.  One action is one iteration of the dispatch loop: the fetch,   *)
(* the whole case of the opcode and every helper it calls.                 *)
(*                                                                         *)
(* Undefined behaviour of C ends a run in a status of its own: "wild"      *)
(* after an access outside the registers or through a pointer that is not  *)
(* one, "trap" where the processor may fault on an integer division.       *)
(***************************************************************************)
EXTENDS Arith, Chunk

CONSTANTS
  BaseRegisters,  \* BASE_REGISTERS, 16
  MaxFrames,      \* MAX_FRAMES, 256
  FirstFrameCap,  \* the 8 of push_frame
  Programs        \* the programs that may have been loaded

ASSUME SizesAssumption ==
  /\ Byte \in Nat \ {0}
  /\ MaxRegisters \in Nat
  /\ BaseRegisters \in 1 .. MaxRegisters - 1
  /\ MaxFrames \in Nat \ {0}
  /\ FirstFrameCap \in 1 .. MaxFrames
ASSUME ImmediateAssumption == Byte * Byte <= 2 * HalfWord
ASSUME ProgramsAssumption  == Programs \subseteq Program

VARIABLES
  prog,        \* istream, consts, funcs, and the globals of the file
  ip,
  types,       \* regs->types and regs->payloads: one register is
  payloads,    \*   an entry of each
  globals,
  frames,      \* the first framecount entries of the frames array
  framecap,
  block,       \* which allocation vm->frames points to: realloc makes a new one
  current,     \* vm->current: a slot (from 1) of an allocation
  panic_code,
  status       \* where vm_run stands, and how it ended

data  == <<types, payloads, globals>>
stack == <<frames, framecap, block, current>>
vars  == <<prog, ip, data, stack, panic_code, status>>

Status == {"loaded", "running", "ok", "failed", "wild", "trap"}
Frame  == [jump : Nat, base : Reg, regc : Reg, reg : Operand, callee : Nat]

TypeOK ==
  /\ prog \in Program
  /\ ip \in Nat
  /\ types \in [Reg -> Type]
  /\ payloads \in [Reg -> Held(Len(prog.funcs))]
  /\ globals \in Seq([type : Type, bits : Held(Len(prog.funcs))])
  /\ frames \in Seq(Frame)
  /\ framecap \in 0 .. MaxFrames
  /\ block \in Nat
  /\ current \in [block : Nat, index : Nat]
  /\ panic_code \in Nat
  /\ status \in Status

-----------------------------------------------------------------------------
(* The VM after vm_init and vm_load_file.  When the calloc of vm_load for  *)
(* the globals fails, the file still counts as loaded, without globals.    *)

Init ==
  /\ prog \in Programs
  /\ ip = 0
  /\ types = [r \in Reg |-> "NUL"]
  /\ payloads = [r \in Reg |-> NulBits]
  /\ \/ globals = prog.globals /\ panic_code = NO_ERROR
     \/ prog.globals # << >> /\ globals = << >> /\ panic_code = PANIC_OOM
  /\ frames = << >>
  /\ framecap = 0
  /\ block = 0
  /\ current = [block |-> 0, index |-> 0]
  /\ status = "loaded"

-----------------------------------------------------------------------------
(* Decoding, and the ways a case of the switch ends.                       *)

Signed(n, size) == IF 2 * n < size THEN n ELSE n - size
SignedI16(ins)  == Signed(ins.b * Byte + ins.c, Byte * Byte)
SignedI24(ins)  == Signed((ins.a * Byte + ins.b) * Byte + ins.c, Byte * Byte * Byte)

\* The u16 a sum is stored in.  Mutant: a narrower field.
U15(n) == n % (MaxRegisters \div 2)
U16(n) == n % MaxRegisters

Ins        == prog.code[ip + 1]
Fetch(ops) == status = "running" /\ ip < Len(prog.code) /\ Ins.op \in ops

Base == frames[current.index].base

\* vm_run goes on with the next instruction, or with the one at `next'.
GoTo(next) == ip' = next /\ UNCHANGED <<prog, panic_code, status>>
Continue   == GoTo(ip + 1)

\* vm_run returns, or the program is past what C defines.
End(how, code) ==
  /\ status' = how
  /\ panic_code' = code
  /\ ip' = ip + 1
  /\ UNCHANGED <<prog, data, stack>>
Fail(code) == End("failed", code)
Wild       == End("wild", panic_code)

-----------------------------------------------------------------------------
(* ensure_regs and require_type guard the rest of a case.                  *)

EnsureRegs(need, Rest) ==
  IF need <= MaxRegisters THEN Rest ELSE Fail(PANIC_REG_LIMIT)

\* Mutant: a mismatch stops the program without a panic code.
RequireTypeSilently(regs, tag, Rest) ==
  IF \A r \in regs : types[r] = tag THEN Rest ELSE Fail(panic_code)

RequireType(regs, tag, Rest) ==
  IF \A r \in regs : types[r] = tag THEN Rest ELSE Fail(PANIC_TYPE_MISMATCH)

HighestOf(regs) == CHOOSE r \in regs : \A s \in regs : s <= r

SetReg(r, tag, bits) ==
  /\ types' = [types EXCEPT ![r] = tag]
  /\ payloads' = [payloads EXCEPT ![r] = bits]
  /\ UNCHANGED globals

\* Mutant: the place behind the last instruction counts as one.
JumpRelPastEnd(off) ==
  LET next == ip + 1 + off IN
  IF next \in 0 .. Len(prog.code)
  THEN GoTo(next) /\ UNCHANGED <<data, stack>>
  ELSE Fail(PANIC_OOB)
JumpRel(off) ==
  LET next == ip + 1 + off IN
  IF next \in 0 .. Len(prog.code) - 1
  THEN GoTo(next) /\ UNCHANGED <<data, stack>>
  ELSE Fail(PANIC_OOB)

\* push_frame: the array doubles up to MaxFrames.  What can go wrong, and the push.
\* Mutants: the capacity is not clamped; it does not grow when the double is too much.
NewCapUnclamped == IF framecap = 0 THEN FirstFrameCap ELSE framecap * 2
NewCapStuck ==
  LET cap == IF framecap = 0 THEN FirstFrameCap ELSE framecap * 2
  IN  IF cap > MaxFrames THEN framecap ELSE cap
NewCap ==
  LET cap == IF framecap = 0 THEN FirstFrameCap ELSE framecap * 2
  IN  IF cap > MaxFrames THEN MaxFrames ELSE cap

PushErrors ==
  IF Len(frames) < framecap THEN {}
  ELSE IF Len(frames) >= NewCap THEN {PANIC_STACK_OVERFLOW}
  ELSE {PANIC_OOM}

PushFrame(frame) ==
  /\ PANIC_STACK_OVERFLOW \notin PushErrors
  /\ frames' = Append(frames, frame)
  /\ IF Len(frames) < framecap
     THEN UNCHANGED <<framecap, block>>
     ELSE framecap' = NewCap /\ block' = block + 1

\* pop_frame, of a stack that is not empty.
PopFrame ==
  /\ frames' = SubSeq(frames, 1, Len(frames) - 1)
  /\ UNCHANGED <<framecap, block>>

\* vm->current = &vm->frames[vm->framecount - 1].  Mutant: the old allocation.
RefreshCurrentStale == current' = [block |-> block, index |-> Len(frames')]
RefreshCurrent == current' = [block |-> block', index |-> Len(frames')]

EntryFrame ==
  [jump |-> Len(prog.code), base |-> 0, regc |-> BaseRegisters, reg |-> 0, callee |-> 0]

-----------------------------------------------------------------------------
(* vm_run, before the loop                                                 *)

Start ==
  /\ status = "loaded"
  /\ UNCHANGED <<prog, ip, data>>
  /\ \/ /\ PushFrame(EntryFrame)
        /\ RefreshCurrent
        /\ status' = "running"
        /\ panic_code' = NO_ERROR
     \/ /\ panic_code' \in PushErrors
        /\ status' = "failed"
        /\ UNCHANGED stack

-----------------------------------------------------------------------------
(* Control                                                                 *)

Halt  == Fetch({"HALT"}) /\ End("ok", panic_code)
Panic == Fetch({"PANIC"}) /\ Fail(Ins.a)
Jmp   == Fetch({"JMP"}) /\ JumpRel(SignedI24(Ins))

\* JMPIF and JMPIFZ: the jump is taken when the register is falsy, or is not.
JmpOn(op, falsy) ==
  /\ Fetch({op})
  /\ LET src == Base + Ins.a IN
     EnsureRegs(src + 1,
       IF Falsy(types[src], payloads[src]) = falsy
       THEN JumpRel(SignedI16(Ins))
       ELSE Continue /\ UNCHANGED <<data, stack>>)

JmpIf  == JmpOn("JMPIF", FALSE)
JmpIfz == JmpOn("JMPIFZ", TRUE)

InvalidOpcode ==
  /\ status = "running" /\ ip < Len(prog.code)
  /\ Ins.op \notin Implemented
  /\ Fail(PANIC_INVALID_OPCODE)

\* The loop ends because ip has left the code.
NoHalt ==
  /\ status = "running" /\ ip >= Len(prog.code)
  /\ status' = "failed"
  /\ panic_code' = PANIC_NO_HALT
  /\ UNCHANGED <<prog, ip, data, stack>>

-----------------------------------------------------------------------------
(* Movement                                                                *)

\* copy, for one of the two arrays.
Copied(array, dest, src) == [array EXCEPT ![dest] = array[src]]

Copy ==
  /\ Fetch({"COPY"})
  /\ LET dest == Base + Ins.a
         src  == Base + Ins.b
     IN EnsureRegs(HighestOf({dest, src}) + 1,
          /\ types' = Copied(types, dest, src)
          /\ payloads' = Copied(payloads, dest, src)
          /\ UNCHANGED globals
          /\ Continue /\ UNCHANGED stack)

\* Copy, then null the source, which may be the destination.
\* Mutant: only the tag of the source is nulled.
MovedTagOnly(dest, src) == Copied(payloads, dest, src)
Moved(dest, src) == [Copied(payloads, dest, src) EXCEPT ![src] = NulBits]

Move ==
  /\ Fetch({"MOVE"})
  /\ LET dest == Base + Ins.a
         src  == Base + Ins.b
     IN EnsureRegs(HighestOf({dest, src}) + 1,
          /\ types' = [Copied(types, dest, src) EXCEPT ![src] = "NUL"]
          /\ payloads' = Moved(dest, src)
          /\ UNCHANGED globals
          /\ Continue /\ UNCHANGED stack)

LoadI ==
  /\ Fetch({"LOADI"})
  /\ LET dest == Base + Ins.a IN
     EnsureRegs(dest + 1,
       /\ SetReg(dest, "I64", Bits("I64", SignedI16(Ins)))
       /\ Continue /\ UNCHANGED stack)

\* LOADC and LOADG: the index is checked first, then the register.
LoadFrom(op, pool) ==
  /\ Fetch({op})
  /\ LET dest == Base + Ins.a IN
     IF Ins.b >= Len(pool) THEN Fail(PANIC_OOB)
     ELSE EnsureRegs(dest + 1,
            /\ SetReg(dest, pool[Ins.b + 1].type, pool[Ins.b + 1].bits)
            /\ Continue /\ UNCHANGED stack)

LoadC == LoadFrom("LOADC", prog.consts)
LoadG == LoadFrom("LOADG", globals)

StoreG ==
  /\ Fetch({"STOREG"})
  /\ LET src == Base + Ins.a IN
     IF Ins.b >= Len(globals) THEN Fail(PANIC_OOB)
     ELSE EnsureRegs(src + 1,
            /\ globals' = [globals EXCEPT ![Ins.b + 1] =
                              [type |-> types[src], bits |-> payloads[src]]]
            /\ UNCHANGED <<types, payloads>>
            /\ Continue /\ UNCHANGED stack)

-----------------------------------------------------------------------------
(* Calls.  CALL a b c: the callable is in register a, b arguments follow   *)
(* it, and the result goes to register c of the caller.                    *)

\* Mutant: the code a refused call ends with is left to vm_call.
CallFailedSilently == Fail(panic_code)
CallFailed == Fail(IF panic_code = NO_ERROR THEN PANIC_CALL_FAILED ELSE panic_code)

\* The window of the callee starts where the one of the caller ends: a u16.
\* Mutants: argc for regc; the CALL itself for the instruction behind it; a window
\* that begins at the arguments.
FrameArgc(fn, reg) ==
  [jump |-> ip + 1, base |-> U16(Base + frames[current.index].regc),
   regc |-> prog.funcs[fn].argc, reg |-> reg, callee |-> fn]
FrameRepeating(fn, reg) ==
  [jump |-> ip, base |-> U16(Base + frames[current.index].regc),
   regc |-> prog.funcs[fn].regc, reg |-> reg, callee |-> fn]
FrameOverlapping(fn, reg) ==
  [jump |-> ip + 1, base |-> U16(Base + Ins.a + 1),
   regc |-> prog.funcs[fn].regc, reg |-> reg, callee |-> fn]
CalleeFrame(fn, reg) ==
  [jump |-> ip + 1, base |-> U16(Base + frames[current.index].regc),
   regc |-> prog.funcs[fn].regc, reg |-> reg, callee |-> fn]

CallBytecode(fn, argc, reg) ==
  LET frame == CalleeFrame(fn, reg) IN
  IF argc # prog.funcs[fn].argc THEN CallFailed
  ELSE EnsureRegs(frame.base + frame.regc,
         \/ \E code \in PushErrors : Fail(code)
         \/ /\ PushFrame(frame)
            /\ RefreshCurrent
            /\ GoTo(prog.funcs[fn].entry)
            /\ UNCHANGED data)

\* What a C function does with the VM it is given is not in the repository:
\* it may leave a null or a boolean in the register the call names.
CallNative(fn, argc, reg) ==
  LET func == prog.funcs[fn]
      dest == Base + reg
  IN IF func.entry = 0 \/ argc # func.argc THEN CallFailed
     ELSE \/ dest < MaxRegisters /\ Continue /\ UNCHANGED stack
             /\ \/ SetReg(dest, "NUL", NulBits)
                \/ \E b \in {0, 1} : SetReg(dest, "BOOL", Bits("BOOL", b))
          \/ dest >= MaxRegisters /\ Wild

\* The payload of a callable that the loader did not patch is no pointer.
Call ==
  /\ Fetch({"CALL"})
  /\ LET abs == Base + Ins.a
         fn  == payloads[abs].val
     IN EnsureRegs(abs + 1,
          IF types[abs] # "CALLABLE" \/ fn = 0 THEN Fail(PANIC_INVALID_CALLABLE)
          ELSE IF payloads[abs].as # "fn" THEN Wild
          ELSE IF prog.funcs[fn].kind = "BYTECODE" THEN CallBytecode(fn, Ins.b, Ins.c)
          ELSE CallNative(fn, Ins.b, Ins.c))

\* Where RET leaves the value.  Mutant: a register of the entry frame.
ReturnSlotGlobal == frames[Len(frames)].reg
ReturnSlot == frames[Len(frames) - 1].base + frames[Len(frames)].reg

\* The value is read through the frame that is popped and written through the
\* one below it, without a check of that register.
Ret ==
  /\ Fetch({"RET"})
  /\ LET n        == Len(frames)
         abs      == Base + Ins.a
         returned == IF abs < MaxRegisters
                     THEN [type |-> types[abs], bits |-> payloads[abs]]
                     ELSE [type |-> "NUL", bits |-> NulBits]
         dest     == ReturnSlot
     IN IF n = 0 THEN Fail(PANIC_STACK_UNDERFLOW)
        ELSE \/ /\ n = 1 /\ PopFrame
                /\ ip' = ip + 1 /\ status' = "ok"
                /\ UNCHANGED <<prog, data, current, panic_code>>
             \/ /\ n > 1 /\ dest < MaxRegisters
                /\ PopFrame /\ RefreshCurrent
                /\ GoTo(frames[n].jump)
                /\ SetReg(dest, returned.type, returned.bits)
             \/ n > 1 /\ dest >= MaxRegisters /\ Wild

-----------------------------------------------------------------------------
(* Computation.  What an opcode may result in is in Arith.                 *)

Compute(dest, tag, results) ==
  /\ \E n \in results : SetReg(dest, tag, Bits(tag, n))
  /\ Continue /\ UNCHANGED stack

\* BINOP_TYPED and CMPOP_TYPED differ in the tag of the result.
Dyadic(tag, opcodes, result) ==
  /\ Fetch(opcodes)
  /\ LET dest == Base + Ins.a
         lhs  == Base + Ins.b
         rhs  == Base + Ins.c
         l    == payloads[lhs].val
         r    == payloads[rhs].val
     IN EnsureRegs(HighestOf({dest, lhs, rhs}) + 1,
          RequireType({lhs, rhs}, tag,
            \/ Compute(dest, result, DyadicResults(Ins.op, tag, l, r))
            \/ DivisionUndefined(Ins.op, l, r) /\ End("trap", panic_code)))

Binop == \E tag \in NumType : Dyadic(tag, BinopOf(tag), tag)
Cmpop == \E tag \in NumType : Dyadic(tag, CmpopOf(tag), "BOOL")

Unop ==
  \E tag \in NumType :
    /\ Fetch(UnopOf(tag))
    /\ LET idx == Base + Ins.a IN
       EnsureRegs(idx + 1,
         RequireType({idx}, tag,
           Compute(idx, tag, UnopResults(Ins.op, tag, payloads[idx].val))))

Cast ==
  \E c \in Casts :
    /\ Fetch({c.op})
    /\ LET dest == Base + Ins.a
           src  == Base + Ins.b
       IN EnsureRegs(HighestOf({dest, src}) + 1,
            RequireType({src}, c.from,
              Compute(dest, c.to, CastResults(c.from, c.to, payloads[src].val))))

Lnot ==
  /\ Fetch({"LNOT"})
  /\ LET src == Base + Ins.a IN
     EnsureRegs(src + 1,
       RequireType({src}, "BOOL",
         /\ SetReg(src, "BOOL", Bits("BOOL", IF payloads[src].val = 0 THEN 1 ELSE 0))
         /\ Continue /\ UNCHANGED stack))

-----------------------------------------------------------------------------

Step ==
  \/ Start \/ Halt \/ Panic \/ Jmp \/ JmpIf \/ JmpIfz \/ InvalidOpcode \/ NoHalt
  \/ Copy \/ Move \/ LoadI \/ LoadC \/ LoadG \/ StoreG
  \/ Call \/ Ret
  \/ Binop \/ Cmpop \/ Unop \/ Cast \/ Lnot

\* Only a vm_run that has returned, or a run past what C defines, stops.
Ended      == status \notin {"loaded", "running"}
Terminated == Ended /\ UNCHANGED vars

Next     == Step \/ Terminated
Spec     == Init /\ [][Next]_vars
FairSpec == Spec /\ WF_vars(Step)

-----------------------------------------------------------------------------
(* Properties                                                              *)

Window(frame)    == frame.base .. frame.base + frame.regc - 1
EndsAtLimit(frame) == frame.base + frame.regc = MaxRegisters
NoneFull(i, j)   == \A k \in i .. j : ~EndsAtLimit(frames[k])
AtInstr          == status = "running" /\ ip < Len(prog.code)

\* vm->current survives the reallocations of the frame array: whenever an
\* instruction is about to use it, it points into the live allocation, at the
\* frame on top (vm_run, vm_call and the RET case each refresh it).
CurrentIsTop ==
  status = "running" => /\ frames # << >>
                        /\ current = [block |-> block, index |-> Len(frames)]

\* A frame begins above the registers of every frame below it, as long as none
\* between the two ends on the last register: there the u16 of vm_call wraps.
DisjointUntilFull ==
  \A i, j \in DOMAIN frames :
    i < j /\ NoneFull(i, j - 1) => frames[i].base + frames[i].regc <= frames[j].base

\* What a frame keeps in its registers across a call is not disturbed, however
\* deep the calls go: the only register of a suspended frame that a step
\* writes is the one its own CALL named for the result, and only RET writes it.
SuspendedKept ==
  [][\A i \in 1 .. Len(frames) - 1 :
       status = "running" /\ NoneFull(i, Len(frames) - 1) =>
         \A r \in Window(frames[i]) :
           \/ types'[r] = types[r] /\ payloads'[r] = payloads[r]
           \/ /\ Len(frames') < Len(frames)
              /\ i = Len(frames) - 1
              /\ r = frames[i].base + frames[i + 1].reg]_vars

\* Every frame above the entry frame is the one its CALL asked for, so that RET
\* resumes behind that CALL and stores to the register it named.
FramesMirrorCalls ==
  \A i \in 2 .. Len(frames) :
    LET call == prog.code[frames[i].jump]
        func == prog.funcs[frames[i].callee]
    IN /\ call.op = "CALL"
       /\ call.c = frames[i].reg
       /\ call.b = func.argc
       /\ func.regc = frames[i].regc
       /\ frames[i].base = U16(frames[i - 1].base + frames[i - 1].regc)

\* CALL reports a stack overflow with all MAX_FRAMES frames in use and never
\* before, whatever the doublings of the array come to.
OverflowOnlyAtLimit ==
  [][AtInstr /\ Ins.op = "CALL" /\ panic_code' = PANIC_STACK_OVERFLOW
       => Len(frames) = MaxFrames]_vars

\* The exit code of main is panic_code: a run that returned true exits with 0,
\* and a failed one exits with 0 only if the program asked for PANIC 0.
HonestExit ==
  /\ status \in {"running", "ok"} => panic_code = NO_ERROR
  /\ status = "failed" /\ panic_code = NO_ERROR =>
       /\ ip \in 1 .. Len(prog.code)
       /\ prog.code[ip].op = "PANIC" /\ prog.code[ip].a = 0

\* Tag and payload live in two arrays and are written one by one, yet no
\* register and no global ever holds the payload of another type.
TagsAgree ==
  /\ \A r \in Reg : Agree(types[r], payloads[r])
  /\ \A k \in DOMAIN globals : Agree(globals[k].type, globals[k].bits)

\* A program whose functions reserve no more registers than an operand can name,
\* and few enough for MaxFrames windows and any operand above the last to fit,
\* never meets the register limit, never wraps a base and never leaves the
\* registers: the checks that RET and natives lack can only matter to wider
\* functions.  What is left to go wrong is the call of a global that the file
\* stores as a callable.  In the code the width is 255.
Fits(p) ==
  \E width \in 0 .. Byte :
    /\ \A fn \in DOMAIN p.funcs : p.funcs[fn].regc <= width
    /\ BaseRegisters + (MaxFrames - 1) * width + Byte <= MaxRegisters

Roomy == Fits(prog)

RoomyIsSafe ==
  Roomy =>
    /\ status = "failed" /\ panic_code = PANIC_REG_LIMIT => prog.code[ip].op = "PANIC"
    /\ status = "wild" => /\ prog.code[ip].op = "CALL"
                          /\ payloads[Base + prog.code[ip].a].as = "raw"
    /\ \A i \in DOMAIN frames : ~EndsAtLimit(frames[i])

\* Execution leaves the code in two ways only: past a last instruction that goes on
\* to the next, or into a function that the file places outside, whose entry nobody
\* checks (vm_call).  Neither a jump (jump_rel) nor a return lands there, unless it is
\* the return to a CALL that comes last.
LeavesByTheEnd ==
  status = "running" /\ ip >= Len(prog.code) =>
    \/ ip = Len(prog.code) /\ prog.code[ip].op \notin {"HALT", "PANIC", "JMP", "RET"}
    \/ Len(frames) > 1 /\ prog.funcs[frames[Len(frames)].callee].entry = ip

\* What each frame still has in front of it, counted from the bottom: the callers
\* resume behind their CALLs, and the frame on top is at ip.
ResumesAt(i)   == IF i = Len(frames) THEN ip ELSE frames[i + 1].jump
LeftInFrame(i) ==
  IF i \in DOMAIN frames /\ ResumesAt(i) < Len(prog.code)
  THEN Len(prog.code) - ResumesAt(i) ELSE 0
LeftToDo == [i \in 1 .. MaxFrames |-> LeftInFrame(i)]

\* f comes before g where they first differ.
Before(f, g) == \E i \in DOMAIN g : f[i] < g[i] /\ \A j \in 1 .. i - 1 : f[j] = g[j]

\* A jump of the program that does not lead back.
Forward(ins) ==
  /\ ins.op = "JMP" => SignedI24(ins) >= 0
  /\ ins.op \in {"JMPIF", "JMPIFZ"} => SignedI16(ins) >= 0
NoBackwardJump == \A k \in DOMAIN prog.code : Forward(prog.code[k])

\* Calls alone cannot keep vm_run going: recursion ends at MaxFrames and every
\* return moves its caller on.  In a program without a backward jump each step
\* leaves less to do: in the lowest frame that it touches, if not in those above.
LeftToDoShrinks ==
  [][status = "running" /\ status' = "running" /\ NoBackwardJump
       => Before(LeftToDo', LeftToDo)]_vars

\* A program without a backward jump ends.
CallsEnd == NoBackwardJump => <>Ended

-----------------------------------------------------------------------------
(* What the comments and the README of the repository say, and the code    *)
(* does not do.                                                            *)

\* README.md: "Each frame carves out its own slice".
OwnSlice ==
  \A i, j \in DOMAIN frames :
    i # j => Window(frames[i]) \cap Window(frames[j]) = {}

\* vm_call: "jump (args are in the first slots so saves us some bullshit)".
ArgsInFirstSlots ==
  [][AtInstr /\ Ins.op = "CALL" /\ Len(frames') > Len(frames) =>
       LET base == frames'[Len(frames')].base IN
       \A k \in 0 .. Ins.b - 1 :
         base + k \in Reg /\ Base + Ins.a + 1 + k \in Reg =>
           /\ types'[base + k] = types[Base + Ins.a + 1 + k]
           /\ payloads'[base + k] = payloads[Base + Ins.a + 1 + k]]_vars

\* README.md: "on return everything in that scope is cleared".
ScopeCleared ==
  [][AtInstr /\ Ins.op = "RET" /\ status' = "running" =>
       LET frame == frames[Len(frames)]
           dest  == frames[Len(frames) - 1].base + frame.reg
       IN \A r \in Window(frame) \ {dest} : types'[r] = "NUL"]_vars

=============================================================================

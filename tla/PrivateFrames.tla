--------------------------- MODULE PrivateFrames ---------------------------
(***************************************************************************)
(* What the README promises of the frame stack: every activation of a      *)
(* function has registers of its own.  Here there is no register file, no  *)
(* base offset and no frame array: a frame owns its registers, and an      *)
(* instruction can name only those of the frame on top.  What the          *)
(* registers of a new frame hold, and what an instruction computes, is     *)
(* left open; where it may put the result, and what a CALL and a RET pass  *)
(* on, is not.                                                             *)
(***************************************************************************)
EXTENDS Chunk

CONSTANTS
  MaxFrames,      \* MAX_FRAMES, 256
  BaseRegisters   \* BASE_REGISTERS, 16

VARIABLES prog, ip, globals, panic_code, status,
          stack   \* the activations, the entry frame first

vars == <<prog, ip, globals, panic_code, status, stack>>

Top     == stack[Len(stack)]
Ins     == prog.code[ip + 1]
AtInstr == status = "running" /\ ip < Len(prog.code)

\* The registers of the top frame that an instruction may write to.
Writes(ins) ==
  CASE ins.op \in {"JMP", "JMPIF", "JMPIFZ", "STOREG"} -> {}
    [] ins.op = "MOVE" -> {ins.a, ins.b}
    [] ins.op = "CALL" -> {ins.c}
    [] OTHER           -> {ins.a}

\* The function the register of a CALL leads to, if it leads to one.
Callee == Top.regs[Ins.a].bits.val
Calls(kind) ==
  /\ AtInstr /\ Ins.op = "CALL"
  /\ Top.regs[Ins.a].type = "CALLABLE"
  /\ Callee \in DOMAIN prog.funcs
  /\ prog.funcs[Callee].kind = kind
  /\ Ins.b = prog.funcs[Callee].argc

Init ==
  /\ prog \in Program
  /\ ip = 0
  /\ globals \in {prog.globals, << >>}
  /\ panic_code \in {NO_ERROR, PANIC_OOM}
  /\ status = "loaded"
  /\ stack = << >>

\* vm_run pushes the entry frame, with registers that are all null.
Start ==
  /\ status = "loaded"
  /\ \/ /\ status' = "running" /\ panic_code' = NO_ERROR
        /\ stack' = << [resume |-> Len(prog.code), result |-> 0, fn |-> 0,
                        regs |-> [k \in 0 .. BaseRegisters - 1 |->
                                    [type |-> "NUL", bits |-> NulBits]]] >>
     \/ status' = "failed" /\ panic_code' = PANIC_OOM /\ UNCHANGED stack
  /\ UNCHANGED <<prog, ip, globals>>

\* Every instruction but RET and the call of a bytecode function.
Local ==
  LET regs == stack'[Len(stack)].regs IN
  /\ AtInstr
  /\ Ins.op = "CALL" => Calls("NATIVE")
  /\ Ins.op # "RET"
  /\ Ins.op \in {"LOADG", "STOREG"} => Ins.b < Len(globals)
  /\ stack' = [stack EXCEPT ![Len(stack)].regs = regs]
  /\ DOMAIN regs = DOMAIN Top.regs
  /\ \A k \in DOMAIN regs \ Writes(Ins) : regs[k] = Top.regs[k]
  /\ globals' = IF Ins.op = "STOREG"
                THEN [globals EXCEPT ![Ins.b + 1] = Top.regs[Ins.a]] ELSE globals
  /\ IF Ins.op \in {"JMP", "JMPIF", "JMPIFZ"}
     THEN ip' \in 0 .. Len(prog.code) ELSE ip' = ip + 1
  /\ UNCHANGED <<prog, panic_code, status>>

Call ==
  LET new == stack'[Len(stack) + 1] IN
  /\ Calls("BYTECODE")
  /\ Len(stack) < MaxFrames
  /\ Len(stack') = Len(stack) + 1
  /\ stack' = Append(stack, [resume |-> ip + 1, result |-> Ins.c, fn |-> Callee,
                             regs |-> new.regs])
  /\ DOMAIN new.regs = 0 .. prog.funcs[Callee].regc - 1
  /\ ip' = prog.funcs[Callee].entry
  /\ UNCHANGED <<prog, globals, panic_code, status>>

\* The register of the callee goes to the register its CALL named, in the frame
\* that called; nothing else of that frame, or of any below it, has changed.
Return ==
  LET callers == SubSeq(stack, 1, Len(stack) - 1) IN
  /\ AtInstr /\ Ins.op = "RET"
  /\ IF callers = << >>
     THEN stack' = << >> /\ status' = "ok" /\ ip' = ip + 1
     ELSE /\ stack' = [callers EXCEPT ![Len(callers)].regs[Top.result] = Top.regs[Ins.a]]
          /\ ip' = Top.resume
          /\ UNCHANGED status
  /\ UNCHANGED <<prog, globals, panic_code>>

\* A program stops by itself, or where it cannot go on.  It is never stopped for
\* want of registers, and for want of frames only with all of them in use.
Stop ==
  /\ status = "running"
  /\ status' \in {"ok", "failed", "trap"}
  /\ IF AtInstr
     THEN /\ ip' = ip + 1
          /\ Ins.op # "RET"
          /\ status' = "ok" => Ins.op = "HALT"
          /\ Ins.op = "PANIC" => status' = "failed" /\ panic_code' = Ins.a
          /\ Ins.op # "PANIC" => panic_code' # PANIC_REG_LIMIT
          /\ Ins.op = "CALL" /\ panic_code' = PANIC_STACK_OVERFLOW
               => Calls("BYTECODE") /\ Len(stack) = MaxFrames
     ELSE status' = "failed" /\ panic_code' = PANIC_NO_HALT /\ UNCHANGED ip
  /\ UNCHANGED <<prog, globals, stack>>

Next == Start \/ Local \/ Call \/ Return \/ Stop
Spec == Init /\ [][Next]_vars

=============================================================================

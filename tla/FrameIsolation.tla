-------------------------- MODULE FrameIsolation --------------------------
(***************************************************************************)
(* StickVM, whose frames are windows into one register file, implements    *)
(* PrivateFrames, whose frames own their registers: for tidy programs,     *)
(* which name only registers that every function of theirs reserves.       *)
(* An untidy program reads and writes past the window of its frame, which  *)
(* the machine does not check.                                             *)
(***************************************************************************)
EXTENDS StickVM

Dyadics == UNION { BinopOf(t) \cup CmpopOf(t) : t \in NumType }

\* The operands of an instruction that name registers.
RegistersOf(ins) ==
  CASE ins.op \in {"HALT", "PANIC", "JMP"}                  -> {}
    [] ins.op \in {"COPY", "MOVE"} \cup { c.op : c \in Casts } -> {ins.a, ins.b}
    [] ins.op = "CALL"                                      -> {ins.a, ins.c}
    [] ins.op \in Dyadics                                   -> {ins.a, ins.b, ins.c}
    [] OTHER                                                -> {ins.a}

\* No register outside the narrowest window, windows that fit MaxFrames deep,
\* and no callable among the globals, where the loader leaves it raw.
Tidy(p) ==
  /\ \A k \in DOMAIN p.code : \A r \in RegistersOf(p.code[k]) :
       /\ r < BaseRegisters
       /\ \A fn \in DOMAIN p.funcs : p.funcs[fn].kind = "BYTECODE" => r < p.funcs[fn].regc
  /\ Fits(p)
  /\ \A pool \in {p.consts, p.globals} :
       \A k \in DOMAIN pool : pool[k].bits.as # "raw"

ASSUME TidyAssumption == \A p \in Programs : Tidy(p)

\* What a frame's window holds, as registers of its own.
RegsOf(frame) ==
  [k \in 0 .. frame.regc - 1 |->
     [type |-> types[frame.base + k], bits |-> payloads[frame.base + k]]]

Private ==
  [i \in DOMAIN frames |->
     [resume |-> frames[i].jump, result |-> frames[i].reg, fn |-> frames[i].callee,
      regs |-> RegsOf(frames[i])]]

Abstract == INSTANCE PrivateFrames WITH stack <- Private

\* README.md: "Each frame carves out its own slice of the register file using a
\* base offset."  For tidy programs the slices are as good as registers of their
\* own: no sequence of calls, returns, moves and failures can tell the two apart.
FramesArePrivate == Abstract!Spec

=============================================================================

--------------------------- MODULE StickVM_proofs ---------------------------
(***************************************************************************)
(* Theorems about StickVM, for every value of its constants.               *)
(*                                                                         *)
(* The proofs go through the effect of a step rather than through its      *)
(* opcode.  LEMMA StepEffect reduces the actions to five shapes: a run     *)
(* starts, works inside the frame on top, calls, returns, or stops.  Each  *)
(* invariant is then proved from the shapes.                               *)
(***************************************************************************)
EXTENDS StickVM, WellOrdering, TLAPS

\* The registers and globals hold values of their tags, and function pointers
\* that name functions.
Cells ==
  /\ types \in [Reg -> Type]
  /\ payloads \in [Reg -> Held(Len(prog.funcs))]
  /\ globals \in Seq([type : Type, bits : Held(Len(prog.funcs))])
  /\ TagsAgree

\* The part of the invariant that the shapes of a step rest on.
Core ==
  /\ TypeOK /\ TagsAgree /\ CurrentIsTop
  /\ status = "running" => panic_code = NO_ERROR

-----------------------------------------------------------------------------
(* What the shapes are stated with                                         *)

Jumps == {"JMP", "JMPIF", "JMPIFZ"}

\* The opcodes that do more than write to the register their first operand names.
Special == Jumps \cup {"HALT", "PANIC", "MOVE", "LOADG", "STOREG", "CALL", "RET"}

\* The registers that an instruction may write to, counted from the base.
Written(ins) ==
  CASE ins.op \in Jumps \cup {"STOREG"} -> {}
    [] ins.op = "MOVE"                  -> {ins.a, ins.b}
    [] ins.op = "CALL"                  -> {ins.c}
    [] OTHER                            -> {ins.a}

Keeps(r) == types'[r] = types[r] /\ payloads'[r] = payloads[r]

\* No register, global or constant holds the bytes of a callable as they stand
\* in the file.  The constants do not after a load, the globals may.
RawFree ==
  /\ \A r \in Reg : payloads[r].as # "raw"
  /\ \A k \in DOMAIN globals : globals[k].bits.as # "raw"
  /\ \A k \in DOMAIN prog.consts : prog.consts[k].bits.as # "raw"

\* The CALL at ip leads to a function of this kind and has its number of arguments.
Leads(fn, kind) ==
  /\ Ins.op = "CALL" /\ Base + Ins.a \in Reg
  /\ types[Base + Ins.a] = "CALLABLE"
  /\ payloads[Base + Ins.a].as = "fn" /\ payloads[Base + Ins.a].val = fn
  /\ fn \in DOMAIN prog.funcs /\ prog.funcs[fn].kind = kind
  /\ Ins.b = prog.funcs[fn].argc

\* The instruction is none of those that only end a run or a function, and is past
\* the check of a global's index.
Proceeds ==
  /\ Ins.op \notin {"HALT", "PANIC", "RET"}
  /\ Ins.op \in {"LOADG", "STOREG"} => Ins.b < Len(globals)

-----------------------------------------------------------------------------
(* The five shapes                                                         *)

Starts ==
  /\ status = "loaded" /\ status' = "running"
  /\ UNCHANGED <<prog, ip, data>>
  /\ PushFrame(EntryFrame) /\ RefreshCurrent
  /\ panic_code' = NO_ERROR

\* Inside the frame on top: only registers that the instruction names are written.
Works ==
  /\ AtInstr /\ Proceeds
  /\ UNCHANGED <<prog, stack, panic_code, status>>
  /\ IF Ins.op \in Jumps
     THEN ip' \in 0 .. Len(prog.code) - 1 \/ (ip' = ip + 1 /\ Ins.op # "JMP")
     ELSE ip' = ip + 1
  /\ Forward(Ins) => ip' > ip
  /\ Ins.op = "CALL" => \E fn \in DOMAIN prog.funcs : Leads(fn, "NATIVE")
  /\ Cells'
  /\ \A r \in Reg : (\A k \in Written(Ins) : r # Base + k) => Keeps(r)
  /\ globals' = IF Ins.op = "STOREG"
                THEN [globals EXCEPT ![Ins.b + 1] = [type |-> types[Base + Ins.a],
                                                     bits |-> payloads[Base + Ins.a]]]
                ELSE globals
  /\ Ins.op = "STOREG" => Base + Ins.a \in Reg
  /\ RawFree => RawFree'

Calls ==
  /\ AtInstr /\ Ins.op = "CALL"
  /\ UNCHANGED <<prog, data, panic_code, status>>
  /\ \E fn \in DOMAIN prog.funcs :
       LET frame == CalleeFrame(fn, Ins.c) IN
       /\ Leads(fn, "BYTECODE")
       /\ frame.base + frame.regc <= MaxRegisters
       /\ PushFrame(frame)
       /\ ip' = prog.funcs[fn].entry
  /\ RefreshCurrent

\* What RET reads: a null if the operand is past the last register.
Returned ==
  IF Base + Ins.a < MaxRegisters
  THEN [type |-> types[Base + Ins.a], bits |-> payloads[Base + Ins.a]]
  ELSE [type |-> "NUL", bits |-> NulBits]

Returns ==
  /\ AtInstr /\ Ins.op = "RET" /\ Len(frames) > 1
  /\ UNCHANGED <<prog, globals, panic_code, status, framecap, block>>
  /\ frames' = SubSeq(frames, 1, Len(frames) - 1)
  /\ RefreshCurrent
  /\ ip' = frames[Len(frames)].jump
  /\ Cells'
  /\ ReturnSlot \in Reg
  /\ types'[ReturnSlot] = Returned.type /\ payloads'[ReturnSlot] = Returned.bits
  /\ \A r \in Reg \ {ReturnSlot} : Keeps(r)

\* Some instruction of this program may name a register past the last one.
Overruns ==
  \/ \E i \in DOMAIN frames : frames[i].base + Byte > MaxRegisters
  \/ \E fn \in DOMAIN prog.funcs :
       U16(frames[Len(frames)].base + frames[Len(frames)].regc) + prog.funcs[fn].regc
         > MaxRegisters

\* What the instruction that ends a run has to say for it.
Excused(how, code) ==
  /\ how # "failed" => code = panic_code
  /\ how = "failed" => Ins.op = "PANIC" \/ code \in 1 .. PANIC_INVALID_OPCODE
  /\ how = "ok" => Ins.op = "HALT" \/ (Ins.op = "RET" /\ Len(frames) = 1)
  /\ Ins.op = "PANIC" => how = "failed" /\ code = Ins.a
  /\ Ins.op = "RET" => how \in {"ok", "wild"}
  /\ how = "failed" /\ code = PANIC_REG_LIMIT => Ins.op = "PANIC" \/ Overruns
  /\ how = "failed" /\ code = PANIC_STACK_OVERFLOW =>
       \/ Ins.op = "PANIC"
       \/ Len(frames) >= NewCap /\ \E fn \in DOMAIN prog.funcs : Leads(fn, "BYTECODE")
  /\ how = "wild" => Overruns \/ (Ins.op = "CALL" /\ payloads[Base + Ins.a].as = "raw")
  /\ ~Proceeds => \/ Ins.op \in {"HALT", "PANIC", "RET"}
                  \/ how = "failed" /\ code = PANIC_OOB

Stops ==
  /\ status \in {"loaded", "running"}
  /\ status' \in Status \ {"loaded", "running"}
  /\ UNCHANGED <<prog, data, framecap, block, current>>
  /\ frames' = IF AtInstr /\ Ins.op = "RET" /\ status' = "ok" THEN << >> ELSE frames
  /\ panic_code' \in Nat
  /\ \/ status = "loaded" /\ status' = "failed" /\ ip' = ip /\ panic_code' \in PushErrors
     \/ /\ status = "running" /\ ip >= Len(prog.code)
        /\ status' = "failed" /\ ip' = ip /\ panic_code' = PANIC_NO_HALT
     \/ AtInstr /\ ip' = ip + 1 /\ Excused(status', panic_code')

-----------------------------------------------------------------------------
(* Registers                                                               *)

LEMMA ResultAgrees ==
  ASSUME NEW tag \in NumType \cup {"NUL", "BOOL"}, NEW k \in Nat,
         NEW n \in DataOf(tag)
  PROVE  Bits(tag, n) \in Held(k) /\ Agree(tag, Bits(tag, n))
BY HalfWordAssumption DEF NumType, DataOf, Bits, Held, Agree, ViewOf, Payload, View

LEMMA SetRegCells ==
  ASSUME TypeOK, TagsAgree, prog' = prog,
         NEW r \in Reg, NEW tag \in Type, NEW bits \in Held(Len(prog.funcs)),
         Agree(tag, bits), SetReg(r, tag, bits)
  PROVE  Cells' /\ \A s \in Reg \ {r} : Keeps(s)
<1>1. /\ types' = [types EXCEPT ![r] = tag]
      /\ payloads' = [payloads EXCEPT ![r] = bits]
      /\ globals' = globals
  BY DEF SetReg
<1>2. /\ types' \in [Reg -> Type]
      /\ payloads' \in [Reg -> Held(Len(prog.funcs))]
      /\ globals' \in Seq([type : Type, bits : Held(Len(prog.funcs))])
  BY <1>1 DEF TypeOK
<1>3. \A s \in Reg : Agree(types'[s], payloads'[s])
  BY <1>1 DEF TypeOK, TagsAgree
<1>4. TagsAgree'
  BY <1>1, <1>3 DEF TagsAgree
<1> QED BY <1>1, <1>2, <1>4 DEF Cells, TypeOK, Keeps

LEMMA HighestIsMember ==
  ASSUME NEW a \in Nat, NEW b \in Nat, NEW c \in Nat
  PROVE  /\ HighestOf({a, b, c}) \in {a, b, c}
         /\ \A s \in {a, b, c} : s <= HighestOf({a, b, c})
<1>1. \E r \in {a, b, c} : \A s \in {a, b, c} : s <= r
  <2>1. CASE b <= a /\ c <= a BY <2>1
  <2>2. CASE a <= b /\ c <= b BY <2>2
  <2>3. CASE a <= c /\ b <= c BY <2>3
  <2> QED BY <2>1, <2>2, <2>3
<1> QED BY <1>1 DEF HighestOf

LEMMA HighestIsBound ==
  ASSUME NEW a \in Nat, NEW b \in Nat, NEW c \in Nat,
         HighestOf({a, b, c}) + 1 <= MaxRegisters
  PROVE  a \in Reg /\ b \in Reg /\ c \in Reg
BY HighestIsMember, SizesAssumption DEF Reg

\* While vm_run is in its loop there is a frame on top, and its base is a register.
LEMMA TopFrame ==
  ASSUME Core, status = "running"
  PROVE  /\ Len(frames) \in Nat \ {0}
         /\ current.index = Len(frames)
         /\ frames[Len(frames)] \in Frame
         /\ Base = frames[Len(frames)].base
         /\ Base \in Reg /\ Base \in Nat
<1>1. frames \in Seq(Frame) /\ frames # << >> /\ current.index = Len(frames)
  BY DEF Core, TypeOK, CurrentIsTop
<1>2. Len(frames) \in Nat \ {0} /\ frames[Len(frames)] \in Frame
  BY <1>1
<1> QED BY <1>1, <1>2, SizesAssumption DEF Base, Frame, Reg

LEMMA Fetched ==
  ASSUME Core, NEW ops, Fetch(ops)
  PROVE  /\ AtInstr /\ Ins \in Instr /\ Ins.op \in ops
         /\ Ins.a \in Nat /\ Ins.b \in Nat /\ Ins.c \in Nat
         /\ Ins.a \in Operand /\ Ins.b \in Operand /\ Ins.c \in Operand
<1>1. status = "running" /\ ip < Len(prog.code) /\ ip \in Nat
  BY DEF Core, TypeOK, Fetch
<1>2. prog.code \in Seq(Instr)
  BY DEF Core, TypeOK, Program
<1>3. Ins \in Instr
  BY <1>1, <1>2 DEF Ins
<1> QED BY <1>1, <1>3, SizesAssumption DEF AtInstr, Instr, Operand, Fetch

\* The opcodes that compute are none of the special ones.
LEMMA OpsApart ==
  /\ \A tag \in NumType : (BinopOf(tag) \cup CmpopOf(tag) \cup UnopOf(tag)) \cap Special = {}
  /\ \A c \in Casts : c.op \notin Special
<1>1. ASSUME NEW tag \in NumType
      PROVE  (BinopOf(tag) \cup CmpopOf(tag) \cup UnopOf(tag)) \cap Special = {}
  <2>1. BinopOf(tag) \cap Special = {}
    BY DEF NumType, BinopOf, Special, Jumps
  <2>2. CmpopOf(tag) \cap Special = {}
    BY DEF NumType, CmpopOf, Special, Jumps
  <2>3. UnopOf(tag) \cap Special = {}
    BY DEF NumType, UnopOf, Special, Jumps
  <2> QED BY <2>1, <2>2, <2>3
<1>2. \A c \in Casts : c.op \notin Special
  BY DEF Casts, Special, Jumps
<1> QED BY <1>1, <1>2

LEMMA PlainProceeds ==
  ASSUME Ins.op \notin Special
  PROVE  Proceeds /\ Written(Ins) = {Ins.a}
BY DEF Special, Jumps, Proceeds, Written

LEMMA EndStops ==
  ASSUME Core, AtInstr, NEW how \in Status \ {"loaded", "running"},
         NEW code \in Nat, Excused(how, code), End(how, code),
         ~(Ins.op = "RET" /\ how = "ok")
  PROVE  Stops
BY DEF End, Stops, Core, TypeOK, AtInstr, data, stack

\* The codes of the checks that depend on the data, not on a limit.
LEMMA CheckStops ==
  ASSUME Core, AtInstr,
         NEW code \in {PANIC_OOB, PANIC_OOM, PANIC_INVALID_CALLABLE, PANIC_CALL_FAILED,
                       PANIC_TYPE_MISMATCH, PANIC_INVALID_OPCODE},
         Proceeds \/ (code = PANIC_OOB /\ Ins.op \notin {"PANIC", "RET"}),
         Fail(code)
  PROVE  Stops
<1>1. Ins.op \notin {"PANIC", "RET"}
  BY DEF Proceeds
<1>2. code \in Nat /\ Excused("failed", code)
  BY <1>1 DEF Excused, PANIC_OOB, PANIC_OOM, PANIC_INVALID_CALLABLE, PANIC_CALL_FAILED,
         PANIC_TYPE_MISMATCH, PANIC_INVALID_OPCODE, PANIC_REG_LIMIT, PANIC_STACK_OVERFLOW
<1> QED BY <1>1, <1>2, EndStops DEF Fail, Status

\* An operand past the last register: one operand, the higher of two, of three.
LEMMA ReachStops ==
  ASSUME Core, AtInstr, Proceeds, NEW reach \in Nat, reach <= Base + Byte,
         reach > MaxRegisters, Fail(PANIC_REG_LIMIT)
  PROVE  Stops
<1>1. /\ status = "running" /\ Base \in Nat /\ Len(frames) \in Nat \ {0}
      /\ Base = frames[Len(frames)].base /\ DOMAIN frames = 1 .. Len(frames)
  BY TopFrame DEF AtInstr, Core, TypeOK
<1>2. Overruns
  BY <1>1, SizesAssumption DEF Overruns
<1>3. Excused("failed", PANIC_REG_LIMIT)
  BY <1>2 DEF Excused, Proceeds, PANIC_REG_LIMIT, PANIC_STACK_OVERFLOW, PANIC_INVALID_OPCODE
<1> QED BY <1>3, EndStops DEF Fail, Status, Proceeds, PANIC_REG_LIMIT

LEMMA OperandStops ==
  ASSUME Core, AtInstr, Proceeds, NEW x \in Operand,
         ~(Base + x + 1 <= MaxRegisters), Fail(PANIC_REG_LIMIT)
  PROVE  Stops
<1>1. Base \in Nat
  BY TopFrame DEF AtInstr
<1> QED BY <1>1, ReachStops, SizesAssumption DEF Operand

LEMMA OperandsStop ==
  ASSUME Core, AtInstr, Proceeds, NEW x \in Operand, NEW y \in Operand, NEW z \in Operand,
         ~(HighestOf({Base + x, Base + y, Base + z}) + 1 <= MaxRegisters),
         Fail(PANIC_REG_LIMIT)
  PROVE  Stops
<1>1. Base \in Nat /\ Base + x \in Nat /\ Base + y \in Nat /\ Base + z \in Nat
  BY TopFrame, SizesAssumption DEF AtInstr, Operand
<1>2. HighestOf({Base + x, Base + y, Base + z}) \in {Base + x, Base + y, Base + z}
  BY <1>1, HighestIsMember
<1> QED BY <1>1, <1>2, ReachStops, SizesAssumption DEF Operand

LEMMA EntryFrameType ==
  ASSUME TypeOK
  PROVE  EntryFrame \in Frame
<1>1. Len(prog.code) \in Nat
  BY DEF TypeOK, Program
<1> QED BY <1>1, SizesAssumption DEF EntryFrame, Frame, Reg, Operand

LEMMA CalleeFrameType ==
  ASSUME Core, AtInstr, NEW fn \in DOMAIN prog.funcs
  PROVE  /\ CalleeFrame(fn, Ins.c) \in Frame
         /\ prog.funcs[fn] \in Func
         /\ CalleeFrame(fn, Ins.c).base =
              U16(frames[Len(frames)].base + frames[Len(frames)].regc)
<1>1. prog.funcs \in Seq(Func) /\ ip \in Nat
  BY DEF Core, TypeOK, Program
<1>2. prog.funcs[fn] \in Func /\ fn \in Nat
  BY <1>1
<1>3. status = "running" /\ Fetch({Ins.op})
  BY DEF AtInstr, Fetch
<1>4. /\ Ins.c \in Operand /\ Base = frames[Len(frames)].base
      /\ current.index = Len(frames) /\ frames[Len(frames)] \in Frame
  BY <1>3, Fetched, TopFrame
<1>5. Base \in Int /\ frames[current.index].regc \in Int
  BY <1>4, SizesAssumption DEF Frame, Reg
<1>6. MaxRegisters \in Nat /\ MaxRegisters > 0
  BY SizesAssumption
<1>7. U16(Base + frames[current.index].regc) \in Reg
  BY <1>5, <1>6 DEF U16, Reg
<1> QED BY <1>1, <1>2, <1>4, <1>7 DEF CalleeFrame, Frame, Func

LEMMA WildStops ==
  ASSUME Core, AtInstr, Wild, Proceeds \/ Ins.op = "RET",
         Overruns \/ (Ins.op = "CALL" /\ payloads[Base + Ins.a].as = "raw")
  PROVE  Stops
<1>1. panic_code \in Nat /\ Excused("wild", panic_code)
  BY DEF Excused, Proceeds, Core, TypeOK
<1> QED BY <1>1, EndStops DEF Wild, Status

LEMMA CallFailedStops ==
  ASSUME Core, AtInstr, Ins.op = "CALL", CallFailed
  PROVE  Stops
<1>1. Fail(PANIC_CALL_FAILED) /\ Proceeds
  BY DEF CallFailed, Core, AtInstr, Proceeds
<1> QED BY <1>1, CheckStops

-----------------------------------------------------------------------------
(* Each action has one of the shapes                                       *)

LEMMA StartEffect ==
  ASSUME Core, Start
  PROVE  Starts \/ Stops
<1>1. CASE PushFrame(EntryFrame) /\ RefreshCurrent /\ status' = "running" /\ panic_code' = NO_ERROR
  BY <1>1 DEF Start, Starts
<1>2. CASE panic_code' \in PushErrors /\ status' = "failed" /\ UNCHANGED stack
  <2>1. panic_code' \in Nat
    BY <1>2 DEF PushErrors, PANIC_OOM, PANIC_STACK_OVERFLOW
  <2> QED BY <1>2, <2>1 DEF Start, Stops, AtInstr, data, stack, Status
<1> QED BY <1>1, <1>2 DEF Start

LEMMA RawFreeKept ==
  ASSUME UNCHANGED <<prog, data>>
  PROVE  RawFree => RawFree'
BY DEF RawFree, data

LEMMA JumpEffect ==
  ASSUME Core, AtInstr, Ins.op \in Jumps, NEW off \in Int, JumpRel(off),
         Forward(Ins) => off >= 0
  PROVE  Works \/ Stops
<1>1. Proceeds /\ Written(Ins) = {}
  BY DEF Jumps, Proceeds, Written
<1>2. CASE ip + 1 + off \in 0 .. Len(prog.code) - 1
  <2>1. GoTo(ip + 1 + off) /\ UNCHANGED <<data, stack>>
    BY <1>2 DEF JumpRel
  <2>2. Len(prog.code) \in Nat /\ ip \in Nat
    BY DEF Core, TypeOK, Program
  <2>3. Cells' /\ \A r \in Reg : Keeps(r)
    BY <2>1 DEF Core, TypeOK, Cells, GoTo, data, TagsAgree, Keeps
  <2>4. /\ ip' \in 0 .. Len(prog.code) - 1 /\ UNCHANGED <<prog, panic_code, status>>
        /\ Forward(Ins) => ip' > ip
    BY <1>2, <2>1, <2>2 DEF GoTo
  <2> QED BY <1>1, <2>1, <2>3, <2>4, RawFreeKept DEF Works, data, Jumps
<1>3. CASE ip + 1 + off \notin 0 .. Len(prog.code) - 1
  BY <1>1, <1>3, CheckStops DEF JumpRel
<1> QED BY <1>2, <1>3

\* One register is written, and the machine goes on behind the instruction.
LEMMA SetRegWorks ==
  ASSUME Core, AtInstr, Proceeds, Ins.op \notin Jumps \cup {"STOREG"},
         Ins.op = "CALL" => \E fn \in DOMAIN prog.funcs : Leads(fn, "NATIVE"),
         NEW k \in Written(Ins), Base + k \in Reg,
         NEW tag \in Type, NEW bits \in Held(Len(prog.funcs)),
         Agree(tag, bits), RawFree => bits.as # "raw",
         SetReg(Base + k, tag, bits), Continue, UNCHANGED stack
  PROVE  Works
<1> DEFINE r == Base + k
<1>1. UNCHANGED <<prog, panic_code, status, stack>> /\ ip' = ip + 1 /\ ip' > ip
  BY DEF Continue, GoTo, Core, TypeOK
<1>2. Cells' /\ \A s \in Reg \ {r} : Keeps(s)
  <2> HIDE DEF r
  <2>1. r \in Reg /\ SetReg(r, tag, bits)
    BY DEF r
  <2> QED BY <1>1, <2>1, SetRegCells DEF Core
<1>3. globals' = globals /\ payloads' = [payloads EXCEPT ![r] = bits]
  BY DEF SetReg
<1>4. RawFree => RawFree'
  <2>1. payloads \in [Reg -> Held(Len(prog.funcs))]
    BY DEF Core, TypeOK
  <2> HIDE DEF r
  <2> QED BY <1>1, <1>3, <2>1 DEF RawFree
<1>5. \A s \in Reg : (\A j \in Written(Ins) : s # Base + j) => Keeps(s)
  BY <1>2
<1> QED BY <1>1, <1>2, <1>3, <1>4, <1>5 DEF Works

LEMMA CopyEffect ==
  ASSUME Core, Copy
  PROVE  Works \/ Stops
<1> DEFINE dest == Base + Ins.a
           src  == Base + Ins.b
<1>1. /\ AtInstr /\ Ins.op = "COPY" /\ Ins.a \in Operand /\ Ins.b \in Operand
      /\ Ins.a \in Nat /\ Ins.b \in Nat /\ Base \in Nat
  <2>1. Fetch({"COPY"}) BY DEF Copy
  <2> QED BY <2>1, Fetched, TopFrame DEF AtInstr
<1>2. Ins.op \notin Special /\ Proceeds /\ Written(Ins) = {Ins.a}
  BY <1>1, PlainProceeds DEF Special, Jumps
<1>3. CASE HighestOf({dest, src}) + 1 <= MaxRegisters
  <2>1. dest \in Reg /\ src \in Reg
    <3>1. {dest, src} = {dest, src, src} /\ dest \in Nat /\ src \in Nat
      BY <1>1
    <3> QED BY <1>3, <3>1, HighestIsBound
  <2>2. SetReg(dest, types[src], payloads[src]) /\ Continue /\ UNCHANGED stack
    BY <1>3 DEF Copy, EnsureRegs, SetReg, Copied
  <2>3. /\ types[src] \in Type /\ payloads[src] \in Held(Len(prog.funcs))
        /\ Agree(types[src], payloads[src])
        /\ RawFree => payloads[src].as # "raw"
    BY <2>1 DEF Core, TypeOK, TagsAgree, RawFree
  <2> QED BY <1>1, <1>2, <2>1, <2>2, <2>3, SetRegWorks DEF Special
<1>4. CASE ~(HighestOf({dest, src}) + 1 <= MaxRegisters)
  <2>1. {dest, src} = {dest, src, src} OBVIOUS
  <2> QED BY <2>1, <1>1, <1>2, <1>4, OperandsStop DEF Copy, EnsureRegs
<1> QED BY <1>3, <1>4

LEMMA MoveEffect ==
  ASSUME Core, Move
  PROVE  Works \/ Stops
<1> DEFINE dest == Base + Ins.a
           src  == Base + Ins.b
<1>1. /\ AtInstr /\ Ins.op = "MOVE" /\ Ins.a \in Operand /\ Ins.b \in Operand
      /\ Ins.a \in Nat /\ Ins.b \in Nat /\ Base \in Nat
  <2>1. Fetch({"MOVE"}) BY DEF Move
  <2> QED BY <2>1, Fetched, TopFrame DEF AtInstr
<1>2. Proceeds /\ Written(Ins) = {Ins.a, Ins.b} /\ Ins.op \notin Jumps
  BY <1>1 DEF Proceeds, Written, Jumps
<1>3. CASE HighestOf({dest, src}) + 1 <= MaxRegisters
  <2>1. dest \in Reg /\ src \in Reg
    <3>1. {dest, src} = {dest, src, src} /\ dest \in Nat /\ src \in Nat
      BY <1>1
    <3> QED BY <1>3, <3>1, HighestIsBound
  <2>2. /\ types' = [types EXCEPT ![dest] = types[src], ![src] = "NUL"]
        /\ payloads' = [payloads EXCEPT ![dest] = payloads[src], ![src] = NulBits]
        /\ UNCHANGED <<globals, stack>> /\ Continue
    BY <1>3 DEF Move, EnsureRegs, Moved, Copied
  <2>3. /\ types[src] \in Type /\ payloads[src] \in Held(Len(prog.funcs))
        /\ Agree(types[src], payloads[src])
    BY <2>1 DEF Core, TypeOK, TagsAgree
  <2>4. NulBits \in Held(Len(prog.funcs)) /\ Agree("NUL", NulBits) /\ NulBits.as # "raw"
    BY DEF NulBits, Bits, ViewOf, Held, Payload, View, Agree, NumType
  <2>5. /\ types' \in [Reg -> Type]
        /\ payloads' \in [Reg -> Held(Len(prog.funcs))]
    BY <2>1, <2>2, <2>3, <2>4 DEF Core, TypeOK, Type
  <2>6. \A r \in Reg : Agree(types'[r], payloads'[r])
    BY <2>1, <2>2, <2>3, <2>4 DEF Core, TypeOK, TagsAgree
  <2>7. Cells'
    BY <2>2, <2>5, <2>6 DEF Cells, TagsAgree, Core, TypeOK, Continue, GoTo
  <2>8. \A r \in Reg : (\A k \in Written(Ins) : r # Base + k) => Keeps(r)
    <3>1. \A r \in Reg \ {dest, src} : Keeps(r)
      BY <2>2 DEF Core, TypeOK, Keeps
    <3>2. \A r \in Reg : (\A k \in Written(Ins) : r # Base + k) => r # dest /\ r # src
      BY <1>2
    <3> HIDE DEF dest, src
    <3> QED BY <3>1, <3>2
  <2>9. RawFree => RawFree'
    <3>1. \A r \in Reg : payloads'[r] \in {payloads[r], payloads[src], NulBits}
      BY <2>2 DEF Core, TypeOK
    <3> HIDE DEF dest, src
    <3> QED BY <2>1, <2>2, <2>4, <3>1 DEF RawFree, Continue, GoTo
  <2>10. ip' = ip + 1 /\ ip' > ip
    BY <2>2 DEF Continue, GoTo, Core, TypeOK
  <2> QED BY <1>1, <1>2, <2>2, <2>7, <2>8, <2>9, <2>10 DEF Works, Continue, GoTo
<1>4. CASE ~(HighestOf({dest, src}) + 1 <= MaxRegisters)
  <2>1. {dest, src} = {dest, src, src} OBVIOUS
  <2> QED BY <2>1, <1>1, <1>2, <1>4, OperandsStop DEF Move, EnsureRegs
<1> QED BY <1>3, <1>4

LEMMA SignedType ==
  ASSUME NEW n \in Int, NEW size \in Int
  PROVE  Signed(n, size) \in Int
BY DEF Signed

LEMMA ProductMonotone ==
  ASSUME NEW k \in Nat, NEW m \in Nat, NEW n \in Nat, k <= m
  PROVE  k * n \in 0 .. m * n
<1>1. m - k \in Nat OBVIOUS
<1>2. (m - k) * n >= 0 /\ k * n >= 0 /\ k * n \in Int /\ m * n \in Int
  BY <1>1
<1>3. (m - k) * n = m * n - k * n OBVIOUS
<1> QED BY <1>2, <1>3

\* The immediate of LOADI is sixteen bits of an i64.
LEMMA ImmediateFits ==
  ASSUME NEW ins \in Instr
  PROVE  /\ SignedI16(ins) \in DataOf("I64")
         /\ SignedI24(ins) \in Int
<1> DEFINE n    == ins.b * Byte + ins.c
           size == Byte * Byte
<1>1. Byte \in Nat /\ Byte >= 1 /\ HalfWord \in Nat
  BY SizesAssumption, HalfWordAssumption
<1>2. ins.a \in 0 .. Byte - 1 /\ ins.b \in 0 .. Byte - 1 /\ ins.c \in 0 .. Byte - 1
  BY DEF Instr, Operand
<1>3. ins.b * Byte \in 0 .. (Byte - 1) * Byte
  <2>1. ins.b \in Nat /\ Byte - 1 \in Nat /\ ins.b <= Byte - 1
    BY <1>1, <1>2
  <2> QED BY <1>1, <2>1, ProductMonotone
<1>4. (Byte - 1) * Byte = size - Byte
  BY <1>1
<1>5. size \in Nat
  BY <1>1
<1>6. n \in 0 .. size - 1
  <2> HIDE DEF size
  <2> QED BY <1>1, <1>2, <1>3, <1>4, <1>5
<1>7. SignedI16(ins) = Signed(n, size)
  BY DEF SignedI16
<1>8. size <= 2 * HalfWord
  BY ImmediateAssumption
<1>9. Signed(n, size) \in -HalfWord .. HalfWord - 1
  <2> HIDE DEF n, size
  <2> QED BY <1>1, <1>5, <1>6, <1>8 DEF Signed
<1>10. DataOf("I64") = -HalfWord .. HalfWord - 1
  BY DEF DataOf
<1>11. SignedI24(ins) \in Int
  <2>1. ins.a * Byte + ins.b \in Int /\ size \in Int
    BY <1>1, <1>2
  <2>2. (ins.a * Byte + ins.b) * Byte + ins.c \in Int /\ size * Byte \in Int
    BY <1>1, <1>2, <2>1
  <2> QED BY <2>2, SignedType DEF SignedI24
<1> QED BY <1>7, <1>9, <1>10, <1>11

LEMMA LoadIEffect ==
  ASSUME Core, LoadI
  PROVE  Works \/ Stops
<1> DEFINE dest == Base + Ins.a
<1>1. /\ AtInstr /\ Ins.op = "LOADI" /\ Ins \in Instr /\ Ins.a \in Operand
      /\ Ins.a \in Nat /\ Base \in Nat
  <2>1. Fetch({"LOADI"}) BY DEF LoadI
  <2> QED BY <2>1, Fetched, TopFrame DEF AtInstr
<1>2. Ins.op \notin Special /\ Proceeds /\ Written(Ins) = {Ins.a}
  BY <1>1, PlainProceeds DEF Special, Jumps
<1>3. CASE dest + 1 <= MaxRegisters
  <2>1. dest \in Reg
    BY <1>1, <1>3, SizesAssumption DEF Reg
  <2>2. SetReg(dest, "I64", Bits("I64", SignedI16(Ins))) /\ Continue /\ UNCHANGED stack
    BY <1>3 DEF LoadI, EnsureRegs
  <2>3. Len(prog.funcs) \in Nat
    BY DEF Core, TypeOK, Program
  <2>4. /\ Bits("I64", SignedI16(Ins)) \in Held(Len(prog.funcs))
        /\ Agree("I64", Bits("I64", SignedI16(Ins)))
        /\ Bits("I64", SignedI16(Ins)).as # "raw"
    BY <1>1, <2>3, ImmediateFits, ResultAgrees DEF NumType, Bits, ViewOf
  <2> QED BY <1>1, <1>2, <2>1, <2>2, <2>4, SetRegWorks DEF Type, NumType, Special
<1>4. CASE ~(dest + 1 <= MaxRegisters)
  BY <1>1, <1>2, <1>4, OperandStops DEF LoadI, EnsureRegs
<1> QED BY <1>3, <1>4

\* LOADC with the constants, LOADG with the globals.
LEMMA LoadFromEffect ==
  ASSUME Core, NEW op, NEW pool \in Seq(Value),
         op = "LOADC" \/ (op = "LOADG" /\ pool = globals),
         \A k \in 1 .. Len(pool) : /\ pool[k].bits \in Held(Len(prog.funcs))
                                   /\ Agree(pool[k].type, pool[k].bits)
                                   /\ RawFree => pool[k].bits.as # "raw",
         LoadFrom(op, pool)
  PROVE  Works \/ Stops
<1> DEFINE dest == Base + Ins.a
<1>1. /\ AtInstr /\ Ins.op = op /\ Ins.a \in Operand
      /\ Ins.a \in Nat /\ Ins.b \in Nat /\ Base \in Nat /\ Len(pool) \in Nat
  <2>1. Fetch({op}) BY DEF LoadFrom
  <2> QED BY <2>1, Fetched, TopFrame DEF AtInstr
<1>2. /\ Ins.op \notin {"PANIC", "RET", "STOREG", "CALL"} \cup Jumps
      /\ Written(Ins) = {Ins.a}
      /\ ~(Ins.b >= Len(pool)) => Proceeds
  BY <1>1 DEF Written, Jumps, Proceeds
<1>3. CASE Ins.b >= Len(pool)
  BY <1>1, <1>2, <1>3, CheckStops DEF LoadFrom
<1>4. CASE ~(Ins.b >= Len(pool)) /\ dest + 1 <= MaxRegisters
  <2>1. dest \in Reg
    BY <1>1, <1>4, SizesAssumption DEF Reg
  <2>2. /\ SetReg(dest, pool[Ins.b + 1].type, pool[Ins.b + 1].bits)
        /\ Continue /\ UNCHANGED stack
    BY <1>4 DEF LoadFrom, EnsureRegs
  <2>3. Ins.b + 1 \in 1 .. Len(pool)
    BY <1>1, <1>4
  <2>4. /\ pool[Ins.b + 1].type \in Type
        /\ pool[Ins.b + 1].bits \in Held(Len(prog.funcs))
        /\ Agree(pool[Ins.b + 1].type, pool[Ins.b + 1].bits)
        /\ RawFree => pool[Ins.b + 1].bits.as # "raw"
    <3>1. pool[Ins.b + 1] \in Value BY <2>3
    <3> QED BY <2>3, <3>1 DEF Value
  <2> QED BY <1>1, <1>2, <1>4, <2>1, <2>2, <2>4, SetRegWorks
<1>5. CASE ~(Ins.b >= Len(pool)) /\ ~(dest + 1 <= MaxRegisters)
  BY <1>1, <1>2, <1>5, OperandStops DEF LoadFrom, EnsureRegs
<1> QED BY <1>3, <1>4, <1>5

LEMMA StoreGEffect ==
  ASSUME Core, StoreG
  PROVE  Works \/ Stops
<1> DEFINE src  == Base + Ins.a
           cell == [type : Type, bits : Held(Len(prog.funcs))]
<1>1. /\ AtInstr /\ Ins.op = "STOREG" /\ Ins.a \in Operand /\ Ins.b \in Operand
      /\ Ins.a \in Nat /\ Ins.b \in Nat /\ Base \in Nat
  <2>1. Fetch({"STOREG"}) BY DEF StoreG
  <2> QED BY <2>1, Fetched, TopFrame DEF AtInstr
<1>2. globals \in Seq(cell) /\ Len(globals) \in Nat
  BY DEF Core, TypeOK
<1>3. CASE Ins.b >= Len(globals)
  BY <1>1, <1>3, CheckStops DEF StoreG
<1>4. ~(Ins.b >= Len(globals)) => Proceeds
  BY <1>1, <1>2 DEF Proceeds
<1>5. CASE ~(Ins.b >= Len(globals)) /\ src + 1 <= MaxRegisters
  <2> DEFINE value == [type |-> types[src], bits |-> payloads[src]]
  <2>1. src \in Reg
    BY <1>1, <1>5, SizesAssumption DEF Reg
  <2>2. /\ globals' = [globals EXCEPT ![Ins.b + 1] = value]
        /\ UNCHANGED <<types, payloads, stack>> /\ Continue
    BY <1>5 DEF StoreG, EnsureRegs
  <2>3. /\ value \in cell /\ Agree(value.type, value.bits)
        /\ RawFree => value.bits.as # "raw"
    BY <2>1 DEF Core, TypeOK, TagsAgree, RawFree
  <2>4. globals' \in Seq(cell)
    <3> HIDE DEF value, cell
    <3> QED BY <1>1, <1>2, <1>5, <2>2, <2>3
  <2>5. DOMAIN globals' = DOMAIN globals
    BY <2>2
  <2>6. \A k \in DOMAIN globals : globals'[k] = globals[k] \/ globals'[k] = value
    <3> HIDE DEF value
    <3> QED BY <2>2
  <2>7. /\ \A k \in DOMAIN globals' : Agree(globals'[k].type, globals'[k].bits)
        /\ RawFree => RawFree'
    <3> HIDE DEF value
    <3> QED BY <2>2, <2>3, <2>5, <2>6 DEF Core, TagsAgree, RawFree, Continue, GoTo
  <2>8. Cells'
    BY <2>2, <2>4, <2>7 DEF Cells, TagsAgree, Core, TypeOK, Continue, GoTo
  <2>9. Written(Ins) = {} /\ Ins.op \notin Jumps \cup {"CALL"}
    BY <1>1 DEF Written, Jumps
  <2>10. ip' = ip + 1 /\ ip' > ip
    BY <2>2 DEF Continue, GoTo, Core, TypeOK
  <2> QED BY <1>1, <1>4, <1>5, <2>1, <2>2, <2>7, <2>8, <2>9, <2>10
      DEF Works, Continue, GoTo, Keeps
<1>6. CASE ~(Ins.b >= Len(globals)) /\ ~(src + 1 <= MaxRegisters)
  BY <1>1, <1>4, <1>6, OperandStops DEF StoreG, EnsureRegs
<1> QED BY <1>3, <1>5, <1>6

LEMMA ComputeWorks ==
  ASSUME Core, AtInstr, Ins.op \notin Special, Base + Ins.a \in Reg,
         NEW tag \in NumType \cup {"BOOL"}, NEW results \in SUBSET DataOf(tag),
         Compute(Base + Ins.a, tag, results)
  PROVE  Works
<1>1. PICK n \in DataOf(tag) : SetReg(Base + Ins.a, tag, Bits(tag, n))
  BY DEF Compute
<1>2. Len(prog.funcs) \in Nat
  BY DEF Core, TypeOK, Program
<1>3. /\ Bits(tag, n) \in Held(Len(prog.funcs)) /\ Agree(tag, Bits(tag, n))
      /\ Bits(tag, n).as # "raw"
  BY <1>2, ResultAgrees DEF Bits, ViewOf
<1>4. tag \in Type
  BY DEF Type
<1>5. Continue /\ UNCHANGED stack
  BY DEF Compute
<1> QED BY <1>1, <1>3, <1>4, <1>5, PlainProceeds, SetRegWorks DEF Special

\* Whatever an opcode computes, defined or not, is a value of its result type.
LEMMA IntegerResultsTyped ==
  ASSUME NEW op, NEW tag, NEW l, NEW r
  PROVE  IntegerResults(op, tag, l, r) \subseteq DataOf(tag)
<1>1. \A n : Fitting(tag, n) \subseteq DataOf(tag)
  BY DEF Fitting, Wrapped
<1>2. Bitwise(op, tag, l, r) \subseteq DataOf(tag)
  BY DEF Bitwise
<1> QED BY <1>1, <1>2 DEF IntegerResults

LEMMA DyadicResultsTyped ==
  ASSUME NEW tag \in NumType, NEW opcodes, NEW result, NEW op \in opcodes, NEW l, NEW r,
         \/ opcodes = BinopOf(tag) /\ result = tag
         \/ opcodes = CmpopOf(tag) /\ result = "BOOL"
  PROVE  DyadicResults(op, tag, l, r) \in SUBSET DataOf(result)
<1>1. BinopResults(op, tag, l, r) \subseteq DataOf(tag)
  BY IntegerResultsTyped DEF BinopResults
<1>2. CmpopResults(op, tag, l, r) \subseteq DataOf("BOOL")
  BY DEF CmpopResults, DataOf
<1>3. BinopOf(tag) \cap CmpopOf(tag) = {}
  BY DEF NumType, BinopOf, CmpopOf
<1> QED BY <1>1, <1>2, <1>3 DEF DyadicResults

LEMMA UnopResultsTyped ==
  ASSUME NEW op, NEW tag, NEW n
  PROVE  UnopResults(op, tag, n) \in SUBSET DataOf(tag)
<1>1. \A k : Fitting(tag, k) \subseteq DataOf(tag)
  BY DEF Fitting, Wrapped
<1> QED BY <1>1 DEF UnopResults

LEMMA CastResultsTyped ==
  ASSUME NEW c \in Casts, NEW n
  PROVE  CastResults(c.from, c.to, n) \in SUBSET DataOf(c.to)
<1>1. Wrapped(c.to, n) \subseteq DataOf(c.to)
  BY DEF Wrapped
<1>2. 0 \in DataOf(c.to)
  BY HalfWordAssumption DEF Casts, DataOf
<1> QED BY <1>1, <1>2 DEF CastResults

LEMMA DyadicEffect ==
  ASSUME Core, NEW tag \in NumType, NEW opcodes, NEW result \in NumType \cup {"BOOL"},
         \/ opcodes = BinopOf(tag) /\ result = tag
         \/ opcodes = CmpopOf(tag) /\ result = "BOOL",
         Dyadic(tag, opcodes, result)
  PROVE  Works \/ Stops
<1> DEFINE dest == Base + Ins.a
           lhs  == Base + Ins.b
           rhs  == Base + Ins.c
           results == DyadicResults(Ins.op, tag, payloads[lhs].val, payloads[rhs].val)
<1>1. /\ AtInstr /\ Ins.op \in opcodes
      /\ Ins.a \in Operand /\ Ins.b \in Operand /\ Ins.c \in Operand
      /\ Ins.a \in Nat /\ Ins.b \in Nat /\ Ins.c \in Nat /\ Base \in Nat
  <2>1. Fetch(opcodes) BY DEF Dyadic
  <2> QED BY <2>1, Fetched, TopFrame DEF AtInstr
<1>2. Ins.op \notin Special /\ Proceeds
  BY <1>1, OpsApart, PlainProceeds
<1>3. CASE ~(HighestOf({dest, lhs, rhs}) + 1 <= MaxRegisters)
  BY <1>1, <1>2, <1>3, OperandsStop DEF Dyadic, EnsureRegs
<1>4. CASE HighestOf({dest, lhs, rhs}) + 1 <= MaxRegisters
  <2>1. dest \in Reg
    <3>1. dest \in Nat /\ lhs \in Nat /\ rhs \in Nat
      BY <1>1
    <3> QED BY <1>4, <3>1, HighestIsBound
  <2>2. CASE ~(\A r \in {lhs, rhs} : types[r] = tag)
    BY <1>1, <1>2, <1>4, <2>2, CheckStops
    DEF Dyadic, EnsureRegs, RequireType
  <2>3. CASE \A r \in {lhs, rhs} : types[r] = tag
    <3>1. Compute(dest, result, results) \/ End("trap", panic_code)
      BY <1>4, <2>3 DEF Dyadic, EnsureRegs, RequireType
    <3>2. CASE Compute(dest, result, results)
      <4>1. results \in SUBSET DataOf(result)
        BY DyadicResultsTyped DEF Dyadic, Fetch
      <4> HIDE DEF results
      <4> QED BY <1>1, <1>2, <2>1, <3>2, <4>1, ComputeWorks
    <3>3. CASE End("trap", panic_code)
      <4>1. panic_code \in Nat /\ Excused("trap", panic_code)
        BY <1>2 DEF Excused, Core, TypeOK, Special
      <4> QED BY <1>1, <3>3, <4>1, EndStops DEF Status
    <3> QED BY <3>1, <3>2, <3>3
  <2> QED BY <2>2, <2>3
<1> QED BY <1>3, <1>4

LEMMA UnopEffect ==
  ASSUME Core, Unop
  PROVE  Works \/ Stops
<1> DEFINE r == Base + Ins.a
           results(tag) == UnopResults(Ins.op, tag, payloads[r].val)
<1>1. PICK tag \in NumType :
        /\ Fetch(UnopOf(tag))
        /\ EnsureRegs(r + 1, RequireType({r}, tag, Compute(r, tag, results(tag))))
  BY DEF Unop
<1>2. AtInstr /\ Ins.op \in UnopOf(tag) /\ Ins.a \in Operand /\ Ins.a \in Nat /\ Base \in Nat
  BY <1>1, Fetched, TopFrame DEF AtInstr
<1>3. Ins.op \notin Special /\ Proceeds
  BY <1>2, OpsApart, PlainProceeds
<1>4. CASE ~(r + 1 <= MaxRegisters)
  BY <1>1, <1>2, <1>3, <1>4, OperandStops DEF EnsureRegs
<1>5. CASE r + 1 <= MaxRegisters /\ types[r] # tag
  BY <1>1, <1>2, <1>3, <1>5, CheckStops
  DEF EnsureRegs, RequireType
<1>6. CASE r + 1 <= MaxRegisters /\ types[r] = tag
  <2>1. r \in Reg
    BY <1>2, <1>6, SizesAssumption DEF Reg
  <2>2. Compute(r, tag, results(tag))
    BY <1>1, <1>6 DEF EnsureRegs, RequireType
  <2>3. results(tag) \in SUBSET DataOf(tag)
    BY UnopResultsTyped
  <2> HIDE DEF results
  <2> QED BY <1>2, <1>3, <2>1, <2>2, <2>3, ComputeWorks
<1> QED BY <1>4, <1>5, <1>6

LEMMA CastEffect ==
  ASSUME Core, Cast
  PROVE  Works \/ Stops
<1> DEFINE dest == Base + Ins.a
           src  == Base + Ins.b
           results(c) == CastResults(c.from, c.to, payloads[src].val)
<1>1. PICK c \in Casts :
        /\ Fetch({c.op})
        /\ EnsureRegs(HighestOf({dest, src}) + 1,
             RequireType({src}, c.from, Compute(dest, c.to, results(c))))
  BY DEF Cast
<1>2. /\ AtInstr /\ Ins.op = c.op /\ Ins.a \in Operand /\ Ins.b \in Operand
      /\ Ins.a \in Nat /\ Ins.b \in Nat /\ Base \in Nat
  BY <1>1, Fetched, TopFrame DEF AtInstr
<1>3. Ins.op \notin Special /\ Proceeds
  BY <1>2, OpsApart, PlainProceeds
<1>4. c.to \in NumType
  BY DEF Casts, NumType
<1>5. CASE ~(HighestOf({dest, src}) + 1 <= MaxRegisters)
  <2>1. {dest, src} = {dest, src, src} OBVIOUS
  <2> QED BY <2>1, <1>1, <1>2, <1>3, <1>5, OperandsStop DEF EnsureRegs
<1>6. CASE HighestOf({dest, src}) + 1 <= MaxRegisters
  <2>1. dest \in Reg
    <3>1. {dest, src} = {dest, src, src} OBVIOUS
    <3>2. dest \in Nat /\ src \in Nat BY <1>2
    <3> QED BY <1>6, <3>1, <3>2, HighestIsBound
  <2>2. CASE types[src] # c.from
    BY <1>1, <1>2, <1>3, <1>6, <2>2, CheckStops
    DEF EnsureRegs, RequireType
  <2>3. CASE types[src] = c.from
    <3>1. Compute(dest, c.to, results(c))
      BY <1>1, <1>6, <2>3 DEF EnsureRegs, RequireType
    <3>2. results(c) \in SUBSET DataOf(c.to)
      BY CastResultsTyped
    <3> HIDE DEF results
    <3> QED BY <1>2, <1>3, <1>4, <2>1, <3>1, <3>2, ComputeWorks
  <2> QED BY <2>2, <2>3
<1> QED BY <1>5, <1>6

LEMMA LnotEffect ==
  ASSUME Core, Lnot
  PROVE  Works \/ Stops
<1> DEFINE src  == Base + Ins.a
           flip == IF payloads[src].val = 0 THEN 1 ELSE 0
<1>1. AtInstr /\ Ins.op = "LNOT" /\ Ins.a \in Operand /\ Ins.a \in Nat /\ Base \in Nat
  <2>1. Fetch({"LNOT"}) BY DEF Lnot
  <2> QED BY <2>1, Fetched, TopFrame DEF AtInstr
<1>2. Ins.op \notin Special /\ Proceeds
  BY <1>1, PlainProceeds DEF Special, Jumps
<1>3. CASE ~(src + 1 <= MaxRegisters)
  BY <1>1, <1>2, <1>3, OperandStops DEF Lnot, EnsureRegs
<1>4. CASE src + 1 <= MaxRegisters /\ types[src] # "BOOL"
  BY <1>1, <1>2, <1>4, CheckStops
  DEF Lnot, EnsureRegs, RequireType
<1>5. CASE src + 1 <= MaxRegisters /\ types[src] = "BOOL"
  <2>1. src \in Reg
    BY <1>1, <1>5, SizesAssumption DEF Reg
  <2>2. Compute(src, "BOOL", {flip})
    BY <1>5 DEF Lnot, EnsureRegs, RequireType, Compute
  <2>3. {flip} \in SUBSET DataOf("BOOL")
    BY DEF DataOf
  <2> HIDE DEF flip
  <2> QED BY <1>1, <1>2, <2>1, <2>2, <2>3, ComputeWorks
<1> QED BY <1>3, <1>4, <1>5

LEMMA JmpOnEffect ==
  ASSUME Core, NEW op \in {"JMPIF", "JMPIFZ"}, NEW falsy, JmpOn(op, falsy)
  PROVE  Works \/ Stops
<1> DEFINE src == Base + Ins.a
<1>1. /\ AtInstr /\ Ins.op \in {"JMPIF", "JMPIFZ"} /\ Ins.op \in Jumps
      /\ Ins \in Instr /\ Ins.a \in Operand
  <2>1. Fetch({op}) BY DEF JmpOn
  <2> QED BY <2>1, Fetched DEF AtInstr, Jumps
<1>2. Proceeds /\ Written(Ins) = {} /\ Ins.op \notin {"STOREG", "CALL"}
  BY <1>1 DEF Jumps, Proceeds, Written
<1>3. CASE ~(src + 1 <= MaxRegisters)
  BY <1>1, <1>2, <1>3, OperandStops DEF JmpOn, EnsureRegs
<1>4. CASE src + 1 <= MaxRegisters /\ JumpRel(SignedI16(Ins))
  <2>1. SignedI16(Ins) \in Int
    BY <1>1, ImmediateFits, HalfWordAssumption DEF DataOf
  <2>2. Forward(Ins) => SignedI16(Ins) >= 0
    BY <1>1 DEF Forward
  <2> QED BY <1>1, <1>4, <2>1, <2>2, JumpEffect
<1>5. CASE src + 1 <= MaxRegisters /\ Continue /\ UNCHANGED <<data, stack>>
  <2>1. Cells' /\ \A r \in Reg : Keeps(r)
    BY <1>5 DEF Core, TypeOK, Cells, Continue, GoTo, data, TagsAgree, Keeps
  <2>2. ip \in Nat /\ ip < Len(prog.code) /\ Len(prog.code) \in Nat
    BY <1>1 DEF Core, TypeOK, Program, AtInstr
  <2>3. ip' = ip + 1 /\ ip' > ip /\ UNCHANGED <<prog, panic_code, status>>
    BY <1>5, <2>2 DEF Continue, GoTo
  <2> QED BY <1>1, <1>2, <1>5, <2>1, <2>3, RawFreeKept DEF Works, data
<1> QED BY <1>3, <1>4, <1>5 DEF JmpOn, EnsureRegs

LEMMA CallNativeEffect ==
  ASSUME Core, AtInstr, NEW fn \in DOMAIN prog.funcs,
         Ins.c \in Operand, Ins.b = prog.funcs[fn].argc => Leads(fn, "NATIVE"),
         Ins.op = "CALL", CallNative(fn, Ins.b, Ins.c)
  PROVE  Works \/ Stops
<1> DEFINE dest == Base + Ins.c
<1>1. /\ Base \in Nat /\ Ins.c \in Nat /\ Ins.c <= Byte - 1
      /\ Len(prog.funcs) \in Nat
  <2>1. Base \in Nat
    BY TopFrame DEF AtInstr
  <2>2. Ins.c \in Nat /\ Ins.c <= Byte - 1
    BY SizesAssumption DEF Operand
  <2>3. Len(prog.funcs) \in Nat
    BY DEF Core, TypeOK, Program
  <2> QED BY <2>1, <2>2, <2>3
<1>2. Proceeds /\ Written(Ins) = {Ins.c} /\ Ins.op \notin Jumps \cup {"STOREG"}
  BY DEF Proceeds, Written, Jumps
<1>3. CASE CallFailed
  BY <1>3, CallFailedStops
<1>4. CASE dest >= MaxRegisters /\ Wild
  <2>1. /\ Len(frames) \in DOMAIN frames
        /\ Base = frames[Len(frames)].base
    BY <1>1, TopFrame DEF Core, TypeOK, AtInstr
  <2>2. Overruns
    BY <1>1, <1>4, <2>1, SizesAssumption DEF Overruns
  <2> QED BY <1>2, <1>4, <2>2, WildStops
<1>5. CASE /\ Ins.b = prog.funcs[fn].argc
           /\ dest < MaxRegisters /\ Continue /\ UNCHANGED stack
           /\ \/ SetReg(dest, "NUL", NulBits)
              \/ \E b \in {0, 1} : SetReg(dest, "BOOL", Bits("BOOL", b))
  <2>1. dest \in Reg
    BY <1>1, <1>5, SizesAssumption DEF Reg
  <2>2. CASE SetReg(dest, "NUL", NulBits)
    <3>1. /\ NulBits \in Held(Len(prog.funcs)) /\ Agree("NUL", NulBits)
          /\ NulBits.as # "raw"
      BY DEF NulBits, Bits, ViewOf, Held, Payload, View, Agree, NumType
    <3> QED BY <1>1, <1>2, <1>5, <2>1, <2>2, <3>1, SetRegWorks DEF Type
  <2>3. CASE \E b \in {0, 1} : SetReg(dest, "BOOL", Bits("BOOL", b))
    <3>1. PICK b \in {0, 1} : SetReg(dest, "BOOL", Bits("BOOL", b))
      BY <2>3
    <3>2. b \in DataOf("BOOL")
      BY DEF DataOf
    <3>3. /\ Bits("BOOL", b) \in Held(Len(prog.funcs)) /\ Agree("BOOL", Bits("BOOL", b))
          /\ Bits("BOOL", b).as # "raw"
      BY <1>1, <3>2, ResultAgrees DEF Bits, ViewOf
    <3> QED BY <1>1, <1>2, <1>5, <2>1, <3>1, <3>3, SetRegWorks DEF Type
  <2> QED BY <1>5, <2>2, <2>3
<1> QED BY <1>3, <1>4, <1>5 DEF CallNative

LEMMA CallBytecodeEffect ==
  ASSUME Core, AtInstr, NEW fn \in DOMAIN prog.funcs, Ins.op = "CALL",
         Ins.b = prog.funcs[fn].argc => Leads(fn, "BYTECODE"),
         CallBytecode(fn, Ins.b, Ins.c)
  PROVE  Calls \/ Stops
<1> DEFINE frame == CalleeFrame(fn, Ins.c)
<1>1. status = "running" /\ Proceeds
  BY DEF AtInstr, Proceeds
<1>2. CASE Ins.b # prog.funcs[fn].argc
  BY <1>2, CallFailedStops DEF CallBytecode
<1>3. CASE Ins.b = prog.funcs[fn].argc /\ ~(frame.base + frame.regc <= MaxRegisters)
  <2>1. /\ frame.base = U16(frames[Len(frames)].base + frames[Len(frames)].regc)
        /\ frame.regc = prog.funcs[fn].regc
        /\ frame.base \in Nat /\ frame.regc \in Nat
    BY CalleeFrameType, SizesAssumption DEF CalleeFrame, Frame, Reg
  <2>2. Overruns
    BY <1>3, <2>1, SizesAssumption DEF Overruns
  <2>3. Excused("failed", PANIC_REG_LIMIT)
    BY <1>1, <2>2 DEF Excused, PANIC_REG_LIMIT, PANIC_STACK_OVERFLOW, PANIC_INVALID_OPCODE
  <2>4. Fail(PANIC_REG_LIMIT)
    BY <1>3 DEF CallBytecode, EnsureRegs
  <2> QED BY <2>3, <2>4, EndStops DEF Fail, Status, PANIC_REG_LIMIT
<1>4. CASE Ins.b = prog.funcs[fn].argc /\ frame.base + frame.regc <= MaxRegisters
  <2>1. CASE \E code \in PushErrors : Fail(code)
    <3>1. PICK code \in PushErrors : Fail(code)
      BY <2>1
    <3>2. CASE code = PANIC_OOM
      BY <1>1, <3>1, <3>2, CheckStops
    <3>3. CASE code = PANIC_STACK_OVERFLOW /\ Len(frames) >= NewCap
      <4>1. Excused("failed", PANIC_STACK_OVERFLOW)
        BY <1>1, <1>4, <3>3
        DEF Excused, PANIC_REG_LIMIT, PANIC_STACK_OVERFLOW, PANIC_INVALID_OPCODE
      <4> QED BY <3>1, <3>3, <4>1, EndStops DEF Fail, Status, PANIC_STACK_OVERFLOW
    <3> QED BY <3>2, <3>3 DEF PushErrors
  <2>2. CASE /\ PushFrame(frame) /\ RefreshCurrent
             /\ GoTo(prog.funcs[fn].entry) /\ UNCHANGED data
    BY <1>4, <2>2 DEF Calls, GoTo
  <2> QED BY <1>4, <2>1, <2>2 DEF CallBytecode, EnsureRegs
<1> QED BY <1>2, <1>3, <1>4

LEMMA CallEffect ==
  ASSUME Core, Call
  PROVE  Calls \/ Works \/ Stops
<1> DEFINE abs == Base + Ins.a
           fn  == payloads[abs].val
<1>1. Fetch({"CALL"}) BY DEF Call
<1>2. /\ AtInstr /\ status = "running" /\ Ins.op = "CALL"
      /\ Ins.a \in Nat /\ Ins.a \in Operand /\ Ins.c \in Operand /\ Base \in Nat
  BY <1>1, Fetched, TopFrame DEF AtInstr
<1>3. Proceeds
  BY <1>2 DEF Proceeds
<1>4. CASE ~(abs + 1 <= MaxRegisters)
  BY <1>2, <1>3, <1>4, OperandStops DEF Call, EnsureRegs
<1>5. CASE abs + 1 <= MaxRegisters /\ (types[abs] # "CALLABLE" \/ fn = 0)
  BY <1>2, <1>3, <1>5, CheckStops DEF Call, EnsureRegs
<1>6. CASE /\ abs + 1 <= MaxRegisters /\ ~(types[abs] # "CALLABLE" \/ fn = 0)
           /\ payloads[abs].as # "fn"
  <2>1. abs \in Reg
    BY <1>2, <1>6, SizesAssumption DEF Reg
  <2>2. payloads[abs].as = "raw"
    BY <1>6, <2>1 DEF Core, TagsAgree, Agree, ViewOf
  <2>3. Wild
    BY <1>6 DEF Call, EnsureRegs
  <2> QED BY <1>2, <1>3, <2>2, <2>3, WildStops
<1>7. CASE /\ abs + 1 <= MaxRegisters /\ ~(types[abs] # "CALLABLE" \/ fn = 0)
           /\ payloads[abs].as = "fn"
  <2>1. abs \in Reg
    BY <1>2, <1>7, SizesAssumption DEF Reg
  <2>2. payloads[abs] \in Held(Len(prog.funcs))
    BY <2>1 DEF Core, TypeOK
  <2>3. fn \in 0 .. Len(prog.funcs)
    BY <1>7, <2>2 DEF Held
  <2>4. prog.funcs \in Seq(Func)
    BY DEF Core, TypeOK, Program
  <2>5. fn \in DOMAIN prog.funcs
    BY <1>7, <2>3, <2>4
  <2>6. \A kind : prog.funcs[fn].kind = kind /\ Ins.b = prog.funcs[fn].argc => Leads(fn, kind)
    BY <1>2, <1>7, <2>1, <2>5 DEF Leads
  <2>7. CASE prog.funcs[fn].kind = "BYTECODE"
    <3>1. CallBytecode(fn, Ins.b, Ins.c)
      BY <1>7, <2>7 DEF Call, EnsureRegs
    <3> HIDE DEF fn
    <3> QED BY <1>2, <2>5, <2>6, <2>7, <3>1, CallBytecodeEffect
  <2>8. CASE prog.funcs[fn].kind # "BYTECODE"
    <3>1. CallNative(fn, Ins.b, Ins.c)
      BY <1>7, <2>8 DEF Call, EnsureRegs
    <3> HIDE DEF fn
    <3>2. prog.funcs[fn].kind = "NATIVE"
      <4>1. prog.funcs[fn] \in Func BY <2>4, <2>5
      <4> QED BY <2>8, <4>1 DEF Func
    <3> QED BY <1>2, <2>5, <2>6, <3>1, <3>2, CallNativeEffect
  <2> QED BY <2>7, <2>8
<1> QED BY <1>4, <1>5, <1>6, <1>7

LEMMA RetEffect ==
  ASSUME Core, Ret
  PROVE  Returns \/ Stops
<1> DEFINE n   == Len(frames)
           abs == Base + Ins.a
<1>1. Fetch({"RET"}) BY DEF Ret
<1>2. /\ AtInstr /\ status = "running" /\ Ins.op = "RET"
      /\ Ins.a \in Nat /\ Base \in Nat /\ n \in Nat \ {0}
  BY <1>1, Fetched, TopFrame DEF AtInstr
<1>3. CASE /\ n = 1 /\ PopFrame /\ ip' = ip + 1 /\ status' = "ok"
           /\ UNCHANGED <<prog, data, current, panic_code>>
  <2>1. Excused("ok", panic_code) /\ panic_code \in Nat
    BY <1>2, <1>3 DEF Excused, Core, TypeOK
  <2>2. frames' = << >> /\ UNCHANGED <<framecap, block>>
    <3>1. frames \in Seq(Frame)
      BY DEF Core, TypeOK
    <3> QED BY <1>3, <3>1 DEF PopFrame
  <2> QED BY <1>2, <1>3, <2>1, <2>2 DEF Stops, Status
<1>4. CASE n > 1 /\ ReturnSlot >= MaxRegisters /\ Wild
  <2>1. /\ frames \in Seq(Frame) /\ frames[n] \in Frame /\ frames[n - 1] \in Frame
        /\ n - 1 \in DOMAIN frames
    BY <1>2, <1>4 DEF Core, TypeOK
  <2>2. frames[n - 1].base \in Reg /\ frames[n].reg \in Operand
    <3> HIDE DEF n
    <3> QED BY <2>1 DEF Frame
  <2>3. Overruns
    BY <1>4, <2>1, <2>2, SizesAssumption DEF Overruns, ReturnSlot, Reg, Operand
  <2> QED BY <1>2, <1>4, <2>3, WildStops
<1>5. CASE /\ n > 1 /\ ReturnSlot < MaxRegisters
           /\ PopFrame
           /\ RefreshCurrent
           /\ GoTo(frames[n].jump)
           /\ SetReg(ReturnSlot, Returned.type, Returned.bits)
  <2>1. /\ frames \in Seq(Frame) /\ frames[n] \in Frame /\ frames[n - 1] \in Frame
    BY <1>2, <1>5 DEF Core, TypeOK
  <2>2. ReturnSlot \in Reg
    <3>1. frames[n - 1].base \in Reg /\ frames[n].reg \in Operand
      <4> HIDE DEF n
      <4> QED BY <2>1 DEF Frame
    <3> QED BY <1>5, <3>1, SizesAssumption DEF ReturnSlot, Reg, Operand
  <2>3. /\ Returned.type \in Type /\ Returned.bits \in Held(Len(prog.funcs))
        /\ Agree(Returned.type, Returned.bits)
    <3>1. CASE abs < MaxRegisters
      <4>1. abs \in Reg BY <1>2, <3>1, SizesAssumption DEF Reg
      <4>2. Returned = [type |-> types[abs], bits |-> payloads[abs]]
        BY <3>1 DEF Returned
      <4>3. /\ types[abs] \in Type /\ payloads[abs] \in Held(Len(prog.funcs))
            /\ Agree(types[abs], payloads[abs])
        BY <4>1 DEF Core, TypeOK, TagsAgree
      <4> QED BY <4>2, <4>3
    <3>2. CASE ~(abs < MaxRegisters)
      BY <3>2 DEF Returned, NulBits, Bits, ViewOf, Held, Payload, View, Agree, NumType, Type
    <3> QED BY <3>1, <3>2
  <2>4. Cells' /\ \A r \in Reg \ {ReturnSlot} : Keeps(r)
    BY <1>5, <2>2, <2>3, SetRegCells DEF GoTo, Core
  <2>5. types'[ReturnSlot] = Returned.type /\ payloads'[ReturnSlot] = Returned.bits
    BY <1>5, <2>2 DEF SetReg, Core, TypeOK
  <2>6. globals' = globals
    BY <1>5 DEF SetReg
  <2> QED BY <1>2, <1>5, <2>2, <2>4, <2>5, <2>6 DEF Returns, GoTo, PopFrame
<1>6. n = 0 \/ <1>3!1 \/ <1>4!1 \/ <1>5!1
  BY DEF Ret, Returned
<1> QED BY <1>2, <1>3, <1>4, <1>5, <1>6

\* Every step of the loop, and the one before it, has one of the five shapes.
LEMMA StepEffect ==
  ASSUME Core, Step
  PROVE  Starts \/ Works \/ Calls \/ Returns \/ Stops
<1>1. CASE Start BY <1>1, StartEffect
<1>2. CASE Halt
  <2>1. Fetch({"HALT"}) /\ End("ok", panic_code) BY <1>2 DEF Halt
  <2>2. AtInstr /\ Ins.op = "HALT"
    BY <2>1, Fetched
  <2>3. Excused("ok", panic_code) /\ panic_code \in Nat
    BY <2>2 DEF Excused, Proceeds, Core, TypeOK
  <2> QED BY <2>1, <2>2, <2>3, EndStops DEF Status
<1>3. CASE Panic
  <2>1. Fetch({"PANIC"}) /\ Fail(Ins.a) BY <1>3 DEF Panic
  <2>2. AtInstr /\ Ins.op = "PANIC" /\ Ins.a \in Nat
    BY <2>1, Fetched
  <2>3. Excused("failed", Ins.a)
    BY <2>2 DEF Excused
  <2> QED BY <2>1, <2>2, <2>3, EndStops DEF Fail, Status
<1>4. CASE Jmp
  <2>1. Fetch({"JMP"}) /\ JumpRel(SignedI24(Ins)) BY <1>4 DEF Jmp
  <2>2. AtInstr /\ Ins.op \in Jumps /\ SignedI24(Ins) \in Int
    BY <2>1, Fetched, ImmediateFits DEF Jumps
  <2>3. Forward(Ins) => SignedI24(Ins) >= 0
    BY <2>1 DEF Fetch, Forward
  <2> QED BY <2>1, <2>2, <2>3, JumpEffect
<1>5. CASE JmpIf \/ JmpIfz
  BY <1>5, JmpOnEffect DEF JmpIf, JmpIfz, Jumps
<1>6. CASE InvalidOpcode
  <2>1. AtInstr /\ Proceeds
    BY <1>6 DEF InvalidOpcode, AtInstr, Implemented, Proceeds
  <2> QED BY <1>6, <2>1, CheckStops DEF InvalidOpcode
<1>7. CASE NoHalt
  <2>1. ~AtInstr
    BY <1>7 DEF NoHalt, AtInstr, Core, TypeOK, Program
  <2> QED BY <1>7, <2>1 DEF NoHalt, Stops, PANIC_NO_HALT, Status, data, stack
<1>8. CASE Copy \/ Move \/ LoadI \/ StoreG
  BY <1>8, CopyEffect, MoveEffect, LoadIEffect, StoreGEffect
<1>9. CASE LoadC
  <2>1. /\ prog.consts \in Seq(Value)
        /\ \A k \in 1 .. Len(prog.consts) :
             /\ prog.consts[k].bits \in Held(Len(prog.funcs))
             /\ Agree(prog.consts[k].type, prog.consts[k].bits)
             /\ RawFree => prog.consts[k].bits.as # "raw"
    BY DEF Core, TypeOK, Program, RawFree
  <2> QED BY <1>9, <2>1, LoadFromEffect DEF LoadC
<1>10. CASE LoadG
  <2>1. /\ globals \in Seq(Value)
        /\ \A k \in 1 .. Len(globals) :
             /\ globals[k].bits \in Held(Len(prog.funcs))
             /\ Agree(globals[k].type, globals[k].bits)
             /\ RawFree => globals[k].bits.as # "raw"
    <3> DEFINE Cell == [type : Type, bits : Held(Len(prog.funcs))]
    <3>1. globals \in Seq(Cell)
      BY DEF Core, TypeOK
    <3>2. /\ Cell \subseteq Value
          /\ \A cell \in Cell : cell.bits \in Held(Len(prog.funcs))
      BY DEF Value, Held
    <3>3. \A k \in 1 .. Len(globals) : globals[k] \in Cell
      <4> HIDE DEF Cell
      <4> QED BY <3>1
    <3>4. globals \in Seq(Value) /\ DOMAIN globals = 1 .. Len(globals)
      <4> HIDE DEF Cell
      <4> QED BY <3>1, <3>2, <3>3
    <3> QED BY <3>2, <3>3, <3>4 DEF Core, TagsAgree, RawFree
  <2> QED BY <1>10, <2>1, LoadFromEffect DEF LoadG
<1>11. CASE Call BY <1>11, CallEffect
<1>12. CASE Ret BY <1>12, RetEffect
<1>13. CASE Binop \/ Cmpop
  BY <1>13, DyadicEffect DEF Binop, Cmpop
<1>14. CASE Unop \/ Cast \/ Lnot
  BY <1>14, UnopEffect, CastEffect, LnotEffect
<1> QED BY <1>1, <1>2, <1>3, <1>4, <1>5, <1>6, <1>7, <1>8, <1>9, <1>10, <1>11, <1>12,
           <1>13, <1>14 DEF Step

-----------------------------------------------------------------------------
(* Types, and the frame pointer                                            *)

LEMMA Pushed ==
  ASSUME TypeOK, NEW frame \in Frame, PushFrame(frame), RefreshCurrent
  PROVE  /\ frames' = Append(frames, frame) /\ frames' \in Seq(Frame)
         /\ Len(frames') = Len(frames) + 1 /\ Len(frames) \in Nat
         /\ frames'[Len(frames) + 1] = frame
         /\ \A i \in 1 .. Len(frames) : frames'[i] = frames[i]
         /\ framecap' \in 0 .. MaxFrames /\ Len(frames') <= framecap'
         /\ block' \in Nat
         /\ current' = [block |-> block', index |-> Len(frames')]
         /\ current' \in [block : Nat, index : Nat]
<1>1. frames \in Seq(Frame) /\ framecap \in 0 .. MaxFrames /\ block \in Nat
  BY DEF TypeOK
<1>2. NewCap \in 0 .. MaxFrames
  BY <1>1, SizesAssumption DEF NewCap
<1>3. frames' = Append(frames, frame)
  BY DEF PushFrame
<1>4. /\ frames' \in Seq(Frame) /\ Len(frames') = Len(frames) + 1 /\ Len(frames) \in Nat
      /\ frames'[Len(frames) + 1] = frame
      /\ \A i \in 1 .. Len(frames) : frames'[i] = frames[i]
  BY <1>1, <1>3
<1>5. /\ framecap' \in 0 .. MaxFrames /\ Len(frames') <= framecap'
      /\ block' \in Nat
  BY <1>1, <1>2, <1>4, SizesAssumption DEF PushFrame, PushErrors, PANIC_OOM, PANIC_STACK_OVERFLOW
<1> QED BY <1>3, <1>4, <1>5 DEF RefreshCurrent

LEMMA Popped ==
  ASSUME NEW S, NEW seq \in Seq(S), Len(seq) > 1
  PROVE  /\ SubSeq(seq, 1, Len(seq) - 1) \in Seq(S)
         /\ SubSeq(seq, 1, Len(seq) - 1) # << >>
         /\ Len(SubSeq(seq, 1, Len(seq) - 1)) = Len(seq) - 1
         /\ \A i \in 1 .. Len(seq) - 1 : SubSeq(seq, 1, Len(seq) - 1)[i] = seq[i]
<1> DEFINE front == SubSeq(seq, 1, Len(seq) - 1)
<1>1. Len(seq) \in Nat /\ Len(seq) - 1 \in Nat
  OBVIOUS
<1>2. /\ Len(front) = Len(seq) - 1
      /\ \A i \in 1 .. Len(seq) - 1 : front[i] = seq[i]
  BY <1>1
<1>3. \A i \in 1 .. Len(seq) - 1 : seq[i] \in S
  BY <1>1
<1>4. front \in Seq(S)
  BY <1>1, <1>3
<1>5. front # << >>
  <2>1. Len(front) > 0 BY <1>1, <1>2
  <2> HIDE DEF front
  <2> QED BY <2>1
<1> QED BY <1>2, <1>4, <1>5

LEMMA CoreStep ==
  ASSUME Core, [Next]_vars
  PROVE  Core'
<1>1. CASE UNCHANGED vars
  BY <1>1 DEF vars, data, stack, Core, TypeOK, TagsAgree, CurrentIsTop
<1>2. CASE Starts
  <2>1. EntryFrame \in Frame BY EntryFrameType DEF Core
  <2> QED BY <1>2, <2>1, Pushed
      DEF Starts, Core, TypeOK, TagsAgree, CurrentIsTop, data, Status, NO_ERROR
<1>3. CASE Works
  BY <1>3 DEF Works, Cells, Core, TypeOK, TagsAgree, CurrentIsTop, stack
<1>4. CASE Calls
  <2>1. PICK fn \in DOMAIN prog.funcs :
          PushFrame(CalleeFrame(fn, Ins.c)) /\ ip' = prog.funcs[fn].entry
    BY <1>4 DEF Calls
  <2>2. CalleeFrame(fn, Ins.c) \in Frame /\ ip' \in Nat
    BY <1>4, <2>1, CalleeFrameType DEF Calls, Func
  <2> QED BY <1>4, <2>1, <2>2, Pushed
      DEF Calls, Core, TypeOK, TagsAgree, CurrentIsTop, data
<1>5. CASE Returns
  <2>1. /\ frames \in Seq(Frame) /\ Len(frames) \in Nat /\ Len(frames) > 1
    BY <1>5 DEF Returns, Core, TypeOK
  <2>2. /\ frames' \in Seq(Frame) /\ frames' # << >>
        /\ Len(frames') = Len(frames) - 1
    BY <1>5, <2>1, Popped DEF Returns
  <2>3. frames[Len(frames)] \in Frame
    BY <2>1
  <2>4. ip' \in Nat
    BY <1>5, <2>3 DEF Returns, Frame
  <2>5. current' = [block |-> block', index |-> Len(frames')]
    BY <1>5 DEF Returns, RefreshCurrent
  <2>6. current' \in [block : Nat, index : Nat]
    BY <1>5, <2>2, <2>5 DEF Returns, Core, TypeOK
  <2>7. Cells' /\ UNCHANGED <<prog, panic_code, status, framecap, block>>
    BY <1>5 DEF Returns
  <2> QED BY <2>2, <2>4, <2>5, <2>6, <2>7 DEF Cells, Core, TypeOK, CurrentIsTop
<1>6. CASE Stops
  <2>1. frames' \in Seq(Frame)
    <3>1. frames \in Seq(Frame) /\ << >> \in Seq(Frame)
      BY DEF Core, TypeOK
    <3> QED BY <1>6, <3>1 DEF Stops
  <2> QED BY <1>6, <2>1 DEF Stops, Core, TypeOK, TagsAgree, CurrentIsTop, data
<1>7. CASE Terminated
  BY <1>1, <1>7 DEF Terminated
<1> QED BY <1>1, <1>2, <1>3, <1>4, <1>5, <1>6, <1>7, StepEffect DEF Next

LEMMA CoreInit ==
  ASSUME Init
  PROVE  Core
<1>1. prog \in Program
  BY ProgramsAssumption DEF Init
<1>2. NulBits \in Held(Len(prog.funcs)) /\ Agree("NUL", NulBits)
  BY DEF NulBits, Bits, ViewOf, Held, Payload, View, Agree, NumType
<1>3. /\ types \in [Reg -> Type] /\ payloads \in [Reg -> Held(Len(prog.funcs))]
      /\ \A r \in Reg : Agree(types[r], payloads[r])
  BY <1>2 DEF Init, Type
<1>4. /\ globals \in Seq([type : Type, bits : Held(Len(prog.funcs))])
      /\ \A k \in DOMAIN globals : Agree(globals[k].type, globals[k].bits)
  <2>1. CASE globals = << >>
    BY <2>1
  <2>2. CASE globals = prog.globals
    <3> DEFINE Cell == [type : Type, bits : Held(Len(prog.funcs))]
    <3>1. /\ globals \in Seq(Value)
          /\ \A k \in 1 .. Len(globals) :
               /\ globals[k].bits \in Held(Len(prog.funcs))
               /\ Agree(globals[k].type, globals[k].bits)
      BY <1>1, <2>2 DEF Program
    <3>2. \A k \in 1 .. Len(globals) : globals[k] \in Value
      BY <3>1
    <3>3. \A v \in Value : v.bits \in Held(Len(prog.funcs)) => v \in Cell
      BY DEF Value
    <3>4. \A k \in 1 .. Len(globals) : globals[k] \in Cell
      BY <3>1, <3>2, <3>3
    <3>5. globals \in Seq(Cell) /\ DOMAIN globals = 1 .. Len(globals)
      <4> HIDE DEF Cell
      <4> QED BY <3>1, <3>4
    <3> QED BY <3>1, <3>5
  <2> QED BY <2>1, <2>2 DEF Init
<1> QED BY <1>1, <1>3, <1>4, SizesAssumption
    DEF Core, TypeOK, TagsAgree, CurrentIsTop, Init, Status, NO_ERROR, PANIC_OOM

\* The invariant Core: types, tags and the frame pointer.
THEOREM CoreHolds == Spec => []Core
<1>1. Core /\ [Next]_vars => Core'
  BY CoreStep
<1> QED BY CoreInit, <1>1, PTL DEF Spec

\* Every state is well typed; in particular ip never goes below zero and every
\* function pointer in a register or a global names a function of the program.
THEOREM TypeCorrect == Spec => []TypeOK
<1>1. Core => TypeOK BY DEF Core
<1> QED BY CoreHolds, <1>1, PTL

\* No instruction uses a frame pointer that a reallocation has left behind.
THEOREM FramePointerIsLive == Spec => []CurrentIsTop
<1>1. Core => CurrentIsTop BY DEF Core
<1> QED BY CoreHolds, <1>1, PTL

\* The two arrays of the register file never disagree about a value.
THEOREM NoMixedValues == Spec => []TagsAgree
<1>1. Core => TagsAgree BY DEF Core
<1> QED BY CoreHolds, <1>1, PTL

-----------------------------------------------------------------------------
(* The frame stack                                                         *)

\* The strengthening of FramesMirrorCalls and DisjointUntilFull: the entry frame
\* is at the bottom, every frame passed the checks of vm_call, belongs to a
\* bytecode function and was called from inside the code, the array is never fuller
\* than its capacity, and a run that has no array is one that could not begin.
Stack ==
  /\ status = "loaded" => frames = << >> /\ framecap = 0
  /\ block = 0 => status = "loaded" \/ (status = "failed" /\ panic_code = PANIC_OOM)
  /\ Len(frames) <= framecap
  /\ frames # << >> => frames[1] = EntryFrame
  /\ \A i \in DOMAIN frames : frames[i].base + frames[i].regc <= MaxRegisters
  /\ \A i \in 2 .. Len(frames) :
       /\ frames[i].callee \in DOMAIN prog.funcs
       /\ prog.funcs[frames[i].callee].kind = "BYTECODE"
       /\ frames[i].jump \in DOMAIN prog.code
  /\ FramesMirrorCalls
  /\ DisjointUntilFull

\* Every step is a stutter or has a shape.
LEMMA NextEffect ==
  ASSUME Core, [Next]_vars
  PROVE  UNCHANGED vars \/ Starts \/ Works \/ Calls \/ Returns \/ Stops
BY StepEffect DEF Next, Terminated

\* Work inside the frame on top does not reach the registers below its base.
LEMMA WorksAbove ==
  ASSUME Core, Works
  PROVE  /\ status = "running"
         /\ \A r \in Reg : r < Base => Keeps(r)
<1>1. status = "running" /\ Base \in Nat
  BY TopFrame DEF Works, AtInstr
<1>2. Fetch({Ins.op})
  BY DEF Works, AtInstr, Fetch
<1>3. \A k \in Written(Ins) : k \in Nat
  BY <1>2, Fetched DEF Written
<1>4. \A r \in Reg : r < Base => \A k \in Written(Ins) : r # Base + k
  BY <1>1, <1>3, SizesAssumption DEF Reg
<1> QED BY <1>1, <1>4 DEF Works

\* The base of a frame on top of one that does not end on the last register.
LEMMA U16Identity ==
  ASSUME NEW x \in Reg, NEW y \in Reg, x + y <= MaxRegisters
  PROVE  /\ x + y # MaxRegisters => U16(x + y) = x + y
         /\ U16(x + y) <= x + y
         /\ U16(x + y) \in Nat
<1>1. MaxRegisters \in Nat /\ MaxRegisters > 0 /\ x \in Nat /\ y \in Nat
  BY SizesAssumption DEF Reg
<1>2. CASE x + y = MaxRegisters
  BY <1>1, <1>2 DEF U16
<1>3. CASE x + y < MaxRegisters
  BY <1>1, <1>3 DEF U16
<1> QED BY <1>1, <1>2, <1>3

\* What a frame of the stack is made of.
LEMMA FrameFields ==
  ASSUME Core
  PROVE  /\ Len(frames) \in Nat /\ DOMAIN frames = 1 .. Len(frames)
         /\ \A i \in 1 .. Len(frames) :
              /\ frames[i] \in Frame
              /\ frames[i].base \in Reg /\ frames[i].base \in Nat
              /\ frames[i].regc \in Reg /\ frames[i].regc \in Nat
              /\ frames[i].reg \in Operand /\ frames[i].reg \in Nat
<1>1. frames \in Seq(Frame)
  BY DEF Core, TypeOK
<1>2. \A i \in 1 .. Len(frames) : frames[i] \in Frame
  BY <1>1
<1>3. \A f \in Frame : /\ f.base \in Reg /\ f.base \in Nat
                       /\ f.regc \in Reg /\ f.regc \in Nat
                       /\ f.reg \in Operand /\ f.reg \in Nat
  BY SizesAssumption DEF Frame, Reg, Operand
<1> QED BY <1>1, <1>2, <1>3

LEMMA CallsStack ==
  ASSUME Core, Stack, Calls
  PROVE  Stack'
<1> DEFINE n == Len(frames)
<1>1. PICK fn \in DOMAIN prog.funcs :
        /\ Ins.b = prog.funcs[fn].argc
        /\ CalleeFrame(fn, Ins.c).base + CalleeFrame(fn, Ins.c).regc <= MaxRegisters
        /\ PushFrame(CalleeFrame(fn, Ins.c))
        /\ prog.funcs[fn].kind = "BYTECODE"
  BY DEF Calls, Leads
<1> DEFINE frame == CalleeFrame(fn, Ins.c)
<1>2. AtInstr /\ status = "running" /\ Ins.op = "CALL" /\ RefreshCurrent
      /\ UNCHANGED <<prog, status>> /\ PushFrame(frame)
  BY <1>1 DEF Calls, AtInstr
<1>3. /\ frame \in Frame
      /\ frame.base = U16(frames[n].base + frames[n].regc)
      /\ frame.jump = ip + 1 /\ frame.callee = fn /\ frame.reg = Ins.c
      /\ frame.regc = prog.funcs[fn].regc
  BY <1>2, CalleeFrameType DEF CalleeFrame
<1>4. /\ Len(frames') = n + 1 /\ frames'[n + 1] = frame
      /\ \A i \in 1 .. n : frames'[i] = frames[i]
      /\ Len(frames') <= framecap' /\ frames' \in Seq(Frame)
  <2> HIDE DEF frame
  <2> QED BY <1>1, <1>2, <1>3, Pushed DEF Core
<1>5. n \in Nat \ {0} /\ DOMAIN frames' = 1 .. n + 1 /\ DOMAIN frames = 1 .. n
  BY <1>2, <1>4, TopFrame, FrameFields
<1>6. \A i \in 1 .. n : /\ frames[i].base \in Nat /\ frames[i].regc \in Nat
                        /\ frames[i].base + frames[i].regc <= MaxRegisters
  BY FrameFields, <1>5 DEF Stack
<1>7. /\ frames[n].base \in Reg /\ frames[n].regc \in Reg
      /\ frames[n].base + frames[n].regc <= MaxRegisters
  BY FrameFields, <1>5 DEF Stack
<1>8. ~EndsAtLimit(frames[n]) => frame.base = frames[n].base + frames[n].regc
  BY <1>3, <1>7, U16Identity DEF EndsAtLimit
<1> HIDE DEF n, frame
<1>9. frames' # << >> => frames'[1] = EntryFrame'
  BY <1>2, <1>4, <1>5 DEF Stack, EntryFrame, n
<1>10. \A i \in DOMAIN frames' : frames'[i].base + frames'[i].regc <= MaxRegisters
  <2> TAKE i \in DOMAIN frames'
  <2>1. CASE i \in 1 .. n
    BY <1>4, <1>6, <2>1
  <2>2. CASE i = n + 1
    BY <1>1, <1>4, <2>2 DEF frame
  <2> QED BY <1>5, <2>1, <2>2
<1>11. FramesMirrorCalls'
  <2> SUFFICES ASSUME NEW i \in 2 .. n + 1
               PROVE  /\ prog.code[frames'[i].jump].op = "CALL"
                      /\ prog.code[frames'[i].jump].c = frames'[i].reg
                      /\ prog.code[frames'[i].jump].b = prog.funcs[frames'[i].callee].argc
                      /\ prog.funcs[frames'[i].callee].regc = frames'[i].regc
                      /\ frames'[i].base = U16(frames'[i - 1].base + frames'[i - 1].regc)
    BY <1>2, <1>4 DEF FramesMirrorCalls, U16
  <2>1. CASE i \in 2 .. n
    BY <1>4, <1>5, <2>1 DEF Stack, FramesMirrorCalls, n
  <2>2. CASE i = n + 1
    BY <1>1, <1>2, <1>3, <1>4, <1>5, <2>2 DEF Ins
  <2> QED BY <1>5, <2>1, <2>2
<1>12. DisjointUntilFull'
  <2> SUFFICES ASSUME NEW i \in 1 .. n + 1, NEW j \in 1 .. n + 1, i < j,
                      \A k \in i .. j - 1 : ~EndsAtLimit(frames'[k])
               PROVE  frames'[i].base + frames'[i].regc <= frames'[j].base
    BY <1>5 DEF DisjointUntilFull, NoneFull, EndsAtLimit
  <2>1. \A k \in i .. j - 1 : ~EndsAtLimit(frames[k])
    BY <1>4, <1>5
  <2>2. i \in 1 .. n /\ frames'[i] = frames[i]
    BY <1>4, <1>5
  <2>3. CASE j \in 1 .. n
    <3>1. frames[i].base + frames[i].regc <= frames[j].base
      BY <1>5, <2>1, <2>2, <2>3 DEF Stack, DisjointUntilFull, NoneFull, n
    <3> QED BY <1>4, <2>2, <2>3, <3>1
  <2>4. CASE j = n + 1 /\ i = n
    BY <1>4, <1>8, <2>1, <2>2, <2>4, <1>5, <1>6
  <2>5. CASE j = n + 1 /\ i < n
    <3>1. /\ n \in DOMAIN frames /\ i \in DOMAIN frames
          /\ \A k \in i .. n - 1 : ~EndsAtLimit(frames[k])
      BY <1>5, <2>1, <2>2, <2>5
    <3>2. frames[i].base + frames[i].regc <= frames[n].base
      BY <2>5, <3>1 DEF Stack, DisjointUntilFull, NoneFull
    <3>3. ~EndsAtLimit(frames[n])
      BY <1>5, <2>1, <2>5
    <3>4. frame.base = frames[n].base + frames[n].regc
      BY <1>8, <3>3
    <3>5. frames'[j] = frame /\ frames'[i] = frames[i]
      BY <1>4, <2>2, <2>5
    <3>6. /\ frames[i].base \in Nat /\ frames[i].regc \in Nat
          /\ frames[n].base \in Nat /\ frames[n].regc \in Nat
      BY <1>5, <1>6, <2>2
    <3> QED BY <3>2, <3>4, <3>5, <3>6
  <2>6. n \in Nat /\ i \in 1 .. n /\ j \in 1 .. n + 1
    BY <1>5, <2>2
  <2>7. j \in 1 .. n \/ (j = n + 1 /\ i = n) \/ (j = n + 1 /\ i < n)
    BY <2>6
  <2> QED BY <2>3, <2>4, <2>5, <2>7
<1>13. \A i \in 2 .. n + 1 :
         /\ frames'[i].callee \in DOMAIN prog.funcs
         /\ prog.funcs[frames'[i].callee].kind = "BYTECODE"
         /\ frames'[i].jump \in DOMAIN prog.code
  <2> TAKE i \in 2 .. n + 1
  <2>1. CASE i \in 2 .. n
    BY <1>4, <1>5, <2>1 DEF Stack, n
  <2>2. CASE i = n + 1
    <3>1. ip + 1 \in DOMAIN prog.code
      BY <1>2 DEF AtInstr, Core, TypeOK, Program
    <3> QED BY <1>1, <1>3, <1>4, <2>2, <3>1
  <2> QED BY <1>5, <2>1, <2>2
<1>14. block' # 0
  BY <1>2 DEF Stack, Core, TypeOK, PushFrame
<1> QED BY <1>2, <1>4, <1>9, <1>10, <1>11, <1>12, <1>13, <1>14 DEF Stack

LEMMA ReturnsStack ==
  ASSUME Core, Stack, Returns
  PROVE  Stack'
<1> DEFINE n == Len(frames)
<1>1. /\ frames \in Seq(Frame) /\ n \in Nat /\ n > 1 /\ status = "running"
      /\ frames' = SubSeq(frames, 1, n - 1)
      /\ UNCHANGED <<prog, status, framecap>>
  BY DEF Returns, Core, TypeOK, AtInstr
<1>2. /\ frames' \in Seq(Frame) /\ Len(frames') = n - 1
      /\ \A i \in 1 .. n - 1 : frames'[i] = frames[i]
  BY <1>1, Popped
<1>3. /\ DOMAIN frames' = 1 .. n - 1 /\ DOMAIN frames = 1 .. n
      /\ framecap \in Nat /\ n <= framecap
  BY <1>1, <1>2, SizesAssumption DEF Core, TypeOK, Stack
<1> HIDE DEF n
<1>4. Len(frames') <= framecap' /\ (frames' # << >> => frames'[1] = EntryFrame')
  BY <1>1, <1>2, <1>3 DEF Stack, EntryFrame, n
<1>5. \A i \in DOMAIN frames' : frames'[i].base + frames'[i].regc <= MaxRegisters
  BY <1>1, <1>2, <1>3 DEF Stack
<1>6. FramesMirrorCalls'
  <2> SUFFICES ASSUME NEW i \in 2 .. n - 1
               PROVE  /\ prog.code[frames'[i].jump].op = "CALL"
                      /\ prog.code[frames'[i].jump].c = frames'[i].reg
                      /\ prog.code[frames'[i].jump].b = prog.funcs[frames'[i].callee].argc
                      /\ prog.funcs[frames'[i].callee].regc = frames'[i].regc
                      /\ frames'[i].base = U16(frames'[i - 1].base + frames'[i - 1].regc)
    BY <1>1, <1>2 DEF FramesMirrorCalls, U16
  <2>1. frames'[i] = frames[i] /\ frames'[i - 1] = frames[i - 1] /\ i \in 2 .. n
    BY <1>1, <1>2
  <2> QED BY <2>1 DEF Stack, FramesMirrorCalls, n
<1>7. DisjointUntilFull'
  <2> SUFFICES ASSUME NEW i \in 1 .. n - 1, NEW j \in 1 .. n - 1, i < j,
                      \A k \in i .. j - 1 : ~EndsAtLimit(frames'[k])
               PROVE  frames'[i].base + frames'[i].regc <= frames'[j].base
    BY <1>3 DEF DisjointUntilFull, NoneFull, EndsAtLimit
  <2>1. \A k \in i .. j - 1 : ~EndsAtLimit(frames[k])
    BY <1>1, <1>2
  <2>2. i \in DOMAIN frames /\ j \in DOMAIN frames
    BY <1>1, <1>3
  <2> QED BY <1>2, <2>1, <2>2 DEF Stack, DisjointUntilFull, NoneFull
<1>8. \A i \in 2 .. n - 1 :
        /\ frames'[i].callee \in DOMAIN prog.funcs
        /\ prog.funcs[frames'[i].callee].kind = "BYTECODE"
        /\ frames'[i].jump \in DOMAIN prog.code
  <2> TAKE i \in 2 .. n - 1
  <2>1. frames'[i] = frames[i] /\ i \in 2 .. n
    BY <1>1, <1>2
  <2> QED BY <2>1 DEF Stack, n
<1>9. block' # 0
  BY <1>1 DEF Stack, Returns
<1> QED BY <1>1, <1>2, <1>4, <1>5, <1>6, <1>7, <1>8, <1>9 DEF Stack

LEMMA StackStep ==
  ASSUME Core, Stack, [Next]_vars
  PROVE  Stack'
<1>1. CASE UNCHANGED <<prog, frames, framecap, block, status, panic_code>>
  BY <1>1 DEF Stack, EntryFrame, FramesMirrorCalls, DisjointUntilFull, NoneFull, EndsAtLimit, U16
<1>2. CASE Starts
  <2>1. /\ frames = << >> /\ Len(frames) = 0 /\ status' # "loaded" /\ prog' = prog
        /\ EntryFrame \in Frame /\ EntryFrame' = EntryFrame
    BY <1>2, EntryFrameType DEF Starts, Stack, Core, EntryFrame
  <2>2. Len(frames') = 1 /\ frames'[1] = EntryFrame /\ Len(frames') <= framecap'
    BY <1>2, <2>1, Pushed DEF Starts, Core
  <2>3. DOMAIN frames' = 1 .. 1
    BY <1>2, <2>1, <2>2, Pushed DEF Starts, Core
  <2>4. EntryFrame.base + EntryFrame.regc <= MaxRegisters
    BY SizesAssumption DEF EntryFrame
  <2>5. FramesMirrorCalls' /\ DisjointUntilFull'
    BY <2>2, <2>3 DEF FramesMirrorCalls, DisjointUntilFull
  <2>6. block' # 0
    BY <1>2, <2>1, SizesAssumption DEF Starts, Stack, PushFrame, Core, TypeOK
  <2> QED BY <2>1, <2>2, <2>3, <2>4, <2>5, <2>6 DEF Stack
<1>3. CASE Stops
  <2>1. /\ frames' = frames \/ frames' = << >>
        /\ UNCHANGED <<prog, framecap, block>> /\ framecap \in 0 .. MaxFrames
        /\ status' # "loaded" /\ EntryFrame' = EntryFrame
    BY <1>3 DEF Stops, Core, TypeOK, EntryFrame
  <2>2. block = 0 => status' = "failed" /\ panic_code' = PANIC_OOM
    <3>1. block = 0 => status = "loaded"
      BY <1>3 DEF Stack, Stops
    <3>2. status = "loaded" => status' = "failed" /\ panic_code' \in PushErrors
      BY <1>3 DEF Stops, AtInstr
    <3>3. status = "loaded" => PushErrors = {PANIC_OOM}
      BY SizesAssumption DEF Stack, PushErrors, NewCap
    <3> QED BY <3>1, <3>2, <3>3
  <2>3. CASE frames' = frames
    BY <2>1, <2>2, <2>3 DEF Stack, FramesMirrorCalls, DisjointUntilFull,
                            NoneFull, EndsAtLimit, U16
  <2>4. CASE frames' = << >>
    BY <2>1, <2>2, <2>4, SizesAssumption DEF Stack, FramesMirrorCalls, DisjointUntilFull
  <2> QED BY <2>1, <2>3, <2>4
<1>4. CASE Works
  BY <1>1, <1>4 DEF Works, stack
<1>5. CASE UNCHANGED vars
  BY <1>1, <1>5 DEF vars, stack
<1> QED BY <1>2, <1>3, <1>4, <1>5, NextEffect, CallsStack, ReturnsStack

LEMMA StackInit ==
  ASSUME Init
  PROVE  Stack
BY DEF Init, Stack, FramesMirrorCalls, DisjointUntilFull

THEOREM StackHolds == Spec => [](Core /\ Stack)
<1>1. Core /\ Stack /\ [Next]_vars => (Core /\ Stack)'
  BY CoreStep, StackStep
<1> QED BY CoreInit, StackInit, <1>1, PTL DEF Spec

\* A callee is given registers of its own, above everything that is suspended,
\* until a window ends on the last register.
THEOREM WindowsAreDisjoint == Spec => []DisjointUntilFull
<1>1. Core /\ Stack => DisjointUntilFull BY DEF Stack
<1> QED BY StackHolds, <1>1, PTL

\* Every RET finds in its frame what the matching CALL asked for.
THEOREM ReturnsMatchCalls == Spec => []FramesMirrorCalls
<1>1. Core /\ Stack => FramesMirrorCalls BY DEF Stack
<1> QED BY StackHolds, <1>1, PTL

\* The registers of suspended frames are kept, whatever runs above them.
LEMMA SuspendedStep ==
  ASSUME Core, Stack, [Next]_vars, status = "running",
         NEW i \in 1 .. Len(frames) - 1, NoneFull(i, Len(frames) - 1),
         NEW r \in Window(frames[i])
  PROVE  \/ types'[r] = types[r] /\ payloads'[r] = payloads[r]
         \/ /\ Len(frames') < Len(frames)
            /\ i = Len(frames) - 1
            /\ r = frames[i].base + frames[i + 1].reg
<1> DEFINE n == Len(frames)
<1>1. n \in Nat /\ DOMAIN frames = 1 .. n /\ i \in 1 .. n /\ n \in 1 .. n /\ i < n
  BY FrameFields
<1>2. /\ frames[i].base \in Nat /\ frames[i].regc \in Nat /\ frames[n].base \in Nat
      /\ frames[i].base + frames[i].regc <= MaxRegisters
  BY <1>1, FrameFields DEF Stack
<1>3. frames[i].base + frames[i].regc <= frames[n].base
  BY <1>1 DEF Stack, DisjointUntilFull
<1>4. /\ r \in Nat /\ r \in Reg /\ r < frames[i].base + frames[i].regc
      /\ r < frames[n].base
  <2>1. r \in frames[i].base .. frames[i].base + frames[i].regc - 1
    BY DEF Window
  <2> HIDE DEF n
  <2>2. /\ r \in Nat /\ r < frames[i].base + frames[i].regc
        /\ frames[i].base + frames[i].regc \in Nat
    BY <1>2, <2>1
  <2>3. r < MaxRegisters
    BY <1>2, <2>2, SizesAssumption
  <2>4. r \in Reg
    BY <2>2, <2>3, SizesAssumption DEF Reg
  <2>5. r < frames[n].base
    BY <1>2, <1>3, <2>2
  <2> QED BY <2>2, <2>4, <2>5
<1>5. CASE UNCHANGED <<types, payloads>>
  BY <1>5
<1>6. CASE Works
  <2>1. Base = frames[n].base
    BY TopFrame
  <2> QED BY <1>4, <1>6, <2>1, WorksAbove DEF Keeps
<1>7. CASE Returns
  <2>1. \A s \in Reg \ {ReturnSlot} : types'[s] = types[s] /\ payloads'[s] = payloads[s]
    BY <1>7 DEF Returns, Keeps
  <2>2. CASE r # ReturnSlot
    BY <1>4, <2>1, <2>2
  <2>3. CASE r = ReturnSlot
    <3>1. n - 1 \in 1 .. n /\ frames[n - 1].base \in Nat /\ frames[n].reg \in Nat
      <4>1. n - 1 \in 1 .. n
        <5> HIDE DEF n
        <5> QED BY <1>1
      <4> QED BY <1>1, <4>1, FrameFields
    <3>2. CASE i = n - 1
      <4>1. Len(frames') = n - 1
        BY <1>1, <1>7, <3>1, Popped DEF Returns, Core, TypeOK
      <4>2. i + 1 = n BY <1>1, <3>2
      <4> QED BY <1>1, <2>3, <3>2, <4>1, <4>2 DEF ReturnSlot
    <3>3. CASE i < n - 1
      <4>1. NoneFull(i, n - 1 - 1)
        <5>1. i .. n - 1 - 1 \subseteq i .. n - 1
          <6> HIDE DEF n
          <6> QED BY <1>1
        <5> QED BY <5>1 DEF NoneFull
      <4>2. i \in DOMAIN frames /\ n - 1 \in DOMAIN frames /\ i < n - 1
        <5> HIDE DEF n
        <5> QED BY <1>1, <3>1, <3>3
      <4>3. DisjointUntilFull
        BY DEF Stack
      <4>4. frames[i].base + frames[i].regc <= frames[n - 1].base
        <5> HIDE DEF n
        <5> QED BY <4>1, <4>2, <4>3 DEF DisjointUntilFull
      <4>5. r = frames[n - 1].base + frames[n].reg
        BY <2>3 DEF ReturnSlot
      <4>6. frames[n - 1].base <= r
        <5> HIDE DEF n
        <5> QED BY <3>1, <4>5
      <4>7. FALSE
        <5> HIDE DEF n
        <5> QED BY <1>2, <1>4, <3>1, <4>4, <4>6
      <4> QED BY <4>7
    <3>4. i = n - 1 \/ i < n - 1
      <4> HIDE DEF n
      <4> QED BY <1>1
    <3> QED BY <3>2, <3>3, <3>4
  <2> QED BY <2>2, <2>3
<1>8. CASE Starts \/ Calls \/ Stops \/ UNCHANGED vars
  BY <1>5, <1>8 DEF Starts, Calls, Stops, vars, data
<1> QED BY <1>5, <1>6, <1>7, <1>8, NextEffect

THEOREM CallersAreKept == Spec => SuspendedKept
<1> DEFINE Kept ==
      \A i \in 1 .. Len(frames) - 1 :
        status = "running" /\ NoneFull(i, Len(frames) - 1) =>
          \A r \in Window(frames[i]) :
            \/ types'[r] = types[r] /\ payloads'[r] = payloads[r]
            \/ /\ Len(frames') < Len(frames)
               /\ i = Len(frames) - 1
               /\ r = frames[i].base + frames[i + 1].reg
<1>1. Core /\ Stack /\ [Next]_vars => Kept
  BY SuspendedStep
<1>2. Core /\ Stack /\ [Next]_vars => [Kept]_vars
  BY <1>1
<1>3. SuspendedKept <=> [][Kept]_vars
  BY DEF SuspendedKept
<1> HIDE DEF Kept
<1> QED BY StackHolds, <1>2, <1>3, PTL DEF Spec

\* CALL gives up for want of frames only when all of them are in use: the
\* doubling of the array never stops short of the limit.
LEMMA OverflowStep ==
  ASSUME Core, Stack, [Next]_vars, AtInstr, Ins.op = "CALL",
         panic_code' = PANIC_STACK_OVERFLOW
  PROVE  Len(frames) = MaxFrames
<1>1. status = "running" /\ panic_code = NO_ERROR /\ panic_code' # panic_code
  BY DEF AtInstr, Core, NO_ERROR, PANIC_STACK_OVERFLOW
<1>2. Stops
  BY <1>1, NextEffect DEF vars, Starts, Works, Calls, Returns
<1>3. Excused(status', panic_code')
  BY <1>1, <1>2, SizesAssumption DEF Stops, AtInstr, Core, TypeOK, Program
<1>4. Len(frames) >= NewCap
  BY <1>1, <1>2, <1>3 DEF Excused
<1>5. Len(frames) \in Nat /\ framecap \in 0 .. MaxFrames /\ Len(frames) <= framecap
  BY DEF Core, TypeOK, Stack
<1> QED BY <1>4, <1>5, SizesAssumption DEF NewCap

THEOREM OverflowIsTheLimit == Spec => OverflowOnlyAtLimit
<1> DEFINE AtLimit ==
      AtInstr /\ Ins.op = "CALL" /\ panic_code' = PANIC_STACK_OVERFLOW
        => Len(frames) = MaxFrames
<1>1. Core /\ Stack /\ [Next]_vars => [AtLimit]_vars
  BY OverflowStep
<1>2. OverflowOnlyAtLimit <=> [][AtLimit]_vars
  BY DEF OverflowOnlyAtLimit
<1> HIDE DEF AtLimit
<1> QED BY StackHolds, <1>1, <1>2, PTL DEF Spec

-----------------------------------------------------------------------------
(* How a run ends                                                          *)

\* The exit code of the process tells what happened.
LEMMA HonestStep ==
  ASSUME Core, HonestExit, [Next]_vars
  PROVE  HonestExit'
<1>1. CASE UNCHANGED vars
  BY <1>1 DEF vars, HonestExit
<1>2. CASE Starts \/ Works \/ Calls \/ Returns
  BY <1>2 DEF Starts, Works, Calls, Returns, HonestExit, AtInstr, Core
<1>3. CASE Stops
  <2>1. CASE status = "loaded" /\ status' = "failed" /\ panic_code' \in PushErrors
    BY <2>1 DEF HonestExit, PushErrors, NO_ERROR, PANIC_OOM, PANIC_STACK_OVERFLOW
  <2>2. CASE status' = "failed" /\ ip >= Len(prog.code) /\ panic_code' = PANIC_NO_HALT
    BY <2>2 DEF HonestExit, NO_ERROR, PANIC_NO_HALT
  <2>3. CASE AtInstr /\ ip' = ip + 1 /\ Excused(status', panic_code')
    <3>1. ip \in Nat /\ Len(prog.code) \in Nat /\ prog' = prog /\ panic_code = NO_ERROR
      BY <1>3, <2>3 DEF Stops, Core, TypeOK, Program, AtInstr
    <3>2. ip' \in 1 .. Len(prog.code)
      BY <2>3, <3>1 DEF AtInstr
    <3> QED BY <1>3, <2>3, <3>1, <3>2
        DEF Excused, HonestExit, Ins, Stops, NO_ERROR, PANIC_INVALID_OPCODE
  <2> QED BY <1>3, <2>1, <2>2, <2>3 DEF Stops
<1> QED BY <1>1, <1>2, <1>3, NextEffect

THEOREM ExitCodeIsHonest == Spec => []HonestExit
<1>1. Init => HonestExit
  BY DEF Init, HonestExit
<1>2. Core /\ HonestExit /\ [Next]_vars => HonestExit'
  BY HonestStep
<1> QED BY CoreHolds, <1>1, <1>2, PTL DEF Spec

-----------------------------------------------------------------------------
(* How execution leaves the code                                           *)

\* A run begins inside the code.
EdgeInv ==
  /\ LeavesByTheEnd
  /\ status = "loaded" => ip = 0

LEMMA EdgeStep ==
  ASSUME Core, Stack, EdgeInv, [Next]_vars
  PROVE  EdgeInv'
<1>1. /\ ip \in Nat /\ Len(prog.code) \in Nat \ {0} /\ DOMAIN prog.code = 1 .. Len(prog.code)
  BY DEF Core, TypeOK, Program
<1>2. CASE UNCHANGED vars
  BY <1>2 DEF vars, stack, EdgeInv, LeavesByTheEnd
<1>3. CASE Starts
  BY <1>1, <1>3 DEF Starts, EdgeInv, LeavesByTheEnd
<1>4. CASE Stops
  BY <1>4 DEF Stops, EdgeInv, LeavesByTheEnd, Status
<1>5. CASE Works
  <2>1. /\ prog' = prog /\ status' = "running" /\ ip < Len(prog.code)
        /\ Ins = prog.code[ip + 1] /\ Ins.op \notin {"HALT", "PANIC", "RET"}
        /\ IF Ins.op \in Jumps
           THEN ip' \in 0 .. Len(prog.code) - 1 \/ (ip' = ip + 1 /\ Ins.op # "JMP")
           ELSE ip' = ip + 1
    BY <1>5 DEF Works, AtInstr, Proceeds, Ins
  <2>2. CASE ip' \in 0 .. Len(prog.code) - 1
    BY <1>1, <2>1, <2>2 DEF EdgeInv, LeavesByTheEnd
  <2>3. CASE ip' = ip + 1 /\ Ins.op # "JMP"
    BY <1>1, <2>1, <2>3 DEF EdgeInv, LeavesByTheEnd
  <2> QED BY <2>1, <2>2, <2>3 DEF Jumps
<1>6. CASE Calls
  <2>1. PICK fn \in DOMAIN prog.funcs : /\ PushFrame(CalleeFrame(fn, Ins.c))
                                        /\ ip' = prog.funcs[fn].entry
    BY <1>6 DEF Calls
  <2>2. CalleeFrame(fn, Ins.c) \in Frame /\ CalleeFrame(fn, Ins.c).callee = fn
    BY <1>6, CalleeFrameType DEF Calls, CalleeFrame
  <2>3. /\ Len(frames') = Len(frames) + 1 /\ Len(frames) \in Nat \ {0}
        /\ frames'[Len(frames) + 1] = CalleeFrame(fn, Ins.c)
    BY <1>6, <2>1, <2>2, Pushed, TopFrame DEF Core, Calls, AtInstr
  <2> QED BY <1>6, <2>1, <2>2, <2>3 DEF Calls, AtInstr, EdgeInv, LeavesByTheEnd
<1>7. CASE Returns
  <2>1. /\ prog' = prog /\ status' = "running" /\ ip' = frames[Len(frames)].jump
        /\ Len(frames) \in 2 .. Len(frames) /\ frames[Len(frames)] \in Frame
    BY <1>7, TopFrame DEF Returns, AtInstr
  <2>2. ip' \in Nat /\ ip' \in DOMAIN prog.code /\ prog.code[ip'].op = "CALL"
    BY <2>1 DEF Stack, FramesMirrorCalls, Frame
  <2> QED BY <1>1, <2>1, <2>2 DEF EdgeInv, LeavesByTheEnd
<1> QED BY <1>2, <1>3, <1>4, <1>5, <1>6, <1>7, NextEffect

\* No jump and no return leads out of the code: NO_HALT means that the last
\* instruction goes on to the next, or that the file puts a function outside.
THEOREM NoJumpLeavesTheCode == Spec => []LeavesByTheEnd
<1>1. Init => EdgeInv
  BY DEF Init, EdgeInv, LeavesByTheEnd
<1>2. Core /\ Stack /\ EdgeInv /\ [Next]_vars => EdgeInv'
  BY EdgeStep
<1>3. EdgeInv => LeavesByTheEnd
  BY DEF EdgeInv
<1> QED BY StackHolds, <1>1, <1>2, <1>3, PTL DEF Spec

-----------------------------------------------------------------------------
(* Programs of narrow functions                                            *)

\* The body of Fits for one width, and how far the windows reach under it.
RoomyFor(width) ==
  /\ \A fn \in DOMAIN prog.funcs : prog.funcs[fn].regc <= width
  /\ BaseRegisters + (MaxFrames - 1) * width + Byte <= MaxRegisters

Packed(width) ==
  RoomyFor(width) =>
    \A i \in DOMAIN frames :
      frames[i].base + frames[i].regc <= BaseRegisters + (i - 1) * width

LEMMA PackedStep ==
  ASSUME Core, Stack, NEW width \in 0 .. Byte, Packed(width), [Next]_vars
  PROVE  Packed(width)'
<1>1. width \in Nat /\ width' = width
  BY SizesAssumption
<1> SUFFICES ASSUME [Next]_vars, RoomyFor(width)'
             PROVE  \A i \in DOMAIN frames' :
                      frames'[i].base + frames'[i].regc <= BaseRegisters + (i - 1) * width
  BY DEF Packed
<1>2. prog' = prog
  BY NextEffect DEF vars, Starts, Works, Calls, Returns, Stops
<1>3. \A i \in DOMAIN frames :
        frames[i].base + frames[i].regc <= BaseRegisters + (i - 1) * width
  BY <1>2 DEF Packed, RoomyFor
<1>4. \A fn \in DOMAIN prog.funcs : prog.funcs[fn].regc <= width
  BY <1>2 DEF RoomyFor
<1>5. CASE frames' = frames \/ frames' = << >>
  BY <1>3, <1>5
<1>6. CASE Starts
  <2>1. frames = << >> /\ Len(frames) = 0 /\ EntryFrame \in Frame
    BY <1>6, EntryFrameType DEF Starts, Stack, Core
  <2>2. /\ Len(frames') = 1 /\ frames'[1] = EntryFrame /\ frames' \in Seq(Frame)
    BY <1>6, <2>1, Pushed DEF Starts, Core
  <2>3. DOMAIN frames' = 1 .. 1
    BY <2>2
  <2>4. EntryFrame.base + EntryFrame.regc = BaseRegisters /\ (1 - 1) * width = 0
    BY <1>1, SizesAssumption DEF EntryFrame
  <2> QED BY <2>2, <2>3, <2>4, SizesAssumption
<1>7. CASE Calls
  <2> DEFINE n == Len(frames)
  <2>1. PICK fn \in DOMAIN prog.funcs : PushFrame(CalleeFrame(fn, Ins.c))
    BY <1>7 DEF Calls
  <2> DEFINE frame == CalleeFrame(fn, Ins.c)
  <2>2. AtInstr /\ status = "running" /\ RefreshCurrent /\ PushFrame(frame)
    BY <1>7, <2>1 DEF Calls, AtInstr
  <2>3. /\ frame \in Frame /\ frame.regc = prog.funcs[fn].regc
        /\ frame.base = U16(frames[n].base + frames[n].regc)
    BY <2>2, CalleeFrameType DEF CalleeFrame
  <2>4. frame.regc \in Nat /\ frame.regc <= width
    BY <1>4, <2>3, SizesAssumption DEF Frame, Reg
  <2> HIDE DEF frame
  <2>5. /\ Len(frames') = n + 1 /\ frames'[n + 1] = frame
        /\ \A i \in 1 .. n : frames'[i] = frames[i]
        /\ frames' \in Seq(Frame)
    BY <2>2, <2>3, Pushed DEF Core
  <2>6. n \in Nat \ {0} /\ DOMAIN frames' = 1 .. n + 1 /\ DOMAIN frames = 1 .. n
    BY <2>2, <2>5, TopFrame, FrameFields
  <2>7. /\ frames[n].base \in Reg /\ frames[n].regc \in Reg
        /\ frames[n].base + frames[n].regc <= MaxRegisters
        /\ frames[n].base + frames[n].regc <= BaseRegisters + (n - 1) * width
        /\ frames[n].base + frames[n].regc \in Nat
    BY <1>3, <2>6, FrameFields DEF Stack
  <2>8. frame.base <= BaseRegisters + (n - 1) * width /\ frame.base \in Nat
    <3>1. /\ frame.base <= frames[n].base + frames[n].regc
          /\ frame.base \in Nat
      BY <2>3, <2>7, U16Identity
    <3>2. (n - 1) * width \in Int /\ BaseRegisters \in Int
      BY <1>1, <2>6, SizesAssumption
    <3> QED BY <2>7, <3>1, <3>2
  <2>9. frame.base + frame.regc <= BaseRegisters + n * width
    <3>1. n * width = (n - 1) * width + width /\ (n - 1) * width \in Int
      BY <1>1, <2>6
    <3> HIDE DEF n
    <3> QED BY <1>1, <2>4, <2>8, <3>1, SizesAssumption
  <2> HIDE DEF n
  <2> TAKE i \in DOMAIN frames'
  <2>10. CASE i \in 1 .. n
    BY <1>3, <2>5, <2>6, <2>10
  <2>11. CASE i = n + 1
    <3>1. i - 1 = n BY <2>6, <2>11
    <3> QED BY <2>5, <2>9, <2>11, <3>1
  <2> QED BY <2>6, <2>10, <2>11
<1>8. CASE Returns
  <2>1. /\ frames \in Seq(Frame) /\ Len(frames) \in Nat /\ Len(frames) > 1
        /\ frames' = SubSeq(frames, 1, Len(frames) - 1)
    BY <1>8 DEF Returns, Core, TypeOK
  <2>2. /\ Len(frames') = Len(frames) - 1 /\ frames' \in Seq(Frame)
        /\ \A i \in 1 .. Len(frames) - 1 : frames'[i] = frames[i]
    BY <2>1, Popped
  <2>3. /\ DOMAIN frames' = 1 .. Len(frames) - 1
        /\ \A i \in DOMAIN frames' : i \in DOMAIN frames /\ frames'[i] = frames[i]
    BY <2>1, <2>2
  <2> QED BY <1>3, <2>3
<1> QED BY <1>5, <1>6, <1>7, <1>8, NextEffect DEF vars, stack, Works, Stops

\* Under Roomy the stack leaves room for one more operand, and no frame overruns.
LEMMA RoomIsLeft ==
  ASSUME Core, Stack, NEW width \in 0 .. Byte, RoomyFor(width), Packed(width)
  PROVE  /\ \A i \in DOMAIN frames : frames[i].base + frames[i].regc + Byte <= MaxRegisters
         /\ status = "running" => ~Overruns
<1>1. /\ width \in Nat /\ width <= Byte /\ Byte \in Nat \ {0}
      /\ MaxFrames \in Nat /\ MaxRegisters \in Nat /\ BaseRegisters \in Nat
  BY SizesAssumption
<1>2. Len(frames) <= MaxFrames
  BY FrameFields, SizesAssumption DEF Core, TypeOK, Stack
<1>3. ASSUME NEW i \in DOMAIN frames
      PROVE  frames[i].base + frames[i].regc + Byte <= MaxRegisters
  <2>1. i \in 1 .. Len(frames) /\ i - 1 \in Nat /\ MaxFrames - 1 \in Nat /\ i - 1 <= MaxFrames - 1
    BY <1>1, <1>2, FrameFields
  <2>2. (i - 1) * width \in Nat /\ (i - 1) * width <= (MaxFrames - 1) * width
    BY <1>1, <2>1, ProductMonotone
  <2>3. frames[i].base + frames[i].regc <= BaseRegisters + (i - 1) * width
    BY DEF Packed
  <2>4. BaseRegisters + (MaxFrames - 1) * width + Byte <= MaxRegisters
    BY DEF RoomyFor
  <2>5. frames[i].base + frames[i].regc \in Nat /\ (MaxFrames - 1) * width \in Nat
    <3>1. (MaxFrames - 1) * width \in 0 .. (MaxFrames - 1) * width
      BY <1>1, <2>1, ProductMonotone
    <3> QED BY <2>1, <3>1, FrameFields
  <2> QED BY <1>1, <2>2, <2>3, <2>4, <2>5
<1>4. ASSUME status = "running"
      PROVE  ~Overruns
  <2>1. ASSUME NEW i \in DOMAIN frames
        PROVE  ~(frames[i].base + Byte > MaxRegisters)
    <3>1. frames[i].base \in Nat /\ frames[i].regc \in Nat
      BY FrameFields
    <3>2. frames[i].base + frames[i].regc + Byte <= MaxRegisters
      BY <1>3
    <3> QED BY <1>1, <3>1, <3>2
  <2>2. /\ Len(frames) \in DOMAIN frames
        /\ frames[Len(frames)].base \in Reg /\ frames[Len(frames)].regc \in Reg
        /\ frames[Len(frames)].base + frames[Len(frames)].regc \in Nat
    BY <1>4, TopFrame, FrameFields
  <2>3. frames[Len(frames)].base + frames[Len(frames)].regc + Byte <= MaxRegisters
    BY <1>3, <2>2
  <2>4. /\ U16(frames[Len(frames)].base + frames[Len(frames)].regc) + Byte <= MaxRegisters
        /\ U16(frames[Len(frames)].base + frames[Len(frames)].regc) \in Nat
    BY <1>1, <2>2, <2>3, U16Identity
  <2>5. \A fn \in DOMAIN prog.funcs :
          prog.funcs[fn].regc \in Nat /\ prog.funcs[fn].regc <= Byte
    <3>1. \A fn \in DOMAIN prog.funcs : prog.funcs[fn] \in Func
      BY DEF Core, TypeOK, Program
    <3> QED BY <1>1, <3>1 DEF RoomyFor, Func, Reg
  <2> QED BY <1>1, <2>1, <2>4, <2>5 DEF Overruns
<1> QED BY <1>3, <1>4

\* How a run of such a program ends: the part of RoomyIsSafe about the last step.
RoomyEnds ==
  Roomy =>
    /\ status = "failed" /\ panic_code = PANIC_REG_LIMIT => prog.code[ip].op = "PANIC"
    /\ status = "wild" => /\ prog.code[ip].op = "CALL"
                          /\ payloads[Base + prog.code[ip].a].as = "raw"

RoomInv == (\A width \in 0 .. Byte : Packed(width)) /\ RoomyEnds

LEMMA RoomyStep ==
  ASSUME Core, Stack, RoomInv, [Next]_vars
  PROVE  RoomInv'
<1>1. ASSUME NEW width \in 0 .. Byte
      PROVE  Packed(width)'
  BY PackedStep DEF RoomInv
<1>2. prog' = prog
  BY NextEffect DEF vars, Starts, Works, Calls, Returns, Stops
<1>3. RoomyEnds'
  <2> DEFINE RegLimit == panic_code' = PANIC_REG_LIMIT => prog'.code[ip'].op = "PANIC"
             WildCall == /\ prog'.code[ip'].op = "CALL"
                         /\ payloads'[frames'[current'.index].base + prog'.code[ip'].a].as = "raw"
  <2> SUFFICES ASSUME Roomy'
               PROVE  /\ status' = "failed" => RegLimit
                      /\ status' = "wild" => WildCall
    BY DEF RoomyEnds, Base
  <2>1. Roomy
    BY <1>2 DEF Roomy, Fits
  <2>2. PICK width \in 0 .. Byte : RoomyFor(width)
    BY <2>1 DEF Roomy, Fits, RoomyFor
  <2>3. status = "running" => ~Overruns
    BY <2>2, RoomIsLeft DEF RoomInv
  <2>4. CASE UNCHANGED vars
    BY <2>1, <2>4 DEF vars, data, stack, RoomInv, RoomyEnds, Base
  <2>5. CASE Starts \/ Works \/ Calls \/ Returns
    BY <2>5 DEF Starts, Works, Calls, Returns, AtInstr
  <2>6. CASE Stops
    <3>1. CASE status = "loaded" /\ status' = "failed" /\ panic_code' \in PushErrors
      BY <3>1 DEF PushErrors, PANIC_OOM, PANIC_STACK_OVERFLOW, PANIC_REG_LIMIT
    <3>2. CASE status' = "failed" /\ ip >= Len(prog.code) /\ panic_code' = PANIC_NO_HALT
      BY <3>2 DEF PANIC_NO_HALT, PANIC_REG_LIMIT
    <3>3. CASE AtInstr /\ ip' = ip + 1 /\ Excused(status', panic_code')
      <4>1. ~Overruns /\ Ins = prog'.code[ip']
        BY <1>2, <2>3, <3>3 DEF AtInstr, Ins
      <4>2. status' = "failed" => RegLimit
        BY <3>3, <4>1 DEF Excused
      <4>3. status' = "wild" => frames' = frames /\ current' = current /\ payloads' = payloads
        BY <2>6 DEF Stops, data
      <4>4. status' = "wild" => WildCall
        BY <3>3, <4>1, <4>3 DEF Excused, Base
      <4> QED BY <4>2, <4>4
    <3> QED BY <2>6, <3>1, <3>2, <3>3 DEF Stops
  <2> QED BY <2>4, <2>5, <2>6, NextEffect
<1> QED BY <1>1, <1>3 DEF RoomInv

LEMMA RoomyInit ==
  ASSUME Init
  PROVE  RoomInv
BY DEF Init, RoomInv, RoomyEnds, Packed

\* A program of narrow functions never meets the register limit, and the accesses
\* that RET and native calls leave unchecked never leave the registers.
THEOREM NarrowProgramsAreSafe == Spec => []RoomyIsSafe
<1>1. Core /\ Stack /\ RoomInv /\ [Next]_vars => RoomInv'
  BY RoomyStep
<1>2. Core /\ Stack /\ RoomInv => RoomyIsSafe
  <2> SUFFICES ASSUME Core, Stack, RoomInv, Roomy
               PROVE  \A i \in DOMAIN frames : ~EndsAtLimit(frames[i])
    BY DEF RoomInv, RoomyEnds, RoomyIsSafe
  <2>1. PICK width \in 0 .. Byte : RoomyFor(width)
    BY DEF Roomy, Fits, RoomyFor
  <2>2. \A i \in DOMAIN frames :
          /\ frames[i].base + frames[i].regc + Byte <= MaxRegisters
          /\ frames[i].base + frames[i].regc \in Nat
    BY <2>1, RoomIsLeft, FrameFields DEF RoomInv
  <2> QED BY <2>2, SizesAssumption DEF EndsAtLimit
<1> QED BY StackHolds, RoomyInit, <1>1, <1>2, PTL DEF Spec

-----------------------------------------------------------------------------
(* Programs without a backward jump end                                    *)

Tuples(size, most) == [1 .. size -> 0 .. most]
Descent(size, most) ==
  { p \in Tuples(size, most) \X Tuples(size, most) : Before(p[1], p[2]) }

\* f comes first in T as far as its first k entries go.
First(f, T, k) ==
  \A g \in T : \A i \in 1 .. k : (\A j \in 1 .. i - 1 : g[j] = f[j]) => f[i] <= g[i]

LEMMA FirstOfMany ==
  ASSUME NEW size \in Nat, NEW most \in Nat,
         NEW T, T \subseteq Tuples(size, most), T # {}
  PROVE  \E f \in T : First(f, T, size)
<1> DEFINE S == {k \in Nat : k <= size => \E f \in T : First(f, T, k)}
<1>1. 0 \in S
  BY DEF First
<1>2. ASSUME NEW k \in Nat, k \in S PROVE k + 1 \in S
  <2>1. SUFFICES ASSUME k + 1 <= size PROVE \E f \in T : First(f, T, k + 1)
    OBVIOUS
  <2>2. PICK f \in T : First(f, T, k)
    BY <1>2, <2>1
  <2> DEFINE Same == {g \in T : \A j \in 1 .. k : g[j] = f[j]}
             Vals == {g[k + 1] : g \in Same}
  <2>3. Vals \subseteq Nat /\ Vals # {}
    <3>1. \A g \in T : g[k + 1] \in Nat
      BY <2>1 DEF Tuples
    <3> QED BY <3>1
  <2>4. PICK m \in Vals : \A n \in Vals : m <= n
    <3> HIDE DEF Vals
    <3> QED BY <2>3, Smallest
  <2>5. PICK h \in Same : h[k + 1] = m
    OBVIOUS
  <2>6. h \in T /\ \A j \in 1 .. k : h[j] = f[j]
    OBVIOUS
  <2>7. ASSUME NEW g \in T, NEW i \in 1 .. k + 1, \A j \in 1 .. i - 1 : g[j] = h[j]
        PROVE  h[i] <= g[i]
    <3>1. CASE i \in 1 .. k
      <4>1. \A j \in 1 .. i - 1 : j \in 1 .. k /\ g[j] = f[j]
        BY <2>6, <2>7, <3>1
      <4> QED BY <2>2, <2>6, <3>1, <4>1 DEF First
    <3>2. CASE i = k + 1
      <4>1. \A j \in 1 .. k : g[j] = f[j]
        BY <2>6, <2>7, <3>2
      <4>2. g[k + 1] \in Vals
        BY <4>1
      <4> QED BY <2>4, <2>5, <3>2, <4>2
    <3> QED BY <3>1, <3>2
  <2>8. First(h, T, k + 1)
    BY <2>7 DEF First
  <2> QED BY <2>6, <2>8
<1>3. Nat \subseteq S
  <2> HIDE DEF S
  <2> QED BY <1>1, <1>2, Induction
<1> QED BY <1>3

\* There is no endless descent among tuples of bounded numbers.
THEOREM DescentEnds ==
  ASSUME NEW size \in Nat, NEW most \in Nat
  PROVE  IsWellFoundedOn(Descent(size, most), Tuples(size, most))
<1>1. ASSUME NEW T \in SUBSET Tuples(size, most), T # {}
      PROVE  \E f \in T : \A g \in T : <<g, f>> \notin Descent(size, most)
  <2>1. PICK f \in T : First(f, T, size)
    BY <1>1, FirstOfMany
  <2>2. ASSUME NEW g \in T PROVE <<g, f>> \notin Descent(size, most)
    <3>1. SUFFICES ASSUME Before(g, f) PROVE FALSE
      BY DEF Descent
    <3>2. PICK i \in DOMAIN f : g[i] < f[i] /\ \A j \in 1 .. i - 1 : g[j] = f[j]
      BY <3>1 DEF Before
    <3>3. DOMAIN f = 1 .. size /\ f[i] \in Nat /\ g[i] \in Nat
      BY <3>2 DEF Tuples
    <3>4. f[i] <= g[i]
      BY <2>1, <3>2, <3>3 DEF First
    <3> QED BY <3>2, <3>3, <3>4
  <2> QED BY <2>2
<1> QED BY <1>1, MinWF

\* What is left to do is a tuple of bounded numbers.
LEMMA LeftToDoType ==
  ASSUME Core, Stack
  PROVE  LeftToDo \in Tuples(MaxFrames, Len(prog.code))
<1>1. /\ ip \in Nat /\ Len(prog.code) \in Nat /\ MaxFrames \in Nat
      /\ frames \in Seq(Frame) /\ Len(frames) \in Nat /\ DOMAIN frames = 1 .. Len(frames)
  BY SizesAssumption DEF Core, TypeOK, Program
<1>2. ASSUME NEW i \in 1 .. MaxFrames
      PROVE  LeftInFrame(i) \in 0 .. Len(prog.code)
  <2>1. CASE i \in DOMAIN frames
    <3>1. CASE i = Len(frames)
      BY <1>1, <2>1, <3>1 DEF LeftInFrame, ResumesAt
    <3>2. CASE i # Len(frames)
      <4>1. i + 1 \in 1 .. Len(frames)
        <5>1. \A k \in Nat : i \in 1 .. k /\ i # k => i + 1 \in 1 .. k
          OBVIOUS
        <5>2. Len(frames) \in Nat /\ i \in 1 .. Len(frames)
          BY <1>1, <2>1, Zenon
        <5> QED BY <3>2, <5>1, <5>2
      <4>2. ResumesAt(i) = frames[i + 1].jump /\ frames[i + 1].jump \in Nat
        BY <3>2, <4>1, FrameFields DEF ResumesAt, Frame
      <4> QED BY <1>1, <4>2 DEF LeftInFrame
    <3> QED BY <3>1, <3>2
  <2>2. CASE i \notin DOMAIN frames
    BY <1>1, <2>2 DEF LeftInFrame
  <2> QED BY <2>1, <2>2
<1> QED BY <1>1, <1>2 DEF LeftToDo, Tuples

\* A step that touches no frame below the one on top, and takes from that one,
\* leaves less to do.
LEMMA LessInTop ==
  ASSUME Core, Stack, status = "running", prog' = prog,
         NEW n \in Nat, n = Len(frames),
         LeftInFrame(n)' < LeftInFrame(n),
         \A j \in 1 .. n - 1 : j \in DOMAIN frames' /\ ResumesAt(j)' = ResumesAt(j)
  PROVE  Before(LeftToDo', LeftToDo)
<1>1. n \in 1 .. MaxFrames /\ DOMAIN frames = 1 .. n /\ 1 .. n - 1 \subseteq 1 .. n
  BY TopFrame, FrameFields, SizesAssumption DEF Core, TypeOK, Stack
<1>2. \A j \in 1 .. n - 1 : LeftInFrame(j)' = LeftInFrame(j)
  BY <1>1 DEF LeftInFrame
<1>3. /\ DOMAIN LeftToDo = 1 .. MaxFrames
      /\ \A i \in 1 .. MaxFrames : LeftToDo[i] = LeftInFrame(i)
      /\ \A i \in 1 .. MaxFrames : LeftToDo'[i] = LeftInFrame(i)'
  BY DEF LeftToDo
<1>4. \A j \in 1 .. n - 1 : j \in 1 .. MaxFrames
  BY <1>1, SizesAssumption
<1>5. /\ LeftToDo'[n] < LeftToDo[n]
      /\ \A j \in 1 .. n - 1 : LeftToDo'[j] = LeftToDo[j]
  BY <1>1, <1>2, <1>3, <1>4
<1> QED BY <1>1, <1>3, <1>5 DEF Before

\* Work moves the frame on top on, a call moves it behind the CALL, and a return
\* takes it away.
LEMMA ShrinkStep ==
  ASSUME Core, Stack, [Next]_vars, UNCHANGED vars => FALSE,
         status = "running", status' = "running", NoBackwardJump
  PROVE  Before(LeftToDo', LeftToDo)
<1>1. Works \/ Calls \/ Returns
  BY NextEffect DEF Starts, Stops
<1> PICK n \in Nat : n = Len(frames)
  BY TopFrame
<1>2. /\ n \in Nat \ {0} /\ DOMAIN frames = 1 .. n /\ n \in DOMAIN frames
      /\ ip \in Nat /\ Len(prog.code) \in Nat /\ ip < Len(prog.code)
      /\ prog' = prog /\ ip + 1 \in DOMAIN prog.code
  <2>1. /\ n \in Nat \ {0} /\ DOMAIN frames = 1 .. n
        /\ ip \in Nat /\ Len(prog.code) \in Nat /\ DOMAIN prog.code = 1 .. Len(prog.code)
    BY TopFrame, FrameFields DEF Core, TypeOK, Program
  <2>2. ip < Len(prog.code) /\ prog' = prog
    BY <1>1 DEF Works, Calls, Returns, AtInstr
  <2> QED BY <2>1, <2>2
<1>3. LeftInFrame(n) = Len(prog.code) - ip
  BY <1>2 DEF LeftInFrame, ResumesAt
<1>4. ASSUME ip' \in Int, ip' > ip, frames' = frames
      PROVE  LeftInFrame(n)' < LeftInFrame(n)
  BY <1>2, <1>3, <1>4 DEF LeftInFrame, ResumesAt
<1>5. CASE Works
  <2>1. ip' > ip /\ frames' = frames
    BY <1>2, <1>5 DEF NoBackwardJump, Works, Ins, stack
  <2>2. ip' \in Int
    BY <1>2, <1>5 DEF Works
  <2>3. \A j \in 1 .. n - 1 : j \in DOMAIN frames' /\ ResumesAt(j)' = ResumesAt(j)
    <3>1. \A j \in 1 .. n - 1 : j \in 1 .. n /\ j # n
      <4> QED BY <1>2
    <3> QED BY <1>2, <2>1, <3>1 DEF ResumesAt
  <2> QED BY <1>2, <1>4, <2>1, <2>2, <2>3, LessInTop
<1>6. CASE Calls
  <2>1. PICK fn \in DOMAIN prog.funcs : PushFrame(CalleeFrame(fn, Ins.c))
    BY <1>6 DEF Calls
  <2> DEFINE frame == CalleeFrame(fn, Ins.c)
  <2>2. frame \in Frame /\ frame.jump = ip + 1
    BY <1>6, CalleeFrameType DEF Calls, CalleeFrame
  <2> HIDE DEF frame
  <2>3. /\ Len(frames') = n + 1 /\ frames'[n + 1] = frame
        /\ \A i \in 1 .. n : frames'[i] = frames[i]
        /\ frames' \in Seq(Frame)
    BY <1>6, <2>1, <2>2, Pushed DEF Core, Calls, frame
  <2>4. DOMAIN frames' = 1 .. n + 1
    BY <2>3
  <2>5. /\ \A j \in 1 .. n - 1 : /\ j \in 1 .. n + 1 /\ j + 1 \in 1 .. n
                                 /\ j # n /\ j # n + 1
        /\ n \in 1 .. n + 1 /\ n # n + 1
    <3> QED BY <1>2
  <2>6. \A j \in 1 .. n - 1 : j \in DOMAIN frames' /\ ResumesAt(j)' = ResumesAt(j)
    BY <2>3, <2>4, <2>5 DEF ResumesAt
  <2>7. ResumesAt(n)' = ip + 1
    BY <2>2, <2>3, <2>5 DEF ResumesAt
  <2>8. LeftInFrame(n)' < LeftInFrame(n)
    BY <1>2, <1>3, <2>7 DEF LeftInFrame
  <2> QED BY <1>2, <2>6, <2>8, LessInTop
<1>7. CASE Returns
  <2>1. /\ frames \in Seq(Frame) /\ n > 1 /\ ip' = frames[n].jump
        /\ frames' = SubSeq(frames, 1, n - 1)
    BY <1>7 DEF Returns, Core, TypeOK
  <2>2. /\ Len(frames') = n - 1 /\ frames' \in Seq(Frame)
        /\ \A i \in 1 .. n - 1 : frames'[i] = frames[i]
    BY <2>1, Popped
  <2>3. DOMAIN frames' = 1 .. n - 1
    BY <2>2
  <2>4. LeftInFrame(n)' < LeftInFrame(n)
    <3>1. n \notin 1 .. n - 1
      <4> QED BY <1>2
    <3> QED BY <1>2, <1>3, <2>3, <3>1 DEF LeftInFrame
  <2>5. ASSUME NEW j \in 1 .. n - 1
        PROVE  ResumesAt(j)' = ResumesAt(j)
    <3>1. CASE j = n - 1
      <4>1. j + 1 = n /\ j # n
        <5> QED BY <1>2, <3>1
      <4> QED BY <2>1, <2>2, <3>1, <4>1 DEF ResumesAt
    <3>2. CASE j # n - 1
      <4>1. j + 1 \in 1 .. n - 1 /\ j # n
        <5> QED BY <1>2, <3>2
      <4> QED BY <2>2, <3>2, <4>1 DEF ResumesAt
    <3> QED BY <3>1, <3>2
  <2> QED BY <1>2, <2>3, <2>4, <2>5, LessInTop
<1> QED BY <1>1, <1>5, <1>6, <1>7

\* Without a backward jump each step leaves less to do, calls and returns included:
\* with DescentEnds, no such program takes steps for ever.
THEOREM RunsShorten == Spec => LeftToDoShrinks
<1> DEFINE Shrinks ==
      status = "running" /\ status' = "running" /\ NoBackwardJump
        => Before(LeftToDo', LeftToDo)
<1>1. Core /\ Stack /\ [Next]_vars => [Shrinks]_vars
  BY ShrinkStep
<1>2. LeftToDoShrinks <=> [][Shrinks]_vars
  BY DEF LeftToDoShrinks
<1> HIDE DEF Shrinks
<1> QED BY StackHolds, <1>1, <1>2, PTL DEF Spec

=============================================================================

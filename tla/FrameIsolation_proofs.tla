----------------------- MODULE FrameIsolation_proofs -----------------------
(***************************************************************************)
(* StickVM implements PrivateFrames, for tidy programs of any size and for *)
(* every value of the constants.  Each shape of a step (StickVM_proofs) is *)
(* a step of PrivateFrames: a run starts, works, calls, returns or stops.  *)
(***************************************************************************)
EXTENDS FrameIsolation, StickVM_proofs, SequenceTheorems

-----------------------------------------------------------------------------
(* Sequences as functions                                                  *)

LEMMA FunctionIsSequence ==
  ASSUME NEW S, NEW s, NEW n \in Nat, DOMAIN s = 1 .. n, s = [i \in 1 .. n |-> s[i]],
         \A i \in 1 .. n : s[i] \in S
  PROVE  s \in Seq(S) /\ Len(s) = n
<1>1. s \in [1 .. n -> S]
  OBVIOUS
<1> QED BY <1>1

LEMMA IsAppend ==
  ASSUME NEW s, NEW t, NEW n \in Nat, NEW e,
         DOMAIN s = 1 .. n, s = [i \in 1 .. n |-> s[i]],
         DOMAIN t = 1 .. n + 1, t = [i \in 1 .. n + 1 |-> t[i]],
         \A i \in 1 .. n : t[i] = s[i], t[n + 1] = e
  PROVE  t = Append(s, e)
<1> DEFINE S == {t[i] : i \in 1 .. n + 1}
<1>1. /\ \A i \in 1 .. n : s[i] \in S
      /\ \A i \in 1 .. n + 1 : t[i] \in S
      /\ e \in S
  <2>1. \A i \in 1 .. n + 1 : t[i] \in S
    OBVIOUS
  <2>2. \A i \in 1 .. n : i \in 1 .. n + 1
    OBVIOUS
  <2>3. n + 1 \in 1 .. n + 1
    OBVIOUS
  <2> HIDE DEF S
  <2> QED BY <2>1, <2>2, <2>3
<1> HIDE DEF S
<1>2. s \in Seq(S) /\ Len(s) = n /\ t \in Seq(S) /\ Len(t) = n + 1
  BY <1>1, FunctionIsSequence
<1>3. /\ Append(s, e) \in Seq(S) /\ Len(Append(s, e)) = n + 1
      /\ \A i \in 1 .. n : Append(s, e)[i] = s[i]
      /\ Append(s, e)[n + 1] = e
  BY <1>1, <1>2, AppendProperties
<1>4. \A i \in 1 .. n + 1 : t[i] = Append(s, e)[i]
  <2>1. \A i \in 1 .. n + 1 : i \in 1 .. n \/ i = n + 1
    OBVIOUS
  <2> QED BY <1>3, <2>1
<1> QED BY <1>2, <1>3, <1>4, SeqEqual

LEMMA IsFront ==
  ASSUME NEW s, NEW t, NEW n \in Nat \ {0},
         DOMAIN s = 1 .. n, s = [i \in 1 .. n |-> s[i]],
         DOMAIN t = 1 .. n - 1, t = [i \in 1 .. n - 1 |-> t[i]],
         \A i \in 1 .. n - 1 : t[i] = s[i]
  PROVE  t = SubSeq(s, 1, Len(s) - 1)
<1>1. Len(s) = n
  <2>1. \A i \in 1 .. n : s[i] \in {s[j] : j \in 1 .. n}
    OBVIOUS
  <2> QED BY <2>1, FunctionIsSequence
<1>2. SubSeq(s, 1, n - 1) = [i \in 1 .. n - 1 |-> s[i]]
  OBVIOUS
<1> QED BY <1>1, <1>2

-----------------------------------------------------------------------------
(* The refinement mapping                                                  *)

RegsIn(tags, bits, f) ==
  [k \in 0 .. f.regc - 1 |-> [type |-> tags[f.base + k], bits |-> bits[f.base + k]]]

Activation(tags, bits, f) ==
  [resume |-> f.jump, result |-> f.reg, fn |-> f.callee, regs |-> RegsIn(tags, bits, f)]

LEMMA PrivateIs ==
  /\ Private = [i \in DOMAIN frames |-> Activation(types, payloads, frames[i])]
  /\ Private' = [i \in DOMAIN frames' |-> Activation(types', payloads', frames'[i])]
BY DEF Private, RegsOf, Activation, RegsIn

LEMMA RegsKept ==
  ASSUME NEW f, NEW tags, NEW bits, NEW tags2, NEW bits2,
         \A k \in 0 .. f.regc - 1 :
           tags2[f.base + k] = tags[f.base + k] /\ bits2[f.base + k] = bits[f.base + k]
  PROVE  RegsIn(tags2, bits2, f) = RegsIn(tags, bits, f)
BY DEF RegsIn

LEMMA PrivateFields ==
  ASSUME Core
  PROVE  /\ DOMAIN Private = 1 .. Len(frames) /\ Len(Private) = Len(frames)
         /\ Private = [i \in 1 .. Len(frames) |-> Private[i]]
         /\ \A i \in 1 .. Len(frames) : Private[i] = Activation(types, payloads, frames[i])
<1>1. Len(frames) \in Nat /\ DOMAIN frames = 1 .. Len(frames)
  BY FrameFields
<1>2. /\ DOMAIN Private = 1 .. Len(frames)
      /\ Private = [i \in 1 .. Len(frames) |-> Private[i]]
      /\ \A i \in 1 .. Len(frames) : Private[i] = Activation(types, payloads, frames[i])
  BY <1>1, PrivateIs
<1>3. \A i \in 1 .. Len(frames) : Private[i] \in {Private[j] : j \in 1 .. Len(frames)}
  OBVIOUS
<1> QED BY <1>1, <1>2, <1>3, FunctionIsSequence

LEMMA PrivateFieldsNext ==
  ASSUME Core'
  PROVE  /\ DOMAIN Private' = 1 .. Len(frames') /\ Len(Private') = Len(frames')
         /\ Private' = [i \in 1 .. Len(frames') |-> Private'[i]]
         /\ \A i \in 1 .. Len(frames') :
              Private'[i] = Activation(types', payloads', frames'[i])
<1>1. Len(frames') \in Nat /\ DOMAIN frames' = 1 .. Len(frames')
  <2>1. frames' \in Seq(Frame) BY DEF Core, TypeOK
  <2> QED BY <2>1
<1>2. /\ DOMAIN Private' = 1 .. Len(frames')
      /\ Private' = [i \in 1 .. Len(frames') |-> Private'[i]]
      /\ \A i \in 1 .. Len(frames') : Private'[i] = Activation(types', payloads', frames'[i])
  BY <1>1, PrivateIs
<1>3. \A i \in 1 .. Len(frames') : Private'[i] \in {Private'[j] : j \in 1 .. Len(frames')}
  OBVIOUS
<1> QED BY <1>1, <1>2, <1>3, FunctionIsSequence

LEMMA SameInstruction ==
  /\ Abstract!AtInstr <=> AtInstr
  /\ Abstract!Ins = Ins
  /\ Abstract!Writes(Ins) = Written(Ins)
BY DEF Abstract!AtInstr, AtInstr, Abstract!Ins, Ins, Abstract!Writes, Written, Jumps

\* What CALL finds in its register is what the private window holds there.
LEMMA LeadsIsCalls ==
  ASSUME NEW fn, NEW kind, AtInstr, Leads(fn, kind),
         Abstract!Top.regs[Ins.a] =
           [type |-> types[Base + Ins.a], bits |-> payloads[Base + Ins.a]]
  PROVE  Abstract!Calls(kind) /\ Abstract!Callee = fn
<1> DEFINE held == Abstract!Top.regs[Ins.a]
<1>1. Abstract!AtInstr /\ Abstract!Ins = Ins
  BY SameInstruction
<1>2. held.type = "CALLABLE" /\ held.bits.val = fn
  BY DEF Leads
<1>3. /\ Ins.op = "CALL" /\ fn \in DOMAIN prog.funcs
      /\ prog.funcs[fn].kind = kind /\ Ins.b = prog.funcs[fn].argc
  BY DEF Leads
<1>4. Abstract!Callee = fn
  BY <1>1, <1>2 DEF Abstract!Callee
<1>5. Abstract!Top.regs[Abstract!Ins.a].type = "CALLABLE"
  BY <1>1, <1>2
<1> QED BY ONLY <1>1, <1>3, <1>4, <1>5 DEF Abstract!Calls

LEMMA SamePrograms == Abstract!Program = Program
BY DEF Abstract!Program, Program, Abstract!Instr, Instr, Abstract!Operand, Operand,
       Abstract!Value, Value, Abstract!Payload, Payload, Abstract!View, View,
       Abstract!Type, Type, Abstract!NumType, NumType, Abstract!Func, Func,
       Abstract!Reg, Reg, Abstract!Held, Held, Abstract!Agree, Agree,
       Abstract!ViewOf, ViewOf, Abstract!DataOf, DataOf
-----------------------------------------------------------------------------
(* The invariant                                                           *)

\* What makes a tidy program tidy at run time: it never holds a raw payload, it
\* starts with null registers, and a CALL names a register of its own window for
\* the result.
Isolated ==
  /\ prog \in Programs
  /\ RawFree
  /\ status = "loaded" => \A r \in Reg : types[r] = "NUL" /\ payloads[r] = NulBits
  /\ \A i \in 2 .. Len(frames) : frames[i].reg < frames[i - 1].regc

TidyInv == Core /\ Stack /\ RoomInv /\ Isolated

LEMMA IsolatedInit ==
  ASSUME Init
  PROVE  Isolated
<1>1. Tidy(prog)
  BY TidyAssumption DEF Init
<1>2. NulBits.as # "raw"
  BY DEF NulBits, Bits, ViewOf
<1>3. \A k \in DOMAIN globals : globals[k].bits.as # "raw"
  BY <1>1 DEF Init, Tidy
<1>4. RawFree
  BY <1>1, <1>2, <1>3 DEF Init, Tidy, RawFree
<1> QED BY <1>4 DEF Isolated, Init

\* Every window is wide enough for every register the program names, and the
\* windows lie one above the other with room to spare.
LEMMA TidyWindows ==
  ASSUME TidyInv
  PROVE  /\ \A i \in 1 .. Len(frames) :
              /\ frames[i].base + frames[i].regc + Byte <= MaxRegisters
              /\ \A k \in DOMAIN prog.code :
                   \A r \in RegistersOf(prog.code[k]) : r < frames[i].regc
         /\ \A i, j \in 1 .. Len(frames) :
              i < j => frames[i].base + frames[i].regc <= frames[j].base
         /\ status = "running" => ~Overruns
<1>1. Tidy(prog) /\ Core /\ Stack /\ RoomInv
  BY TidyAssumption DEF TidyInv, Isolated
<1>2. PICK width \in 0 .. Byte : RoomyFor(width)
  BY <1>1 DEF Tidy, Fits, RoomyFor
<1>3. /\ \A i \in 1 .. Len(frames) :
           /\ frames[i].base + frames[i].regc + Byte <= MaxRegisters
           /\ frames[i].base + frames[i].regc \in Nat
      /\ status = "running" => ~Overruns
      /\ DOMAIN frames = 1 .. Len(frames) /\ Len(frames) \in Nat
  BY <1>1, <1>2, RoomIsLeft, FrameFields DEF RoomInv
<1>4. ASSUME NEW i \in 1 .. Len(frames), NEW k \in DOMAIN prog.code,
             NEW r \in RegistersOf(prog.code[k])
      PROVE  r < frames[i].regc
  <2>1. /\ r < BaseRegisters
        /\ \A fn \in DOMAIN prog.funcs :
             prog.funcs[fn].kind = "BYTECODE" => r < prog.funcs[fn].regc
    BY <1>1 DEF Tidy
  <2>2. CASE i = 1
    <3>1. frames # << >> /\ frames[1] = EntryFrame
      BY <1>1, <1>3 DEF Stack
    <3> QED BY <2>1, <2>2, <3>1 DEF EntryFrame
  <2>3. CASE i \in 2 .. Len(frames)
    BY <1>1, <2>1, <2>3 DEF Stack, FramesMirrorCalls
  <2> QED BY <1>3, <2>2, <2>3
<1>5. ASSUME NEW i \in 1 .. Len(frames), NEW j \in 1 .. Len(frames), i < j
      PROVE  frames[i].base + frames[i].regc <= frames[j].base
  <2>1. \A k \in i .. j - 1 : k \in 1 .. Len(frames)
    BY <1>3, <1>5
  <2>2. NoneFull(i, j - 1)
    BY <1>3, <2>1, SizesAssumption DEF NoneFull, EndsAtLimit
  <2> QED BY <1>1, <1>3, <1>5, <2>2 DEF Stack, DisjointUntilFull
<1> QED BY <1>3, <1>4, <1>5

LEMMA WindowInFile ==
  ASSUME NEW base \in Nat, NEW regc \in Nat, base + regc + Byte <= MaxRegisters,
         NEW k \in 0 .. regc - 1
  PROVE  base + k \in Reg
BY SizesAssumption DEF Reg

\* The registers an instruction names are in the window on top.
LEMMA TidyOperands ==
  ASSUME TidyInv, AtInstr
  PROVE  /\ Len(frames) \in Nat \ {0} /\ Base = frames[Len(frames)].base
         /\ Ins.a \in Nat /\ Ins.c \in Nat
         /\ \A i \in 1 .. Len(frames) :
              /\ Ins.op \in {"CALL", "STOREG", "RET"} => Ins.a < frames[i].regc
              /\ Ins.op = "CALL" => Ins.c < frames[i].regc
<1>1. Core /\ Fetch({Ins.op}) /\ status = "running"
  BY DEF TidyInv, AtInstr, Fetch
<1>2. Len(frames) \in Nat \ {0} /\ Base = frames[Len(frames)].base /\ Ins.a \in Nat /\ Ins.c \in Nat
  BY <1>1, Fetched, TopFrame
<1>3. ip + 1 \in DOMAIN prog.code /\ prog.code[ip + 1] = Ins
  BY <1>1 DEF AtInstr, Core, TypeOK, Program, Ins
<1>4. /\ Ins.op \in {"STOREG", "RET"} => Ins.a \in RegistersOf(Ins)
      /\ Ins.op = "CALL" => Ins.a \in RegistersOf(Ins) /\ Ins.c \in RegistersOf(Ins)
  <2>1. CASE Ins.op = "CALL"
    BY <2>1 DEF RegistersOf, Casts
  <2>2. CASE Ins.op \in {"STOREG", "RET"}
    <3>1. Ins.op \notin Dyadics /\ Ins.op \notin {c.op : c \in Casts}
      BY <2>2 DEF Dyadics, NumType, BinopOf, CmpopOf, Casts
    <3> QED BY <2>2, <3>1 DEF RegistersOf
  <2> QED BY <2>1, <2>2
<1> QED BY <1>2, <1>3, <1>4, TidyWindows

LEMMA IsolatedStep ==
  ASSUME TidyInv, [Next]_vars
  PROVE  Isolated'
<1>1. Core /\ Stack /\ Isolated
  BY DEF TidyInv
<1>2. CASE UNCHANGED vars
  BY <1>1, <1>2 DEF vars, data, stack, Isolated, RawFree
<1>3. CASE Starts
  <2>1. frames = << >> /\ EntryFrame \in Frame /\ Len(frames) = 0
    BY <1>1, <1>3, EntryFrameType DEF Starts, Stack, Core
  <2>2. Len(frames') = 1 /\ RawFree' /\ prog' = prog /\ status' # "loaded"
    BY <1>1, <1>3, <2>1, Pushed, RawFreeKept DEF Starts, Core, Isolated
  <2> QED BY <1>1, <2>2 DEF Isolated
<1>4. CASE Works
  BY <1>1, <1>4 DEF Works, stack, Isolated, AtInstr
<1>5. CASE Calls
  <2>1. PICK fn \in DOMAIN prog.funcs : PushFrame(CalleeFrame(fn, Ins.c))
    BY <1>5 DEF Calls
  <2> DEFINE frame == CalleeFrame(fn, Ins.c)
             n     == Len(frames)
  <2>2. AtInstr /\ RefreshCurrent /\ PushFrame(frame) /\ frame \in Frame /\ frame.reg = Ins.c
    BY <1>1, <1>5, <2>1, CalleeFrameType DEF Calls, CalleeFrame
  <2> HIDE DEF frame
  <2>3. /\ Len(frames') = n + 1 /\ frames'[n + 1] = frame
        /\ \A i \in 1 .. n : frames'[i] = frames[i]
    BY <1>1, <2>2, Pushed DEF Core
  <2>4. n \in Nat \ {0} /\ Ins.c < frames[n].regc
    BY <1>5, <2>2, TidyOperands DEF Calls
  <2> HIDE DEF n
  <2>5. \A i \in 2 .. n + 1 : frames'[i].reg < frames'[i - 1].regc
    <3> TAKE i \in 2 .. n + 1
    <3>1. CASE i = n + 1
      BY <2>2, <2>3, <2>4, <3>1
    <3>2. CASE i \in 2 .. n
      <4>1. i \in 1 .. n /\ i - 1 \in 1 .. n
        BY <2>4, <3>2
      <4>2. frames[i].reg < frames[i - 1].regc
        BY <1>1, <3>2 DEF Isolated, n
      <4> QED BY <2>3, <4>1, <4>2
    <3> QED BY <2>4, <3>1, <3>2
  <2>6. RawFree' /\ prog' = prog /\ status' = "running"
    BY <1>1, <1>5, RawFreeKept DEF Calls, Isolated, AtInstr
  <2> QED BY <1>1, <2>3, <2>5, <2>6 DEF Isolated
<1>6. CASE Returns
  <2>1. frames \in Seq(Frame) /\ Len(frames) \in Nat /\ Len(frames) > 1
    BY <1>1, <1>6 DEF Returns, Core, TypeOK
  <2>2. /\ Len(frames') = Len(frames) - 1
        /\ \A i \in 1 .. Len(frames) - 1 : frames'[i] = frames[i]
    BY <1>6, <2>1, Popped DEF Returns
  <2>3. Base \in Nat /\ Ins.a \in Nat
    <3>1. Fetch({Ins.op}) /\ status = "running"
      BY <1>6 DEF Returns, AtInstr, Fetch
    <3> QED BY <1>1, <3>1, TopFrame, Fetched
  <2>4. Returned.bits.as # "raw"
    BY <1>1, <2>3, SizesAssumption DEF Returned, Isolated, RawFree, Reg, NulBits, Bits, ViewOf
  <2>5. \A r \in Reg : payloads'[r].as # "raw"
    BY <1>1, <1>6, <2>4 DEF Returns, Keeps, Isolated, RawFree
  <2>6. RawFree' /\ prog' = prog /\ status' = "running"
    BY <1>1, <1>6, <2>5 DEF Returns, Isolated, RawFree, AtInstr
  <2>7. \A i \in 2 .. Len(frames') : frames'[i].reg < frames'[i - 1].regc
    <3> DEFINE n == Len(frames)
    <3>1. \A i \in 2 .. n : frames[i].reg < frames[i - 1].regc
      BY <1>1 DEF Isolated
    <3> HIDE DEF n
    <3>2. TAKE i \in 2 .. Len(frames')
    <3>3. i \in 2 .. n /\ i \in 1 .. n - 1 /\ i - 1 \in 1 .. n - 1
      BY <2>1, <2>2 DEF n
    <3> QED BY <2>2, <3>1, <3>3 DEF n
  <2> QED BY <1>1, <2>6, <2>7 DEF Isolated
<1>7. CASE Stops
  <2>1. RawFree' /\ prog' = prog /\ status' # "loaded" /\ (frames' = frames \/ frames' = << >>)
    BY <1>1, <1>7, RawFreeKept DEF Stops, Isolated
  <2> QED BY <1>1, <2>1 DEF Isolated
<1> QED BY <1>1, <1>2, <1>3, <1>4, <1>5, <1>6, <1>7, NextEffect

-----------------------------------------------------------------------------
(* Each shape is a step of PrivateFrames                                   *)

LEMMA PrivateInit ==
  ASSUME Init
  PROVE  Abstract!Init
<1>1. Core
  BY CoreInit
<1>2. DOMAIN Private = 1 .. 0 /\ Private = [i \in 1 .. 0 |-> Private[i]] /\ frames = << >>
  BY <1>1, PrivateFields DEF Init
<1>3. Private = << >>
  BY <1>2
<1>4. prog \in Abstract!Program
  BY ProgramsAssumption, SamePrograms DEF Init
<1> QED BY <1>3, <1>4 DEF Init, Abstract!Init, Abstract!NO_ERROR, NO_ERROR,
                          Abstract!PANIC_OOM, PANIC_OOM

LEMMA StartsIsStart ==
  ASSUME TidyInv, TidyInv', Starts
  PROVE  Abstract!Start
<1>1. Core /\ Core' /\ Stack /\ Isolated
  BY DEF TidyInv
<1>2. frames = << >> /\ EntryFrame \in Frame /\ Len(frames) = 0
  BY <1>1, EntryFrameType DEF Starts, Stack, Core
<1>3. Len(frames') = 1 /\ frames'[1] = EntryFrame
  BY <1>1, <1>2, Pushed DEF Starts, Core
<1>4. \A r \in Reg : types'[r] = "NUL" /\ payloads'[r] = NulBits
  BY <1>1 DEF Isolated, Starts, data
<1>5. \A k \in 0 .. BaseRegisters - 1 : 0 + k = k /\ k \in Reg
  BY SizesAssumption DEF Reg
<1> DEFINE nulls == [k \in 0 .. BaseRegisters - 1 |-> [type |-> "NUL", bits |-> NulBits]]
<1>6. RegsIn(types', payloads', EntryFrame) = nulls
  BY <1>4, <1>5 DEF RegsIn, EntryFrame
<1>7. Private'[1] = [resume |-> Len(prog.code), result |-> 0, fn |-> 0, regs |-> nulls]
  <2> HIDE DEF nulls
  <2>1. Private'[1] = Activation(types', payloads', frames'[1])
    BY <1>1, <1>3, PrivateFieldsNext
  <2> QED BY <1>3, <1>6, <2>1 DEF Activation, EntryFrame
<1>8. Private' = << Private'[1] >>
  BY <1>1, <1>3, PrivateFieldsNext
<1>9. Abstract!NulBits = NulBits
  BY DEF Abstract!NulBits, NulBits, Abstract!Bits, Bits, Abstract!ViewOf, ViewOf
<1> QED BY <1>7, <1>8, <1>9 DEF Starts, Abstract!Start, Abstract!NO_ERROR, NO_ERROR, data

LEMMA WorksIsLocal ==
  ASSUME TidyInv, TidyInv', Works
  PROVE  Abstract!Local
<1> DEFINE n == Len(frames)
<1>1. Core /\ Core' /\ frames' = frames /\ AtInstr
  BY DEF TidyInv, Works, stack
<1>2. n \in Nat \ {0} /\ Base = frames[n].base /\ Ins.a \in Nat
  BY <1>1, TidyOperands
<1>3. /\ \A i \in 1 .. n : /\ Private[i] = Activation(types, payloads, frames[i])
                           /\ Private'[i] = Activation(types', payloads', frames[i])
      /\ Len(Private) = n /\ DOMAIN Private = 1 .. n /\ DOMAIN Private' = 1 .. n
      /\ Private = [i \in 1 .. n |-> Private[i]] /\ Private' = [i \in 1 .. n |-> Private'[i]]
  BY <1>1, PrivateFields, PrivateFieldsNext
<1>4. \A i \in 1 .. n : /\ frames[i].base \in Nat /\ frames[i].regc \in Nat
                        /\ frames[i].base + frames[i].regc + Byte <= MaxRegisters
  <2>1. \A i \in 1 .. n : frames[i].base \in Nat /\ frames[i].regc \in Nat
    BY <1>1, FrameFields
  <2>2. \A i \in 1 .. n : frames[i].base + frames[i].regc + Byte <= MaxRegisters
    BY TidyWindows
  <2> QED BY <2>1, <2>2
<1>5. \A i \in 1 .. n : \A k \in 0 .. frames[i].regc - 1 : frames[i].base + k \in Reg
  BY <1>4, WindowInFile
<1> HIDE DEF n
<1>6. ASSUME NEW i \in 1 .. n - 1
      PROVE  Private'[i] = Private[i]
  <2>1. i \in 1 .. n /\ i < n
    BY <1>2
  <2>2. frames[i].base + frames[i].regc <= Base
    BY <1>2, <2>1, TidyWindows DEF n
  <2>3. \A k \in 0 .. frames[i].regc - 1 : frames[i].base + k < Base
    BY <1>2, <1>4, <2>1, <2>2
  <2>4. \A k \in 0 .. frames[i].regc - 1 : Keeps(frames[i].base + k)
    BY <1>1, <1>5, <2>1, <2>3, WorksAbove
  <2>5. RegsIn(types', payloads', frames[i]) = RegsIn(types, payloads, frames[i])
    BY <2>4, RegsKept DEF Keeps
  <2> QED BY <1>3, <2>1, <2>5 DEF Activation
<1> DEFINE regs == RegsIn(types', payloads', frames[n])
           old  == RegsIn(types, payloads, frames[n])
<1>7. /\ n \in 1 .. n /\ Private[n].regs = old /\ Private'[n].regs = regs
      /\ Private'[n] = [Private[n] EXCEPT !.regs = regs]
  <2>1. n \in 1 .. n
    BY <1>2
  <2>2. /\ Private[n] = Activation(types, payloads, frames[n])
        /\ Private'[n] = Activation(types', payloads', frames[n])
    BY <1>3, <2>1
  <2> HIDE DEF regs, old
  <2> QED BY <2>1, <2>2 DEF Activation, regs, old
<1>8. DOMAIN regs = 0 .. frames[n].regc - 1 /\ DOMAIN old = 0 .. frames[n].regc - 1
  BY DEF RegsIn
<1>9. \A k \in DOMAIN regs \ Written(Ins) : regs[k] = old[k]
  <2> TAKE k \in DOMAIN regs \ Written(Ins)
  <2>1. k \in 0 .. frames[n].regc - 1 /\ k \notin Written(Ins)
    BY <1>8
  <2>2. \A j \in Written(Ins) : j \in Nat
    <3>1. Fetch({Ins.op})
      BY <1>1 DEF AtInstr, Fetch
    <3> QED BY <1>1, <3>1, Fetched DEF Written
  <2>3. \A j \in Written(Ins) : Base + k # Base + j
    BY <1>2, <1>4, <2>1, <2>2
  <2>4. Keeps(Base + k)
    BY <1>2, <1>5, <2>1, <2>3 DEF Works
  <2> QED BY <1>2, <2>1, <2>4 DEF RegsIn, Keeps
<1>10. Private' = [Private EXCEPT ![n].regs = regs]
  <2> HIDE DEF regs, old
  <2> DEFINE right == [Private EXCEPT ![n].regs = regs]
  <2>1. DOMAIN right = 1 .. n /\ right = [i \in 1 .. n |-> right[i]]
    BY <1>3
  <2>2. \A i \in 1 .. n : right[i] = Private'[i]
    <3> TAKE i \in 1 .. n
    <3>1. CASE i = n
      BY <1>3, <1>7, <3>1
    <3>2. CASE i # n
      BY <1>2, <1>3, <1>6, <3>2
    <3> QED BY <3>1, <3>2
  <2> HIDE DEF right
  <2>3. Private' = right
    BY <1>3, <2>1, <2>2
  <2> QED BY <2>3 DEF right
<1>11. Ins.op = "CALL" => Abstract!Calls("NATIVE")
  <2> SUFFICES ASSUME Ins.op = "CALL"
               PROVE  Abstract!Calls("NATIVE")
    OBVIOUS
  <2>1. PICK fn \in DOMAIN prog.funcs : Leads(fn, "NATIVE")
    BY DEF Works
  <2>2. Ins.a \in 0 .. frames[n].regc - 1
    BY <1>1, <1>2, <1>4, <1>7, TidyOperands DEF n
  <2>3. old[Ins.a] = [type |-> types[Base + Ins.a], bits |-> payloads[Base + Ins.a]]
    BY <1>2, <2>2 DEF RegsIn
  <2>4. Abstract!Top.regs[Ins.a] = [type |-> types[Base + Ins.a], bits |-> payloads[Base + Ins.a]]
    BY <1>3, <1>7, <2>3 DEF Abstract!Top
  <2> QED BY <1>1, <2>1, <2>4, LeadsIsCalls
<1>12. Ins.op = "STOREG" =>
         Abstract!Top.regs[Ins.a] = [type |-> types[Base + Ins.a], bits |-> payloads[Base + Ins.a]]
  <2> SUFFICES ASSUME Ins.op = "STOREG"
               PROVE  old[Ins.a] = [type |-> types[Base + Ins.a], bits |-> payloads[Base + Ins.a]]
    BY <1>3, <1>7 DEF Abstract!Top
  <2>1. Ins.a \in 0 .. frames[n].regc - 1
    BY <1>1, <1>2, <1>4, <1>7, TidyOperands DEF n
  <2> QED BY <1>2, <2>1 DEF RegsIn
<1> HIDE DEF regs, old
<1>13. /\ Private'[Len(Private)].regs = regs /\ Abstract!Top.regs = old
  BY <1>3, <1>7 DEF Abstract!Top
<1>14. globals' = IF Ins.op = "STOREG"
                  THEN [globals EXCEPT ![Ins.b + 1] = Abstract!Top.regs[Ins.a]] ELSE globals
  BY <1>12 DEF Works
<1>15. /\ Ins.op # "RET" /\ UNCHANGED <<prog, panic_code, status>>
       /\ Ins.op \in {"LOADG", "STOREG"} => Ins.b < Len(globals)
       /\ IF Ins.op \in {"JMP", "JMPIF", "JMPIFZ"}
          THEN ip' \in 0 .. Len(prog.code) ELSE ip' = ip + 1
  <2>1. ip \in Nat /\ Len(prog.code) \in Nat /\ ip < Len(prog.code)
    BY <1>1 DEF Core, TypeOK, Program, AtInstr
  <2> QED BY <2>1 DEF Works, Proceeds, Jumps
<1>16. Abstract!AtInstr /\ Abstract!Ins = Ins /\ Abstract!Writes(Ins) = Written(Ins)
  BY <1>1, SameInstruction
<1> QED BY <1>3, <1>8, <1>9, <1>10, <1>11, <1>13, <1>14, <1>15, <1>16 DEF Abstract!Local

LEMMA CallsIsCall ==
  ASSUME TidyInv, TidyInv', Calls
  PROVE  Abstract!Call
<1> DEFINE n == Len(frames)
<1>1. Core /\ Core' /\ AtInstr /\ Stack
  BY DEF TidyInv, Calls
<1>2. n \in Nat \ {0} /\ Base = frames[n].base /\ Ins.a \in Nat /\ Ins.c \in Nat
  BY <1>1, TidyOperands
<1>3. PICK fn \in DOMAIN prog.funcs :
        Leads(fn, "BYTECODE") /\ PushFrame(CalleeFrame(fn, Ins.c)) /\ ip' = prog.funcs[fn].entry
  BY DEF Calls
<1> DEFINE frame == CalleeFrame(fn, Ins.c)
<1>4. /\ frame \in Frame /\ frame.jump = ip + 1 /\ frame.reg = Ins.c
      /\ frame.callee = fn /\ frame.regc = prog.funcs[fn].regc
  BY <1>1, CalleeFrameType DEF CalleeFrame
<1>5. RefreshCurrent /\ UNCHANGED <<prog, types, payloads, globals, panic_code, status>>
      /\ Ins.op = "CALL"
  BY DEF Calls, data
<1> HIDE DEF frame
<1>6. /\ Len(frames') = n + 1 /\ frames'[n + 1] = frame
      /\ \A i \in 1 .. n : frames'[i] = frames[i]
      /\ framecap' \in 0 .. MaxFrames /\ Len(frames') <= framecap'
  BY <1>1, <1>3, <1>4, <1>5, Pushed DEF Core, frame
<1>7. n < MaxFrames
  BY <1>2, <1>6, SizesAssumption
<1>8. /\ Len(Private) = n /\ DOMAIN Private = 1 .. n /\ Private = [i \in 1 .. n |-> Private[i]]
      /\ \A i \in 1 .. n : Private[i] = Activation(types, payloads, frames[i])
  BY <1>1, PrivateFields
<1>9. /\ Len(Private') = n + 1 /\ DOMAIN Private' = 1 .. n + 1
      /\ Private' = [i \in 1 .. n + 1 |-> Private'[i]]
      /\ \A i \in 1 .. n + 1 : Private'[i] = Activation(types', payloads', frames'[i])
  BY <1>1, <1>6, PrivateFieldsNext
<1> HIDE DEF n
<1>10. \A i \in 1 .. n : Private'[i] = Private[i]
  <2>1. \A i \in 1 .. n : i \in 1 .. n + 1
    BY <1>2
  <2> QED BY <1>5, <1>6, <1>8, <1>9, <2>1
<1>11. Private'[n + 1] = Activation(types', payloads', frame)
  <2>1. n + 1 \in 1 .. n + 1
    BY <1>2
  <2> QED BY <1>6, <1>9, <2>1
<1>12. Private' = Append(Private, Private'[n + 1])
  BY <1>2, <1>8, <1>9, <1>10, IsAppend
<1>13. /\ Private'[n + 1] = [resume |-> ip + 1, result |-> Ins.c, fn |-> fn,
                             regs |-> Private'[n + 1].regs]
       /\ DOMAIN Private'[n + 1].regs = 0 .. prog.funcs[fn].regc - 1
  BY <1>4, <1>11 DEF Activation, RegsIn
<1>14. Abstract!Top.regs[Ins.a] = [type |-> types[Base + Ins.a], bits |-> payloads[Base + Ins.a]]
  <2>1. n \in 1 .. n
    BY <1>2
  <2>2. frames[n].regc \in Nat
    BY <1>1, <2>1, FrameFields DEF n
  <2>3. Ins.a \in 0 .. frames[n].regc - 1
    BY <1>1, <1>2, <1>5, <2>1, <2>2, TidyOperands DEF n
  <2>4. Abstract!Top = Private[n] /\ Private[n] = Activation(types, payloads, frames[n])
    BY <1>8, <2>1 DEF Abstract!Top
  <2>5. RegsIn(types, payloads, frames[n])[Ins.a]
         = [type |-> types[Base + Ins.a], bits |-> payloads[Base + Ins.a]]
    BY <1>2, <2>3 DEF RegsIn
  <2> QED BY <2>4, <2>5 DEF Activation
<1>15. Abstract!Calls("BYTECODE") /\ Abstract!Callee = fn
  BY <1>1, <1>3, <1>14, LeadsIsCalls
<1>16. Abstract!Ins = Ins
  BY SameInstruction
<1> HIDE DEF frame
<1> QED BY <1>3, <1>5, <1>7, <1>8, <1>9, <1>12, <1>13, <1>15, <1>16 DEF Abstract!Call

LEMMA ReturnsIsReturn ==
  ASSUME TidyInv, TidyInv', Returns
  PROVE  Abstract!Return
<1> DEFINE n == Len(frames)
           dest == ReturnSlot
<1>1. Core /\ Core' /\ AtInstr /\ Isolated /\ Ins.op = "RET" /\ n > 1
  BY DEF TidyInv, Returns
<1>2. n \in Nat \ {0} /\ Base = frames[n].base /\ Ins.a \in Nat
  BY <1>1, TidyOperands
<1>3. /\ frames \in Seq(Frame) /\ frames' = SubSeq(frames, 1, n - 1)
      /\ ip' = frames[n].jump /\ UNCHANGED <<prog, globals, panic_code, status>>
      /\ dest \in Reg /\ types'[dest] = Returned.type /\ payloads'[dest] = Returned.bits
      /\ \A r \in Reg \ {dest} : Keeps(r)
  BY <1>1 DEF Returns, Core, TypeOK
<1>4. Len(frames') = n - 1 /\ \A i \in 1 .. n - 1 : frames'[i] = frames[i]
  BY <1>1, <1>3, Popped
<1>5. /\ Len(Private) = n /\ DOMAIN Private = 1 .. n /\ Private = [i \in 1 .. n |-> Private[i]]
      /\ \A i \in 1 .. n : Private[i] = Activation(types, payloads, frames[i])
  BY <1>1, PrivateFields
<1>6. /\ DOMAIN Private' = 1 .. n - 1 /\ Private' = [i \in 1 .. n - 1 |-> Private'[i]]
      /\ \A i \in 1 .. n - 1 : Private'[i] = Activation(types', payloads', frames[i])
  BY <1>1, <1>4, PrivateFieldsNext
<1>7. \A i \in 1 .. n : /\ frames[i].base \in Nat /\ frames[i].regc \in Nat
                        /\ frames[i].base + frames[i].regc + Byte <= MaxRegisters
                        /\ frames[i].reg \in Nat
  <2>1. \A i \in 1 .. n : /\ frames[i].base \in Nat /\ frames[i].regc \in Nat
                          /\ frames[i].reg \in Nat
    BY <1>1, FrameFields
  <2>2. \A i \in 1 .. n : frames[i].base + frames[i].regc + Byte <= MaxRegisters
    BY TidyWindows
  <2> QED BY <2>1, <2>2
<1>8. \A i \in 1 .. n : \A k \in 0 .. frames[i].regc - 1 : frames[i].base + k \in Reg
  BY <1>7, WindowInFile
<1>9. /\ dest = frames[n - 1].base + frames[n].reg
      /\ n - 1 \in 1 .. n - 1 /\ n - 1 \in 1 .. n /\ n \in 1 .. n /\ n \in 2 .. n
      /\ \A i \in 1 .. n - 1 : i \in 1 .. n
  BY <1>1, <1>2 DEF ReturnSlot
<1>10. frames[n].reg \in 0 .. frames[n - 1].regc - 1
  BY <1>1, <1>7, <1>9 DEF Isolated
<1>11. \A i \in 1 .. n - 2 : frames[i].base + frames[i].regc <= frames[n - 1].base
  <2>1. \A i \in 1 .. n - 2 : i \in 1 .. n /\ i < n - 1
    BY <1>1, <1>2
  <2> QED BY <1>9, <2>1, TidyWindows
<1>12. Returned = [type |-> types[Base + Ins.a], bits |-> payloads[Base + Ins.a]]
       /\ Ins.a \in 0 .. frames[n].regc - 1
  <2>1. Ins.a < frames[n].regc
    BY <1>1, <1>9, TidyOperands
  <2>2. /\ frames[n].base \in Nat /\ frames[n].regc \in Nat
        /\ frames[n].base + frames[n].regc + Byte <= MaxRegisters
    BY <1>7, <1>9
  <2> HIDE DEF n
  <2>3. Base + Ins.a < MaxRegisters /\ Ins.a \in 0 .. frames[n].regc - 1
    BY <1>2, <2>1, <2>2, SizesAssumption
  <2> QED BY <2>3 DEF Returned
<1> HIDE DEF n, dest
<1>13. ASSUME NEW i \in 1 .. n - 2
       PROVE  Private'[i] = Private[i]
  <2>1. i \in 1 .. n /\ i \in 1 .. n - 1
    BY <1>1, <1>2
  <2>2. \A k \in 0 .. frames[i].regc - 1 : frames[i].base + k # dest
    BY <1>7, <1>9, <1>10, <1>11, <2>1
  <2>3. \A k \in 0 .. frames[i].regc - 1 : Keeps(frames[i].base + k)
    BY <1>3, <1>8, <2>1, <2>2
  <2>4. RegsIn(types', payloads', frames[i]) = RegsIn(types, payloads, frames[i])
    BY <2>3, RegsKept DEF Keeps
  <2> QED BY <1>5, <1>6, <2>1, <2>4 DEF Activation
<1> DEFINE caller == frames[n - 1]
           q      == frames[n].reg
           old    == RegsIn(types, payloads, caller)
           regs   == RegsIn(types', payloads', caller)
<1>14. regs = [old EXCEPT ![q] = Returned]
  <2>1. /\ DOMAIN old = 0 .. caller.regc - 1 /\ DOMAIN regs = 0 .. caller.regc - 1
        /\ regs = [k \in 0 .. caller.regc - 1 |-> regs[k]]
        /\ old = [k \in 0 .. caller.regc - 1 |-> old[k]]
    BY DEF RegsIn
  <2>2. \A k \in 0 .. caller.regc - 1 : k # q => regs[k] = old[k]
    <3> SUFFICES ASSUME NEW k \in 0 .. caller.regc - 1, k # q
                 PROVE  Keeps(caller.base + k)
      BY DEF RegsIn, Keeps
    <3>1. caller.base + k # dest
      BY <1>7, <1>9
    <3>2. caller.base + k \in Reg
      BY <1>8, <1>9
    <3> QED BY <1>3, <3>1, <3>2
  <2>3. regs[q] = Returned
    BY <1>3, <1>9, <1>10 DEF RegsIn, Returned
  <2> HIDE DEF regs, old, q, caller
  <2> QED BY <2>1, <2>2, <2>3
<1>15. /\ Private[n - 1] = [resume |-> caller.jump, result |-> caller.reg,
                            fn |-> caller.callee, regs |-> old]
       /\ Private'[n - 1] = [resume |-> caller.jump, result |-> caller.reg,
                             fn |-> caller.callee, regs |-> regs]
  BY <1>5, <1>6, <1>9 DEF Activation
<1>16. /\ Abstract!Top.result = q /\ Abstract!Top.regs[Ins.a] = Returned
       /\ Abstract!Top.resume = frames[n].jump
  <2>1. Abstract!Top = Private[n] /\ Private[n] = Activation(types, payloads, frames[n])
    BY <1>5, <1>9 DEF Abstract!Top
  <2>2. RegsIn(types, payloads, frames[n])[Ins.a]
         = [type |-> types[Base + Ins.a], bits |-> payloads[Base + Ins.a]]
    BY <1>2, <1>12 DEF RegsIn
  <2> QED BY <1>12, <2>1, <2>2 DEF Activation
<1> DEFINE callers == [i \in 1 .. n - 1 |-> Private[i]]
<1>17. /\ SubSeq(Private, 1, Len(Private) - 1) = callers
       /\ Len(callers) = n - 1 /\ callers # << >>
  <2>1. SubSeq(Private, 1, Len(Private) - 1) = callers
    <3>1. /\ DOMAIN callers = 1 .. n - 1 /\ callers = [i \in 1 .. n - 1 |-> callers[i]]
          /\ \A i \in 1 .. n - 1 : callers[i] = Private[i]
      OBVIOUS
    <3> HIDE DEF callers
    <3> QED BY <1>2, <1>5, <3>1, IsFront
  <2>2. Len(callers) = n - 1
    <3>1. \A i \in 1 .. n - 1 : callers[i] \in {Private[j] : j \in 1 .. n - 1}
      OBVIOUS
    <3>2. n - 1 \in Nat /\ DOMAIN callers = 1 .. n - 1 /\ callers = [i \in 1 .. n - 1 |-> callers[i]]
      BY <1>2
    <3> HIDE DEF callers
    <3> QED BY <3>1, <3>2, FunctionIsSequence
  <2> HIDE DEF callers
  <2> QED BY <1>1, <1>2, <2>1, <2>2
<1>18. Private' = [callers EXCEPT ![n - 1].regs[q] = Returned]
  <2> HIDE DEF regs, old, q, caller
  <2> DEFINE right == [callers EXCEPT ![n - 1].regs[q] = Returned]
  <2>1. DOMAIN right = 1 .. n - 1 /\ right = [i \in 1 .. n - 1 |-> right[i]]
    OBVIOUS
  <2>2. \A i \in 1 .. n - 1 : right[i] = Private'[i]
    <3> TAKE i \in 1 .. n - 1
    <3>1. CASE i = n - 1
      <4>1. right[n - 1] = [Private[n - 1] EXCEPT !.regs[q] = Returned]
        BY <1>9
      <4>2. [Private[n - 1] EXCEPT !.regs[q] = Returned]
              = [resume |-> caller.jump, result |-> caller.reg,
                 fn |-> caller.callee, regs |-> [old EXCEPT ![q] = Returned]]
        BY <1>15
      <4> HIDE DEF right
      <4> QED BY <1>14, <1>15, <3>1, <4>1, <4>2
    <3>2. CASE i # n - 1
      <4>1. i \in 1 .. n - 2
        BY <1>2, <3>2
      <4>2. right[i] = Private[i]
        BY <3>2
      <4> QED BY <1>13, <4>1, <4>2
    <3> QED BY <3>1, <3>2
  <2> HIDE DEF right
  <2>3. Private' = right
    BY <1>6, <2>1, <2>2
  <2> QED BY <2>3 DEF right
<1>19. Abstract!AtInstr /\ Abstract!Ins = Ins
  BY <1>1, SameInstruction
<1> HIDE DEF callers, q
<1> QED BY <1>1, <1>3, <1>16, <1>17, <1>18, <1>19 DEF Abstract!Return

LEMMA ReturnsOrStops ==
  ASSUME TidyInv, TidyInv', Stops
  PROVE  Abstract!Start \/ Abstract!Return \/ Abstract!Stop
<1>1. Core /\ Core' /\ Stack /\ Isolated
  BY DEF TidyInv
<1>2. UNCHANGED <<prog, globals>> /\ types' = types /\ payloads' = payloads
  BY DEF Stops, data
<1>3. frames' = frames => Private' = Private
  BY <1>2, PrivateIs
<1>4. CASE status = "loaded"
  <2>1. status' = "failed" /\ ip' = ip /\ panic_code' \in PushErrors /\ frames' = frames
    BY <1>4 DEF Stops, AtInstr
  <2>2. PushErrors = {PANIC_OOM}
    BY <1>1, <1>4, SizesAssumption DEF Stack, PushErrors, NewCap
  <2> QED BY <1>2, <1>3, <1>4, <2>1, <2>2 DEF Abstract!Start, Abstract!PANIC_OOM, PANIC_OOM
<1>5. CASE status = "running" /\ ip >= Len(prog.code)
  <2>1. ~AtInstr /\ frames' = frames
    BY <1>1, <1>5 DEF Stops, AtInstr, Core, TypeOK, Program
  <2>2. status' = "failed" /\ ip' = ip /\ panic_code' = PANIC_NO_HALT
    BY <1>5, <2>1 DEF Stops
  <2> QED BY <1>2, <1>3, <1>5, <2>1, <2>2, SameInstruction
          DEF Abstract!Stop, Abstract!PANIC_NO_HALT, PANIC_NO_HALT
<1>6. CASE AtInstr
  <2> DEFINE n == Len(frames)
  <2>1. status = "running" /\ ip' = ip + 1 /\ Excused(status', panic_code')
        /\ panic_code = NO_ERROR /\ status' \in {"ok", "failed", "trap", "wild"}
    BY <1>1, <1>6 DEF AtInstr, Stops, Core, Status, TypeOK, Program
  <2>2. /\ n \in Nat \ {0} /\ Base = frames[n].base /\ Ins.a \in Nat
        /\ Ins.op \in {"CALL", "STOREG", "RET"} => Ins.a < frames[n].regc
    BY <1>6, TidyOperands
  <2>3. /\ frames[n].base \in Nat /\ frames[n].regc \in Nat
        /\ frames[n].base + frames[n].regc + Byte <= MaxRegisters
    BY <1>1, <2>2, FrameFields, TidyWindows
  <2>4. ~Overruns
    BY <2>1, TidyWindows
  <2>5. status' # "wild"
    <3>1. ASSUME Ins.op = "CALL"
          PROVE  payloads[Base + Ins.a].as # "raw"
      <4> HIDE DEF n
      <4>1. Base + Ins.a \in Reg
        BY <2>2, <2>3, <3>1, SizesAssumption DEF Reg
      <4> QED BY <1>1, <4>1 DEF Isolated, RawFree
    <3> QED BY <2>1, <2>4, <3>1 DEF Excused
  <2>6. /\ Len(Private) = n /\ DOMAIN Private = 1 .. n /\ Private = [i \in 1 .. n |-> Private[i]]
        /\ \A i \in 1 .. n : Private[i] = Activation(types, payloads, frames[i])
    BY <1>1, PrivateFields
  <2>7. CASE Ins.op = "RET"
    <3>1. status' = "ok" /\ n = 1 /\ panic_code' = panic_code
      BY <2>1, <2>5, <2>7 DEF Excused
    <3>2. frames' = << >>
      BY <1>6, <2>7, <3>1 DEF Stops
    <3>3. Private' = << >>
      <4>1. DOMAIN Private' = 1 .. 0 /\ Private' = [i \in 1 .. 0 |-> Private'[i]]
        BY <1>1, <3>2, PrivateFieldsNext
      <4> QED BY <4>1
    <3>4. SubSeq(Private, 1, Len(Private) - 1) = << >>
      BY <2>6, <3>1
    <3> HIDE DEF n
    <3> QED BY <1>2, <1>6, <2>1, <2>7, <3>1, <3>3, <3>4, SameInstruction DEF Abstract!Return
  <2>8. CASE Ins.op # "RET"
    <3>1. frames' = frames
      BY <2>8 DEF Stops
    <3>2. /\ status' \in {"ok", "failed", "trap"}
          /\ status' = "ok" => Ins.op = "HALT"
          /\ Ins.op = "PANIC" => status' = "failed" /\ panic_code' = Ins.a
      BY <2>1, <2>5, <2>8 DEF Excused
    <3>3. Ins.op # "PANIC" => panic_code' # PANIC_REG_LIMIT
      BY <2>1, <2>4 DEF Excused, NO_ERROR, PANIC_REG_LIMIT
    <3>4. ASSUME Ins.op = "CALL", panic_code' = PANIC_STACK_OVERFLOW
          PROVE  Abstract!Calls("BYTECODE") /\ n = MaxFrames
      <4>1. /\ n >= NewCap
            /\ \E fn \in DOMAIN prog.funcs : Leads(fn, "BYTECODE")
        BY <2>1, <3>4 DEF Excused, NO_ERROR, PANIC_STACK_OVERFLOW
      <4>2. n <= framecap /\ framecap \in 0 .. MaxFrames
        BY <1>1 DEF Stack, Core, TypeOK
      <4>3. n = MaxFrames
        <5> HIDE DEF n
        <5> QED BY <2>2, <4>1, <4>2, SizesAssumption DEF NewCap
      <4>4. Abstract!Top.regs[Ins.a] = [type |-> types[Base + Ins.a], bits |-> payloads[Base + Ins.a]]
        <5> HIDE DEF n
        <5>1. Abstract!Top = Private[n] /\ Private[n] = Activation(types, payloads, frames[n])
          BY <2>2, <2>6 DEF Abstract!Top
        <5>2. Ins.a \in 0 .. frames[n].regc - 1
          BY <2>2, <2>3, <3>4
        <5>3. RegsIn(types, payloads, frames[n])[Ins.a]
              = [type |-> types[Base + Ins.a], bits |-> payloads[Base + Ins.a]]
          BY <2>2, <5>2 DEF RegsIn
        <5> QED BY <5>1, <5>3 DEF Activation
      <4>5. PICK fn \in DOMAIN prog.funcs : Leads(fn, "BYTECODE")
        BY <4>1
      <4>6. AtInstr
        BY <1>6
      <4> QED BY <4>3, <4>4, <4>5, <4>6, LeadsIsCalls
    <3> HIDE DEF n
    <3>5. Abstract!Stop
      BY <1>2, <1>3, <1>6, <2>1, <2>6, <2>8, <3>1, <3>2, <3>3, <3>4, SameInstruction
      DEF Abstract!Stop, Abstract!PANIC_REG_LIMIT, PANIC_REG_LIMIT,
          Abstract!PANIC_STACK_OVERFLOW, PANIC_STACK_OVERFLOW
    <3> QED BY <3>5
  <2> QED BY <2>7, <2>8
<1> QED BY <1>4, <1>5, <1>6 DEF Stops

LEMMA StepIsPrivate ==
  ASSUME TidyInv, TidyInv', [Next]_vars
  PROVE  [Abstract!Next]_(Abstract!vars)
<1>1. CASE UNCHANGED vars
  BY <1>1, PrivateIs DEF vars, data, stack, Abstract!vars
<1>2. CASE Starts
  BY <1>2, StartsIsStart DEF Abstract!Next
<1>3. CASE Works
  BY <1>3, WorksIsLocal DEF Abstract!Next
<1>4. CASE Calls
  BY <1>4, CallsIsCall DEF Abstract!Next
<1>5. CASE Returns
  BY <1>5, ReturnsIsReturn DEF Abstract!Next
<1>6. CASE Stops
  BY <1>6, ReturnsOrStops DEF Abstract!Next
<1> QED BY <1>1, <1>2, <1>3, <1>4, <1>5, <1>6, NextEffect DEF TidyInv

LEMMA TidyStep ==
  ASSUME TidyInv, [Next]_vars
  PROVE  TidyInv'
BY CoreStep, StackStep, RoomyStep, IsolatedStep DEF TidyInv

\* The windows of a tidy program are as good as registers of their own: whatever
\* is called, returned, moved or stopped, the machine with one register file does
\* what a machine with a register file per frame may do (vm_call, push_frame,
\* pop_frame, the RET case).
THEOREM FramesOwnTheirRegisters == Spec => FramesArePrivate
<1>1. Init => TidyInv
  BY CoreInit, StackInit, RoomyInit, IsolatedInit DEF TidyInv
<1>2. TidyInv /\ [Next]_vars => TidyInv'
  BY TidyStep
<1>3. TidyInv /\ TidyInv' /\ [Next]_vars => [Abstract!Next]_(Abstract!vars)
  BY StepIsPrivate
<1> QED BY <1>1, <1>2, <1>3, PrivateInit, PTL DEF Spec, FramesArePrivate, Abstract!Spec

=============================================================================

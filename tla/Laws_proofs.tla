---------------------------- MODULE Laws_proofs ----------------------------
(***************************************************************************)
(* The programs of Laws keep their laws in the machine, for words of any   *)
(* width.  What the machine shows of itself while such a program runs, the *)
(* instruction pointer and four registers, is followed as a trace: one     *)
(* that starts blank and in which each state follows from the one before.  *)
(* LEMMA StepFollows says that the machine adds to a trace, halts, or does *)
(* something Follows does not speak of; then any state may come next, that *)
(* is Lost too.  A law's program keeps its law because none of its traces  *)
(* ends in Lost: each of its instructions but the last is followed, by the *)
(* lemmas ending in `On' and `Past', PANIC is jumped over for what the law *)
(* (a theorem of Arith_proofs) says, and HALT is followed by nothing.      *)
(***************************************************************************)
EXTENDS Laws, StickVM_proofs, Arith_proofs

-----------------------------------------------------------------------------
(* Traces                                                                  *)

Cell(tag, n)     == [type |-> tag, val |-> n]
At(k, file)      == [ip |-> k, file |-> file]
File(p, q, r, s) ==
  [i \in 0 .. 3 |-> IF i = 0 THEN p ELSE IF i = 1 THEN q ELSE IF i = 2 THEN r ELSE s]

Nul   == Cell("NUL", 0)
Blank == At(0, File(Nul, Nul, Nul, Nul))
Lost  == At(-1, File(Nul, Nul, Nul, Nul))

Seen == At(ip, [i \in 0 .. 3 |-> Cell(types[i], payloads[i].val)])

\* t is s with the result of its instruction.
Writes(ins, s, t, cell) == t = At(s.ip + 1, [s.file EXCEPT ![ins.a] = cell])

\* There is an instruction, and its operands are small.
Small(code, s) ==
  /\ s.ip \in 0 .. Len(code) - 1
  /\ LET ins == code[s.ip + 1]
     IN ins.a \in 0 .. 3 /\ ins.b \in 0 .. 3 /\ ins.c \in 0 .. 3

\* What an instruction of the laws does to the first four registers.
Follows(code, consts, s, t) ==
  LET ins == code[s.ip + 1]
      f   == s.file
  IN Small(code, s) =>
       /\ ins.op # "HALT"
       /\ ins.op = "LOADC" /\ ins.b < Len(consts) =>
            Writes(ins, s, t, Cell(consts[ins.b + 1].type, consts[ins.b + 1].bits.val))
       /\ ins.op = "LOADI" => Writes(ins, s, t, Cell("I64", SignedI16(ins)))
       /\ ins.op = "COPY" => Writes(ins, s, t, f[ins.b])
       /\ \A tag \in NumType :
            /\ f[ins.b].type = tag /\ f[ins.c].type = tag
            /\ ~DivisionUndefined(ins.op, f[ins.b].val, f[ins.c].val)
            => /\ ins.op \in BinopOf(tag) =>
                    \E n \in DyadicResults(ins.op, tag, f[ins.b].val, f[ins.c].val) :
                      Writes(ins, s, t, Cell(tag, n))
               /\ ins.op \in CmpopOf(tag) =>
                    \E n \in DyadicResults(ins.op, tag, f[ins.b].val, f[ins.c].val) :
                      Writes(ins, s, t, Cell("BOOL", n))
       /\ \A tag \in NumType :
            ins.op \in UnopOf(tag) /\ f[ins.a].type = tag =>
              \E n \in UnopResults(ins.op, tag, f[ins.a].val) : Writes(ins, s, t, Cell(tag, n))
       /\ \A c \in Casts :
            ins.op = c.op /\ f[ins.b].type = c.from =>
              \E n \in CastResults(c.from, c.to, f[ins.b].val) : Writes(ins, s, t, Cell(c.to, n))
       /\ ins.op = "LNOT" /\ f[ins.a].type = "BOOL" =>
            Writes(ins, s, t, Cell("BOOL", IF f[ins.a].val = 0 THEN 1 ELSE 0))
       /\ ins.op = "JMPIF" /\ f[ins.a].type = "BOOL" /\ f[ins.a].val = 0 =>
            t = At(s.ip + 1, f)
       /\ /\ ins.op = "JMPIF" /\ f[ins.a].type = "BOOL" /\ f[ins.a].val # 0
          /\ s.ip + 1 + SignedI16(ins) \in 0 .. Len(code) - 1
          => t = At(s.ip + 1 + SignedI16(ins), f)

Trace(code, consts, g, m) ==
  /\ g[0] = Blank
  /\ \A k \in 0 .. m - 1 : Follows(code, consts, g[k], g[k + 1])

\* The machine is where a trace of its program ends, or past what a trace says.
Traced ==
  \/ status = "loaded" /\ Seen = Blank
  \/ status = "ok"
  \/ status = "failed" /\ panic_code = PANIC_OOM
  \/ /\ status = "running" /\ Len(frames) = 1
     /\ \E m \in Nat : \E g : Trace(prog.code, prog.consts, g, m) /\ g[m] = Seen
  \/ \E m \in Nat : \E g : Trace(prog.code, prog.consts, g, m) /\ g[m] = Lost

-----------------------------------------------------------------------------
(* The machine follows                                                     *)

LEMMA SeenAfter ==
  ASSUME Core, NEW r \in 0 .. 3, NEW tag, NEW bits, SetReg(r, tag, bits), Continue
  PROVE  Seen' = At(ip + 1, [Seen.file EXCEPT ![r] = Cell(tag, bits.val)])
<1>1. types \in [Reg -> Type] /\ payloads \in [Reg -> Held(Len(prog.funcs))] /\ 0 .. 3 \subseteq Reg
  BY OperandsAssumption, SizesAssumption DEF Core, TypeOK, Reg
<1>2. /\ types' = [types EXCEPT ![r] = tag] /\ payloads' = [payloads EXCEPT ![r] = bits]
      /\ ip' = ip + 1
  BY DEF SetReg, Continue, GoTo
<1>3. \A i \in 0 .. 3 : /\ types'[i] = IF i = r THEN tag ELSE types[i]
                        /\ payloads'[i] = IF i = r THEN bits ELSE payloads[i]
  BY <1>1, <1>2
<1>4. Seen' = At(ip', [i \in 0 .. 3 |-> Cell(types'[i], payloads'[i].val)])
  BY DEF Seen, At, Cell
<1>5. [i \in 0 .. 3 |-> Cell(types'[i], payloads'[i].val)]
        = [Seen.file EXCEPT ![r] = Cell(tag, bits.val)]
  BY <1>3 DEF Seen, At
<1> QED BY <1>2, <1>4, <1>5

\* Opcodes of different classes differ.
LEMMA ClassesApart ==
  ASSUME NEW tag \in NumType
  PROVE  /\ \A u \in NumType : /\ BinopOf(tag) \cap CmpopOf(u) = {}
                               /\ BinopOf(tag) \cap UnopOf(u) = {}
                               /\ CmpopOf(tag) \cap UnopOf(u) = {}
         /\ \A u \in NumType \ {tag} : /\ BinopOf(tag) \cap BinopOf(u) = {}
                                       /\ CmpopOf(tag) \cap CmpopOf(u) = {}
                                       /\ UnopOf(tag) \cap UnopOf(u) = {}
         /\ \A c \in Casts : c.op \notin BinopOf(tag) \cup CmpopOf(tag) \cup UnopOf(tag)
         /\ {"HALT", "LOADC", "LOADI", "COPY", "LNOT", "JMPIF"} \cap
              (BinopOf(tag) \cup CmpopOf(tag) \cup UnopOf(tag)) = {}
<1>1. \A u \in NumType : BinopOf(tag) \cap CmpopOf(u) = {}
  BY DEF NumType, BinopOf, CmpopOf
<1>2. \A u \in NumType : BinopOf(tag) \cap UnopOf(u) = {}
  BY DEF NumType, BinopOf, UnopOf
<1>3. \A u \in NumType : CmpopOf(tag) \cap UnopOf(u) = {}
  BY DEF NumType, UnopOf, CmpopOf
<1>4. \A u \in NumType \ {tag} : BinopOf(tag) \cap BinopOf(u) = {}
  BY DEF NumType, BinopOf
<1>5. \A u \in NumType \ {tag} : CmpopOf(tag) \cap CmpopOf(u) = {}
  BY DEF NumType, CmpopOf
<1>6. \A u \in NumType \ {tag} : UnopOf(tag) \cap UnopOf(u) = {}
  BY DEF NumType, UnopOf
<1>7. \A c \in Casts : c.op \notin BinopOf(tag) \cup CmpopOf(tag) \cup UnopOf(tag)
  BY DEF NumType, Casts, BinopOf, CmpopOf, UnopOf
<1>8. {"HALT", "LOADC", "LOADI", "COPY", "LNOT", "JMPIF"} \cap
        (BinopOf(tag) \cup CmpopOf(tag) \cup UnopOf(tag)) = {}
  BY DEF NumType, BinopOf, CmpopOf, UnopOf
<1> QED BY <1>1, <1>2, <1>3, <1>4, <1>5, <1>6, <1>7, <1>8

\* Follows, of the opcodes of one class.
LEMMA BinopFollows ==
  ASSUME NEW code, NEW consts, NEW s, NEW t, NEW tag \in NumType,
         NEW ins, code[s.ip + 1] = ins, ins.op \in BinopOf(tag)
  PROVE  Follows(code, consts, s, t) <=>
           ( /\ Small(code, s)
             /\ s.file[ins.b].type = tag /\ s.file[ins.c].type = tag
             /\ ~DivisionUndefined(ins.op, s.file[ins.b].val, s.file[ins.c].val)
             => \E n \in DyadicResults(ins.op, tag, s.file[ins.b].val, s.file[ins.c].val) :
                  Writes(ins, s, t, Cell(tag, n)) )
<1>1. /\ \A u \in NumType : ins.op \notin CmpopOf(u) /\ ins.op \notin UnopOf(u)
      /\ \A u \in NumType : ins.op \in BinopOf(u) => u = tag
      /\ \A c \in Casts : ins.op # c.op
      /\ ins.op \notin {"HALT", "LOADC", "LOADI", "COPY", "LNOT", "JMPIF"}
  BY ClassesApart
<1> QED BY <1>1 DEF Follows

LEMMA CmpopFollows ==
  ASSUME NEW code, NEW consts, NEW s, NEW t, NEW tag \in NumType,
         NEW ins, code[s.ip + 1] = ins, ins.op \in CmpopOf(tag)
  PROVE  Follows(code, consts, s, t) <=>
           ( /\ Small(code, s)
             /\ s.file[ins.b].type = tag /\ s.file[ins.c].type = tag
             /\ ~DivisionUndefined(ins.op, s.file[ins.b].val, s.file[ins.c].val)
             => \E n \in DyadicResults(ins.op, tag, s.file[ins.b].val, s.file[ins.c].val) :
                  Writes(ins, s, t, Cell("BOOL", n)) )
<1>1. /\ \A u \in NumType : ins.op \notin BinopOf(u) /\ ins.op \notin UnopOf(u)
      /\ \A u \in NumType : ins.op \in CmpopOf(u) => u = tag
      /\ \A c \in Casts : ins.op # c.op
      /\ ins.op \notin {"HALT", "LOADC", "LOADI", "COPY", "LNOT", "JMPIF"}
  BY ClassesApart
<1> QED BY <1>1 DEF Follows

LEMMA UnopFollows ==
  ASSUME NEW code, NEW consts, NEW s, NEW t, NEW tag \in NumType,
         NEW ins, code[s.ip + 1] = ins, ins.op \in UnopOf(tag)
  PROVE  Follows(code, consts, s, t) <=>
           ( Small(code, s) /\ s.file[ins.a].type = tag =>
               \E n \in UnopResults(ins.op, tag, s.file[ins.a].val) :
                 Writes(ins, s, t, Cell(tag, n)) )
<1>1. /\ \A u \in NumType : ins.op \notin BinopOf(u) /\ ins.op \notin CmpopOf(u)
      /\ \A u \in NumType : ins.op \in UnopOf(u) => u = tag
      /\ \A c \in Casts : ins.op # c.op
      /\ ins.op \notin {"HALT", "LOADC", "LOADI", "COPY", "LNOT", "JMPIF"}
  BY ClassesApart
<1> QED BY <1>1 DEF Follows

LEMMA CastFollows ==
  ASSUME NEW code, NEW consts, NEW s, NEW t, NEW c \in Casts,
         NEW ins, code[s.ip + 1] = ins, ins.op = c.op
  PROVE  Follows(code, consts, s, t) <=>
           ( Small(code, s) /\ s.file[ins.b].type = c.from =>
               \E n \in CastResults(c.from, c.to, s.file[ins.b].val) :
                 Writes(ins, s, t, Cell(c.to, n)) )
<1>1. /\ \A u \in NumType : ins.op \notin BinopOf(u) \cup CmpopOf(u) \cup UnopOf(u)
      /\ \A d \in Casts : ins.op = d.op => d = c
      /\ ins.op \notin {"HALT", "LOADC", "LOADI", "COPY", "LNOT", "JMPIF"}
  <2>1. /\ \A d \in Casts : ins.op = d.op => d = c
        /\ ins.op \notin {"HALT", "LOADC", "LOADI", "COPY", "LNOT", "JMPIF"}
    BY DEF Casts
  <2> QED BY <2>1, ClassesApart
<1> QED BY <1>1 DEF Follows

LEMMA OthersFollow ==
  ASSUME NEW code, NEW consts, NEW s, NEW t, NEW ins, code[s.ip + 1] = ins,
         /\ \A tag \in NumType : ins.op \notin BinopOf(tag) \cup CmpopOf(tag) \cup UnopOf(tag)
         /\ \A c \in Casts : ins.op # c.op
  PROVE  Follows(code, consts, s, t) <=>
           ( Small(code, s) =>
               /\ ins.op # "HALT"
               /\ ins.op = "LOADC" /\ ins.b < Len(consts) =>
                    Writes(ins, s, t, Cell(consts[ins.b + 1].type, consts[ins.b + 1].bits.val))
               /\ ins.op = "LOADI" => Writes(ins, s, t, Cell("I64", SignedI16(ins)))
               /\ ins.op = "COPY" => Writes(ins, s, t, s.file[ins.b])
               /\ ins.op = "LNOT" /\ s.file[ins.a].type = "BOOL" =>
                    Writes(ins, s, t, Cell("BOOL", IF s.file[ins.a].val = 0 THEN 1 ELSE 0))
               /\ ins.op = "JMPIF" /\ s.file[ins.a].type = "BOOL" /\ s.file[ins.a].val = 0 =>
                    t = At(s.ip + 1, s.file)
               /\ /\ ins.op = "JMPIF" /\ s.file[ins.a].type = "BOOL" /\ s.file[ins.a].val # 0
                  /\ s.ip + 1 + SignedI16(ins) \in 0 .. Len(code) - 1
                  => t = At(s.ip + 1 + SignedI16(ins), s.file) )
BY DEF Follows

LEMMA OthersApart ==
  ASSUME NEW op \in {"HALT", "LOADC", "LOADI", "COPY", "LNOT", "JMPIF"}
  PROVE  /\ \A tag \in NumType : op \notin BinopOf(tag) \cup CmpopOf(tag) \cup UnopOf(tag)
         /\ \A c \in Casts : op # c.op
<1>1. \A c \in Casts : op # c.op
  BY DEF Casts
<1> QED BY <1>1, ClassesApart

\* A step is followed, or nothing is said of it.
Followed ==
  /\ UNCHANGED <<prog, stack, panic_code, status>>
  /\ Follows(prog.code, prog.consts, Seen, Seen')
Unsaid == \A t : Follows(prog.code, prog.consts, Seen, t)

LEMMA SeenIs ==
  /\ Seen.ip = ip /\ prog.code[Seen.ip + 1] = Ins
  /\ \A i \in 0 .. 3 : Seen.file[i] = Cell(types[i], payloads[i].val)
  /\ \A i \in 0 .. 3 : Seen.file[i].type = types[i] /\ Seen.file[i].val = payloads[i].val
BY DEF Seen, At, Cell, Ins

LEMMA SmallIs ==
  ASSUME Small(prog.code, Seen), Base = 0
  PROVE  /\ Ins.a \in 0 .. 3 /\ Ins.b \in 0 .. 3 /\ Ins.c \in 0 .. 3
         /\ Base + Ins.a = Ins.a /\ Base + Ins.b = Ins.b /\ Base + Ins.c = Ins.c
         /\ Ins.a + 1 <= MaxRegisters
         /\ HighestOf({Ins.a, Ins.b}) + 1 <= MaxRegisters
         /\ HighestOf({Ins.a, Ins.b, Ins.c}) + 1 <= MaxRegisters
<1>1. Ins.a \in 0 .. 3 /\ Ins.b \in 0 .. 3 /\ Ins.c \in 0 .. 3
  BY SeenIs DEF Small
<1>2. \A x, y, z \in 0 .. 3 : HighestOf({x, y, z}) \in 0 .. 3
  BY HighestIsMember
<1>3. {Ins.a, Ins.b} = {Ins.a, Ins.b, Ins.b}
  OBVIOUS
<1>4. HighestOf({Ins.a, Ins.b}) \in 0 .. 3 /\ HighestOf({Ins.a, Ins.b, Ins.c}) \in 0 .. 3
  BY <1>1, <1>2, <1>3
<1>5. MaxRegisters \in Nat /\ MaxRegisters >= 4
  BY OperandsAssumption, SizesAssumption
<1> QED BY <1>1, <1>4, <1>5

LEMMA ComputeFollowed ==
  ASSUME Core, NEW r \in 0 .. 3, NEW tag, NEW results, Compute(r, tag, results), Ins.a = r
  PROVE  /\ UNCHANGED <<prog, stack, panic_code, status>>
         /\ \E n \in results : Writes(Ins, Seen, Seen', Cell(tag, n))
<1>1. PICK n \in results : SetReg(r, tag, Bits(tag, n)) /\ Continue /\ UNCHANGED stack
  BY DEF Compute
<1>2. Seen' = At(ip + 1, [Seen.file EXCEPT ![r] = Cell(tag, n)])
  <2>1. Bits(tag, n).val = n
    BY DEF Bits
  <2> QED BY <1>1, <2>1, SeenAfter
<1>3. Writes(Ins, Seen, Seen', Cell(tag, n))
  BY <1>2, SeenIs DEF Writes
<1> QED BY <1>1, <1>3 DEF Continue, GoTo

LEMMA DyadicFollowed ==
  ASSUME Core, Base = 0, NEW tag \in NumType, NEW opcodes, NEW result,
         \/ opcodes = BinopOf(tag) /\ result = tag
         \/ opcodes = CmpopOf(tag) /\ result = "BOOL",
         Dyadic(tag, opcodes, result)
  PROVE  Followed \/ Unsaid
<1> DEFINE l == payloads[Ins.b].val
           r == payloads[Ins.c].val
           Says == /\ Small(prog.code, Seen)
                   /\ types[Ins.b] = tag /\ types[Ins.c] = tag
                   /\ ~DivisionUndefined(Ins.op, l, r)
<1>1. Ins.op \in opcodes
  BY DEF Dyadic, Fetch
<1>2. ASSUME NEW t, ~Says \/ \E n \in DyadicResults(Ins.op, tag, l, r) :
                              Writes(Ins, Seen, t, Cell(result, n))
      PROVE  Follows(prog.code, prog.consts, Seen, t)
  <2>1. Small(prog.code, Seen) => Ins.b \in 0 .. 3 /\ Ins.c \in 0 .. 3
    BY SmallIs
  <2>2. Follows(prog.code, prog.consts, Seen, t) <=>
          ( /\ Small(prog.code, Seen)
            /\ Seen.file[Ins.b].type = tag /\ Seen.file[Ins.c].type = tag
            /\ ~DivisionUndefined(Ins.op, Seen.file[Ins.b].val, Seen.file[Ins.c].val)
            => \E n \in DyadicResults(Ins.op, tag, Seen.file[Ins.b].val, Seen.file[Ins.c].val) :
                 Writes(Ins, Seen, t, Cell(result, n)) )
    <3>1. prog.code[Seen.ip + 1] = Ins
      BY SeenIs
    <3>2. CASE opcodes = BinopOf(tag) /\ result = tag
      BY <1>1, <3>1, <3>2, BinopFollows
    <3>3. CASE opcodes = CmpopOf(tag) /\ result = "BOOL"
      BY <1>1, <3>1, <3>3, CmpopFollows
    <3> QED BY <3>2, <3>3
  <2> QED BY <1>2, <2>1, <2>2, SeenIs
<1>3. CASE ~Says
  BY <1>2, <1>3 DEF Unsaid
<1>4. CASE Says
  <2>1. /\ Ins.a \in 0 .. 3 /\ Ins.b \in 0 .. 3 /\ Ins.c \in 0 .. 3
        /\ Base + Ins.a = Ins.a /\ Base + Ins.b = Ins.b /\ Base + Ins.c = Ins.c
        /\ HighestOf({Ins.a, Ins.b, Ins.c}) + 1 <= MaxRegisters
    BY <1>4, SmallIs
  <2>2. Compute(Ins.a, result, DyadicResults(Ins.op, tag, l, r))
    BY <1>4, <2>1 DEF Dyadic, EnsureRegs, RequireType
  <2>3. /\ UNCHANGED <<prog, stack, panic_code, status>>
        /\ \E n \in DyadicResults(Ins.op, tag, l, r) : Writes(Ins, Seen, Seen', Cell(result, n))
    BY <2>1, <2>2, ComputeFollowed
  <2> QED BY <1>2, <2>3 DEF Followed
<1> QED BY <1>3, <1>4

LEMMA UnopFollowed ==
  ASSUME Core, Base = 0, Unop
  PROVE  Followed \/ Unsaid
<1>1. PICK tag \in NumType :
        /\ Ins.op \in UnopOf(tag)
        /\ EnsureRegs(Base + Ins.a + 1, RequireType({Base + Ins.a}, tag,
              Compute(Base + Ins.a, tag,
                      UnopResults(Ins.op, tag, payloads[Base + Ins.a].val))))
  BY DEF Unop, Fetch
<1> DEFINE l    == payloads[Ins.a].val
           Says == Small(prog.code, Seen) /\ types[Ins.a] = tag
<1>2. ASSUME NEW t, ~Says \/ \E n \in UnopResults(Ins.op, tag, l) :
                              Writes(Ins, Seen, t, Cell(tag, n))
      PROVE  Follows(prog.code, prog.consts, Seen, t)
  <2>1. Small(prog.code, Seen) => Ins.a \in 0 .. 3
    BY SmallIs
  <2> QED BY <1>1, <1>2, <2>1, SeenIs, UnopFollows
<1>3. CASE ~Says
  BY <1>2, <1>3 DEF Unsaid
<1>4. CASE Says
  <2>1. Ins.a \in 0 .. 3 /\ Base + Ins.a = Ins.a /\ Ins.a + 1 <= MaxRegisters
    BY <1>4, SmallIs
  <2>2. Compute(Ins.a, tag, UnopResults(Ins.op, tag, l))
    BY <1>1, <1>4, <2>1 DEF EnsureRegs, RequireType
  <2>3. /\ UNCHANGED <<prog, stack, panic_code, status>>
        /\ \E n \in UnopResults(Ins.op, tag, l) : Writes(Ins, Seen, Seen', Cell(tag, n))
    BY <2>1, <2>2, ComputeFollowed
  <2> QED BY <1>2, <2>3 DEF Followed
<1> QED BY <1>3, <1>4

LEMMA CastFollowed ==
  ASSUME Core, Base = 0, Cast
  PROVE  Followed \/ Unsaid
<1>1. PICK c \in Casts :
        /\ Ins.op = c.op
        /\ EnsureRegs(HighestOf({Base + Ins.a, Base + Ins.b}) + 1,
              RequireType({Base + Ins.b}, c.from,
                Compute(Base + Ins.a, c.to,
                        CastResults(c.from, c.to, payloads[Base + Ins.b].val))))
  BY DEF Cast, Fetch
<1> DEFINE l    == payloads[Ins.b].val
           Says == Small(prog.code, Seen) /\ types[Ins.b] = c.from
<1>2. ASSUME NEW t, ~Says \/ \E n \in CastResults(c.from, c.to, l) :
                              Writes(Ins, Seen, t, Cell(c.to, n))
      PROVE  Follows(prog.code, prog.consts, Seen, t)
  <2>1. Small(prog.code, Seen) => Ins.b \in 0 .. 3
    BY SmallIs
  <2>2. Follows(prog.code, prog.consts, Seen, t) <=>
          ( Small(prog.code, Seen) /\ Seen.file[Ins.b].type = c.from =>
              \E n \in CastResults(c.from, c.to, Seen.file[Ins.b].val) :
                Writes(Ins, Seen, t, Cell(c.to, n)) )
    BY <1>1, SeenIs, CastFollows
  <2> QED BY <1>2, <2>1, <2>2, SeenIs
<1>3. CASE ~Says
  BY <1>2, <1>3 DEF Unsaid
<1>4. CASE Says
  <2>1. /\ Ins.a \in 0 .. 3 /\ Base + Ins.a = Ins.a /\ Base + Ins.b = Ins.b
        /\ HighestOf({Ins.a, Ins.b}) + 1 <= MaxRegisters
    BY <1>4, SmallIs
  <2>2. Compute(Ins.a, c.to, CastResults(c.from, c.to, l))
    BY <1>1, <1>4, <2>1 DEF EnsureRegs, RequireType
  <2>3. /\ UNCHANGED <<prog, stack, panic_code, status>>
        /\ \E n \in CastResults(c.from, c.to, l) : Writes(Ins, Seen, Seen', Cell(c.to, n))
    BY <2>1, <2>2, ComputeFollowed
  <2> QED BY <1>2, <2>3 DEF Followed
<1> QED BY <1>3, <1>4

LEMMA LoadCFollowed ==
  ASSUME Core, Base = 0, LoadC
  PROVE  Followed \/ Unsaid
<1>1. Ins.op = "LOADC"
  BY DEF LoadC, LoadFrom, Fetch
<1> DEFINE const == prog.consts[Ins.b + 1]
           Says  == Small(prog.code, Seen) /\ Ins.b < Len(prog.consts)
<1>2. ASSUME NEW t, ~Says \/ Writes(Ins, Seen, t, Cell(const.type, const.bits.val))
      PROVE  Follows(prog.code, prog.consts, Seen, t)
  BY <1>1, <1>2, SeenIs, OthersApart, OthersFollow
<1>3. CASE ~Says
  BY <1>2, <1>3 DEF Unsaid
<1>4. CASE Says
  <2>1. Ins.a \in 0 .. 3 /\ Base + Ins.a = Ins.a /\ Ins.a + 1 <= MaxRegisters /\ Ins.b \in 0 .. 3
    BY <1>4, SmallIs
  <2>2. Len(prog.consts) \in Nat
    BY DEF Core, TypeOK, Program
  <2>3. SetReg(Ins.a, const.type, const.bits) /\ Continue /\ UNCHANGED stack
    BY <1>4, <2>1, <2>2 DEF LoadC, LoadFrom, EnsureRegs
  <2>4. Writes(Ins, Seen, Seen', Cell(const.type, const.bits.val))
    BY <2>1, <2>3, SeenAfter, SeenIs DEF Writes
  <2> QED BY <1>2, <2>3, <2>4 DEF Followed, Continue, GoTo
<1> QED BY <1>3, <1>4

LEMMA LoadIFollowed ==
  ASSUME Core, Base = 0, LoadI
  PROVE  Followed \/ Unsaid
<1>1. Ins.op = "LOADI"
  BY DEF LoadI, Fetch
<1>2. ASSUME NEW t, ~Small(prog.code, Seen) \/ Writes(Ins, Seen, t, Cell("I64", SignedI16(Ins)))
      PROVE  Follows(prog.code, prog.consts, Seen, t)
  BY <1>1, <1>2, SeenIs, OthersApart, OthersFollow
<1>3. CASE ~Small(prog.code, Seen)
  BY <1>2, <1>3 DEF Unsaid
<1>4. CASE Small(prog.code, Seen)
  <2>1. Ins.a \in 0 .. 3 /\ Base + Ins.a = Ins.a /\ Ins.a + 1 <= MaxRegisters
    BY <1>4, SmallIs
  <2>2. SetReg(Ins.a, "I64", Bits("I64", SignedI16(Ins))) /\ Continue /\ UNCHANGED stack
    BY <1>4, <2>1 DEF LoadI, EnsureRegs
  <2>3. Bits("I64", SignedI16(Ins)).val = SignedI16(Ins)
    BY DEF Bits
  <2>4. Writes(Ins, Seen, Seen', Cell("I64", SignedI16(Ins)))
    BY <2>1, <2>2, <2>3, SeenAfter, SeenIs DEF Writes
  <2> QED BY <1>2, <2>2, <2>4 DEF Followed, Continue, GoTo
<1> QED BY <1>3, <1>4

LEMMA CopyFollowed ==
  ASSUME Core, Base = 0, Copy
  PROVE  Followed \/ Unsaid
<1>1. Ins.op = "COPY"
  BY DEF Copy, Fetch
<1>2. ASSUME NEW t, ~Small(prog.code, Seen) \/ Writes(Ins, Seen, t, Seen.file[Ins.b])
      PROVE  Follows(prog.code, prog.consts, Seen, t)
  BY <1>1, <1>2, SeenIs, OthersApart, OthersFollow
<1>3. CASE ~Small(prog.code, Seen)
  BY <1>2, <1>3 DEF Unsaid
<1>4. CASE Small(prog.code, Seen)
  <2>1. /\ Ins.a \in 0 .. 3 /\ Ins.b \in 0 .. 3
        /\ Base + Ins.a = Ins.a /\ Base + Ins.b = Ins.b
        /\ HighestOf({Ins.a, Ins.b}) + 1 <= MaxRegisters
    BY <1>4, SmallIs
  <2>2. SetReg(Ins.a, types[Ins.b], payloads[Ins.b]) /\ Continue /\ UNCHANGED stack
    BY <1>4, <2>1 DEF Copy, EnsureRegs, Copied, SetReg
  <2>3. Writes(Ins, Seen, Seen', Seen.file[Ins.b])
    <3>1. Seen' = At(ip + 1, [Seen.file EXCEPT ![Ins.a] = Cell(types[Ins.b], payloads[Ins.b].val)])
      BY <2>1, <2>2, SeenAfter
    <3> QED BY <2>1, <3>1, SeenIs DEF Writes
  <2> QED BY <1>2, <2>2, <2>3 DEF Followed, Continue, GoTo
<1> QED BY <1>3, <1>4

LEMMA LnotFollowed ==
  ASSUME Core, Base = 0, Lnot
  PROVE  Followed \/ Unsaid
<1>1. Ins.op = "LNOT"
  BY DEF Lnot, Fetch
<1> DEFINE flip == IF payloads[Ins.a].val = 0 THEN 1 ELSE 0
           Says == Small(prog.code, Seen) /\ types[Ins.a] = "BOOL"
<1>2. ASSUME NEW t, ~Says \/ Writes(Ins, Seen, t, Cell("BOOL", flip))
      PROVE  Follows(prog.code, prog.consts, Seen, t)
  <2>1. Small(prog.code, Seen) => Ins.a \in 0 .. 3
    BY SeenIs DEF Small
  <2> QED BY <1>1, <1>2, <2>1, SeenIs, OthersApart, OthersFollow
<1>3. CASE ~Says
  BY <1>2, <1>3 DEF Unsaid
<1>4. CASE Says
  <2>1. Ins.a \in 0 .. 3 /\ Base + Ins.a = Ins.a /\ Ins.a + 1 <= MaxRegisters
    BY <1>4, SmallIs
  <2>2. Compute(Ins.a, "BOOL", {flip})
    BY <1>4, <2>1 DEF Lnot, EnsureRegs, RequireType, Compute
  <2>3. /\ UNCHANGED <<prog, stack, panic_code, status>>
        /\ Writes(Ins, Seen, Seen', Cell("BOOL", flip))
    BY <2>1, <2>2, ComputeFollowed
  <2> QED BY <1>2, <2>3 DEF Followed
<1> QED BY <1>3, <1>4

LEMMA JmpIfFollowed ==
  ASSUME Core, Base = 0, JmpIf
  PROVE  Followed \/ Unsaid
<1>1. Ins.op = "JMPIF"
  BY DEF JmpIf, JmpOn, Fetch
<1> DEFINE next == ip + 1 + SignedI16(Ins)
           Says == Small(prog.code, Seen) /\ types[Ins.a] = "BOOL"
<1>2. ASSUME NEW t,
             \/ ~Says
             \/ payloads[Ins.a].val = 0 /\ t = At(ip + 1, Seen.file)
             \/ payloads[Ins.a].val # 0 /\ next \notin 0 .. Len(prog.code) - 1
             \/ payloads[Ins.a].val # 0 /\ t = At(next, Seen.file)
      PROVE  Follows(prog.code, prog.consts, Seen, t)
  <2>1. CASE Small(prog.code, Seen)
    <3>1. /\ Ins.a \in 0 .. 3 /\ Seen.ip = ip /\ prog.code[Seen.ip + 1] = Ins
          /\ Seen.file[Ins.a].type = types[Ins.a] /\ Seen.file[Ins.a].val = payloads[Ins.a].val
      BY <2>1, SeenIs, SmallIs
    <3> QED BY <1>1, <1>2, <3>1, OthersApart, OthersFollow
  <2>2. CASE ~Small(prog.code, Seen)
    BY <2>2 DEF Follows
  <2> QED BY <2>1, <2>2
<1>3. CASE ~Says
  BY <1>2, <1>3 DEF Unsaid
<1>4. CASE Says
  <2>1. Ins.a \in 0 .. 3 /\ Base + Ins.a = Ins.a /\ Ins.a + 1 <= MaxRegisters
    BY <1>4, SmallIs
  <2>2. Falsy(types[Ins.a], payloads[Ins.a]) <=> payloads[Ins.a].val = 0
    BY <1>4 DEF Falsy, NumType
  <2>3. ASSUME UNCHANGED data, NEW k, ip' = k PROVE Seen' = At(k, Seen.file)
    BY <2>3 DEF data, Seen, At
  <2>4. CASE payloads[Ins.a].val = 0
    <3>1. Continue /\ UNCHANGED <<data, stack>>
      BY <2>1, <2>2, <2>4 DEF JmpIf, JmpOn, EnsureRegs
    <3> QED BY <1>2, <2>3, <2>4, <3>1 DEF Followed, Continue, GoTo
  <2>5. CASE payloads[Ins.a].val # 0
    <3>1. JumpRel(SignedI16(Ins))
      BY <2>1, <2>2, <2>5 DEF JmpIf, JmpOn, EnsureRegs
    <3>2. CASE next \in 0 .. Len(prog.code) - 1
      <4>1. GoTo(next) /\ UNCHANGED <<data, stack>>
        BY <3>1, <3>2 DEF JumpRel
      <4> QED BY <1>2, <2>3, <2>5, <4>1 DEF Followed, GoTo
    <3>3. CASE next \notin 0 .. Len(prog.code) - 1
      BY <1>2, <2>5, <3>3 DEF Unsaid
    <3> QED BY <3>2, <3>3
  <2> QED BY <2>4, <2>5
<1> QED BY <1>3, <1>4

\* Of an instruction outside the laws nothing is said.
LEMMA ForeignUnsaid ==
  ASSUME \A tag \in NumType : Ins.op \notin BinopOf(tag) \cup CmpopOf(tag) \cup UnopOf(tag),
         \A c \in Casts : Ins.op # c.op,
         Ins.op \notin {"HALT", "LOADC", "LOADI", "COPY", "LNOT", "JMPIF"}
  PROVE  Unsaid
<1>1. prog.code[Seen.ip + 1] = Ins
  BY SeenIs
<1> QED BY <1>1, OthersFollow DEF Unsaid

LEMMA SpecialUnsaid ==
  ASSUME Ins.op \in {"PANIC", "JMP", "JMPIFZ", "MOVE", "LOADG", "STOREG", "CALL", "RET"}
  PROVE  Unsaid
<1>1. /\ Ins.op \in Special
      /\ Ins.op \notin {"HALT", "LOADC", "LOADI", "COPY", "LNOT", "JMPIF"}
  BY DEF Special, Jumps
<1> QED BY <1>1, OpsApart, ForeignUnsaid

LEMMA StepFollows ==
  ASSUME Core, status = "running", Base = 0, Step
  PROVE  status' = "ok" \/ Followed \/ Unsaid
<1>1. CASE Start
  BY <1>1 DEF Start
<1>2. CASE Halt
  BY <1>2 DEF Halt, End
<1>3. CASE Panic \/ Jmp \/ JmpIfz \/ Move \/ LoadG \/ StoreG \/ Call \/ Ret
  <2>1. Ins.op \in {"PANIC", "JMP", "JMPIFZ", "MOVE", "LOADG", "STOREG", "CALL", "RET"}
    BY <1>3 DEF Panic, Jmp, JmpIfz, JmpOn, Move, LoadG, LoadFrom, StoreG, Call, Ret, Fetch
  <2> QED BY <2>1, SpecialUnsaid
<1>4. CASE InvalidOpcode
  <2>1. Ins.op \notin Implemented
    BY <1>4 DEF InvalidOpcode
  <2> QED BY <2>1, ForeignUnsaid DEF Implemented
<1>5. CASE NoHalt
  <2>1. Seen.ip \notin 0 .. Len(prog.code) - 1
    <3>1. ip \in Nat /\ Len(prog.code) \in Nat /\ ip >= Len(prog.code)
      BY <1>5 DEF NoHalt, Core, TypeOK, Program
    <3> QED BY <3>1, SeenIs
  <2> QED BY <2>1 DEF Unsaid, Follows, Small
<1>6. CASE Binop
  BY <1>6, DyadicFollowed DEF Binop
<1>7. CASE Cmpop
  BY <1>7, DyadicFollowed DEF Cmpop
<1> QED BY <1>1, <1>2, <1>3, <1>4, <1>5, <1>6, <1>7, JmpIfFollowed, CopyFollowed, LoadIFollowed,
           LoadCFollowed, UnopFollowed, CastFollowed, LnotFollowed DEF Step

LEMMA TraceGrows ==
  ASSUME NEW code, NEW consts, NEW m \in Nat, NEW g, Trace(code, consts, g, m),
         NEW t, Follows(code, consts, g[m], t)
  PROVE  \E n \in Nat : \E h : Trace(code, consts, h, n) /\ h[n] = t
<1> DEFINE h == [k \in 0 .. m + 1 |-> IF k = m + 1 THEN t ELSE g[k]]
<1>1. h[m + 1] = t /\ \A k \in 0 .. m : h[k] = g[k]
  OBVIOUS
<1>2. h[0] = Blank
  BY <1>1 DEF Trace
<1>3. ASSUME NEW k \in 0 .. m PROVE Follows(code, consts, h[k], h[k + 1])
  <2>1. CASE k = m
    BY <1>1, <2>1
  <2>2. CASE k \in 0 .. m - 1
    BY <1>1, <2>2 DEF Trace
  <2> QED BY <2>1, <2>2
<1> HIDE DEF h
<1>4. Trace(code, consts, h, m + 1)
  BY <1>2, <1>3 DEF Trace
<1> QED BY <1>1, <1>4

LEMMA TracedInit ==
  ASSUME Init
  PROVE  Traced
<1>1. Seen = Blank
  <2>1. 0 .. 3 \subseteq Reg
    BY OperandsAssumption, SizesAssumption DEF Reg
  <2>2. \A i \in 0 .. 3 : types[i] = "NUL" /\ payloads[i].val = 0
    BY <2>1 DEF Init, NulBits, Bits
  <2> QED BY <2>2 DEF Init, Seen, Blank, File, Nul, Cell
<1> QED BY <1>1 DEF Init, Traced

LEMMA TracedStep ==
  ASSUME Core, Stack, Traced, [Next]_vars
  PROVE  Traced'
<1>1. prog' = prog
  <2>1. Starts \/ Works \/ Calls \/ Returns \/ Stops => prog' = prog
    BY DEF Starts, Works, Calls, Returns, Stops
  <2> QED BY <2>1, NextEffect DEF vars
<1>2. CASE UNCHANGED vars
  <2>1. Seen' = Seen
    BY <1>2 DEF vars, data, Seen
  <2> QED BY <1>2, <2>1 DEF vars, stack, Traced
<1>3. CASE \E m \in Nat : \E g : Trace(prog.code, prog.consts, g, m) /\ g[m] = Lost
  BY <1>1, <1>3 DEF Traced
<1>4. CASE status = "loaded" /\ Seen = Blank /\ Step
  <2>1. Start
    BY <1>4 DEF Step, Start, Halt, Panic, Jmp, JmpIf, JmpIfz, JmpOn, InvalidOpcode, NoHalt,
         Copy, Move, LoadI, LoadC, LoadG, LoadFrom, StoreG, Call, Ret, Binop, Cmpop, Dyadic,
         Unop, Cast, Lnot, Fetch
  <2>2. CASE status' = "running" /\ PushFrame(EntryFrame)
    <3>1. Len(frames') = 1
      BY <1>4, <2>2, EntryFrameType DEF PushFrame, Stack, Core
    <3>2. Seen' = Blank
      BY <1>4, <2>1 DEF Start, data, Seen
    <3> DEFINE g == [k \in {0} |-> Blank]
    <3>3. g[0] = Blank /\ 0 .. 0 - 1 = {}
      OBVIOUS
    <3>4. Trace(prog.code, prog.consts, g, 0)
      BY <3>3 DEF Trace
    <3> HIDE DEF g
    <3>5. \E m \in Nat : \E h : Trace(prog'.code, prog'.consts, h, m) /\ h[m] = Seen'
      BY <1>1, <3>2, <3>3, <3>4
    <3> QED BY <2>2, <3>1, <3>5 DEF Traced
  <2>3. CASE status' = "failed" /\ panic_code' \in PushErrors
    <3>1. PushErrors = {PANIC_OOM}
      BY <1>4, SizesAssumption DEF Stack, PushErrors, NewCap
    <3> QED BY <2>3, <3>1 DEF Traced
  <2> QED BY <2>1, <2>2, <2>3 DEF Start
<1>5. CASE status \in {"ok", "failed"} /\ Step
  BY <1>5, StepEffect DEF Starts, Works, Calls, Returns, Stops, AtInstr
<1>6. CASE /\ status = "running" /\ Len(frames) = 1 /\ Step
           /\ \E m \in Nat : \E g : Trace(prog.code, prog.consts, g, m) /\ g[m] = Seen
  <2>1. Base = 0
    <3>1. Base = frames[Len(frames)].base /\ frames # << >>
      BY <1>6, TopFrame DEF Core, CurrentIsTop
    <3>2. frames[1] = EntryFrame
      BY <3>1 DEF Stack
    <3> QED BY <1>6, <3>1, <3>2 DEF EntryFrame
  <2>2. PICK m \in Nat : \E g : Trace(prog.code, prog.consts, g, m) /\ g[m] = Seen
    BY <1>6
  <2>3. PICK g : Trace(prog.code, prog.consts, g, m) /\ g[m] = Seen
    BY <2>2
  <2>4. CASE status' = "ok"
    BY <2>4 DEF Traced
  <2>5. CASE Followed
    <3>1. \E n \in Nat : \E h : Trace(prog.code, prog.consts, h, n) /\ h[n] = Seen'
      <4>1. PICK t : t = Seen'
        OBVIOUS
      <4>2. Follows(prog.code, prog.consts, g[m], t)
        BY <2>3, <2>5, <4>1 DEF Followed
      <4>3. \E n \in Nat : \E h : Trace(prog.code, prog.consts, h, n) /\ h[n] = t
        BY <2>3, <4>2, TraceGrows
      <4> QED BY <4>1, <4>3
    <3> QED BY <1>1, <1>6, <2>5, <3>1 DEF Followed, stack, Traced
  <2>6. CASE Unsaid
    <3>1. \E n \in Nat : \E h : Trace(prog.code, prog.consts, h, n) /\ h[n] = Lost
      <4>1. Follows(prog.code, prog.consts, g[m], Lost)
        BY <2>3, <2>6 DEF Unsaid
      <4> QED BY <2>3, <4>1, TraceGrows
    <3> QED BY <1>1, <3>1 DEF Traced
  <2> QED BY <1>6, <2>1, <2>4, <2>5, <2>6, StepFollows
<1> QED BY <1>2, <1>3, <1>4, <1>5, <1>6 DEF Traced, Next, Terminated

LEMMA TracedHolds == Spec => []Traced
<1>1. Core /\ Stack /\ Traced /\ [Next]_vars => Traced'
  BY TracedStep
<1> QED BY StackHolds, TracedInit, <1>1, PTL DEF Spec

-----------------------------------------------------------------------------
(* What the proofs of the laws name                                        *)

I64(n)  == Cell("I64", n)
U64(n)  == Cell("U64", n)
Bool(n) == Cell("BOOL", n)

LEMMA FileIs ==
  ASSUME NEW p, NEW q, NEW r, NEW s, NEW c
  PROVE  /\ File(p, q, r, s)[0] = p /\ File(p, q, r, s)[1] = q
         /\ File(p, q, r, s)[2] = r /\ File(p, q, r, s)[3] = s
         /\ [File(p, q, r, s) EXCEPT ![0] = c] = File(c, q, r, s)
         /\ [File(p, q, r, s) EXCEPT ![1] = c] = File(p, c, r, s)
         /\ [File(p, q, r, s) EXCEPT ![2] = c] = File(p, q, c, s)
         /\ [File(p, q, r, s) EXCEPT ![3] = c] = File(p, q, r, c)
<1>1. /\ File(p, q, r, s)[0] = p /\ File(p, q, r, s)[1] = q
      /\ File(p, q, r, s)[2] = r /\ File(p, q, r, s)[3] = s
  BY DEF File
<1> DEFINE old == File(p, q, r, s)
<1>2. ASSUME NEW k \in 0 .. 3, NEW new, new = [i \in 0 .. 3 |-> new[i]],
             \A i \in 0 .. 3 : new[i] = IF i = k THEN c ELSE old[i]
      PROVE  [old EXCEPT ![k] = c] = new
  <2>1. old = [i \in 0 .. 3 |-> old[i]]
    BY DEF File
  <2> HIDE DEF old
  <2> QED BY <1>2, <2>1
<1>3. /\ \A w, x, y, z : File(w, x, y, z) = [i \in 0 .. 3 |-> File(w, x, y, z)[i]]
      /\ \A i \in 0 .. 3 :
           /\ File(c, q, r, s)[i] = IF i = 0 THEN c ELSE old[i]
           /\ File(p, c, r, s)[i] = IF i = 1 THEN c ELSE old[i]
           /\ File(p, q, c, s)[i] = IF i = 2 THEN c ELSE old[i]
           /\ File(p, q, r, c)[i] = IF i = 3 THEN c ELSE old[i]
  BY DEF File
<1>4. 0 \in 0 .. 3 /\ 1 \in 0 .. 3 /\ 2 \in 0 .. 3 /\ 3 \in 0 .. 3
  OBVIOUS
<1> HIDE DEF old
<1>5. /\ [old EXCEPT ![0] = c] = File(c, q, r, s) /\ [old EXCEPT ![1] = c] = File(p, c, r, s)
      /\ [old EXCEPT ![2] = c] = File(p, q, c, s) /\ [old EXCEPT ![3] = c] = File(p, q, r, c)
  BY <1>2, <1>3, <1>4
<1> QED BY <1>1, <1>5 DEF old

LEMMA Opcodes ==
  /\ "ADD" \in BinopOf("I64") /\ "SUB" \in BinopOf("I64") /\ "MUL" \in BinopOf("I64")
  /\ "DIV" \in BinopOf("I64") /\ "MOD" \in BinopOf("I64") /\ "AND" \in BinopOf("I64")
  /\ "OR" \in BinopOf("I64") /\ "XOR" \in BinopOf("I64") /\ "SHR" \in BinopOf("I64")
  /\ "ADD_U" \in BinopOf("U64") /\ "SUB_U" \in BinopOf("U64") /\ "MUL_U" \in BinopOf("U64")
  /\ "SHL_U" \in BinopOf("U64")
  /\ "EQ" \in CmpopOf("I64") /\ "GT" \in CmpopOf("I64") /\ "GE" \in CmpopOf("I64")
  /\ "LT" \in CmpopOf("I64")
  /\ "EQ_U" \in CmpopOf("U64") /\ "GT_U" \in CmpopOf("U64")
  /\ "NEG" \in UnopOf("I64") /\ "BNOT" \in UnopOf("I64")
  /\ "NEG_U" \in UnopOf("U64")
  /\ [op |-> "I2U", from |-> "I64", to |-> "U64"] \in Casts
  /\ [op |-> "U2I", from |-> "U64", to |-> "I64"] \in Casts
BY DEF BinopOf, CmpopOf, UnopOf, Casts

-----------------------------------------------------------------------------
(* The way of a law's program                                              *)

\* A run [code, consts, g, m] whose trace ends lost, and comes past k with the file f.
Way(run, k, f) ==
  /\ run.m \in Nat /\ Trace(run.code, run.consts, run.g, run.m) /\ run.g[run.m] = Lost
  /\ k \in Nat /\ \E i \in 0 .. run.m : run.g[i] = At(k, f)

Has(run, k, ins) == k \in 0 .. Len(run.code) - 1 /\ run.code[k + 1] = ins
Const(run, b, value) == b < Len(run.consts) /\ run.consts[b + 1] = value
Put(f, a, cell)  == [f EXCEPT ![a] = cell]

\* The instruction ins takes s, where the trace is, to t, where it goes on.
Turns(run, k, f, ins, s, t) ==
  /\ s.ip = k /\ s.file = f /\ run.code[s.ip + 1] = ins /\ Small(run.code, s)
  /\ Follows(run.code, run.consts, s, t)
  /\ \A cell : Writes(ins, s, t, cell) => Way(run, k + 1, Put(f, ins.a, cell))
  /\ \A j \in Nat : t = At(j, f) => Way(run, j, f)

LEMMA WayOn ==
  ASSUME NEW run, NEW k, NEW f, Way(run, k, f),
         NEW op, NEW a \in 0 .. 3, NEW b \in 0 .. 3, NEW c \in 0 .. 3, Has(run, k, I(op, a, b, c))
  PROVE  /\ \E s, t : Turns(run, k, f, I(op, a, b, c), s, t)
         /\ I(op, a, b, c).op = op /\ I(op, a, b, c).a = a
         /\ I(op, a, b, c).b = b /\ I(op, a, b, c).c = c
<1> DEFINE ins == I(op, a, b, c)
           s   == At(k, f)
<1>1. PICK i \in 0 .. run.m : run.g[i] = s
  BY DEF Way
<1> DEFINE t == run.g[i + 1]
<1>2. s.ip = k /\ s.file = f /\ ins.op = op /\ ins.a = a /\ ins.b = b /\ ins.c = c
  BY DEF At, I
<1>3. run.code[k + 1] = ins /\ k \in 0 .. Len(run.code) - 1 /\ k + 1 \in Nat
  BY DEF Has, Way
<1>4. i # run.m
  BY <1>1 DEF Way, Lost, At
<1>5. run.m \in Nat /\ i \in 0 .. run.m - 1 /\ i + 1 \in 0 .. run.m
  BY <1>4 DEF Way
<1>6. Follows(run.code, run.consts, s, t)
  BY <1>1, <1>5 DEF Way, Trace
<1>7. \A j \in Nat : \A h : t = At(j, h) => Way(run, j, h)
  BY <1>5 DEF Way
<1>8. Small(run.code, s)
  <2> HIDE DEF s, ins
  <2> QED BY <1>2, <1>3 DEF Small
<1> HIDE DEF s, t, ins
<1>9. \A cell : Writes(ins, s, t, cell) => Way(run, k + 1, Put(f, ins.a, cell))
  BY <1>2, <1>3, <1>7 DEF Writes, Put
<1>10. Turns(run, k, f, ins, s, t)
  BY <1>2, <1>3, <1>6, <1>7, <1>8, <1>9 DEF Turns
<1> QED BY <1>2, <1>10 DEF ins

\* The next state of the way, instruction class by class.
LEMMA BinopOn ==
  ASSUME NEW run, NEW k, NEW f, Way(run, k, f),
         NEW tag \in IntType, NEW op \in BinopOf(tag),
         NEW a \in 0 .. 3, NEW b \in 0 .. 3, NEW c \in 0 .. 3, Has(run, k, I(op, a, b, c)),
         NEW l, NEW r, f[b] = Cell(tag, l), f[c] = Cell(tag, r), ~DivisionUndefined(op, l, r)
  PROVE  \E n \in IntegerResults(op, tag, l, r) : Way(run, k + 1, Put(f, a, Cell(tag, n)))
<1> DEFINE ins == I(op, a, b, c)
<1>1. /\ \E s, t : Turns(run, k, f, ins, s, t)
      /\ ins.op = op /\ ins.a = a /\ ins.b = b /\ ins.c = c
  BY WayOn
<1>2. /\ f[b].type = tag /\ f[b].val = l /\ f[c].type = tag /\ f[c].val = r
      /\ tag \in NumType
  BY DEF Cell, IntType, NumType
<1>3. DyadicResults(op, tag, l, r) = IntegerResults(op, tag, l, r)
  BY DEF DyadicResults, BinopResults
<1> HIDE DEF ins
<1>4. PICK s, t : Turns(run, k, f, ins, s, t)
  BY <1>1
<1>5. \E n \in DyadicResults(ins.op, tag, s.file[ins.b].val, s.file[ins.c].val) :
        Writes(ins, s, t, Cell(tag, n))
  BY <1>1, <1>2, <1>4, BinopFollows DEF Turns
<1> QED BY <1>1, <1>2, <1>3, <1>4, <1>5 DEF Turns

LEMMA CmpopOn ==
  ASSUME NEW run, NEW k, NEW f, Way(run, k, f),
         NEW tag \in IntType, NEW op \in CmpopOf(tag),
         NEW a \in 0 .. 3, NEW b \in 0 .. 3, NEW c \in 0 .. 3, Has(run, k, I(op, a, b, c)),
         NEW l, NEW r, f[b] = Cell(tag, l), f[c] = Cell(tag, r)
  PROVE  \E n \in CmpopResults(op, tag, l, r) : Way(run, k + 1, Put(f, a, Bool(n)))
<1> DEFINE ins == I(op, a, b, c)
<1>1. /\ \E s, t : Turns(run, k, f, ins, s, t)
      /\ ins.op = op /\ ins.a = a /\ ins.b = b /\ ins.c = c
  BY WayOn
<1>2. /\ f[b].type = tag /\ f[b].val = l /\ f[c].type = tag /\ f[c].val = r
      /\ tag \in NumType
  BY DEF Cell, IntType, NumType
<1>3. op \notin BinopOf(tag)
  BY <1>2, ClassesApart
<1>4. DyadicResults(op, tag, l, r) = CmpopResults(op, tag, l, r) /\ ~DivisionUndefined(op, l, r)
  BY <1>3 DEF DyadicResults, DivisionUndefined, IntType, CmpopOf
<1> HIDE DEF ins
<1>5. PICK s, t : Turns(run, k, f, ins, s, t)
  BY <1>1
<1>6. \E n \in DyadicResults(ins.op, tag, s.file[ins.b].val, s.file[ins.c].val) :
        Writes(ins, s, t, Cell("BOOL", n))
  BY <1>1, <1>2, <1>4, <1>5, CmpopFollows DEF Turns
<1> QED BY <1>1, <1>2, <1>4, <1>5, <1>6 DEF Turns, Bool

LEMMA UnopOn ==
  ASSUME NEW run, NEW k, NEW f, Way(run, k, f),
         NEW tag \in IntType, NEW op \in UnopOf(tag),
         NEW a \in 0 .. 3, Has(run, k, I(op, a, 0, 0)), NEW n, f[a] = Cell(tag, n)
  PROVE  \E m \in UnopResults(op, tag, n) : Way(run, k + 1, Put(f, a, Cell(tag, m)))
<1> DEFINE ins == I(op, a, 0, 0)
<1>1. (\E s, t : Turns(run, k, f, ins, s, t)) /\ ins.op = op /\ ins.a = a
  BY WayOn
<1>2. f[a].type = tag /\ f[a].val = n /\ tag \in NumType
  BY DEF Cell, IntType, NumType
<1> HIDE DEF ins
<1>3. PICK s, t : Turns(run, k, f, ins, s, t)
  BY <1>1
<1>4. \E m \in UnopResults(ins.op, tag, s.file[ins.a].val) : Writes(ins, s, t, Cell(tag, m))
  BY <1>1, <1>2, <1>3, UnopFollows DEF Turns
<1> QED BY <1>1, <1>2, <1>3, <1>4 DEF Turns

LEMMA CastOn ==
  ASSUME NEW run, NEW k, NEW f, Way(run, k, f),
         NEW op, NEW from, NEW to, [op |-> op, from |-> from, to |-> to] \in Casts,
         NEW a \in 0 .. 3, NEW b \in 0 .. 3, Has(run, k, I(op, a, b, 0)),
         NEW n, f[b] = Cell(from, n)
  PROVE  \E m \in CastResults(from, to, n) : Way(run, k + 1, Put(f, a, Cell(to, m)))
<1> DEFINE ins == I(op, a, b, 0)
           c   == [op |-> op, from |-> from, to |-> to]
<1>1. (\E s, t : Turns(run, k, f, ins, s, t)) /\ ins.op = op /\ ins.a = a /\ ins.b = b
  BY WayOn
<1>2. /\ f[b].type = from /\ f[b].val = n
      /\ c \in Casts /\ c.op = op /\ c.from = from /\ c.to = to
  BY DEF Cell
<1> HIDE DEF ins, c
<1>3. PICK s, t : Turns(run, k, f, ins, s, t)
  BY <1>1
<1>4. \E m \in CastResults(c.from, c.to, s.file[ins.b].val) : Writes(ins, s, t, Cell(c.to, m))
  BY <1>1, <1>2, <1>3, CastFollows DEF Turns
<1> QED BY <1>1, <1>2, <1>3, <1>4 DEF Turns

\* The immediate of the laws' programs, as the code decodes it.
LEMMA One ==
  ASSUME NEW op, NEW a
  PROVE  SignedI16(I(op, a, 0, 1)) = 1
<1>1. 2 * 1 < Byte * Byte
  <2>1. Byte \in Nat /\ Byte >= 4
    BY SizesAssumption, OperandsAssumption
  <2>2. Byte * Byte >= 4 * 4
    BY <2>1
  <2> QED BY <2>1, <2>2
<1>2. I(op, a, 0, 1).b * Byte + I(op, a, 0, 1).c = 1
  BY SizesAssumption DEF I
<1> QED BY <1>1, <1>2 DEF SignedI16, Signed

LEMMA OthersLead ==
  ASSUME NEW run, NEW k, NEW f, NEW ins, NEW s, NEW t, Turns(run, k, f, ins, s, t),
         ins.op \in {"HALT", "LOADC", "LOADI", "COPY", "LNOT", "JMPIF"}
  PROVE  /\ ins.op # "HALT"
         /\ ins.op = "LOADC" /\ ins.b < Len(run.consts) =>
              Writes(ins, s, t, Cell(run.consts[ins.b + 1].type, run.consts[ins.b + 1].bits.val))
         /\ ins.op = "LOADI" => Writes(ins, s, t, I64(SignedI16(ins)))
         /\ ins.op = "COPY" => Writes(ins, s, t, s.file[ins.b])
         /\ ins.op = "LNOT" /\ s.file[ins.a].type = "BOOL" =>
              Writes(ins, s, t, Bool(IF s.file[ins.a].val = 0 THEN 1 ELSE 0))
         /\ ins.op = "JMPIF" /\ s.file[ins.a].type = "BOOL" /\ s.file[ins.a].val = 0 =>
              t = At(s.ip + 1, s.file)
         /\ /\ ins.op = "JMPIF" /\ s.file[ins.a].type = "BOOL" /\ s.file[ins.a].val # 0
            /\ s.ip + 1 + SignedI16(ins) \in 0 .. Len(run.code) - 1
            => t = At(s.ip + 1 + SignedI16(ins), s.file)
BY OthersApart, OthersFollow DEF I64, Bool, Turns

LEMMA LoadCOn ==
  ASSUME NEW run, NEW k, NEW f, Way(run, k, f), NEW a \in 0 .. 3, NEW b \in 0 .. 3,
         Has(run, k, I("LOADC", a, b, 0)), NEW tag, NEW n, Const(run, b, Num(tag, n))
  PROVE  Way(run, k + 1, Put(f, a, Cell(tag, n)))
<1> DEFINE ins == I("LOADC", a, b, 0)
<1>1. (\E s, t : Turns(run, k, f, ins, s, t)) /\ ins.op = "LOADC" /\ ins.a = a /\ ins.b = b
  BY WayOn
<1>2. Cell(Num(tag, n).type, Num(tag, n).bits.val) = Cell(tag, n)
  BY DEF Num, Bits
<1> HIDE DEF ins
<1>3. PICK s, t : Turns(run, k, f, ins, s, t)
  BY <1>1
<1>4. Writes(ins, s, t, Cell(run.consts[b + 1].type, run.consts[b + 1].bits.val))
  BY <1>1, <1>3, OthersLead DEF Const
<1> QED BY <1>1, <1>2, <1>3, <1>4 DEF Turns, Const

LEMMA LoadIOn ==
  ASSUME NEW run, NEW k, NEW f, Way(run, k, f), NEW a \in 0 .. 3, Has(run, k, I("LOADI", a, 0, 1))
  PROVE  Way(run, k + 1, Put(f, a, I64(1)))
<1> DEFINE ins == I("LOADI", a, 0, 1)
<1>1. (\E s, t : Turns(run, k, f, ins, s, t)) /\ ins.op = "LOADI" /\ ins.a = a
  BY WayOn
<1>2. SignedI16(ins) = 1
  BY One
<1> HIDE DEF ins
<1>3. PICK s, t : Turns(run, k, f, ins, s, t)
  BY <1>1
<1>4. Writes(ins, s, t, I64(SignedI16(ins)))
  BY <1>1, <1>3, OthersLead
<1> QED BY <1>1, <1>2, <1>3, <1>4 DEF Turns

LEMMA CopyOn ==
  ASSUME NEW run, NEW k, NEW f, Way(run, k, f), NEW a \in 0 .. 3, NEW b \in 0 .. 3,
         Has(run, k, I("COPY", a, b, 0)), NEW cell, f[b] = cell
  PROVE  Way(run, k + 1, Put(f, a, cell))
<1> DEFINE ins == I("COPY", a, b, 0)
<1>1. (\E s, t : Turns(run, k, f, ins, s, t)) /\ ins.op = "COPY" /\ ins.a = a /\ ins.b = b
  BY WayOn
<1> HIDE DEF ins
<1>2. PICK s, t : Turns(run, k, f, ins, s, t)
  BY <1>1
<1>3. Writes(ins, s, t, s.file[ins.b])
  BY <1>1, <1>2, OthersLead
<1> QED BY <1>1, <1>2, <1>3 DEF Turns

LEMMA LnotOn ==
  ASSUME NEW run, NEW k, NEW f, Way(run, k, f), NEW a \in 0 .. 3,
         Has(run, k, I("LNOT", a, 0, 0)), NEW n, f[a] = Bool(n)
  PROVE  Way(run, k + 1, Put(f, a, Bool(IF n = 0 THEN 1 ELSE 0)))
<1> DEFINE ins == I("LNOT", a, 0, 0)
<1>1. (\E s, t : Turns(run, k, f, ins, s, t)) /\ ins.op = "LNOT" /\ ins.a = a
  BY WayOn
<1>2. f[a].type = "BOOL" /\ f[a].val = n
  BY DEF Bool, Cell
<1> HIDE DEF ins
<1>3. PICK s, t : Turns(run, k, f, ins, s, t)
  BY <1>1
<1>4. s.file[ins.a].type = "BOOL" /\ s.file[ins.a].val = n
  BY <1>1, <1>2, <1>3 DEF Turns
<1>5. Writes(ins, s, t, Bool(IF s.file[ins.a].val = 0 THEN 1 ELSE 0))
  BY <1>1, <1>3, <1>4, OthersLead
<1> QED BY <1>1, <1>3, <1>4, <1>5 DEF Turns

LEMMA FallOn ==
  ASSUME NEW run, NEW k, NEW f, Way(run, k, f), NEW a \in 0 .. 3,
         Has(run, k, I("JMPIF", a, 0, 1)), f[a] = Bool(0)
  PROVE  Way(run, k + 1, f)
<1> DEFINE ins == I("JMPIF", a, 0, 1)
<1>1. (\E s, t : Turns(run, k, f, ins, s, t)) /\ ins.op = "JMPIF" /\ ins.a = a
  BY WayOn
<1>2. f[a].type = "BOOL" /\ f[a].val = 0 /\ k + 1 \in Nat
  BY DEF Bool, Cell, Way
<1> HIDE DEF ins
<1>3. PICK s, t : Turns(run, k, f, ins, s, t)
  BY <1>1
<1>4. s.file[ins.a].type = "BOOL" /\ s.file[ins.a].val = 0
  BY <1>1, <1>2, <1>3 DEF Turns
<1>5. t = At(s.ip + 1, s.file)
  BY <1>1, <1>3, <1>4, OthersLead
<1> QED BY <1>2, <1>3, <1>5 DEF Turns

LEMMA JumpOn ==
  ASSUME NEW run, NEW k, NEW f, Way(run, k, f), NEW a \in 0 .. 3,
         Has(run, k, I("JMPIF", a, 0, 1)), NEW n, f[a] = Bool(n), n # 0, k + 2 < Len(run.code)
  PROVE  Way(run, k + 2, f)
<1> DEFINE ins == I("JMPIF", a, 0, 1)
<1>1. (\E s, t : Turns(run, k, f, ins, s, t)) /\ ins.op = "JMPIF" /\ ins.a = a
  BY WayOn
<1>2. f[a].type = "BOOL" /\ f[a].val # 0
  BY DEF Bool, Cell
<1>3. SignedI16(ins) = 1
  BY One
<1>4. k \in Nat /\ Len(run.code) \in Nat
  BY DEF Way
<1> HIDE DEF ins
<1>5. PICK s, t : Turns(run, k, f, ins, s, t)
  BY <1>1
<1>6. s.ip + 1 + SignedI16(ins) = k + 2 /\ k + 2 \in 0 .. Len(run.code) - 1 /\ k + 2 \in Nat
  BY <1>3, <1>4, <1>5 DEF Turns
<1>7. s.file[ins.a].type = "BOOL" /\ s.file[ins.a].val # 0
  BY <1>1, <1>2, <1>5 DEF Turns
<1>8. t = At(s.ip + 1 + SignedI16(ins), s.file)
  BY <1>1, <1>5, <1>6, <1>7, OthersLead
<1> QED BY <1>5, <1>6, <1>8 DEF Turns

LEMMA HaltsNot ==
  ASSUME NEW run, NEW k, NEW f, Way(run, k, f), Has(run, k, I("HALT", 0, 0, 0))
  PROVE  FALSE
<1> DEFINE ins == I("HALT", 0, 0, 0)
<1>1. (\E s, t : Turns(run, k, f, ins, s, t)) /\ ins.op = "HALT"
  BY WayOn
<1> HIDE DEF ins
<1> QED BY <1>1, OthersLead

\* The four registers of a file, read and written.
LEMMA FilePut ==
  ASSUME NEW p, NEW q, NEW r, NEW s
  PROVE  /\ File(p, q, r, s)[0] = p /\ File(p, q, r, s)[1] = q
         /\ File(p, q, r, s)[2] = r /\ File(p, q, r, s)[3] = s
         /\ \A c : /\ Put(File(p, q, r, s), 0, c) = File(c, q, r, s)
                   /\ Put(File(p, q, r, s), 1, c) = File(p, c, r, s)
                   /\ Put(File(p, q, r, s), 2, c) = File(p, q, c, s)
                   /\ Put(File(p, q, r, s), 3, c) = File(p, q, r, c)
BY FileIs DEF Put

\* The trace comes past the two constants.
LEMMA LoadedOn ==
  ASSUME NEW run, NEW x, NEW y, run.consts = << Num("I64", x), Num("I64", y) >>,
         run.m \in Nat, Trace(run.code, run.consts, run.g, run.m), run.g[run.m] = Lost,
         Has(run, 0, I("LOADC", 0, 0, 0)), Has(run, 1, I("LOADC", 1, 1, 0))
  PROVE  Way(run, 2, File(I64(x), I64(y), Nul, Nul))
<1>1. Const(run, 0, Num("I64", x)) /\ Const(run, 1, Num("I64", y))
  BY DEF Const
<1>2. Way(run, 0, File(Nul, Nul, Nul, Nul))
  BY DEF Way, Trace, Blank
<1>3. Way(run, 0 + 1, Put(File(Nul, Nul, Nul, Nul), 0, I64(x)))
  BY <1>1, <1>2, LoadCOn DEF I64
<1>4. Way(run, 1, File(I64(x), Nul, Nul, Nul))
  BY <1>3, FilePut
<1>5. Way(run, 1 + 1, Put(File(I64(x), Nul, Nul, Nul), 1, I64(y)))
  BY <1>1, <1>4, LoadCOn DEF I64
<1> QED BY <1>5, FilePut

-----------------------------------------------------------------------------
(* The same, with the four registers by name: what the laws' proofs cite   *)

Nth(p, q, r, s, i) == IF i = 0 THEN p ELSE IF i = 1 THEN q ELSE IF i = 2 THEN r ELSE s
Past(run, k, p, q, r, s) == Way(run, k, File(p, q, r, s))
PastPut(run, k, p, q, r, s, a, cell) ==
  Past(run, k, IF a = 0 THEN cell ELSE p, IF a = 1 THEN cell ELSE q,
               IF a = 2 THEN cell ELSE r, IF a = 3 THEN cell ELSE s)

LEMMA PastIs ==
  ASSUME NEW run, NEW k, NEW p, NEW q, NEW r, NEW s, NEW f, f = File(p, q, r, s)
  PROVE  /\ Past(run, k, p, q, r, s) <=> Way(run, k, f)
         /\ \A i \in 0 .. 3 : f[i] = Nth(p, q, r, s, i)
         /\ \A a \in 0 .. 3 : \A cell :
              Way(run, k, Put(f, a, cell)) => PastPut(run, k, p, q, r, s, a, cell)
<1>1. \A i \in 0 .. 3 : f[i] = Nth(p, q, r, s, i)
  BY DEF File, Nth
<1>2. ASSUME NEW a \in 0 .. 3, NEW cell
      PROVE Put(f, a, cell) = File(IF a = 0 THEN cell ELSE p, IF a = 1 THEN cell ELSE q,
                                   IF a = 2 THEN cell ELSE r, IF a = 3 THEN cell ELSE s)
  <2>1. CASE a = 0
    BY <2>1, FilePut
  <2>2. CASE a = 1
    BY <2>2, FilePut
  <2>3. CASE a = 2
    BY <2>3, FilePut
  <2>4. CASE a = 3
    BY <2>4, FilePut
  <2> QED BY <2>1, <2>2, <2>3, <2>4
<1> QED BY <1>1, <1>2 DEF Past, PastPut

LEMMA BinopPast ==
  ASSUME NEW run, NEW k, NEW p, NEW q, NEW r, NEW s, Past(run, k, p, q, r, s),
         NEW tag \in IntType, NEW op \in BinopOf(tag),
         NEW a \in 0 .. 3, NEW b \in 0 .. 3, NEW c \in 0 .. 3, Has(run, k, I(op, a, b, c)),
         NEW l, NEW m, Nth(p, q, r, s, b) = Cell(tag, l), Nth(p, q, r, s, c) = Cell(tag, m),
         ~DivisionUndefined(op, l, m)
  PROVE  \E n \in IntegerResults(op, tag, l, m) :
           PastPut(run, k + 1, p, q, r, s, a, Cell(tag, n))
<1>1. PICK f : f = File(p, q, r, s)
  OBVIOUS
<1>2. Way(run, k, f) /\ f[b] = Cell(tag, l) /\ f[c] = Cell(tag, m)
  BY <1>1, PastIs
<1>3. \E n \in IntegerResults(op, tag, l, m) : Way(run, k + 1, Put(f, a, Cell(tag, n)))
  BY <1>2, BinopOn
<1> QED BY <1>1, <1>3, PastIs

LEMMA CmpopPast ==
  ASSUME NEW run, NEW k, NEW p, NEW q, NEW r, NEW s, Past(run, k, p, q, r, s),
         NEW tag \in IntType, NEW op \in CmpopOf(tag),
         NEW a \in 0 .. 3, NEW b \in 0 .. 3, NEW c \in 0 .. 3, Has(run, k, I(op, a, b, c)),
         NEW l, NEW m, Nth(p, q, r, s, b) = Cell(tag, l), Nth(p, q, r, s, c) = Cell(tag, m)
  PROVE  \E n \in CmpopResults(op, tag, l, m) : PastPut(run, k + 1, p, q, r, s, a, Bool(n))
<1>1. PICK f : f = File(p, q, r, s)
  OBVIOUS
<1>2. Way(run, k, f) /\ f[b] = Cell(tag, l) /\ f[c] = Cell(tag, m)
  BY <1>1, PastIs
<1>3. \E n \in CmpopResults(op, tag, l, m) : Way(run, k + 1, Put(f, a, Bool(n)))
  BY <1>2, CmpopOn
<1> QED BY <1>1, <1>3, PastIs

LEMMA Compares ==
  ASSUME NEW tag \in IntType, NEW op, NEW l, NEW m, NEW n \in CmpopResults(op, tag, l, m)
  PROVE  n \in {0, 1} /\ (n = 1 <=> Holds(op, l, m))
BY DEF CmpopResults

LEMMA EqualPast ==
  ASSUME NEW run, NEW k, NEW p, NEW q, NEW r, NEW s, Past(run, k, p, q, r, s),
         NEW tag \in IntType, NEW op \in CmpopOf(tag) \cap {"EQ", "EQ_U"},
         NEW a \in 0 .. 3, NEW b \in 0 .. 3, NEW c \in 0 .. 3, Has(run, k, I(op, a, b, c)),
         NEW l, Nth(p, q, r, s, b) = Cell(tag, l), Nth(p, q, r, s, c) = Cell(tag, l)
  PROVE  PastPut(run, k + 1, p, q, r, s, a, Bool(1))
<1>1. PICK n \in CmpopResults(op, tag, l, l) : PastPut(run, k + 1, p, q, r, s, a, Bool(n))
  BY CmpopPast
<1>2. Holds(op, l, l)
  BY DEF Holds
<1> QED BY <1>1, <1>2, Compares

LEMMA UnopPast ==
  ASSUME NEW run, NEW k, NEW p, NEW q, NEW r, NEW s, Past(run, k, p, q, r, s),
         NEW tag \in IntType, NEW op \in UnopOf(tag),
         NEW a \in 0 .. 3, Has(run, k, I(op, a, 0, 0)), NEW l, Nth(p, q, r, s, a) = Cell(tag, l)
  PROVE  \E n \in UnopResults(op, tag, l) : PastPut(run, k + 1, p, q, r, s, a, Cell(tag, n))
<1>1. PICK f : f = File(p, q, r, s)
  OBVIOUS
<1>2. Way(run, k, f) /\ f[a] = Cell(tag, l)
  BY <1>1, PastIs
<1>3. \E n \in UnopResults(op, tag, l) : Way(run, k + 1, Put(f, a, Cell(tag, n)))
  BY <1>2, UnopOn
<1> QED BY <1>1, <1>3, PastIs

LEMMA CastPast ==
  ASSUME NEW run, NEW k, NEW p, NEW q, NEW r, NEW s, Past(run, k, p, q, r, s),
         NEW op, NEW from, NEW to, [op |-> op, from |-> from, to |-> to] \in Casts,
         NEW a \in 0 .. 3, Has(run, k, I(op, a, a, 0)), NEW l, Nth(p, q, r, s, a) = Cell(from, l)
  PROVE  \E n \in CastResults(from, to, l) : PastPut(run, k + 1, p, q, r, s, a, Cell(to, n))
<1>1. PICK f : f = File(p, q, r, s)
  OBVIOUS
<1>2. Way(run, k, f) /\ f[a] = Cell(from, l)
  BY <1>1, PastIs
<1>3. \E n \in CastResults(from, to, l) : Way(run, k + 1, Put(f, a, Cell(to, n)))
  BY <1>2, CastOn
<1> QED BY <1>1, <1>3, PastIs

LEMMA LoadIPast ==
  ASSUME NEW run, NEW k, NEW p, NEW q, NEW r, NEW s, Past(run, k, p, q, r, s),
         NEW a \in 0 .. 3, Has(run, k, I("LOADI", a, 0, 1))
  PROVE  PastPut(run, k + 1, p, q, r, s, a, I64(1))
<1>1. PICK f : f = File(p, q, r, s)
  OBVIOUS
<1> QED BY <1>1, PastIs, LoadIOn

LEMMA CopyPast ==
  ASSUME NEW run, NEW k, NEW p, NEW q, NEW r, NEW s, Past(run, k, p, q, r, s),
         NEW a \in 0 .. 3, NEW b \in 0 .. 3, Has(run, k, I("COPY", a, b, 0))
  PROVE  PastPut(run, k + 1, p, q, r, s, a, Nth(p, q, r, s, b))
<1>1. PICK f : f = File(p, q, r, s)
  OBVIOUS
<1>2. Way(run, k, f) /\ f[b] = Nth(p, q, r, s, b)
  BY <1>1, PastIs
<1>3. Way(run, k + 1, Put(f, a, Nth(p, q, r, s, b)))
  BY <1>2, CopyOn
<1> QED BY <1>1, <1>3, PastIs

LEMMA LnotPast ==
  ASSUME NEW run, NEW k, NEW p, NEW q, NEW r, NEW s, Past(run, k, p, q, r, s),
         NEW a \in 0 .. 3, Has(run, k, I("LNOT", a, 0, 0)), NEW n, Nth(p, q, r, s, a) = Bool(n)
  PROVE  PastPut(run, k + 1, p, q, r, s, a, Bool(IF n = 0 THEN 1 ELSE 0))
<1>1. PICK f : f = File(p, q, r, s)
  OBVIOUS
<1>2. Way(run, k, f) /\ f[a] = Bool(n)
  BY <1>1, PastIs
<1>3. Way(run, k + 1, Put(f, a, Bool(IF n = 0 THEN 1 ELSE 0)))
  BY <1>2, LnotOn
<1> QED BY <1>1, <1>3, PastIs

LEMMA FallPast ==
  ASSUME NEW run, NEW k, NEW p, NEW q, NEW r, NEW s, Past(run, k, p, q, r, s),
         NEW a \in 0 .. 3, Has(run, k, I("JMPIF", a, 0, 1)), Nth(p, q, r, s, a) = Bool(0)
  PROVE  Past(run, k + 1, p, q, r, s)
<1>1. PICK f : f = File(p, q, r, s)
  OBVIOUS
<1> QED BY <1>1, PastIs, FallOn

LEMMA JumpPast ==
  ASSUME NEW run, NEW k, NEW p, NEW q, NEW r, NEW s, Past(run, k, p, q, r, s),
         NEW a \in 0 .. 3, Has(run, k, I("JMPIF", a, 0, 1)), NEW n, n # 0,
         Nth(p, q, r, s, a) = Bool(n), NEW j, j = k + 2, NEW ins, Has(run, j, ins)
  PROVE  Past(run, j, p, q, r, s)
<1>1. PICK f : f = File(p, q, r, s)
  OBVIOUS
<1>2. Way(run, k, f) /\ f[a] = Bool(n)
  BY <1>1, PastIs
<1>3. k + 2 < Len(run.code)
  BY DEF Has
<1>4. Way(run, k + 2, f)
  BY <1>2, <1>3, JumpOn
<1> QED BY <1>1, <1>4, PastIs

LEMMA HaltPast ==
  ASSUME NEW run, NEW k, NEW p, NEW q, NEW r, NEW s, Past(run, k, p, q, r, s),
         NEW a \in 0 .. 3, Has(run, k, I("JMPIF", a, 0, 1)), NEW n, n # 0,
         Nth(p, q, r, s, a) = Bool(n), NEW j, j = k + 2, Has(run, j, I("HALT", 0, 0, 0))
  PROVE  FALSE
<1>1. Past(run, j, p, q, r, s)
  BY JumpPast
<1> QED BY <1>1, HaltsNot DEF Past

-----------------------------------------------------------------------------
(* Law by law                                                              *)

\* Opcodes that cannot divide by zero.
LEMMA NoDivision ==
  ASSUME NEW l, NEW r
  PROVE  /\ ~DivisionUndefined("ADD", l, r) /\ ~DivisionUndefined("SUB", l, r)
         /\ ~DivisionUndefined("MUL", l, r) /\ ~DivisionUndefined("AND", l, r)
         /\ ~DivisionUndefined("OR", l, r) /\ ~DivisionUndefined("XOR", l, r)
         /\ ~DivisionUndefined("SHR", l, r)
         /\ ~DivisionUndefined("ADD_U", l, r) /\ ~DivisionUndefined("SUB_U", l, r)
         /\ ~DivisionUndefined("MUL_U", l, r) /\ ~DivisionUndefined("SHL_U", l, r)
BY DEF DivisionUndefined

\* The run is one of the law's program on the operands p, and its trace ends lost.
Losing(run, law, p) ==
  /\ run.code = law.code /\ run.consts = << Num("I64", p[1]), Num("I64", p[2]) >>
  /\ run.m \in Nat /\ Trace(run.code, run.consts, run.g, run.m) /\ run.g[run.m] = Lost

LEMMA DivisionKept ==
  ASSUME NEW run, NEW p \in DivisionPrograms.on, Losing(run, DivisionPrograms, p)
  PROVE  FALSE
<1> DEFINE x == p[1]
           y == p[2]
<1>1. /\ Has(run, 0, I("LOADC", 0, 0, 0)) /\ Has(run, 1, I("LOADC", 1, 1, 0))
      /\ Has(run, 2, I("DIV", 2, 0, 1)) /\ Has(run, 3, I("MUL", 2, 2, 1))
      /\ Has(run, 4, I("MOD", 3, 0, 1)) /\ Has(run, 5, I("ADD", 2, 2, 3))
      /\ Has(run, 6, I("COPY", 3, 0, 0)) /\ Has(run, 7, I("EQ", 2, 2, 3))
      /\ Has(run, 8, I("JMPIF", 2, 0, 1)) /\ Has(run, 10, I("HALT", 0, 0, 0))
  BY DEF Losing, DivisionPrograms, Has
<1>2. /\ x \in DataOf("I64") /\ y \in DataOf("I64")
      /\ ~DivisionUndefined("DIV", x, y) /\ ~DivisionUndefined("MOD", x, y)
  BY DEF DivisionPrograms, Words, DivisionUndefined
<1> HIDE DEF x, y
<1>3. Past(run, 2, I64(x), I64(y), Nul, Nul)
  BY <1>1, LoadedOn DEF x, y, Past, Losing
<1> USE Opcodes, NoDivision DEF I64, U64, IntType, Nth, PastPut
<1>4. PICK q \in IntegerResults("DIV", "I64", x, y) :
        Past(run, 3, I64(x), I64(y), I64(q), Nul)
  BY <1>1, <1>2, <1>3, BinopPast
<1>5. PICK t \in IntegerResults("MUL", "I64", q, y) :
        Past(run, 4, I64(x), I64(y), I64(t), Nul)
  BY <1>1, <1>4, BinopPast
<1>6. PICK m \in IntegerResults("MOD", "I64", x, y) :
        Past(run, 5, I64(x), I64(y), I64(t), I64(m))
  BY <1>1, <1>2, <1>5, BinopPast
<1>7. PICK s \in IntegerResults("ADD", "I64", t, m) :
        Past(run, 6, I64(x), I64(y), I64(s), I64(m))
  BY <1>1, <1>6, BinopPast
<1>8. Past(run, 7, I64(x), I64(y), I64(s), I64(x))
  BY <1>1, <1>7, CopyPast
<1>9. s = x
  BY <1>2, DivisionLaw
<1>10. Past(run, 8, I64(x), I64(y), Bool(1), I64(x))
  BY <1>1, <1>8, <1>9, EqualPast
<1> QED BY <1>1, <1>10, HaltPast

LEMMA NegatedDivides ==
  ASSUME NEW x \in DataOf("I64"), x # -HalfWord, NEW n \in UnopResults("NEG", "I64", x),
         NEW y, y # 0
  PROVE  ~DivisionUndefined("DIV", n, y)
<1>1. HalfWord \in Nat /\ x \in -HalfWord .. HalfWord - 1 /\ -x \in DataOf("I64")
  BY HalfWordAssumption DEF DataOf
<1>2. n = -x
  BY <1>1, FitsAsItIs DEF UnopResults
<1> QED BY <1>1, <1>2 DEF DivisionUndefined

LEMMA NegationKept ==
  ASSUME NEW run, NEW p \in NegationPrograms.on, Losing(run, NegationPrograms, p)
  PROVE  FALSE
<1> DEFINE x == p[1]
           y == p[2]
<1>1. /\ Has(run, 0, I("LOADC", 0, 0, 0)) /\ Has(run, 1, I("LOADC", 1, 1, 0))
      /\ Has(run, 2, I("DIV", 2, 0, 1)) /\ Has(run, 3, I("NEG", 2, 0, 0))
      /\ Has(run, 4, I("NEG", 0, 0, 0)) /\ Has(run, 5, I("DIV", 3, 0, 1))
      /\ Has(run, 6, I("EQ", 2, 2, 3)) /\ Has(run, 7, I("JMPIF", 2, 0, 1))
      /\ Has(run, 9, I("HALT", 0, 0, 0))
  BY DEF Losing, NegationPrograms, Has
<1>2. /\ x \in DataOf("I64") /\ y \in DataOf("I64")
      /\ y # 0 /\ x # -HalfWord /\ ~DivisionUndefined("DIV", x, y)
  BY DEF NegationPrograms, Words, DivisionUndefined
<1> HIDE DEF x, y
<1>3. Past(run, 2, I64(x), I64(y), Nul, Nul)
  BY <1>1, LoadedOn DEF x, y, Past, Losing
<1> USE Opcodes, NoDivision DEF I64, U64, IntType, Nth, PastPut
<1>4. PICK q \in IntegerResults("DIV", "I64", x, y) :
        Past(run, 3, I64(x), I64(y), I64(q), Nul)
  BY <1>1, <1>2, <1>3, BinopPast
<1>5. PICK left \in UnopResults("NEG", "I64", q) :
        Past(run, 4, I64(x), I64(y), I64(left), Nul)
  BY <1>1, <1>4, UnopPast
<1>6. PICK n \in UnopResults("NEG", "I64", x) :
        Past(run, 5, I64(n), I64(y), I64(left), Nul)
  BY <1>1, <1>5, UnopPast
<1>7. ~DivisionUndefined("DIV", n, y)
  BY <1>2, NegatedDivides
<1>8. PICK right \in IntegerResults("DIV", "I64", n, y) :
        Past(run, 6, I64(n), I64(y), I64(left), I64(right))
  BY <1>1, <1>6, <1>7, BinopPast
<1>9. left = right
  BY <1>2, NegationLaw
<1>10. Past(run, 7, I64(n), I64(y), Bool(1), I64(right))
  BY <1>1, <1>8, <1>9, EqualPast
<1> QED BY <1>1, <1>10, HaltPast

LEMMA DeMorganKept ==
  ASSUME NEW run, NEW p \in DeMorganPrograms.on, Losing(run, DeMorganPrograms, p)
  PROVE  FALSE
<1> DEFINE x == p[1]
           y == p[2]
<1>1. /\ Has(run, 0, I("LOADC", 0, 0, 0)) /\ Has(run, 1, I("LOADC", 1, 1, 0))
      /\ Has(run, 2, I("AND", 2, 0, 1)) /\ Has(run, 3, I("BNOT", 2, 0, 0))
      /\ Has(run, 4, I("BNOT", 0, 0, 0)) /\ Has(run, 5, I("BNOT", 1, 0, 0))
      /\ Has(run, 6, I("OR", 3, 0, 1)) /\ Has(run, 7, I("EQ", 2, 2, 3))
      /\ Has(run, 8, I("JMPIF", 2, 0, 1)) /\ Has(run, 10, I("HALT", 0, 0, 0))
  BY DEF Losing, DeMorganPrograms, Has
<1>2. x \in DataOf("I64") /\ y \in DataOf("I64")
  BY DEF DeMorganPrograms, Words
<1> HIDE DEF x, y
<1>3. Past(run, 2, I64(x), I64(y), Nul, Nul)
  BY <1>1, LoadedOn DEF x, y, Past, Losing
<1> USE Opcodes, NoDivision DEF I64, U64, IntType, Nth, PastPut
<1>4. PICK a \in IntegerResults("AND", "I64", x, y) :
        Past(run, 3, I64(x), I64(y), I64(a), Nul)
  BY <1>1, <1>3, BinopPast
<1>5. PICK left \in UnopResults("BNOT", "I64", a) :
        Past(run, 4, I64(x), I64(y), I64(left), Nul)
  BY <1>1, <1>4, UnopPast
<1>6. PICK nx \in UnopResults("BNOT", "I64", x) :
        Past(run, 5, I64(nx), I64(y), I64(left), Nul)
  BY <1>1, <1>5, UnopPast
<1>7. PICK ny \in UnopResults("BNOT", "I64", y) :
        Past(run, 6, I64(nx), I64(ny), I64(left), Nul)
  BY <1>1, <1>6, UnopPast
<1>8. PICK right \in IntegerResults("OR", "I64", nx, ny) :
        Past(run, 7, I64(nx), I64(ny), I64(left), I64(right))
  BY <1>1, <1>7, BinopPast
<1>9. left = right
  BY <1>2, DeMorganLaw
<1>10. Past(run, 8, I64(nx), I64(ny), Bool(1), I64(right))
  BY <1>1, <1>8, <1>9, EqualPast
<1> QED BY <1>1, <1>10, HaltPast

LEMMA ExclusiveOrKept ==
  ASSUME NEW run, NEW p \in ExclusiveOrPrograms.on, Losing(run, ExclusiveOrPrograms, p)
  PROVE  FALSE
<1> DEFINE x == p[1]
           y == p[2]
<1>1. /\ Has(run, 0, I("LOADC", 0, 0, 0)) /\ Has(run, 1, I("LOADC", 1, 1, 0))
      /\ Has(run, 2, I("OR", 2, 0, 1)) /\ Has(run, 3, I("AND", 3, 0, 1))
      /\ Has(run, 4, I("SUB", 2, 2, 3)) /\ Has(run, 5, I("XOR", 3, 0, 1))
      /\ Has(run, 6, I("EQ", 2, 2, 3)) /\ Has(run, 7, I("JMPIF", 2, 0, 1))
      /\ Has(run, 9, I("HALT", 0, 0, 0))
  BY DEF Losing, ExclusiveOrPrograms, Has
<1>2. x \in DataOf("I64") /\ y \in DataOf("I64")
  BY DEF ExclusiveOrPrograms, Words
<1> HIDE DEF x, y
<1>3. Past(run, 2, I64(x), I64(y), Nul, Nul)
  BY <1>1, LoadedOn DEF x, y, Past, Losing
<1> USE Opcodes, NoDivision DEF I64, U64, IntType, Nth, PastPut
<1>4. PICK o \in IntegerResults("OR", "I64", x, y) :
        Past(run, 3, I64(x), I64(y), I64(o), Nul)
  BY <1>1, <1>3, BinopPast
<1>5. PICK a \in IntegerResults("AND", "I64", x, y) :
        Past(run, 4, I64(x), I64(y), I64(o), I64(a))
  BY <1>1, <1>4, BinopPast
<1>6. PICK left \in IntegerResults("SUB", "I64", o, a) :
        Past(run, 5, I64(x), I64(y), I64(left), I64(a))
  BY <1>1, <1>5, BinopPast
<1>7. PICK right \in IntegerResults("XOR", "I64", x, y) :
        Past(run, 6, I64(x), I64(y), I64(left), I64(right))
  BY <1>1, <1>6, BinopPast
<1>8. left = right
  BY <1>2, ExclusiveOrLaw
<1>9. Past(run, 7, I64(x), I64(y), Bool(1), I64(right))
  BY <1>1, <1>7, <1>8, EqualPast
<1> QED BY <1>1, <1>9, HaltPast

LEMMA CastKept ==
  ASSUME NEW run, NEW p \in CastPrograms.on, Losing(run, CastPrograms, p)
  PROVE  FALSE
<1> DEFINE x == p[1]
           y == p[2]
<1>1. /\ Has(run, 0, I("LOADC", 0, 0, 0)) /\ Has(run, 1, I("LOADC", 1, 1, 0))
      /\ Has(run, 2, I("SUB", 2, 0, 1)) /\ Has(run, 3, I("I2U", 0, 0, 0))
      /\ Has(run, 4, I("I2U", 1, 1, 0)) /\ Has(run, 5, I("SUB_U", 3, 0, 1))
      /\ Has(run, 6, I("U2I", 3, 3, 0)) /\ Has(run, 7, I("EQ", 2, 2, 3))
      /\ Has(run, 8, I("JMPIF", 2, 0, 1)) /\ Has(run, 10, I("HALT", 0, 0, 0))
  BY DEF Losing, CastPrograms, Has
<1>2. x \in DataOf("I64") /\ y \in DataOf("I64") /\ x - y \in DataOf("I64")
  BY DEF CastPrograms, Words
<1> HIDE DEF x, y
<1>3. Past(run, 2, I64(x), I64(y), Nul, Nul)
  BY <1>1, LoadedOn DEF x, y, Past, Losing
<1> USE Opcodes, NoDivision DEF I64, U64, IntType, Nth, PastPut
<1>4. PICK left \in IntegerResults("SUB", "I64", x, y) :
        Past(run, 3, I64(x), I64(y), I64(left), Nul)
  BY <1>1, <1>3, BinopPast
<1>5. PICK ux \in CastResults("I64", "U64", x) :
        Past(run, 4, U64(ux), I64(y), I64(left), Nul)
  BY <1>1, <1>4, CastPast
<1>6. PICK uy \in CastResults("I64", "U64", y) :
        Past(run, 5, U64(ux), U64(uy), I64(left), Nul)
  BY <1>1, <1>5, CastPast
<1>7. PICK ud \in IntegerResults("SUB_U", "U64", ux, uy) :
        Past(run, 6, U64(ux), U64(uy), I64(left), U64(ud))
  BY <1>1, <1>6, BinopPast
<1>8. PICK right \in CastResults("U64", "I64", ud) :
        Past(run, 7, U64(ux), U64(uy), I64(left), I64(right))
  BY <1>1, <1>7, CastPast
<1>9. left = right
  BY <1>2, CastLaw
<1>10. Past(run, 8, U64(ux), U64(uy), Bool(1), I64(right))
  BY <1>1, <1>8, <1>9, EqualPast
<1> QED BY <1>1, <1>10, HaltPast

LEMMA SubtractionKept ==
  ASSUME NEW run, NEW p \in SubtractionPrograms.on, Losing(run, SubtractionPrograms, p)
  PROVE  FALSE
<1> DEFINE x == p[1]
           y == p[2]
<1>1. /\ Has(run, 0, I("LOADC", 0, 0, 0)) /\ Has(run, 1, I("LOADC", 1, 1, 0))
      /\ Has(run, 2, I("I2U", 0, 0, 0)) /\ Has(run, 3, I("I2U", 1, 1, 0))
      /\ Has(run, 4, I("SUB_U", 2, 0, 1)) /\ Has(run, 5, I("NEG_U", 1, 0, 0))
      /\ Has(run, 6, I("ADD_U", 3, 0, 1)) /\ Has(run, 7, I("EQ_U", 2, 2, 3))
      /\ Has(run, 8, I("JMPIF", 2, 0, 1)) /\ Has(run, 10, I("HALT", 0, 0, 0))
  BY DEF Losing, SubtractionPrograms, Has
<1>2. x \in DataOf("I64") /\ y \in DataOf("I64")
  BY DEF SubtractionPrograms, Words
<1> HIDE DEF x, y
<1>3. Past(run, 2, I64(x), I64(y), Nul, Nul)
  BY <1>1, LoadedOn DEF x, y, Past, Losing
<1> USE Opcodes, NoDivision DEF I64, U64, IntType, Nth, PastPut
<1>4. PICK ux \in CastResults("I64", "U64", x) :
        Past(run, 3, U64(ux), I64(y), Nul, Nul)
  BY <1>1, <1>3, CastPast
<1>5. PICK uy \in CastResults("I64", "U64", y) :
        Past(run, 4, U64(ux), U64(uy), Nul, Nul)
  BY <1>1, <1>4, CastPast
<1>6. PICK left \in IntegerResults("SUB_U", "U64", ux, uy) :
        Past(run, 5, U64(ux), U64(uy), U64(left), Nul)
  BY <1>1, <1>5, BinopPast
<1>7. PICK n \in UnopResults("NEG_U", "U64", uy) :
        Past(run, 6, U64(ux), U64(n), U64(left), Nul)
  BY <1>1, <1>6, UnopPast
<1>8. PICK right \in IntegerResults("ADD_U", "U64", ux, n) :
        Past(run, 7, U64(ux), U64(n), U64(left), U64(right))
  BY <1>1, <1>7, BinopPast
<1>9. ux \in DataOf("U64") /\ uy \in DataOf("U64")
  BY DEF CastResults, Wrapped
<1>10. left = right
  BY <1>9, SubtractionLaw
<1>11. Past(run, 8, U64(ux), U64(n), Bool(1), U64(right))
  BY <1>1, <1>8, <1>10, EqualPast
<1> QED BY <1>1, <1>11, HaltPast

LEMMA ShiftLeftKept ==
  ASSUME NEW run, NEW p \in ShiftLeftPrograms.on, Losing(run, ShiftLeftPrograms, p)
  PROVE  FALSE
<1> DEFINE x == p[1]
           y == p[2]
<1>1. /\ Has(run, 0, I("LOADC", 0, 0, 0)) /\ Has(run, 1, I("LOADC", 1, 1, 0))
      /\ Has(run, 2, I("LOADI", 2, 0, 1)) /\ Has(run, 3, I("I2U", 0, 0, 0))
      /\ Has(run, 4, I("I2U", 1, 1, 0)) /\ Has(run, 5, I("I2U", 2, 2, 0))
      /\ Has(run, 6, I("SHL_U", 2, 2, 1)) /\ Has(run, 7, I("MUL_U", 2, 0, 2))
      /\ Has(run, 8, I("SHL_U", 3, 0, 1)) /\ Has(run, 9, I("EQ_U", 2, 2, 3))
      /\ Has(run, 10, I("JMPIF", 2, 0, 1)) /\ Has(run, 12, I("HALT", 0, 0, 0))
  BY DEF Losing, ShiftLeftPrograms, Has
<1>2. x \in DataOf("I64") /\ y \in DataOf("I64") /\ y \in 0 .. Width - 1
  BY DEF ShiftLeftPrograms, Words, CountInWord
<1> HIDE DEF x, y
<1>3. Past(run, 2, I64(x), I64(y), Nul, Nul)
  BY <1>1, LoadedOn DEF x, y, Past, Losing
<1> USE Opcodes, NoDivision DEF I64, U64, IntType, Nth, PastPut
<1>4. Past(run, 3, I64(x), I64(y), I64(1), Nul)
  BY <1>1, <1>3, LoadIPast
<1>5. PICK ux \in CastResults("I64", "U64", x) :
        Past(run, 4, U64(ux), I64(y), I64(1), Nul)
  BY <1>1, <1>4, CastPast
<1>6. PICK uy \in CastResults("I64", "U64", y) :
        Past(run, 5, U64(ux), U64(uy), I64(1), Nul)
  BY <1>1, <1>5, CastPast
<1>7. PICK one \in CastResults("I64", "U64", 1) :
        Past(run, 6, U64(ux), U64(uy), U64(one), Nul)
  BY <1>1, <1>6, CastPast
<1>8. PICK power \in IntegerResults("SHL_U", "U64", one, uy) :
        Past(run, 7, U64(ux), U64(uy), U64(power), Nul)
  BY <1>1, <1>7, BinopPast
<1>9. PICK left \in IntegerResults("MUL_U", "U64", ux, power) :
        Past(run, 8, U64(ux), U64(uy), U64(left), Nul)
  BY <1>1, <1>8, BinopPast
<1>10. PICK right \in IntegerResults("SHL_U", "U64", ux, uy) :
        Past(run, 9, U64(ux), U64(uy), U64(left), U64(right))
  BY <1>1, <1>9, BinopPast
<1>11. left = right
  <2>1. \A u, v, o, h, l, r :
          /\ u \in CastResults("I64", "U64", x) /\ v \in CastResults("I64", "U64", y)
          /\ o \in CastResults("I64", "U64", 1) /\ h \in IntegerResults("SHL_U", "U64", o, v)
          /\ l \in IntegerResults("MUL_U", "U64", u, h)
          /\ r \in IntegerResults("SHL_U", "U64", u, v)
          => l = r
    BY ONLY <1>2, ShiftLeftLaw
  <2>2. /\ ux \in CastResults("I64", "U64", x) /\ uy \in CastResults("I64", "U64", y)
        /\ one \in CastResults("I64", "U64", 1)
        /\ power \in IntegerResults("SHL_U", "U64", one, uy)
        /\ left \in IntegerResults("MUL_U", "U64", ux, power)
        /\ right \in IntegerResults("SHL_U", "U64", ux, uy)
    OBVIOUS
  <2> QED BY ONLY <2>1, <2>2
<1>12. Past(run, 10, U64(ux), U64(uy), Bool(1), U64(right))
  BY <1>1, <1>10, <1>11, EqualPast
<1> QED BY <1>1, <1>12, HaltPast

LEMMA ShiftRightKept ==
  ASSUME NEW run, NEW p \in ShiftRightPrograms.on, Losing(run, ShiftRightPrograms, p)
  PROVE  FALSE
<1> DEFINE x == p[1]
           y == p[2]
<1>1. /\ Has(run, 0, I("LOADC", 0, 0, 0)) /\ Has(run, 1, I("LOADC", 1, 1, 0))
      /\ Has(run, 2, I("SHR", 2, 0, 1)) /\ Has(run, 3, I("BNOT", 2, 0, 0))
      /\ Has(run, 4, I("BNOT", 0, 0, 0)) /\ Has(run, 5, I("SHR", 3, 0, 1))
      /\ Has(run, 6, I("EQ", 2, 2, 3)) /\ Has(run, 7, I("JMPIF", 2, 0, 1))
      /\ Has(run, 9, I("HALT", 0, 0, 0))
  BY DEF Losing, ShiftRightPrograms, Has
<1>2. x \in DataOf("I64") /\ y \in DataOf("I64") /\ y \in 0 .. Width - 1
  BY DEF ShiftRightPrograms, Words, CountInWord
<1> HIDE DEF x, y
<1>3. Past(run, 2, I64(x), I64(y), Nul, Nul)
  BY <1>1, LoadedOn DEF x, y, Past, Losing
<1> USE Opcodes, NoDivision DEF I64, U64, IntType, Nth, PastPut
<1>4. PICK s \in IntegerResults("SHR", "I64", x, y) :
        Past(run, 3, I64(x), I64(y), I64(s), Nul)
  BY <1>1, <1>3, BinopPast
<1>5. PICK left \in UnopResults("BNOT", "I64", s) :
        Past(run, 4, I64(x), I64(y), I64(left), Nul)
  BY <1>1, <1>4, UnopPast
<1>6. PICK nx \in UnopResults("BNOT", "I64", x) :
        Past(run, 5, I64(nx), I64(y), I64(left), Nul)
  BY <1>1, <1>5, UnopPast
<1>7. PICK right \in IntegerResults("SHR", "I64", nx, y) :
        Past(run, 6, I64(nx), I64(y), I64(left), I64(right))
  BY <1>1, <1>6, BinopPast
<1>8. left = right
  BY <1>2, ShiftRightLaw
<1>9. Past(run, 7, I64(nx), I64(y), Bool(1), I64(right))
  BY <1>1, <1>7, <1>8, EqualPast
<1> QED BY <1>1, <1>9, HaltPast

LEMMA ComparisonKept ==
  ASSUME NEW run, NEW p \in ComparisonPrograms.on, Losing(run, ComparisonPrograms, p)
  PROVE  FALSE
<1> DEFINE x == p[1]
           y == p[2]
<1>1. /\ Has(run, 0, I("LOADC", 0, 0, 0)) /\ Has(run, 1, I("LOADC", 1, 1, 0))
      /\ Has(run, 2, I("GE", 2, 0, 1)) /\ Has(run, 3, I("LT", 3, 0, 1))
      /\ Has(run, 4, I("LNOT", 3, 0, 0)) /\ Has(run, 5, I("JMPIF", 2, 0, 1))
      /\ Has(run, 6, I("LNOT", 3, 0, 0)) /\ Has(run, 7, I("JMPIF", 3, 0, 1))
      /\ Has(run, 9, I("HALT", 0, 0, 0))
  BY DEF Losing, ComparisonPrograms, Has
<1>2. x \in DataOf("I64") /\ y \in DataOf("I64")
  BY DEF ComparisonPrograms, Words
<1> HIDE DEF x, y
<1>3. Past(run, 2, I64(x), I64(y), Nul, Nul)
  BY <1>1, LoadedOn DEF x, y, Past, Losing
<1> USE Opcodes, NoDivision DEF I64, U64, IntType, Nth, PastPut
<1>4. PICK ge \in CmpopResults("GE", "I64", x, y) :
        Past(run, 3, I64(x), I64(y), Bool(ge), Nul)
  <2>1. "GE" \in CmpopOf("I64") /\ "I64" \in IntType
    OBVIOUS
  <2> HIDE Opcodes, NoDivision DEF IntType
  <2> QED BY <1>1, <1>3, <2>1, CmpopPast
<1>5. PICK lt \in CmpopResults("LT", "I64", x, y) :
        Past(run, 4, I64(x), I64(y), Bool(ge), Bool(lt))
  <2>1. "LT" \in CmpopOf("I64") /\ "I64" \in IntType
    OBVIOUS
  <2> HIDE Opcodes, NoDivision DEF IntType
  <2> QED BY <1>1, <1>4, <2>1, CmpopPast
<1>6. Past(run, 5, I64(x), I64(y), Bool(ge), Bool(IF lt = 0 THEN 1 ELSE 0))
  BY <1>1, <1>5, LnotPast
<1>7. ge \in {0, 1} /\ (ge = 1 <=> lt = 0)
  <2>1. x \in Int /\ y \in Int
    BY <1>2, HalfWordAssumption DEF DataOf
  <2>2. ge \in {0, 1} /\ (ge = 1 <=> Holds("GE", x, y))
    BY Compares
  <2>3. lt \in {0, 1} /\ (lt = 1 <=> Holds("LT", x, y))
    BY Compares
  <2> QED BY <2>1, <2>2, <2>3 DEF Holds
<1>8. CASE ge = 1
  <2>1. Past(run, 5, I64(x), I64(y), Bool(1), Bool(1))
    BY <1>6, <1>7, <1>8
  <2>2. Past(run, 7, I64(x), I64(y), Bool(1), Bool(1))
    BY <1>1, <2>1, JumpPast
  <2> QED BY <1>1, <2>2, HaltPast
<1>9. CASE ge = 0
  <2>1. Past(run, 5, I64(x), I64(y), Bool(0), Bool(0))
    BY <1>5, <1>6, <1>7, <1>9
  <2>2. Past(run, 6, I64(x), I64(y), Bool(0), Bool(0))
    BY <1>1, <2>1, FallPast
  <2>3. Past(run, 7, I64(x), I64(y), Bool(0), Bool(1))
    BY <1>1, <2>2, LnotPast
  <2> QED BY <1>1, <2>3, HaltPast
<1> QED BY <1>7, <1>8, <1>9

LEMMA OrderKept ==
  ASSUME NEW run, NEW p \in OrderPrograms.on, Losing(run, OrderPrograms, p)
  PROVE  FALSE
<1> DEFINE x == p[1]
           y == p[2]
<1>1. /\ Has(run, 0, I("LOADC", 0, 0, 0)) /\ Has(run, 1, I("LOADC", 1, 1, 0))
      /\ Has(run, 2, I("GT", 2, 0, 1)) /\ Has(run, 3, I("I2U", 0, 0, 0))
      /\ Has(run, 4, I("I2U", 1, 1, 0)) /\ Has(run, 5, I("GT_U", 3, 0, 1))
      /\ Has(run, 6, I("JMPIF", 2, 0, 1)) /\ Has(run, 7, I("LNOT", 3, 0, 0))
      /\ Has(run, 8, I("JMPIF", 3, 0, 1)) /\ Has(run, 10, I("HALT", 0, 0, 0))
  BY DEF Losing, OrderPrograms, Has
<1>2. x \in DataOf("I64") /\ y \in DataOf("I64") /\ (x < 0 <=> y < 0)
  BY DEF OrderPrograms, Words
<1> HIDE DEF x, y
<1>3. Past(run, 2, I64(x), I64(y), Nul, Nul)
  BY <1>1, LoadedOn DEF x, y, Past, Losing
<1> USE Opcodes, NoDivision DEF I64, U64, IntType, Nth, PastPut
<1>4. PICK gt \in CmpopResults("GT", "I64", x, y) :
        Past(run, 3, I64(x), I64(y), Bool(gt), Nul)
  <2>1. "GT" \in CmpopOf("I64") /\ "I64" \in IntType
    OBVIOUS
  <2> HIDE Opcodes, NoDivision DEF IntType
  <2> QED BY <1>1, <1>3, <2>1, CmpopPast
<1>5. PICK ux \in CastResults("I64", "U64", x) :
        Past(run, 4, U64(ux), I64(y), Bool(gt), Nul)
  BY <1>1, <1>4, CastPast
<1>6. PICK uy \in CastResults("I64", "U64", y) :
        Past(run, 5, U64(ux), U64(uy), Bool(gt), Nul)
  BY <1>1, <1>5, CastPast
<1>7. PICK gtu \in CmpopResults("GT_U", "U64", ux, uy) :
        Past(run, 6, U64(ux), U64(uy), Bool(gt), Bool(gtu))
  <2>1. "GT_U" \in CmpopOf("U64") /\ "U64" \in IntType
    OBVIOUS
  <2> HIDE Opcodes, NoDivision DEF IntType
  <2> QED BY <1>1, <1>6, <2>1, CmpopPast
<1>8. gt \in {0, 1} /\ gt = gtu
  <2>1. gt \in {0, 1} /\ (gt = 1 <=> Holds("GT", x, y))
    BY Compares
  <2>2. gtu \in {0, 1} /\ (gtu = 1 <=> Holds("GT_U", ux, uy))
    BY Compares
  <2>3. Holds("GT_U", ux, uy) <=> Holds("GT", x, y)
    BY <1>2, OrderLaw
  <2> QED BY <2>1, <2>2, <2>3
<1>9. CASE gt = 1
  <2>1. Past(run, 6, U64(ux), U64(uy), Bool(1), Bool(1))
    BY <1>7, <1>8, <1>9
  <2>2. Past(run, 8, U64(ux), U64(uy), Bool(1), Bool(1))
    BY <1>1, <2>1, JumpPast
  <2> QED BY <1>1, <2>2, HaltPast
<1>10. CASE gt = 0
  <2>1. Past(run, 6, U64(ux), U64(uy), Bool(0), Bool(0))
    BY <1>7, <1>8, <1>10
  <2>2. Past(run, 7, U64(ux), U64(uy), Bool(0), Bool(0))
    BY <1>1, <2>1, FallPast
  <2>3. Past(run, 8, U64(ux), U64(uy), Bool(0), Bool(1))
    BY <1>1, <2>2, LnotPast
  <2> QED BY <1>1, <2>3, HaltPast
<1> QED BY <1>8, <1>9, <1>10

LEMMA NoneLoses ==
  ASSUME NEW run, NEW law \in Laws, NEW p \in law.on, Losing(run, law, p)
  PROVE  FALSE
<1>1. CASE law \in {DivisionPrograms, NegationPrograms}
  BY <1>1, DivisionKept, NegationKept
<1>2. CASE law \in {DeMorganPrograms, ExclusiveOrPrograms}
  BY <1>2, DeMorganKept, ExclusiveOrKept
<1>3. CASE law \in {CastPrograms, SubtractionPrograms}
  BY <1>3, CastKept, SubtractionKept
<1>4. CASE law \in {ShiftLeftPrograms, ShiftRightPrograms}
  BY <1>4, ShiftLeftKept, ShiftRightKept
<1>5. CASE law \in {ComparisonPrograms, OrderPrograms}
  BY <1>5, ComparisonKept, OrderKept
<1> QED BY <1>1, <1>2, <1>3, <1>4, <1>5 DEF Laws

-----------------------------------------------------------------------------
\* vm_run keeps the ten laws, for words of any width and all operands: a program
\* that computes both sides of a law from its two constants never reaches its
\* PANIC and never fails but for memory, whatever else the instance holds.
THEOREM LawsAreKept == Spec => []LawsHold
<1>1. Traced => LawsHold
  <2> SUFFICES ASSUME Traced, NEW law \in Laws, prog.code = law.code, NEW p \in law.on,
                      prog.consts = << Num("I64", p[1]), Num("I64", p[2]) >>
               PROVE  \/ status \in {"loaded", "running", "ok"}
                      \/ status = "failed" /\ panic_code = PANIC_OOM
    BY DEF LawsHold
  <2>1. ASSUME NEW m \in Nat, NEW g, Trace(prog.code, prog.consts, g, m), g[m] = Lost
        PROVE  FALSE
    <3> DEFINE run == [code |-> prog.code, consts |-> prog.consts, g |-> g, m |-> m]
    <3>1. Losing(run, law, p)
      BY <2>1 DEF Losing
    <3> QED BY <3>1, NoneLoses
  <2> QED BY <2>1 DEF Traced
<1> QED BY TracedHolds, <1>1, PTL

=============================================================================

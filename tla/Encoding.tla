------------------------------ MODULE Encoding ------------------------------
(***************************************************************************)
(* The three programs that must agree on the bytes of a .stk file: the     *)
(* writer (utils/test.py), the machine (io/reader.c and the getters of     *)
(* vm/vm.h) and the disassembler (utils/disasm.py).  A behavior takes one  *)
(* thing an author asks for through a file: an instruction, a function or  *)
(* the counts of the header.                                               *)
(*                                                                         *)
(* A file is a sequence of bytes, a word the number of its 32 bits, with   *)
(* Byte for the 256 of the code.  The writer and the disassembler name     *)
(* their byte order; the machine does for the header, and otherwise reads  *)
(* in the order of its host.                                               *)
(***************************************************************************)
EXTENDS Integers, Sequences, SequencesExt

CONSTANTS
  Byte,    \* 256 in the code
  Asked    \* what an author may ask for

\* ins(op, a, b, c), or one of the helpers with a register and a number; an
\* operation has the number that vm/opcodes.h and the Opcode of test.py give it.
OpNumber == [HALT |-> 0, PANIC |-> 1, JMP |-> 2, JMPIF |-> 3, JMPIFZ |-> 4,
             COPY |-> 5, MOVE |-> 6, LOADI |-> 7]
Conditional == {"JMPIF", "JMPIFZ"}

\* What a byte counts for that has k bytes below it: 1 << 8 * k.
Weight(k) == << 1, Byte, Byte * Byte, Byte * Byte * Byte, Byte * Byte * Byte * Byte >>[k + 1]

Raw     == [kind : {"ins"}, op : DOMAIN OpNumber, a : Int, b : Int, c : Int]
Helped  == [kind : {"helper"}, op : {"JMP", "JMPIF", "JMPIFZ", "LOADI"}, r : Int, n : Int]
U16     == 0 .. Weight(2) - 1
U32     == 0 .. Weight(4) - 1
Callee  == [kind : {"func"}, entry : U32, argc : U16, regc : U16]
Header  == [kind : {"header"}, count : U32, consts : U32, globals : U32]

ASSUME ByteAssumption  == Byte \in Nat /\ Byte >= 8 /\ Byte % 2 = 0
ASSUME AskedAssumption == Asked \subseteq Raw \cup Helped \cup Callee \cup Header

VARIABLES
  asked,   \* what the author asked for
  host,    \* the byte order of the host of the machine
  file,    \* the bytes written for it
  ran,     \* what the machine takes them for, once it has read them
  shown    \* what the disassembler prints

vars == <<asked, host, file, ran, shown>>

Nothing == << >>

-----------------------------------------------------------------------------
(* Bytes                                                                   *)

\* The number that two or four bytes stand for, the highest first or the lowest.
BigEndian(bytes) ==
  IF Len(bytes) = 2 THEN bytes[1] * Weight(1) + bytes[2]
  ELSE bytes[1] * Weight(3) + bytes[2] * Weight(2) + bytes[3] * Weight(1) + bytes[4]
LittleEndian(bytes) == BigEndian(Reverse(bytes))
Native(bytes)       == IF host = "little" THEN LittleEndian(bytes) ELSE BigEndian(bytes)

\* struct.pack with "<": the lowest byte first.
Pack(size, n) == [k \in 1 .. size |-> (n \div Weight(k - 1)) % Byte]

\* The field of `size' bytes that ends `skip' bytes above the end of a word.
Field(word, skip, size) == (word \div Weight(skip)) % Weight(size)

-----------------------------------------------------------------------------
(* utils/test.py                                                           *)

\* ins: the register fields are masked, so a negative number becomes its low byte.
Ins(op, a, b, c) ==
  OpNumber[op] * Weight(3) + (a % Byte) * Weight(2) + (b % Byte) * Byte + (c % Byte)

\* JMP, JMPIF, JMPIFZ and LOADI: the conditional jumps leave b to be zero.
HelperWord(op, r, n) ==
  CASE op = "JMP"           -> Ins(op, n \div Weight(2), n \div Byte, n)
    [] op = "LOADI"         -> Ins(op, r, n \div Byte, n)
    [] op \in Conditional   -> Ins(op, r, 0, n)

\* func, behind its tag, and the header, behind its magic.
FuncBytes(entry, argc, regc) == Pack(4, entry) \o Pack(2, argc) \o Pack(2, regc)
HeaderBytes(count, consts, globals) ==
  Pack(2, 1) \o Pack(2, 0) \o Pack(4, count) \o Pack(4, consts) \o Pack(4, globals)

Write ==
  /\ file = Nothing
  /\ file' = CASE asked.kind = "ins"    -> Pack(4, Ins(asked.op, asked.a, asked.b, asked.c))
               [] asked.kind = "helper" -> Pack(4, HelperWord(asked.op, asked.r, asked.n))
               [] asked.kind = "func"   -> FuncBytes(asked.entry, asked.argc, asked.regc)
               [] asked.kind = "header" -> HeaderBytes(asked.count, asked.consts, asked.globals)
  /\ UNCHANGED <<asked, host, ran, shown>>

-----------------------------------------------------------------------------
(* io/reader.c and vm/vm.h                                                 *)

\* Shifts to the left, then an arithmetic shift back.  Mutant: a logical one.
SignedFieldLogical(word, size) == Field(word, 0, size)
SignedField(word, size) ==
  LET up == (word * Weight(4 - size)) % Weight(4) IN
  (IF 2 * up < Weight(4) THEN up ELSE up - Weight(4)) \div Weight(4 - size)

OpName(n) == CHOOSE op \in DOMAIN OpNumber : OpNumber[op] = n

\* What the fields of a word mean to the case of its opcode.
Meaning(op, a, b, c, imm24, imm16) ==
  CASE op = "JMP"                          -> [op |-> op, n |-> imm24]
    [] op \in Conditional \cup {"LOADI"}   -> [op |-> op, r |-> a, n |-> imm16]
    [] op = "HALT"                         -> [op |-> op]
    [] op = "PANIC"                        -> [op |-> op, r |-> a]
    [] op \in {"COPY", "MOVE"}             -> [op |-> op, r |-> a, n |-> b]

WordOf(word) ==
  Meaning(OpName(Field(word, 3, 1)), Field(word, 2, 1), Field(word, 1, 1), Field(word, 0, 1),
          SignedField(word, 3), SignedField(word, 2))

\* The patch loop copies the three fields of a callable as they stand.
FuncOf(bytes) ==
  [entry |-> Native(SubSeq(bytes, 1, 4)), argc |-> Native(SubSeq(bytes, 5, 6)),
   regc |-> Native(SubSeq(bytes, 7, 8))]

\* read_u32_le puts the bytes in order itself.  Mutant: it takes them as they come.
ReadU32AsIs(bytes) == Native(bytes)
ReadU32(bytes) == LittleEndian(bytes)
HeaderOf(bytes) ==
  [count |-> ReadU32(SubSeq(bytes, 5, 8)), consts |-> ReadU32(SubSeq(bytes, 9, 12)),
   globals |-> ReadU32(SubSeq(bytes, 13, 16))]

Run ==
  /\ file # Nothing /\ ran = Nothing
  /\ ran' = CASE asked.kind \in {"ins", "helper"} -> WordOf(Native(file))
              [] asked.kind = "func"              -> FuncOf(file)
              [] asked.kind = "header"            -> HeaderOf(file)
  /\ UNCHANGED <<asked, host, file, shown>>

-----------------------------------------------------------------------------
(* utils/disasm.py                                                         *)

\* signed: a number whose highest bit is set is moved down.
Signed(n, size) == IF 2 * n >= Weight(size) THEN n - Weight(size) ELSE n

\* The offset of a conditional jump is its last field.  Mutant: taken as signed.
OffsetSigned(word) == Signed(Field(word, 0, 1), 1)
Offset(word) == Field(word, 0, 1)

\* decode_instr and format_instr.
Format(word) ==
  LET op == OpName(Field(word, 3, 1)) IN
  Meaning(op, Field(word, 2, 1), Field(word, 1, 1), Field(word, 0, 1),
          Signed(Field(word, 0, 3), 3),
          IF op \in Conditional THEN Offset(word) ELSE Signed(Field(word, 0, 2), 2))

\* decode_const and disassemble unpack with "<".
Disassemble ==
  LET part(from, to) == LittleEndian(SubSeq(file, from, to)) IN
  /\ file # Nothing /\ shown = Nothing
  /\ shown' =
       CASE asked.kind \in {"ins", "helper"} -> Format(LittleEndian(file))
         [] asked.kind = "func" ->
              [entry |-> part(1, 4), argc |-> part(5, 6), regc |-> part(7, 8)]
         [] asked.kind = "header" ->
              [count |-> part(5, 8), consts |-> part(9, 12), globals |-> part(13, 16)]
  /\ UNCHANGED <<asked, host, file, ran>>

-----------------------------------------------------------------------------

Init ==
  /\ asked \in Asked
  /\ host \in {"little", "big"}
  /\ file = Nothing /\ ran = Nothing /\ shown = Nothing

Terminated == ran # Nothing /\ shown # Nothing /\ UNCHANGED vars

Next == Write \/ Run \/ Disassemble \/ Terminated
Spec == Init /\ [][Next]_vars

-----------------------------------------------------------------------------
(* Properties                                                              *)

Imm(size) == -(Weight(size) \div 2) .. Weight(size) \div 2 - 1

\* An instruction or a function reaches the machine as its author asked for it:
\* jumps and immediates over their whole signed range, and a conditional jump
\* exactly when its offset is one unsigned byte (words and functions are read in
\* the byte order of the host, so only a little-endian one will do).
RunsAsAsked ==
  host = "little" /\ ran # Nothing =>
    /\ asked.kind = "func" =>
         ran = [entry |-> asked.entry, argc |-> asked.argc, regc |-> asked.regc]
    /\ asked.kind = "helper" =>
         /\ ran.op = asked.op
         /\ asked.op = "JMP" /\ asked.n \in Imm(3) => ran.n = asked.n
         /\ asked.op = "LOADI" /\ asked.n \in Imm(2) => ran.n = asked.n
         /\ asked.op \in Conditional => (ran.n = asked.n <=> asked.n \in 0 .. Byte - 1)
         /\ asked.op # "JMP" => ran.r = asked.r % Byte

\* The disassembler prints what the machine would do, but for a conditional jump
\* that was written with ins and has a high byte in its offset.
ShownIsRun ==
  host = "little" /\ ran # Nothing /\ shown # Nothing =>
    (ran # shown <=> /\ asked.kind = "ins" /\ asked.op \in Conditional
                     /\ asked.b % Byte # 0)

\* The counts of the header are read alike on every host.
HeaderIsPortable ==
  asked.kind = "header" /\ ran # Nothing =>
    ran = [count |-> asked.count, consts |-> asked.consts, globals |-> asked.globals]

-----------------------------------------------------------------------------
(* What the README of the repository says, and the code does not do.       *)

\* README.md: "`JMPIF` | a, imm16", and the same for JMPIFZ.
ConditionalAsAsked ==
  asked.kind = "helper" /\ asked.op \in Conditional /\ asked.n \in Imm(2) =>
    (host = "little" /\ ran # Nothing => ran.n = asked.n)

=============================================================================

-------------------------------- MODULE Laws --------------------------------
(***************************************************************************)
(* Laws of integer arithmetic, as programs like the ones of utils/test.py: *)
(* the two sides are computed from the constants x and y, in registers 0   *)
(* and 1, and PANIC 1 is reached if they differ.                           *)
(***************************************************************************)
EXTENDS StickVM

\* The operands of the programs, 0 .. 3, fit their field and the register file.
ASSUME OperandsAssumption == Byte >= 4 /\ MaxRegisters >= 4

I(op, a, b, c) == [op |-> op, a |-> a, b |-> b, c |-> c]
Num(tag, n)    == [type |-> tag, bits |-> Bits(tag, n)]

\* `on' holds the <x, y> for which every step of the law is defined in C.
Words       == DataOf("I64") \X DataOf("I64")
CountInWord == { p \in Words : p[2] \in 0 .. Width - 1 }

\* (x / y) * y + x % y = x
DivisionPrograms ==
  [on   |-> { p \in Words : p[2] # 0 /\ ~(p[1] = -HalfWord /\ p[2] = -1) },
   code |-> << I("LOADC", 0, 0, 0), I("LOADC", 1, 1, 0),
               I("DIV", 2, 0, 1), I("MUL", 2, 2, 1), I("MOD", 3, 0, 1), I("ADD", 2, 2, 3),
               I("COPY", 3, 0, 0),
               I("EQ", 2, 2, 3), I("JMPIF", 2, 0, 1), I("PANIC", 1, 0, 0), I("HALT", 0, 0, 0) >>]

\* -(x / y) = (-x) / y
NegationPrograms ==
  [on   |-> { p \in Words : p[2] # 0 /\ p[1] # -HalfWord },
   code |-> << I("LOADC", 0, 0, 0), I("LOADC", 1, 1, 0),
               I("DIV", 2, 0, 1), I("NEG", 2, 0, 0), I("NEG", 0, 0, 0), I("DIV", 3, 0, 1),
               I("EQ", 2, 2, 3), I("JMPIF", 2, 0, 1), I("PANIC", 1, 0, 0), I("HALT", 0, 0, 0) >>]

\* ~(x & y) = ~x | ~y
DeMorganPrograms ==
  [on   |-> Words,
   code |-> << I("LOADC", 0, 0, 0), I("LOADC", 1, 1, 0),
               I("AND", 2, 0, 1), I("BNOT", 2, 0, 0), I("BNOT", 0, 0, 0), I("BNOT", 1, 0, 0),
               I("OR", 3, 0, 1),
               I("EQ", 2, 2, 3), I("JMPIF", 2, 0, 1), I("PANIC", 1, 0, 0), I("HALT", 0, 0, 0) >>]

\* (x | y) - (x & y) = x ^ y
ExclusiveOrPrograms ==
  [on   |-> Words,
   code |-> << I("LOADC", 0, 0, 0), I("LOADC", 1, 1, 0),
               I("OR", 2, 0, 1), I("AND", 3, 0, 1), I("SUB", 2, 2, 3), I("XOR", 3, 0, 1),
               I("EQ", 2, 2, 3), I("JMPIF", 2, 0, 1), I("PANIC", 1, 0, 0), I("HALT", 0, 0, 0) >>]

\* x - y is the difference of the unsigned values, wherever it fits
CastPrograms ==
  [on   |-> { p \in Words : p[1] - p[2] \in DataOf("I64") },
   code |-> << I("LOADC", 0, 0, 0), I("LOADC", 1, 1, 0),
               I("SUB", 2, 0, 1), I("I2U", 0, 0, 0), I("I2U", 1, 1, 0), I("SUB_U", 3, 0, 1),
               I("U2I", 3, 3, 0),
               I("EQ", 2, 2, 3), I("JMPIF", 2, 0, 1), I("PANIC", 1, 0, 0), I("HALT", 0, 0, 0) >>]

\* x - y = x + -y, unsigned
SubtractionPrograms ==
  [on   |-> Words,
   code |-> << I("LOADC", 0, 0, 0), I("LOADC", 1, 1, 0),
               I("I2U", 0, 0, 0), I("I2U", 1, 1, 0),
               I("SUB_U", 2, 0, 1), I("NEG_U", 1, 0, 0), I("ADD_U", 3, 0, 1),
               I("EQ_U", 2, 2, 3), I("JMPIF", 2, 0, 1), I("PANIC", 1, 0, 0), I("HALT", 0, 0, 0) >>]

\* x << y = x * (1 << y), unsigned
ShiftLeftPrograms ==
  [on   |-> CountInWord,
   code |-> << I("LOADC", 0, 0, 0), I("LOADC", 1, 1, 0), I("LOADI", 2, 0, 1),
               I("I2U", 0, 0, 0), I("I2U", 1, 1, 0), I("I2U", 2, 2, 0),
               I("SHL_U", 2, 2, 1), I("MUL_U", 2, 0, 2), I("SHL_U", 3, 0, 1),
               I("EQ_U", 2, 2, 3), I("JMPIF", 2, 0, 1), I("PANIC", 1, 0, 0), I("HALT", 0, 0, 0) >>]

\* ~(x >> y) = ~x >> y
ShiftRightPrograms ==
  [on   |-> CountInWord,
   code |-> << I("LOADC", 0, 0, 0), I("LOADC", 1, 1, 0),
               I("SHR", 2, 0, 1), I("BNOT", 2, 0, 0), I("BNOT", 0, 0, 0), I("SHR", 3, 0, 1),
               I("EQ", 2, 2, 3), I("JMPIF", 2, 0, 1), I("PANIC", 1, 0, 0), I("HALT", 0, 0, 0) >>]

\* Either x >= y, or x < y.  (The two are in registers 2 and 3: not 3 if not 2.)
ComparisonPrograms ==
  [on   |-> Words,
   code |-> << I("LOADC", 0, 0, 0), I("LOADC", 1, 1, 0),
               I("GE", 2, 0, 1), I("LT", 3, 0, 1), I("LNOT", 3, 0, 0),
               I("JMPIF", 2, 0, 1), I("LNOT", 3, 0, 0),
               I("JMPIF", 3, 0, 1), I("PANIC", 1, 0, 0), I("HALT", 0, 0, 0) >>]

\* numbers of the same sign compare alike, signed and unsigned
OrderPrograms ==
  [on   |-> { p \in Words : p[1] < 0 <=> p[2] < 0 },
   code |-> << I("LOADC", 0, 0, 0), I("LOADC", 1, 1, 0),
               I("GT", 2, 0, 1), I("I2U", 0, 0, 0), I("I2U", 1, 1, 0), I("GT_U", 3, 0, 1),
               I("JMPIF", 2, 0, 1), I("LNOT", 3, 0, 0),
               I("JMPIF", 3, 0, 1), I("PANIC", 1, 0, 0), I("HALT", 0, 0, 0) >>]

Laws ==
  { DivisionPrograms, NegationPrograms, DeMorganPrograms, ExclusiveOrPrograms, CastPrograms,
    SubtractionPrograms, ShiftLeftPrograms, ShiftRightPrograms, ComparisonPrograms,
    OrderPrograms }

LawPrograms ==
  { [code |-> law.code, consts |-> << Num("I64", p[1]), Num("I64", p[2]) >>,
     globals |-> << >>, funcs |-> << >>] : law \in Laws, p \in Words }

\* The integer opcodes work together the way C's operators do: a program that
\* computes both sides of a law finds them equal for all operands on which none
\* of its steps is undefined, the least i64 and shift counts at the edge included.
\* (The frame of vm_run may still be refused by the allocator.)
LawsHold ==
  \A law \in Laws :
    prog.code = law.code =>
      \A p \in law.on :
        prog.consts = << Num("I64", p[1]), Num("I64", p[2]) >> =>
          \/ status \in {"loaded", "running", "ok"}
          \/ status = "failed" /\ panic_code = PANIC_OOM

=============================================================================

----------------------------- MODULE MCStickVM -----------------------------
(***************************************************************************)
(* Programs for the model checker to run StickVM on.                       *)
(***************************************************************************)
EXTENDS Laws

Callable(fn)   == [type |-> "CALLABLE", bits |-> Bits("CALLABLE", fn)]
Unpatched(raw) == [type |-> "CALLABLE", bits |-> [as |-> "raw", val |-> raw]]

Bytecode(entry, argc, regc) ==
  [kind |-> "BYTECODE", entry |-> entry, argc |-> argc, regc |-> regc]
Native(entry, argc) ==
  [kind |-> "NATIVE", entry |-> entry, argc |-> argc, regc |-> 0]

-----------------------------------------------------------------------------
(* Calls, with Byte = 8 (JMP -2 is 7 7 6), MaxRegisters = 14,              *)
(* BaseRegisters = 2, MaxFrames = 5 and FirstFrameCap = 2.  Windows of     *)
(* width 0 or 1 fit five deep; the second of width 6 and the first of      *)
(* width 12 end on the last register, where the next base wraps.           *)

CallInstrs ==
  { I("LOADC", 0, 0, 0), I("LOADC", 1, 1, 0),
    I("CALL", 0, 0, 1), I("CALL", 0, 1, 7), I("CALL", 1, 0, 7),
    I("RET", 0, 0, 0), I("RET", 7, 0, 0), I("LOADI", 7, 0, 5), I("JMP", 7, 7, 6),
    I("PANIC", 0, 0, 0), I("PANIC", 3, 0, 0) }

AnyFour ==
  { [code    |-> << I("LOADC", 0, 0, 0), x, y, z >>,
     consts  |-> << Callable(1), Callable(2) >>,
     globals |-> << >>,
     funcs   |-> << Bytecode(entry, argc, regc), Native(1, 0) >>] :
      x \in CallInstrs, y \in CallInstrs, z \in CallInstrs,
      entry \in {0, 2}, argc \in {0, 1}, regc \in {0, 1, 6, 12} }

\* A function calls another: returns to a caller that is not the entry frame.
Nested ==
  { [code    |-> << I("LOADC", 0, 0, 0), I("CALL", 0, 0, 1), I("RET", 1, 0, 0),
                    I("LOADC", 0, 1, 0), x, y, I("RET", 0, 0, 0) >>,
     consts  |-> << Callable(1), Callable(2) >>,
     globals |-> << >>,
     funcs   |-> << Bytecode(3, 0, outer), Bytecode(5, 0, inner) >>] :
      x \in CallInstrs, y \in CallInstrs,
      outer \in {0, 1, 6, 12}, inner \in {0, 1, 6} }

\* Jumps and calls around the end of four instructions (JMP -3 is 7 7 5), of which
\* the last goes on to the next, returns to its caller or stops.
AtTheEdge ==
  { [code    |-> << I("LOADC", 0, 0, 0), x, y, z >>,
     consts  |-> << Callable(1) >>,
     globals |-> << >>,
     funcs   |-> << Bytecode(entry, 0, 1) >>] :
      x \in { I("CALL", 0, 0, 1), I("JMP", 0, 0, 1), I("JMP", 0, 0, 2),
              I("JMPIF", 0, 0, 2), I("JMPIFZ", 1, 0, 2) },
      y \in { I("CALL", 0, 0, 1), I("JMP", 0, 0, 1), I("JMP", 7, 7, 5),
              I("JMPIF", 0, 0, 0), I("JMPIFZ", 1, 0, 1) },
      z \in { I("CALL", 0, 0, 1), I("JMP", 0, 0, 0), I("LOADI", 1, 0, 0),
              I("RET", 1, 0, 0), I("HALT", 0, 0, 0) },
      entry \in 2 .. 5 }

CallPrograms == AnyFour \cup Nested \cup AtTheEdge

-----------------------------------------------------------------------------
(* Every opcode and every type, with Byte = 4, HalfWord = 8, MaxRegisters  *)
(* = 4: two constants are loaded, an instruction works on them, and what   *)
(* it left is moved, stored, tested or called.                             *)

Opcode == Implemented \cup {"TAILCALL"}

DataValues ==
  { Num("NUL", 0), Num("BOOL", 1), Num("U64", 0), Num("U64", 15), Num("I64", -8),
    Num("I64", -1), Num("FLOAT", 1), Num("DOUBLE", 0), Num("OBJ", 1),
    Callable(1), Callable(2) }

Working(x, y, v, w, g) ==
  [code    |-> << I("LOADC", 0, 0, 0), I("LOADC", 1, 1, 0), x, y, I("HALT", 0, 0, 0) >>,
   consts  |-> << v, w >>,
   globals |-> << g >>,
   funcs   |-> << Native(1, 0), Native(0, 0) >>]

\* A global that the file stores as a callable is raw, also when its bytes are 0.
OpcodePrograms ==
  { Working(x, y, v, w, g) :
      x \in { I(op, 0, 0, 1) : op \in Opcode },
      y \in { I("MOVE", 1, 0, 0), I("MOVE", 0, 0, 0), I("STOREG", 1, 0, 0),
              I("LNOT", 0, 0, 0), I("JMPIF", 0, 0, 0), I("JMPIFZ", 1, 1, 0),
              I("CALL", 0, 0, 1) },
      v \in DataValues, w \in { Num("BOOL", 0), Num("U64", 0), Num("I64", -1),
                                Num("FLOAT", 1), Num("DOUBLE", 0), Num("NUL", 0) },
      g \in {Unpatched(1)} }
  \cup
  { Working(I("LOADG", 0, 0, 1), I("CALL", 0, 0, 1), v, Num("NUL", 0), Unpatched(0)) :
      v \in DataValues }

DataPrograms == OpcodePrograms \cup LawPrograms

=============================================================================

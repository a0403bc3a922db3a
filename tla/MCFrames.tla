----------------------------- MODULE MCFrames -----------------------------
(***************************************************************************)
(* Tidy programs for the model checker, with Byte = 4, BaseRegisters = 2,  *)
(* MaxFrames = 3 and MaxRegisters = 12: two functions, one of which may    *)
(* call the other, over every instruction that moves a value in or out of  *)
(* a frame.                                                                *)
(***************************************************************************)
EXTENDS FrameIsolation

I(op, a, b, c) == [op |-> op, a |-> a, b |-> b, c |-> c]

Callable(fn) == [type |-> "CALLABLE", bits |-> Bits("CALLABLE", fn)]
Five         == [type |-> "I64", bits |-> Bits("I64", 5)]

Instrs ==
  { I("CALL", 0, 0, 1), I("CALL", 0, 0, 0), I("CALL", 1, 0, 1), I("RET", 1, 0, 0),
    I("LOADI", 1, 1, 1), I("MOVE", 1, 0, 0), I("COPY", 0, 1, 0), I("STOREG", 1, 0, 0),
    I("LOADG", 0, 0, 0), I("LOADC", 1, 1, 0), I("ADD", 1, 1, 1), I("JMP", 3, 3, 1),
    I("PANIC", 3, 0, 0) }

\* The functions begin at the third instruction and at the sixth.
FramePrograms ==
  { [code    |-> << I("LOADC", 0, 0, 0), x, I("LOADC", 0, k, 0), y, z, I("RET", 0, 0, 0) >>,
     consts  |-> << Callable(1), Callable(2), Callable(3) >>,
     globals |-> << Five >>,
     funcs   |-> << [kind |-> "BYTECODE", entry |-> 2, argc |-> 0, regc |-> outer],
                    [kind |-> "BYTECODE", entry |-> 4, argc |-> 0, regc |-> inner],
                    [kind |-> "NATIVE", entry |-> 1, argc |-> 0, regc |-> 0] >>] :
      x \in Instrs, y \in Instrs, z \in Instrs, k \in 0 .. 2,
      outer \in {2, 3}, inner \in {2, 3} }

=============================================================================

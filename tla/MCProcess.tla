----------------------------- MODULE MCProcess -----------------------------
(***************************************************************************)
(* Tests to run, with Byte = 20, so that a PANIC can have a code that is   *)
(* no panic code, and MaxCount = 5: callables and other constants in       *)
(* either order, with and without a global, and files that are cut, bad or *)
(* too long.                                                               *)
(***************************************************************************)
EXTENDS Process

T == INSTANCE Typing

I(op, a, b, c) == [op |-> op, a |-> a, b |-> b, c |-> c]

Instrs ==
  { I("CALL", 0, 0, 1), I("RET", 0, 0, 0), I("LOADG", 0, 0, 0), I("STOREG", 0, 0, 0),
    I("JMPIF", 0, 0, 0), I("LNOT", 1, 0, 0), I("PANIC", 0, 0, 0), I("PANIC", 1, 0, 0),
    I("PANIC", 19, 0, 0), I("TAILCALL", 0, 0, 0) }

Func(entry)  == [kind |-> "BYTECODE", entry |-> entry, argc |-> 0, regc |-> 2]
Callable(fn) == [type |-> "CALLABLE", bits |-> T!Bits("CALLABLE", fn)]
Zero         == [type |-> "I64", bits |-> T!Bits("I64", 0)]
Unpatched    == [type |-> "CALLABLE", bits |-> [as |-> "raw", val |-> 1]]

Test(x, y, k, last, gs) ==
  [code    |-> << I("LOADC", 0, k, 0), I("LOADC", 1, 1, 0), x, y >> \o last,
   consts  |-> << Callable(1), Zero, Callable(2) >>,
   globals |-> gs,
   funcs   |-> << Func(2), Func(3) >>]

Halt == << I("HALT", 0, 0, 0) >>

MCPrograms ==
  { Test(x, y, k, last, gs) :
      x \in Instrs, y \in Instrs, k \in {0, 2}, last \in {<< >>, Halt},
      gs \in {<< >>, <<Unpatched>>} }
  \cup { Test(I("DIV", 1, 1, 1), I("PANIC", 1, 0, 0), 0, << >>, << >>) }
  \cup { Test(x, x, 0, last, <<Zero>>) : x \in Instrs, last \in {Halt, Halt \o Halt} }

File(header, count, gs, whole) ==
  [opens |-> TRUE, header |-> header, count |-> count, pool |-> <<TRUE, FALSE, TRUE>>,
   globals |-> gs, whole |-> whole]

MCFiles ==
  { File("good", n, g, w) : n \in 4 .. 6, g \in {0, 1}, w \in 2 .. 3 }
  \cup { File("newer", n, g, 3) : n \in 4 .. 6, g \in {0, 1} }

MCCodes == 0 .. Byte - 1

=============================================================================

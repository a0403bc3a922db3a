------------------------------- MODULE Arith -------------------------------
(***************************************************************************)
(* What the C operators behind BINOP_TYPED, CMPOP_TYPED, UNOP_TYPED and    *)
(* CAST_TYPED (vm/typing.h) compute, as the set of results an opcode may   *)
(* have.  The 64 bit operations are exact: the set has one element, or it  *)
(* is the whole type where C defines nothing (signed overflow, a shift     *)
(* count of 64 or more, a division by zero).  Of a float it is known       *)
(* whether it is zero, and no more.                                        *)
(***************************************************************************)
EXTENDS Typing

CONSTANT Width   \* 64 in the code: the bits of a word

\* What bit k of a word counts for.
PowerOf2[k \in 0 .. Width] == IF k = 0 THEN 1 ELSE 2 * PowerOf2[k - 1]

ASSUME WidthAssumption == Width \in Nat /\ PowerOf2[Width] = 2 * HalfWord

Abs(n) == IF n < 0 THEN -n ELSE n

\* Division in C truncates toward zero.  Mutant: it rounds down.
QuotientFloor(l, r) == IF r > 0 THEN l \div r ELSE (-l) \div (-r)
Quotient(l, r) ==
  IF (l < 0) = (r < 0) THEN Abs(l) \div Abs(r) ELSE -(Abs(l) \div Abs(r))

\* Bit k of the two's complement of n.
BitOf(n, k) == (n \div PowerOf2[k]) % 2

\* The value of a type that has the same bits as n.  Unsigned results and the
\* casts between the integers wrap; gcc converts to i64 in the same way.
Wrapped(tag, n) == { m \in DataOf(tag) : (m - n) % (2 * HalfWord) = 0 }

\* A signed result that does not fit is undefined, an unsigned one wraps.
Fitting(tag, n) ==
  IF tag = "U64" THEN Wrapped(tag, n)
  ELSE IF n \in DataOf(tag) THEN {n} ELSE DataOf(tag)

\* One bit of a bitwise operation, and the whole of it.
BitResult(op, x, y) ==
  CASE op \in {"AND", "AND_U"} -> x * y
    [] op \in {"OR", "OR_U"}   -> x + y - x * y
    [] op \in {"XOR", "XOR_U"} -> (x + y) % 2

Bitwise(op, tag, l, r) ==
  { m \in DataOf(tag) :
      \A k \in 0 .. Width - 1 : BitOf(m, k) = BitResult(op, BitOf(l, k), BitOf(r, k)) }

\* Integer division is undefined in C for a zero divisor, and for the least i64
\* divided by -1; the remainder operator shares both cases.
DivisionUndefined(op, l, r) ==
  \/ op \in {"DIV", "MOD", "DIV_U", "MOD_U"} /\ r = 0
  \/ op \in {"DIV", "MOD"} /\ l = -HalfWord /\ r = -1

\* A shift is, for a count outside the word, and to the left of a negative number.
ShiftUndefined(op, l, r) ==
  /\ op \in {"SHL", "SHR", "SHL_U", "SHR_U"}
  /\ \/ r \notin 0 .. Width - 1
     \/ op = "SHL" /\ l < 0

IntegerResults(op, tag, l, r) ==
  IF DivisionUndefined(op, l, r) \/ ShiftUndefined(op, l, r) THEN DataOf(tag)
  ELSE CASE op \in {"ADD", "ADD_U"} -> Fitting(tag, l + r)
         [] op \in {"SUB", "SUB_U"} -> Fitting(tag, l - r)
         [] op \in {"MUL", "MUL_U"} -> Fitting(tag, l * r)
         [] op \in {"DIV", "DIV_U"} -> Fitting(tag, Quotient(l, r))
         [] op \in {"MOD", "MOD_U"} -> Fitting(tag, l - r * Quotient(l, r))
         [] op \in {"SHL", "SHL_U"} -> Fitting(tag, l * PowerOf2[r])
         [] op \in {"SHR", "SHR_U"} -> Fitting(tag, l \div PowerOf2[r])
         [] OTHER                   -> Bitwise(op, tag, l, r)

\* Whether an integer comparison holds.
Holds(op, l, r) ==
  CASE op \in {"EQ", "EQ_U"}   -> l = r
    [] op \in {"NEQ", "NEQ_U"} -> l # r
    [] op \in {"GT", "GT_U"}   -> l > r
    [] op \in {"GE", "GE_U"}   -> l >= r
    [] op \in {"LT", "LT_U"}   -> l < r
    [] op \in {"LE", "LE_U"}   -> l <= r

IntType == {"I64", "U64"}

-----------------------------------------------------------------------------
(* The results of an opcode on operands of type `tag'.                     *)

BinopResults(op, tag, l, r) ==
  IF tag \in IntType THEN IntegerResults(op, tag, l, r) ELSE DataOf(tag)

CmpopResults(op, tag, l, r) ==
  IF tag \in IntType THEN { n \in {0, 1} : (n = 1) = Holds(op, l, r) } ELSE {0, 1}

DyadicResults(op, tag, l, r) ==
  IF op \in BinopOf(tag) THEN BinopResults(op, tag, l, r) ELSE CmpopResults(op, tag, l, r)

UnopResults(op, tag, n) ==
  CASE op \in {"NEG", "NEG_U"}   -> Fitting(tag, -n)
    [] op \in {"BNOT", "BNOT_U"} -> Fitting(tag, -1 - n)
    [] OTHER                     -> { m \in DataOf(tag) : m = n }   \* -x is zero when x is

\* To a float: zero stays zero, and no other integer becomes zero.  From a
\* float: zero stays zero, and what does not fit is undefined.
CastResults(from, to, n) ==
  CASE {from, to} = IntType -> Wrapped(to, n)
    [] from \in IntType /\ to \notin IntType -> { m \in DataOf(to) : (m = 0) = (n = 0) }
    [] OTHER -> IF n = 0 THEN {0} ELSE DataOf(to)

=============================================================================

------------------------------- MODULE Typing -------------------------------
(***************************************************************************)
(* What vm/typing.h and vm/opcodes.h declare: the type tags, the members   *)
(* of the payload union and the opcodes, grouped by the macro of           *)
(* vm/typing.h that implements them.                                       *)
(*                                                                         *)
(* A payload is 8 bytes that the code reads and writes through one member  *)
(* of a union.  Here it is a record: `as' is the member it was last        *)
(* written through and `val' what it holds: words of a small width for the *)
(* integers, and for the floats whether they are zero.                     *)
(***************************************************************************)
EXTENDS Integers, Errors

CONSTANT HalfWord   \* 2^63 in the code: an i64 is in -HalfWord .. HalfWord-1

ASSUME HalfWordAssumption == HalfWord \in Nat \ {0}

NumType == {"U64", "I64", "FLOAT", "DOUBLE"}
Type    == NumType \cup {"NUL", "BOOL", "OBJ", "CALLABLE"}

\* The union member that belongs to a tag.
ViewOf(tag) ==
  CASE tag = "I64"      -> "i"
    [] tag = "FLOAT"    -> "f"
    [] tag = "DOUBLE"   -> "d"
    [] tag = "OBJ"      -> "obj"
    [] tag = "CALLABLE" -> "fn"
    [] OTHER            -> "u"

\* "raw" is the one payload that is no member of the union: the bytes
\* <entry, argc, regc> of a callable as they stand in a file.
View    == {"i", "f", "d", "obj", "fn", "u", "raw"}
Payload == [as : View, val : Int]
Value   == [type : Type, bits : Payload]

\* What a computation with result type `tag' can leave in a payload.
DataOf(tag) ==
  CASE tag = "I64" -> -HalfWord .. HalfWord - 1
    [] tag = "U64" -> 0 .. 2 * HalfWord - 1
    [] OTHER       -> {0, 1}

Bits(tag, n) == [as |-> ViewOf(tag), val |-> n]
NulBits      == Bits("NUL", 0)

\* value_falsy: null, and the number or boolean zero; anything else is truthy.
Falsy(tag, bits) == tag = "NUL" \/ (tag \in NumType \cup {"BOOL"} /\ bits.val = 0)

-----------------------------------------------------------------------------
(* Opcodes.  `from' and `to' are the SRC_TAG and DST_TAG of CAST_TYPED.    *)

BinopOf(tag) ==
  CASE tag = "I64"    -> {"ADD", "SUB", "MUL", "DIV", "MOD", "AND", "OR", "XOR", "SHL", "SHR"}
    [] tag = "U64"    -> {"ADD_U", "SUB_U", "MUL_U", "DIV_U", "MOD_U",
                          "AND_U", "OR_U", "XOR_U", "SHL_U", "SHR_U"}
    [] tag = "FLOAT"  -> {"ADD_F", "SUB_F", "MUL_F", "DIV_F"}
    [] tag = "DOUBLE" -> {"ADD_D", "SUB_D", "MUL_D", "DIV_D"}

CmpopOf(tag) ==
  CASE tag = "I64"    -> {"EQ", "NEQ", "GT", "GE", "LT", "LE"}
    [] tag = "U64"    -> {"EQ_U", "NEQ_U", "GT_U", "GE_U", "LT_U", "LE_U"}
    [] tag = "FLOAT"  -> {"EQ_F", "NEQ_F", "GT_F", "GE_F", "LT_F", "LE_F"}
    [] tag = "DOUBLE" -> {"EQ_D", "NEQ_D", "GT_D", "GE_D", "LT_D", "LE_D"}

UnopOf(tag) ==
  CASE tag = "I64"    -> {"NEG", "BNOT"}
    [] tag = "U64"    -> {"NEG_U", "BNOT_U"}
    [] tag = "FLOAT"  -> {"NEG_F"}
    [] tag = "DOUBLE" -> {"NEG_D"}

Casts ==
  { [op |-> "I2D", from |-> "I64",    to |-> "DOUBLE"],
    [op |-> "I2F", from |-> "I64",    to |-> "FLOAT"],
    [op |-> "D2I", from |-> "DOUBLE", to |-> "I64"],
    [op |-> "F2I", from |-> "FLOAT",  to |-> "I64"],
    [op |-> "I2U", from |-> "I64",    to |-> "U64"],
    [op |-> "U2I", from |-> "U64",    to |-> "I64"],
    [op |-> "U2D", from |-> "U64",    to |-> "DOUBLE"],
    [op |-> "U2F", from |-> "U64",    to |-> "FLOAT"],
    [op |-> "D2U", from |-> "DOUBLE", to |-> "U64"],
    [op |-> "F2U", from |-> "FLOAT",  to |-> "U64"] }

\* Every opcode that has a case in vm_run; the others (TAILCALL, SAR, the heap,
\* array, table and string opcodes, and bytes past the enum) fall to its default.
Implemented ==
  { "HALT", "PANIC", "JMP", "JMPIF", "JMPIFZ", "COPY", "MOVE", "LOADI", "LOADC",
    "LOADG", "STOREG", "CALL", "RET", "LNOT" }
    \cup { c.op : c \in Casts }
    \cup UNION { BinopOf(t) \cup CmpopOf(t) \cup UnopOf(t) : t \in NumType }

=============================================================================

------------------------------- MODULE Chunk -------------------------------
(***************************************************************************)
(* A compiled chunk as the VM has it after a load: the instructions, split *)
(* into their fields, the two pools and the functions of the constants.    *)
(***************************************************************************)
EXTENDS Typing, Sequences

CONSTANTS
  Byte,           \* 256 in the code: the values an operand field can hold
  MaxRegisters    \* MAX_REGISTERS, 65536, which is also 2^16

Operand == 0 .. Byte - 1
Reg     == 0 .. MaxRegisters - 1
Instr   == [op : STRING, a : Operand, b : Operand, c : Operand]

\* A callable of the constant pool is an index into the functions, 0 for NULL.
\* A NATIVE function whose C pointer is NULL has entry 0.
Func    == [kind : {"BYTECODE", "NATIVE"}, entry : Nat, argc : Nat, regc : Reg]
Held(n) == { p \in Payload : p.as = "fn" => p.val \in 0 .. n }

\* A value that is what its tag says; a callable that no loader patched is raw.
Agree(tag, bits) ==
  \/ bits.as = ViewOf(tag) /\ (tag \in NumType \cup {"BOOL"} => bits.val \in DataOf(tag))
  \/ tag = "CALLABLE" /\ bits.as = "raw"

Program == { p \in [code    : Seq(Instr),
                    consts  : Seq(Value),
                    globals : Seq(Value),
                    funcs   : Seq(Func)] :
               /\ p.code # << >>
               /\ \A pool \in {p.consts, p.globals} :
                    \A k \in 1 .. Len(pool) :
                      /\ pool[k].bits \in Held(Len(p.funcs))
                      /\ Agree(pool[k].type, pool[k].bits) }

=============================================================================

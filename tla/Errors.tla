------------------------------- MODULE Errors -------------------------------
(***************************************************************************)
(* The panic codes, by their position in the enum of vm/errors.h.          *)
(***************************************************************************)

NO_ERROR                  == 0
PANIC_FILE                == 1
PANIC_OOB                 == 2
PANIC_NO_HALT             == 3
PANIC_BAD_MAGIC           == 4
PANIC_UNSUPPORTED_VERSION == 5
PANIC_EMPTY_PROGRAM       == 6
PANIC_PROGRAM_TOO_BIG     == 7
PANIC_OOM                 == 8
PANIC_TRUNCATED_CODE      == 9
PANIC_CONST_READ          == 10
PANIC_GLOBAL_READ         == 11
PANIC_REG_LIMIT           == 12
PANIC_STACK_OVERFLOW      == 13
PANIC_STACK_UNDERFLOW     == 14
PANIC_INVALID_CALLABLE    == 15
PANIC_CALL_FAILED         == 16
PANIC_TYPE_MISMATCH       == 17
PANIC_INVALID_OPCODE      == 18

\* Mutant: the last code is not counted.
CountShort       == 18
PANIC_CODE_COUNT == 19
=============================================================================

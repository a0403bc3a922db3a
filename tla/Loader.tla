------------------------------- MODULE Loader -------------------------------
(***************************************************************************)
(* The life of a VM in the process: main (vm/vm.c) makes one, vm_load_file *)
(* (io/reader.c) and vm_load (vm/vm.c) fill it from a .stk file, vm_run    *)
(* uses it and vm_free takes it down.  What is modelled is who owns which  *)
(* allocation, through every point where an allocation or a read can fail. *)
(*                                                                         *)
(* vm_load_file is one action per allocation or read, each with the checks *)
(* and the goto that follow it.  The FILE handle counts as an allocation.  *)
(***************************************************************************)
EXTENDS Integers, Sequences, FiniteSets, Errors

CONSTANTS
  Files,     \* the files the path may lead to
  MaxCount,  \* UINT32_MAX / sizeof(Instruction): more instructions are refused
  Codes      \* what panic_code may be when vm_run returns

\* A file by what the loader tells apart.  `pool' says which constants are
\* callables; `whole' how many of the sections code, constants and globals are
\* there in full.
File == [opens   : BOOLEAN,
         header  : {"short", "bad_magic", "newer", "good"},
         count   : Nat,
         pool    : Seq(BOOLEAN),
         globals : Nat,
         whole   : 0 .. 3]

ASSUME FilesAssumption    == Files \subseteq File
ASSUME MaxCountAssumption == MaxCount \in Nat \ {0}
ASSUME CodesAssumption    == Codes \subseteq Nat

\* An allocation is named by the variable that receives it; a Func also by the
\* constant it is made for.
NULL      == <<"NULL", 0>>
Block(nm) == <<nm, 0>>
Fn(k)     == <<"fn", k>>

VARIABLES
  file,      \* the file behind the path
  pc,        \* what is executed next
  vm,        \* the fields of the VM that own memory, with funccount and panic_code
  local,     \* the locals of vm_load_file; i counts from 1
  table,     \* the entries of the funcs array
  payload,   \* what the 8 bytes of a constant hold: a Func pointer, or NULL if raw
  live,      \* the allocations that have not been freed
  misuse,    \* whether something was freed that was not live
  exit       \* the exit code of the process

heap == <<live, misuse>>
pool == <<table, payload>>
vars == <<file, pc, vm, local, pool, heap, exit>>

Pc == {"start", "header", "code", "regs", "consts", "patch", "globals", "load",
       "fail_code", "fail_file", "not_loaded", "loaded", "ran", "refused", "exited"}

Blocks == { Block(nm) : nm \in {"f", "code", "regs", "consts", "funcs", "file_globals",
                                "globals", "frames"} }
          \cup { Fn(k) : k \in 1 .. Len(file.pool) }
Pointer == Blocks \cup {NULL}

TypeOK ==
  /\ file \in Files
  /\ pc \in Pc
  /\ vm \in [regs : Pointer, funcs : Pointer, istream : Pointer, frames : Pointer,
             globals : Pointer, consts : Pointer, funccount : 0 .. Len(file.pool),
             panic_code : Nat]
  /\ local \in [f : Pointer, code : Pointer, funcs : Pointer, consts : Pointer,
                globals : Pointer, err : Nat, i : 1 .. Len(file.pool) + 1]
  /\ table \in [1 .. Len(file.pool) -> Pointer]
  /\ payload \in [1 .. Len(file.pool) -> Pointer]
  /\ live \subseteq Blocks
  /\ misuse \in BOOLEAN
  /\ exit \in Nat

\* vm_init, and the locals at the top of vm_load_file.
NewVM == [regs |-> NULL, funcs |-> NULL, istream |-> NULL, frames |-> NULL,
          globals |-> NULL, consts |-> NULL, funccount |-> 0, panic_code |-> NO_ERROR]

Init ==
  /\ file \in Files
  /\ pc = "start"
  /\ vm = NewVM
  /\ local = [f |-> NULL, code |-> NULL, funcs |-> NULL, consts |-> NULL,
              globals |-> NULL, err |-> NO_ERROR, i |-> 1]
  /\ table = [k \in 1 .. Len(file.pool) |-> NULL]
  /\ payload = [k \in 1 .. Len(file.pool) |-> NULL]
  /\ live = {}
  /\ misuse = FALSE
  /\ exit = 0

-----------------------------------------------------------------------------
(* Memory                                                                  *)

\* malloc, calloc and fopen: the block and what follows, or what a failure does.
Allocate(b, Done, Failed) ==
  /\ UNCHANGED misuse
  /\ \/ live' = live \cup {b} /\ Done
     \/ UNCHANGED live /\ Failed

\* A group of calls of free and fclose; freeing NULL is nothing.
Free(bs) ==
  /\ live' = live \ bs
  /\ misuse' = (misuse \/ ~(bs \ {NULL} \subseteq live))

\* goto fail_code and goto fail_file
Fail(label, code) ==
  /\ pc' = label
  /\ local' = [local EXCEPT !.err = code]

-----------------------------------------------------------------------------
(* vm_load_file                                                            *)

OpenFile ==
  /\ pc = "start"
  /\ IF file.opens
     THEN Allocate(Block("f"),
            pc' = "header" /\ local' = [local EXCEPT !.f = Block("f")] /\ UNCHANGED vm,
            pc' = "not_loaded" /\ vm' = [vm EXCEPT !.panic_code = PANIC_FILE] /\ UNCHANGED local)
     ELSE /\ pc' = "not_loaded"
          /\ vm' = [vm EXCEPT !.panic_code = PANIC_FILE]
          /\ UNCHANGED <<heap, local>>
  /\ UNCHANGED <<file, pool, exit>>

HeaderError ==
  CASE file.header \in {"short", "bad_magic"} -> PANIC_BAD_MAGIC
    [] file.header = "newer"                  -> PANIC_UNSUPPORTED_VERSION
    [] file.header = "good" /\ file.count = 0 -> PANIC_EMPTY_PROGRAM
    [] file.header = "good" /\ file.count > MaxCount -> PANIC_PROGRAM_TOO_BIG
    [] OTHER -> NO_ERROR

ReadHeader ==
  /\ pc = "header"
  /\ IF HeaderError # NO_ERROR
     THEN Fail("fail_file", HeaderError) /\ UNCHANGED heap
     ELSE Allocate(Block("code"),
            pc' = "code" /\ local' = [local EXCEPT !.code = Block("code")],
            Fail("fail_file", PANIC_OOM))
  /\ UNCHANGED <<file, vm, pool, exit>>

ReadCode ==
  /\ pc = "code"
  /\ IF file.whole < 1
     THEN Fail("fail_code", PANIC_TRUNCATED_CODE)
     ELSE pc' = "regs" /\ UNCHANGED local
  /\ UNCHANGED <<file, vm, pool, heap, exit>>

\* Without registers the code goes to panic_code, and err is still 0.
MakeRegs ==
  /\ pc = "regs"
  /\ Allocate(Block("regs"),
       pc' = "consts" /\ vm' = [vm EXCEPT !.regs = Block("regs")] /\ UNCHANGED local,
       Fail("fail_code", local.err) /\ vm' = [vm EXCEPT !.panic_code = PANIC_OOM])
  /\ UNCHANGED <<file, pool, exit>>

\* What vm_load_file has in hand when the constants, or the array for the
\* functions, cannot be had.  Mutants: the constants are forgotten; the code is.
PoolFailedForgetful == [local EXCEPT !.err = IF file.whole < 2 THEN PANIC_CONST_READ ELSE PANIC_OOM]
PoolFailedUncoded == [local EXCEPT !.consts = Block("consts")]
PoolFailed ==
  [local EXCEPT !.consts = Block("consts"),
                !.err = IF file.whole < 2 THEN PANIC_CONST_READ ELSE PANIC_OOM]

ReadConsts ==
  /\ pc = "consts"
  /\ IF file.pool = << >>
     THEN pc' = "globals" /\ UNCHANGED <<live, local>>
     ELSE \/ Fail("fail_code", PANIC_CONST_READ) /\ UNCHANGED live
          \/ /\ pc' = "fail_code"
             /\ local' = PoolFailed
             /\ live' = live \cup {Block("consts")}
          \/ /\ file.whole >= 2 /\ pc' = "patch"
             /\ local' = [local EXCEPT !.consts = Block("consts"), !.funcs = Block("funcs")]
             /\ live' = live \cup {Block("consts"), Block("funcs")}
  /\ UNCHANGED <<misuse, file, vm, pool, exit>>

\* A callable gets a Func, in the entry of the array with the number of the
\* constant, and its bytes become the pointer.
\* Mutants: the pointer goes into the array only; the function is counted twice.
UnpatchedPayload(k) == payload
PatchedPayload(k) == [payload EXCEPT ![k] = Fn(k)]
CountedTwice == vm.funccount + 2
Counted == vm.funccount + 1

StoreFunc(k) ==
  /\ table' = [table EXCEPT ![k] = Fn(k)]
  /\ payload' = PatchedPayload(k)
  /\ vm' = [vm EXCEPT !.funccount = Counted]

\* One round of the loop over the constants.
Patch ==
  /\ pc = "patch" /\ local.i <= Len(file.pool)
  /\ IF file.pool[local.i]
     THEN Allocate(Fn(local.i),
            StoreFunc(local.i) /\ local' = [local EXCEPT !.i = @ + 1] /\ UNCHANGED pc,
            Fail("fail_code", PANIC_OOM) /\ UNCHANGED <<vm, pool>>)
     ELSE local' = [local EXCEPT !.i = @ + 1] /\ UNCHANGED <<pc, vm, pool, heap>>
  /\ UNCHANGED <<file, exit>>

\* The VM owns the functions from here on, and so does the local.
ReadGlobals ==
  /\ \/ pc = "globals"
     \/ pc = "patch" /\ local.i > Len(file.pool)
  /\ vm' = [vm EXCEPT !.funcs = local.funcs]
  /\ IF file.globals = 0 THEN pc' = "load" /\ UNCHANGED <<heap, local>>
     ELSE Allocate(Block("file_globals"),
            IF file.whole < 3
            THEN /\ pc' = "fail_code"
                 /\ local' = [local EXCEPT !.globals = Block("file_globals"),
                                           !.err = PANIC_GLOBAL_READ]
            ELSE /\ pc' = "load"
                 /\ local' = [local EXCEPT !.globals = Block("file_globals")],
            Fail("fail_code", PANIC_GLOBAL_READ))
  /\ UNCHANGED <<file, pool, exit>>

\* fclose, then vm_load, then the copy of the globals is freed.  An instruction
\* stream that the VM already has is freed by vm_load; there are instructions,
\* so vm_load cannot come back without one, and when its own calloc for the
\* globals fails the file is loaded all the same.
Load ==
  /\ pc = "load"
  /\ pc' = "loaded"
  /\ local' = [local EXCEPT !.f = NULL, !.globals = NULL]
  /\ LET freed  == {local.f, local.globals}
                   \cup (IF vm.istream # local.code THEN {vm.istream} ELSE {})
         loaded == [vm EXCEPT !.istream = local.code, !.consts = local.consts,
                              !.panic_code = NO_ERROR]
     IN \/ /\ file.globals = 0
           /\ Free(freed)
           /\ vm' = loaded
        \/ /\ file.globals > 0
           /\ vm' = [loaded EXCEPT !.globals = NULL, !.panic_code = PANIC_OOM]
           /\ Free(freed)
        \/ /\ file.globals > 0
           /\ vm' = [loaded EXCEPT !.globals = Block("globals")]
           /\ live' = (live \ freed) \cup {Block("globals")}
           /\ misuse' = (misuse \/ ~(freed \ {NULL} \subseteq live))
  /\ UNCHANGED <<file, pool, exit>>

\* The VM after the cleanup.
\* Mutants: it keeps the function array that was freed, or the count of it.
CleanedVMDangling == [vm EXCEPT !.regs = NULL]
CleanedVMCounting == [vm EXCEPT !.regs = NULL, !.funcs = NULL]
CleanedVM ==
  IF local.funcs = NULL THEN [vm EXCEPT !.regs = NULL]
  ELSE [vm EXCEPT !.regs = NULL, !.funcs = NULL, !.funccount = 0]

FailCode ==
  /\ pc = "fail_code"
  /\ Free({local.code, local.consts, local.globals, vm.regs}
          \cup (IF local.funcs = NULL THEN {}
                ELSE {local.funcs} \cup { table[k] : k \in 1 .. Len(file.pool) }))
  /\ vm' = CleanedVM
  /\ local' = [local EXCEPT !.consts = NULL, !.globals = NULL]
  /\ pc' = "fail_file"
  /\ UNCHANGED <<file, pool, exit>>

FailFile ==
  /\ pc = "fail_file"
  /\ Free({local.f})
  /\ vm' = [vm EXCEPT !.panic_code = local.err]
  /\ pc' = "not_loaded"
  /\ UNCHANGED <<file, local, pool, exit>>

-----------------------------------------------------------------------------
(* main                                                                    *)

\* vm_free: the array of functions is walked up to funccount.
\* Mutant: the last one of them is not reached.
FreedShort ==
  {vm.regs, vm.funcs, vm.istream, vm.frames, vm.globals, vm.consts}
  \cup (IF vm.funcs = NULL THEN {} ELSE { table[k] : k \in 1 .. vm.funccount - 1 })
Freed ==
  {vm.regs, vm.funcs, vm.istream, vm.frames, vm.globals, vm.consts}
  \cup (IF vm.funcs = NULL THEN {} ELSE { table[k] : k \in 1 .. vm.funccount })

VmFree ==
  /\ Free(Freed)
  /\ vm' = [NewVM EXCEPT !.funccount = IF vm.funcs = NULL THEN vm.funccount ELSE 0]

\* The exit code is read from the VM that vm_free has just reset.
Refuse ==
  /\ pc = "not_loaded"
  /\ VmFree
  /\ exit' = IF vm'.panic_code # NO_ERROR THEN vm'.panic_code ELSE 1
  /\ pc' = "refused"
  /\ UNCHANGED <<file, local, pool>>

\* vm_run, by what it does to the memory of the VM: its frames, and the code it
\* ends with.  What it does to everything else is in StickVM.
Run ==
  /\ pc = "loaded"
  /\ pc' = "ran"
  /\ Allocate(Block("frames"),
       \E code \in Codes :
         vm' = [vm EXCEPT !.frames = Block("frames"), !.panic_code = code],
       vm' = [vm EXCEPT !.panic_code = PANIC_OOM])
  /\ UNCHANGED <<file, local, pool, exit>>

\* Mutant: the exit code is read from the VM that was freed, as it is in Refuse.
FreedCode == vm'.panic_code
ExitCode == vm.panic_code

Exit ==
  /\ pc = "ran"
  /\ VmFree
  /\ exit' = ExitCode
  /\ pc' = "exited"
  /\ UNCHANGED <<file, local, pool>>

-----------------------------------------------------------------------------

\* The process is over.
Terminated == pc \in {"refused", "exited"} /\ UNCHANGED vars

Next ==
  \/ OpenFile \/ ReadHeader \/ ReadCode \/ MakeRegs \/ ReadConsts \/ Patch
  \/ ReadGlobals \/ Load \/ FailCode \/ FailFile
  \/ Refuse \/ Run \/ Exit \/ Terminated

Spec == Init /\ [][Next]_vars

-----------------------------------------------------------------------------
(* Properties                                                              *)

Callables == { k \in 1 .. Len(file.pool) : file.pool[k] }

\* On no path through the gotos, the hand-over of the functions to the VM and
\* the vm_free of main is anything freed that is not allocated.
FreedOnce == ~misuse

\* Whatever has been allocated when vm_load_file gives up, runs on or returns,
\* something still points to it: no failure forgets what it has read so far.
NothingLost ==
  pc \notin {"fail_file", "refused", "exited"} =>
    live \subseteq
      {vm.regs, vm.funcs, vm.istream, vm.frames, vm.globals, vm.consts,
       local.f, local.code, local.funcs, local.consts, local.globals}
      \cup { table[k] : k \in 1 .. Len(file.pool) }

\* A load that fails, wherever it fails, leaves the VM as vm_init made it but
\* for the panic code, and no allocation behind.
FailedLoadIsClean ==
  pc = "not_loaded" => live = {} /\ vm = [NewVM EXCEPT !.panic_code = vm.panic_code]

\* The cleanup overwrites panic_code with err.  Every failure that reaches it
\* has set err, but for one: without registers the code is in panic_code alone,
\* and is lost.
FailureHasCode ==
  pc \in {"fail_code", "fail_file"} /\ local.err = NO_ERROR =>
    vm.regs = NULL /\ vm.panic_code = PANIC_OOM

\* While a program runs, each of its callable constants is a pointer to a Func
\* of its own that is allocated, and no other constant was touched.
PoolPatched ==
  pc \in {"loaded", "ran"} =>
    \A k \in 1 .. Len(file.pool) :
      IF file.pool[k] THEN payload[k] = Fn(k) /\ Fn(k) \in live ELSE payload[k] = NULL

\* What a process leaves behind: nothing after a failed load, and otherwise the
\* functions whose constant has a higher number than there are callables, since
\* the array is indexed by the constant and vm_free counts by the callable.
\* When the callables come first in the pool, that is nothing.
Leftovers ==
  /\ pc = "refused" => live = {}
  /\ pc = "exited"  => live = { Fn(k) : k \in { j \in Callables : j > Cardinality(Callables) } }

-----------------------------------------------------------------------------
(* What the comments of the repository say, and the code does not do.      *)

\* vm_free: "free up everything allocated by the `VM` to not leak memory".
NoLeak == pc = "exited" => live = {}

\* main: "if failed free safely, return panic code or 1 if no code".
ExitTellsWhy ==
  [][pc = "not_loaded" =>
       exit' = IF vm.panic_code # NO_ERROR THEN vm.panic_code ELSE 1]_vars

=============================================================================

------------------------------ MODULE Process ------------------------------
(***************************************************************************)
(* One run of the binary on one test, from utils/runner.py starting it to  *)
(* the verdict: main (vm/vm.c) calls the Loader, then the interpreter of   *)
(* StickVM on what was loaded, then vm_free, and the runner makes of the   *)
(* exit code a pass or a fail.                                             *)
(*                                                                         *)
(* Both components keep their own state; this module says how they share   *)
(* the VM.  The file holds the program, the interpreter starts with what   *)
(* vm_load could allocate, and what vm_run leaves in the VM is what        *)
(* vm_free takes down and what the exit code comes from.                   *)
(***************************************************************************)
EXTENDS Integers, Sequences, FiniteSets, Errors

CONSTANTS
  HalfWord, Width, Byte, MaxRegisters, BaseRegisters, MaxFrames, FirstFrameCap,
  Programs,                 \* the parameters of StickVM
  Files, MaxCount, Codes    \* and of Loader

VARIABLES
  file, pc, vm, local, table, payload, live, misuse, exit,   \* Loader
  prog, ip, types, payloads, globals, frames, framecap, block, current, panic_code,
  status,                                                    \* StickVM, or "unloaded"
  said,       \* the code whose message vm_panic printed, or NO_ERROR
  valgrind,   \* whether the runner was told to run the binary under valgrind
  verdict     \* what the runner makes of it

loader   == <<file, pc, vm, local, table, payload, live, misuse, exit>>
machine  == <<prog, ip, types, payloads, globals, frames, framecap, block, current,
              panic_code, status>>
observed == <<said, valgrind, verdict>>
vars     == <<loader, machine, observed>>

L == INSTANCE Loader
M == INSTANCE StickVM

\* The programs that a file can hold: the loader makes a bytecode function of its
\* own for every callable constant, and has no way to make a native one.
Callables(p) == { k \in DOMAIN p.consts : p.consts[k].type = "CALLABLE" }
ConstOf(p, fn) == CHOOSE k \in Callables(p) : p.consts[k].bits.val = fn
Storable(p) ==
  /\ { p.consts[k].bits : k \in Callables(p) } = { M!Bits("CALLABLE", fn) : fn \in DOMAIN p.funcs }
  /\ Cardinality(Callables(p)) = Len(p.funcs)
  /\ \A fn \in DOMAIN p.funcs : p.funcs[fn].kind = "BYTECODE"

\* The constants are what the two components assume of them, and every code that a
\* run can end with, the operand of a PANIC or a panic code, is one the loader
\* expects.
ASSUME MachineAssumption ==
  /\ HalfWord \in Nat \ {0} /\ Width \in Nat /\ M!PowerOf2[Width] = 2 * HalfWord
  /\ Byte \in Nat \ {0} /\ Byte * Byte <= 2 * HalfWord
  /\ MaxRegisters \in Nat /\ BaseRegisters \in 1 .. MaxRegisters - 1
  /\ MaxFrames \in Nat \ {0} /\ FirstFrameCap \in 1 .. MaxFrames
  /\ Programs \subseteq M!Program
ASSUME FileAssumption ==
  /\ Files \subseteq L!File /\ MaxCount \in Nat \ {0}
  /\ Codes \subseteq Nat
  /\ 0 .. Byte - 1 \subseteq Codes /\ 0 .. PANIC_INVALID_OPCODE \subseteq Codes

ASSUME StorableAssumption == \A p \in Programs : Storable(p)

Holding(p) ==
  { f \in Files : /\ f.count = Len(p.code)
                  /\ f.pool = [k \in DOMAIN p.consts |-> k \in Callables(p)]
                  /\ f.globals = Len(p.globals) }

Init ==
  /\ prog \in Programs
  /\ L!Init
  /\ file \in Holding(prog)
  /\ ip = 0
  /\ types = [r \in M!Reg |-> "NUL"]
  /\ payloads = [r \in M!Reg |-> M!NulBits]
  /\ globals = << >>
  /\ frames = << >> /\ framecap = 0 /\ block = 0
  /\ current = [block |-> 0, index |-> 0]
  /\ panic_code = NO_ERROR
  /\ status = "unloaded"
  /\ said = NO_ERROR
  /\ valgrind \in BOOLEAN
  /\ verdict = "none"

-----------------------------------------------------------------------------
(* main                                                                    *)

Loading ==
  /\ \/ L!OpenFile \/ L!ReadHeader \/ L!ReadCode \/ L!MakeRegs \/ L!ReadConsts
     \/ L!Patch \/ L!ReadGlobals \/ L!FailCode \/ L!FailFile \/ L!Refuse
  /\ UNCHANGED <<machine, observed>>

\* vm_load sets globalcount behind the check of its calloc, so that without the
\* array there are no globals.  Mutant: it sets the count before.
GlobalsCounted == prog.globals
GlobalsLoaded  == IF vm'.globals = L!NULL THEN << >> ELSE prog.globals

Boot ==
  /\ L!Load
  /\ status' = "loaded"
  /\ globals' = GlobalsLoaded
  /\ panic_code' = vm'.panic_code
  /\ UNCHANGED <<prog, ip, types, payloads, frames, framecap, block, current, observed>>

Execute ==
  /\ pc = "loaded"
  /\ M!Step
  /\ UNCHANGED <<loader, observed>>

\* The frame array as vm_run leaves it.  Mutant: push_frame keeps what realloc
\* returned to itself.
FramesForgotten == L!NULL
FramesLeft == IF block = 0 THEN L!NULL ELSE L!Block("frames")

Return ==
  /\ pc = "loaded" /\ status \in {"ok", "failed"}
  /\ pc' = "ran"
  /\ vm' = [vm EXCEPT !.frames = FramesLeft, !.panic_code = panic_code]
  /\ live' = IF block = 0 THEN live ELSE live \cup {L!Block("frames")}
  /\ UNCHANGED <<file, local, table, payload, misuse, exit, machine, observed>>

\* vm_panic, by the code whose message it prints: none, past the last panic code.
Said(code) == IF code < PANIC_CODE_COUNT THEN code ELSE NO_ERROR

Finish ==
  /\ L!Exit
  /\ said' = IF status = "failed" /\ vm.panic_code # NO_ERROR
             THEN Said(vm.panic_code) ELSE NO_ERROR
  /\ UNCHANGED <<machine, valgrind, verdict>>

-----------------------------------------------------------------------------
(* utils/runner.py: valgrind exits with the code of the binary.            *)

Passes(code) == IF valgrind THEN code \in {0, 1} ELSE code = 0

\* A process that a signal ended has a negative return code; one that went past
\* what C defines may have any.
Judge ==
  /\ verdict = "none"
  /\ \/ /\ pc \in {"refused", "exited"}
        /\ verdict' = IF Passes(exit) THEN "PASS" ELSE "FAIL"
     \/ status = "trap" /\ verdict' = "FAIL"
     \/ status = "wild" /\ verdict' \in {"PASS", "FAIL"}
  /\ UNCHANGED <<loader, machine, said, valgrind>>

-----------------------------------------------------------------------------

Step == Loading \/ Boot \/ Execute \/ Return \/ Finish \/ Judge

Terminated == verdict # "none" /\ UNCHANGED vars

Next == Step \/ Terminated

\* The process is scheduled, and the runner waits for it without a timeout.
Spec == Init /\ [][Next]_vars /\ WF_vars(Step)

-----------------------------------------------------------------------------
(* Properties                                                              *)

Defined == status \notin {"wild", "trap"}

\* What a verdict is worth.  Without valgrind a test passes exactly when vm_run
\* returned true or the program chose PANIC 0: no failed load and no failure of
\* the machine ends in a pass, through all that is freed and reset on the way to
\* the exit code.  Under valgrind a file that does not load passes as well, and so
\* does the PANIC 1 by which every test of utils/test.py reports that it failed.
VerdictTells ==
  verdict # "none" /\ Defined =>
    (verdict = "PASS" <=>
       \/ status = "ok"
       \/ status = "failed" /\ panic_code = NO_ERROR
       \/ valgrind /\ (status = "unloaded" \/ panic_code = PANIC_FILE))

\* Every function the interpreter can get at while it runs, from a frame, a
\* register or a global, is one that the loader has allocated and not freed, and
\* that its constant points to: a CALL never follows bytes that were not patched
\* (a global that the file stores as a callable is no function, and never is).
CalleesLive ==
  LET held == { fn \in { payloads[r].val : r \in { s \in M!Reg : payloads[s].as = "fn" } }
                       \cup { globals[g].bits.val : g \in { h \in DOMAIN globals : globals[h].bits.as = "fn" } }
                       \cup { frames[i].callee : i \in DOMAIN frames } : fn # 0 }
  IN status \in {"loaded", "running"} =>
       \A fn \in held : LET func == L!Fn(ConstOf(prog, fn)) IN
         func \in live /\ payload[ConstOf(prog, fn)] = func

\* Every failure that vm_run itself reports reaches stderr with its own message
\* and the shell with its own code, whatever the cleanup in between resets; only
\* a PANIC of the program can end without a message.
FailureIsSaid ==
  pc = "exited" /\ status = "failed" =>
    \/ said = panic_code /\ exit = panic_code /\ exit # NO_ERROR
    \/ /\ ip \in DOMAIN prog.code /\ prog.code[ip].op = "PANIC"
       /\ exit = prog.code[ip].a
       /\ said = IF exit \in 1 .. M!PANIC_INVALID_OPCODE THEN exit ELSE NO_ERROR

\* vm_load_file takes a file for loaded although its globals could not be had, and
\* vm_run wipes the code that says so.  The program then stops at the first
\* instruction that needs a global: it never reads or writes a missing one.
LostGlobals ==
  [][pc = "loaded" /\ file.globals > 0 /\ L!Block("globals") \notin live
       /\ M!AtInstr /\ M!Ins.op \in {"LOADG", "STOREG"}
     => status' = "failed" /\ panic_code' = PANIC_OOB]_vars

\* The loader sees of the interpreter only what Loader says of vm_run: nothing
\* that a program does disturbs an allocation the VM owns, and the frame array it
\* leaves, or does not get, is the VM's to free.
LoaderSpec == L!Spec

\* A test without a backward jump gets a verdict, whatever fails on the way: the
\* gotos of the loader, the calls of the program and the cleanup all end.
Verdict == M!NoBackwardJump => <>(verdict # "none")

=============================================================================

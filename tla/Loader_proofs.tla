--------------------------- MODULE Loader_proofs ---------------------------
(***************************************************************************)
(* Theorems about Loader, for every set of files, every instruction limit  *)
(* and every set of codes vm_run may end with.                             *)
(*                                                                         *)
(* The invariant is that the heap is exactly what the pointers say: up to  *)
(* the cleanup and after a load, an allocation is live if and only if one  *)
(* of the locals of vm_load_file, a field of the VM or an entry of the     *)
(* function table points to it.                                            *)
(***************************************************************************)
EXTENDS Loader, FiniteSetTheorems, TLAPS

-----------------------------------------------------------------------------
(* The inductive invariant                                                 *)

Entries == 1 .. Len(file.pool)

\* The callables that the patch loop has been through, and their Funcs.
Made  == { k \in Callables : k < local.i }
Funcs == { Fn(k) : k \in Made }

\* Where the load has failed, or the process is over.
Done == {"fail_file", "not_loaded", "refused", "exited"}

\* The pointers that own an allocation.  istream, consts and funcs of the VM
\* are copies of the locals.
Owners ==
  {local.f, local.code, local.consts, local.funcs, local.globals,
   vm.regs, vm.globals, vm.frames}

\* A pointer is null or points to the allocation of its name.
Named ==
  /\ local.f       \in {NULL, Block("f")}
  /\ local.code    \in {NULL, Block("code")}
  /\ local.consts  \in {NULL, Block("consts")}
  /\ local.funcs   \in {NULL, Block("funcs")}
  /\ local.globals \in {NULL, Block("file_globals")}
  /\ vm.regs       \in {NULL, Block("regs")}
  /\ vm.globals    \in {NULL, Block("globals")}
  /\ vm.frames     \in {NULL, Block("frames")}
  /\ vm.funcs      \in {NULL, local.funcs}
  /\ pc \in {"loaded", "ran"} =>
       vm.istream = local.code /\ vm.consts = local.consts
  /\ pc \in {"load", "loaded", "ran"} => vm.funcs = local.funcs
  /\ pc \notin {"loaded", "ran"} =>
       vm.istream = NULL /\ vm.consts = NULL /\ vm.globals = NULL /\ vm.frames = NULL

\* How far the load has come.
Progress ==
  /\ pc \in {"start", "loaded", "ran"} => local.f = NULL
  /\ pc \in {"start", "header"} => local.code = NULL
  /\ pc \in {"start", "header", "code", "regs", "consts", "globals"} =>
       local.consts = NULL /\ local.funcs = NULL
  /\ pc \in {"start", "header", "code", "regs"} => vm.regs = NULL
  /\ pc \in {"start", "header", "code", "regs", "consts", "patch", "globals",
             "loaded", "ran"} => local.globals = NULL
  /\ pc \in {"header", "code", "regs", "consts", "patch", "globals", "load",
             "fail_code"} => local.f = Block("f")
  /\ pc = "patch" => local.funcs = Block("funcs")
  /\ pc = "globals" => file.pool = << >>
  /\ local.i > 1 => local.funcs = Block("funcs")
  /\ pc \in {"load", "loaded", "ran", "exited"} => local.i = Len(file.pool) + 1
  /\ pc = "loaded" => vm.frames = NULL
  /\ pc \in Done => vm = [NewVM EXCEPT !.panic_code = vm.panic_code]

\* The function table, the constants and the count after so many rounds.
Patched ==
  /\ table   = [k \in Entries |-> IF k \in Made THEN Fn(k) ELSE NULL]
  /\ payload = table
  /\ pc \notin Done => vm.funccount = Cardinality(Made)

\* What is allocated.
Owned ==
  /\ pc \notin Done => live = (Owners \ {NULL}) \cup Funcs
  /\ pc = "fail_file" => live = {local.f} /\ local.f # NULL
  /\ pc \in {"not_loaded", "refused"} => live = {}
  /\ pc = "exited" =>
       live = { Fn(k) : k \in { j \in Callables : j > Cardinality(Callables) } }

\* The types of the VM and of the locals, as TypeOK has them.
VMs ==
  [regs : Pointer, funcs : Pointer, istream : Pointer, frames : Pointer,
   globals : Pointer, consts : Pointer, funccount : 0 .. Len(file.pool), panic_code : Nat]
Locals ==
  [f : Pointer, code : Pointer, funcs : Pointer, consts : Pointer,
   globals : Pointer, err : Nat, i : 1 .. Len(file.pool) + 1]

LoaderInv ==
  /\ TypeOK /\ Named /\ Progress /\ Patched /\ Owned
  /\ FreedOnce /\ FailureHasCode

-----------------------------------------------------------------------------
(* Names of allocations, and what follows from the types                   *)

\* Two allocations with different names are different, and none is NULL.
LEMMA Names ==
  /\ \A x, y : Block(x) = Block(y) => x = y
  /\ \A j, k : Fn(j) = Fn(k) => j = k
  /\ \A x, k : x # "fn" => Block(x) # Fn(k)
  /\ \A x : x # "NULL" => Block(x) # NULL
  /\ \A k : Fn(k) # NULL
BY DEF Block, Fn, NULL

\* What is an allocation, and what a pointer.
LEMMA PointerTypes ==
  /\ \A nm \in {"f", "code", "regs", "consts", "funcs", "file_globals", "globals", "frames"} :
       Block(nm) \in Blocks
  /\ \A k \in Entries : Fn(k) \in Blocks
  /\ Blocks \subseteq Pointer
  /\ NULL \in Pointer
BY DEF Blocks, Pointer, Entries

LEMMA FieldTypes ==
  ASSUME TypeOK
  PROVE  vm \in VMs /\ local \in Locals
BY DEF TypeOK, VMs, Locals

\* A step that neither patches nor frees anything.
Keeps == UNCHANGED <<file, local.i, table, payload, vm.funccount, misuse, exit>>

\* After such a step the functions are the same, and the types are right if those
\* of what it changes are.
LEMMA SamePool ==
  ASSUME Keeps
  PROVE  /\ Made' = Made /\ Funcs' = Funcs
         /\ Entries' = Entries /\ Callables' = Callables
BY DEF Keeps, Made, Funcs, Entries, Callables

LEMMA StillTyped ==
  ASSUME TypeOK, UNCHANGED <<file, table, payload>>, pc' \in Pc, vm' \in VMs,
         local' \in Locals, live' \subseteq Blocks, misuse' \in BOOLEAN, exit' \in Nat
  PROVE  TypeOK'
<1>1. Blocks' = Blocks /\ Pointer' = Pointer
  BY DEF Blocks, Pointer
<1> QED
  BY <1>1 DEF TypeOK, VMs, Locals

LEMMA SameTypes ==
  ASSUME TypeOK, Keeps, pc' \in Pc, vm' \in VMs, local' \in Locals, live' \subseteq Blocks
  PROVE  TypeOK'
BY StillTyped DEF Keeps, TypeOK

LEMMA SamePatched ==
  ASSUME LoaderInv, Keeps, pc \notin Done
  PROVE  Patched'
BY SamePool DEF LoaderInv, Keeps, Patched

\* Until there is a function table the loop has made nothing.
LEMMA NoneMade ==
  ASSUME LoaderInv, local.funcs = NULL
  PROVE  local.i = 1 /\ Made = {} /\ Funcs = {} /\ (pc \notin Done => vm.funccount = 0)
<1>1. local.i = 1
  BY Names DEF LoaderInv, TypeOK, Progress
<1>2. Made = {}
  BY <1>1 DEF Made, Callables
<1> QED
  BY <1>1, <1>2, FS_EmptySet DEF Funcs, LoaderInv, Patched

\* Before it has registers the VM is as vm_init made it, but for the panic code.
LEMMA VMIsNew ==
  ASSUME LoaderInv, pc \notin Done \cup {"loaded", "ran"}, local.funcs = NULL, vm.regs = NULL
  PROVE  vm = [NewVM EXCEPT !.panic_code = vm.panic_code]
<1>1. vm.funccount = 0
  BY NoneMade
<1>2. vm.funcs = NULL /\ vm.istream = NULL /\ vm.consts = NULL /\ vm.globals = NULL /\ vm.frames = NULL
  BY DEF LoaderInv, Named
<1> QED
  BY <1>1, <1>2 DEF LoaderInv, TypeOK, NewVM

-----------------------------------------------------------------------------
(* Every step preserves the invariant                                      *)

LEMMA OpenFileKeeps ==
  ASSUME LoaderInv, OpenFile
  PROVE  LoaderInv'
<1>1. /\ pc = "start" /\ Keeps
      /\ \/ /\ pc' = "header" /\ live' = live \cup {Block("f")} /\ vm' = vm
            /\ local' = [local EXCEPT !.f = Block("f")]
         \/ /\ pc' = "not_loaded" /\ live' = live /\ local' = local
            /\ vm' = [vm EXCEPT !.panic_code = PANIC_FILE]
  BY DEF LoaderInv, TypeOK, OpenFile, Allocate, pool, heap, Keeps
<1>2. /\ local.f = NULL /\ local.code = NULL /\ local.consts = NULL
      /\ local.funcs = NULL /\ local.globals = NULL /\ vm.regs = NULL
  BY <1>1 DEF LoaderInv, Progress
<1>3. local.i = 1 /\ Funcs = {} /\ vm = [NewVM EXCEPT !.panic_code = vm.panic_code]
  BY <1>1, <1>2, NoneMade, VMIsNew DEF Done
<1>4. live = {}
  BY <1>1, <1>2, <1>3 DEF LoaderInv, Named, Owned, Owners, Done
<1>5. TypeOK'
  <2>1. vm' \in VMs
    BY <1>1, FieldTypes DEF LoaderInv, VMs, PANIC_FILE
  <2>2. local' \in Locals
    BY <1>1, PointerTypes DEF LoaderInv, TypeOK, Locals
  <2> QED
    BY <1>1, <2>1, <2>2, PointerTypes, SameTypes DEF LoaderInv, TypeOK, Pc
<1>6. Named'
  BY <1>1, Names DEF LoaderInv, TypeOK, Named
<1>7. Progress'
  BY <1>1, <1>2, <1>3, Names DEF LoaderInv, TypeOK, Keeps, Progress, Done, NewVM
<1>8. Owned'
  <2>1. CASE pc' = "header"
    BY <1>1, <1>2, <1>3, <1>4, <2>1, SamePool, Names DEF LoaderInv, TypeOK, Named, Owned, Owners, Done
  <2>2. CASE pc' = "not_loaded"
    BY <1>1, <1>4, <2>2 DEF Owned, Done
  <2> QED BY <1>1, <2>1, <2>2
<1> QED
  BY <1>1, <1>5, <1>6, <1>7, <1>8, SamePatched DEF LoaderInv, Keeps, Done, FreedOnce, FailureHasCode

LEMMA ReadHeaderKeeps ==
  ASSUME LoaderInv, ReadHeader
  PROVE  LoaderInv'
<1>1. /\ pc = "header" /\ Keeps /\ vm' = vm
      /\ \/ /\ pc' = "code" /\ live' = live \cup {Block("code")}
            /\ local' = [local EXCEPT !.code = Block("code")]
         \/ /\ pc' = "fail_file" /\ live' = live
            /\ \E code \in Nat \ {NO_ERROR} : local' = [local EXCEPT !.err = code]
  <2>1. pc = "header" /\ UNCHANGED <<vm, file, table, payload, misuse, exit>>
    BY DEF ReadHeader, Allocate, pool, heap
  <2>2. HeaderError \in Nat /\ PANIC_OOM \in Nat \ {NO_ERROR}
    BY DEF HeaderError, NO_ERROR, PANIC_OOM, PANIC_BAD_MAGIC, PANIC_UNSUPPORTED_VERSION,
           PANIC_EMPTY_PROGRAM, PANIC_PROGRAM_TOO_BIG
  <2>3. \/ /\ pc' = "code" /\ live' = live \cup {Block("code")}
           /\ local' = [local EXCEPT !.code = Block("code")]
        \/ /\ pc' = "fail_file" /\ live' = live
           /\ \E code \in Nat \ {NO_ERROR} : local' = [local EXCEPT !.err = code]
    BY <2>2 DEF ReadHeader, Allocate, heap, Fail
  <2>4. local'.i = local.i
    BY <2>3 DEF LoaderInv, TypeOK
  <2> QED BY <2>1, <2>3, <2>4 DEF Keeps
<1>2. /\ local.f = Block("f") /\ local.code = NULL /\ local.consts = NULL
      /\ local.funcs = NULL /\ local.globals = NULL /\ vm.regs = NULL
  BY <1>1 DEF LoaderInv, Progress
<1>3. local.i = 1 /\ Funcs = {} /\ vm = [NewVM EXCEPT !.panic_code = vm.panic_code]
  BY <1>1, <1>2, NoneMade, VMIsNew DEF Done
<1>4. live = {Block("f")}
  BY <1>1, <1>2, <1>3, Names DEF LoaderInv, Named, Owned, Owners, Done
<1>5. TypeOK'
  <2>1. local' \in Locals
    BY <1>1, PointerTypes DEF LoaderInv, TypeOK, Locals
  <2> QED
    BY <1>1, <2>1, PointerTypes, SameTypes DEF LoaderInv, TypeOK, Pc, VMs
<1>6. Named'
  BY <1>1, Names DEF LoaderInv, TypeOK, Named
<1>7. Progress'
  BY <1>1, <1>2, <1>3, Names DEF LoaderInv, TypeOK, Keeps, Progress, Done, NewVM
<1>8. Owned'
  <2>1. CASE pc' = "code"
    BY <1>1, <1>2, <1>3, <1>4, <2>1, SamePool, Names DEF LoaderInv, TypeOK, Named, Owned, Owners, Done
  <2>2. CASE pc' = "fail_file"
    BY <1>1, <1>2, <1>4, <2>2, Names DEF LoaderInv, TypeOK, Owned, Done
  <2> QED BY <1>1, <2>1, <2>2
<1>9. FailureHasCode'
  BY <1>1 DEF LoaderInv, TypeOK, FailureHasCode
<1> QED
  BY <1>1, <1>5, <1>6, <1>7, <1>8, <1>9, SamePatched DEF LoaderInv, Keeps, Done, FreedOnce

LEMMA ReadCodeKeeps ==
  ASSUME LoaderInv, ReadCode
  PROVE  LoaderInv'
<1>1. /\ pc = "code" /\ Keeps /\ vm' = vm /\ live' = live
      /\ \/ pc' = "regs" /\ local' = local
         \/ pc' = "fail_code" /\ local' = [local EXCEPT !.err = PANIC_TRUNCATED_CODE]
  BY DEF LoaderInv, TypeOK, ReadCode, Fail, pool, heap, Keeps
<1>2. TypeOK'
  <2>1. local' \in Locals
    <3>1. local \in Locals /\ PANIC_TRUNCATED_CODE \in Nat
      BY FieldTypes DEF LoaderInv, PANIC_TRUNCATED_CODE
    <3> QED
      BY <1>1, <3>1 DEF Locals
  <2> QED
    BY <1>1, <2>1, SameTypes DEF LoaderInv, TypeOK, Pc, VMs
<1>3. Named' /\ Progress'
  BY <1>1 DEF LoaderInv, TypeOK, Named, Progress, Keeps, Done
<1>4. Owned'
  BY <1>1, SamePool DEF LoaderInv, TypeOK, Owned, Owners, Done
<1>5. FailureHasCode'
  BY <1>1 DEF LoaderInv, TypeOK, FailureHasCode, NO_ERROR, PANIC_TRUNCATED_CODE
<1> QED
  BY <1>1, <1>2, <1>3, <1>4, <1>5, SamePatched DEF LoaderInv, Keeps, Done, FreedOnce

LEMMA MakeRegsKeeps ==
  ASSUME LoaderInv, MakeRegs
  PROVE  LoaderInv'
<1>1. /\ pc = "regs" /\ Keeps
      /\ \/ /\ pc' = "consts" /\ live' = live \cup {Block("regs")} /\ local' = local
            /\ vm' = [vm EXCEPT !.regs = Block("regs")]
         \/ /\ pc' = "fail_code" /\ live' = live /\ local' = local
            /\ vm' = [vm EXCEPT !.panic_code = PANIC_OOM]
  BY DEF LoaderInv, TypeOK, MakeRegs, Allocate, Fail, pool, heap, Keeps
<1>2. vm.regs = NULL
  BY <1>1 DEF LoaderInv, Progress
<1>3. TypeOK'
  <2>1. vm' \in VMs
    <3>1. vm \in VMs /\ PANIC_OOM \in Nat /\ Block("regs") \in Pointer
      BY FieldTypes, PointerTypes DEF LoaderInv, PANIC_OOM
    <3> QED BY <1>1, <3>1 DEF VMs
  <2> QED
    BY <1>1, <2>1, PointerTypes, SameTypes DEF LoaderInv, TypeOK, Pc, Locals
<1>4. Named' /\ Progress'
  BY <1>1, Names DEF LoaderInv, TypeOK, Named, Progress, Keeps, Done
<1>5. Owned'
  BY <1>1, <1>2, SamePool, Names DEF LoaderInv, TypeOK, Owned, Owners, Done
<1>6. FailureHasCode'
  BY <1>1, <1>2 DEF LoaderInv, TypeOK, FailureHasCode
<1> QED
  BY <1>1, <1>3, <1>4, <1>5, <1>6, SamePatched DEF LoaderInv, Keeps, Done, FreedOnce

LEMMA ReadConstsKeeps ==
  ASSUME LoaderInv, ReadConsts
  PROVE  LoaderInv'
<1>1. /\ pc = "consts" /\ Keeps /\ vm' = vm
      /\ \/ pc' = "globals" /\ file.pool = << >> /\ live' = live /\ local' = local
         \/ /\ pc' = "fail_code" /\ live' = live
            /\ local' = [local EXCEPT !.err = PANIC_CONST_READ]
         \/ /\ pc' = "fail_code" /\ live' = live \cup {Block("consts")}
            /\ \E code \in Nat \ {NO_ERROR} :
                 local' = [local EXCEPT !.consts = Block("consts"), !.err = code]
         \/ /\ pc' = "patch" /\ live' = live \cup {Block("consts"), Block("funcs")}
            /\ local' = [local EXCEPT !.consts = Block("consts"), !.funcs = Block("funcs")]
  <2>1. pc = "consts" /\ UNCHANGED <<vm, file, table, payload, misuse, exit>>
    BY DEF ReadConsts, pool
  <2>2. (IF file.whole < 2 THEN PANIC_CONST_READ ELSE PANIC_OOM) \in Nat \ {NO_ERROR}
    BY DEF NO_ERROR, PANIC_OOM, PANIC_CONST_READ
  <2>3. CASE file.pool = << >>
    BY <2>1, <2>3 DEF ReadConsts, Keeps
  <2>4. CASE file.pool # << >>
    BY <2>1, <2>2, <2>4 DEF LoaderInv, TypeOK, ReadConsts, PoolFailed, Fail, Keeps
  <2> QED BY <2>3, <2>4
<1>2. /\ local.consts = NULL /\ local.funcs = NULL /\ local.globals = NULL
  BY <1>1 DEF LoaderInv, Progress
<1>3. local' \in Locals /\ (pc' = "fail_code" => local'.err # NO_ERROR)
  <2>1. /\ local \in Locals /\ PANIC_CONST_READ \in Nat \ {NO_ERROR}
        /\ Block("consts") \in Pointer /\ Block("funcs") \in Pointer
    BY FieldTypes, PointerTypes DEF LoaderInv, PANIC_CONST_READ, NO_ERROR
  <2>2. CASE pc' = "globals"
    BY <1>1, <2>1, <2>2
  <2>3. CASE pc' = "patch"
    BY <1>1, <2>1, <2>3 DEF Locals
  <2>4. CASE local' = [local EXCEPT !.err = PANIC_CONST_READ]
    BY <2>1, <2>4 DEF Locals
  <2>5. ASSUME NEW code \in Nat \ {NO_ERROR},
               local' = [local EXCEPT !.consts = Block("consts"), !.err = code]
        PROVE  local' \in Locals /\ local'.err # NO_ERROR
    BY <2>1, <2>5 DEF Locals
  <2> QED BY <1>1, <2>2, <2>3, <2>4, <2>5
<1>4. TypeOK'
  BY <1>1, <1>3, PointerTypes, SameTypes DEF LoaderInv, TypeOK, Pc, VMs
<1>5. Named'
  BY <1>1, <1>2, Names DEF LoaderInv, TypeOK, Named, Keeps
<1>6. Progress'
  BY <1>1, <1>2, Names DEF LoaderInv, TypeOK, Progress, Keeps, Done
<1>7. Owned'
  <2>1. live = (Owners \ {NULL}) \cup Funcs /\ Funcs' = Funcs /\ local \in Locals
    BY <1>1, SamePool, FieldTypes DEF LoaderInv, Owned, Done
  <2>2. Owners' \ {NULL} = (Owners \ {NULL}) \cup ({local'.consts, local'.funcs} \ {NULL})
    BY <1>1, <1>2, <2>1 DEF Owners, Locals
  <2>3. live' = live \cup ({local'.consts, local'.funcs} \ {NULL})
    BY <1>1, <1>2, <2>1, Names DEF Locals
  <2> QED
    BY <1>1, <2>1, <2>2, <2>3 DEF Owned, Done
<1>8. FailureHasCode'
  BY <1>1, <1>3 DEF FailureHasCode
<1> QED
  BY <1>1, <1>4, <1>5, <1>6, <1>7, <1>8, SamePatched DEF LoaderInv, Keeps, Done, FreedOnce

\* What the files are made of.
LEMMA PoolTypes ==
  ASSUME TypeOK
  PROVE  /\ file.pool \in Seq(BOOLEAN) /\ Len(file.pool) \in Nat
         /\ file.globals \in Nat /\ Callables \subseteq Entries
         /\ IsFiniteSet(Callables) /\ Cardinality(Callables) \in 0 .. Len(file.pool)
         /\ Made \subseteq Callables /\ IsFiniteSet(Made)
<1>1. file.pool \in Seq(BOOLEAN) /\ Len(file.pool) \in Nat /\ file.globals \in Nat
  BY FilesAssumption DEF TypeOK, File
<1>2. Callables \subseteq Entries /\ Made \subseteq Callables
  BY DEF Callables, Entries, Made
<1>3. IsFiniteSet(Entries) /\ Cardinality(Entries) = Len(file.pool)
  <2>1. ASSUME NEW n \in Nat PROVE IsFiniteSet(1 .. n) /\ Cardinality(1 .. n) = n
    <3>1. 1 \in Int /\ n \in Int OBVIOUS
    <3>2. IsFiniteSet(1 .. n) /\ Cardinality(1 .. n) = IF 1 > n THEN 0 ELSE n - 1 + 1
      BY ONLY <3>1, FS_Interval
    <3> QED BY <3>2
  <2> QED BY <1>1, <2>1 DEF Entries
<1>4. IsFiniteSet(Callables) /\ Cardinality(Callables) <= Len(file.pool)
  BY <1>2, <1>3, FS_Subset
<1> QED
  BY <1>1, <1>2, <1>4, FS_Subset, FS_CardinalityType

\* A round that stores a function.
LEMMA StoreKeeps ==
  ASSUME LoaderInv, pc = "patch", local.i <= Len(file.pool), file.pool[local.i],
         StoreFunc(local.i), local' = [local EXCEPT !.i = @ + 1],
         live' = live \cup {Fn(local.i)}, UNCHANGED <<pc, file, misuse, exit>>
  PROVE  LoaderInv'
<1> DEFINE k == local.i
<1>1. /\ k \in Entries /\ k \in Callables /\ k \notin Made /\ local \in Locals /\ vm \in VMs
      /\ Len(file.pool) \in Nat /\ Entries' = Entries /\ Callables' = Callables
  BY PoolTypes, FieldTypes DEF LoaderInv, Locals, Entries, Callables, Made
<1>2. local'.i = k + 1 /\ Made' = Made \cup {k}
  BY <1>1 DEF Locals, Made, Callables
<1>3. Funcs' = Funcs \cup {Fn(k)}
  BY <1>2 DEF Funcs
<1>4. Cardinality(Made') = Cardinality(Made) + 1 /\ vm.funccount = Cardinality(Made)
  BY <1>1, <1>2, PoolTypes, FS_AddElement DEF LoaderInv, Patched, Done
<1>5. vm' = [vm EXCEPT !.funccount = Cardinality(Made')]
  BY <1>4 DEF StoreFunc, Counted
<1>6. Cardinality(Made') \in 0 .. Len(file.pool)
  <2>1. Made' \subseteq Callables
    BY <1>1, <1>2 DEF Made
  <2> QED
    BY <1>1, <2>1, PoolTypes, FS_Subset, FS_CardinalityType DEF LoaderInv
<1>7. Patched'
  <2>1. table' = [j \in Entries |-> IF j \in Made' THEN Fn(j) ELSE NULL]
    BY <1>1, <1>2 DEF LoaderInv, Patched, StoreFunc
  <2>2. payload' = table'
    BY <1>1 DEF LoaderInv, Patched, StoreFunc, PatchedPayload
  <2>3. vm'.funccount = Cardinality(Made')
    BY <1>1, <1>5 DEF VMs
  <2> QED
    BY <1>1, <2>1, <2>2, <2>3 DEF Patched
<1>8. TypeOK'
  <2>1. Blocks' = Blocks /\ Pointer' = Pointer /\ Fn(k) \in Blocks /\ Fn(k) \in Pointer
    BY <1>1, PointerTypes DEF Blocks, Pointer
  <2>2. vm' \in VMs
    BY <1>1, <1>5, <1>6 DEF VMs
  <2>3. local' \in Locals
    BY <1>1 DEF Locals, Entries
  <2>4. table' \in [Entries -> Pointer] /\ payload' \in [Entries -> Pointer]
    BY <2>1 DEF LoaderInv, TypeOK, StoreFunc, PatchedPayload, Entries
  <2>5. live' \subseteq Blocks
    BY <2>1 DEF LoaderInv, TypeOK
  <2> QED
    BY <2>1, <2>2, <2>3, <2>4, <2>5 DEF LoaderInv, TypeOK, VMs, Locals, Entries
<1>9. Named'
  BY <1>1, <1>5 DEF LoaderInv, Named, VMs, Locals
<1>10. Progress'
  BY <1>1, <1>2 DEF LoaderInv, Progress, Locals, Done
<1>11. Owned'
  BY <1>1, <1>3, <1>5 DEF LoaderInv, Owned, Owners, VMs, Locals, Done
<1> QED
  BY <1>7, <1>8, <1>9, <1>10, <1>11 DEF LoaderInv, FreedOnce, FailureHasCode

LEMMA PatchKeeps ==
  ASSUME LoaderInv, Patch
  PROVE  LoaderInv'
<1>1. CASE file.pool[local.i] /\ live' # live
  BY <1>1, StoreKeeps DEF Patch, Allocate, heap
<1>2. CASE file.pool[local.i] /\ live' = live /\ pc' = "fail_code"
  <2>1. /\ pc = "patch" /\ Keeps /\ vm' = vm /\ live' = live /\ pc' = "fail_code"
        /\ local' = [local EXCEPT !.err = PANIC_OOM] /\ vm \in VMs /\ local \in Locals
    BY <1>2, FieldTypes DEF LoaderInv, Patch, Allocate, Fail, heap, pool, Keeps, Locals
  <2>2. TypeOK'
    BY <2>1, SameTypes DEF LoaderInv, TypeOK, Locals, Pc, PANIC_OOM
  <2>3. Named' /\ Progress'
    BY <2>1 DEF LoaderInv, Named, Progress, Keeps, Done, Locals
  <2>4. Owned'
    BY <2>1, SamePool DEF LoaderInv, Owned, Owners, Done, Locals
  <2>5. FailureHasCode'
    BY <2>1 DEF FailureHasCode, Locals, NO_ERROR, PANIC_OOM
  <2> QED
    BY <2>1, <2>2, <2>3, <2>4, <2>5, SamePatched DEF LoaderInv, Keeps, Done, FreedOnce
<1>3. CASE ~file.pool[local.i]
  <2>1. /\ pc = "patch" /\ local.i \in Entries /\ local' = [local EXCEPT !.i = @ + 1]
        /\ UNCHANGED <<pc, vm, live, misuse, file, table, payload, exit>>
        /\ vm \in VMs /\ local \in Locals /\ Len(file.pool) \in Nat
    BY <1>3, FieldTypes, PoolTypes DEF LoaderInv, Patch, heap, pool, Entries, Locals
  <2>2. Made' = Made /\ Funcs' = Funcs /\ Entries' = Entries /\ local'.i = local.i + 1
    <3>1. Made' = Made /\ Entries' = Entries /\ local'.i = local.i + 1
      BY <1>3, <2>1 DEF Made, Callables, Entries, Locals
    <3> QED BY <3>1 DEF Funcs
  <2>3. TypeOK'
    <3>1. local' \in Locals /\ vm' \in VMs
      BY <2>1 DEF Locals, Entries
    <3>2. TypeOK
      BY DEF LoaderInv
    <3>3. pc' \in Pc /\ live' \subseteq Blocks /\ misuse' \in BOOLEAN /\ exit' \in Nat
      BY <2>1, <3>2 DEF TypeOK
    <3> QED
      BY <2>1, <3>1, <3>2, <3>3, StillTyped
  <2>4. Named' /\ Progress'
    BY <2>1, <2>2 DEF LoaderInv, Named, Progress, Done, Locals
  <2>5. Patched'
    BY <2>1, <2>2 DEF LoaderInv, Patched
  <2>6. Owned'
    BY <2>1, <2>2 DEF LoaderInv, Owned, Owners, Done, Locals
  <2> QED
    BY <2>1, <2>3, <2>4, <2>5, <2>6 DEF LoaderInv, FreedOnce, FailureHasCode
<1> QED
  BY <1>1, <1>2, <1>3, StoreKeeps DEF Patch, Allocate, Fail, heap

LEMMA ReadGlobalsKeeps ==
  ASSUME LoaderInv, ReadGlobals
  PROVE  LoaderInv'
<1>1. /\ pc \in {"patch", "globals"} /\ vm' = [vm EXCEPT !.funcs = local.funcs]
      /\ UNCHANGED <<file, table, payload, misuse, exit>>
      /\ \/ pc' = "load" /\ live' = live /\ local' = local
         \/ /\ pc' = "load" /\ live' = live \cup {Block("file_globals")}
            /\ local' = [local EXCEPT !.globals = Block("file_globals")]
         \/ /\ pc' = "fail_code" /\ live' = live \cup {Block("file_globals")}
            /\ local' = [local EXCEPT !.globals = Block("file_globals"), !.err = PANIC_GLOBAL_READ]
         \/ /\ pc' = "fail_code" /\ live' = live
            /\ local' = [local EXCEPT !.err = PANIC_GLOBAL_READ]
  BY DEF ReadGlobals, Allocate, Fail, heap, pool
<1>2. /\ vm \in VMs /\ local \in Locals /\ Len(file.pool) \in Nat
      /\ local.i = Len(file.pool) + 1 /\ local.globals = NULL /\ local.f = Block("f")
  <2>1. vm \in VMs /\ local \in Locals /\ Len(file.pool) \in Nat
    BY FieldTypes, PoolTypes DEF LoaderInv
  <2>2. pc = "globals" => Len(file.pool) = 0
    BY DEF LoaderInv, Progress
  <2>3. local.i = Len(file.pool) + 1
    BY <1>1, <2>1, <2>2 DEF Locals, ReadGlobals
  <2> QED
    BY <1>1, <2>1, <2>3 DEF LoaderInv, Progress
<1>3. /\ local' \in Locals /\ vm' \in VMs /\ Keeps
      /\ local'.f = local.f /\ local'.code = local.code /\ local'.consts = local.consts
      /\ local'.funcs = local.funcs /\ local'.i = local.i
      /\ (pc' = "fail_code" => local'.err # NO_ERROR)
  <2>1. Block("file_globals") \in Pointer
    BY PointerTypes
  <2> QED
    <3>1. vm' \in VMs /\ vm'.funccount = vm.funccount
      BY <1>1, <1>2 DEF VMs, Locals
    <3>2. PANIC_GLOBAL_READ \in Nat \ {NO_ERROR}
      BY DEF NO_ERROR, PANIC_GLOBAL_READ
    <3>3. PICK p \in {local.globals, Block("file_globals")}, code \in Nat :
            /\ local' = [local EXCEPT !.globals = p, !.err = code]
            /\ pc' = "fail_code" => code # NO_ERROR
      BY <1>1, <1>2, <3>2 DEF Locals
    <3>4. /\ local' \in Locals /\ local'.f = local.f /\ local'.code = local.code
          /\ local'.consts = local.consts /\ local'.funcs = local.funcs
          /\ local'.i = local.i /\ local'.err = code
      BY <1>2, <2>1, <3>3 DEF Locals
    <3> QED
      BY <1>1, <3>1, <3>3, <3>4 DEF Keeps
<1>4. /\ vm'.regs = vm.regs /\ vm'.istream = vm.istream /\ vm'.frames = vm.frames
      /\ vm'.globals = vm.globals /\ vm'.consts = vm.consts /\ vm'.funcs = local.funcs
  BY <1>1, <1>2 DEF VMs
<1>5. \/ live' = live /\ local'.globals = NULL
      \/ live' = live \cup {Block("file_globals")} /\ local'.globals = Block("file_globals")
  BY <1>1, <1>2 DEF Locals
<1>6. TypeOK'
  <2>1. live' \subseteq Blocks
    BY <1>5, PointerTypes DEF LoaderInv, TypeOK
  <2> QED
    BY <1>1, <1>3, <2>1, SameTypes DEF LoaderInv, Pc
<1>7. Named' /\ Progress'
  BY <1>1, <1>2, <1>3, <1>4, <1>5 DEF LoaderInv, Named, Progress, Keeps, Done
<1>8. Owned'
  BY <1>1, <1>2, <1>3, <1>4, <1>5, SamePool, Names DEF LoaderInv, Owned, Owners, Done
<1> QED
  BY <1>1, <1>3, <1>6, <1>7, <1>8, SamePatched DEF LoaderInv, Keeps, Done, FreedOnce, FailureHasCode

LEMMA LoadKeeps ==
  ASSUME LoaderInv, Load
  PROVE  LoaderInv'
<1> DEFINE freed == {local.f, local.globals} \cup (IF vm.istream # local.code THEN {vm.istream} ELSE {})
           newvm(p, code) == [vm EXCEPT !.istream = local.code, !.consts = local.consts,
                                        !.panic_code = code, !.globals = p]
<1>1. /\ pc = "load" /\ pc' = "loaded" /\ UNCHANGED <<file, table, payload, exit>>
      /\ local' = [local EXCEPT !.f = NULL, !.globals = NULL]
      /\ vm \in VMs /\ local \in Locals
      /\ vm.istream = NULL /\ vm.globals = NULL /\ vm.frames = NULL /\ vm.funcs = local.funcs
  BY FieldTypes DEF Load, pool, LoaderInv, Named
<1>2. /\ freed \ {NULL} = {local.f, local.globals} \ {NULL}
      /\ freed \ {NULL} \subseteq live
      /\ live = (Owners \ {NULL}) \cup Funcs
  BY <1>1 DEF LoaderInv, Owned, Owners, Done
<1>3. /\ misuse' = misuse
      /\ \/ vm' = newvm(NULL, NO_ERROR) /\ live' = live \ freed
         \/ vm' = newvm(NULL, PANIC_OOM) /\ live' = live \ freed
         \/ vm' = newvm(Block("globals"), NO_ERROR) /\ live' = (live \ freed) \cup {Block("globals")}
  <2> DEFINE loaded == [vm EXCEPT !.istream = local.code, !.consts = local.consts,
                                  !.panic_code = NO_ERROR]
  <2>1. misuse \in BOOLEAN /\ (misuse \/ ~(freed \ {NULL} \subseteq live)) = misuse
    BY <1>2 DEF LoaderInv, TypeOK
  <2>2. /\ misuse' = (misuse \/ ~(freed \ {NULL} \subseteq live))
        /\ \/ vm' = loaded /\ live' = live \ freed
           \/ vm' = [loaded EXCEPT !.globals = NULL, !.panic_code = PANIC_OOM] /\ live' = live \ freed
           \/ vm' = [loaded EXCEPT !.globals = Block("globals")] /\ live' = (live \ freed) \cup {Block("globals")}
    BY DEF Load, Free
  <2>3. /\ loaded = newvm(NULL, NO_ERROR)
        /\ [loaded EXCEPT !.globals = NULL, !.panic_code = PANIC_OOM] = newvm(NULL, PANIC_OOM)
        /\ [loaded EXCEPT !.globals = Block("globals")] = newvm(Block("globals"), NO_ERROR)
    BY <1>1 DEF VMs
  <2> HIDE DEF loaded, newvm, freed
  <2> QED
    BY <2>1, <2>2, <2>3
<1>4. /\ local' \in Locals
      /\ local'.f = NULL /\ local'.globals = NULL /\ local'.code = local.code
      /\ local'.consts = local.consts /\ local'.funcs = local.funcs /\ local'.i = local.i
  BY <1>1, PointerTypes DEF Locals
<1>5. /\ vm' \in VMs
      /\ vm'.regs = vm.regs /\ vm'.istream = local.code /\ vm'.frames = NULL
      /\ vm'.consts = local.consts /\ vm'.funcs = local.funcs /\ vm'.funccount = vm.funccount
  <2>1. Block("globals") \in Pointer /\ NULL \in Pointer /\ NO_ERROR \in Nat /\ PANIC_OOM \in Nat
    BY PointerTypes DEF NO_ERROR, PANIC_OOM
  <2> QED
    BY <1>1, <1>3, <2>1 DEF VMs, Locals
<1>6. \/ vm'.globals = NULL /\ live' = live \ freed
      \/ vm'.globals = Block("globals") /\ live' = (live \ freed) \cup {Block("globals")}
  BY <1>1, <1>3 DEF VMs
<1>7. Keeps
  BY <1>1, <1>3, <1>4, <1>5 DEF Keeps
<1>8. TypeOK'
  <2>1. live' \subseteq Blocks
    BY <1>6, PointerTypes DEF LoaderInv, TypeOK
  <2> QED
    BY <1>1, <1>4, <1>5, <1>7, <2>1, SameTypes DEF LoaderInv, Pc
<1>9. Named' /\ Progress'
  BY <1>1, <1>4, <1>5, <1>6, <1>7 DEF LoaderInv, Named, Progress, Keeps, Done
<1>10. Owned'
  <2> DEFINE rest == {local.code, local.consts, local.funcs, vm.regs} \ {NULL}
  <2>1. /\ rest \cap freed = {} /\ Funcs \cap freed \subseteq {NULL}
        /\ NULL \notin Funcs
    BY <1>1, Names DEF LoaderInv, Named, Funcs
  <2>2. live \ freed = rest \cup Funcs
    BY <1>1, <1>2, <2>1 DEF Owners
  <2>3. (Owners' \ {NULL}) = rest \cup ({vm'.globals} \ {NULL})
    BY <1>4, <1>5 DEF Owners
  <2>4. live' = rest \cup ({vm'.globals} \ {NULL}) \cup Funcs
    BY <1>6, <2>2, Names
  <2> QED
    BY <1>1, <1>7, <2>3, <2>4, SamePool DEF Owned, Done
<1> QED
  BY <1>1, <1>3, <1>7, <1>8, <1>9, <1>10, SamePatched DEF LoaderInv, Done, FreedOnce, FailureHasCode

\* The entries of the table are the functions that have been made.
LEMMA TableEntries ==
  ASSUME LoaderInv
  PROVE  /\ \A k \in Entries : table[k] = IF k \in Made THEN Fn(k) ELSE NULL
         /\ { table[k] : k \in Entries } \ {NULL} = Funcs
<1>1. \A k \in Entries : table[k] = IF k \in Made THEN Fn(k) ELSE NULL
  BY DEF LoaderInv, Patched
<1>2. Made \subseteq Entries
  BY PoolTypes DEF LoaderInv
<1> QED
  BY <1>1, <1>2, Names DEF Funcs

LEMMA FailCodeKeeps ==
  ASSUME LoaderInv, FailCode
  PROVE  LoaderInv'
<1> DEFINE freed == {local.code, local.consts, local.globals, vm.regs}
                    \cup (IF local.funcs = NULL THEN {}
                          ELSE {local.funcs} \cup { table[k] : k \in Entries })
<1>1. /\ pc = "fail_code" /\ pc' = "fail_file" /\ UNCHANGED <<file, table, payload, exit>>
      /\ live' = live \ freed /\ misuse' = (misuse \/ ~(freed \ {NULL} \subseteq live))
      /\ vm' = CleanedVM /\ local' = [local EXCEPT !.consts = NULL, !.globals = NULL]
      /\ vm \in VMs /\ local \in Locals
  BY FieldTypes DEF FailCode, Free, pool, LoaderInv, Entries
<1>2. /\ local.f = Block("f") /\ vm.globals = NULL /\ vm.frames = NULL
      /\ vm.istream = NULL /\ vm.consts = NULL /\ vm.funcs \in {NULL, local.funcs}
      /\ live = (Owners \ {NULL}) \cup Funcs
  BY <1>1 DEF LoaderInv, Named, Progress, Owned, Done
<1>3. freed \ {NULL} = ({local.code, local.consts, local.globals, vm.regs, local.funcs} \ {NULL}) \cup Funcs
  <2>1. CASE local.funcs = NULL
    BY <2>1, NoneMade
  <2>2. CASE local.funcs # NULL
    BY <2>2, TableEntries
  <2> QED BY <2>1, <2>2
<1> HIDE DEF freed
<1>4. live = (freed \ {NULL}) \cup {Block("f")} /\ Block("f") # NULL /\ NULL \notin live
  BY <1>2, <1>3, Names DEF Owners, Funcs
<1>5. Block("f") \notin freed
  BY <1>3, Names DEF LoaderInv, Named, Funcs
<1>6. live' = {Block("f")} /\ misuse' = FALSE
  BY <1>1, <1>4, <1>5 DEF LoaderInv, FreedOnce
<1>7. /\ local' \in Locals /\ local'.f = local.f /\ local'.code = local.code
      /\ local'.consts = NULL /\ local'.globals = NULL /\ local'.funcs = local.funcs
      /\ local'.i = local.i /\ local'.err = local.err
  BY <1>1, PointerTypes DEF Locals
<1>8. vm' = [NewVM EXCEPT !.panic_code = vm.panic_code] /\ vm' \in VMs
  <2>1. local.funcs = NULL => vm.funccount = 0
    BY <1>1, NoneMade DEF Done
  <2> QED
    <3>1. vm' = [NewVM EXCEPT !.panic_code = vm.panic_code]
      <4>1. vm.funcs = NULL \/ vm.funcs = local.funcs
        BY <1>2
      <4>2. CASE local.funcs = NULL
        BY <1>1, <1>2, <2>1, <4>1, <4>2 DEF CleanedVM, VMs, NewVM
      <4>3. CASE local.funcs # NULL
        <5>1. vm' = [vm EXCEPT !.regs = NULL, !.funcs = NULL, !.funccount = 0]
          BY <1>1, <4>3 DEF CleanedVM
        <5>2. vm' = [regs |-> NULL, funcs |-> NULL, istream |-> vm.istream, frames |-> vm.frames,
                     globals |-> vm.globals, consts |-> vm.consts, funccount |-> 0,
                     panic_code |-> vm.panic_code]
          BY <1>1, <5>1 DEF VMs
        <5> QED
          BY <1>2, <5>2 DEF NewVM
      <4> QED BY <4>2, <4>3
    <3>2. vm.panic_code \in Nat /\ NULL \in Pointer /\ 0 \in 0 .. Len(file.pool)
      BY <1>1, PointerTypes, PoolTypes DEF VMs, LoaderInv
    <3> QED
      BY <3>1, <3>2 DEF VMs, NewVM
<1>9. TypeOK'
  BY <1>1, <1>6, <1>7, <1>8, PointerTypes, StillTyped DEF LoaderInv, TypeOK, Pc
<1>10. Named' /\ Progress'
  BY <1>1, <1>2, <1>7, <1>8 DEF LoaderInv, Named, Progress, Done, NewVM
<1>11. Patched'
  BY <1>1, <1>7 DEF LoaderInv, Patched, Done, Made, Callables, Entries
<1>12. Owned'
  BY <1>1, <1>2, <1>4, <1>6, <1>7 DEF Owned, Done
<1> QED
  BY <1>1, <1>6, <1>7, <1>8, <1>9, <1>10, <1>11, <1>12
     DEF LoaderInv, FreedOnce, FailureHasCode, NewVM

LEMMA FailFileKeeps ==
  ASSUME LoaderInv, FailFile
  PROVE  LoaderInv'
<1>1. /\ pc = "fail_file" /\ pc' = "not_loaded" /\ UNCHANGED <<file, table, payload, local, exit>>
      /\ live' = live \ {local.f} /\ misuse' = (misuse \/ ~({local.f} \ {NULL} \subseteq live))
      /\ vm' = [vm EXCEPT !.panic_code = local.err]
      /\ vm \in VMs /\ local \in Locals
  BY FieldTypes DEF FailFile, Free, pool, LoaderInv
<1>2. live' = {} /\ misuse' = FALSE
  BY <1>1 DEF LoaderInv, Owned, FreedOnce, Done
<1>3. vm' = [NewVM EXCEPT !.panic_code = local.err] /\ vm' \in VMs
  <2>1. vm = [NewVM EXCEPT !.panic_code = vm.panic_code]
    BY <1>1 DEF LoaderInv, Progress, Done
  <2> QED
    BY <1>1, <2>1 DEF VMs, Locals, NewVM
<1>4. TypeOK'
  BY <1>1, <1>2, <1>3, StillTyped DEF LoaderInv, TypeOK, Pc
<1>5. Named' /\ Progress'
  BY <1>1, <1>3 DEF LoaderInv, Named, Progress, Done, NewVM
<1>6. Patched' /\ Owned'
  BY <1>1, <1>2 DEF LoaderInv, Patched, Owned, Done, Made, Callables, Entries
<1> QED
  BY <1>1, <1>2, <1>4, <1>5, <1>6 DEF LoaderInv, FreedOnce, FailureHasCode

LEMMA RefuseKeeps ==
  ASSUME LoaderInv, Refuse
  PROVE  LoaderInv'
<1>1. /\ pc = "not_loaded" /\ pc' = "refused" /\ UNCHANGED <<file, table, payload, local>>
      /\ vm' = [NewVM EXCEPT !.funccount = IF vm.funcs = NULL THEN vm.funccount ELSE 0]
      /\ live' = live \ Freed /\ misuse' = (misuse \/ ~(Freed \ {NULL} \subseteq live))
      /\ exit' = IF vm'.panic_code # NO_ERROR THEN vm'.panic_code ELSE 1
      /\ vm \in VMs /\ local \in Locals
  BY FieldTypes DEF Refuse, VmFree, Free, pool, LoaderInv
<1>2. vm = [NewVM EXCEPT !.panic_code = vm.panic_code]
  BY <1>1 DEF LoaderInv, Progress, Done
<1>3. vm' = NewVM /\ vm' \in VMs /\ exit' = 1
  BY <1>1, <1>2, PointerTypes, PoolTypes DEF VMs, NewVM, NO_ERROR, LoaderInv
<1>4. Freed = {NULL}
  BY <1>2 DEF Freed, NewVM
<1>5. live' = {} /\ misuse' = FALSE
  BY <1>1, <1>4 DEF LoaderInv, Owned, FreedOnce, Done
<1>6. TypeOK'
  BY <1>1, <1>3, <1>5, StillTyped DEF LoaderInv, TypeOK, Pc
<1>7. Named' /\ Progress'
  BY <1>1, <1>3 DEF LoaderInv, Named, Progress, Done, NewVM
<1>8. Patched' /\ Owned'
  BY <1>1, <1>5 DEF LoaderInv, Patched, Owned, Done, Made, Callables, Entries
<1> QED
  BY <1>1, <1>5, <1>6, <1>7, <1>8 DEF LoaderInv, FreedOnce, FailureHasCode

LEMMA RunKeeps ==
  ASSUME LoaderInv, Run
  PROVE  LoaderInv'
<1>1. /\ pc = "loaded" /\ pc' = "ran" /\ UNCHANGED <<file, table, payload, local, misuse, exit>>
      /\ vm \in VMs
      /\ \/ live' = live \cup {Block("frames")} /\ \E code \in Codes :
                vm' = [vm EXCEPT !.frames = Block("frames"), !.panic_code = code]
         \/ live' = live /\ vm' = [vm EXCEPT !.panic_code = PANIC_OOM]
  BY FieldTypes DEF Run, Allocate, pool, LoaderInv
<1>2. vm.frames = NULL
  BY <1>1 DEF LoaderInv, Progress
<1>3. PICK p \in {NULL, Block("frames")}, code \in Nat :
        /\ vm' = [vm EXCEPT !.frames = p, !.panic_code = code]
        /\ live' = live \cup ({p} \ {NULL})
  <2>1. PANIC_OOM \in Nat BY DEF PANIC_OOM
  <2>2. CASE live' = live /\ vm' = [vm EXCEPT !.panic_code = PANIC_OOM]
    <3>1. vm' = [vm EXCEPT !.frames = NULL, !.panic_code = PANIC_OOM]
      BY <1>1, <1>2, <2>2 DEF VMs
    <3> QED BY <2>1, <2>2, <3>1
  <2>3. Block("frames") # NULL BY Names
  <2> QED BY <1>1, <2>2, <2>3, CodesAssumption
<1>4. /\ vm' \in VMs /\ vm'.frames = p
      /\ vm'.regs = vm.regs /\ vm'.istream = vm.istream /\ vm'.globals = vm.globals
      /\ vm'.consts = vm.consts /\ vm'.funcs = vm.funcs /\ vm'.funccount = vm.funccount
  BY <1>1, <1>3, PointerTypes DEF VMs
<1>5. Keeps
  BY <1>1, <1>4 DEF Keeps
<1>6. TypeOK'
  <2>1. live' \subseteq Blocks
    BY <1>3, PointerTypes DEF LoaderInv, TypeOK
  <2> QED
    BY <1>1, <1>4, <1>5, <2>1, FieldTypes, SameTypes DEF LoaderInv, Pc
<1>7. Named' /\ Progress'
  BY <1>1, <1>4 DEF LoaderInv, Named, Progress, Done
<1>8. Owned'
  <2>1. Owners' \ {NULL} = (Owners \ {NULL}) \cup ({p} \ {NULL})
    BY <1>1, <1>2, <1>4 DEF Owners
  <2> QED
    BY <1>1, <1>3, <1>5, <2>1, SamePool DEF LoaderInv, Owned, Done
<1> QED
  BY <1>1, <1>5, <1>6, <1>7, <1>8, SamePatched DEF LoaderInv, Done, FreedOnce, FailureHasCode

LEMMA ExitKeeps ==
  ASSUME LoaderInv, Exit
  PROVE  LoaderInv'
<1>1. /\ pc = "ran" /\ pc' = "exited" /\ UNCHANGED <<file, table, payload, local>>
      /\ vm' = [NewVM EXCEPT !.funccount = IF vm.funcs = NULL THEN vm.funccount ELSE 0]
      /\ live' = live \ Freed /\ misuse' = (misuse \/ ~(Freed \ {NULL} \subseteq live))
      /\ exit' = vm.panic_code
      /\ vm \in VMs /\ local \in Locals
  BY FieldTypes DEF Exit, ExitCode, VmFree, Free, pool, LoaderInv
<1>2. /\ vm.istream = local.code /\ vm.consts = local.consts /\ vm.funcs = local.funcs
      /\ local.f = NULL /\ local.globals = NULL /\ local.i = Len(file.pool) + 1
      /\ live = (Owners \ {NULL}) \cup Funcs /\ vm.funccount = Cardinality(Made)
  BY <1>1 DEF LoaderInv, Named, Progress, Owned, Patched, Done
<1>3. Made = Callables /\ Cardinality(Callables) \in 0 .. Len(file.pool)
  BY <1>2, PoolTypes DEF LoaderInv, Made, Callables, Entries
<1> DEFINE count   == Cardinality(Callables)
           walked  == { Fn(k) : k \in { j \in Callables : j <= count } }
           skipped == { Fn(k) : k \in { j \in Callables : j > count } }
<1>4. Funcs = walked \cup skipped /\ walked \cap skipped = {}
  BY <1>3, PoolTypes, Names DEF LoaderInv, Funcs, Entries
<1>5. Freed \ {NULL} = (Owners \ {NULL}) \cup walked
  <2>1. CASE vm.funcs = NULL
    <3>1. walked = {}
      BY <1>2, <1>3, <2>1, NoneMade
    <3> QED BY <1>2, <2>1, <3>1 DEF Freed, Owners
  <2>2. CASE vm.funcs # NULL
    <3>1. { table[k] : k \in 1 .. count } \ {NULL} = walked
      BY <1>3, TableEntries, PoolTypes, Names DEF LoaderInv, Entries
    <3> QED BY <1>2, <1>3, <2>2, <3>1 DEF Freed, Owners
  <2> QED BY <2>1, <2>2
<1>6. Owners \cap skipped = {} /\ NULL \notin live
  BY <1>2, Names DEF LoaderInv, Named, Owners, Funcs
<1>7. live' = skipped /\ misuse' = FALSE
  BY <1>1, <1>2, <1>4, <1>5, <1>6 DEF LoaderInv, FreedOnce
<1>8. vm' = NewVM /\ vm' \in VMs
  <2>1. vm.funcs = NULL => vm.funccount = 0
    BY <1>1, <1>2, NoneMade DEF Done
  <2> QED
    BY <1>1, <1>3, <2>1, PointerTypes, PoolTypes DEF LoaderInv, VMs, NewVM, NO_ERROR
<1>9. TypeOK'
  <2>1. exit' \in Nat /\ live' \subseteq Blocks
    BY <1>1, <1>2, <1>4, <1>7 DEF VMs, LoaderInv, TypeOK
  <2> QED
    BY <1>1, <1>7, <1>8, <2>1, StillTyped DEF LoaderInv, Pc
<1>10. Named' /\ Progress'
  BY <1>1, <1>2, <1>8 DEF LoaderInv, Named, Progress, Done, NewVM
<1>11. Patched' /\ Owned'
  BY <1>1, <1>7 DEF LoaderInv, Patched, Owned, Done, Made, Callables, Entries
<1> QED
  BY <1>1, <1>7, <1>9, <1>10, <1>11 DEF LoaderInv, FreedOnce, FailureHasCode

LEMMA LoaderInit ==
  ASSUME Init
  PROVE  LoaderInv
<1>1. /\ file \in Files /\ file.pool \in Seq(BOOLEAN) /\ Len(file.pool) \in Nat
  BY FilesAssumption DEF Init, File
<1>2. TypeOK
  <2>1. vm \in VMs /\ local \in Locals
    BY <1>1, PointerTypes DEF Init, VMs, Locals, NewVM, NO_ERROR
  <2>2. table \in [Entries -> Pointer] /\ payload \in [Entries -> Pointer]
    BY PointerTypes DEF Init, Entries
  <2> QED
    BY <1>1, <2>1, <2>2 DEF Init, TypeOK, VMs, Locals, Pc, Entries
<1>3. Made = {} /\ Funcs = {} /\ Cardinality(Made) = 0
  <2>1. Made = {}
    BY <1>1 DEF Init, Made, Callables
  <2> QED
    BY <2>1, FS_EmptySet DEF Funcs
<1>4. Named /\ Progress
  BY <1>1 DEF Init, Named, Progress, NewVM, Done
<1>5. Patched /\ Owned
  BY <1>1, <1>3 DEF Init, Patched, Owned, Owners, Entries, NewVM, Done
<1> QED
  BY <1>2, <1>4, <1>5 DEF Init, LoaderInv, FreedOnce, FailureHasCode

LEMMA LoaderStep ==
  ASSUME LoaderInv, [Next]_vars
  PROVE  LoaderInv'
<1>1. CASE UNCHANGED vars
  <2>1. UNCHANGED <<file, pc, vm, local, table, payload, live, misuse, exit>>
    BY <1>1 DEF vars, pool, heap
  <2>2. TypeOK'
    <3>1. /\ Blocks' = Blocks /\ Pointer' = Pointer
          /\ (1 .. Len(file.pool) + 1)' = 1 .. Len(file.pool) + 1
          /\ (1 .. Len(file.pool))' = 1 .. Len(file.pool)
      BY <2>1 DEF Pointer, Blocks
    <3>2. TypeOK
      BY DEF LoaderInv
    <3> QED
      BY <2>1, <3>1, <3>2, Zenon DEF TypeOK
  <2>3. Named' /\ Progress'
    BY <2>1 DEF LoaderInv, Named, Progress
  <2>4. Patched' /\ Owned'
    BY <2>1 DEF LoaderInv, Patched, Owned, Owners, Funcs, Made, Callables, Entries
  <2> QED
    BY <2>1, <2>2, <2>3, <2>4 DEF LoaderInv, FreedOnce, FailureHasCode
<1> QED
  BY <1>1, OpenFileKeeps, ReadHeaderKeeps, ReadCodeKeeps, MakeRegsKeeps, ReadConstsKeeps,
     PatchKeeps, ReadGlobalsKeeps, LoadKeeps, FailCodeKeeps, FailFileKeeps, RefuseKeeps,
     RunKeeps, ExitKeeps
     DEF Next, Terminated

-----------------------------------------------------------------------------
(* The theorems                                                            *)

\* The heap is what the pointers say, in every state of every process.
THEOREM LoaderInvariant == Spec => []LoaderInv
<1>1. Init => LoaderInv
  BY LoaderInit
<1>2. LoaderInv /\ [Next]_vars => LoaderInv'
  BY LoaderStep
<1> QED
  BY <1>1, <1>2, PTL DEF Spec

\* Every variable of the loader keeps its type.
THEOREM LoaderTypes == Spec => []TypeOK
<1>1. LoaderInv => TypeOK BY DEF LoaderInv
<1> QED BY <1>1, LoaderInvariant, PTL

\* No path through vm_load_file, vm_load and vm_free frees anything twice, or
\* anything that was never allocated.
THEOREM NoDoubleFree == Spec => []FreedOnce
<1>1. LoaderInv => FreedOnce BY DEF LoaderInv
<1> QED BY <1>1, LoaderInvariant, PTL

\* Every failure that reaches the cleanup has set err, but for the one of the
\* registers.
THEOREM FailuresAreCoded == Spec => []FailureHasCode
<1>1. LoaderInv => FailureHasCode BY DEF LoaderInv
<1> QED BY <1>1, LoaderInvariant, PTL

\* At every goto and at every hand-over, something points to whatever is live.
THEOREM NothingIsLost == Spec => []NothingLost
<1>1. ASSUME LoaderInv PROVE NothingLost
  <2>1. CASE pc \notin Done
    <3>1. live = (Owners \ {NULL}) \cup Funcs
      BY <1>1, <2>1 DEF LoaderInv, Owned
    <3>2. Funcs \subseteq { table[k] : k \in 1 .. Len(file.pool) }
      BY <1>1, TableEntries DEF Entries
    <3> QED
      BY <3>1, <3>2 DEF NothingLost, Owners
  <2>2. CASE pc = "not_loaded"
    BY <1>1, <2>2 DEF LoaderInv, Owned, NothingLost
  <2> QED
    BY <2>1, <2>2 DEF NothingLost, Done
<1> QED BY <1>1, LoaderInvariant, PTL

\* A load that failed has put the VM back and freed everything.
THEOREM FailedLoadsClean == Spec => []FailedLoadIsClean
<1>1. LoaderInv => FailedLoadIsClean
  BY DEF LoaderInv, Progress, Owned, FailedLoadIsClean, Done
<1> QED BY <1>1, LoaderInvariant, PTL

\* While a program runs its callables, and only they, are pointers to live Funcs.
LEMMA PatchedWhileLoaded == LoaderInv => PoolPatched
<1>1. ASSUME LoaderInv, pc \in {"loaded", "ran"}, NEW k \in 1 .. Len(file.pool)
      PROVE  IF file.pool[k] THEN payload[k] = Fn(k) /\ Fn(k) \in live ELSE payload[k] = NULL
  <2>1. local.i = Len(file.pool) + 1 /\ payload = table /\ live = (Owners \ {NULL}) \cup Funcs
    BY <1>1 DEF LoaderInv, Progress, Patched, Owned, Done
  <2>2. k \in Made <=> file.pool[k]
    BY <1>1, <2>1, PoolTypes DEF Made, Callables
  <2>3. table[k] = IF k \in Made THEN Fn(k) ELSE NULL
    BY <1>1, TableEntries DEF Entries
  <2> QED
    BY <2>1, <2>2, <2>3 DEF Funcs
<1> QED BY <1>1 DEF PoolPatched

\* The interpreter is never given a callable that is still the bytes of the file,
\* nor one whose Func is gone.
THEOREM CallablesArePatched == Spec => []PoolPatched
BY PatchedWhileLoaded, LoaderInvariant, PTL

\* A process that refuses its file leaves nothing allocated; one that runs it
\* leaves the functions that vm_free counts past.
THEOREM WhatIsLeft == Spec => []Leftovers
<1>1. LoaderInv => Leftovers
  BY DEF LoaderInv, Owned, Leftovers
<1> QED BY <1>1, LoaderInvariant, PTL

\* The callables come first in the constant pool, as they do in every pool that
\* utils/test.py writes.
CallablesFirst == \E m \in Nat : Callables = 1 .. m

\* vm_free does free everything if the callables come first in the pool: its loop
\* over the first funccount entries of the table then meets every Func.
THEOREM NoLeakWhenFirst == Spec => [](CallablesFirst => NoLeak)
<1>1. ASSUME LoaderInv, NEW m \in Nat, Callables = 1 .. m, pc = "exited"
      PROVE  live = {}
  <2>1. Cardinality(1 .. m) = m
    <3>1. 1 \in Int /\ m \in Int OBVIOUS
    <3>2. Cardinality(1 .. m) = IF 1 > m THEN 0 ELSE m - 1 + 1
      BY ONLY <3>1, FS_Interval
    <3> QED BY <3>2
  <2> QED
    BY <1>1, <2>1 DEF LoaderInv, Owned
<1>2. LoaderInv => (CallablesFirst => NoLeak)
  BY <1>1 DEF CallablesFirst, NoLeak
<1> QED BY <1>2, LoaderInvariant, PTL

=============================================================================

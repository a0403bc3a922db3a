------------------------------ MODULE MCLoader ------------------------------
(***************************************************************************)
(* Files for the model checker to run Loader on: every header, every place *)
(* where a file can end, pools of up to three constants.                   *)
(***************************************************************************)
EXTENDS Loader

Pools == UNION { [1 .. n -> BOOLEAN] : n \in 0 .. 3 }

MCFiles ==
  [opens   : BOOLEAN,
   header  : {"short", "bad_magic", "newer", "good"},
   count   : {0, 1, MaxCount + 1},
   pool    : Pools,
   globals : {0, 1},
   whole   : 0 .. 3]

=============================================================================

----------------------------- MODULE MCEncoding -----------------------------
(***************************************************************************)
(* What to ask for with Byte = 8: every offset and immediate in range and  *)
(* some beyond, registers past the last, fields at the edges of a byte.    *)
(***************************************************************************)
EXTENDS Encoding

Edges == {-1, 0, 1, 3, 7, 8}
Sizes == {0, 1, 8, 513, 4095}

MCAsked ==
  [kind : {"helper"}, op : {"JMP"}, r : {0}, n : -300 .. 300]
  \cup [kind : {"helper"}, op : Conditional \cup {"LOADI"}, r : {0, 7, 9}, n : -70 .. 70]
  \cup [kind : {"ins"}, op : DOMAIN OpNumber, a : Edges, b : Edges, c : Edges]
  \cup [kind : {"func"}, entry : Sizes, argc : {0, 1, 9, 63}, regc : {0, 1, 9, 63}]
  \cup [kind : {"header"}, count : Sizes, consts : Sizes, globals : Sizes]

=============================================================================

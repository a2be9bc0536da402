--------------------------- MODULE MCParNvmObject ---------------------------
(* Five firmwares: a string and an array behind one scalar cell; the same  *)
(* with an object appended; with the two objects swapped (the block keeps  *)
(* its size); with one more scalar (the block moves); and with a fixed     *)
(* address inside the scalars, which the boot must refuse.                 *)
EXTENDS ParNvmObject, TLC

CONSTANTS b1, b2, b3

MCBytes == {b1, b2, b3}

A == [id |-> 1, type |-> "STR", min |-> 0, max |-> 2, def |-> <<b3>>,
      access |-> {"READ", "WRITE"}]
B == [id |-> 2, type |-> "ARR_U8", min |-> 1, max |-> 1, def |-> <<b3>>,
      access |-> {"READ", "WRITE"}]
C == [B EXCEPT !.id = 3]

Fw(rs, scalars, check, mode) ==
    [rows |-> rs, scalar_cells |-> scalars, check |-> check, mode |-> mode]

MCFirmware == 1 :> Fw(<<A, B>>, 1, FALSE, "AFTER_SCALAR")
           @@ 2 :> Fw(<<A, B, C>>, 1, TRUE, "FIXED")
           @@ 3 :> Fw(<<B, A>>, 1, FALSE, "DEDICATED")
           @@ 4 :> Fw(<<A, B>>, 2, FALSE, "AFTER_SCALAR")
           @@ 5 :> Fw(<<A>>, 2, TRUE, "FIXED")
MCPayloads == 1 :> {<<>>, <<b1, b2>>, <<b2, b1>>} @@ 2 :> {<<b1>>} @@ 3 :> {<<b2>>}
=============================================================================

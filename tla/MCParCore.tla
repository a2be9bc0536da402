----------------------------- MODULE MCParCore ------------------------------
(* A table with a U8 the callers use the bitwise setters on, an F32 with a *)
(* narrow range and a validation callback, a STR, and a read-only array    *)
(* and a read-only BYTES behind it.  Bytes are small numbers.              *)
EXTENDS ParCore, TLC

CONSTANTS t1, t2, nobody

MCThreads == {t1, t2}

(* The threads are alike, and every property of the run is a safety        *)
(* property: a symmetry is sound.                                          *)
MCSymmetry == Permutations(MCThreads)

Row(type, id, min, max, def, access, pers) ==
    [type |-> type, id |-> id, min |-> min, max |-> max, def |-> def,
     access |-> access, pers |-> pers]

MCTable == 0 :> Row("U8", 1, 0, 1, 0, {"READ", "WRITE"}, TRUE)
        @@ 1 :> Row("F32", 2, 1, 2, 1, {"READ", "WRITE"}, TRUE)
        @@ 2 :> Row("STR", 3, 0, 2, <<1>>, {"READ", "WRITE"}, TRUE)
        @@ 3 :> Row("ARR_U8", 4, 1, 1, <<2>>, {"READ"}, FALSE)
        @@ 4 :> Row("BYTES", 5, 0, 1, <<>>, {"READ"}, FALSE)

MCRejected == 0 :> {} @@ 1 :> {3} @@ 2 :> {<<2>>} @@ 3 :> {} @@ 4 :> {}
MCInputs == 0 :> {0, 2} @@ 1 :> {2, 3} @@ 2 :> {<<>>, <<1, 2>>, <<2>>, <<1, 1, 1>>}
         @@ 3 :> {<<1>>} @@ 4 :> {<<2>>}
MCMutexOf == [p \in 0 .. 4 |-> 0]
=============================================================================

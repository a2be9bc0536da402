---------------------------- MODULE MCNvmEeprom -----------------------------
(* NvmEeprom with three firmwares: a 16-bit parameter, an 8-bit one behind  *)
(* it (grouped records put it in front), and the second alone.              *)
EXTENDS NvmEeprom

Par(id, type) == [id |-> id, type |-> type]

First  == Par(1, "U16")
Second == Par(258, "U8")

MCTables == {<<First>>, <<First, Second>>, <<Second>>}
\* Two values that differ in their second byte: one for a parameter of 8 bits.
MCImages == {[k \in 1 .. SlotSize |-> <<IF k = 2 THEN v ELSE 1>>] : v \in {1, 2}}
=============================================================================

------------------------------ MODULE MCParNvm ------------------------------
(* ParNvm on small instances: an old firmware, its successor with one more  *)
(* parameter, and one from which the first parameter has been deleted.      *)
EXTENDS ParNvm

CONSTANTS a, b, byte, word

MCIds    == {a, b}
MCTypes  == {byte, word}
MCValues == {0, 1}
Wide     == {0, 1, 2}

Par(id, type)   == [id |-> id, type |-> type, def |-> 0, min |-> 0, max |-> 1]
Narrow(id, max) == [Par(id, byte) EXCEPT !.max = max]

MCTables ==
  {[ver |-> 1, par |-> <<Par(a, byte)>>],
   [ver |-> 1, par |-> <<Par(a, byte), Par(b, word)>>],
   [ver |-> 1, par |-> <<Par(b, word)>>]}

\* One firmware, and one whose first parameter has a narrower range.
NarrowedTables ==
  {[ver |-> 1, par |-> <<Narrow(a, m), Narrow(b, 2)>>] : m \in {1, 2}}

OneTable == {[ver |-> 1, par |-> <<Par(a, byte), Par(b, word)>>]}

AllTears  == {"head", "record"}
AllFaults == Steps
=============================================================================

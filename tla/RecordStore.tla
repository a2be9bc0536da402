---------------------------- MODULE RecordStore -----------------------------
(***************************************************************************)
(* What the scalar part of the NVM core may expect of a record layout on a *)
(* storage backend: a header and one record per persistent slot, each of   *)
(* which is whole or known to be bad.                                      *)
(*                                                                         *)
(*   head  the signature, and the slots the header was written for         *)
(*   rec   what a restore of each slot of the running table would give     *)
(*   op    the request that is being carried out                           *)
(*   pieces  of each part (0 is the header) the contents of which there    *)
(*         may be bytes left since a request for it failed or was cut      *)
(*                                                                         *)
(* A request changes the part it names and no other.  While it runs, and   *)
(* for ever if it fails or the power is cut, that part is bad, or it is    *)
(* the old one, the new one or one that was being written before and whose *)
(* bytes have come together again.  After a change of firmware the records *)
(* the header covers are the old ones, whatever the new table appends; the *)
(* others may hold whatever any firmware has saved.                        *)
(***************************************************************************)
EXTENDS Integers, Sequences

CONSTANTS Tables,           \* sequences of slots
          Values(_, _),     \* the values of a slot in a layout
          AnyValue,         \* the values of all slots
          Describes(_, _),  \* what a header says of a table
          AppendsTail(_),   \* whether a table may extend a stored one
          Bad               \* a part that cannot be used

VARIABLES layout, table, head, rec, op, pieces, reply

vars == <<layout, table, head, rec, op, pieces, reply>>

NoOp == [kind |-> "none", slot |-> 0, data |-> Bad]

\* The slots of t whose records header h lets firmware restore.
Covered(h, t) ==
  IF /\ h.sign /\ h.body # Bad
     /\ Len(h.body) =< Len(t)
     /\ h.body = Describes(layout, SubSeq(t, 1, Len(h.body)))
     /\ AppendsTail(layout) \/ Len(h.body) = Len(t)
  THEN 1 .. Len(h.body) ELSE {}

NewHead == [sign |-> TRUE, body |-> Describes(layout, table)]
Part(o) == IF o.kind = "record" THEN o.slot ELSE 0

\* What the running request may make of header and records.
Heads == CASE op.kind = "header" -> [sign : BOOLEAN, body : pieces[0] \cup {Bad}]
           [] op.kind = "erase"  -> [sign : {head.sign, FALSE}, body : {head.body}]
           [] OTHER              -> {head}
Recs  == IF op.kind = "record"
         THEN {[rec EXCEPT ![op.slot] = d] : d \in pieces[op.slot] \cup {Bad}}
         ELSE {rec}

Init ==
  /\ table \in Tables
  /\ head = [sign |-> FALSE, body |-> Bad]
  /\ rec = [i \in DOMAIN table |-> Bad]
  /\ op = NoOp /\ reply = "none"
  /\ pieces = [i \in 0 .. Len(table) |-> {}]

Begin ==
  /\ op = NoOp
  /\ \/ \E k \in {"erase", "header"} : op' = [NoOp EXCEPT !.kind = k]
     \/ \E i \in DOMAIN table : \E d \in Values(layout, table[i]) :
          op' = [kind |-> "record", slot |-> i, data |-> d]
  /\ pieces' = CASE op'.kind = "record" ->
                      [pieces EXCEPT ![op'.slot] = @ \cup {rec[op'.slot], op'.data}]
                 [] op'.kind = "header" ->
                      [pieces EXCEPT ![0] = @ \cup {head.body, NewHead.body}]
                 [] OTHER -> pieces
  /\ reply' = "none"
  /\ UNCHANGED <<layout, table, head, rec>>

Refuse ==
  /\ op = NoOp
  /\ reply' \in {"none", "error"}
  /\ UNCHANGED <<layout, table, head, rec, op, pieces>>

Work ==
  /\ op # NoOp
  /\ head' \in Heads /\ rec' \in Recs
  /\ UNCHANGED <<layout, table, op, pieces, reply>>

\* The erase of the signature is not read back.
AnswerOk ==
  /\ op # NoOp
  /\ op.kind = "header" => head = NewHead
  /\ op.kind = "record" => rec[op.slot] = op.data
  /\ pieces' = IF op.kind = "erase" THEN pieces ELSE [pieces EXCEPT ![Part(op)] = {}]
  /\ op' = NoOp /\ reply' = "ok"
  /\ UNCHANGED <<layout, table, head, rec>>

AnswerError ==
  /\ op # NoOp
  /\ head' \in Heads /\ rec' \in Recs
  /\ op' = NoOp /\ reply' = "error"
  /\ UNCHANGED <<layout, table, pieces>>

Kept == Covered(head', table) \cap Covered(head', table')

Reboot ==
  /\ head' \in Heads
  /\ table' \in Tables
  /\ DOMAIN rec' = DOMAIN table'
  /\ \A i \in DOMAIN table' : rec'[i] \in AnyValue \cup {Bad}
  /\ \E r \in Recs : /\ \A i \in Kept : rec'[i] = r[i]
                     /\ table' = table => rec' = r
  /\ pieces' = [i \in 0 .. Len(table') |->
                  IF i = 0 \/ i \in Kept \/ table' = table THEN pieces[i]
                  ELSE AnyValue]
  /\ op' = NoOp /\ reply' = "none"
  /\ UNCHANGED layout

Next == Begin \/ Refuse \/ Work \/ AnswerOk \/ AnswerError \/ Reboot

Spec == Init /\ [][Next]_vars
=============================================================================

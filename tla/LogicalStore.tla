---------------------------- MODULE LogicalStore ----------------------------
(***************************************************************************)
(* What the flash-ee backend promises to the parameter layer: a small      *)
(* array of EEPROM lines that survives power loss.                         *)
(*                                                                         *)
(*   mem   the contents a power-up at this instant would recover           *)
(*   live  the contents a read returns at this instant                     *)
(*   reply the status of the last write, erase, sync or deinit request     *)
(*                                                                         *)
(* A request stages new contents in live; the backend makes staged lines   *)
(* durable one at a time or all at once, whenever it likes; a power loss   *)
(* forgets what is still staged.  A request may answer "ok" only when      *)
(* nothing is staged any more.  Requests are not transactional: one that   *)
(* fails may leave any part of its lines durable and the rest staged.      *)
(***************************************************************************)
CONSTANTS Lines, Content, Blank

VARIABLES mem, live, reply

vars == <<mem, live, reply>>

Init ==
  /\ mem = [l \in Lines |-> Blank]
  /\ live = mem
  /\ reply = "none"

Request ==
  /\ reply' = "none"
  /\ UNCHANGED <<mem, live>>

\* Any set of lines is overwritten with v.
Stage(v) ==
  /\ reply = "none"
  /\ UNCHANGED <<mem, reply>>
  /\ live' \in [Lines -> Content]
  /\ \A l \in Lines : live'[l] \in {live[l], v}

CommitLine(l) ==
  /\ mem' = [mem EXCEPT ![l] = live[l]]
  /\ UNCHANGED <<live, reply>>

CommitAll ==
  /\ mem' = live
  /\ UNCHANGED <<live, reply>>

AnswerOk ==
  /\ mem = live
  /\ reply' = "ok"
  /\ UNCHANGED <<mem, live>>

AnswerError ==
  /\ reply' = "error"
  /\ UNCHANGED <<mem, live>>

PowerLoss ==
  /\ live' = mem
  /\ reply' = "none"
  /\ UNCHANGED mem

Next ==
  \/ Request
  \/ \E v \in Content : Stage(v)
  \/ \E l \in Lines : CommitLine(l)
  \/ CommitAll
  \/ AnswerOk
  \/ AnswerError
  \/ PowerLoss

Spec == Init /\ [][Next]_vars
=============================================================================

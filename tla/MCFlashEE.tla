------------------------------ MODULE MCFlashEE ------------------------------
(* Model values and fault sets for checking FlashEE with TLC. *)
EXTENDS FlashEE, TLC

\* A call that fails may leave anything behind, except that a payload that
\* fails leaves nothing and an activation that fails does not activate.
TolerableFaults ==
  ({"erase", "header", "commit"} \X Effects)
    \cup {<<"payload", "none">>, <<"activate", "none">>, <<"activate", "partial">>}

\* One way to fail for each port call, and the commit that fails after all.
FewFaults ==
  ({"erase", "header", "payload", "commit", "activate"} \X {"none"}) \cup {<<"commit", "full">>}

\* The failures the backend does not survive, one at a time.
NoFaults    == {}
TornPayload == {<<"payload", "partial">>, <<"erase", "none">>}

NoReads   == {}
LoadReads == {"load"}
CopyReads == {"copy"}
AllReads  == {"scan", "load", "copy"}

\* What two states must share to behave alike.  The records of a bank are read
\* only when a boot would choose it or a checkpoint is writing it (the older of
\* two valid banks could be chosen only if the newer stopped being valid, which
\* RebootAgrees excludes); an append that was given up is skipped whatever it
\* holds; the value of a request is read as long as it has lines to stage.
Building(b) == up /\ b = Target /\ pc \in {"copy", "copyCommit", "activate"}
Pending(b, i) ==
  \/ pc = "flushCommit" /\ b = active /\ i = next - 1
  \/ pc = "copyCommit" /\ b = Target /\ i = copied - 1
SeenSlot(b, i) ==
  IF slot[b][i].st = "open" /\ ~Pending(b, i) THEN Marked("torn") ELSE slot[b][i]
Seen ==
  <<hdr, bseq,
    [b \in Bank |-> IF Boots(b) \/ Building(b) THEN [i \in Slots |-> SeenSlot(b, i)]
                                            ELSE <<ValidBank(b)>>],
    pc, context, window, loop, [req EXCEPT !.val = IF req.todo = {} THEN Blank ELSE @], reply>>

Symmetry == Permutations(Values)
=============================================================================

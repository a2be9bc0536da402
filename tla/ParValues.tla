----------------------------- MODULE ParValues ------------------------------
(***************************************************************************)
(* What the runtime part of the parameter manager promises its callers     *)
(* (par.c, par_scalar_api.c, par_object_api.c): every parameter is one     *)
(* register.  A scalar holds a value its row allows, an object holds a     *)
(* payload its row allows, whole; a read of an object returns the payload  *)
(* it held at one moment, and a reset gives all objects their defaults at  *)
(* once.  Locks, the byte pool, lengths and copying do not appear.         *)
(***************************************************************************)
CONSTANTS Threads, Scalars, Objects,
          Legal(_, _),      \* Legal(p, v): v is a value of parameter p
          Default           \* the table default of every parameter
VARIABLES val,              \* the value of every parameter
          got               \* the last object payload each thread received

Put(p) == /\ Legal(p, val'[p])
          /\ val' = [val EXCEPT ![p] = val'[p]]
          /\ UNCHANGED got

Look(t, p) == got' = [got EXCEPT ![t] = val[p]] /\ UNCHANGED val

ResetObjects ==
    /\ val' = [p \in Scalars \union Objects |->
                  IF p \in Objects THEN Default[p] ELSE val[p]]
    /\ UNCHANGED got

(* par_init after par_deinit or a reset of the target: values come from    *)
(* the table and from NVM.                                                 *)
Restart == /\ DOMAIN val' = Scalars \union Objects
           /\ \A p \in Scalars \union Objects : Legal(p, val'[p])
           /\ UNCHANGED got

Init == /\ val = Default
        /\ got \in [Threads -> {<<>>}]

Next == \/ \E p \in Scalars \union Objects : Put(p)
        \/ \E t \in Threads, p \in Objects : Look(t, p)
        \/ ResetObjects
        \/ Restart

vars == <<val, got>>

Spec == Init /\ [][Next]_vars
=============================================================================

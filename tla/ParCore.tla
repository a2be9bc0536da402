------------------------------ MODULE ParCore -------------------------------
(***************************************************************************)
(* The runtime core: par.c, scalar/par_scalar_api.c with                   *)
(* detail/par_typed_impl.inc and par_bitwise_impl.inc, object/par_object.c *)
(* and par_object_api.c, and the mutex of port/par_if_port.c, called by    *)
(* several threads.  One step is what a thread does between two points     *)
(* where another thread can see or change what it uses: a load or a store  *)
(* of a cell, one memset or memcpy of the pool, taking or giving back the  *)
(* mutex, a callback, an NVM write.                                        *)
(*                                                                         *)
(* NVM is one value per parameter here; ParNvm, ParNvmObject and FlashEE   *)
(* model it.  Prints and assertions are left out.                          *)
(***************************************************************************)
EXTENDS ParTable

CONSTANTS
    Threads,       \* the callers
    Nobody,        \* the owner of a free mutex
    Table,         \* the parameter table
    Observed,      \* scalars with an on-change callback
    BitPars,       \* scalars the callers use the bitwise setters on
    WordBits,      \* bits of a cell the bitwise setters act on
    Rejected,      \* Rejected[p]: values the validation callback of p refuses
    Inputs,        \* Inputs[p]: values, or payloads, the callers pass for p
    UnknownId,     \* an ID that is not in the table
    BufSizes,      \* buffer sizes passed to the object getters
    MutexOf,       \* MutexOf[p]: the mutex par_if_aquire_mutex(p) takes
    MaxCalls       \* bound: API calls of a behaviour

Params  == DOMAIN Table
Objects == {p \in Params : type_is_object(Table[p].type)}
Scalars == Params \ Objects
Mutexes == {MutexOf[p] : p \in Params}

Default == [p \in Params |-> Table[p].def]
(* gpu8_par_value[g_par_offset[p]] and its kin: the cell of a scalar, and  *)
(* the window of an object in gs_par_object_pool.                          *)
Cell    == [p \in Scalars |-> <<width_group(Table[p].type),
                               layout_offset(Table, p)>>]
PoolOff == [p \in Objects |-> obj_pool_offset(Table, p)]
Window  == [p \in Objects |->
              {PoolOff[p] + i : i \in 0 .. max_len(Table[p]) - 1}]
Cells   == {Cell[p] : p \in Scalars}
Pool    == UNION {Window[p] : p \in Objects}

(* What the compiler demands of a table; par_init refuses a table in which *)
(* the default of an object is not one it could hold.                      *)
ASSUME TableAssumption ==
    /\ rows(Table) \in Nat \ {0} /\ Params = 0 .. rows(Table) - 1
    /\ \A p \in Params : Table[p].type \in ScalarTypes \union ObjectTypes
    /\ table_compiles(Table)
    /\ \A p \in Objects : object_default_cfg_is_valid(Table[p])
(* PAR_CHECK_INT_COMMON, and the runtime check of the F32 rows.            *)
ASSUME RangeAssumption ==
    \A p \in Scalars : /\ {Table[p].min, Table[p].max, Table[p].def} \subseteq Int
                       /\ Table[p].min =< Table[p].def
                       /\ Table[p].def =< Table[p].max
ASSUME ObjectAssumption ==
    \A p \in Objects : /\ Table[p].def \in Seq(Nat)
                       /\ {Table[p].min, Table[p].max} \subseteq Nat
ASSUME InputsAssumption ==
    /\ \A p \in Scalars : Inputs[p] \subseteq Int
    /\ \A p \in Objects : Inputs[p] \subseteq Seq(Nat)
    /\ BufSizes \subseteq Nat
    /\ Observed \subseteq Scalars /\ BitPars \subseteq Scalars
    /\ MaxCalls \in Nat /\ WordBits \in Nat
ASSUME NobodyAssumption == Nobody \notin Threads

VARIABLES
    is_init,       \* gb_is_init
    store,         \* gs_par_storage
    pool,          \* gs_par_object_pool
    len,           \* gs_par_object_slots[...].len
    mirror,        \* gs_par_default_mirror and the object mirrors
    lock,          \* the owner of each mutex
    pc,            \* where each thread is in its call
    job,           \* the call: operation, parameter, value or payload
    seen,          \* what the call has read: [old, new, changed]
    ret,           \* the status of the thread's last call
    nvm,           \* the stored value of each persistent parameter
    calls,         \* calls made so far
    \* Observations the properties need; no guard of the code reads them.
    heard,         \* last value given to the on-change callback
    quiet,         \* written since by a path that does not notify
    tainted,       \* written, or its save failed or overlapped, since saved
    alone,         \* no other call used the parameter during this one
    whole,         \* payload of an object when its last write was complete
    got            \* payload a thread read last

live  == <<store, pool, len>>
obs   == <<heard, quiet, tainted, alone, whole, got>>
vars  == <<is_init, live, mirror, lock, pc, job, seen, ret, nvm, calls, obs>>

LiveScalar(p) == store[Cell[p]]
Payload(p, po, ln) == [i \in 1 .. ln[p] |-> po[PoolOff[p] + i - 1]]
Live(p) == IF p \in Objects THEN Payload(p, pool, len) ELSE LiveScalar(p)

NoJob == [op |-> "none", p |-> 0, arg |-> 0]
NoSeen == [old |-> 0, new |-> 0, changed |-> FALSE]

DefaultPool ==
    [a \in Pool |->
        LET p == CHOOSE q \in Objects : a \in Window[q]
            i == a - PoolOff[p] + 1
        IN  IF i =< Len(Default[p]) THEN Default[p][i] ELSE 0]
DefaultLen   == [p \in Objects |-> Len(Default[p])]
DefaultStore == [c \in Cells |-> Default[CHOOSE p \in Scalars : Cell[p] = c]]

(* What the loader leaves: integer cells have their defaults, F32 cells,   *)
(* the pool and the mirrors are zero until par_init.                       *)
LoadedStore  == [c \in Cells |->
                   LET p == CHOOSE q \in Scalars : Cell[q] = c
                   IN  IF Table[p].type = "F32" THEN 0 ELSE Default[p]]
NoMirror     == [store |-> [c \in Cells |-> 0], pool |-> [a \in Pool |-> 0],
                 len |-> [p \in Objects |-> 0]]

Init ==
    /\ is_init = FALSE
    /\ store = LoadedStore /\ pool = NoMirror.pool /\ len = NoMirror.len
    /\ mirror = NoMirror
    /\ lock = [m \in Mutexes |-> Nobody]
    /\ pc = [t \in Threads |-> "idle"]
    /\ job = [t \in Threads |-> NoJob]
    /\ seen = [t \in Threads |-> NoSeen]
    /\ ret = [t \in Threads |-> "OK"]
    /\ nvm = Default
    /\ calls = 0
    /\ heard = [p \in Observed |-> Default[p]]
    /\ quiet = [p \in Observed |-> TRUE]
    /\ tainted = [p \in Params |-> TRUE]
    /\ alone = [t \in Threads |-> TRUE]
    /\ whole = [p \in Objects |-> Default[p]]
    /\ got = [t \in Threads |-> <<>>]

(***************************************************************************)
(* Calls and returns.  A caller names a parameter by number, which may be  *)
(* out of range, or by an ID that the *_by_id functions look up first.     *)
(***************************************************************************)
ByNumber == {<<"OK", p>> : p \in 0 .. rows(Table)}
ById == {get_num_by_id(Table, id) :
            id \in {Table[p].id : p \in Params} \union {UnknownId}}
NoBuffer == -1
Buffers  == BufSizes \union {NoBuffer}

Ready(t) == pc[t] = "idle" /\ calls < MaxCalls

Begin(t, op, p, arg, at) ==
    /\ pc' = [pc EXCEPT ![t] = at]
    /\ job' = [job EXCEPT ![t] = [op |-> op, p |-> p, arg |-> arg]]
    /\ seen' = [seen EXCEPT ![t] = NoSeen]
    /\ ret' = [ret EXCEPT ![t] = "OK"]
    /\ calls' = calls + 1
    /\ alone' = [u \in Threads |->
                   LET meets == {v \in Threads \ {u} : pc'[v] # "idle"
                                                       /\ job'[v].p = p}
                   IN  IF u = t THEN meets = {}
                       ELSE alone[u] /\ (pc[u] # "idle" => job[u].p # p)]

Done(t, status) ==
    /\ pc' = [pc EXCEPT ![t] = "idle"]
    /\ job' = [job EXCEPT ![t] = NoJob]
    /\ seen' = [seen EXCEPT ![t] = NoSeen]
    /\ ret' = [ret EXCEPT ![t] = status]

Goto(t, at) == pc' = [pc EXCEPT ![t] = at] /\ UNCHANGED <<job, ret>>

Refuse(t, status) ==
    /\ ret' = [ret EXCEPT ![t] = status]
    /\ calls' = calls + 1
    /\ UNCHANGED <<is_init, live, mirror, lock, pc, job, seen, nvm, obs>>

(* A call that is checked first, then waits for the mutex at "take" or     *)
(* goes on without one.                                                    *)
Call(t, status, op, p, arg, at) ==
    \/ /\ status # "OK" /\ Refuse(t, status)
    \/ /\ status = "OK" /\ Begin(t, op, p, arg, at)
       /\ UNCHANGED <<is_init, live, mirror, lock, nvm, heard, quiet, tainted,
                      whole, got>>

(***************************************************************************)
(* Guards of the setters and getters: par_core_resolve_runtime, then the   *)
(* type the function is for, then the access right of the row.             *)
(***************************************************************************)
guard(name, types) ==
    LET p == name[2]
        status == IF name[1] # "OK" THEN name[1]
                  ELSE resolve_runtime(is_init, Table, p, TRUE, TRUE)
    IN  IF status = "OK" /\ Table[p].type \notin types THEN "ERROR_TYPE"
        ELSE status

write_guard(name, types) ==
    LET status == guard(name, types)
    IN  IF status = "OK" /\ ~access_has_write(Table[name[2]])
        THEN "ERROR_ACCESS" ELSE status

read_guard(name, types) ==
    LET status == guard(name, types)
    IN  IF status = "OK" /\ ~access_has_read(Table[name[2]])
        THEN "ERROR_ACCESS" ELSE status

set_checked_guard(name)    == write_guard(name, ScalarTypes)
get_scalar_guard(name)     == read_guard(name, ScalarTypes)
get_obj_guard(name, types) == read_guard(name, types)
(* Mutant: object_len_is_valid is not asked.                               *)
set_obj_any_length(name, types, data) == write_guard(name, types)
set_obj_checked_guard(name, types, data) ==
    LET status == write_guard(name, types)
    IN  IF status = "OK" /\ ~object_len_is_valid(Table[name[2]], Len(data))
        THEN "ERROR_VALUE" ELSE status

(* par_set_str looks for the terminator before it checks access;           *)
(* par_set_arr_* refuse a count whose bytes do not fit 16 bits.            *)
set_str_guard(name, data) ==
    LET status == guard(name, {"STR"})
    IN  IF status # "OK" THEN status
        ELSE IF Len(data) > max_len(Table[name[2]]) THEN "ERROR_VALUE"
        ELSE set_obj_checked_guard(name, {"STR"}, data)

set_array_guard(name, data) ==
    IF Len(data) > 65535 THEN "ERROR_PARAM"
    ELSE set_obj_checked_guard(name, ArrayTypes, data)

(* The buffer check of par_get_bytes (bytes), par_get_array_runtime_core   *)
(* (elements) and par_get_str (room for the terminator).                   *)
buffer_fits(row, n, buf) ==
    CASE row.type \in ArrayTypes -> buf >= n \div elem_size(row.type)
      [] row.type = "STR"        -> buf > n
      [] OTHER                   -> buf >= n

(***************************************************************************)
(* The mutex: par_if_aquire_mutex waits at most PAR_CFG_MUTEX_TIMEOUT_MS.  *)
(***************************************************************************)
mutex(t) == MutexOf[job[t].p]
Take(t)    == lock[mutex(t)] = Nobody /\ lock' = [lock EXCEPT ![mutex(t)] = t]
Release(t) == lock' = [lock EXCEPT ![mutex(t)] = Nobody]

MutexTimeout(t) ==
    /\ pc[t] = "take" /\ lock[mutex(t)] # Nobody
    /\ Done(t, "ERROR_MUTEX")
    /\ UNCHANGED <<is_init, live, mirror, lock, nvm, calls, obs>>

(***************************************************************************)
(* Writing a scalar.  The fast setters clamp to the range of the row and   *)
(* store once, without the mutex.                                          *)
(***************************************************************************)
Clamped(p, v) == IF v > Table[p].max THEN Table[p].max
                 ELSE IF v < Table[p].min THEN Table[p].min ELSE v
SetStatus(p, v) == IF Clamped(p, v) = v THEN "OK" ELSE "WAR_LIMITED"

StoreCell(p, v) == store' = [store EXCEPT ![Cell[p]] = v]

Unheard(p) == quiet' = [q \in Observed |-> q = p \/ quiet[q]]
Unsaved(p) == tainted' = [tainted EXCEPT ![p] = TRUE]
Disturb(p) == alone' = [u \in Threads |->
                          alone[u] /\ ~(pc[u] # "idle" /\ job[u].p = p)]

(* par_set_<type>_fast, called with the manager initialised (its           *)
(* precondition, par_assert_fast_typed_preconditions).                     *)
SetFast(t) ==
    /\ Ready(t) /\ is_init
    /\ \E p \in Scalars, v \in UNION {Inputs[q] : q \in Scalars} :
          /\ v \in Inputs[p]
          /\ StoreCell(p, Clamped(p, v))
          /\ Disturb(p) /\ Unheard(p) /\ Unsaved(p)
          /\ ret' = [ret EXCEPT ![t] = SetStatus(p, v)]
    /\ calls' = calls + 1
    /\ UNCHANGED <<is_init, pool, len, mirror, lock, pc, job, seen, nvm,
                   heard, whole, got>>

(* PAR_ATOMIC_FETCH_AND / PAR_ATOMIC_FETCH_OR: one read-modify-write,      *)
(* neither clamped nor locked.                                             *)
Words     == 0 .. 2 ^ WordBits - 1
Bit(v, i) == (v \div 2 ^ i) % 2

SetBits(t) ==
    /\ Ready(t) /\ is_init
    /\ \E p \in BitPars, v, new \in Words :
          /\ \/ \A i \in 0 .. WordBits - 1 :
                   Bit(new, i) = Bit(LiveScalar(p), i) * Bit(v, i)
             \/ \A i \in 0 .. WordBits - 1 :
                   Bit(new, i) = 1 - (1 - Bit(LiveScalar(p), i)) * (1 - Bit(v, i))
          /\ StoreCell(p, new)
          /\ Disturb(p) /\ Unheard(p) /\ Unsaved(p)
    /\ ret' = [ret EXCEPT ![t] = "OK"]
    /\ calls' = calls + 1
    /\ UNCHANGED <<is_init, pool, len, mirror, lock, pc, job, seen, nvm,
                   heard, whole, got>>

(* par_set_scalar, the typed setters (op "set"), par_set_scalar_n_save     *)
(* (op "nsave"); their by-ID forms look the ID up first.                   *)
CallSetScalar(t, name) ==
    \E op \in {"set", "nsave"} :
       LET status == set_checked_guard(name)
       IN  \E v \in IF status = "OK" THEN Inputs[name[2]] ELSE {0} :
              Call(t, status, op, name[2], v, "take")

SetScalar(t) == /\ Ready(t)
                /\ \E name \in ByNumber : CallSetScalar(t, name)

SetScalarById(t) == /\ Ready(t)
                    /\ \E name \in ById : CallSetScalar(t, name)

(* par_set_checked_core under the mutex: load the old value, validate,     *)
(* store through the fast setter, load the new value, notify, release.     *)
(* Mutant: the path of a refused value returns with the mutex taken.       *)
AcquireForSetRefusingLocked(t) ==
    /\ pc[t] = "take" /\ job[t].op \in {"set", "nsave"}
    /\ Take(t)
    /\ IF job[t].arg \in Rejected[job[t].p]
       THEN Done(t, "ERROR_VALUE")
       ELSE /\ Goto(t, "store")
            /\ seen' = [seen EXCEPT ![t].old = LiveScalar(job[t].p)]
    /\ UNCHANGED <<is_init, live, mirror, nvm, calls, obs>>
AcquireForSet(t) ==
    /\ pc[t] = "take" /\ job[t].op \in {"set", "nsave"}
    /\ IF job[t].arg \in Rejected[job[t].p]
       THEN /\ lock[mutex(t)] = Nobody
            /\ Done(t, "ERROR_VALUE") /\ UNCHANGED lock
       ELSE /\ Take(t) /\ Goto(t, "store")
            /\ seen' = [seen EXCEPT ![t].old = LiveScalar(job[t].p)]
    /\ UNCHANGED <<is_init, live, mirror, nvm, calls, obs>>

StoreScalar(t) ==
    /\ pc[t] = "store" /\ job[t].op \in {"set", "nsave"}
    /\ StoreCell(job[t].p, Clamped(job[t].p, job[t].arg))
    /\ pc' = [pc EXCEPT ![t] = "reread"]
    /\ ret' = [ret EXCEPT ![t] = SetStatus(job[t].p, job[t].arg)]
    /\ IF job[t].op = "nsave" THEN UNCHANGED tainted ELSE Unsaved(job[t].p)
    /\ UNCHANGED <<is_init, pool, len, mirror, lock, job, seen, nvm, calls,
                   heard, quiet, alone, whole, got>>

(* Mutant: the observer gets the value asked for, not the one stored.      *)
RereadRequested(t) ==
    LET p == job[t].p
        new == job[t].arg
    IN  /\ pc[t] = "reread"
        /\ Goto(t, "notify")
        /\ seen' = [seen EXCEPT ![t].new = new,
                                ![t].changed = new # seen[t].old]
        /\ quiet' = [q \in Observed |->
                       quiet[q] /\ ~(q = p /\ new # seen[t].old)]
        /\ UNCHANGED <<is_init, live, mirror, lock, nvm, calls, heard, tainted,
                       alone, whole, got>>
Reread(t) ==
    LET p == job[t].p
        new == LiveScalar(p)
    IN  /\ pc[t] = "reread"
        /\ Goto(t, "notify")
        /\ seen' = [seen EXCEPT ![t].new = new,
                                ![t].changed = new # seen[t].old]
        /\ quiet' = [q \in Observed |->
                       quiet[q] /\ ~(q = p /\ new # seen[t].old)]
        /\ UNCHANGED <<is_init, live, mirror, lock, nvm, calls, heard, tainted,
                       alone, whole, got>>

(* Mutant: a clamped value, whose status is a warning, is not saved.       *)
NotifyNoSaveOnWarning(t) ==
    LET p == job[t].p
    IN  /\ pc[t] = "notify"
        /\ heard' = [q \in Observed |->
                       IF q = p /\ seen[t].changed THEN seen[t].new
                       ELSE heard[q]]
        /\ Release(t)
        /\ IF job[t].op = "nsave" /\ seen[t].changed /\ ret[t] = "OK"
           THEN Goto(t, "saveRead") /\ UNCHANGED seen
           ELSE Done(t, ret[t])
        /\ UNCHANGED <<is_init, live, mirror, nvm, calls, quiet, tainted,
                       alone, whole, got>>
NotifyAndRelease(t) ==
    LET p == job[t].p
    IN  /\ pc[t] = "notify"
        /\ heard' = [q \in Observed |->
                       IF q = p /\ seen[t].changed THEN seen[t].new
                       ELSE heard[q]]
        /\ Release(t)
        /\ IF job[t].op = "nsave" /\ seen[t].changed
           THEN Goto(t, "saveRead") /\ UNCHANGED seen
           ELSE Done(t, ret[t])
        /\ UNCHANGED <<is_init, live, mirror, nvm, calls, quiet, tainted,
                       alone, whole, got>>

(* par_save of a scalar: par_nvm_write loads the live value and writes it, *)
(* with no mutex held.  A write that fails may have stored the value.      *)
SaveRead(t) ==
    /\ pc[t] = "saveRead"
    /\ IF Table[job[t].p].pers
       THEN /\ Goto(t, "saveWrite")
            /\ seen' = [seen EXCEPT ![t].new = LiveScalar(job[t].p)]
       ELSE Done(t, "ERROR")
    /\ UNCHANGED <<is_init, live, mirror, lock, nvm, calls, obs>>

SaveWrite(t) ==
    LET p == job[t].p
    IN  /\ pc[t] = "saveWrite"
        /\ \/ /\ nvm' = [nvm EXCEPT ![p] = seen[t].new]
              /\ tainted' = [tainted EXCEPT ![p] = ~alone[t]]
              /\ Done(t, ret[t])
           \/ /\ \E stored \in {nvm[p], seen[t].new} :
                    nvm' = [nvm EXCEPT ![p] = stored]
              /\ Unsaved(p) /\ Done(t, "ERROR_NVM")
        /\ UNCHANGED <<is_init, live, mirror, lock, calls, heard, quiet, alone,
                       whole, got>>

(* par_get_scalar and par_get_<type>: one load, no mutex.  The answer goes *)
(* to the caller, nothing in the manager moves.                            *)
CallGetScalar(t, name) == Refuse(t, get_scalar_guard(name))

GetScalar(t) == /\ Ready(t)
                /\ \E name \in ByNumber : CallGetScalar(t, name)

GetScalarById(t) == /\ Ready(t)
                    /\ \E name \in ById : CallGetScalar(t, name)

(***************************************************************************)
(* Writing an object: par_object_write_payload clears the window, copies   *)
(* the payload and commits the length; the caller holds the mutex.         *)
(***************************************************************************)
Payloads(name) == IF name[1] = "OK" /\ name[2] \in Objects
                  THEN Inputs[name[2]] ELSE {<<>>}

SetBytes(t, name) ==
    \E data \in Payloads(name) :
       Call(t, set_obj_checked_guard(name, {"BYTES"}, data), "objset", name[2],
            data, "take")

SetStr(t, name) ==
    \E data \in Payloads(name) :
       Call(t, set_str_guard(name, data), "objset", name[2], data, "take")

SetArray(t, name) ==
    \E data \in Payloads(name) :
       Call(t, set_array_guard(name, data), "objset", name[2], data, "take")

par_set_obj_n_save(t, name) ==
    \E data \in Payloads(name) :
       Call(t, set_obj_checked_guard(name, ObjectTypes, data), "objsave",
            name[2], data, "take")

SetObject(t) ==
    /\ Ready(t)
    /\ \E name \in ByNumber :
          SetBytes(t, name) \/ SetStr(t, name) \/ SetArray(t, name)

SetObjectAndSave(t) ==
    /\ Ready(t)
    /\ \E name \in ByNumber \union ById : par_set_obj_n_save(t, name)

(* par_set_to_default, scalar or object, and par_set_all_to_default        *)
(* without the raw path, which calls it for every parameter.               *)
SetToDefault(t) ==
    /\ Ready(t)
    /\ \E p \in 0 .. rows(Table) :
          Call(t, resolve_runtime(is_init, Table, p, TRUE, FALSE), "default", p,
               IF p \in Params THEN Default[p] ELSE 0, "take")

AcquireForDefault(t) ==
    LET p == job[t].p
    IN  /\ pc[t] = "take" /\ job[t].op = "default"
        /\ Take(t)
        /\ Goto(t, IF p \in Scalars THEN "store" ELSE "clear")
        /\ UNCHANGED <<is_init, live, mirror, seen, nvm, calls, obs>>

StoreDefault(t) ==
    LET p == job[t].p
    IN  /\ pc[t] = "store" /\ job[t].op = "default"
        /\ StoreCell(p, Clamped(p, job[t].arg))
        /\ Unheard(p) /\ Unsaved(p)
        /\ Release(t) /\ Done(t, SetStatus(p, job[t].arg))
        /\ UNCHANGED <<is_init, pool, len, mirror, nvm, calls, heard, alone,
                       whole, got>>

AcquireForSetObject(t) ==
    LET p == job[t].p
    IN  /\ pc[t] = "take" /\ job[t].op \in {"objset", "objsave"}
        /\ IF job[t].arg \in Rejected[p]
           THEN /\ lock[mutex(t)] = Nobody
                /\ Done(t, "ERROR_VALUE") /\ UNCHANGED lock
           ELSE /\ Take(t) /\ Goto(t, "clear")
                /\ seen' = [seen EXCEPT ![t].changed =
                              Len(job[t].arg) # len[p] \/ job[t].arg # Live(p)]
        /\ UNCHANGED <<is_init, live, mirror, nvm, calls, obs>>

ClearWindow(t) ==
    LET p == job[t].p
    IN  /\ pc[t] = "clear"
        /\ pool' = [a \in Pool |-> IF a \in Window[p] THEN 0 ELSE pool[a]]
        /\ Goto(t, "copy")
        /\ UNCHANGED <<is_init, store, len, mirror, lock, seen, nvm, calls,
                       obs>>

CopyPayload(t) ==
    LET p == job[t].p
        n == Len(job[t].arg)
    IN  /\ pc[t] = "copy"
        /\ pool' = [a \in Pool |->
                      IF a - PoolOff[p] \in 0 .. n - 1
                      THEN job[t].arg[a - PoolOff[p] + 1] ELSE pool[a]]
        /\ Goto(t, "commit")
        /\ UNCHANGED <<is_init, store, len, mirror, lock, seen, nvm, calls,
                       obs>>

CommitLen(t) ==
    LET p == job[t].p
        save == job[t].op = "objsave" /\ seen[t].changed
    IN  /\ pc[t] = "commit"
        /\ len' = [len EXCEPT ![p] = Len(job[t].arg)]
        /\ whole' = [whole EXCEPT ![p] = job[t].arg]
        /\ IF job[t].op = "objsave" THEN UNCHANGED tainted ELSE Unsaved(p)
        /\ IF save THEN Goto(t, "saveObject") /\ UNCHANGED <<lock, seen>>
           ELSE Release(t) /\ Done(t, "OK")
        /\ UNCHANGED <<is_init, store, pool, mirror, nvm, calls, heard, quiet,
                       alone, got>>

(* par_nvm_write_object_locked, and par_nvm_write of an object, which      *)
(* takes the mutex itself: the live bytes go to NVM under the mutex.       *)
SaveObject(t) ==
    LET p == job[t].p
    IN  /\ pc[t] = "saveObject"
        /\ \/ /\ Table[p].pers
              /\ nvm' = [nvm EXCEPT ![p] = Live(p)]
              /\ tainted' = [tainted EXCEPT ![p] = FALSE]
              /\ Done(t, "OK")
           \/ /\ \E stored \in {nvm[p], Live(p)} :
                    nvm' = [nvm EXCEPT ![p] = stored]
              /\ Unsaved(p) /\ Done(t, "ERROR_NVM")
        /\ Release(t)
        /\ UNCHANGED <<is_init, live, mirror, calls, heard, quiet, alone,
                       whole, got>>

(* par_save and par_save_by_id.                                            *)
Save(t) ==
    /\ Ready(t)
    /\ \E name \in ByNumber \union ById :
          LET p == name[2]
              status == IF ~is_init THEN "ERROR_INIT"
                        ELSE IF name[1] # "OK" \/ p \notin Params THEN "ERROR"
                        ELSE IF ~Table[p].pers THEN "ERROR" ELSE "OK"
          IN  Call(t, status, "save", p, 0,
                   IF status = "OK" /\ p \in Objects THEN "take"
                   ELSE "saveRead")

AcquireForSave(t) ==
    /\ pc[t] = "take" /\ job[t].op = "save"
    /\ Take(t) /\ Goto(t, "saveObject")
    /\ UNCHANGED <<is_init, live, mirror, seen, nvm, calls, obs>>

(***************************************************************************)
(* Reading an object under the mutex, into a buffer or, with no buffer,    *)
(* its length only.                                                        *)
(***************************************************************************)
GetBytes(t, name) ==
    \E buf \in Buffers :
       Call(t, get_obj_guard(name, {"BYTES"}), "objget", name[2], buf, "take")

GetStr(t, name) ==
    \E buf \in Buffers :
       Call(t, get_obj_guard(name, {"STR"}), "objget", name[2], buf, "take")

GetArray(t, name) ==
    \E buf \in Buffers :
       Call(t, get_obj_guard(name, ArrayTypes), "objget", name[2], buf, "take")

par_get_obj_len(t, name) ==
    Call(t, get_obj_guard(name, ObjectTypes), "objget", name[2], NoBuffer,
         "take")

GetObject(t) ==
    /\ Ready(t)
    /\ \E name \in ByNumber :
          \/ GetBytes(t, name) \/ GetStr(t, name) \/ GetArray(t, name)
          \/ par_get_obj_len(t, name)

(* The by-ID forms of the functions above.                                 *)
BytesAndStrById(t) ==
    /\ Ready(t)
    /\ \E name \in ById : \/ SetBytes(t, name) \/ GetBytes(t, name)
                          \/ SetStr(t, name) \/ GetStr(t, name)

ArraysById(t) ==
    /\ Ready(t)
    /\ \E name \in ById : \/ SetArray(t, name) \/ GetArray(t, name)
                          \/ par_get_obj_len(t, name)

(* par_has_changed: a scalar is read and compared with its default, an     *)
(* object is compared under the mutex.                                     *)
par_has_changed(t) ==
    /\ Ready(t)
    /\ \E p \in 0 .. rows(Table) :
          \/ p \notin Objects /\ CallGetScalar(t, <<"OK", p>>)
          \/ p \in Objects /\ par_get_obj_len(t, <<"OK", p>>)

(* Defaults and capacities come from the table: no mutex, the manager need *)
(* not be initialised.                                                     *)
GetDefault(t) ==
    /\ Ready(t)
    /\ \E name \in ByNumber \union ById, buf \in BufSizes :
          \E status \in {get_default(Table, name[2], buf),
                          get_obj_capacity(Table, name[2])[1]} :
             Refuse(t, IF name[1] # "OK" THEN name[1] ELSE status)

(* Mutant: the mutex is given back before the payload is copied out.       *)
AcquireForGetNoHold(t) ==
    LET p == job[t].p
    IN  /\ pc[t] = "take" /\ job[t].op = "objget"
        /\ lock[mutex(t)] = Nobody
        /\ IF job[t].arg >= 0 /\ buffer_fits(Table[p], len[p], job[t].arg)
           THEN /\ Goto(t, "copyOut")
                /\ seen' = [seen EXCEPT ![t].old = len[p]]
           ELSE Done(t, IF job[t].arg = NoBuffer THEN "OK" ELSE "ERROR_PARAM")
        /\ UNCHANGED <<is_init, live, mirror, lock, nvm, calls, obs>>
AcquireForGet(t) ==
    LET p == job[t].p
    IN  /\ pc[t] = "take" /\ job[t].op = "objget"
        /\ IF job[t].arg >= 0 /\ buffer_fits(Table[p], len[p], job[t].arg)
           THEN /\ Take(t) /\ Goto(t, "copyOut")
                /\ seen' = [seen EXCEPT ![t].old = len[p]]
           ELSE /\ lock[mutex(t)] = Nobody
                /\ Done(t, IF job[t].arg = NoBuffer THEN "OK" ELSE "ERROR_PARAM")
                /\ UNCHANGED lock
        /\ UNCHANGED <<is_init, live, mirror, nvm, calls, obs>>

CopyOut(t) ==
    LET p == job[t].p
    IN  /\ pc[t] = "copyOut"
        /\ got' = [got EXCEPT ![t] = [i \in 1 .. seen[t].old |->
                                         pool[PoolOff[p] + i - 1]]]
        /\ Release(t) /\ Done(t, "OK")
        /\ UNCHANGED <<is_init, live, mirror, nvm, calls, heard, quiet,
                       tainted, alone, whole>>

(***************************************************************************)
(* par_reset_all_to_default_raw: the mirrors are copied over the cells,    *)
(* the pool and the slots, under the mutex of parameter 0.                 *)
(***************************************************************************)
ResetAllRaw(t) ==
    /\ Ready(t)
    /\ Call(t, IF is_init THEN "OK" ELSE "ERROR_INIT", "reset", 0, Scalars,
            "take")

AcquireForReset(t) ==
    /\ pc[t] = "take" /\ job[t].op = "reset"
    /\ Take(t) /\ Goto(t, "cells")
    /\ UNCHANGED <<is_init, live, mirror, seen, nvm, calls, obs>>

ResetCell(t) ==
    /\ pc[t] = "cells"
    /\ \E p \in job[t].arg :
          /\ StoreCell(p, mirror.store[Cell[p]])
          /\ job' = [job EXCEPT ![t].arg = @ \ {p}]
          /\ pc' = [pc EXCEPT ![t] = IF job[t].arg = {p} THEN "pool" ELSE @]
          /\ Unheard(p) /\ Unsaved(p) /\ Disturb(p)
    /\ UNCHANGED <<is_init, pool, len, mirror, lock, seen, ret, nvm, calls,
                   heard, whole, got>>

ResetPool(t) ==
    /\ pc[t] = "pool"
    /\ pool' = mirror.pool
    /\ Goto(t, "slots")
    /\ tainted' = [p \in Params |-> p \in Objects \/ tainted[p]]
    /\ UNCHANGED <<is_init, store, len, mirror, lock, seen, nvm, calls, heard,
                   quiet, alone, whole, got>>

ResetSlots(t) ==
    /\ pc[t] = "slots"
    /\ len' = mirror.len
    /\ whole' = [p \in Objects |-> Payload(p, pool, mirror.len)]
    /\ Release(t) /\ Done(t, "OK")
    /\ UNCHANGED <<is_init, store, pool, mirror, nvm, calls, heard, quiet,
                   tainted, alone, got>>

(***************************************************************************)
(* par_init and par_deinit run alone.  par_init gives the objects and the  *)
(* F32 scalars their defaults, takes the mirrors from what is live then,   *)
(* and restores from NVM (par_nvm_init, external): stored values, or the   *)
(* defaults when they are rejected, or nothing when the backend fails.     *)
(***************************************************************************)
Quiescent == \A t \in Threads : pc[t] = "idle"

PatchedStore ==
    [c \in Cells |->
        LET p == CHOOSE q \in Scalars : Cell[q] = c
        IN  IF Table[p].type = "F32" THEN Default[p] ELSE store[c]]

par_init ==
    /\ Quiescent /\ ~is_init
    /\ is_init' = TRUE
    /\ mirror' = [store |-> PatchedStore, pool |-> DefaultPool,
                  len |-> DefaultLen]
    /\ \E from \in {"nvm", "table", "nothing"} :
          LET restored(p) == Table[p].pers /\ from # "nothing"
              value(p) == IF from = "nvm" THEN nvm[p] ELSE Default[p]
              image == [p \in Objects |->
                          IF restored(p) THEN value(p) ELSE Default[p]]
          IN  /\ store' = [c \in Cells |->
                    LET p == CHOOSE q \in Scalars : Cell[q] = c
                    IN  IF restored(p) THEN Clamped(p, value(p))
                        ELSE PatchedStore[c]]
              /\ len' = [p \in Objects |-> Len(image[p])]
              /\ pool' = [a \in Pool |->
                    LET p == CHOOSE q \in Objects : a \in Window[q]
                        i == a - PoolOff[p] + 1
                    IN  IF i =< Len(image[p]) THEN image[p][i] ELSE 0]
              /\ whole' = image
              /\ nvm' = IF from = "table"
                        THEN [p \in Params |-> IF Table[p].pers THEN Default[p]
                                               ELSE nvm[p]]
                        ELSE nvm
              \* A stored value that is limited stays as it is in NVM.
              /\ tainted' = [p \in Params |->
                    \/ ~restored(p)
                    \/ p \in Scalars /\ Clamped(p, value(p)) # value(p)]
    /\ quiet' = [p \in Observed |-> TRUE]
    /\ UNCHANGED <<lock, pc, job, seen, ret, calls, heard, alone, got>>

par_deinit ==
    /\ Quiescent /\ is_init
    /\ is_init' = FALSE
    /\ UNCHANGED <<live, mirror, lock, pc, job, seen, ret, nvm, calls, obs>>

(* The target is reset: RAM is initialised anew, NVM keeps its values.     *)
Reboot ==
    /\ calls < MaxCalls
    /\ is_init' = FALSE
    /\ store' = LoadedStore /\ pool' = NoMirror.pool /\ len' = NoMirror.len
    /\ mirror' = NoMirror
    /\ lock' = [m \in Mutexes |-> Nobody]
    /\ pc' = [t \in Threads |-> "idle"]
    /\ job' = [t \in Threads |-> NoJob]
    /\ seen' = [t \in Threads |-> NoSeen]
    /\ ret' = [t \in Threads |-> "OK"]
    /\ heard' = [p \in Observed |-> Default[p]]
    /\ quiet' = [p \in Observed |-> TRUE]
    /\ tainted' = [p \in Params |-> TRUE]
    /\ alone' = [t \in Threads |-> TRUE]
    /\ whole' = [p \in Objects |-> Default[p]]
    /\ calls' = calls + 1
    /\ UNCHANGED <<nvm, got>>

-----------------------------------------------------------------------------
(* What a thread does once it has called.                                  *)
Step(t) ==
    \/ MutexTimeout(t)
    \/ AcquireForSet(t) \/ StoreScalar(t) \/ Reread(t) \/ NotifyAndRelease(t)
    \/ SaveRead(t) \/ SaveWrite(t)
    \/ AcquireForDefault(t) \/ StoreDefault(t)
    \/ AcquireForSetObject(t) \/ ClearWindow(t) \/ CopyPayload(t)
    \/ CommitLen(t) \/ AcquireForSave(t) \/ SaveObject(t)
    \/ AcquireForGet(t) \/ CopyOut(t)
    \/ AcquireForReset(t) \/ ResetCell(t) \/ ResetPool(t) \/ ResetSlots(t)

CallSomething(t) ==
    \/ SetFast(t) \/ SetBits(t) \/ SetScalar(t) \/ SetScalarById(t)
    \/ GetScalar(t) \/ GetScalarById(t) \/ SetToDefault(t) \/ ResetAllRaw(t)
    \/ SetObject(t) \/ SetObjectAndSave(t) \/ GetObject(t)
    \/ BytesAndStrById(t) \/ ArraysById(t)
    \/ par_has_changed(t) \/ GetDefault(t) \/ Save(t)

Next == \/ \E t \in Threads : Step(t) \/ CallSomething(t)
        \/ par_init \/ par_deinit \/ Reboot

Spec == Init /\ [][Next]_vars

-----------------------------------------------------------------------------
InCall(t, p) == pc[t] # "idle" /\ job[t].p = p

Legal(p, v) ==
    IF p \in Objects THEN object_len_is_valid(Table[p], Len(v))
    ELSE p \in BitPars \/ (Table[p].min =< v /\ v =< Table[p].max)

(* Type invariant of the core's state.                                     *)
TypeOK ==
    /\ is_init \in BOOLEAN
    /\ DOMAIN store = Cells /\ DOMAIN pool = Pool
    /\ \A p \in Objects : len[p] \in 0 .. max_len(Table[p])
    /\ lock \in [Mutexes -> Threads \union {Nobody}]
    /\ pc \in [Threads -> {"idle", "take", "store", "reread", "notify",
                           "saveRead", "saveWrite", "clear", "copy", "commit",
                           "saveObject", "copyOut", "cells", "pool", "slots"}]
    /\ \A t \in Threads : job[t].p \in Params /\ seen[t].changed \in BOOLEAN
    /\ calls \in 0 .. MaxCalls

(* Every path out of a call, refusals and errors included, gives the mutex *)
(* back, and the steps that read or write an object's bytes or notify an   *)
(* observer are taken by the owner of the parameter's mutex.               *)
Holding == {"store", "reread", "notify", "clear", "copy", "commit",
            "saveObject", "copyOut", "cells", "pool", "slots"}
MutexFollowsCalls ==
    /\ \A t \in Threads : pc[t] \in Holding => lock[mutex(t)] = t
    /\ \A m \in Mutexes : lock[m] # Nobody =>
          pc[lock[m]] \in Holding /\ mutex(lock[m]) = m

(* The on-change callback runs under the mutex, with a value read back     *)
(* after the store: whenever nobody holds the mutex of an observed scalar  *)
(* and its last change came from a checked setter, the observer has the    *)
(* live value, whatever setters of other threads did in between.           *)
ObserversUpToDate ==
    \A p \in Observed :
       lock[MutexOf[p]] = Nobody /\ ~quiet[p] => heard[p] = LiveScalar(p)

(* par_set_scalar_n_save, par_set_obj_n_save and par_save leave the live   *)
(* value in NVM.  For an object this holds however calls overlap, since    *)
(* the write happens under the mutex; for a scalar when no other call used *)
(* it meanwhile.  Excluded are parameters written by a call that does not  *)
(* save, or whose save failed, since the last save.                        *)
SavedValueIsLive ==
    \A p \in Params :
       /\ Table[p].pers /\ ~tainted[p]
       /\ \A t \in Threads : ~InCall(t, p)
       => nvm[p] = Live(p)

(* The core implements one register per parameter: range, whole payloads,  *)
(* a reset of all objects at once.  What RAM holds while the manager is    *)
(* not initialised is nobody's value.                                      *)
V == INSTANCE ParValues WITH
        val <- [p \in Params |-> IF ~is_init THEN Default[p]
                                 ELSE IF p \in Objects THEN whole[p]
                                 ELSE LiveScalar(p)]
ImplementsParValues == V!Spec

(* docs/api-reference.md and the note at gs_par_default_mirror: the raw    *)
(* reset restores the defaults, the mirrors are captured from them.        *)
MirrorHoldsDefaults ==
    is_init => /\ mirror.store = DefaultStore
               /\ mirror.pool = DefaultPool /\ mirror.len = DefaultLen
=============================================================================

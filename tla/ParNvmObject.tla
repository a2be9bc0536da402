---------------------------- MODULE ParNvmObject ----------------------------
(***************************************************************************)
(* Persistence of object parameters: nvm/object/par_nvm_object.c with the  *)
(* address modes of nvm/object/addr and the store modes of                 *)
(* nvm/object/store, over a byte store whose writes may stop anywhere.     *)
(*                                                                         *)
(* The store is a row of cells.  A cell is one payload byte, the signature *)
(* of the object block, the rest of its header, or the head of one record; *)
(* a write that stops inside such a group leaves Garbage in it.  A CRC is  *)
(* the fields it is computed over.  A firmware is a table and the build    *)
(* options that place and check the block; the target may boot another.    *)
(* The scalar part of par_nvm.c is in ParNvm; here its records are cells   *)
(* the boot has written before the objects are restored.                   *)
(***************************************************************************)
EXTENDS ParTable

CONSTANTS
    Firmware,      \* Firmware[f]: [rows, scalar_cells, check, mode]
    Payloads,      \* Payloads[id]: payloads the application sets
    StoreSize,     \* cells of the backend
    FixedAddr,     \* PAR_CFG_NVM_OBJECT_FIXED_ADDR
    RegionSize,    \* PAR_CFG_NVM_OBJECT_REGION_SIZE, 0 if not limited
    DedicatedAddr, \* PAR_CFG_NVM_OBJECT_DEDICATED_BASE_ADDR
    WriteVerify,   \* PAR_CFG_NVM_OBJECT_WRITE_VERIFY_EN
    Bytes,         \* values of a payload byte
    Blank,         \* an erased cell
    Sign,          \* PAR_NVM_OBJECT_SIGN
    Garbage,       \* a cell group whose write stopped inside
    ScalarData,    \* a cell of the scalar records
    MaxFaults,     \* bound: failures and power losses
    MaxCalls,      \* bound: API calls
    MaxBoots       \* bound: starts of the target

Firmwares == DOMAIN Firmware
Builds    == {Firmware[f] : f \in Firmwares}
Ids       == UNION {{b.rows[i].id : i \in DOMAIN b.rows} : b \in Builds}

ASSUME StoreAssumption ==
    StoreSize \in Nat /\ FixedAddr \in Nat /\ DedicatedAddr \in Nat

(* What the checks of par_def.c and par.c demand of a table, here of its   *)
(* persistent objects; without any there is no object block.               *)
ASSUME FirmwareAssumption ==
    \A b \in Builds :
       /\ Len(b.rows) \in Nat \ {0} /\ DOMAIN b.rows = 1 .. Len(b.rows)
       /\ \A i \in DOMAIN b.rows :
             /\ type_is_object(b.rows[i].type) /\ row_check_ok(b.rows[i])
             /\ b.rows[i].min \in Nat /\ b.rows[i].max \in Nat
             /\ \A j \in DOMAIN b.rows : b.rows[i].id = b.rows[j].id => i = j
       /\ b.scalar_cells \in Nat
       /\ b.mode \in {"AFTER_SCALAR", "FIXED", "DEDICATED"}

(* par_set_obj refuses other payloads, the table check other defaults.     *)
ASSUME PayloadAssumption ==
    \A b \in Builds : \A i \in DOMAIN b.rows :
       \A v \in Payloads[b.rows[i].id] \union {b.rows[i].def} :
          v \in Seq(Bytes) /\ object_len_is_valid(b.rows[i], Len(v))

VARIABLES
    cells,         \* the backend
    fw,            \* the running firmware
    pc,            \* "off", a step of the boot or of a save, "up", "noNvm"
    idx,           \* the object the boot or par_nvm_object_write_all is at
    op,            \* who writes: "boot", "all", "save", "nsave"
    meta,          \* the record head being written
    head,          \* the header the boot has read
    live,          \* the payload of each object
    locked,        \* the mutex is held by the writer
    result,        \* status of the last boot or save
    faults, calls, boots,
    \* Observations the properties need; no guard of the code reads them.
    saved,         \* saved[id]: payload of the last save reported OK
    sound,         \* sound[id]: no save of it failed since
    signed,        \* the header was written whole and not erased since
    half,          \* par_nvm_object_write_all is between signature and header
    expect         \* what the store held at the boot, Blank once changed

counters == <<faults, calls, boots>>
obs  == <<saved, sound, signed, half, expect>>
vars == <<cells, fw, pc, idx, op, meta, head, live, locked, result, counters,
          obs>>

(***************************************************************************)
(* Serialization: sizes, addresses and digests of a build b.               *)
(***************************************************************************)
HeadSize == 2
RecordHeadSize == 1

compile_count(b)  == Len(b.rows)
record_size(b, i) == RecordHeadSize + max_len(b.rows[i])

body_size_for_count(b, n) ==
    LET size[i \in 0 .. n] == IF i = 0 THEN 0
                              ELSE size[i - 1] + record_size(b, i)
    IN  size[n]

get_block_size(b) == IF compile_count(b) = 0 THEN 0
                     ELSE HeadSize + body_size_for_count(b, compile_count(b))

(* par_nvm_object_get_block_addr in its three modes; 0 means no address.   *)
scalar_block_end_addr(b) == b.scalar_cells

\* Mutant: a fixed address inside the scalar records is accepted.
unchecked_fixed_addr(b) ==
    IF \/ scalar_block_end_addr(b) = 0
       \/ RegionSize > 0 /\ get_block_size(b) > RegionSize
    THEN 0 ELSE FixedAddr
fixed_block_addr(b) ==
    IF \/ scalar_block_end_addr(b) = 0
       \/ FixedAddr < scalar_block_end_addr(b)
       \/ RegionSize > 0 /\ get_block_size(b) > RegionSize
    THEN 0 ELSE FixedAddr

get_block_addr(b) ==
    CASE b.mode = "AFTER_SCALAR" -> scalar_block_end_addr(b)
      [] b.mode = "FIXED"        -> fixed_block_addr(b)
      [] b.mode = "DEDICATED"    -> DedicatedAddr

block_addr_zero_is_valid(b) == b.mode = "DEDICATED"

record_addr(b, i) == get_block_addr(b) + HeadSize
                     + body_size_for_count(b, i - 1)

validate_storage_capacity(b) ==
    \/ get_block_size(b) = 0
    \/ /\ get_block_addr(b) # 0 \/ block_addr_zero_is_valid(b)
       /\ get_block_addr(b) + get_block_size(b) =< StoreSize

(* The schema digest over the first n persistent objects.                  *)
table_id_for_count(b, n) ==
    [i \in 1 .. n |-> <<b.rows[i].type, b.rows[i].id,
                        elem_size(b.rows[i].type), min_len(b.rows[i]),
                        max_len(b.rows[i])>>]

head_crc(h) == <<h.obj_nb, h.table_id, h.body_size>>
new_head(b) ==
    LET h == [obj_nb    |-> compile_count(b),
              table_id  |-> table_id_for_count(b, compile_count(b)),
              body_size |-> body_size_for_count(b, compile_count(b)),
              crc       |-> <<>>]
    IN  [h EXCEPT !.crc = head_crc(h)]

\* Mutant: the CRC covers the head of the record only.
head_only_record_crc(m, bytes) ==
    <<m.id, m.type, m.elem_size, m.capacity, m.len>>
record_crc(m, bytes) == <<m.id, m.type, m.elem_size, m.capacity, m.len, bytes>>
new_meta(b, i, payload) ==
    LET m == [id |-> b.rows[i].id, type |-> b.rows[i].type,
              elem_size |-> elem_size(b.rows[i].type),
              capacity |-> max_len(b.rows[i]), len |-> Len(payload),
              crc |-> <<>>]
    IN  [m EXCEPT !.crc = record_crc(m, payload)]

Stored(store, addr, n) == [i \in 1 .. n |-> store[addr + i - 1]]

(***************************************************************************)
(* Reading the block back.                                                 *)
(***************************************************************************)
Atoms == Bytes \union {Blank, Sign, Garbage, ScalarData}
(* A cell says which group of bytes it is.                                 *)
ASSUME CellAssumption ==
    /\ Sign \notin Bytes \union {Blank, Garbage, ScalarData}
    /\ \A b \in Builds :
          /\ new_head(b) \notin Atoms
          /\ \A c \in Builds : \A i \in DOMAIN b.rows, j \in DOMAIN c.rows :
                b.rows[i].id = c.rows[j].id =>
                   \A v \in Payloads[b.rows[i].id] \union {c.rows[j].def} :
                      new_meta(b, i, v) \notin Atoms

IsHead(cell) == cell \notin Atoms /\ "obj_nb" \in DOMAIN cell
IsMeta(cell) == cell \notin Atoms /\ "capacity" \in DOMAIN cell

validate_header(store, b) ==
    LET sign == store[get_block_addr(b)]
        h    == store[get_block_addr(b) + 1]
    IN  IF sign # Sign THEN "ERROR"
        ELSE IF ~IsHead(h) THEN "ERROR_CRC"
        ELSE IF h.crc # head_crc(h) THEN "ERROR_CRC"
        ELSE IF \/ h.obj_nb > compile_count(b)
                \/ h.body_size # body_size_for_count(b, h.obj_nb)
                \/ b.check /\ h.table_id # table_id_for_count(b, h.obj_nb)
             THEN "ERROR_TABLE_ID"
        ELSE "OK"

validate_record_meta(b, i, m) ==
    IF \/ ~IsMeta(m)
       \/ m.id # b.rows[i].id \/ m.type # b.rows[i].type
       \/ m.elem_size # elem_size(b.rows[i].type)
       \/ m.capacity # max_len(b.rows[i])
    THEN "ERROR_TABLE_ID"
    ELSE IF ~object_len_is_valid(b.rows[i], m.len) THEN "ERROR_VALUE" ELSE "OK"

check_record(store, b, i) ==
    LET m == store[record_addr(b, i)]
        status == validate_record_meta(b, i, m)
    IN  IF status # "OK" THEN status
        ELSE IF m.crc # record_crc(m, Stored(store, record_addr(b, i)
                                                    + RecordHeadSize, m.len))
             THEN "ERROR_CRC" ELSE "OK"

record_payload(store, b, i) ==
    Stored(store, record_addr(b, i) + RecordHeadSize,
           store[record_addr(b, i)].len)

Default(b) == [i \in 1 .. compile_count(b) |-> b.rows[i].def]

(* What a boot of b without failures makes of the store: the stored        *)
(* objects and the defaults of appended ones, or <<>> if it is refused.    *)
Restorable(store, b) ==
    IF ~validate_storage_capacity(b) \/ validate_header(store, b) # "OK"
    THEN <<>>
    ELSE LET nb == store[get_block_addr(b) + 1].obj_nb
         IN  IF \E i \in 1 .. nb : check_record(store, b, i) # "OK" THEN <<>>
             ELSE [i \in 1 .. compile_count(b) |->
                     IF i =< nb THEN record_payload(store, b, i)
                     ELSE b.rows[i].def]

(***************************************************************************)
(* The backend and the ways a call of it can end.                          *)
(***************************************************************************)
Build == Firmware[fw]

Full(addr, data) ==
    [c \in DOMAIN cells |-> IF c - addr \in 0 .. Len(data) - 1
                            THEN data[c - addr + 1] ELSE cells[c]]
Partial(addr, data) ==
    {[c \in DOMAIN cells |->
        IF c - addr \in 0 .. k - 1 THEN data[c - addr + 1]
        ELSE IF c = addr + k /\ torn /\ k < Len(data) THEN Garbage
        ELSE cells[c]] : k \in 0 .. Len(data), torn \in BOOLEAN}

Fault == faults < MaxFaults /\ faults' = faults + 1

InBoot == op = "boot"
IdOf(i) == Build.rows[i].id

(* A failing call gives the mutex back and returns; in par_nvm_init it     *)
(* also takes NVM down (par_nvm_cleanup_after_init_failure).               *)
\* Mutant: the error path returns with the mutex held.
ReturnLocked(status) ==
    /\ pc' = IF InBoot /\ status \notin {"OK", "SET_TO_DEF"} THEN "noNvm"
             ELSE "up"
    /\ locked' = (locked /\ status # "OK")
    /\ result' = status
Return(status) ==
    /\ pc' = IF InBoot /\ status \notin {"OK", "SET_TO_DEF"} THEN "noNvm"
             ELSE "up"
    /\ locked' = FALSE
    /\ result' = status

ObjectUnsound == sound' = [id \in Ids |-> sound[id] /\ id # IdOf(idx)]

PowerLoss ==
    /\ pc # "off" /\ Fault
    /\ pc' = "off" /\ locked' = FALSE
    /\ IF pc \in {"writeMeta", "syncRecord"} THEN ObjectUnsound
       ELSE UNCHANGED sound
    /\ UNCHANGED <<cells, fw, idx, op, meta, head, live, result, calls, boots,
                   saved, signed, half, expect>>

(* The backend reports an error, or the power fails, inside a write.       *)
FailedWrite(addr, data) ==
    /\ Fault
    /\ cells' \in Partial(addr, data)
    /\ \/ Return("ERROR_NVM")
       \/ pc' = "off" /\ locked' = FALSE /\ UNCHANGED result

(***************************************************************************)
(* par_nvm_object_init.                                                    *)
(***************************************************************************)
Init ==
    /\ cells = [c \in 0 .. StoreSize - 1 |-> Blank]
    /\ fw \in Firmwares
    /\ pc = "off" /\ idx = 1 /\ op = "boot" /\ meta = Blank /\ head = Blank
    /\ live = Default(Firmware[fw])
    /\ locked = FALSE /\ result = "OK"
    /\ faults = 0 /\ calls = 0 /\ boots = 0
    /\ saved = [id \in Ids |-> <<>>] /\ sound = [id \in Ids |-> FALSE]
    /\ signed = FALSE /\ half = FALSE /\ expect = Blank

(* par_init gives every object its default; par_nvm_init brings the scalar *)
(* records up to date, finds the block and probes its last byte.           *)
Boot ==
    /\ pc = "off" /\ boots < MaxBoots
    /\ \E f \in Firmwares :
          LET b == Firmware[f]
              scalars == [c \in DOMAIN cells |->
                            IF c < b.scalar_cells /\ b.mode # "DEDICATED"
                            THEN ScalarData ELSE cells[c]]
          IN  /\ fw' = f
              /\ cells' = scalars
              /\ live' = Default(b)
              /\ expect' = Restorable(scalars, b)
              /\ IF validate_storage_capacity(b)
                 THEN pc' = "readHeader" /\ UNCHANGED result
                 ELSE pc' = "noNvm" /\ result' = "ERROR_NVM"
              \* Another table or another place: earlier saves do not count.
              /\ signed' = (signed /\ f = fw)
              /\ half' = (half /\ get_block_addr(b) = get_block_addr(Build))
    /\ op' = "boot" /\ idx' = 1 /\ boots' = boots + 1
    /\ UNCHANGED <<saved, sound>>
    /\ UNCHANGED <<meta, head, locked, faults, calls>>

ReadHeader ==
    /\ pc = "readHeader"
    /\ \/ /\ LET status == validate_header(cells, Build)
             IN  pc' = IF status = "OK" THEN "readRecord" ELSE "defaults"
          /\ head' = cells[get_block_addr(Build) + 1]
          /\ result' = validate_header(cells, Build)
          /\ UNCHANGED faults
       \/ /\ Fault /\ pc' = "defaults" /\ result' = "ERROR_NVM"
          /\ UNCHANGED head
    /\ UNCHANGED <<cells, fw, idx, op, meta, live, locked, calls, boots, obs>>

(* par_nvm_object_read_record: head and CRC are checked against the store, *)
(* then the payload is read again, into the pool, under the mutex.  The    *)
(* second read may fail half-way.                                          *)
ReadRecord ==
    /\ pc = "readRecord" /\ idx =< head.obj_nb
    /\ LET status == check_record(cells, Build, idx)
       IN  \/ /\ status # "OK" /\ pc' = "defaults" /\ result' = status
              /\ UNCHANGED <<live, idx, faults>>
           \/ /\ status = "OK"
              /\ live' = [live EXCEPT ![idx] =
                            record_payload(cells, Build, idx)]
              /\ idx' = idx + 1 /\ UNCHANGED <<pc, result, faults>>
           \/ /\ Fault /\ pc' = "defaults" /\ result' = "ERROR_NVM"
              /\ \/ UNCHANGED live
                 \/ /\ status = "OK" /\ live[idx] # <<>>
                    /\ live' = [live EXCEPT ![idx][1] =
                                  cells[record_addr(Build, idx)
                                        + RecordHeadSize]]
              /\ UNCHANGED idx
           \/ /\ Fault /\ pc' = "noNvm" /\ result' = "ERROR_MUTEX"
              /\ UNCHANGED <<live, idx>>
    /\ UNCHANGED <<cells, fw, op, meta, head, locked, calls, boots, obs>>

(* par_set_to_default of these objects in turn, each under its mutex: one  *)
(* that is not to be had leaves its object as it is, not those behind it.  *)
(* (An ERROR_NVM from before is then in the status as well.)               *)
Reset(objects) ==
    live' = [i \in DOMAIN live |-> IF i \in objects THEN Default(Build)[i]
                                  ELSE live[i]]
ResetFails(objects) ==
    /\ Fault
    /\ \E done \in SUBSET objects : done # objects /\ Reset(done)
    /\ Return("ERROR_MUTEX")

(* Objects appended to the table get their defaults; the block is then     *)
(* rewritten with all of them.                                             *)
RestoreDone ==
    LET appended == {i \in DOMAIN live : i > head.obj_nb}
    IN  /\ pc = "readRecord" /\ idx > head.obj_nb
        /\ \/ /\ Reset(appended)
              /\ IF appended # {}
                 THEN pc' = "erase" /\ UNCHANGED <<result, locked>>
                 ELSE Return("OK")
              /\ UNCHANGED faults
           \/ ResetFails(appended)
        /\ UNCHANGED <<cells, fw, idx, op, meta, head, calls, boots, obs>>

(* All objects get their defaults.  A block found damaged is rewritten,    *)
(* one that could not be read is left alone, and so is any if an object    *)
(* was not reset.                                                          *)
\* Mutant: what was restored before the bad record stays.
keep_restored ==
    /\ pc = "defaults"
    /\ IF result = "ERROR_NVM" THEN Return("ERROR_NVM")
       ELSE pc' = "erase" /\ result' = "SET_TO_DEF" /\ UNCHANGED locked
    /\ UNCHANGED <<cells, fw, idx, op, meta, head, live, counters, obs>>
set_persistent_defaults ==
    /\ pc = "defaults"
    /\ \/ /\ Reset(DOMAIN live)
          /\ IF result = "ERROR_NVM" THEN Return("ERROR_NVM")
             ELSE pc' = "erase" /\ result' = "SET_TO_DEF" /\ UNCHANGED locked
          /\ UNCHANGED faults
       \/ ResetFails(DOMAIN live)
    /\ UNCHANGED <<cells, fw, idx, op, meta, head, calls, boots, obs>>

(***************************************************************************)
(* par_nvm_object_write_all: the signature is erased, the records are      *)
(* written, the header comes last.                                         *)
(***************************************************************************)
\* Mutant: the block stays signed while its records are replaced.
KeepSign ==
    /\ pc = "erase"
    /\ pc' = "take" /\ idx' = 1 /\ half' = TRUE
    /\ UNCHANGED <<cells, fw, op, meta, head, live, locked, result, counters,
                   saved, sound, signed, expect>>
EraseSign ==
    LET addr == get_block_addr(Build)
    IN  /\ pc = "erase"
        /\ signed' = FALSE
        /\ \/ /\ cells' = [cells EXCEPT ![addr] = Blank]
              /\ pc' = "take" /\ idx' = 1 /\ half' = TRUE
              /\ UNCHANGED <<locked, result, faults>>
           \/ /\ FailedWrite(addr, <<Blank>>) /\ UNCHANGED <<idx, half>>
    /\ UNCHANGED <<fw, op, meta, head, live, calls, boots, saved, sound,
                   expect>>
WriteHeader ==
    LET addr == get_block_addr(Build)
        data == <<Sign, new_head(Build)>>
    IN  /\ pc = "writeHeader"
        /\ half' = FALSE
        /\ \/ /\ cells' = Full(addr, data)
              /\ pc' = "syncHeader" /\ UNCHANGED <<locked, result, faults>>
           \/ FailedWrite(addr, data)
    /\ UNCHANGED <<fw, idx, op, meta, head, live, calls, boots, saved, sound,
                   signed, expect>>

(* The sync, and the read-back when it is configured.                      *)
SyncHeader ==
    /\ pc = "syncHeader"
    /\ \/ /\ signed' = TRUE
          /\ Return(IF InBoot THEN result ELSE "OK") /\ UNCHANGED faults
       \/ Fault /\ Return("ERROR_NVM") /\ UNCHANGED signed
    /\ UNCHANGED <<cells, fw, idx, op, meta, head, live, calls, boots, saved,
                   sound, half, expect>>

(***************************************************************************)
(* par_nvm_object_write_core: the payload, then the head of the record,    *)
(* under the mutex of the object.                                          *)
(***************************************************************************)
\* Mutant: the record is written without the mutex.
TakeNoMutex ==
    /\ pc = "take"
    /\ meta' = new_meta(Build, idx, live[idx])
    /\ pc' = "writePayload"
    /\ UNCHANGED <<cells, fw, idx, op, head, live, locked, result, counters,
                   obs>>
TakeMutex ==
    /\ pc = "take"
    /\ \/ /\ locked' = TRUE
          /\ meta' = new_meta(Build, idx, live[idx])
          /\ pc' = "writePayload" /\ UNCHANGED <<result, faults>>
       \/ Fault /\ Return("ERROR_MUTEX") /\ UNCHANGED meta
    /\ UNCHANGED <<cells, fw, idx, op, head, live, calls, boots, obs>>
WritePayload ==
    LET addr == record_addr(Build, idx) + RecordHeadSize
        \* Behind the payload the window of the object is clear.
        data == [i \in 1 .. meta.len |-> IF i =< Len(live[idx])
                                         THEN live[idx][i] ELSE Blank]
    IN  /\ pc = "writePayload"
        /\ \/ /\ cells' = Full(addr, data)
              /\ pc' = "writeMeta" /\ UNCHANGED <<locked, result, faults, sound>>
           \/ /\ data # <<>> /\ FailedWrite(addr, data) /\ ObjectUnsound
        /\ UNCHANGED <<fw, idx, op, meta, head, live, calls, boots, saved,
                       signed, half, expect>>

WriteMeta ==
    LET addr == record_addr(Build, idx)
    IN  /\ pc = "writeMeta"
        /\ \/ /\ cells' = Full(addr, <<meta>>)
              /\ pc' = "syncRecord" /\ UNCHANGED <<locked, result, faults, sound>>
           \/ /\ FailedWrite(addr, <<meta>>) /\ ObjectUnsound
        /\ UNCHANGED <<fw, idx, op, head, live, meta, calls, boots, saved,
                       signed, half, expect>>

(* Sync and read-back: always with WriteVerify, else only for single saves.*)
SyncRecord ==
    /\ pc = "syncRecord"
    /\ \/ /\ saved' = [saved EXCEPT ![IdOf(idx)] = live[idx]]
          /\ sound' = [sound EXCEPT ![IdOf(idx)] = TRUE]
          /\ IF op \in {"save", "nsave"}
             THEN Return("OK") /\ UNCHANGED idx
             ELSE /\ locked' = FALSE /\ idx' = idx + 1
                  /\ pc' = IF idx = compile_count(Build) THEN "writeHeader"
                           ELSE "take"
                  /\ UNCHANGED result
          /\ UNCHANGED faults
       \/ /\ WriteVerify \/ op \in {"save", "nsave"}
          /\ Fault /\ Return("ERROR_NVM") /\ ObjectUnsound
          /\ UNCHANGED <<saved, idx>>
    /\ UNCHANGED <<cells, fw, op, meta, head, live, calls, boots, signed, half,
                   expect>>

(***************************************************************************)
(* Calls of the application, while NVM is up.                              *)
(***************************************************************************)
Idle == pc = "up" /\ calls < MaxCalls /\ calls' = calls + 1

(* Another thread writes an object: it needs the mutex.                    *)
SetObject ==
    /\ pc = "up" \/ (op # "boot" /\ pc \notin {"off", "noNvm"})
    /\ ~locked
    /\ calls < MaxCalls /\ calls' = calls + 1
    /\ \E i \in DOMAIN live : \E v \in Payloads[IdOf(i)] :
          live' = [live EXCEPT ![i] = v]
    /\ expect' = Blank
    /\ UNCHANGED <<cells, fw, pc, idx, op, meta, head, locked, result, faults,
                   boots, saved, sound, signed, half>>

par_nvm_object_write ==
    /\ Idle
    /\ idx' \in DOMAIN live
    /\ op' = "save" /\ pc' = "take"
    /\ expect' = Blank
    /\ UNCHANGED <<cells, fw, meta, head, live, locked, result, faults, boots,
                   saved, sound, signed, half>>

(* par_set_obj_n_save holds the mutex from before the change.              *)
par_nvm_object_write_locked ==
    /\ Idle
    /\ \E i \in DOMAIN live : \E v \in Payloads[IdOf(i)] :
          /\ idx' = i
          /\ live' = [live EXCEPT ![i] = v]
          /\ meta' = new_meta(Build, i, v)
    /\ locked' = TRUE
    /\ op' = "nsave" /\ pc' = "writePayload"
    /\ expect' = Blank
    /\ UNCHANGED <<cells, fw, head, result, faults, boots, saved, sound,
                   signed, half>>

par_nvm_object_write_all ==
    /\ Idle
    /\ op' = "all" /\ pc' = "erase"
    /\ expect' = Blank
    /\ UNCHANGED <<cells, fw, idx, meta, head, live, locked, result, faults,
                   boots, saved, sound, signed, half>>

-----------------------------------------------------------------------------
Next == \/ PowerLoss \/ Boot \/ ReadHeader \/ ReadRecord \/ RestoreDone
        \/ set_persistent_defaults
        \/ EraseSign \/ WriteHeader \/ SyncHeader
        \/ TakeMutex \/ WritePayload \/ WriteMeta \/ SyncRecord
        \/ SetObject \/ par_nvm_object_write \/ par_nvm_object_write_locked
        \/ par_nvm_object_write_all

Spec == Init /\ [][Next]_vars

-----------------------------------------------------------------------------
(* Type invariant; the mutex is held only while a record is written.       *)
TypeOK ==
    /\ DOMAIN cells = 0 .. StoreSize - 1
    /\ DOMAIN live = 1 .. compile_count(Build)
    /\ pc \in {"off", "readHeader", "readRecord", "defaults", "erase", "take",
               "writePayload", "writeMeta", "syncRecord", "writeHeader",
               "syncHeader", "up", "noNvm"}
    /\ idx \in 1 .. compile_count(Build) + 1
    /\ locked \in BOOLEAN
    /\ locked => pc \in {"writePayload", "writeMeta", "syncRecord"}
    /\ signed \in BOOLEAN /\ half \in BOOLEAN
    /\ \A id \in Ids : sound[id] \in BOOLEAN

(* The object block never reaches into the scalar records before it,       *)
(* whatever the address mode, the tables and the firmware booted before.   *)
ScalarsUntouched ==
    pc \notin {"off", "noNvm"} /\ Build.mode # "DEDICATED"
        => \A c \in 0 .. Build.scalar_cells - 1 : cells[c] = ScalarData

Legal(id, v) == \/ v \in Payloads[id]
                \/ \E b \in Builds : \E i \in DOMAIN b.rows :
                      b.rows[i].id = id /\ b.rows[i].def = v

(* A boot never brings up a payload nobody set: a record of which only     *)
(* part was written, or that another table or another scalar block left at *)
(* its place, is refused.                                                  *)
NoTornPayload ==
    pc = "up" => \A i \in DOMAIN live : Legal(IdOf(i), live[i])

(* par_nvm_object_init restores every stored object or none: when a record *)
(* turns out bad, objects restored before it get their defaults again, and *)
(* so do all of them when the store cannot be read, which takes NVM down.  *)
(* (A write that fails later takes it down with all objects restored or    *)
(* none.  Only a mutex that cannot be had may leave a mixture, and takes   *)
(* NVM down as well.)                                                      *)
AllOrNothing ==
    pc \in {"up", "noNvm"} /\ op = "boot" /\ expect # Blank
        => CASE result = "OK"          -> live = expect
             [] result = "SET_TO_DEF"  -> live = Default(Build)
             [] result = "ERROR_MUTEX" -> pc = "noNvm"
             [] OTHER                  -> live \in {expect, Default(Build)}

(* While a save of all objects is under way, and after it was cut short,   *)
(* no firmware takes the block for complete: a boot never sees some of     *)
(* its objects and not others.                                             *)
NoHalfSaveAll ==
    half => \A b \in Builds : get_block_addr(b) = get_block_addr(Build)
                                => Restorable(cells, b) = <<>>

(* A save that was reported OK survives: with the block signed and no      *)
(* unrepeated failed save in it, the next boot restores the last saved     *)
(* payload of every object, also in a firmware that appends objects to     *)
(* the table.                                                              *)
Appends(b) == /\ compile_count(b) >= compile_count(Build)
              /\ \A i \in DOMAIN Build.rows : b.rows[i] = Build.rows[i]
              /\ get_block_addr(b) = get_block_addr(Build)
              /\ validate_storage_capacity(b)
SavedObjectsSurvive ==
    pc = "up" /\ signed /\ (\A i \in DOMAIN live : sound[IdOf(i)])
        => \A b \in Builds : Appends(b) =>
              \A i \in DOMAIN live :
                 /\ Restorable(cells, b) # <<>>
                 /\ Restorable(cells, b)[i] = saved[IdOf(i)]
=============================================================================

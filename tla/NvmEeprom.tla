----------------------------- MODULE NvmEeprom ------------------------------
(***************************************************************************)
(* The scalar records of the NVM core in an EEPROM, byte by byte: the      *)
(* RT-Thread AT24CXX backend (backend/par_store_backend_rtt_at24cxx.c),    *)
(* the binding of store and layout (nvm/scalar/store) and, above them, the *)
(* header and record writes of par_nvm.c with their read-back.             *)
(*                                                                         *)
(* One step is one call of the EEPROM driver, of at most the bytes of one  *)
(* page.  The call may fail, having stored any beginning of its bytes; the *)
(* device may acknowledge a page and not store it; and the power may fail  *)
(* in the call.  After a reset the firmware may have another table.        *)
(* The window of the parameters lies between bytes of other owners.        *)
(***************************************************************************)
EXTENDS NvmLayouts

CONSTANTS
  Tables,      \* persistent scalars of the firmwares that may boot
  Images,      \* the values of par_type_t: sequences of four bytes
  MemSize,     \* bytes of the EEPROM
  BaseAddr,    \* PAR_CFG_RTT_AT24_BASE_ADDR
  WindowSize,  \* PAR_CFG_RTT_AT24_SIZE
  PageBytes,   \* AT24CXX_PAGE_BYTE
  EraseChunk,  \* PAR_CFG_RTT_AT24_ERASE_CHUNK, or a page
  WriteVerify, \* PAR_CFG_NVM_WRITE_VERIFY_EN
  MaxRequests, \* bound: header and record writes, erases of the signature
  MaxFaults,   \* bound: driver calls that fail, are cut or are not stored
  DropsWrites, \* the device may acknowledge bytes and not store them
  Bad          \* a part of the image that cannot be used

ASSUME WindowAssumption ==
  /\ {MemSize, BaseAddr, WindowSize, PageBytes, EraseChunk, MaxRequests, MaxFaults} \subseteq Nat
  /\ WindowSize > 0
  /\ BaseAddr + WindowSize =< MemSize
  /\ 0 < EraseChunk /\ EraseChunk =< PageBytes
\* Without a read-back nothing can be said of a device that drops writes.
ASSUME FaultsAssumption ==
  /\ WriteVerify \in BOOLEAN /\ DropsWrites \in BOOLEAN
  /\ DropsWrites => WriteVerify
ASSUME ImagesAssumption == Images \subseteq [1 .. SlotSize -> {<<b>> : b \in 0 .. 255}]

VARIABLES
  eeprom,  \* the bytes of the device, by absolute address
  layout,  \* the record layout all firmwares are built with
  table,   \* the table of the running firmware
  open,    \* gp_at24_dev is not NULL
  owner,   \* the NVM core opened the backend
  up,      \* the NVM core has bound store and layout
  op,      \* the header or record write that runs
  addr,    \* where its next driver call writes
  left,    \* the bytes it has still to write
  reply,   \* what the last one answered
  seen,    \* history: what eeprom says to the running firmware
  calls,   \* how many writes and erases have been requested
  faults,  \* how many driver calls have not done their work
  pieces   \* history: for each record, and 0 for the header, the contents
           \* that writes since the last whole one have left bytes of

nvm     == <<layout, table>>
binding == <<open, owner, up>>
vars    == <<eeprom, nvm, binding, op, addr, left, reply, seen, faults, calls, pieces>>

Erased  == <<255>>
Address == 0 .. MemSize - 1
Window  == BaseAddr .. BaseAddr + WindowSize - 1

\* A carrier is cleared before the value is put in.
Types           == UNION {{t[i].type : i \in DOMAIN t} : t \in Tables}
Carriers        == [type \in Types |-> {unpack_payload(type, d) : d \in Images}]
Values(l, s)    == Carriers[s.type]
AnyValue        == UNION {Carriers[type] : type \in Types}
Described(l, t) == table_id_for_count(l, t, Len(t))

ASSUME TablesAssumption == \A t \in Tables : t \in Seq([id : Nat, type : Types])
ASSUME BadAssumption ==
  Bad \notin AnyValue /\ \A l \in Layouts, t \in Tables : Bad # Described(l, t)

Idle == [kind |-> "none", slot |-> 0, data |-> Bad]
TypeOK ==
  /\ DOMAIN eeprom = Address
  /\ layout \in Layouts /\ table \in Tables
  /\ <<open, owner, up>> \in BOOLEAN \X BOOLEAN \X BOOLEAN
  /\ \/ op = Idle
     \/ op \in {[Idle EXCEPT !.kind = k] : k \in {"erase", "header"}}
     \/ /\ op.kind = "record" /\ op.slot \in DOMAIN table
        /\ op.data \in Values(layout, table[op.slot])
  /\ op = Idle => left = <<>>
  /\ left # <<>> => addr \in Window /\ addr + Len(left) - 1 \in Window
  /\ reply \in {"none", "ok", "error"}

-----------------------------------------------------------------------------
(* The backend.                                                            *)

\* Mutant: only the first byte is checked.
start_is_valid(a, size) == size > 0 /\ a < WindowSize

is_range_valid(a, size) == size > 0 /\ a < WindowSize /\ a + size =< WindowSize

abs_addr(a) == BaseAddr + a

read_cells(mem, a, size) ==
  IF is_range_valid(a, size)
  THEN <<"OK", [k \in 1 .. size |-> mem[abs_addr(a) + k - 1]]>>
  ELSE <<"ERROR_NVM", <<>>>>

\* at24cxx_page_write of the driver package: bytes at consecutive addresses.
Written(mem, a, cells) ==
  [b \in Address |->
     IF b < a \/ b >= a + Len(cells) THEN mem[b] ELSE cells[b - a + 1]]

\* A call that crosses the end of a page writes each page on its own, and the
\* device may acknowledge any of them and not store it.
PageOf(b) == b \div PageBytes
Stored(mem, a, cells) ==
  LET whole == Written(mem, a, cells)
      pages == {PageOf(b) : b \in a .. a + Len(cells) - 1}
  IN  IF ~DropsWrites THEN {whole}
      ELSE {[b \in Address |-> IF PageOf(b) \in lost THEN mem[b] ELSE whole[b]] :
              lost \in SUBSET pages}

\* A call that fails or is cut has come to any of its bytes.
Cut(mem, a, cells) == UNION {Stored(mem, a, SubSeq(cells, 1, k)) : k \in 0 .. Len(cells)}

-----------------------------------------------------------------------------
(* The image.                                                              *)

Sign     == <<data_byte(71), data_byte(82), data_byte(65), data_byte(80)>>
HeadSize == 12

\* par_nvm_write_header: signature, count, table ID, CRC.
\* The table ID determines the count, so its bytes stand for the bytes the
\* CRC is computed from.
HeadCells(l, t) ==
  LET digest(n, mark) == [k \in 1 .. n |-> <<mark, k, Described(l, t)>>]
  IN  Sign \o le16(Len(t)) \o digest(4, -2) \o digest(2, -3)

\* The same, computed once.
HeadImage == [l \in Layouts |-> [t \in Tables |-> HeadCells(l, t)]]

Body(cells) == SubSeq(cells, 5, HeadSize)

head_of(l, mem) ==
  LET cells   == read_cells(mem, 0, HeadSize)
      body    == Body(cells[2])
      writers == {t \in Tables : body = Body(HeadImage[l][t])}
  IN  IF cells[1] # "OK" THEN [sign |-> FALSE, body |-> Bad]
      ELSE [sign |-> SubSeq(cells[2], 1, 4) = Sign,
            body |-> IF writers = {} THEN Bad ELSE Described(l, CHOOSE t \in writers : TRUE)]

\* par_nvm_layout_addr_from_persist_idx, computed once.
Addresses == [l \in Layouts |-> [t \in Tables |->
               [i \in DOMAIN t |-> addr_from_persist_idx(l, HeadSize, t, i)]]]
record_addr(l, t, i) == Addresses[l][t][i]

stored_record(l, mem, t, i) ==
  LET cells == read_cells(mem, record_addr(l, t, i), record_size(l, t[i].type))
      obj   == read_record(l, t[i], cells[2])
  IN  IF cells[1] # "OK" THEN failed("ERROR_NVM")
      ELSE IF obj.status # "OK" THEN obj
      ELSE IF validate_loaded_obj(l, t[i], obj) THEN obj ELSE failed("ERROR")

Says(l, mem, t) ==
  [head |-> head_of(l, mem),
   rec  |-> [i \in DOMAIN t |->
              LET obj == stored_record(l, mem, t, i)
              IN  IF obj.status = "OK" THEN obj.data ELSE Bad]]

-----------------------------------------------------------------------------
\* Another owner of the device may have opened it before.
Init ==
  /\ eeprom = [a \in Address |-> Erased]
  /\ layout \in Layouts /\ table \in Tables
  /\ open \in BOOLEAN /\ owner = FALSE /\ up = FALSE
  /\ op = Idle /\ addr = 0 /\ left = <<>>
  /\ reply = "none"
  /\ seen = Says(layout, eeprom, table)
  /\ faults = 0 /\ calls = 0
  /\ pieces = [i \in 0 .. Len(table) |-> {}]

\* par_nvm_scalar_layout_bind and par_nvm_scalar_store_init: a backend that
\* is open already is used, and left open later.
StoreInit ==
  /\ ~up
  /\ \/ open /\ up' = TRUE /\ owner' = FALSE /\ UNCHANGED open
     \/ ~open /\ up' = TRUE /\ owner' = TRUE /\ open' = TRUE
     \/ ~open /\ UNCHANGED binding
  /\ reply' = IF up' THEN "none" ELSE "error"
  /\ UNCHANGED <<eeprom, nvm, op, addr, left, seen, faults, calls, pieces>>

StoreDeinit ==
  /\ up /\ op = Idle
  /\ up' = FALSE /\ owner' = FALSE
  /\ open' = (open /\ ~owner)
  /\ reply' = "none"
  /\ UNCHANGED <<eeprom, nvm, op, addr, left, seen, faults, calls, pieces>>

Answers(r) ==
  /\ op' = Idle /\ left' = <<>> /\ addr' = 0
  /\ reply' = r

\* par_store_rtt_at24_write and _erase, up to their loop.
Transfers(request, a, cells) ==
  IF is_range_valid(a, Len(cells))
  THEN /\ op' = request /\ addr' = abs_addr(a) /\ left' = cells
       /\ reply' = "none"
       /\ pieces' =
            CASE request.kind = "record" ->
                   [pieces EXCEPT ![request.slot] = @ \cup {seen.rec[request.slot], request.data}]
              [] request.kind = "header" ->
                   [pieces EXCEPT ![0] = @ \cup {seen.head.body, Described(layout, table)}]
              [] OTHER -> pieces
  ELSE Answers("error") /\ UNCHANGED pieces

Calls == /\ up /\ op = Idle
         /\ calls < MaxRequests /\ calls' = calls + 1
         /\ UNCHANGED <<eeprom, nvm, binding, seen, faults>>

\* The slots whose records the stored header covers for both firmwares.
Covered(l, head, t) ==
  IF head.sign /\ head.body # Bad /\
     check_compat(l, t, Len(head.body), head.body) # "REBUILD"
  THEN 1 .. Len(head.body) ELSE {}

\* par_nvm_write, for a save, an append or a rewrite.  It asks for no header
\* of its own: par_nvm stays up when the header or a record cannot be read,
\* when the signature could not be erased, and when the erase was not stored.
WriteRecord ==
  /\ Calls
  /\ \E i \in DOMAIN table : \E d \in Values(layout, table[i]) :
       Transfers([kind |-> "record", slot |-> i, data |-> d],
                 record_addr(layout, table, i), write_record(layout, table[i], d))

\* par_nvm_write_header comes after all the records.
WriteHeader ==
  /\ Calls
  /\ \A i \in DOMAIN table : seen.rec[i] # Bad
  /\ Transfers([kind |-> "header", slot |-> 0, data |-> Bad],
               0, HeadImage[layout][table])

EraseSignature ==
  /\ Calls
  /\ Transfers([kind |-> "erase", slot |-> 0, data |-> Bad],
               0, [k \in 1 .. Len(Sign) |-> Erased])

Chunk ==
  LET limit == IF op.kind = "erase" THEN EraseChunk ELSE PageBytes
  IN  IF Len(left) > limit THEN limit ELSE Len(left)
NextBytes == SubSeq(left, 1, Chunk)

Fault == faults < MaxFaults /\ faults' = faults + 1

\* One turn of the loop of _write or _erase.
Transfer ==
  /\ left # <<>>
  /\ \/ /\ eeprom' \in Stored(eeprom, addr, NextBytes)
        /\ IF eeprom' = Written(eeprom, addr, NextBytes) THEN UNCHANGED faults ELSE Fault
        /\ addr' = addr + Chunk
        /\ left' = SubSeq(left, Chunk + 1, Len(left))
        /\ UNCHANGED <<op, reply>>
     \/ /\ eeprom' \in Cut(eeprom, addr, NextBytes)
        /\ Fault
        /\ Answers("error")
  /\ seen' = Says(layout, eeprom', table)
  /\ UNCHANGED <<nvm, binding, calls, pieces>>

\* par_nvm_verify_header_readback, par_nvm_verify_record_readback.
Verified ==
  CASE op.kind = "header" -> head_of(layout, eeprom) = [sign |-> TRUE, body |-> Described(layout, table)]
    [] op.kind = "record" ->
         LET obj == stored_record(layout, eeprom, table, op.slot)
         IN  obj.status = "OK" /\ data_obj_matches(layout, table[op.slot].type, op.data, obj.data)
    [] OTHER -> TRUE

\* par_store_rtt_at24_sync has nothing to do; the read for the comparison may
\* fail, which counts as a fault.
SyncAndVerify ==
  /\ op # Idle /\ left = <<>>
  /\ \/ /\ WriteVerify => Verified
        /\ Answers("ok")
        /\ pieces' = CASE op.kind = "record" -> [pieces EXCEPT ![op.slot] = {}]
                       [] op.kind = "header" -> [pieces EXCEPT ![0] = {}]
                       [] OTHER              -> pieces
        /\ UNCHANGED faults
     \/ /\ WriteVerify /\ op.kind # "erase"
        /\ IF Verified THEN Fault ELSE UNCHANGED faults
        /\ Answers("error")
        /\ UNCHANGED pieces
  /\ UNCHANGED <<eeprom, nvm, binding, seen, calls>>

Kept == Covered(layout, seen'.head, table) \cap Covered(layout, seen'.head, table')

\* The power may fail in the middle of a driver call.
Reboot ==
  /\ IF left = <<>> THEN UNCHANGED <<eeprom, faults>>
                   ELSE Fault /\ eeprom' \in Cut(eeprom, addr, NextBytes)
  /\ table' \in Tables
  /\ seen' = Says(layout, eeprom', table')
  /\ pieces' = [i \in 0 .. Len(table') |->
                  IF i = 0 \/ table' = table \/ i \in Kept THEN pieces[i]
                  ELSE AnyValue]
  /\ open' = FALSE /\ owner' = FALSE /\ up' = FALSE
  /\ op' = Idle /\ addr' = 0 /\ left' = <<>>
  /\ reply' = "none"
  /\ UNCHANGED <<layout, calls>>

Next == StoreInit \/ StoreDeinit \/ WriteRecord \/ WriteHeader \/ EraseSignature
        \/ Transfer \/ SyncAndVerify \/ Reboot

Spec == Init /\ [][Next]_vars

-----------------------------------------------------------------------------
(* Properties.                                                             *)

\* Bytes of the EEPROM outside the parameters' window are never written,
\* whatever table boots: a table too long for the window is refused record
\* by record (par_store_rtt_at24_is_range_valid).
NeighboursKept ==
  [][\A a \in Address \ Window : eeprom'[a] = eeprom[a]]_vars

\* Each layout on the EEPROM is the store of whole or bad records that the
\* NVM core takes it for: a write that is cut, fails or is not stored makes
\* no other record or the header unreadable and no record readable with a
\* value nobody saved, what is answered ok is stored, and a firmware with
\* an appended table finds the records of the old one.
Store == INSTANCE RecordStore
  WITH head <- seen.head, rec <- seen.rec,
       Describes <- Described, AppendsTail <- appends_tail
ImplementsRecordStore == Store!Spec
=============================================================================

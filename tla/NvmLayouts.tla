----------------------------- MODULE NvmLayouts -----------------------------
(***************************************************************************)
(* The five layouts of the scalar records in the store (nvm/scalar/layout) *)
(* and the helpers they share (nvm/scalar/par_nvm_scalar.c): where the     *)
(* record of a persistent slot is, which bytes it has, what a read of      *)
(* those bytes says, and which stored images a running table accepts.      *)
(*                                                                         *)
(* A table is here the sequence of its persistent scalars, records with an *)
(* id and a type; slot i is persist_idx i - 1.  A byte of the store is a   *)
(* sequence: <<b>> for a byte of data, and a mark with the bytes it is     *)
(* computed from for a byte of a checksum or a digest, so that no two      *)
(* collide.  The live value of a slot is the four bytes of par_type_t.     *)
(***************************************************************************)
EXTENDS Integers, Sequences

Layouts == {"FIXED_SLOT_WITH_SIZE", "FIXED_SLOT_NO_SIZE", "COMPACT_PAYLOAD",
            "FIXED_PAYLOAD_ONLY", "GROUPED_PAYLOAD_ONLY"}

has_stored_id(layout) ==
    layout \in {"FIXED_SLOT_WITH_SIZE", "FIXED_SLOT_NO_SIZE", "COMPACT_PAYLOAD"}

payload_size(type) == CASE type \in {"U8", "I8"}   -> 1
                        [] type \in {"U16", "I16"} -> 2
                        [] OTHER                   -> 4
SlotSize == 4

data_byte(b)    == <<b>>
le16(n)         == <<data_byte(n % 256), data_byte(n \div 256)>>
checksum(cells) == <<-1, cells>>

\* The bytes of a carrier that belong to the value, and back: the carrier
\* was cleared before.
pack_payload(type, data)    == SubSeq(data, 1, payload_size(type))
unpack_payload(type, cells) ==
    [k \in 1 .. SlotSize |-> IF k =< payload_size(type) THEN cells[k] ELSE data_byte(0)]

calc_crc(payload) == checksum(payload)
calc_crc_with_id(id_bytes, size_bytes, payload) ==
    checksum(id_bytes \o size_bytes \o payload)

\* What a read answers: the bytes of the stored ID (none in the layouts
\* without one) and the carrier.
failed(status)    == [status |-> status, id |-> <<>>, data |-> <<>>]
loaded(id, data)  == [status |-> "OK", id |-> id, data |-> data]

-----------------------------------------------------------------------------
(* Records with an ID and a size: a slot of four bytes, or the payload.    *)

\* The record: id, size, crc, payload.
sized_record(id, size, payload) ==
    le16(id) \o <<data_byte(size)>>
    \o <<calc_crc_with_id(le16(id), <<data_byte(size)>>, payload)>> \o payload

read_sized(size, cells) ==
    LET id      == SubSeq(cells, 1, 2)
        payload == SubSeq(cells, 5, 4 + size)
    IN  IF cells[3] # data_byte(size) THEN failed("ERROR")
        ELSE IF cells[4] # calc_crc_with_id(id, <<cells[3]>>, payload)
        THEN failed("ERROR_CRC")
        ELSE loaded(id, payload)

fixed_slot_with_size_record_size(type) == 8
fixed_slot_with_size_addr(first, tbl, i) == first + (i - 1) * 8
fixed_slot_with_size_write(slot, data) == sized_record(slot.id, SlotSize, data)
fixed_slot_with_size_read(slot, cells) == read_sized(SlotSize, cells)
fixed_slot_with_size_validate(slot, obj) == obj.id = le16(slot.id)

compact_payload_record_size(type) == 4 + payload_size(type)

\* The offset of slot i when records of these sizes are packed one behind
\* the other: offsetof in a structure with one array per persistent row.
packed_offset(sizes, i) ==
    LET offset[k \in 1 .. i] ==
          IF k = 1 THEN 0 ELSE offset[k - 1] + sizes[k - 1]
    IN  offset[i]

compact_payload_addr(first, tbl, i) ==
    first + packed_offset([k \in DOMAIN tbl |->
                             compact_payload_record_size(tbl[k].type)], i)

compact_payload_write(slot, data) ==
    sized_record(slot.id, payload_size(slot.type), pack_payload(slot.type, data))

compact_payload_read(slot, cells) ==
    LET obj == read_sized(payload_size(slot.type), cells)
    IN  IF obj.status # "OK" THEN obj
        ELSE loaded(obj.id, unpack_payload(slot.type, obj.data))

compact_payload_validate(slot, obj) == obj.id = le16(slot.id)

-----------------------------------------------------------------------------
(* A slot of four bytes behind an ID and a CRC, without a size.            *)

fixed_slot_no_size_record_size(type) == 7
fixed_slot_no_size_addr(first, tbl, i) == first + (i - 1) * 7

fixed_slot_no_size_write(slot, data) ==
    le16(slot.id) \o <<calc_crc_with_id(le16(slot.id), <<>>, data)>> \o data

fixed_slot_no_size_read(slot, cells) ==
    LET id      == SubSeq(cells, 1, 2)
        payload == SubSeq(cells, 4, 7)
    IN  IF cells[3] # calc_crc_with_id(id, <<>>, payload) THEN failed("ERROR_CRC")
        ELSE loaded(id, payload)

fixed_slot_no_size_validate(slot, obj) == obj.id = le16(slot.id)

-----------------------------------------------------------------------------
(* A CRC and the payload, nothing else.                                    *)

payload_record_size(type) == 1 + payload_size(type)
payload_record(slot, data) ==
    LET payload == pack_payload(slot.type, data)
    IN  <<calc_crc(payload)>> \o payload
read_payload(slot, cells) ==
    IF cells[1] # calc_crc(Tail(cells)) THEN failed("ERROR_CRC")
    ELSE loaded(<<>>, unpack_payload(slot.type, Tail(cells)))

fixed_payload_only_record_size(type) == payload_record_size(type)
fixed_payload_only_addr(first, tbl, i) ==
    first + packed_offset([k \in DOMAIN tbl |-> payload_record_size(tbl[k].type)], i)
fixed_payload_only_write(slot, data) == payload_record(slot, data)
fixed_payload_only_read(slot, cells) == read_payload(slot, cells)

grouped_payload_only_record_size(type) == payload_record_size(type)

\* All 8-bit records, then the 16-bit ones, then the 32-bit ones, each group
\* in table order.
grouped_payload_only_addr(first, tbl, i) ==
    LET width(k)  == payload_size(tbl[k].type)
        before(k) == width(k) < width(i) \/ (width(k) = width(i) /\ k < i)
        sizes     == [k \in DOMAIN tbl |->
                        IF before(k) THEN payload_record_size(tbl[k].type) ELSE 0]
    IN  first + packed_offset(sizes, Len(tbl) + 1)

grouped_payload_only_write(slot, data) == payload_record(slot, data)
grouped_payload_only_read(slot, cells) == read_payload(slot, cells)

-----------------------------------------------------------------------------
(* The vtable a build selects: par_nvm_layout_api_t.                       *)

record_size(layout, type) ==
    CASE layout = "FIXED_SLOT_WITH_SIZE" -> fixed_slot_with_size_record_size(type)
      [] layout = "FIXED_SLOT_NO_SIZE"   -> fixed_slot_no_size_record_size(type)
      [] layout = "COMPACT_PAYLOAD"      -> compact_payload_record_size(type)
      [] layout = "FIXED_PAYLOAD_ONLY"   -> fixed_payload_only_record_size(type)
      [] layout = "GROUPED_PAYLOAD_ONLY" -> grouped_payload_only_record_size(type)

addr_from_persist_idx(layout, first, tbl, i) ==
    CASE layout = "FIXED_SLOT_WITH_SIZE" -> fixed_slot_with_size_addr(first, tbl, i)
      [] layout = "FIXED_SLOT_NO_SIZE"   -> fixed_slot_no_size_addr(first, tbl, i)
      [] layout = "COMPACT_PAYLOAD"      -> compact_payload_addr(first, tbl, i)
      [] layout = "FIXED_PAYLOAD_ONLY"   -> fixed_payload_only_addr(first, tbl, i)
      [] layout = "GROUPED_PAYLOAD_ONLY" -> grouped_payload_only_addr(first, tbl, i)

write_record(layout, slot, data) ==
    CASE layout = "FIXED_SLOT_WITH_SIZE" -> fixed_slot_with_size_write(slot, data)
      [] layout = "FIXED_SLOT_NO_SIZE"   -> fixed_slot_no_size_write(slot, data)
      [] layout = "COMPACT_PAYLOAD"      -> compact_payload_write(slot, data)
      [] layout = "FIXED_PAYLOAD_ONLY"   -> fixed_payload_only_write(slot, data)
      [] layout = "GROUPED_PAYLOAD_ONLY" -> grouped_payload_only_write(slot, data)

read_record(layout, slot, cells) ==
    CASE layout = "FIXED_SLOT_WITH_SIZE" -> fixed_slot_with_size_read(slot, cells)
      [] layout = "FIXED_SLOT_NO_SIZE"   -> fixed_slot_no_size_read(slot, cells)
      [] layout = "COMPACT_PAYLOAD"      -> compact_payload_read(slot, cells)
      [] layout = "FIXED_PAYLOAD_ONLY"   -> fixed_payload_only_read(slot, cells)
      [] layout = "GROUPED_PAYLOAD_ONLY" -> grouped_payload_only_read(slot, cells)

\* The payload-only layouts have nothing to look at.
validate_loaded_obj(layout, slot, obj) ==
    CASE layout = "FIXED_SLOT_WITH_SIZE" -> fixed_slot_with_size_validate(slot, obj)
      [] layout = "FIXED_SLOT_NO_SIZE"   -> fixed_slot_no_size_validate(slot, obj)
      [] layout = "COMPACT_PAYLOAD"      -> compact_payload_validate(slot, obj)
      [] OTHER                           -> TRUE

\* data_obj_matches: the two slot layouts compare all four bytes.
data_obj_matches(layout, type, expected, actual) ==
    IF layout \in {"FIXED_SLOT_WITH_SIZE", "FIXED_SLOT_NO_SIZE"}
    THEN expected = actual
    ELSE pack_payload(type, expected) = pack_payload(type, actual)

\* par_nvm_table_id_calc_for_count, n being at most Len(tbl).
table_id_for_count(layout, tbl, n) ==
    [i \in 1 .. n |-> [type |-> tbl[i].type,
                       id   |-> IF has_stored_id(layout) THEN tbl[i].id ELSE 0]]

\* Whether the running table tbl may use an image of n records whose digest
\* is digest: all of them, or a prefix it then appends to.
\* Mutant: groups are taken to grow at the end of the image.
appends_always(layout) == TRUE

appends_tail(layout) == layout # "GROUPED_PAYLOAD_ONLY"
check_compat(layout, tbl, n, digest) ==
    IF n > Len(tbl) THEN "REBUILD"
    ELSE IF digest # table_id_for_count(layout, tbl, n) THEN "REBUILD"
    ELSE IF n = Len(tbl) THEN "EXACT_MATCH"
    ELSE IF appends_tail(layout) THEN "PREFIX_APPEND" ELSE "REBUILD"
=============================================================================

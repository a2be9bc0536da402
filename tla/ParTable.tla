------------------------------ MODULE ParTable ------------------------------
(***************************************************************************)
(* The parameter table and everything that is computed from it alone: the  *)
(* checks made while compiling (def/par_def.c) and in par_init (par.c),    *)
(* the RAM layout (layout/par_layout.c), the ID map (par_id_map_static)    *)
(* and the getters of the table's defaults with their argument guards.     *)
(*                                                                         *)
(* A table is a function from 0 .. n-1 to rows.  A row is one line of      *)
(* par_table.def: type, id, min, max, def, access (a subset of             *)
(* {"READ", "WRITE"}) and pers.  In an object row min and max count        *)
(* elements and def is a sequence of bytes.  The operators have no state;  *)
(* ParCore and ParNvmObject use them.                                      *)
(***************************************************************************)
EXTENDS Integers, Sequences, FiniteSets

ObjectTypes == {"STR", "BYTES", "ARR_U8", "ARR_U16", "ARR_U32"}
ArrayTypes  == {"ARR_U8", "ARR_U16", "ARR_U32"}
ScalarTypes == {"U8", "I8", "U16", "I16", "U32", "I32", "F32"}

type_is_object(type) == type \in ObjectTypes

elem_size(type) == CASE type = "ARR_U16" -> 2 [] type = "ARR_U32" -> 4
                     [] OTHER -> 1

(* The value_cfg.object fields: the table macros multiply an array's       *)
(* element counts by the element size and narrow the product to 16 bits.   *)
min_len(row) == (row.min * elem_size(row.type)) % 65536
max_len(row) == (row.max * elem_size(row.type)) % 65536

object_len_is_valid(row, len) ==
    /\ min_len(row) =< len /\ len =< max_len(row)
    /\ len % elem_size(row.type) = 0

object_default_cfg_is_valid(row) ==
    /\ min_len(row) =< max_len(row)
    /\ object_len_is_valid(row, Len(row.def))

(***************************************************************************)
(* What the static assertions of par_def.c demand of a table.              *)
(***************************************************************************)
access_common_ok(row) ==
    /\ row.access \subseteq {"READ", "WRITE"}
    /\ row.access # {}
    /\ "WRITE" \in row.access => "READ" \in row.access

row_check_ok(row) ==
    /\ access_common_ok(row)
    /\ CASE row.type = "F32" -> TRUE
         [] type_is_object(row.type) ->
              /\ row.type \in ArrayTypes => row.min = row.max
              /\ min_len(row) =< max_len(row)
         [] OTHER ->
              row.min < row.max /\ row.min =< row.def /\ row.def =< row.max

(* PAR_HASH_ID_CONST: (uint32)(id * 0x61C88647) >> (32 - bits), for tables *)
(* of at most 2^15 rows.  The product is formed from 16-bit halves (0x61C8 *)
(* and 0x8647) and bytes of the ID: TLC's integers have 32 bits.           *)
hash_bits(n) == CHOOSE b \in 1 .. 16 : /\ 2 ^ b >= 2 * n
                                       /\ \A c \in 1 .. b - 1 : 2 ^ c < 2 * n
hash_id(n, id) ==
    LET hi == id \div 256
        lo == id % 256
        low  == lo * 34375 + ((hi * 34375) % 256) * 256
        high == lo * 25032 + ((hi * 25032) % 256) * 256
                + (hi * 34375) \div 256 + low \div 65536
    IN  (high % 65536) \div 2 ^ (16 - hash_bits(n))

rows(tbl) == Cardinality(DOMAIN tbl)

bucket(tbl, p) == hash_id(rows(tbl), tbl[p].id)

(* par_compile_check_duplicate_ids, par_compile_check_hash_bucket_collision*)
ids_check_ok(tbl) ==
    \A p, q \in DOMAIN tbl :
       p # q => /\ tbl[p].id # tbl[q].id
                /\ bucket(tbl, p) # bucket(tbl, q)

table_compiles(tbl) == /\ \A p \in DOMAIN tbl : row_check_ok(tbl[p])
                       /\ ids_check_ok(tbl)

(* par_runtime_validate_id_table and par_check_table_validity.             *)
runtime_id_table_ok(tbl) ==
    LET diag[p \in -1 .. rows(tbl) - 1] ==
          IF p = -1 THEN [ok |-> TRUE, used |-> {}]
          ELSE [ok   |-> diag[p - 1].ok /\ bucket(tbl, p) \notin diag[p - 1].used,
                used |-> diag[p - 1].used \union {bucket(tbl, p)}]
    IN  diag[rows(tbl) - 1].ok

check_table_validity(tbl) ==
    IF /\ runtime_id_table_ok(tbl)
       /\ \A p \in DOMAIN tbl : type_is_object(tbl[p].type)
                                   => object_default_cfg_is_valid(tbl[p])
    THEN "OK" ELSE "ERROR_INIT"

(***************************************************************************)
(* par_layout_init: one scan over the table.  A scalar takes the next cell *)
(* of its width group, an object the next slot and the next max_len bytes  *)
(* of the pool.                                                            *)
(***************************************************************************)
width_group(type) == CASE type \in {"U8", "I8"} -> "u8"
                       [] type \in {"U16", "I16"} -> "u16"
                       [] type \in {"U32", "I32", "F32"} -> "u32"
                       [] OTHER -> "obj"

layout_counters == {"u8", "u16", "u32", "obj", "pool"}

row_takes(row, c) ==
    IF c = "pool" THEN IF type_is_object(row.type) THEN max_len(row) ELSE 0
    ELSE IF c = width_group(row.type) THEN 1 ELSE 0

layout_scan(tbl) ==
    LET scan[p \in 0 .. rows(tbl)] ==
          [c \in layout_counters |->
             IF p = 0 THEN 0 ELSE scan[p - 1][c] + row_takes(tbl[p - 1], c)]
    IN  scan

(* g_par_offset, the pool offsets and the counts PAR_STORAGE_COUNT*.       *)
layout_offset(tbl, p)   == layout_scan(tbl)[p][width_group(tbl[p].type)]
obj_pool_offset(tbl, p) == layout_scan(tbl)[p]["pool"]
layout_count(tbl)       == layout_scan(tbl)[rows(tbl)]

(* par_object_init_defaults_from_table refuses a layout whose slots leave  *)
(* gaps or overlap, or that does not fill the pool.                        *)
object_layout_ok(tbl, poolOffset, poolBytes) ==
    LET objs == {p \in DOMAIN tbl : type_is_object(tbl[p].type)}
        expected[p \in 0 .. rows(tbl)] ==
          IF p = 0 THEN 0
          ELSE expected[p - 1] + (IF p - 1 \in objs THEN max_len(tbl[p - 1])
                                  ELSE 0)
    IN  /\ \A p \in objs : /\ object_default_cfg_is_valid(tbl[p])
                           /\ poolOffset[p] = expected[p]
                           /\ poolOffset[p] + max_len(tbl[p]) =< poolBytes
        /\ expected[rows(tbl)] = poolBytes

(***************************************************************************)
(* Lookups, guards and getters of defaults.                                *)
(***************************************************************************)
id_map(tbl) ==
    [b \in {bucket(tbl, p) : p \in DOMAIN tbl} |->
        LET p == CHOOSE q \in DOMAIN tbl : bucket(tbl, q) = b
        IN  [id |-> tbl[p].id, par_num |-> p]]

get_num_by_id(tbl, id) ==
    LET b == hash_id(rows(tbl), id)
    IN  IF b \in DOMAIN id_map(tbl) /\ id_map(tbl)[b].id = id
        THEN <<"OK", id_map(tbl)[b].par_num>> ELSE <<"ERROR", 0>>

(* arg is FALSE for a NULL pointer.                                        *)
resolve_metadata(tbl, p, arg, require_arg) ==
    IF require_arg /\ ~arg THEN "ERROR_PARAM"
    ELSE IF p \notin DOMAIN tbl THEN "ERROR_PAR_NUM" ELSE "OK"

resolve_runtime(is_init, tbl, p, arg, require_arg) ==
    IF ~is_init THEN "ERROR_INIT"
    ELSE resolve_metadata(tbl, p, arg, require_arg)

access_has_read(row)  == "READ" \in row.access
access_has_write(row) == {"READ", "WRITE"} \subseteq row.access

get_obj_capacity(tbl, p) ==
    LET status == resolve_metadata(tbl, p, TRUE, TRUE)
    IN  IF status # "OK" THEN <<status, 0>>
        ELSE IF ~type_is_object(tbl[p].type) THEN <<"ERROR_TYPE", 0>>
        ELSE <<"OK", max_len(tbl[p])>>

(* The default getters: into a buffer of buf elements (of buf bytes, with  *)
(* room for the terminator, for a STR).                                    *)
get_scalar_default(tbl, p) ==
    LET status == resolve_metadata(tbl, p, TRUE, TRUE)
    IN  IF status # "OK" THEN status
        ELSE IF type_is_object(tbl[p].type) THEN "ERROR_TYPE" ELSE "OK"

default_status(tbl, p, types, room, buf) ==
    LET status == resolve_metadata(tbl, p, TRUE, TRUE)
    IN  IF status # "OK" THEN status
        ELSE IF tbl[p].type \notin types THEN "ERROR_TYPE"
        ELSE IF ~object_default_cfg_is_valid(tbl[p]) THEN "ERROR_INIT"
        ELSE IF buf < room THEN "ERROR_PARAM" ELSE "OK"

get_default_bytes(tbl, p, buf) ==
    default_status(tbl, p, {"BYTES"}, Len(tbl[p].def), buf)
get_default_str(tbl, p, buf) ==
    default_status(tbl, p, {"STR"}, Len(tbl[p].def) + 1, buf)
get_default_array(tbl, p, buf) ==
    default_status(tbl, p, ArrayTypes,
                   Len(tbl[p].def) \div elem_size(tbl[p].type), buf)

get_default(tbl, p, buf) ==
    IF p \notin DOMAIN tbl THEN get_scalar_default(tbl, p)
    ELSE CASE tbl[p].type = "BYTES"      -> get_default_bytes(tbl, p, buf)
           [] tbl[p].type = "STR"        -> get_default_str(tbl, p, buf)
           [] tbl[p].type \in ArrayTypes -> get_default_array(tbl, p, buf)
           [] OTHER                      -> get_scalar_default(tbl, p)
=============================================================================

------------------------- MODULE ParNvmObjectProofs -------------------------
(***************************************************************************)
(* Proofs about the object block: its types, that it stays behind the      *)
(* scalars, that only payloads somebody set come up, that a restore is all *)
(* or nothing, that a rewrite in progress is never taken for complete, and *)
(* that a save answered ok survives.                                       *)
(***************************************************************************)
EXTENDS ParNvmObject, SumProofs

-----------------------------------------------------------------------------
(* Sizes and addresses.                                                    *)

Slots(b) == 1 .. compile_count(b)
Payload(b, i, v) == v \in Seq(Bytes) /\ object_len_is_valid(b.rows[i], Len(v))
Allowed(b, i, v) == Payload(b, i, v) /\ Legal(b.rows[i].id, v)

LEMMA BuildFacts ==
  ASSUME NEW b \in Builds
  PROVE  /\ compile_count(b) \in Nat \ {0} /\ DOMAIN b.rows = Slots(b)
         /\ b.scalar_cells \in Nat
         /\ b.mode \in {"AFTER_SCALAR", "FIXED", "DEDICATED"}
         /\ \A i \in Slots(b) : b.rows[i].id \in Ids
         /\ \A i, j \in Slots(b) : b.rows[i].id = b.rows[j].id => i = j
<1>1. \A i \in Slots(b) : b.rows[i].id \in Ids
  BY FirmwareAssumption DEF Ids, Slots, compile_count
<1> QED BY <1>1, FirmwareAssumption DEF Slots, compile_count

LEMMA LengthFacts ==
  ASSUME NEW b \in Builds, NEW i \in Slots(b)
  PROVE  min_len(b.rows[i]) \in Nat /\ max_len(b.rows[i]) \in Nat
<1>1. b.rows[i].min \in Nat /\ b.rows[i].max \in Nat
  BY FirmwareAssumption DEF Slots, compile_count
<1>2. elem_size(b.rows[i].type) \in {1, 2, 4}
  BY DEF elem_size
<1>3. ASSUME NEW x \in Nat, NEW y \in {1, 2, 4} PROVE (x * y) % 65536 \in Nat
  OBVIOUS
<1> QED BY <1>1, <1>2, <1>3 DEF min_len, max_len

LEMMA PayloadLength ==
  ASSUME NEW b \in Builds, NEW i \in Slots(b), NEW v, Payload(b, i, v)
  PROVE  Len(v) \in Nat /\ DOMAIN v = 1 .. Len(v) /\ Len(v) =< max_len(b.rows[i])
  BY LengthFacts DEF Payload, object_len_is_valid

LEMMA DefaultAllowed ==
  ASSUME NEW b \in Builds, NEW i \in Slots(b)
  PROVE  Allowed(b, i, b.rows[i].def)
  BY PayloadAssumption, BuildFacts DEF Allowed, Payload, Legal, Slots

LEMMA SetAllowed ==
  ASSUME NEW b \in Builds, NEW i \in Slots(b), NEW v \in Payloads[b.rows[i].id]
  PROVE  Allowed(b, i, v)
  BY PayloadAssumption, BuildFacts DEF Allowed, Payload, Legal

\* The sizes of the first n records, added up.
Sizes(b, n) == [k \in 1 .. n |-> record_size(b, k)]

LEMMA SizesAreTerms ==
  ASSUME NEW b \in Builds, NEW n \in 0 .. compile_count(b)
  PROVE  n \in Nat /\ Terms(Sizes(b, n), n)
<1>1. compile_count(b) \in Nat \ {0}
  BY BuildFacts
<1>2. ASSUME NEW k \in 1 .. n PROVE record_size(b, k) \in Nat
  <2>1. k \in Slots(b)
    BY <1>1 DEF Slots
  <2> QED BY <2>1, LengthFacts DEF record_size, RecordHeadSize
<1> QED BY <1>1, <1>2 DEF Terms, Sizes

\* par_nvm_object_body_size_for_count adds the record sizes up.
LEMMA BodyIsSum ==
  ASSUME NEW b \in Builds, NEW n \in 0 .. compile_count(b), NEW s, Sums(s, Sizes(b, n), n)
  PROVE  body_size_for_count(b, n) = s[n]
<1>1. n \in Nat /\ Terms(Sizes(b, n), n)
  BY SizesAreTerms
<1> DEFINE g == CHOOSE h : h = [i \in 0 .. n |-> IF i = 0 THEN 0
                                                ELSE h[i - 1] + record_size(b, i)]
<1>2. s = [i \in 0 .. n |-> IF i = 0 THEN 0 ELSE s[i - 1] + record_size(b, i)]
  <2>1. ASSUME NEW i \in 0 .. n, i # 0 PROVE s[i] = s[i - 1] + record_size(b, i)
    <3>1. i \in 1 .. n
      BY <1>1, <2>1
    <3> QED BY <3>1 DEF Sums, Sizes
  <2> QED BY <2>1 DEF Sums
<1>3. g = [i \in 0 .. n |-> IF i = 0 THEN 0 ELSE g[i - 1] + record_size(b, i)]
  BY <1>2
<1>4. body_size_for_count(b, n) = g[n]
  BY DEF body_size_for_count
<1> HIDE DEF g
<1>5. g[0] = 0 /\ g = [i \in 0 .. n |-> g[i]]
  BY <1>1, <1>3
<1>6. ASSUME NEW k \in 1 .. n PROVE g[k] = g[k - 1] + Sizes(b, n)[k]
  <2>1. k \in 0 .. n /\ k # 0
    BY <1>1
  <2>2. g[k] = g[k - 1] + record_size(b, k)
    BY <1>3, <2>1
  <2> QED BY <2>2 DEF Sizes
<1>7. Sums(g, Sizes(b, n), n)
  BY <1>1, <1>5, <1>6, SumsAre
<1>8. g[n] = s[n]
  BY <1>1, <1>7, SumsAgree
<1> QED BY <1>4, <1>8

\* The bodies of the first records of two tables that begin alike are as long.
LEMMA BodiesAgree ==
  ASSUME NEW b \in Builds, NEW c \in Builds, NEW i \in 0 .. compile_count(b),
         i =< compile_count(c), \A k \in 1 .. i : b.rows[k] = c.rows[k]
  PROVE  body_size_for_count(b, i) = body_size_for_count(c, i)
<1>1. compile_count(b) \in Nat \ {0} /\ compile_count(c) \in Nat \ {0}
  BY BuildFacts
<1>2. i \in 0 .. compile_count(c)
  BY <1>1
<1>3. i \in Nat /\ Terms(Sizes(b, i), i)
  BY SizesAreTerms
<1>4. Sizes(b, i) = Sizes(c, i)
  BY DEF Sizes, record_size
<1>5. PICK s : Sums(s, Sizes(b, i), i)
  BY <1>3, SumsExist
<1> QED BY <1>2, <1>4, <1>5, BodyIsSum

\* The sizes of the bodies are numbers that grow, each by the size of a record.
LEMMA BodiesGrow ==
  ASSUME NEW b \in Builds
  PROVE  /\ body_size_for_count(b, 0) = 0
         /\ \A i \in 0 .. compile_count(b) : body_size_for_count(b, i) \in Nat
         /\ \A i \in Slots(b), j \in 0 .. compile_count(b) :
               j < i => body_size_for_count(b, j) + record_size(b, i)
                           =< body_size_for_count(b, i)
<1> DEFINE N == compile_count(b)
           x == Sizes(b, N)
<1>1. N \in Nat \ {0}
  BY BuildFacts
<1>2. Terms(x, N)
  BY <1>1, SizesAreTerms
<1>3. PICK s : Sums(s, x, N)
  BY <1>1, <1>2, SumsExist
<1>4. ASSUME NEW i \in 0 .. N PROVE body_size_for_count(b, i) = s[i]
  <2>1. i \in Nat /\ Terms(Sizes(b, i), i)
    BY SizesAreTerms
  <2>2. PICK r : Sums(r, Sizes(b, i), i)
    BY <2>1, SumsExist
  <2>3. \A k \in 1 .. i : Sizes(b, i)[k] = x[k]
    BY <1>1, <2>1 DEF Sizes
  <2>4. r[i] = s[i]
    BY <1>1, <1>2, <1>3, <2>1, <2>2, <2>3, SumsAgree
  <2> QED BY <2>2, <2>4, BodyIsSum
<1>5. \A i \in 0 .. N : s[i] \in Nat
  BY <1>3 DEF Sums
<1>6. ASSUME NEW i \in 1 .. N, NEW j \in 0 .. N, j < i
      PROVE  s[j] + record_size(b, i) =< s[i]
  <2>1. x[i] = record_size(b, i) /\ x[i] \in Nat
    BY <1>2 DEF Sizes, Terms
  <2>2. s[i - 1] + x[i] = s[i] /\ s[i - 1] \in Nat /\ s[j] \in Nat
    <3>1. i - 1 \in 0 .. N
      BY <1>1
    <3> QED BY <1>3, <1>5, <3>1 DEF Sums
  <2>3. s[j] =< s[i - 1]
    <3>1. CASE j = i - 1
      BY <2>2, <3>1
    <3>2. CASE j # i - 1
      <4>1. j + 1 \in 1 .. N /\ i - 1 \in j + 1 .. N /\ (j + 1) - 1 = j
        BY <1>1, <1>6, <3>2
      <4>2. s[j] + x[j + 1] =< s[i - 1]
        BY <1>1, <1>2, <1>3, <4>1, SumsGrow
      <4>3. x[j + 1] \in Nat
        BY <1>2, <4>1 DEF Terms
      <4> QED BY <2>2, <4>2, <4>3
    <3> QED BY <3>1, <3>2
  <2> QED BY <2>1, <2>2, <2>3
<1>7. s[0] = 0 /\ 0 \in 0 .. N
  BY <1>1, <1>3 DEF Sums
<1> QED BY <1>4, <1>5, <1>6, <1>7 DEF Slots

LEMMA SizeFacts ==
  ASSUME NEW b \in Builds
  PROVE  /\ \A i \in 0 .. compile_count(b) : body_size_for_count(b, i) \in Nat
         /\ \A i \in Slots(b), j \in 0 .. compile_count(b) :
               j < i => body_size_for_count(b, j) + RecordHeadSize + max_len(b.rows[i])
                           =< body_size_for_count(b, i)
         /\ get_block_size(b) = HeadSize + body_size_for_count(b, compile_count(b))
<1>1. compile_count(b) \in Nat \ {0}
  BY BuildFacts
<1>2. ASSUME NEW i \in Slots(b), NEW j \in 0 .. compile_count(b), j < i
      PROVE  body_size_for_count(b, j) + RecordHeadSize + max_len(b.rows[i])
                           =< body_size_for_count(b, i)
  <2>1. body_size_for_count(b, j) \in Nat
    BY BodiesGrow
  <2>2. body_size_for_count(b, j) + record_size(b, i) =< body_size_for_count(b, i)
    BY <1>2, BodiesGrow
  <2>3. record_size(b, i) = RecordHeadSize + max_len(b.rows[i])
    BY DEF record_size
  <2> QED BY <2>1, <2>2, <2>3, LengthFacts DEF RecordHeadSize
<1> QED BY <1>1, <1>2, BodiesGrow DEF get_block_size

\* A block that fits has an address behind the scalars, and its records lie one
\* behind the other between the header and the end of the block.
LEMMA AddressFacts ==
  ASSUME NEW b \in Builds, validate_storage_capacity(b)
  PROVE  /\ get_block_addr(b) \in Nat /\ get_block_addr(b) + 1 < StoreSize
         /\ b.mode # "DEDICATED" => b.scalar_cells =< get_block_addr(b)
         /\ \A i \in Slots(b) :
               /\ record_addr(b, i) \in Nat /\ record_addr(b, i) >= get_block_addr(b) + 2
               /\ record_addr(b, i) + max_len(b.rows[i]) < StoreSize
         /\ \A i, j \in Slots(b) :
               i < j => record_addr(b, i) + max_len(b.rows[i]) < record_addr(b, j)
<1>1. compile_count(b) \in Nat \ {0} /\ b.scalar_cells \in Nat
      /\ b.mode \in {"AFTER_SCALAR", "FIXED", "DEDICATED"}
  BY BuildFacts
<1>2. get_block_size(b) \in Nat /\ get_block_size(b) >= 2
      /\ get_block_size(b) = 2 + body_size_for_count(b, compile_count(b))
  BY <1>1, SizeFacts DEF HeadSize
<1>3. /\ get_block_addr(b) # 0 \/ block_addr_zero_is_valid(b)
      /\ get_block_addr(b) + get_block_size(b) =< StoreSize
  BY <1>2 DEF validate_storage_capacity
<1>4. get_block_addr(b) \in Nat
  BY <1>1, StoreAssumption DEF get_block_addr, fixed_block_addr, scalar_block_end_addr
<1>5. b.mode # "DEDICATED" => b.scalar_cells =< get_block_addr(b)
  BY <1>1, <1>3, StoreAssumption
     DEF get_block_addr, fixed_block_addr, scalar_block_end_addr, block_addr_zero_is_valid
<1>6. ASSUME NEW i \in Slots(b)
      PROVE  /\ record_addr(b, i) \in Nat /\ record_addr(b, i) >= get_block_addr(b) + 2
             /\ record_addr(b, i) = get_block_addr(b) + 2 + body_size_for_count(b, i - 1)
             /\ i \in Nat \ {0} /\ i =< compile_count(b) /\ i - 1 \in 0 .. compile_count(b)
             /\ max_len(b.rows[i]) \in Nat
             /\ body_size_for_count(b, i - 1) \in Nat /\ body_size_for_count(b, i) \in Nat
             /\ body_size_for_count(b, i - 1) + 1 + max_len(b.rows[i])
                   =< body_size_for_count(b, i)
  <2>1. i \in Nat \ {0} /\ i =< compile_count(b) /\ i - 1 \in 0 .. compile_count(b)
        /\ i \in 0 .. compile_count(b) /\ i - 1 < i
    BY <1>1 DEF Slots
  <2>2. body_size_for_count(b, i - 1) \in Nat /\ body_size_for_count(b, i) \in Nat
    BY <2>1, SizeFacts
  <2>3. body_size_for_count(b, i - 1) + 1 + max_len(b.rows[i]) =< body_size_for_count(b, i)
    BY <2>1, SizeFacts DEF RecordHeadSize
  <2> QED BY <2>1, <2>2, <2>3, <1>4, LengthFacts DEF record_addr, HeadSize
<1>7. \A i \in Slots(b) : body_size_for_count(b, i) =< body_size_for_count(b, compile_count(b))
  <2> SUFFICES ASSUME NEW i \in Slots(b), i # compile_count(b)
               PROVE  body_size_for_count(b, i) =< body_size_for_count(b, compile_count(b))
    BY <1>6
  <2>1. compile_count(b) \in Slots(b) /\ i \in 0 .. compile_count(b) /\ i < compile_count(b)
    BY <1>1 DEF Slots
  <2>2. body_size_for_count(b, i) + 1 + max_len(b.rows[compile_count(b)])
           =< body_size_for_count(b, compile_count(b))
    BY <2>1, SizeFacts DEF RecordHeadSize
  <2>3. /\ body_size_for_count(b, i) \in Nat /\ max_len(b.rows[compile_count(b)]) \in Nat
        /\ body_size_for_count(b, compile_count(b)) \in Nat
    BY <2>1, <1>6
  <2> QED BY <2>2, <2>3
<1>8. \A i \in Slots(b) : record_addr(b, i) + max_len(b.rows[i]) < StoreSize
  <2> SUFFICES ASSUME NEW i \in Slots(b)
               PROVE  record_addr(b, i) + max_len(b.rows[i]) < StoreSize
    OBVIOUS
  <2>1. /\ record_addr(b, i) = get_block_addr(b) + 2 + body_size_for_count(b, i - 1)
        /\ body_size_for_count(b, i - 1) \in Nat /\ body_size_for_count(b, i) \in Nat
        /\ body_size_for_count(b, i - 1) + 1 + max_len(b.rows[i]) =< body_size_for_count(b, i)
        /\ max_len(b.rows[i]) \in Nat
    BY <1>6
  <2>2. body_size_for_count(b, compile_count(b)) \in Nat
    BY <1>1, SizeFacts
  <2>3. body_size_for_count(b, i) =< body_size_for_count(b, compile_count(b))
    BY <1>7
  <2> QED BY <2>1, <2>2, <2>3, <1>2, <1>3, <1>4, StoreAssumption
<1>9. ASSUME NEW i \in Slots(b), NEW j \in Slots(b), i < j
      PROVE  record_addr(b, i) + max_len(b.rows[i]) < record_addr(b, j)
  <2>1. body_size_for_count(b, i) =< body_size_for_count(b, j - 1)
    <3>1. CASE i = j - 1
      BY <3>1, <1>6
    <3>2. CASE i # j - 1
      <4>1. j - 1 \in Slots(b) /\ i \in 0 .. compile_count(b) /\ i < j - 1
        BY <3>2, <1>6, <1>9, <1>1 DEF Slots
      <4>2. body_size_for_count(b, i) + 1 + max_len(b.rows[j - 1])
              =< body_size_for_count(b, j - 1)
        BY <4>1, SizeFacts DEF RecordHeadSize
      <4> QED BY <4>1, <4>2, <1>6
    <3> QED BY <3>1, <3>2
  <2> QED BY <2>1, <1>6, <1>4
<1> QED BY <1>2, <1>3, <1>4, <1>5, <1>6, <1>8, <1>9, StoreAssumption

-----------------------------------------------------------------------------
(* Cells: what is written, and what a write leaves.                        *)

Headed(b, h) == /\ h.obj_nb = compile_count(b)
                /\ h.table_id = table_id_for_count(b, compile_count(b))
                /\ h.body_size = body_size_for_count(b, compile_count(b))
                /\ h.crc = head_crc(h)

LEMMA HeadFacts ==
  ASSUME NEW b \in Builds
  PROVE  /\ IsHead(new_head(b)) /\ ~IsMeta(new_head(b)) /\ new_head(b) # Garbage
         /\ Headed(b, new_head(b))
<1>1. new_head(b) \notin Atoms
  BY CellAssumption
<1>2. new_head(b) = [obj_nb    |-> compile_count(b),
                     table_id  |-> table_id_for_count(b, compile_count(b)),
                     body_size |-> body_size_for_count(b, compile_count(b)),
                     crc |-> <<compile_count(b), table_id_for_count(b, compile_count(b)),
                               body_size_for_count(b, compile_count(b))>>]
  BY DEF new_head, head_crc
<1> HIDE DEF new_head
<1>3. "obj_nb" \in DOMAIN new_head(b) /\ "capacity" \notin DOMAIN new_head(b)
  BY <1>2
<1>4. Headed(b, new_head(b))
  BY <1>2 DEF Headed, head_crc
<1> QED BY <1>1, <1>3, <1>4 DEF IsHead, IsMeta, Atoms

Describes(b, i, v, m) ==
  /\ m.id = b.rows[i].id /\ m.type = b.rows[i].type
  /\ m.elem_size = elem_size(b.rows[i].type)
  /\ m.capacity = max_len(b.rows[i]) /\ m.len = Len(v)
  /\ m.crc = record_crc(m, v)

LEMMA MetaFacts ==
  ASSUME NEW b \in Builds, NEW i \in Slots(b), NEW v, Allowed(b, i, v)
  PROVE  /\ IsMeta(new_meta(b, i, v)) /\ ~IsHead(new_meta(b, i, v))
         /\ new_meta(b, i, v) \notin Atoms
         /\ Describes(b, i, v, new_meta(b, i, v))
         /\ new_meta(b, i, v).crc[6] = v
<1>1. new_meta(b, i, v) \notin Atoms
  <2>1. PICK c \in Builds : \E j \in DOMAIN c.rows :
          b.rows[i].id = c.rows[j].id
          /\ v \in Payloads[b.rows[i].id] \union {c.rows[j].def}
    BY BuildFacts DEF Allowed, Legal, Slots
  <2> QED BY <2>1, CellAssumption, BuildFacts
<1>2. new_meta(b, i, v) =
        [id |-> b.rows[i].id, type |-> b.rows[i].type,
         elem_size |-> elem_size(b.rows[i].type),
         capacity |-> max_len(b.rows[i]), len |-> Len(v),
         crc |-> <<b.rows[i].id, b.rows[i].type, elem_size(b.rows[i].type),
                   max_len(b.rows[i]), Len(v), v>>]
  BY DEF new_meta, record_crc
<1> HIDE DEF new_meta
<1>3. "capacity" \in DOMAIN new_meta(b, i, v) /\ "obj_nb" \notin DOMAIN new_meta(b, i, v)
  BY <1>2
<1>4. Describes(b, i, v, new_meta(b, i, v)) /\ new_meta(b, i, v).crc[6] = v
  BY <1>2 DEF Describes, record_crc
<1> QED BY <1>1, <1>3, <1>4 DEF IsHead, IsMeta

LEMMA AtomFacts ==
  /\ \A x \in Atoms : ~IsHead(x) /\ ~IsMeta(x)
  /\ {Blank, Sign, Garbage, ScalarData} \subseteq Atoms /\ Bytes \subseteq Atoms
  /\ Sign # Blank /\ Sign # Garbage /\ Sign # ScalarData /\ Sign \notin Bytes
  BY CellAssumption DEF Atoms, IsHead, IsMeta

\* Cells outside the range written keep their contents, and those in it keep
\* it, get the new one or are torn.
Overwrites(addr, data) ==
  /\ DOMAIN cells' = DOMAIN cells
  /\ \A c \in DOMAIN cells :
        \/ cells'[c] = cells[c]
        \/ \E k \in 1 .. Len(data) : c = addr + k - 1 /\ cells'[c] \in {data[k], Garbage}

LEMMA FullWrites ==
  ASSUME NEW addr \in Int, NEW data, Len(data) \in Nat, DOMAIN cells = 0 .. StoreSize - 1,
         cells' = Full(addr, data)
  PROVE  /\ Overwrites(addr, data)
         /\ \A k \in 1 .. Len(data) : addr + k - 1 \in DOMAIN cells
                                        => cells'[addr + k - 1] = data[k]
<1>1. \A c \in DOMAIN cells : c \in Int
  BY StoreAssumption
<1>2. /\ DOMAIN cells' = DOMAIN cells
      /\ \A c \in DOMAIN cells : cells'[c] = IF c - addr \in 0 .. Len(data) - 1
                                              THEN data[c - addr + 1] ELSE cells[c]
  BY DEF Full
<1>3. ASSUME NEW c \in DOMAIN cells
      PROVE  \/ cells'[c] = cells[c]
             \/ \E k \in 1 .. Len(data) : c = addr + k - 1 /\ cells'[c] \in {data[k], Garbage}
  <2>1. CASE c - addr \in 0 .. Len(data) - 1
    <3>1. c - addr + 1 \in 1 .. Len(data) /\ c = addr + (c - addr + 1) - 1
      BY <2>1, <1>1
    <3> QED BY <3>1, <2>1, <1>2
  <2> QED BY <2>1, <1>2
<1>4. ASSUME NEW k \in 1 .. Len(data), addr + k - 1 \in DOMAIN cells
      PROVE  cells'[addr + k - 1] = data[k]
  <2>1. addr + k - 1 - addr \in 0 .. Len(data) - 1 /\ addr + k - 1 - addr + 1 = k
    OBVIOUS
  <2> QED BY <2>1, <1>2, <1>4
<1> QED BY <1>2, <1>3, <1>4 DEF Overwrites

LEMMA PartialWrites ==
  ASSUME NEW addr \in Int, NEW data, Len(data) \in Nat, DOMAIN cells = 0 .. StoreSize - 1,
         cells' \in Partial(addr, data)
  PROVE  Overwrites(addr, data)
<1>1. \A c \in DOMAIN cells : c \in Int
  BY StoreAssumption
<1>2. PICK k \in 0 .. Len(data), torn \in BOOLEAN :
        cells' = [c \in DOMAIN cells |->
                    IF c - addr \in 0 .. k - 1 THEN data[c - addr + 1]
                    ELSE IF c = addr + k /\ torn /\ k < Len(data) THEN Garbage
                    ELSE cells[c]]
  BY DEF Partial
<1>3. ASSUME NEW c \in DOMAIN cells
      PROVE  \/ cells'[c] = cells[c]
             \/ \E j \in 1 .. Len(data) : c = addr + j - 1 /\ cells'[c] \in {data[j], Garbage}
  <2>1. CASE c - addr \in 0 .. k - 1
    <3>1. c - addr + 1 \in 1 .. Len(data) /\ c = addr + (c - addr + 1) - 1
      BY <2>1, <1>1
    <3>2. cells'[c] = data[c - addr + 1]
      BY <2>1, <1>2
    <3> QED BY <3>1, <3>2
  <2>2. CASE c - addr \notin 0 .. k - 1 /\ c = addr + k /\ torn /\ k < Len(data)
    <3>1. k + 1 \in 1 .. Len(data) /\ c = addr + (k + 1) - 1
      BY <2>2
    <3>2. cells'[c] = Garbage
      BY <2>2, <1>2
    <3> QED BY <3>1, <3>2
  <2>3. CASE c - addr \notin 0 .. k - 1 /\ ~(c = addr + k /\ torn /\ k < Len(data))
    BY <2>3, <1>2
  <2> QED BY <2>1, <2>2, <2>3
<1> QED BY <1>2, <1>3 DEF Overwrites

-----------------------------------------------------------------------------
(* The invariant, first part: control, and what cells and RAM may hold.    *)

Recording == {"writePayload", "writeMeta", "syncRecord"}
Writing   == Recording \union {"take"}
Reading   == {"readHeader", "readRecord", "defaults"}
Rewriting == {"erase", "writeHeader", "syncHeader"}

\* Where the calls stand.  The mutex is held exactly while a record is written.
Control ==
  /\ DOMAIN cells = 0 .. StoreSize - 1
  /\ fw \in Firmwares
  /\ DOMAIN live = Slots(Build)
  /\ pc \in Writing \union Reading \union Rewriting \union {"off", "up", "noNvm"}
  /\ idx \in 1 .. compile_count(Build) + 1
  /\ op \in {"boot", "all", "save", "nsave"}
  /\ locked \in BOOLEAN /\ (locked <=> pc \in Recording)
  /\ signed \in BOOLEAN /\ half \in BOOLEAN
  /\ DOMAIN sound = Ids /\ DOMAIN saved = Ids
  /\ \A id \in Ids : sound[id] \in BOOLEAN
  /\ pc \in Writing => idx \in Slots(Build)
  /\ pc \notin {"off", "noNvm"} => validate_storage_capacity(Build)
  /\ pc \in Reading => op = "boot"
  /\ pc \in Rewriting => op \in {"boot", "all"}
  /\ pc = "readRecord" => head.obj_nb \in Nat /\ head.obj_nb =< compile_count(Build)

\* Every header and every record head in the store was written as one.
GoodCell(x) ==
  /\ IsHead(x) => x.obj_nb \in Nat
  /\ IsMeta(x) => Legal(x.id, x.crc[6]) /\ x.len = Len(x.crc[6])

GoodCells == \A c \in DOMAIN cells : GoodCell(cells[c])

\* RAM holds payloads of its own table, but before the defaults are back.
GoodLive ==
  /\ pc \notin {"off", "noNvm", "defaults"} =>
       \A i \in Slots(Build) : Allowed(Build, i, live[i])
  /\ pc \in Recording => meta = new_meta(Build, idx, live[idx])

Base == Control /\ GoodCells /\ GoodLive

LEMMA BuildIsOne == fw \in Firmwares => Build \in Builds
  BY DEF Build, Builds

LEMMA InitBase == Init => Base
<1> SUFFICES ASSUME Init PROVE Base
  OBVIOUS
<1>1. fw \in Firmwares /\ Build \in Builds /\ Build = Firmware[fw]
  BY BuildIsOne DEF Init, Build
<1>2. compile_count(Build) \in Nat \ {0}
  BY <1>1, BuildFacts
<1>3. Control
  <2>1. DOMAIN live = Slots(Build)
    BY <1>1 DEF Init, Default, Slots
  <2>2. DOMAIN sound = Ids /\ DOMAIN saved = Ids /\ \A id \in Ids : sound[id] \in BOOLEAN
    BY DEF Init
  <2>3. idx \in 1 .. compile_count(Build) + 1
    BY <1>2 DEF Init
  <2> QED BY <1>1, <2>1, <2>2, <2>3 DEF Init, Control, Writing, Recording, Reading, Rewriting
<1>4. GoodCells
  BY AtomFacts DEF Init, GoodCells, GoodCell
<1>5. GoodLive
  BY DEF Init, GoodLive, Recording
<1> QED BY <1>3, <1>4, <1>5 DEF Base

\* What a header that is accepted says.
LEMMA HeaderRead ==
  ASSUME Base, validate_storage_capacity(Build), validate_header(cells, Build) = "OK"
  PROVE  LET h == cells[get_block_addr(Build) + 1]
         IN  /\ IsHead(h) /\ h.obj_nb \in Nat /\ h.obj_nb =< compile_count(Build)
<1>1. Build \in Builds
  BY BuildIsOne DEF Base, Control
<1>2. get_block_addr(Build) + 1 \in DOMAIN cells
  BY <1>1, AddressFacts, StoreAssumption DEF Base, Control
<1>3. compile_count(Build) \in Nat
  BY <1>1, BuildFacts
<1> DEFINE h == cells[get_block_addr(Build) + 1]
<1>4. IsHead(h) /\ ~(h.obj_nb > compile_count(Build))
  BY DEF validate_header
<1>5. h.obj_nb \in Nat
  BY <1>2, <1>4 DEF Base, GoodCells, GoodCell
<1> QED BY <1>3, <1>4, <1>5

LEMMA StepControl ==
  ASSUME Base, Next PROVE Control'
<1>1. Build \in Builds /\ Control
  BY BuildIsOne DEF Base, Control
<1>2. compile_count(Build) \in Nat \ {0}
  BY <1>1, BuildFacts
<1> USE DEF Writing, Recording, Reading, Rewriting
<1>3. CASE PowerLoss
  BY <1>1, <1>2, <1>3 DEF PowerLoss, Control, Build, Fault, ObjectUnsound
<1>4. CASE Boot
  <2>1. PICK f \in Firmwares :
          /\ fw' = f /\ live' = Default(Firmware[f])
          /\ DOMAIN cells' = DOMAIN cells
          /\ IF validate_storage_capacity(Firmware[f])
             THEN pc' = "readHeader" ELSE pc' = "noNvm"
          /\ signed' = (signed /\ f = fw)
          /\ half' = (half /\ get_block_addr(Firmware[f]) = get_block_addr(Build))
    BY <1>4 DEF Boot
  <2>2. Build' = Firmware[f] /\ Build' \in Builds
    BY <2>1 DEF Build, Builds
  <2>3. compile_count(Build') \in Nat \ {0}
    BY <2>2, BuildFacts
  <2>4. DOMAIN live' = Slots(Build')
    BY <2>1, <2>2 DEF Default, Slots
  <2>5. idx' = 1 /\ op' = "boot" /\ UNCHANGED <<saved, sound, locked>> /\ pc = "off"
    BY <1>4 DEF Boot
  <2> QED BY <1>1, <2>1, <2>2, <2>3, <2>4, <2>5 DEF Control
<1>5. CASE ReadHeader
  <2>1. CASE validate_header(cells, Build) = "OK" /\ pc' = "readRecord"
             /\ head' = cells[get_block_addr(Build) + 1]
    <3>1. head'.obj_nb \in Nat /\ head'.obj_nb =< compile_count(Build)
      BY <1>5, <2>1, HeaderRead DEF ReadHeader, Base, Control
    <3> QED BY <1>1, <1>5, <2>1, <3>1 DEF ReadHeader, Control, Build, obs
  <2>2. CASE pc' = "defaults"
    BY <1>1, <1>5, <2>2 DEF ReadHeader, Control, Build, obs
  <2> QED BY <2>1, <2>2, <1>5 DEF ReadHeader
<1>6. CASE ReadRecord
  BY <1>1, <1>2, <1>6 DEF ReadRecord, Control, Build, obs
<1>7. CASE RestoreDone
  <2>1. /\ pc = "readRecord" /\ DOMAIN live' = DOMAIN live
        /\ cells' = cells /\ fw' = fw /\ idx' = idx /\ op' = op
        /\ saved' = saved /\ sound' = sound /\ signed' = signed /\ half' = half
        /\ \/ pc' \in {"up", "noNvm"} /\ locked' = FALSE
           \/ pc' = "erase" /\ locked' = locked
    BY <1>7 DEF RestoreDone, Reset, ResetFails, Return, obs
  <2>2. Build' = Build /\ op = "boot" /\ locked = FALSE
        /\ validate_storage_capacity(Build)
    BY <1>1, <2>1 DEF Control, Build
  <2>3. DOMAIN live' = Slots(Build')
    BY <1>1, <2>1, <2>2 DEF Control
  <2>4. locked' = FALSE /\ pc' \in {"up", "noNvm", "erase"}
    BY <2>1, <2>2
  <2> QED BY <1>1, <2>1, <2>2, <2>3, <2>4 DEF Control
<1>8. CASE set_persistent_defaults
  <2>1. /\ pc = "defaults" /\ DOMAIN live' = DOMAIN live
        /\ cells' = cells /\ fw' = fw /\ idx' = idx /\ op' = op
        /\ saved' = saved /\ sound' = sound /\ signed' = signed /\ half' = half
        /\ \/ pc' \in {"up", "noNvm"} /\ locked' = FALSE
           \/ pc' = "erase" /\ locked' = locked
    BY <1>8 DEF set_persistent_defaults, Reset, ResetFails, Return, obs
  <2>2. Build' = Build /\ op = "boot" /\ locked = FALSE
        /\ validate_storage_capacity(Build)
    BY <1>1, <2>1 DEF Control, Build
  <2>3. DOMAIN live' = Slots(Build')
    BY <1>1, <2>1, <2>2 DEF Control
  <2>4. locked' = FALSE /\ pc' \in {"up", "noNvm", "erase"}
    BY <2>1, <2>2
  <2> QED BY <1>1, <2>1, <2>2, <2>3, <2>4 DEF Control
<1>9. CASE EraseSign
  <2>1. DOMAIN cells' = DOMAIN cells
    BY <1>9 DEF EraseSign, FailedWrite, Partial
  <2>2. CASE pc' = "take" /\ idx' = 1 /\ half' = TRUE /\ UNCHANGED <<locked, result, faults>>
    <3>1. pc = "erase" /\ signed' = FALSE /\ UNCHANGED <<fw, op, head, live, saved, sound>>
      BY <1>9 DEF EraseSign
    <3>2. Build' = Build /\ 1 \in 1 .. compile_count(Build) + 1 /\ 1 \in Slots(Build)
      BY <3>1, <1>2 DEF Build, Slots
    <3> QED BY <1>1, <2>1, <2>2, <3>1, <3>2 DEF Control
  <2>3. CASE FailedWrite(get_block_addr(Build), <<Blank>>) /\ UNCHANGED <<idx, half>>
    BY <1>1, <1>9, <2>1, <2>3 DEF EraseSign, FailedWrite, Return, Control, Build
  <2> QED BY <1>9, <2>2, <2>3 DEF EraseSign
<1>10. CASE WriteHeader
  <2>1. DOMAIN cells' = DOMAIN cells
    BY <1>10 DEF WriteHeader, FailedWrite, Partial, Full
  <2>2. CASE pc' = "syncHeader" /\ UNCHANGED <<locked, result, faults>>
    BY <1>1, <1>10, <2>1, <2>2 DEF WriteHeader, Control, Build
  <2>3. CASE FailedWrite(get_block_addr(Build), <<Sign, new_head(Build)>>)
    BY <1>1, <1>10, <2>1, <2>3 DEF WriteHeader, FailedWrite, Return, Control, Build
  <2> QED BY <1>10, <2>2, <2>3 DEF WriteHeader
<1>11. CASE SyncHeader
  BY <1>1, <1>11 DEF SyncHeader, Return, Control, Build
<1>12. CASE TakeMutex
  BY <1>1, <1>12 DEF TakeMutex, Return, Control, Build, obs
<1>13. CASE WritePayload
  <2>1. DOMAIN cells' = DOMAIN cells
    BY <1>13 DEF WritePayload, FailedWrite, Partial, Full
  <2> QED BY <1>1, <1>13, <2>1 DEF WritePayload, FailedWrite, Return, Control, Build,
          ObjectUnsound
<1>14. CASE WriteMeta
  <2>1. DOMAIN cells' = DOMAIN cells
    BY <1>14 DEF WriteMeta, FailedWrite, Partial, Full
  <2> QED BY <1>1, <1>14, <2>1 DEF WriteMeta, FailedWrite, Return, Control, Build,
          ObjectUnsound
<1>15. CASE SyncRecord
  <2>1. /\ pc = "syncRecord" /\ idx \in Slots(Build) /\ op \in {"boot", "all", "save", "nsave"}
        /\ UNCHANGED <<cells, fw, op, meta, head, live, signed, half>>
    BY <1>1, <1>15 DEF SyncRecord, Control
  <2>2. CASE Return("OK") /\ idx' = idx /\ sound' = [sound EXCEPT ![IdOf(idx)] = TRUE]
             /\ saved' = [saved EXCEPT ![IdOf(idx)] = live[idx]]
    BY <1>1, <2>1, <2>2 DEF Return, Control, Build
  <2>3. CASE /\ locked' = FALSE /\ idx' = idx + 1 /\ op \notin {"save", "nsave"}
             /\ pc' = IF idx = compile_count(Build) THEN "writeHeader" ELSE "take"
             /\ sound' = [sound EXCEPT ![IdOf(idx)] = TRUE]
             /\ saved' = [saved EXCEPT ![IdOf(idx)] = live[idx]]
    <3>1. Build' = Build
      BY <2>1 DEF Build
    <3>2. idx + 1 \in 1 .. compile_count(Build) + 1
          /\ (idx # compile_count(Build) => idx + 1 \in Slots(Build))
      BY <2>1, <1>2 DEF Slots
    <3> QED BY <1>1, <2>1, <2>3, <3>1, <3>2 DEF Control
  <2>4. CASE Return("ERROR_NVM") /\ ObjectUnsound /\ UNCHANGED <<saved, idx>>
    BY <1>1, <2>1, <2>4 DEF Return, Control, Build, ObjectUnsound
  <2> QED BY <1>15, <2>2, <2>3, <2>4 DEF SyncRecord
<1>16. CASE SetObject
  BY <1>1, <1>16 DEF SetObject, Control, Build
<1>17. CASE par_nvm_object_write
  BY <1>1, <1>2, <1>17 DEF par_nvm_object_write, Idle, Control, Build, Slots
<1>18. CASE par_nvm_object_write_locked
  BY <1>1, <1>2, <1>18 DEF par_nvm_object_write_locked, Idle, Control, Build, Slots
<1>19. CASE par_nvm_object_write_all
  BY <1>1, <1>19 DEF par_nvm_object_write_all, Idle, Control, Build
<1> QED BY <1>3, <1>4, <1>5, <1>6, <1>7, <1>8, <1>9, <1>10, <1>11, <1>12, <1>13, <1>14,
        <1>15, <1>16, <1>17, <1>18, <1>19 DEF Next

-----------------------------------------------------------------------------
(* What the writing actions do to the store.                               *)

LEMMA WriterFacts ==
  ASSUME Base, pc \notin {"off", "noNvm"}
  PROVE  /\ Build \in Builds /\ compile_count(Build) \in Nat \ {0}
         /\ validate_storage_capacity(Build)
         /\ get_block_addr(Build) \in Nat /\ get_block_addr(Build) + 1 < StoreSize
         /\ DOMAIN cells = 0 .. StoreSize - 1
         /\ get_block_addr(Build) \in DOMAIN cells /\ get_block_addr(Build) + 1 \in DOMAIN cells
<1>1. Build \in Builds /\ validate_storage_capacity(Build) /\ DOMAIN cells = 0 .. StoreSize - 1
  BY BuildIsOne DEF Base, Control
<1> QED BY <1>1, BuildFacts, AddressFacts, StoreAssumption

LEMMA RecordFacts ==
  ASSUME Base, pc \in Writing
  PROVE  /\ idx \in Slots(Build) /\ idx \in Nat /\ Allowed(Build, idx, live[idx])
         /\ Len(live[idx]) \in Nat /\ DOMAIN live[idx] = 1 .. Len(live[idx])
         /\ Len(live[idx]) =< max_len(Build.rows[idx])
         /\ max_len(Build.rows[idx]) \in Nat
         /\ record_addr(Build, idx) \in Nat
         /\ \A k \in 0 .. Len(live[idx]) : record_addr(Build, idx) + k \in DOMAIN cells
         /\ pc # "take" => /\ meta = new_meta(Build, idx, live[idx])
                           /\ meta.len = Len(live[idx])
<1>1. pc \notin {"off", "noNvm", "defaults"} /\ idx \in Slots(Build)
  BY DEF Base, Control, Writing, Recording
<1>2. Build \in Builds /\ validate_storage_capacity(Build) /\ DOMAIN cells = 0 .. StoreSize - 1
      /\ compile_count(Build) \in Nat
  BY <1>1, WriterFacts
<1>3. Allowed(Build, idx, live[idx])
  BY <1>1 DEF Base, GoodLive
<1>4. /\ Len(live[idx]) \in Nat /\ DOMAIN live[idx] = 1 .. Len(live[idx])
      /\ Len(live[idx]) =< max_len(Build.rows[idx]) /\ max_len(Build.rows[idx]) \in Nat
  BY <1>1, <1>2, <1>3, PayloadLength, LengthFacts DEF Allowed
<1>5. /\ record_addr(Build, idx) \in Nat
      /\ record_addr(Build, idx) + max_len(Build.rows[idx]) < StoreSize
  BY <1>1, <1>2, AddressFacts
<1>6. \A k \in 0 .. Len(live[idx]) : record_addr(Build, idx) + k \in DOMAIN cells
  BY <1>2, <1>4, <1>5, StoreAssumption
<1>7. pc # "take" => meta = new_meta(Build, idx, live[idx])
  BY DEF Base, GoodLive, Writing
<1>8. new_meta(Build, idx, live[idx]).len = Len(live[idx])
  BY <1>1, <1>2, <1>3, MetaFacts DEF Describes
<1>9. idx \in Nat
  BY <1>1, <1>2 DEF Slots
<1> QED BY <1>1, <1>3, <1>4, <1>5, <1>6, <1>7, <1>8, <1>9

LEMMA SignErased ==
  ASSUME Base, EraseSign
  PROVE  /\ Overwrites(get_block_addr(Build), <<Blank>>)
         /\ pc' = "take" => cells'[get_block_addr(Build)] = Blank
<1>1. pc = "erase"
  BY DEF EraseSign
<1>2. /\ get_block_addr(Build) \in Nat /\ DOMAIN cells = 0 .. StoreSize - 1
      /\ get_block_addr(Build) \in DOMAIN cells
  BY <1>1, WriterFacts
<1>3. CASE cells' = [cells EXCEPT ![get_block_addr(Build)] = Blank]
  <2>1. /\ DOMAIN cells' = DOMAIN cells /\ cells'[get_block_addr(Build)] = Blank
        /\ \A c \in DOMAIN cells : c # get_block_addr(Build) => cells'[c] = cells[c]
    BY <1>2, <1>3
  <2>2. Len(<<Blank>>) = 1 /\ <<Blank>>[1] = Blank
    OBVIOUS
  <2> QED BY <1>2, <2>1, <2>2 DEF Overwrites
<1>4. CASE FailedWrite(get_block_addr(Build), <<Blank>>)
  <2>1. cells' \in Partial(get_block_addr(Build), <<Blank>>) /\ pc' # "take"
    BY <1>4 DEF FailedWrite, Return
  <2>2. Len(<<Blank>>) \in Nat
    OBVIOUS
  <2> QED BY <1>2, <2>1, <2>2, PartialWrites
<1> QED BY <1>3, <1>4 DEF EraseSign

LEMMA HeaderWritten ==
  ASSUME Base, WriteHeader
  PROVE  /\ Overwrites(get_block_addr(Build), <<Sign, new_head(Build)>>)
         /\ pc' = "syncHeader" => /\ cells'[get_block_addr(Build)] = Sign
                                  /\ cells'[get_block_addr(Build) + 1] = new_head(Build)
<1> DEFINE addr == get_block_addr(Build)
           data == <<Sign, new_head(Build)>>
<1>1. pc = "writeHeader"
  BY DEF WriteHeader
<1>2. /\ addr \in Nat /\ DOMAIN cells = 0 .. StoreSize - 1
      /\ addr \in DOMAIN cells /\ addr + 1 \in DOMAIN cells
  BY <1>1, WriterFacts
<1>3. Len(data) = 2 /\ data[1] = Sign /\ data[2] = new_head(Build)
  OBVIOUS
<1>4. cells' = Full(addr, data) \/ (cells' \in Partial(addr, data) /\ pc' # "syncHeader")
  BY DEF WriteHeader, FailedWrite, Return
<1> HIDE DEF addr, data
<1>5. CASE cells' = Full(addr, data)
  <2>1. /\ Overwrites(addr, data)
        /\ \A k \in 1 .. 2 : addr + k - 1 \in DOMAIN cells => cells'[addr + k - 1] = data[k]
    <3>1. addr \in Int /\ Len(data) \in Nat
      BY <1>2, <1>3
    <3>2. \A k \in 1 .. Len(data) : addr + k - 1 \in DOMAIN cells
                                    => cells'[addr + k - 1] = data[k]
      BY <1>2, <1>5, <3>1, FullWrites
    <3> QED BY <1>2, <1>3, <1>5, <3>1, <3>2, FullWrites
  <2>2. addr + 1 - 1 = addr /\ addr + 2 - 1 = addr + 1
    BY <1>2
  <2> QED BY <1>2, <1>3, <2>1, <2>2 DEF addr, data
<1>6. CASE cells' \in Partial(addr, data) /\ pc' # "syncHeader"
  BY <1>2, <1>3, <1>6, PartialWrites DEF addr, data
<1> QED BY <1>4, <1>5, <1>6

LEMMA PayloadWritten ==
  ASSUME Base, WritePayload
  PROVE  /\ Overwrites(record_addr(Build, idx) + 1, live[idx])
         /\ pc' = "writeMeta" => \A k \in 1 .. Len(live[idx]) :
               cells'[record_addr(Build, idx) + k] = live[idx][k]
<1> DEFINE addr == record_addr(Build, idx) + 1
           data == [i \in 1 .. meta.len |-> IF i =< Len(live[idx])
                                            THEN live[idx][i] ELSE Blank]
<1>1. pc = "writePayload" /\ pc \in Writing
  BY DEF WritePayload, Writing, Recording
<1>2. /\ record_addr(Build, idx) \in Nat /\ meta.len = Len(live[idx]) /\ Len(live[idx]) \in Nat
      /\ \A k \in 0 .. Len(live[idx]) : record_addr(Build, idx) + k \in DOMAIN cells
      /\ DOMAIN cells = 0 .. StoreSize - 1
  BY <1>1, RecordFacts, WriterFacts
<1>3. Len(data) = Len(live[idx]) /\ \A k \in 1 .. Len(live[idx]) : data[k] = live[idx][k]
  BY <1>2
<1>4. cells' = Full(addr, data) \/ (cells' \in Partial(addr, data) /\ pc' # "writeMeta")
  BY DEF WritePayload, FailedWrite, Return, RecordHeadSize
<1>5. addr \in Int
  BY <1>2
<1> HIDE DEF data
<1>6. CASE cells' = Full(addr, data)
  <2>1. /\ Overwrites(addr, data)
        /\ \A k \in 1 .. Len(data) : addr + k - 1 \in DOMAIN cells
                                       => cells'[addr + k - 1] = data[k]
    <3> HIDE DEF addr
    <3> QED BY <1>2, <1>3, <1>5, <1>6, FullWrites
  <2>2. \A k \in 1 .. Len(live[idx]) : addr + k - 1 = record_addr(Build, idx) + k
    BY <1>2
  <2>3. Overwrites(addr, live[idx])
    BY <1>3, <2>1 DEF Overwrites
  <2> QED BY <1>2, <1>3, <2>1, <2>2, <2>3
<1>7. CASE cells' \in Partial(addr, data) /\ pc' # "writeMeta"
  <2>1. Overwrites(addr, data)
    <3> HIDE DEF addr
    <3> QED BY <1>2, <1>3, <1>5, <1>7, PartialWrites
  <2> QED BY <1>3, <1>7, <2>1 DEF Overwrites
<1> QED BY <1>4, <1>6, <1>7

LEMMA MetaWritten ==
  ASSUME Base, WriteMeta
  PROVE  /\ Overwrites(record_addr(Build, idx), <<meta>>)
         /\ pc' = "syncRecord" => cells'[record_addr(Build, idx)] = meta
<1> DEFINE addr == record_addr(Build, idx)
           data == <<meta>>
<1>1. pc = "writeMeta" /\ pc \in Writing
  BY DEF WriteMeta, Writing, Recording
<1>2. addr \in Nat /\ addr + 0 \in DOMAIN cells /\ DOMAIN cells = 0 .. StoreSize - 1
  BY <1>1, RecordFacts, WriterFacts
<1>3. Len(data) = 1 /\ data[1] = meta
  OBVIOUS
<1>4. cells' = Full(addr, data) \/ (cells' \in Partial(addr, data) /\ pc' # "syncRecord")
  BY DEF WriteMeta, FailedWrite, Return
<1> HIDE DEF addr, data
<1>5. CASE cells' = Full(addr, data)
  <2>1. /\ Overwrites(addr, data)
        /\ \A k \in 1 .. 1 : addr + k - 1 \in DOMAIN cells => cells'[addr + k - 1] = data[k]
    <3>1. addr \in Int /\ Len(data) \in Nat
      BY <1>2, <1>3
    <3>2. \A k \in 1 .. Len(data) : addr + k - 1 \in DOMAIN cells
                                    => cells'[addr + k - 1] = data[k]
      BY <1>2, <1>5, <3>1, FullWrites
    <3> QED BY <1>2, <1>3, <1>5, <3>1, <3>2, FullWrites
  <2>2. addr + 1 - 1 = addr /\ addr + 0 = addr
    BY <1>2
  <2> QED BY <1>2, <1>3, <2>1, <2>2 DEF addr, data
<1>6. CASE cells' \in Partial(addr, data) /\ pc' # "syncRecord"
  BY <1>2, <1>3, <1>6, PartialWrites DEF addr, data
<1> QED BY <1>4, <1>5, <1>6

LEMMA OthersWriteNothing ==
  ASSUME Next, ~Boot, ~EraseSign, ~WriteHeader, ~WritePayload, ~WriteMeta
  PROVE  cells' = cells /\ fw' = fw
  BY DEF Next, PowerLoss, ReadHeader, ReadRecord, RestoreDone, set_persistent_defaults,
     SyncHeader, TakeMutex, SyncRecord, SetObject, par_nvm_object_write,
     par_nvm_object_write_locked, par_nvm_object_write_all

LEMMA BootFacts ==
  ASSUME Base, Boot
  PROVE  /\ pc = "off" /\ Build' \in Builds /\ DOMAIN cells' = DOMAIN cells
         /\ \A c \in DOMAIN cells :
               cells'[c] = IF c < Build'.scalar_cells /\ Build'.mode # "DEDICATED"
                           THEN ScalarData ELSE cells[c]
         /\ live' = Default(Build') /\ expect' = Restorable(cells', Build')
         /\ pc' = IF validate_storage_capacity(Build') THEN "readHeader" ELSE "noNvm"
         /\ pc' = "noNvm" => result' = "ERROR_NVM"
         /\ op' = "boot" /\ idx' = 1 /\ UNCHANGED <<saved, sound, meta>>
         /\ signed' = (signed /\ fw' = fw)
         /\ half' = (half /\ get_block_addr(Build') = get_block_addr(Build))
<1>1. PICK f \in Firmwares :
        /\ fw' = f /\ live' = Default(Firmware[f])
        /\ cells' = [c \in DOMAIN cells |->
                       IF c < Firmware[f].scalar_cells /\ Firmware[f].mode # "DEDICATED"
                       THEN ScalarData ELSE cells[c]]
        /\ expect' = Restorable(cells', Firmware[f])
        /\ IF validate_storage_capacity(Firmware[f])
           THEN pc' = "readHeader" ELSE pc' = "noNvm" /\ result' = "ERROR_NVM"
        /\ signed' = (signed /\ f = fw)
        /\ half' = (half /\ get_block_addr(Firmware[f]) = get_block_addr(Build))
  BY DEF Boot
<1>2. Build' = Firmware[f] /\ Build' \in Builds
  BY <1>1 DEF Build, Builds
<1>3. pc = "off" /\ op' = "boot" /\ idx' = 1 /\ UNCHANGED <<saved, sound, meta>>
  BY DEF Boot
<1> QED BY <1>1, <1>2, <1>3

LEMMA OverwriteGood ==
  ASSUME GoodCells, NEW addr, NEW data, Overwrites(addr, data),
         \A k \in 1 .. Len(data) : GoodCell(data[k])
  PROVE  GoodCells'
<1>1. GoodCell(Garbage)
  BY AtomFacts DEF GoodCell
<1> QED BY <1>1 DEF GoodCells, Overwrites

LEMMA StepCells ==
  ASSUME Base, Next PROVE GoodCells'
<1>1. GoodCells
  BY DEF Base
<1>2. CASE Boot
  <2>1. GoodCell(ScalarData)
    BY AtomFacts DEF GoodCell
  <2> QED BY <1>1, <1>2, <2>1, BootFacts DEF GoodCells
<1>3. CASE EraseSign
  <2>1. GoodCell(Blank) /\ Len(<<Blank>>) = 1 /\ <<Blank>>[1] = Blank
    BY AtomFacts DEF GoodCell
  <2>2. \A k \in 1 .. Len(<<Blank>>) : GoodCell(<<Blank>>[k])
    BY <2>1
  <2> QED BY <1>1, <1>3, <2>2, SignErased, OverwriteGood
<1>4. CASE WriteHeader
  <2>1. Build \in Builds /\ compile_count(Build) \in Nat
    BY <1>4, WriterFacts DEF WriteHeader
  <2>2. GoodCell(new_head(Build))
    BY <2>1, HeadFacts DEF GoodCell, Headed
  <2>3. GoodCell(Sign)
    BY AtomFacts DEF GoodCell
  <2>4. \A k \in 1 .. Len(<<Sign, new_head(Build)>>) : GoodCell(<<Sign, new_head(Build)>>[k])
    BY <2>2, <2>3
  <2> QED BY <1>1, <1>4, <2>4, HeaderWritten, OverwriteGood
<1>5. CASE WritePayload
  <2>1. pc \in Writing
    BY <1>5 DEF WritePayload, Writing, Recording
  <2>2. live[idx] \in Seq(Bytes)
    BY <2>1, RecordFacts DEF Allowed, Payload
  <2>3. \A k \in 1 .. Len(live[idx]) : GoodCell(live[idx][k])
    BY <2>2, AtomFacts DEF GoodCell
  <2> QED BY <1>1, <1>5, <2>3, PayloadWritten, OverwriteGood
<1>6. CASE WriteMeta
  <2>1. pc \in Writing /\ pc # "take" /\ pc \notin {"off", "noNvm"}
    BY <1>6 DEF WriteMeta, Writing, Recording
  <2>2. /\ meta = new_meta(Build, idx, live[idx]) /\ Allowed(Build, idx, live[idx])
        /\ idx \in Slots(Build) /\ Build \in Builds
    BY <2>1, RecordFacts, WriterFacts
  <2>3. /\ ~IsHead(meta) /\ Describes(Build, idx, live[idx], meta) /\ meta.crc[6] = live[idx]
    BY <2>2, MetaFacts
  <2>4. GoodCell(meta)
    BY <2>2, <2>3 DEF GoodCell, Describes, Allowed
  <2>5. \A k \in 1 .. Len(<<meta>>) : GoodCell(<<meta>>[k])
    BY <2>4
  <2> QED BY <1>1, <1>6, <2>5, MetaWritten, OverwriteGood
<1>7. CASE ~Boot /\ ~EraseSign /\ ~WriteHeader /\ ~WritePayload /\ ~WriteMeta
  BY <1>1, <1>7, OthersWriteNothing DEF GoodCells
<1> QED BY <1>2, <1>3, <1>4, <1>5, <1>6, <1>7

\* What a record that is accepted says.
LEMMA RecordRead ==
  ASSUME Base, validate_storage_capacity(Build), NEW i \in Slots(Build),
         check_record(cells, Build, i) = "OK"
  PROVE  Allowed(Build, i, record_payload(cells, Build, i))
<1> DEFINE m == cells[record_addr(Build, i)]
           v == record_payload(cells, Build, i)
<1>1. Build \in Builds
  BY BuildIsOne DEF Base, Control
<1>2. record_addr(Build, i) \in DOMAIN cells
  <2>1. /\ record_addr(Build, i) \in Nat /\ max_len(Build.rows[i]) \in Nat
        /\ record_addr(Build, i) + max_len(Build.rows[i]) < StoreSize
    BY <1>1, AddressFacts, LengthFacts
  <2>2. DOMAIN cells = 0 .. StoreSize - 1
    BY DEF Base, Control
  <2> QED BY <2>1, <2>2, StoreAssumption
<1>3. validate_record_meta(Build, i, m) = "OK" /\ m.crc = record_crc(m, v)
  BY DEF check_record, record_payload
<1>4. IsMeta(m) /\ m.id = Build.rows[i].id /\ object_len_is_valid(Build.rows[i], m.len)
  BY <1>3 DEF validate_record_meta
<1>5. Legal(m.id, m.crc[6]) /\ m.len = Len(m.crc[6])
  BY <1>2, <1>4 DEF Base, GoodCells, GoodCell
<1>6. m.crc[6] = v
  BY <1>3 DEF record_crc
<1>7. v \in Seq(Bytes)
  <2>1. CASE v \in Payloads[m.id]
    BY <2>1, <1>1, <1>4, BuildFacts, PayloadAssumption
  <2>2. CASE \E b \in Builds : \E j \in DOMAIN b.rows : b.rows[j].def = v
    BY <2>2, PayloadAssumption
  <2> QED BY <1>5, <1>6, <2>1, <2>2 DEF Legal
<1> QED BY <1>4, <1>5, <1>6, <1>7 DEF Allowed, Payload

LEMMA DefaultsAllowed ==
  ASSUME NEW b \in Builds, NEW i \in Slots(b)
  PROVE  Allowed(b, i, Default(b)[i])
  BY DefaultAllowed DEF Default, Slots

\* Objects that are reset, all of them or some, have allowed payloads.
LEMMA ResetAllowed ==
  ASSUME Build \in Builds, DOMAIN live = Slots(Build), NEW objects, Reset(objects),
         NEW i \in Slots(Build), i \in objects \/ Allowed(Build, i, live[i])
  PROVE  Allowed(Build, i, live'[i])
<1>1. live'[i] = IF i \in objects THEN Default(Build)[i] ELSE live[i]
  BY DEF Reset
<1> QED BY <1>1, DefaultsAllowed

LEMMA StepLive ==
  ASSUME Base, Next PROVE GoodLive'
<1>1. Build \in Builds /\ GoodLive /\ Control
  BY BuildIsOne DEF Base, Control
<1> USE DEF Recording
<1>2. CASE PowerLoss
  BY <1>2 DEF PowerLoss, GoodLive
<1>3. CASE Boot
  <2>1. \A i \in Slots(Build') : Allowed(Build', i, live'[i])
    BY <1>3, BootFacts, DefaultsAllowed
  <2>2. pc' \notin Recording
    BY <1>3, BootFacts
  <2> QED BY <2>1, <2>2 DEF GoodLive
<1>4. CASE ReadHeader
  <2>1. pc = "readHeader" /\ live' = live /\ Build' = Build /\ pc' \notin Recording
    BY <1>4 DEF ReadHeader, Build
  <2> QED BY <1>1, <2>1 DEF GoodLive
<1>5. CASE ReadRecord
  <2>1. /\ pc = "readRecord" /\ Build' = Build /\ pc' \notin Recording
        /\ idx \in Slots(Build) /\ validate_storage_capacity(Build)
        /\ DOMAIN live = Slots(Build)
    <3>1. compile_count(Build) \in Nat
      BY <1>1, BuildFacts
    <3> QED BY <1>1, <1>5, <3>1 DEF ReadRecord, Build, Control, Slots
  <2>2. CASE live' = live
    BY <1>1, <2>1, <2>2 DEF GoodLive
  <2>3. CASE /\ check_record(cells, Build, idx) = "OK"
             /\ live' = [live EXCEPT ![idx] = record_payload(cells, Build, idx)]
    <3>1. Allowed(Build, idx, record_payload(cells, Build, idx))
      BY <2>1, <2>3, RecordRead
    <3> QED BY <1>1, <2>1, <2>3, <3>1 DEF GoodLive
  <2>4. CASE pc' = "defaults"
    BY <2>4 DEF GoodLive
  <2> QED BY <1>5, <2>2, <2>3, <2>4 DEF ReadRecord
<1>6. CASE RestoreDone
  <2>1. /\ pc = "readRecord" /\ Build' = Build /\ pc' \notin Recording
        /\ DOMAIN live = Slots(Build) /\ \E objects : Reset(objects)
    BY <1>1, <1>6 DEF RestoreDone, ResetFails, Build, Control, Return
  <2>2. PICK objects : Reset(objects)
    BY <2>1
  <2>3. \A i \in Slots(Build) : Allowed(Build, i, live[i])
    BY <1>1, <2>1 DEF GoodLive
  <2>4. \A i \in Slots(Build) : Allowed(Build, i, live'[i])
    BY <1>1, <2>1, <2>2, <2>3, ResetAllowed
  <2> QED BY <2>1, <2>4 DEF GoodLive
<1>7. CASE set_persistent_defaults
  <2>1. /\ Build' = Build /\ pc' \notin Recording /\ DOMAIN live = Slots(Build)
        /\ Reset(DOMAIN live) \/ pc' = "noNvm"
    BY <1>1, <1>7 DEF set_persistent_defaults, ResetFails, InBoot, Build, Control, Reading, Return
  <2>2. CASE Reset(DOMAIN live)
    <3>1. \A i \in Slots(Build) : Allowed(Build, i, live'[i])
      BY <1>1, <2>1, <2>2, ResetAllowed
    <3> QED BY <2>1, <3>1 DEF GoodLive
  <2>3. CASE pc' = "noNvm"
    BY <2>1, <2>3 DEF GoodLive
  <2> QED BY <2>1, <2>2, <2>3
<1>8. CASE EraseSign \/ WriteHeader \/ SyncHeader
  <2>1. /\ pc \in {"erase", "writeHeader", "syncHeader"} /\ live' = live /\ Build' = Build
        /\ pc' \notin Recording
    BY <1>8 DEF EraseSign, WriteHeader, SyncHeader, FailedWrite, Return, Build
  <2> QED BY <1>1, <2>1 DEF GoodLive
<1>9. CASE TakeMutex
  <2>1. /\ pc = "take" /\ live' = live /\ Build' = Build /\ idx' = idx
        /\ pc' \in Recording => meta' = new_meta(Build, idx, live[idx])
    BY <1>9 DEF TakeMutex, Build, Return, obs
  <2> QED BY <1>1, <2>1 DEF GoodLive
<1>10. CASE WritePayload \/ WriteMeta
  <2>1. /\ pc \in Recording /\ live' = live /\ Build' = Build /\ idx' = idx /\ meta' = meta
    BY <1>10 DEF WritePayload, WriteMeta, Build
  <2> QED BY <1>1, <2>1 DEF GoodLive
<1>11. CASE SyncRecord
  <2>1. /\ pc \in Recording /\ live' = live /\ Build' = Build /\ pc' \notin Recording
    BY <1>11 DEF SyncRecord, Build, Return
  <2> QED BY <1>1, <2>1 DEF GoodLive
<1>12. CASE SetObject
  <2>a. PICK i \in Slots(Build) : \E v \in Payloads[IdOf(i)] : live' = [live EXCEPT ![i] = v]
    BY <1>1, <1>12 DEF SetObject, Control
  <2>1. PICK v \in Payloads[IdOf(i)] : live' = [live EXCEPT ![i] = v]
    BY <2>a
  <2>2. /\ Build' = Build /\ pc' = pc /\ pc \notin Recording
        /\ pc \notin {"off", "noNvm", "defaults"} /\ DOMAIN live = Slots(Build)
    BY <1>1, <1>12 DEF SetObject, Control, Build, Reading
  <2>3. Allowed(Build, i, v)
    BY <1>1, <2>1, SetAllowed DEF IdOf
  <2> QED BY <1>1, <2>1, <2>2, <2>3 DEF GoodLive
<1>13. CASE par_nvm_object_write \/ par_nvm_object_write_all
  <2>1. /\ pc = "up" /\ live' = live /\ Build' = Build /\ pc' \notin Recording
    BY <1>13 DEF par_nvm_object_write, par_nvm_object_write_all, Idle, Build
  <2> QED BY <1>1, <2>1 DEF GoodLive
<1>14. CASE par_nvm_object_write_locked
  <2>a. PICK i \in Slots(Build) : \E v \in Payloads[IdOf(i)] :
          live' = [live EXCEPT ![i] = v] /\ idx' = i /\ meta' = new_meta(Build, i, v)
    BY <1>1, <1>14 DEF par_nvm_object_write_locked, Control
  <2>1. PICK v \in Payloads[IdOf(i)] :
          live' = [live EXCEPT ![i] = v] /\ idx' = i /\ meta' = new_meta(Build, i, v)
    BY <2>a
  <2>2. /\ Build' = Build /\ pc = "up" /\ DOMAIN live = Slots(Build)
    BY <1>1, <1>14 DEF par_nvm_object_write_locked, Control, Build, Idle
  <2>3. Allowed(Build, i, v)
    BY <1>1, <2>1, SetAllowed DEF IdOf
  <2> QED BY <1>1, <2>1, <2>2, <2>3 DEF GoodLive
<1> QED BY <1>2, <1>3, <1>4, <1>5, <1>6, <1>7, <1>8, <1>9, <1>10, <1>11, <1>12, <1>13, <1>14
        DEF Next

LEMMA StepBase == Base /\ [Next]_vars => Base'
<1>1. Base /\ Next => Base'
  BY StepControl, StepCells, StepLive DEF Base
<1>2. Base /\ UNCHANGED vars => Base'
  BY DEF Base, Control, GoodCells, GoodLive, Build, vars, counters, obs
<1> QED BY <1>1, <1>2

LEMMA AlwaysBase == Spec => []Base
  BY InitBase, StepBase, PTL DEF Spec

\* The state keeps its types whatever fails and whichever firmware boots, and
\* the mutex of an object is held only while its record is written.
THEOREM ObjectTypesCorrect == Spec => []TypeOK
<1>1. Base => TypeOK
  <2> SUFFICES ASSUME Base PROVE TypeOK
    OBVIOUS
  <2> QED BY DEF Base, Control, TypeOK, Slots, Writing, Recording, Reading, Rewriting
<1> QED BY <1>1, AlwaysBase, PTL

\* A boot brings up only payloads somebody set or the table's defaults, for any
\* set of firmwares: a record that was cut, or that another table or another
\* scalar block left at its place, is refused.
THEOREM NoTornComesUp == Spec => []NoTornPayload
<1>1. Base => NoTornPayload
  BY DEF Base, Control, GoodLive, NoTornPayload, Allowed, IdOf
<1> QED BY <1>1, AlwaysBase, PTL

-----------------------------------------------------------------------------
(* The restore: what has been read so far, and what RAM holds after it.    *)

RestoreInv ==
  /\ pc = "readHeader" => expect = Restorable(cells, Build) /\ idx = 1
  /\ pc = "readRecord" =>
       /\ result = "OK" /\ validate_header(cells, Build) = "OK"
       /\ head = cells[get_block_addr(Build) + 1] /\ idx =< head.obj_nb + 1
       /\ expect = Restorable(cells, Build)
       /\ \A i \in 1 .. idx - 1 : /\ check_record(cells, Build, i) = "OK"
                                  /\ live[i] = record_payload(cells, Build, i)
  /\ pc = "defaults" => result # "OK"
  /\ op = "boot" /\ pc \in Writing \union Rewriting \union {"up"} =>
       /\ result \in {"OK", "SET_TO_DEF"}
       /\ expect # Blank => live = IF result = "OK" THEN expect ELSE Default(Build)
  /\ pc = "noNvm" =>
       /\ result \notin {"OK", "SET_TO_DEF"}
       /\ op = "boot" /\ expect # Blank /\ result # "ERROR_MUTEX"
            => live \in {expect, Default(Build)}

LEMMA AllRead ==
  ASSUME Base, RestoreInv, RestoreDone, Reset({i \in DOMAIN live : i > head.obj_nb})
  PROVE  live' = expect
<1>1. /\ pc = "readRecord" /\ idx > head.obj_nb /\ Build \in Builds
      /\ idx \in 1 .. compile_count(Build) + 1 /\ compile_count(Build) \in Nat
      /\ head.obj_nb \in Nat /\ head.obj_nb =< compile_count(Build)
      /\ DOMAIN live = Slots(Build) /\ validate_storage_capacity(Build)
  BY BuildIsOne, BuildFacts DEF Base, Control, RestoreDone
<1>2. /\ validate_header(cells, Build) = "OK" /\ head = cells[get_block_addr(Build) + 1]
      /\ idx =< head.obj_nb + 1 /\ expect = Restorable(cells, Build)
      /\ \A i \in 1 .. idx - 1 : /\ check_record(cells, Build, i) = "OK"
                                 /\ live[i] = record_payload(cells, Build, i)
  BY <1>1 DEF RestoreInv
<1>3. 1 .. idx - 1 = 1 .. head.obj_nb
  BY <1>1, <1>2
<1>4. expect = [i \in 1 .. compile_count(Build) |->
                  IF i =< head.obj_nb THEN record_payload(cells, Build, i)
                  ELSE Build.rows[i].def]
  BY <1>1, <1>2, <1>3 DEF Restorable
<1>5. live' = [i \in Slots(Build) |-> IF i > head.obj_nb
                                     THEN Default(Build)[i] ELSE live[i]]
  BY <1>1 DEF Reset
<1>6. ASSUME NEW i \in Slots(Build)
      PROVE  (IF i > head.obj_nb THEN Default(Build)[i] ELSE live[i])
             = (IF i =< head.obj_nb THEN record_payload(cells, Build, i)
                ELSE Build.rows[i].def)
  <2>1. CASE i > head.obj_nb
    BY <2>1, <1>1 DEF Default, Slots
  <2>2. CASE ~(i > head.obj_nb)
    <3>1. i \in 1 .. idx - 1 /\ i =< head.obj_nb
      BY <2>2, <1>1, <1>3 DEF Slots
    <3> QED BY <3>1, <2>2, <1>2
  <2> QED BY <2>1, <2>2
<1> QED BY <1>4, <1>5, <1>6 DEF Slots

LEMMA StepRestore ==
  ASSUME Base, RestoreInv, Next PROVE RestoreInv'
<1> USE DEF Writing, Recording, Rewriting
<1>1. Control
  BY DEF Base
<1>2. CASE PowerLoss
  BY <1>2 DEF PowerLoss, RestoreInv
<1>3. CASE Boot
  BY <1>3, BootFacts DEF RestoreInv
<1>4. CASE ReadHeader
  <2>1. /\ pc = "readHeader" /\ op' = op /\ Build' = Build /\ cells' = cells /\ expect' = expect
        /\ idx' = idx /\ live' = live /\ idx = 1 /\ expect = Restorable(cells, Build)
    BY <1>4 DEF ReadHeader, Build, obs, RestoreInv
  <2>2. CASE /\ pc' = IF validate_header(cells, Build) = "OK" THEN "readRecord" ELSE "defaults"
             /\ head' = cells[get_block_addr(Build) + 1]
             /\ result' = validate_header(cells, Build)
    <3>1. CASE validate_header(cells, Build) = "OK"
      <4>1. head'.obj_nb \in Nat
        <5>1. validate_storage_capacity(Build)
          BY <1>1, <2>1 DEF Control
        <5> QED BY <2>1, <2>2, <3>1, <5>1, HeaderRead
      <4> QED BY <2>1, <2>2, <3>1, <4>1 DEF RestoreInv
    <3>2. CASE validate_header(cells, Build) # "OK"
      BY <2>1, <2>2, <3>2 DEF RestoreInv
    <3> QED BY <3>1, <3>2
  <2>3. CASE pc' = "defaults" /\ result' = "ERROR_NVM"
    BY <2>3 DEF RestoreInv
  <2> QED BY <1>4, <2>2, <2>3 DEF ReadHeader
<1>5. CASE ReadRecord
  <2>1. /\ pc = "readRecord" /\ op' = op /\ Build' = Build /\ cells' = cells /\ expect' = expect
        /\ head' = head /\ idx =< head.obj_nb
        /\ idx \in 1 .. compile_count(Build) + 1 /\ head.obj_nb \in Nat
        /\ head.obj_nb =< compile_count(Build) /\ DOMAIN live = Slots(Build)
    BY <1>1, <1>5 DEF ReadRecord, Build, obs, Control
  <2>2. CASE /\ check_record(cells, Build, idx) = "OK"
             /\ live' = [live EXCEPT ![idx] = record_payload(cells, Build, idx)]
             /\ idx' = idx + 1 /\ UNCHANGED <<pc, result, faults>>
    <3>1. Build \in Builds /\ compile_count(Build) \in Nat /\ idx \in Slots(Build)
      BY <1>1, <2>1, BuildIsOne, BuildFacts DEF Control, Slots
    <3>2. ASSUME NEW i \in 1 .. idx' - 1
          PROVE  /\ check_record(cells, Build, i) = "OK"
                 /\ live'[i] = record_payload(cells, Build, i)
      <4>1. CASE i = idx
        BY <4>1, <2>1, <2>2, <3>1
      <4>2. CASE i # idx
        <5>1. i \in 1 .. idx - 1 /\ i \in Slots(Build)
          BY <4>2, <2>1, <2>2, <3>1 DEF Slots
        <5> QED BY <4>2, <5>1, <2>1, <2>2 DEF RestoreInv
      <4> QED BY <4>1, <4>2
    <3>3. idx' =< head.obj_nb + 1
      BY <2>1, <2>2
    <3> QED BY <2>1, <2>2, <3>2, <3>3 DEF RestoreInv
  <2>3. CASE pc' = "defaults" /\ result' # "OK"
    BY <2>3 DEF RestoreInv
  <2>4. CASE pc' = "noNvm" /\ result' = "ERROR_MUTEX"
    BY <2>4 DEF RestoreInv
  <2> QED BY <1>5, <2>2, <2>3, <2>4 DEF ReadRecord
<1>6. CASE RestoreDone
  <2>1. /\ pc = "readRecord" /\ op' = op /\ Build' = Build /\ expect' = expect /\ result = "OK"
        /\ op = "boot"
    BY <1>1, <1>6 DEF RestoreDone, Build, obs, RestoreInv, Control, Reading
  <2>2. CASE Reset({i \in DOMAIN live : i > head.obj_nb}) /\ result' = "OK" /\ pc' \in {"erase", "up"}
    BY <1>6, <2>1, <2>2, AllRead DEF RestoreInv
  <2>3. CASE ResetFails({i \in DOMAIN live : i > head.obj_nb})
    BY <2>1, <2>3 DEF RestoreInv, ResetFails, Return, InBoot
  <2> QED BY <1>6, <2>1, <2>2, <2>3 DEF RestoreDone, Return
<1>7. CASE set_persistent_defaults
  <2>1. op = "boot" /\ op' = op /\ Build' = Build /\ DOMAIN live = Slots(Build)
    BY <1>1, <1>7 DEF set_persistent_defaults, Build, Control, Reading
  <2>2. CASE /\ Reset(DOMAIN live)
             /\ \/ pc' = "noNvm" /\ result' = "ERROR_NVM"
                \/ pc' = "erase" /\ result' = "SET_TO_DEF"
    <3>1. live' = Default(Build)
      BY <2>1, <2>2 DEF Reset, Default, Slots
    <3> QED BY <2>1, <2>2, <3>1 DEF RestoreInv
  <2>3. CASE ResetFails(DOMAIN live)
    BY <2>1, <2>3 DEF RestoreInv, ResetFails, Return, InBoot
  <2> QED BY <1>7, <2>1, <2>2, <2>3 DEF set_persistent_defaults, Return, InBoot
<1>8. CASE EraseSign \/ WriteHeader \/ TakeMutex \/ WritePayload \/ WriteMeta
  <2>1. /\ pc \in Writing \union Rewriting /\ op' = op /\ Build' = Build
        /\ expect' = expect /\ live' = live
        /\ \/ pc' \in {"take", "syncHeader", "writePayload", "writeMeta", "syncRecord"}
              /\ result' = result
           \/ pc' = "off"
           \/ pc' = "noNvm" /\ op = "boot" /\ result' \in {"ERROR_NVM", "ERROR_MUTEX"}
           \/ pc' = "up" /\ op # "boot"
    BY <1>8 DEF EraseSign, WriteHeader, TakeMutex, WritePayload, WriteMeta, FailedWrite,
       Return, InBoot, Build, obs
  <2> QED BY <2>1 DEF RestoreInv
<1>9. CASE SyncRecord
  <2>1. /\ pc = "syncRecord" /\ op' = op /\ Build' = Build /\ expect' = expect /\ live' = live
        /\ \/ pc' \in {"take", "writeHeader"} /\ result' = result
           \/ pc' = "noNvm" /\ op = "boot" /\ result' = "ERROR_NVM"
           \/ pc' = "up" /\ op # "boot"
    BY <1>9 DEF SyncRecord, Return, InBoot, Build
  <2> QED BY <2>1 DEF RestoreInv
<1>10. CASE SyncHeader
  <2>1. /\ pc = "syncHeader" /\ op' = op /\ Build' = Build /\ expect' = expect /\ live' = live
        /\ \/ op = "boot" /\ result' = result /\ pc' = "up"
           \/ pc' = "noNvm" /\ op = "boot" /\ result' = "ERROR_NVM"
           \/ pc' = "up" /\ op # "boot"
    <3>1. op = "boot" => result \in {"OK", "SET_TO_DEF"}
      BY <1>10 DEF SyncHeader, RestoreInv
    <3> QED BY <1>10, <3>1 DEF SyncHeader, Return, InBoot, Build
  <2> QED BY <2>1 DEF RestoreInv
<1>11. CASE SetObject
  <2>1. /\ expect' = Blank /\ op' = op /\ pc' = pc /\ result' = result
        /\ pc = "up" \/ (op # "boot" /\ pc \notin {"readHeader", "readRecord", "defaults"})
    BY <1>1, <1>11 DEF SetObject, Control, Reading
  <2> QED BY <2>1 DEF RestoreInv
<1>12. CASE par_nvm_object_write \/ par_nvm_object_write_locked \/ par_nvm_object_write_all
  BY <1>12 DEF par_nvm_object_write, par_nvm_object_write_locked, par_nvm_object_write_all,
     RestoreInv
<1> QED BY <1>2, <1>3, <1>4, <1>5, <1>6, <1>7, <1>8, <1>9, <1>10, <1>11, <1>12 DEF Next

\* par_nvm_object_init restores every stored object or none of them, for any
\* tables and any place at which a read, a check or a later write fails.
THEOREM RestoreIsAllOrNothing == Spec => []AllOrNothing
<1>1. Init => RestoreInv
  BY DEF Init, RestoreInv, Writing, Recording, Rewriting
<1>2. Base /\ RestoreInv /\ [Next]_vars => RestoreInv'
  <2>1. Base /\ RestoreInv /\ UNCHANGED vars => RestoreInv'
    BY DEF RestoreInv, Build, vars, counters, obs
  <2> QED BY <2>1, StepRestore
<1>3. RestoreInv => AllOrNothing
  BY DEF RestoreInv, AllOrNothing
<1> QED BY <1>1, <1>2, <1>3, AlwaysBase, PTL DEF Spec

-----------------------------------------------------------------------------
(* Where the writes go.                                                    *)

Same(c) == cells'[c] = cells[c]

\* Erasing the signature and writing the header leave all but two cells.
LEMMA HeaderStaysInside ==
  ASSUME Base, EraseSign \/ WriteHeader
  PROVE  \A c \in DOMAIN cells :
           c < get_block_addr(Build) \/ c > get_block_addr(Build) + 1 => Same(c)
<1>1. pc \notin {"off", "noNvm"}
  BY DEF EraseSign, WriteHeader
<1>2. get_block_addr(Build) \in Nat /\ DOMAIN cells = 0 .. StoreSize - 1
  BY <1>1, WriterFacts
<1>3. CASE EraseSign
  <2>1. Overwrites(get_block_addr(Build), <<Blank>>) /\ Len(<<Blank>>) = 1
    BY <1>3, SignErased
  <2> QED BY <1>2, <2>1, StoreAssumption DEF Overwrites, Same
<1>4. CASE WriteHeader
  <2>1. /\ Overwrites(get_block_addr(Build), <<Sign, new_head(Build)>>)
        /\ Len(<<Sign, new_head(Build)>>) = 2
    BY <1>4, HeaderWritten
  <2> QED BY <1>2, <2>1, StoreAssumption DEF Overwrites, Same
<1> QED BY <1>3, <1>4

\* Writing a record leaves the header, what is before it and the other records;
\* its head and its payload are written separately.
LEMMA RecordStaysInside ==
  ASSUME Base, WritePayload \/ WriteMeta
  PROVE  /\ \A c \in DOMAIN cells : c < get_block_addr(Build) + 2 => Same(c)
         /\ \A j \in Slots(Build) : j # idx =>
               \A k \in 0 .. max_len(Build.rows[j]) : Same(record_addr(Build, j) + k)
         /\ WriteMeta => \A k \in 1 .. Len(live[idx]) : Same(record_addr(Build, idx) + k)
<1>1. pc \in Writing /\ pc \notin {"off", "noNvm"}
  BY DEF WritePayload, WriteMeta, Writing, Recording
<1>2. /\ Build \in Builds /\ validate_storage_capacity(Build)
      /\ DOMAIN cells = 0 .. StoreSize - 1 /\ get_block_addr(Build) \in Nat
      /\ compile_count(Build) \in Nat
  BY <1>1, WriterFacts
<1>3. /\ idx \in Slots(Build) /\ idx \in Nat /\ record_addr(Build, idx) \in Nat
      /\ Len(live[idx]) \in Nat /\ Len(live[idx]) =< max_len(Build.rows[idx])
      /\ max_len(Build.rows[idx]) \in Nat
      /\ \A k \in 0 .. Len(live[idx]) : record_addr(Build, idx) + k \in DOMAIN cells
  BY <1>1, RecordFacts
<1>4. record_addr(Build, idx) >= get_block_addr(Build) + 2
  BY <1>2, <1>3, AddressFacts
\* The cells written are the record's.
<1>5. \A c \in DOMAIN cells :
        c < record_addr(Build, idx) \/ c > record_addr(Build, idx) + Len(live[idx]) => Same(c)
  <2>1. CASE WritePayload
    <3>1. Overwrites(record_addr(Build, idx) + 1, live[idx])
      BY <2>1, PayloadWritten
    <3> QED BY <1>2, <1>3, <3>1, StoreAssumption DEF Overwrites, Same
  <2>2. CASE WriteMeta
    <3>1. Overwrites(record_addr(Build, idx), <<meta>>) /\ Len(<<meta>>) = 1
      BY <2>2, MetaWritten
    <3> QED BY <1>2, <1>3, <3>1, StoreAssumption DEF Overwrites, Same
  <2> QED BY <2>1, <2>2
<1>6. \A c \in DOMAIN cells : c < get_block_addr(Build) + 2 => Same(c)
  BY <1>2, <1>3, <1>4, <1>5, StoreAssumption
<1>7. ASSUME NEW j \in Slots(Build), j # idx, NEW k \in 0 .. max_len(Build.rows[j])
      PROVE  Same(record_addr(Build, j) + k)
  <2>1. /\ record_addr(Build, j) \in Nat /\ max_len(Build.rows[j]) \in Nat /\ j \in Nat
        /\ record_addr(Build, j) + max_len(Build.rows[j]) < StoreSize
    BY <1>2, AddressFacts, LengthFacts DEF Slots
  <2>2. record_addr(Build, j) + k \in DOMAIN cells
    BY <1>2, <2>1, StoreAssumption
  <2>3. CASE j < idx
    <3>1. record_addr(Build, j) + max_len(Build.rows[j]) < record_addr(Build, idx)
      BY <1>2, <1>3, <2>3, AddressFacts
    <3>2. record_addr(Build, j) + k < record_addr(Build, idx)
      BY <1>3, <2>1, <3>1
    <3> QED BY <1>5, <2>2, <3>2
  <2>4. CASE idx < j
    <3>1. record_addr(Build, idx) + max_len(Build.rows[idx]) < record_addr(Build, j)
      BY <1>2, <1>3, <2>4, AddressFacts
    <3>2. record_addr(Build, j) + k > record_addr(Build, idx) + Len(live[idx])
      BY <1>3, <2>1, <3>1
    <3> QED BY <1>5, <2>2, <3>2
  <2> QED BY <1>3, <1>7, <2>1, <2>3, <2>4
<1>8. ASSUME WriteMeta, NEW k \in 1 .. Len(live[idx])
      PROVE  Same(record_addr(Build, idx) + k)
  <2>1. Overwrites(record_addr(Build, idx), <<meta>>) /\ Len(<<meta>>) = 1
    BY <1>8, MetaWritten
  <2>2. record_addr(Build, idx) + k \in DOMAIN cells
        /\ \A j \in 1 .. 1 : record_addr(Build, idx) + k # record_addr(Build, idx) + j - 1
    BY <1>3
  <2> QED BY <2>1, <2>2 DEF Overwrites, Same
<1> QED BY <1>6, <1>7, <1>8

\* The object block never reaches into the scalar records, whatever the address
\* mode, the tables and the firmware booted before.
THEOREM ScalarsAreKept == Spec => []ScalarsUntouched
<1>1. Init => ScalarsUntouched
  BY DEF Init, ScalarsUntouched
<1>2. ASSUME Base, ScalarsUntouched, Next PROVE ScalarsUntouched'
  <2>1. CASE Boot
    <3> SUFFICES ASSUME pc' \notin {"off", "noNvm"}, Build'.mode # "DEDICATED",
                        NEW c \in 0 .. Build'.scalar_cells - 1
                 PROVE  cells'[c] = ScalarData
      BY DEF ScalarsUntouched
    <3>1. Build' \in Builds /\ validate_storage_capacity(Build') /\ DOMAIN cells = 0 .. StoreSize - 1
      BY <1>2, <2>1, BootFacts DEF Base, Control
    <3>2. /\ Build'.scalar_cells \in Nat /\ get_block_addr(Build') + 1 < StoreSize
          /\ get_block_addr(Build') \in Nat /\ Build'.scalar_cells =< get_block_addr(Build')
      <4>1. PICK b \in Builds : b = Build'
        BY <3>1
      <4>2. validate_storage_capacity(b) /\ b.mode # "DEDICATED"
        BY <3>1, <4>1
      <4>3. /\ b.scalar_cells \in Nat /\ get_block_addr(b) + 1 < StoreSize
            /\ get_block_addr(b) \in Nat /\ b.scalar_cells =< get_block_addr(b)
        BY <4>2, AddressFacts, BuildFacts
      <4> QED BY <4>1, <4>3
    <3>3. c \in DOMAIN cells /\ c < Build'.scalar_cells
      BY <3>1, <3>2, StoreAssumption
    <3> QED BY <1>2, <2>1, <3>3, BootFacts
  <2>2. CASE EraseSign \/ WriteHeader \/ WritePayload \/ WriteMeta
    <3>1. pc \notin {"off", "noNvm"} /\ Build' = Build
      BY <2>2 DEF EraseSign, WriteHeader, WritePayload, WriteMeta, Build
    <3>2. /\ Build \in Builds /\ get_block_addr(Build) \in Nat /\ DOMAIN cells = 0 .. StoreSize - 1
          /\ get_block_addr(Build) + 1 < StoreSize /\ Build.scalar_cells \in Nat
          /\ Build.mode # "DEDICATED" => Build.scalar_cells =< get_block_addr(Build)
      BY <1>2, <3>1, WriterFacts, AddressFacts, BuildFacts
    <3>3. \A c \in DOMAIN cells : c < get_block_addr(Build) => Same(c)
      BY <1>2, <2>2, <3>2, HeaderStaysInside, RecordStaysInside, StoreAssumption
    <3>4. Build.mode # "DEDICATED" =>
            \A c \in 0 .. Build.scalar_cells - 1 : c \in DOMAIN cells /\ c < get_block_addr(Build)
      BY <3>2, StoreAssumption
    <3> QED BY <1>2, <3>1, <3>3, <3>4 DEF ScalarsUntouched, Same
  <2>3. CASE ~Boot /\ ~EraseSign /\ ~WriteHeader /\ ~WritePayload /\ ~WriteMeta
    <3>1. cells' = cells /\ Build' = Build
      BY <1>2, <2>3, OthersWriteNothing DEF Build
    <3>2. pc' \notin {"off", "noNvm"} => pc \notin {"off", "noNvm"}
      BY <1>2, <2>3 DEF Next, PowerLoss, ReadHeader, ReadRecord, RestoreDone,
         set_persistent_defaults, SyncHeader, TakeMutex, SyncRecord, SetObject,
         par_nvm_object_write, par_nvm_object_write_locked, par_nvm_object_write_all, Idle
    <3> QED BY <1>2, <3>1, <3>2 DEF ScalarsUntouched
  <2> QED BY <2>1, <2>2, <2>3
<1>3. Base /\ ScalarsUntouched /\ [Next]_vars => ScalarsUntouched'
  <2>1. ScalarsUntouched /\ UNCHANGED vars => ScalarsUntouched'
    BY DEF ScalarsUntouched, Build, vars, counters, obs
  <2> QED BY <2>1, <1>2
<1> QED BY <1>1, <1>3, AlwaysBase, PTL DEF Spec

\* The signature is gone while a save of all is under way or was cut short.
HalfInv == half => /\ get_block_addr(Build) \in DOMAIN cells
                   /\ cells[get_block_addr(Build)] # Sign

\* A save of all that was cut short is refused by every firmware that looks for
\* the block at this place: no boot sees some of its objects and not others.
THEOREM HalfASaveIsRefused == Spec => []NoHalfSaveAll
<1>1. Init => HalfInv
  BY DEF Init, HalfInv
<1>2. ASSUME Base, HalfInv, Next PROVE HalfInv'
  <2>1. CASE Boot
    <3>1. half' => half /\ get_block_addr(Build') = get_block_addr(Build)
      BY <1>2, <2>1, BootFacts
    <3>2. \A c \in DOMAIN cells : cells[c] # Sign => cells'[c] # Sign
      BY <1>2, <2>1, BootFacts, AtomFacts
    <3>3. DOMAIN cells' = DOMAIN cells
      BY <1>2, <2>1, BootFacts
    <3> QED BY <1>2, <3>1, <3>2, <3>3 DEF HalfInv
  <2>2. CASE EraseSign
    <3>1. pc \notin {"off", "noNvm"} /\ Build' = Build
      BY <2>2 DEF EraseSign, Build
    <3>2. get_block_addr(Build) \in DOMAIN cells /\ get_block_addr(Build) \in Nat
      BY <1>2, <3>1, WriterFacts
    <3>3. DOMAIN cells' = DOMAIN cells
      BY <1>2, <2>2, SignErased DEF Overwrites
    <3>4. CASE pc' = "take"
      BY <1>2, <2>2, <3>1, <3>2, <3>3, <3>4, SignErased, AtomFacts DEF HalfInv
    <3>5. CASE pc' # "take"
      <4>1. half' = half
        BY <2>2, <3>5 DEF EraseSign
      <4>2. /\ Overwrites(get_block_addr(Build), <<Blank>>)
            /\ \A k \in 1 .. Len(<<Blank>>) : <<Blank>>[k] = Blank
        BY <1>2, <2>2, SignErased
      <4>3. cells'[get_block_addr(Build)] \in {cells[get_block_addr(Build)], Blank, Garbage}
        BY <3>2, <4>2 DEF Overwrites
      <4> QED BY <1>2, <3>1, <3>2, <3>3, <4>1, <4>3, AtomFacts DEF HalfInv
    <3> QED BY <3>4, <3>5
  <2>3. CASE WriteHeader
    BY <2>3 DEF WriteHeader, HalfInv
  <2>4. CASE WritePayload \/ WriteMeta
    <3>1. pc \notin {"off", "noNvm"} /\ Build' = Build /\ half' = half
      BY <2>4 DEF WritePayload, WriteMeta, Build
    <3>2. get_block_addr(Build) \in DOMAIN cells /\ get_block_addr(Build) \in Nat
      BY <1>2, <3>1, WriterFacts
    <3>3. Same(get_block_addr(Build)) /\ DOMAIN cells' = DOMAIN cells
      BY <1>2, <2>4, <3>2, RecordStaysInside, PayloadWritten, MetaWritten DEF Overwrites
    <3> QED BY <1>2, <3>1, <3>2, <3>3 DEF HalfInv, Same
  <2>5. CASE ~Boot /\ ~EraseSign /\ ~WriteHeader /\ ~WritePayload /\ ~WriteMeta
    <3>1. cells' = cells /\ Build' = Build
      BY <1>2, <2>5, OthersWriteNothing DEF Build
    <3>2. half' = half
      BY <1>2, <2>5 DEF Next, PowerLoss, ReadHeader, ReadRecord, RestoreDone,
         set_persistent_defaults, SyncHeader, TakeMutex, SyncRecord, SetObject,
         par_nvm_object_write, par_nvm_object_write_locked, par_nvm_object_write_all, obs
    <3> QED BY <1>2, <3>1, <3>2 DEF HalfInv
  <2> QED BY <2>1, <2>2, <2>3, <2>4, <2>5
<1>3. Base /\ HalfInv /\ [Next]_vars => HalfInv'
  <2>1. HalfInv /\ UNCHANGED vars => HalfInv'
    BY DEF HalfInv, Build, vars, counters, obs
  <2> QED BY <2>1, <1>2
<1>4. HalfInv => NoHalfSaveAll
  BY DEF HalfInv, NoHalfSaveAll, Restorable, validate_header
<1> QED BY <1>1, <1>3, <1>4, AlwaysBase, PTL DEF Spec

-----------------------------------------------------------------------------
(* Saved payloads.                                                         *)

RecordIs(i, v) ==
  /\ cells[record_addr(Build, i)] = new_meta(Build, i, v)
  /\ \A k \in 1 .. Len(v) : cells[record_addr(Build, i) + k] = v[k]

\* The record of object i is that of its last save answered ok.
Keeps(i) == /\ Allowed(Build, i, saved[IdOf(i)])
            /\ RecordIs(i, saved[IdOf(i)])

HeaderIs == /\ cells[get_block_addr(Build)] = Sign
            /\ cells[get_block_addr(Build) + 1] = new_head(Build)

\* While the block is signed, its header is the table's, and the record of every
\* object whose saves went well is the saved one, but for the one being written.
Signed ==
  signed => /\ validate_storage_capacity(Build) /\ HeaderIs
            /\ \A i \in Slots(Build) :
                  sound[IdOf(i)] => Keeps(i) \/ (pc \in {"writeMeta", "syncRecord"} /\ i = idx)

\* A save of all has written the records before idx; the header comes last.
Rewritten ==
  /\ pc \in Writing \union {"writeHeader", "syncHeader"} /\ op \in {"boot", "all"} => ~signed
  /\ pc \in Writing /\ op \in {"boot", "all"} =>
       \A j \in Slots(Build) : j < idx => Keeps(j)
  /\ pc \in {"writeHeader", "syncHeader"} => \A j \in Slots(Build) : Keeps(j)
  /\ pc = "syncHeader" => HeaderIs

\* What of the record being written is in the store.
InRecord ==
  /\ pc \in {"writeMeta", "syncRecord"} =>
       \A k \in 1 .. Len(live[idx]) : cells[record_addr(Build, idx) + k] = live[idx][k]
  /\ pc = "syncRecord" => cells[record_addr(Build, idx)] = meta

SaveInv == Signed /\ Rewritten /\ InRecord

LEMMA KeepsFrame ==
  ASSUME Build \in Builds, Build' = Build, NEW i \in Slots(Build), Keeps(i),
         saved'[IdOf(i)] = saved[IdOf(i)],
         \A k \in 0 .. max_len(Build.rows[i]) : Same(record_addr(Build, i) + k),
         record_addr(Build, i) \in Nat
  PROVE  Keeps(i)'
<1> DEFINE v == saved[IdOf(i)]
<1>1. Len(v) \in Nat /\ Len(v) =< max_len(Build.rows[i]) /\ max_len(Build.rows[i]) \in Nat
  BY PayloadLength, LengthFacts DEF Keeps, Allowed
<1>2. 0 \in 0 .. max_len(Build.rows[i]) /\ record_addr(Build, i) + 0 = record_addr(Build, i)
  BY <1>1
<1>3. Same(record_addr(Build, i)) /\ \A k \in 1 .. Len(v) : Same(record_addr(Build, i) + k)
  BY <1>1, <1>2
<1>4. IdOf(i)' = IdOf(i)
  BY DEF IdOf
<1> QED BY <1>3, <1>4 DEF Keeps, RecordIs, Same

LEMMA KeepsUnchanged ==
  ASSUME cells' = cells, Build' = Build, NEW i, Keeps(i), saved'[IdOf(i)] = saved[IdOf(i)]
  PROVE  Keeps(i)'
  BY DEF Keeps, RecordIs, IdOf

\* A step that writes nothing and answers nothing keeps what is kept.
LEMMA QuietStep ==
  ASSUME SaveInv, cells' = cells, Build' = Build, saved' = saved, sound' = sound,
         signed' = signed,
         pc' \notin Writing \union {"writeHeader", "syncHeader"},
         pc \notin {"writeMeta", "syncRecord"}
  PROVE  SaveInv'
<1>1. \A i : Keeps(i) => Keeps(i)'
  BY KeepsUnchanged
<1>2. HeaderIs => HeaderIs'
  BY DEF HeaderIs
<1>3. \A i : IdOf(i)' = IdOf(i)
  BY DEF IdOf
<1> QED BY <1>1, <1>2, <1>3 DEF SaveInv, Signed, Rewritten, InRecord, Writing, Recording

LEMMA StepSaveQuiet ==
  ASSUME Base, SaveInv,
         ReadHeader \/ ReadRecord \/ RestoreDone \/ set_persistent_defaults
         \/ par_nvm_object_write_all \/ (PowerLoss /\ pc \notin {"writeMeta", "syncRecord"})
  PROVE  SaveInv'
<1>1. /\ cells' = cells /\ Build' = Build /\ saved' = saved /\ sound' = sound /\ signed' = signed
      /\ pc \notin {"writeMeta", "syncRecord"}
  BY DEF ReadHeader, ReadRecord, RestoreDone, set_persistent_defaults,
     par_nvm_object_write_all, PowerLoss, Build, obs, Idle
<1>2. pc' \notin Writing \union {"writeHeader", "syncHeader"}
  BY DEF ReadHeader, ReadRecord, RestoreDone, set_persistent_defaults,
     ResetFails, par_nvm_object_write_all, PowerLoss, Return, Writing, Recording
<1> QED BY <1>1, <1>2, QuietStep

LEMMA StepSaveBoot ==
  ASSUME Base, SaveInv, Boot
  PROVE  SaveInv'
<1>1. /\ pc = "off" /\ pc' \in {"readHeader", "noNvm"} /\ DOMAIN cells = 0 .. StoreSize - 1
      /\ UNCHANGED <<saved, sound>> /\ signed' = (signed /\ fw' = fw)
  BY BootFacts DEF Base, Control
<1>2. ASSUME signed'
      PROVE  /\ validate_storage_capacity(Build') /\ HeaderIs'
             /\ \A i \in Slots(Build') : (sound[IdOf(i)])' => Keeps(i)'
  <2>1. signed /\ Build' = Build
    BY <1>1, <1>2 DEF Build
  <2>2. /\ Build \in Builds /\ validate_storage_capacity(Build) /\ HeaderIs
        /\ \A i \in Slots(Build) : sound[IdOf(i)] => Keeps(i)
    BY <1>1, <2>1, BuildIsOne DEF SaveInv, Signed, Base, Control
  <2>3. /\ get_block_addr(Build) \in Nat /\ get_block_addr(Build) + 1 < StoreSize
        /\ Build.mode # "DEDICATED" => Build.scalar_cells =< get_block_addr(Build)
        /\ Build.scalar_cells \in Nat
    BY <2>2, AddressFacts, BuildFacts
  <2>4. \A c \in DOMAIN cells : c >= get_block_addr(Build) => Same(c)
    BY <1>1, <2>1, <2>3, BootFacts, StoreAssumption DEF Same
  <2>5. HeaderIs'
    <3>1. Same(get_block_addr(Build)) /\ Same(get_block_addr(Build) + 1)
      BY <1>1, <2>3, <2>4, StoreAssumption
    <3> QED BY <2>1, <2>2, <3>1 DEF HeaderIs, Same
  <2>6. ASSUME NEW i \in Slots(Build), Keeps(i) PROVE Keeps(i)'
    <3>1. /\ record_addr(Build, i) \in Nat /\ record_addr(Build, i) >= get_block_addr(Build) + 2
          /\ record_addr(Build, i) + max_len(Build.rows[i]) < StoreSize
          /\ max_len(Build.rows[i]) \in Nat
      BY <2>2, AddressFacts, LengthFacts
    <3>2. \A k \in 0 .. max_len(Build.rows[i]) : Same(record_addr(Build, i) + k)
      BY <1>1, <2>3, <2>4, <3>1, StoreAssumption
    <3> QED BY <1>1, <2>1, <2>2, <2>6, <3>1, <3>2, KeepsFrame
  <2> QED BY <1>1, <2>1, <2>2, <2>5, <2>6 DEF IdOf
<1> QED BY <1>1, <1>2 DEF SaveInv, Signed, Rewritten, InRecord, Writing, Recording

LEMMA StepSaveHeader ==
  ASSUME Base, SaveInv, EraseSign \/ WriteHeader
  PROVE  SaveInv'
<1>1. /\ pc \notin {"off", "noNvm"} /\ Build' = Build /\ UNCHANGED <<saved, sound>>
      /\ pc \notin Writing
  BY DEF EraseSign, WriteHeader, Build, Writing, Recording
<1>2. /\ Build \in Builds /\ validate_storage_capacity(Build) /\ DOMAIN cells = 0 .. StoreSize - 1
      /\ get_block_addr(Build) \in Nat
  BY <1>1, WriterFacts
<1>3. ASSUME NEW i \in Slots(Build), Keeps(i) PROVE Keeps(i)'
  <2>1. /\ record_addr(Build, i) \in Nat /\ record_addr(Build, i) >= get_block_addr(Build) + 2
        /\ record_addr(Build, i) + max_len(Build.rows[i]) < StoreSize
        /\ max_len(Build.rows[i]) \in Nat
    BY <1>2, AddressFacts, LengthFacts
  <2>2. \A k \in 0 .. max_len(Build.rows[i]) : Same(record_addr(Build, i) + k)
    BY <1>2, <2>1, HeaderStaysInside, StoreAssumption
  <2> QED BY <1>1, <1>2, <1>3, <2>1, <2>2, KeepsFrame
<1>4. CASE EraseSign
  <2>1. /\ ~signed' /\ pc' \in {"take", "up", "noNvm", "off"}
        /\ pc' = "take" => idx' = 1
    BY <1>4 DEF EraseSign, FailedWrite, Return
  <2>2. \A j \in Slots(Build) : ~(j < 1)
    BY <1>2, BuildFacts DEF Slots
  <2>3. Signed' /\ InRecord'
    BY <2>1 DEF Signed, InRecord
  <2>4. pc' = "take" => \A j \in Slots(Build') : ~(j < idx')
    BY <1>1, <2>1, <2>2
  <2>5. Rewritten'
    BY <2>1, <2>4 DEF Rewritten, Writing, Recording
  <2> QED BY <2>3, <2>5 DEF SaveInv
<1>5. CASE WriteHeader
  <2>1. /\ pc = "writeHeader" /\ signed' = signed /\ op' = op /\ idx' = idx
        /\ pc' \in {"syncHeader", "up", "noNvm", "off"} /\ op \in {"boot", "all"}
    BY <1>5 DEF WriteHeader, FailedWrite, Return, Base, Control, Rewriting
  <2>2. ~signed /\ \A j \in Slots(Build) : Keeps(j)
    BY <2>1 DEF SaveInv, Rewritten
  <2>3. pc' = "syncHeader" => HeaderIs'
    BY <1>1, <1>5, HeaderWritten DEF HeaderIs
  <2> QED BY <1>1, <1>3, <2>1, <2>2, <2>3 DEF SaveInv, Signed, Rewritten, InRecord, Writing, Recording
<1> QED BY <1>4, <1>5

LEMMA StepSaveSync ==
  ASSUME Base, SaveInv, SyncHeader
  PROVE  SaveInv'
<1>1. /\ pc = "syncHeader" /\ Build' = Build /\ UNCHANGED <<cells, saved, sound>>
      /\ pc' \in {"up", "noNvm"} /\ (signed' = TRUE \/ signed' = signed)
  BY DEF SyncHeader, Build, Return
<1>2. validate_storage_capacity(Build) /\ HeaderIs /\ \A j \in Slots(Build) : Keeps(j)
  BY <1>1 DEF SaveInv, Rewritten, Base, Control
<1>3. HeaderIs' /\ \A j \in Slots(Build) : Keeps(j)'
  BY <1>1, <1>2, KeepsUnchanged DEF HeaderIs
<1> QED BY <1>1, <1>2, <1>3 DEF SaveInv, Signed, Rewritten, InRecord, Writing, Recording

\* A save that fails or is cut takes its object out of what is kept.
LEMMA UnsoundFacts ==
  ASSUME Base, ObjectUnsound, NEW i \in Slots(Build), sound'[IdOf(i)]
  PROVE  sound[IdOf(i)] /\ i # idx
<1>1. Build \in Builds
  BY BuildIsOne DEF Base, Control
<1>2. IdOf(i) \in Ids
  BY <1>1, BuildFacts DEF IdOf
<1> QED BY <1>2 DEF ObjectUnsound

LEMMA StepSaveCut ==
  ASSUME Base, SaveInv, PowerLoss, pc \in {"writeMeta", "syncRecord"}
  PROVE  SaveInv'
<1>1. /\ pc' = "off" /\ Build' = Build /\ UNCHANGED <<cells, saved, signed>> /\ ObjectUnsound
  BY DEF PowerLoss, Build
<1>2. \A i : Keeps(i) => Keeps(i)'
  BY <1>1, KeepsUnchanged
<1>3. ASSUME NEW i \in Slots(Build), signed, sound'[IdOf(i)] PROVE Keeps(i)'
  <2>1. sound[IdOf(i)] /\ i # idx
    BY <1>1, <1>3, UnsoundFacts
  <2> QED BY <1>2, <1>3, <2>1 DEF SaveInv, Signed
<1> QED BY <1>1, <1>3 DEF SaveInv, Signed, Rewritten, InRecord, Writing, Recording, HeaderIs, IdOf

LEMMA StepSaveTake ==
  ASSUME Base, SaveInv, TakeMutex
  PROVE  SaveInv'
<1>1. /\ pc = "take" /\ Build' = Build /\ UNCHANGED <<cells, saved, sound, signed, op, idx, live>>
      /\ pc' \in {"writePayload", "up", "noNvm"}
  BY DEF TakeMutex, Build, Return, obs
<1>2. \A i : Keeps(i) => Keeps(i)'
  BY <1>1, KeepsUnchanged
<1> QED BY <1>1, <1>2 DEF SaveInv, Signed, Rewritten, InRecord, Writing, Recording, HeaderIs, IdOf

LEMMA StepSaveRecord ==
  ASSUME Base, SaveInv, WritePayload \/ WriteMeta
  PROVE  SaveInv'
<1>1. /\ pc \in {"writePayload", "writeMeta"} /\ Build' = Build
      /\ UNCHANGED <<saved, signed, op, idx, live, meta>>
      /\ \/ pc' \in {"writeMeta", "syncRecord"} /\ sound' = sound
         \/ pc' \in {"up", "noNvm", "off"} /\ ObjectUnsound
  BY DEF WritePayload, WriteMeta, Build, FailedWrite, Return
<1>2. pc \in Writing /\ pc \notin {"off", "noNvm"}
  BY <1>1 DEF Writing, Recording
<1>3. /\ Build \in Builds /\ validate_storage_capacity(Build)
      /\ get_block_addr(Build) \in Nat /\ DOMAIN cells = 0 .. StoreSize - 1
      /\ get_block_addr(Build) \in DOMAIN cells /\ get_block_addr(Build) + 1 \in DOMAIN cells
  BY <1>2, WriterFacts
<1>4. HeaderIs => HeaderIs'
  <2>1. Same(get_block_addr(Build)) /\ Same(get_block_addr(Build) + 1)
    BY <1>3, RecordStaysInside
  <2> QED BY <1>1, <2>1 DEF HeaderIs, Same
<1>5. ASSUME NEW i \in Slots(Build), i # idx, Keeps(i) PROVE Keeps(i)'
  <2>1. record_addr(Build, i) \in Nat
    BY <1>3, AddressFacts
  <2>2. \A k \in 0 .. max_len(Build.rows[i]) : Same(record_addr(Build, i) + k)
    BY <1>5, RecordStaysInside
  <2> QED BY <1>1, <1>3, <1>5, <2>1, <2>2, KeepsFrame
<1>6. Signed'
  <2>1. CASE pc' \in {"writeMeta", "syncRecord"} /\ sound' = sound
    BY <1>1, <1>3, <1>4, <1>5, <2>1 DEF SaveInv, Signed, IdOf
  <2>2. CASE pc' \in {"up", "noNvm", "off"} /\ ObjectUnsound
    <3>1. ASSUME NEW i \in Slots(Build), signed, sound'[IdOf(i)] PROVE Keeps(i)'
      <4>1. sound[IdOf(i)] /\ i # idx
        BY <2>2, <3>1, UnsoundFacts
      <4> QED BY <1>5, <3>1, <4>1 DEF SaveInv, Signed
    <3> QED BY <1>1, <1>3, <1>4, <3>1 DEF SaveInv, Signed, IdOf
  <2> QED BY <1>1, <2>1, <2>2
<1>7. Rewritten'
  <2>1. \A j \in Slots(Build) : j < idx => j # idx
    <3>1. idx \in Nat /\ compile_count(Build) \in Nat
      BY <1>2, <1>3, RecordFacts, BuildFacts
    <3> QED BY <3>1 DEF Slots
  <2> QED BY <1>1, <1>2, <1>5, <2>1 DEF SaveInv, Rewritten, Writing, Recording
<1>8. InRecord'
  <2>1. CASE pc' = "writeMeta"
    <3>1. WritePayload
      BY <2>1 DEF WriteMeta, FailedWrite, Return
    <3> QED BY <1>1, <2>1, <3>1, PayloadWritten DEF InRecord
  <2>2. CASE pc' = "syncRecord"
    <3>1. WriteMeta
      BY <2>2 DEF WritePayload, FailedWrite, Return
    <3>2. \A k \in 1 .. Len(live[idx]) : cells[record_addr(Build, idx) + k] = live[idx][k]
      BY <3>1 DEF SaveInv, InRecord, WriteMeta
    <3>3. \A k \in 1 .. Len(live[idx]) : Same(record_addr(Build, idx) + k)
      BY <3>1, RecordStaysInside
    <3>4. cells'[record_addr(Build, idx)] = meta
      BY <2>2, <3>1, MetaWritten
    <3> QED BY <1>1, <2>2, <3>2, <3>3, <3>4 DEF InRecord, Same
  <2>3. CASE pc' \notin {"writeMeta", "syncRecord"}
    BY <2>3 DEF InRecord
  <2> QED BY <2>1, <2>2, <2>3
<1> QED BY <1>6, <1>7, <1>8 DEF SaveInv

LEMMA StepSaveDone ==
  ASSUME Base, SaveInv, SyncRecord
  PROVE  SaveInv'
<1>1. /\ pc = "syncRecord" /\ Build' = Build /\ UNCHANGED <<cells, signed, op, live>>
  BY DEF SyncRecord, Build
<1>2. /\ Build \in Builds /\ idx \in Slots(Build) /\ idx \in Nat /\ compile_count(Build) \in Nat
      /\ Allowed(Build, idx, live[idx]) /\ meta = new_meta(Build, idx, live[idx])
      /\ op \in {"boot", "all", "save", "nsave"} /\ DOMAIN saved = Ids /\ DOMAIN sound = Ids
      /\ \A i \in Slots(Build) : IdOf(i) \in Ids
      /\ \A i \in Slots(Build) : IdOf(i) = IdOf(idx) => i = idx
  <2>1. pc \in Writing /\ pc \notin {"off", "noNvm"} /\ pc # "take"
    BY <1>1 DEF Writing, Recording
  <2>2. /\ Build \in Builds /\ idx \in Slots(Build) /\ idx \in Nat /\ compile_count(Build) \in Nat
        /\ Allowed(Build, idx, live[idx]) /\ meta = new_meta(Build, idx, live[idx])
    BY <2>1, WriterFacts, RecordFacts
  <2> QED BY <2>2, BuildFacts DEF IdOf, Base, Control
<1>3. HeaderIs => HeaderIs'
  BY <1>1 DEF HeaderIs
<1>4. CASE saved' = [saved EXCEPT ![IdOf(idx)] = live[idx]]
           /\ sound' = [sound EXCEPT ![IdOf(idx)] = TRUE]
  <2>1. \A i : i = idx => Keeps(i)'
    <3>1. saved'[IdOf(idx)] = live[idx]
      BY <1>2, <1>4
    <3>2. RecordIs(idx, live[idx])
      BY <1>1, <1>2 DEF SaveInv, InRecord, RecordIs
    <3>3. \A v : RecordIs(idx, v) => cells'[record_addr(Build, idx)] = new_meta(Build, idx, v)
                /\ \A k \in 1 .. Len(v) : cells'[record_addr(Build, idx) + k] = v[k]
      BY <1>1 DEF RecordIs
    <3>4. /\ Allowed(Build, idx, saved'[Build.rows[idx].id])
          /\ cells'[record_addr(Build, idx)] = new_meta(Build, idx, saved'[Build.rows[idx].id])
          /\ \A k \in 1 .. Len(saved'[Build.rows[idx].id]) :
               cells'[record_addr(Build, idx) + k] = saved'[Build.rows[idx].id][k]
      BY <1>2, <3>1, <3>2, <3>3 DEF IdOf
    <3> QED BY <1>1, <3>4 DEF Keeps, RecordIs, IdOf
  <2>2. ASSUME NEW i \in Slots(Build), i # idx
        PROVE  (Keeps(i) => Keeps(i)') /\ sound'[IdOf(i)] = sound[IdOf(i)]
    <3>1. saved'[IdOf(i)] = saved[IdOf(i)] /\ sound'[IdOf(i)] = sound[IdOf(i)]
      BY <1>2, <1>4, <2>2
    <3> QED BY <1>1, <3>1, KeepsUnchanged
  <2>3. Signed'
    <3>1. ASSUME NEW i \in Slots(Build), signed, sound'[IdOf(i)] PROVE Keeps(i)'
      <4>1. CASE i = idx
        BY <2>1, <4>1
      <4>2. CASE i # idx
        BY <1>1, <2>2, <3>1, <4>2 DEF SaveInv, Signed
      <4> QED BY <4>1, <4>2
    <3>2. signed => validate_storage_capacity(Build) /\ HeaderIs'
      BY <1>3 DEF SaveInv, Signed
    <3> QED BY <1>1, <3>1, <3>2 DEF Signed, IdOf
  <2>4. \/ pc' \in {"up", "noNvm"}
        \/ /\ op \notin {"save", "nsave"} /\ idx' = idx + 1
           /\ pc' = IF idx = compile_count(Build) THEN "writeHeader" ELSE "take"
    BY DEF SyncRecord, Return
  <2>5. CASE pc' \in {"up", "noNvm"}
    BY <2>3, <2>5 DEF SaveInv, Rewritten, InRecord, Writing, Recording
  <2>6. CASE /\ op \notin {"save", "nsave"} /\ idx' = idx + 1
             /\ pc' = IF idx = compile_count(Build) THEN "writeHeader" ELSE "take"
    <3>1. ~signed /\ \A j \in Slots(Build) : j < idx => Keeps(j)
      BY <1>1, <1>2, <2>6 DEF SaveInv, Rewritten, Writing, Recording
    <3>2. ASSUME NEW j \in Slots(Build), j < idx + 1 PROVE Keeps(j)'
      <4>1. j \in Nat
        BY <1>2 DEF Slots
      <4>2. CASE j = idx
        BY <2>1, <4>2
      <4>3. CASE j # idx
        <5>1. j < idx
          BY <1>2, <3>2, <4>1, <4>3
        <5> QED BY <2>2, <3>1, <4>3, <5>1
      <4> QED BY <4>2, <4>3
    <3>3. idx = compile_count(Build) => \A j \in Slots(Build) : j < idx + 1
      BY <1>2 DEF Slots
    <3>4. Rewritten'
      BY <1>1, <2>6, <3>1, <3>2, <3>3 DEF Rewritten, Writing, Recording
    <3> QED BY <2>3, <2>6, <3>4 DEF SaveInv, InRecord
  <2> QED BY <2>4, <2>5, <2>6
<1>5. CASE Return("ERROR_NVM") /\ ObjectUnsound /\ UNCHANGED <<saved, idx>>
  <2>1. pc' \in {"up", "noNvm"}
    BY <1>5 DEF Return
  <2>2. ASSUME NEW i \in Slots(Build), signed, sound'[IdOf(i)] PROVE Keeps(i)'
    <3>1. sound[IdOf(i)] /\ i # idx
      BY <1>5, <2>2, UnsoundFacts
    <3>2. Keeps(i)
      BY <2>2, <3>1 DEF SaveInv, Signed
    <3> QED BY <1>1, <1>5, <3>2, KeepsUnchanged
  <2> QED BY <1>1, <1>3, <2>1, <2>2
          DEF SaveInv, Signed, Rewritten, InRecord, Writing, Recording, IdOf
<1> QED BY <1>4, <1>5 DEF SyncRecord

LEMMA StepSaveCalls ==
  ASSUME Base, SaveInv, SetObject \/ par_nvm_object_write \/ par_nvm_object_write_locked
  PROVE  SaveInv'
<1>1. /\ Build' = Build /\ UNCHANGED <<cells, saved, sound, signed>>
      /\ pc \notin {"writeMeta", "syncRecord"}
  BY DEF SetObject, par_nvm_object_write, par_nvm_object_write_locked, Idle, Build,
     Base, Control, Recording
<1>2. \/ pc' = pc /\ op' = op /\ idx' = idx
      \/ pc' \in {"take", "writePayload"} /\ op' \in {"save", "nsave"}
  BY DEF SetObject, par_nvm_object_write, par_nvm_object_write_locked
<1>3. /\ \A i : Keeps(i) => Keeps(i)'
      /\ HeaderIs => HeaderIs'
  BY <1>1, KeepsUnchanged DEF HeaderIs
<1>4. CASE pc' = pc /\ op' = op /\ idx' = idx
  BY <1>1, <1>3, <1>4 DEF SaveInv, Signed, Rewritten, InRecord, IdOf
<1>5. CASE pc' \in {"take", "writePayload"} /\ op' \in {"save", "nsave"}
  BY <1>1, <1>3, <1>5 DEF SaveInv, Signed, Rewritten, InRecord, IdOf
<1> QED BY <1>2, <1>4, <1>5

LEMMA StepSave == Base /\ SaveInv /\ [Next]_vars => SaveInv'
<1>1. ASSUME Base, SaveInv, Next PROVE SaveInv'
  BY <1>1, StepSaveQuiet, StepSaveBoot, StepSaveHeader, StepSaveSync, StepSaveCut,
     StepSaveTake, StepSaveRecord, StepSaveDone, StepSaveCalls DEF Next
<1>2. SaveInv /\ UNCHANGED vars => SaveInv'
  BY DEF SaveInv, Signed, Rewritten, InRecord, Keeps, RecordIs, HeaderIs, IdOf, Build,
     vars, counters, obs
<1> QED BY <1>1, <1>2

\* What the next boot makes of a block whose records are the saved ones.
LEMMA AppendedRestores ==
  ASSUME Base, validate_storage_capacity(Build), HeaderIs,
         \A i \in Slots(Build) : Keeps(i),
         NEW b \in Builds, Appends(b)
  PROVE  /\ Restorable(cells, b) # <<>>
         /\ \A i \in Slots(Build) : Restorable(cells, b)[i] = saved[IdOf(i)]
<1> DEFINE n == compile_count(Build)
           h == new_head(Build)
<1>1. /\ Build \in Builds /\ n \in Nat \ {0} /\ compile_count(b) \in Nat \ {0}
      /\ n =< compile_count(b)
      /\ \A i \in Slots(Build) : b.rows[i] = Build.rows[i]
      /\ get_block_addr(b) = get_block_addr(Build) /\ validate_storage_capacity(b)
      /\ DOMAIN Build.rows = Slots(Build)
  BY BuildIsOne, BuildFacts DEF Base, Control, Appends
<1>2. \A i \in 0 .. n : body_size_for_count(b, i) = body_size_for_count(Build, i)
  <2> SUFFICES ASSUME NEW i \in 0 .. n
               PROVE  body_size_for_count(b, i) = body_size_for_count(Build, i)
    OBVIOUS
  <2>1. i \in 0 .. compile_count(Build) /\ i =< compile_count(b)
    BY <1>1
  <2>2. \A k \in 1 .. i : Build.rows[k] = b.rows[k]
    BY <1>1 DEF Slots
  <2> QED BY <1>1, <2>1, <2>2, BodiesAgree
<1>3. \A i \in Slots(Build) : record_addr(b, i) = record_addr(Build, i)
  BY <1>1, <1>2 DEF record_addr, Slots
<1>4. table_id_for_count(b, n) = table_id_for_count(Build, n)
  BY <1>1 DEF table_id_for_count, Slots
<1>5. /\ cells[get_block_addr(b)] = Sign /\ cells[get_block_addr(b) + 1] = h
      /\ IsHead(h) /\ h.crc = head_crc(h) /\ h.obj_nb = n
      /\ h.body_size = body_size_for_count(b, n) /\ h.table_id = table_id_for_count(b, n)
  BY <1>1, <1>2, <1>4, HeadFacts DEF HeaderIs, Headed
<1>6. validate_header(cells, b) = "OK"
  <2>1. ~(h.obj_nb > compile_count(b))
    BY <1>1, <1>5
  <2> HIDE DEF h, n
  <2> QED BY <1>5, <2>1 DEF validate_header
<1>7. ASSUME NEW i \in Slots(Build)
      PROVE  /\ check_record(cells, b, i) = "OK"
             /\ record_payload(cells, b, i) = saved[IdOf(i)]
  <2> DEFINE v == saved[IdOf(i)]
             m == new_meta(Build, i, v)
  <2>1. Allowed(Build, i, v) /\ RecordIs(i, v)
    BY <1>7 DEF Keeps
  <2>2. /\ IsMeta(m) /\ Describes(Build, i, v, m) /\ m = cells[record_addr(b, i)]
    BY <1>1, <1>3, <2>1, MetaFacts DEF RecordIs
  <2>3. Len(v) \in Nat /\ v \in Seq(Bytes) /\ object_len_is_valid(b.rows[i], Len(v))
        /\ record_addr(Build, i) \in Nat
    BY <1>1, <2>1, PayloadLength, AddressFacts DEF Allowed, Payload
  <2>4. Stored(cells, record_addr(b, i) + RecordHeadSize, m.len) = v
    <3>1. m.len = Len(v)
      BY <2>2 DEF Describes
    <3>2. \A k \in 1 .. Len(v) : cells[record_addr(b, i) + RecordHeadSize + k - 1] = v[k]
      <4>1. \A k \in 1 .. Len(v) : record_addr(b, i) + RecordHeadSize + k - 1
                                    = record_addr(Build, i) + k
        BY <1>3, <2>3 DEF RecordHeadSize
      <4> QED BY <2>1, <4>1 DEF RecordIs
    <3>3. v = [k \in 1 .. Len(v) |-> v[k]]
      BY <2>3
    <3> HIDE DEF v, m
    <3> QED BY <3>1, <3>2, <3>3 DEF Stored
  <2>5. validate_record_meta(b, i, m) = "OK"
    BY <1>1, <2>2, <2>3 DEF validate_record_meta, Describes
  <2>6. m.crc = record_crc(m, v)
    BY <2>2 DEF Describes
  <2> HIDE DEF v, m
  <2>7. check_record(cells, b, i) = "OK" /\ record_payload(cells, b, i) = v
    BY <2>2, <2>4, <2>5, <2>6 DEF check_record, record_payload
  <2> QED BY <2>7 DEF v
<1>8. Restorable(cells, b) = [i \in 1 .. compile_count(b) |->
                                IF i =< n THEN record_payload(cells, b, i) ELSE b.rows[i].def]
  <2>1. ~(\E i \in 1 .. n : check_record(cells, b, i) # "OK")
    BY <1>7 DEF Slots
  <2> HIDE DEF n, h
  <2> QED BY <1>1, <1>5, <1>6, <2>1 DEF Restorable
<1>9. Restorable(cells, b) # <<>>
  <2>1. 1 \in DOMAIN Restorable(cells, b)
    BY <1>1, <1>8
  <2> QED BY <2>1
<1> QED BY <1>1, <1>7, <1>8, <1>9 DEF Slots

\* What a save answered ok for is restored by the next boot, also by a firmware
\* that appends objects, while the block is signed and no save of it has failed:
\* the payload is written and checked under the mutex, other records and the
\* header are left alone.
THEOREM SavedObjectsAreKept == Spec => []SavedObjectsSurvive
<1>1. Init => SaveInv
  BY DEF Init, SaveInv, Signed, Rewritten, InRecord, Writing, Recording
<1>2. Base /\ SaveInv => SavedObjectsSurvive
  <2> SUFFICES ASSUME Base, SaveInv, pc = "up", signed,
                      \A i \in DOMAIN live : sound[IdOf(i)],
                      NEW b \in Builds, Appends(b), NEW i \in DOMAIN live
               PROVE  /\ Restorable(cells, b) # <<>>
                      /\ Restorable(cells, b)[i] = saved[IdOf(i)]
    BY DEF SavedObjectsSurvive
  <2>1. DOMAIN live = Slots(Build)
    BY DEF Base, Control
  <2>2. /\ validate_storage_capacity(Build) /\ HeaderIs
        /\ \A j \in Slots(Build) : Keeps(j)
    BY <2>1 DEF SaveInv, Signed
  <2> QED BY <2>1, <2>2, AppendedRestores
<1> QED BY <1>1, <1>2, StepSave, AlwaysBase, PTL DEF Spec

=============================================================================

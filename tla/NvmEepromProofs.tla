-------------------------- MODULE NvmEepromProofs ---------------------------
(***************************************************************************)
(* Proofs about NvmEeprom: whatever the tables, layouts, pages and faults, *)
(*   - records overlap neither each other nor the header;                  *)
(*   - the loops of the AT24CXX backend stay in the window they were       *)
(*     checked against, so that no byte of another owner is written;       *)
(*   - the bytes are a RecordStore.  A checksum stands for the bytes it is *)
(*     computed from, so each record speaks for one value; the invariant   *)
(*     says which values the bytes may come together to, whatever requests *)
(*     have been cut in the middle of them.                                *)
(***************************************************************************)
EXTENDS NvmEeprom, SumProofs

-----------------------------------------------------------------------------
(* Sequences.  The cells of a record are tuples of different kinds, so     *)
(* what is said of a sequence is that it is one, over its own elements.    *)

IsSeq(s) == \E S : s \in Seq(S)

LEMMA ConcatIsSeq ==
  ASSUME NEW s, NEW t, IsSeq(s), IsSeq(t)
  PROVE  IsSeq(s \o t)
<1>1. PICK S : s \in Seq(S)
  BY DEF IsSeq
<1>2. PICK T : t \in Seq(T)
  BY DEF IsSeq
<1>3. s \in Seq(S \cup T) /\ t \in Seq(S \cup T)
  BY <1>1, <1>2
<1>4. s \o t \in Seq(S \cup T)
  BY <1>3
<1>. QED
  BY <1>4 DEF IsSeq

LEMMA SubSeqIsSeq ==
  ASSUME NEW s, IsSeq(s), NEW m \in Nat, NEW n \in Nat, m >= 1, n =< Len(s)
  PROVE  /\ IsSeq(SubSeq(s, m, n))
         /\ Len(SubSeq(s, m, n)) = IF m =< n THEN n - m + 1 ELSE 0
<1>1. PICK S : s \in Seq(S)
  BY DEF IsSeq
<1>. QED
  BY <1>1 DEF IsSeq

LEMMA LengthIsNatural ==
  ASSUME NEW s, IsSeq(s)
  PROVE  Len(s) \in Nat /\ (s # <<>> <=> Len(s) > 0)
<1>1. PICK S : s \in Seq(S)
  BY DEF IsSeq
<1>. QED
  BY <1>1

LEMMA FunctionIsSeq ==
  ASSUME NEW n \in Nat, NEW f, f = [k \in 1 .. n |-> f[k]]
  PROVE  IsSeq(f) /\ Len(f) = n
<1>1. f \in [1 .. n -> {f[k] : k \in 1 .. n}]
  OBVIOUS
<1>2. f \in Seq({f[k] : k \in 1 .. n})
  BY <1>1
<1>3. IsSeq(f)
  BY <1>2 DEF IsSeq
<1>4. DOMAIN f = 1 .. n /\ DOMAIN f = 1 .. Len(f) /\ Len(f) \in Nat
  BY <1>1, <1>2
<1>. QED
  BY <1>3, <1>4

-----------------------------------------------------------------------------
(* What the backend is asked to write is a sequence of bytes.              *)

LEMMA ValuesAreSeqs ==
  ASSUME NEW t \in Tables, NEW i \in DOMAIN t, NEW l \in Layouts,
         NEW d \in Values(l, t[i])
  PROVE  IsSeq(d) /\ Len(d) = SlotSize
<1>1. t[i].type \in Types
  BY DEF Types
<1>2. PICK e \in Images : d = unpack_payload(t[i].type, e)
  BY <1>1 DEF Values, Carriers
<1>3. d = [k \in 1 .. SlotSize |-> d[k]]
  BY <1>2 DEF unpack_payload
<1>. QED
  BY <1>3, FunctionIsSeq DEF SlotSize

LEMMA Small == \A type : payload_size(type) \in 1 .. SlotSize
  BY DEF payload_size, SlotSize

LEMMA PackedIsSeq ==
  ASSUME NEW type, NEW d, IsSeq(d), Len(d) = SlotSize
  PROVE  IsSeq(pack_payload(type, d))
<1>1. payload_size(type) \in Nat /\ payload_size(type) =< Len(d)
  BY Small DEF SlotSize
<1>. QED
  BY <1>1, SubSeqIsSeq DEF pack_payload

LEMMA SingleIsSeq == \A x : IsSeq(<<x>>)
<1>1. SUFFICES ASSUME NEW x PROVE IsSeq(<<x>>)
  OBVIOUS
<1>2. <<x>> \in Seq({x})
  OBVIOUS
<1>. QED
  BY <1>2 DEF IsSeq

LEMMA WordIsSeq == \A n : IsSeq(le16(n))
<1>1. SUFFICES ASSUME NEW n PROVE IsSeq(le16(n))
  OBVIOUS
<1>2. \A x, y : <<x, y>> \in Seq({x, y})
  OBVIOUS
<1>. QED
  BY <1>2 DEF IsSeq, le16

LEMMA SizedIsSeq ==
  ASSUME NEW id, NEW size, NEW payload, IsSeq(payload)
  PROVE  IsSeq(sized_record(id, size, payload))
  BY WordIsSeq, SingleIsSeq, ConcatIsSeq DEF sized_record

LEMMA RecordsAreSeqs ==
  ASSUME NEW l \in Layouts, NEW slot, NEW d, IsSeq(d), Len(d) = SlotSize
  PROVE  IsSeq(write_record(l, slot, d))
<1>1. IsSeq(fixed_slot_with_size_write(slot, d))
  BY SizedIsSeq DEF fixed_slot_with_size_write
<1>2. IsSeq(compact_payload_write(slot, d))
  BY SizedIsSeq, PackedIsSeq DEF compact_payload_write
<1>3. IsSeq(fixed_slot_no_size_write(slot, d))
  BY WordIsSeq, SingleIsSeq, ConcatIsSeq DEF fixed_slot_no_size_write
<1>4. IsSeq(payload_record(slot, d))
  BY PackedIsSeq, SingleIsSeq, ConcatIsSeq DEF payload_record
<1>. QED
  BY <1>1, <1>2, <1>3, <1>4
     DEF Layouts, write_record, fixed_payload_only_write, grouped_payload_only_write

LEMMA HeaderIsSeq ==
  ASSUME NEW l \in Layouts, NEW t \in Tables
  PROVE  IsSeq(HeadImage[l][t])
<1>. DEFINE digest(n, mark) == [k \in 1 .. n |-> <<mark, k, Described(l, t)>>]
<1>1. \A mark : \A n \in Nat : IsSeq(digest(n, mark))
  <2>1. SUFFICES ASSUME NEW n \in Nat, NEW mark PROVE IsSeq(digest(n, mark))
    OBVIOUS
  <2>2. digest(n, mark) = [k \in 1 .. n |-> digest(n, mark)[k]]
    OBVIOUS
  <2>. QED
    BY <2>2, FunctionIsSeq
<1>2. IsSeq(Sign)
  <2>1. \A a, b, c, e : <<a, b, c, e>> \in Seq({a, b, c, e})
    OBVIOUS
  <2>. QED
    BY <2>1 DEF Sign, IsSeq
<1>3. HeadImage[l][t] = HeadCells(l, t)
  BY DEF HeadImage
<1>4. HeadCells(l, t) = Sign \o le16(Len(t)) \o digest(4, -2) \o digest(2, -3)
  BY DEF HeadCells
<1>. HIDE DEF digest
<1>. QED
  BY <1>1, <1>2, <1>3, <1>4, WordIsSeq, ConcatIsSeq

-----------------------------------------------------------------------------
(* Where the records are.                                                  *)

Slots(t) == 1 .. Len(t)

LEMMA SeqFacts ==
  ASSUME NEW S, NEW s \in Seq(S)
  PROVE  Len(s) \in Nat /\ DOMAIN s = 1 .. Len(s) /\ \A i \in 1 .. Len(s) : s[i] \in S
  OBVIOUS

LEMMA TableFacts ==
  ASSUME NEW t \in Tables
  PROVE  /\ Len(t) \in Nat /\ DOMAIN t = Slots(t)
         /\ \A i \in Slots(t) : t[i] \in [id : Nat, type : Types]
<1>. DEFINE Rows == [id : Nat, type : Types]
<1>1. t \in Seq(Rows)
  BY TablesAssumption
<1>. HIDE DEF Rows
<1>2. Len(t) \in Nat /\ DOMAIN t = 1 .. Len(t) /\ \A i \in 1 .. Len(t) : t[i] \in Rows
  BY <1>1, SeqFacts
<1>. QED
  BY <1>2 DEF Slots, Rows

\* offsetof in a structure of n members is the sum of the sizes before.
LEMMA OffsetIsSum ==
  ASSUME NEW x, NEW n \in Nat, Terms(x, n), NEW s, Sums(s, x, n), NEW i \in 1 .. n + 1
  PROVE  packed_offset(x, i) = s[i - 1]
<1>. DEFINE F(h) == [k \in 1 .. i |-> IF k = 1 THEN 0 ELSE h[k - 1] + x[k - 1]]
            g == CHOOSE h : h = F(h)
            r == [k \in 1 .. i |-> s[k - 1]]
            q == [k \in 0 .. i - 1 |-> g[k + 1]]
<1>1. r = F(r)
  <2>1. ASSUME NEW k \in 1 .. i PROVE r[k] = F(r)[k]
    <3>1. CASE k = 1
      BY <3>1 DEF Sums
    <3>2. CASE k # 1
      <4>1. k - 1 \in 1 .. n /\ k - 1 \in 1 .. i
        BY <3>2
      <4>2. s[k - 1] = s[(k - 1) - 1] + x[k - 1]
        BY <4>1 DEF Sums
      <4>3. r[k - 1] = s[(k - 1) - 1] /\ r[k] = s[k - 1]
        BY <4>1
      <4>. QED
        BY <3>2, <4>2, <4>3
    <3>. QED
      BY <3>1, <3>2
  <2>. QED
    BY <2>1
<1>2. g = F(g)
  BY <1>1
<1>3. packed_offset(x, i) = g[i]
  BY DEF packed_offset
<1>. HIDE DEF g
<1>4. i - 1 \in Nat /\ Terms(x, i - 1) /\ i - 1 =< n
  BY DEF Terms
<1>5. q[0] = 0 /\ q = [k \in 0 .. i - 1 |-> q[k]]
  <2>1. g[1] = 0
    BY <1>2
  <2>. QED
    BY <2>1
<1>6. ASSUME NEW k \in 1 .. i - 1 PROVE q[k] = q[k - 1] + x[k]
  <2>1. /\ k + 1 \in 1 .. i /\ k + 1 # 1 /\ (k + 1) - 1 = k
        /\ k \in 0 .. i - 1 /\ k - 1 \in 0 .. i - 1 /\ (k - 1) + 1 = k
    OBVIOUS
  <2>2. g[k + 1] = g[k] + x[k]
    BY <1>2, <2>1
  <2>3. q[k] = g[k + 1] /\ q[k - 1] = g[k]
    BY <2>1
  <2>. QED
    BY <2>2, <2>3
<1>7. Sums(q, x, i - 1)
  BY <1>4, <1>5, <1>6, SumsAre
<1>8. q[i - 1] = s[i - 1]
  BY <1>4, <1>7, SumsAgree
<1>9. q[i - 1] = g[i]
  OBVIOUS
<1>. QED
  BY <1>3, <1>8, <1>9

\* Records packed one behind the other.
\* Offsets behind the same sizes are the same.
LEMMA OffsetsAgree ==
  ASSUME NEW x, NEW y, NEW n \in Nat, Terms(x, n), Terms(y, n),
         \A k \in 1 .. n : y[k] = x[k], NEW i \in 1 .. n
  PROVE  packed_offset(x, i) = packed_offset(y, i)
<1>1. PICK s : Sums(s, x, n)
  BY SumsExist
<1>2. PICK r : Sums(r, y, n)
  BY SumsExist
<1>3. i \in 1 .. n + 1 /\ i - 1 \in 0 .. n
  OBVIOUS
<1>4. s[i - 1] = r[i - 1]
  BY <1>1, <1>2, <1>3, SumsAgree
<1>. QED
  BY <1>1, <1>2, <1>3, <1>4, OffsetIsSum

LEMMA PackedApart ==
  ASSUME NEW x, NEW n \in Nat, Terms(x, n)
  PROVE  /\ \A i \in 1 .. n : packed_offset(x, i) \in Nat
         /\ \A i, j \in 1 .. n : i < j => packed_offset(x, i) + x[i] =< packed_offset(x, j)
<1>1. PICK s : Sums(s, x, n)
  BY SumsExist
<1>2. \A i \in 1 .. n : packed_offset(x, i) = s[i - 1] /\ i - 1 \in 0 .. n
  BY <1>1, OffsetIsSum
<1>3. \A i \in 1 .. n : packed_offset(x, i) \in Nat
  BY <1>1, <1>2 DEF Sums
<1>4. ASSUME NEW i \in 1 .. n, NEW j \in 1 .. n, i < j
      PROVE  packed_offset(x, i) + x[i] =< packed_offset(x, j)
  <2>1. j - 1 \in i .. n
    BY <1>4
  <2>2. s[i - 1] + x[i] =< s[j - 1]
    BY <1>1, <2>1, SumsGrow
  <2>. QED
    BY <1>2, <2>2
<1>. QED
  BY <1>3, <1>4

\* The size of slot k in the grouped layout, if it comes before slot i.
Before(t, i, k) ==
  LET width(j) == payload_size(t[j].type)
  IN  width(k) < width(i) \/ (width(k) = width(i) /\ k < i)
GroupSizes(t, i) ==
  [k \in DOMAIN t |-> IF Before(t, i, k) THEN payload_record_size(t[k].type) ELSE 0]

LEMMA GroupedAddr ==
  ASSUME NEW t \in Tables, NEW i \in Slots(t), NEW s, NEW first,
         Sums(s, GroupSizes(t, i), Len(t))
  PROVE  /\ Terms(GroupSizes(t, i), Len(t))
         /\ grouped_payload_only_addr(first, t, i) = first + s[Len(t)]
<1>1. Len(t) \in Nat /\ DOMAIN t = Slots(t)
  BY TableFacts
<1>2. Terms(GroupSizes(t, i), Len(t))
  BY <1>1, Small DEF Terms, GroupSizes, payload_record_size, SlotSize, Slots
<1>3. Len(t) + 1 \in 1 .. Len(t) + 1 /\ (Len(t) + 1) - 1 = Len(t)
  BY <1>1
<1>4. packed_offset(GroupSizes(t, i), Len(t) + 1) = s[Len(t)]
  BY <1>1, <1>2, <1>3, OffsetIsSum
<1>5. grouped_payload_only_addr(first, t, i)
        = first + packed_offset(GroupSizes(t, i), Len(t) + 1)
  BY DEF grouped_payload_only_addr, GroupSizes, Before
<1>. QED
  BY <1>2, <1>4, <1>5

\* Of two grouped slots the one that comes before ends before the other begins.
LEMMA GroupedApart ==
  ASSUME NEW t \in Tables, NEW i \in Slots(t), NEW j \in Slots(t), NEW first \in Nat,
         Before(t, j, i)
  PROVE  /\ grouped_payload_only_addr(first, t, i) \in Nat
         /\ grouped_payload_only_addr(first, t, i) >= first
         /\ grouped_payload_only_addr(first, t, i) + payload_record_size(t[i].type)
              =< grouped_payload_only_addr(first, t, j)
<1>. DEFINE x == GroupSizes(t, i)
            y == GroupSizes(t, j)
            n == Len(t)
            c == payload_record_size(t[i].type)
<1>1. n \in Nat /\ DOMAIN t = 1 .. n /\ i \in 1 .. n /\ j \in 1 .. n
  BY TableFacts DEF Slots
<1>2. \A k \in 1 .. n : payload_size(t[k].type) \in Nat
  BY Small DEF SlotSize
<1>3. \A k \in 1 .. n : payload_record_size(t[k].type) \in Nat
  BY <1>2 DEF payload_record_size
<1>4. Terms(x, n) /\ Terms(y, n)
  BY <1>1, <1>3 DEF Terms, GroupSizes
<1>5. ASSUME NEW k \in 1 .. n PROVE x[k] =< y[k]
  <2>1. Before(t, i, k) => Before(t, j, k)
    BY <1>1, <1>2 DEF Before
  <2>. QED
    BY <1>1, <1>3, <2>1 DEF GroupSizes
<1>6. x[i] + c =< y[i]
  <2>1. ~Before(t, i, i)
    BY <1>1, <1>2 DEF Before
  <2>2. x[i] = 0 /\ y[i] = c
    BY <1>1, <2>1 DEF GroupSizes
  <2>. QED
    BY <1>1, <1>3, <2>2
<1>7. PICK s : Sums(s, x, n)
  BY <1>1, <1>4, SumsExist
<1>8. PICK r : Sums(r, y, n)
  BY <1>1, <1>4, SumsExist
<1>9. c \in Nat
  BY <1>1, <1>3
<1>. HIDE DEF x, y, c
<1>10. s[n] + c =< r[n]
  BY <1>1, <1>4, <1>5, <1>6, <1>7, <1>8, <1>9, SumsRoom
<1>11. /\ grouped_payload_only_addr(first, t, i) = first + s[n]
       /\ grouped_payload_only_addr(first, t, j) = first + r[n]
  BY <1>7, <1>8, GroupedAddr DEF x, y
<1>12. s[n] \in Nat /\ r[n] \in Nat
  BY <1>1, <1>7, <1>8 DEF Sums
<1>. QED
  BY <1>9, <1>10, <1>11, <1>12 DEF c

\* The sizes of the records of a table.
RecordSizes(l, t) == [k \in DOMAIN t |-> record_size(l, t[k].type)]

LEMMA RecordSizesAreTerms ==
  ASSUME NEW l \in Layouts, NEW t \in Tables
  PROVE  /\ Terms(RecordSizes(l, t), Len(t))
         /\ \A k \in Slots(t) : record_size(l, t[k].type) \in Nat \ {0}
<1>1. Len(t) \in Nat /\ DOMAIN t = Slots(t)
  BY TableFacts
<1>2. \A k \in Slots(t) : payload_size(t[k].type) \in Nat
  BY Small DEF SlotSize
<1>3. \A k \in Slots(t) : record_size(l, t[k].type) \in Nat \ {0}
  BY <1>2 DEF Layouts, record_size, fixed_slot_with_size_record_size,
     fixed_slot_no_size_record_size, compact_payload_record_size,
     fixed_payload_only_record_size, grouped_payload_only_record_size, payload_record_size
<1>. QED
  BY <1>1, <1>3 DEF Terms, RecordSizes, Slots

Packed == {"COMPACT_PAYLOAD", "FIXED_PAYLOAD_ONLY"}

LEMMA PackedAddr ==
  ASSUME NEW l \in Packed, NEW t \in Tables, NEW i \in Slots(t), NEW first
  PROVE  addr_from_persist_idx(l, first, t, i) = first + packed_offset(RecordSizes(l, t), i)
<1>1. CASE l = "COMPACT_PAYLOAD"
  <2>1. RecordSizes(l, t) = [k \in DOMAIN t |-> compact_payload_record_size(t[k].type)]
    BY <1>1 DEF RecordSizes, record_size
  <2>. QED
    BY <1>1, <2>1 DEF addr_from_persist_idx, compact_payload_addr
<1>2. CASE l = "FIXED_PAYLOAD_ONLY"
  <2>1. RecordSizes(l, t) = [k \in DOMAIN t |-> payload_record_size(t[k].type)]
    BY <1>2 DEF RecordSizes, record_size, fixed_payload_only_record_size
  <2>. QED
    BY <1>2, <2>1 DEF addr_from_persist_idx, fixed_payload_only_addr
<1>. QED
  BY <1>1, <1>2 DEF Packed

\* What par_nvm_layout_addr_from_persist_idx promises: a record starts behind
\* the header and shares no byte with another one, in every layout and for
\* every table.
RecordsAreApart(l, t) ==
  \A i \in DOMAIN t :
    /\ Addresses[l][t][i] \in Nat /\ HeadSize =< Addresses[l][t][i]
    /\ \A j \in DOMAIN t \ {i} :
         \/ Addresses[l][t][i] + record_size(l, t[i].type) =< Addresses[l][t][j]
         \/ Addresses[l][t][j] + record_size(l, t[j].type) =< Addresses[l][t][i]

\* The records of a table do not overlap, nor the header: the address
\* computations of par_nvm_layout_*.c.
THEOREM RecordsApart == \A l \in Layouts, t \in Tables : RecordsAreApart(l, t)
<1>1. SUFFICES ASSUME NEW l \in Layouts, NEW t \in Tables, NEW i \in Slots(t)
      PROVE  /\ addr_from_persist_idx(l, HeadSize, t, i) \in Nat
             /\ HeadSize =< addr_from_persist_idx(l, HeadSize, t, i)
             /\ \A j \in Slots(t) \ {i} :
                  \/ addr_from_persist_idx(l, HeadSize, t, i) + record_size(l, t[i].type)
                       =< addr_from_persist_idx(l, HeadSize, t, j)
                  \/ addr_from_persist_idx(l, HeadSize, t, j) + record_size(l, t[j].type)
                       =< addr_from_persist_idx(l, HeadSize, t, i)
  <2>1. \A l \in Layouts, t \in Tables : DOMAIN t = Slots(t)
    BY TableFacts
  <2>. QED
    BY <2>1 DEF RecordsAreApart, Addresses
<1>2. Len(t) \in Nat /\ DOMAIN t = Slots(t)
  BY TableFacts
<1>3. CASE l = "FIXED_SLOT_WITH_SIZE"
  <2>1. \A j \in Slots(t) : /\ addr_from_persist_idx(l, HeadSize, t, j) = 12 + (j - 1) * 8
                            /\ record_size(l, t[j].type) = 8
    BY <1>3 DEF addr_from_persist_idx, record_size, fixed_slot_with_size_addr,
       fixed_slot_with_size_record_size, HeadSize
  <2>. QED
    BY <1>2, <2>1 DEF HeadSize, Slots
<1>4. CASE l = "FIXED_SLOT_NO_SIZE"
  <2>1. \A j \in Slots(t) : /\ addr_from_persist_idx(l, HeadSize, t, j) = 12 + (j - 1) * 7
                            /\ record_size(l, t[j].type) = 7
    BY <1>4 DEF addr_from_persist_idx, record_size, fixed_slot_no_size_addr,
       fixed_slot_no_size_record_size, HeadSize
  <2>. QED
    BY <1>2, <2>1 DEF HeadSize, Slots
<1>5. CASE l \in Packed
  <2>1. \A j \in Slots(t) :
          /\ addr_from_persist_idx(l, HeadSize, t, j)
               = 12 + packed_offset(RecordSizes(l, t), j)
          /\ RecordSizes(l, t)[j] = record_size(l, t[j].type)
    BY <1>2, <1>5, PackedAddr DEF HeadSize, RecordSizes
  <2>2. /\ \A j \in Slots(t) : packed_offset(RecordSizes(l, t), j) \in Nat
        /\ \A k, j \in Slots(t) :
             k < j => packed_offset(RecordSizes(l, t), k) + RecordSizes(l, t)[k]
                        =< packed_offset(RecordSizes(l, t), j)
    BY <1>2, RecordSizesAreTerms, PackedApart DEF Slots
  <2>3. \A j \in Slots(t) : record_size(l, t[j].type) \in Nat
    BY RecordSizesAreTerms
  <2>4. \A j \in Slots(t) \ {i} : i < j \/ j < i
    BY <1>2 DEF Slots
  <2>. QED
    BY <2>1, <2>2, <2>3, <2>4 DEF HeadSize
<1>6. CASE l = "GROUPED_PAYLOAD_ONLY"
  <2>1. \A j \in Slots(t) :
          /\ addr_from_persist_idx(l, HeadSize, t, j)
               = grouped_payload_only_addr(HeadSize, t, j)
          /\ record_size(l, t[j].type) = payload_record_size(t[j].type)
    BY <1>6 DEF addr_from_persist_idx, record_size, grouped_payload_only_record_size
  <2>2. HeadSize \in Nat
    BY DEF HeadSize
  <2>3. ASSUME NEW j \in Slots(t) \ {i} PROVE Before(t, i, j) \/ Before(t, j, i)
    <3>1. payload_size(t[i].type) \in Nat /\ payload_size(t[j].type) \in Nat
      BY Small DEF SlotSize
    <3>. QED
      BY <1>2, <3>1 DEF Before, Slots
  <2>4. /\ grouped_payload_only_addr(HeadSize, t, i) \in Nat
        /\ grouped_payload_only_addr(HeadSize, t, i) >= HeadSize
    <3>1. /\ Terms(GroupSizes(t, i), Len(t))
      BY <1>2, Small DEF Terms, GroupSizes, payload_record_size, SlotSize, Slots
    <3>2. PICK s : Sums(s, GroupSizes(t, i), Len(t))
      BY <1>2, <3>1, SumsExist
    <3>3. grouped_payload_only_addr(HeadSize, t, i) = HeadSize + s[Len(t)]
      BY <3>2, GroupedAddr
    <3>4. s[Len(t)] \in Nat
      BY <1>2, <3>2 DEF Sums
    <3>. QED
      BY <3>3, <3>4 DEF HeadSize
  <2>5. \A j \in Slots(t) \ {i} :
          \/ grouped_payload_only_addr(HeadSize, t, i) + payload_record_size(t[i].type)
               =< grouped_payload_only_addr(HeadSize, t, j)
          \/ grouped_payload_only_addr(HeadSize, t, j) + payload_record_size(t[j].type)
               =< grouped_payload_only_addr(HeadSize, t, i)
    BY <2>2, <2>3, GroupedApart
  <2>. QED
    BY <2>1, <2>4, <2>5
<1>. QED
  BY <1>3, <1>4, <1>5, <1>6 DEF Layouts, Packed

\* Firmwares that have the first slots in common find their records at the
\* same addresses, in the grouped layout if they have all slots in common:
\* what par_nvm_check_compat relies on when it answers PREFIX_APPEND.
THEOREM AppendsKeepAddresses ==
  ASSUME NEW l \in Layouts, NEW t \in Tables, NEW u \in Tables, NEW n \in Nat,
         n =< Len(t), n =< Len(u), appends_tail(l) \/ (n = Len(t) /\ n = Len(u)),
         \A k \in 1 .. n : t[k].type = u[k].type
  PROVE  \A i \in 1 .. n : Addresses[l][t][i] = Addresses[l][u][i]
<1>1. DOMAIN t = 1 .. Len(t) /\ DOMAIN u = 1 .. Len(u) /\ Len(t) \in Nat /\ Len(u) \in Nat
  BY TableFacts DEF Slots
<1>2. \A k \in 1 .. n : k \in DOMAIN t /\ k \in DOMAIN u
  <2>1. \A a, b \in Nat : n =< a /\ n =< b => \A k \in 1 .. n : k \in 1 .. a /\ k \in 1 .. b
    OBVIOUS
  <2>. QED
    BY <1>1, <2>1
<1>. SUFFICES ASSUME NEW i \in 1 .. n
      PROVE  addr_from_persist_idx(l, HeadSize, t, i) = addr_from_persist_idx(l, HeadSize, u, i)
  BY <1>2 DEF Addresses
<1>3. CASE l = "FIXED_SLOT_WITH_SIZE"
  BY <1>3 DEF addr_from_persist_idx, fixed_slot_with_size_addr
<1>4. CASE l = "FIXED_SLOT_NO_SIZE"
  BY <1>4 DEF addr_from_persist_idx, fixed_slot_no_size_addr
<1>5. CASE l \in Packed
  <2>. DEFINE x == RecordSizes(l, t)
              y == RecordSizes(l, u)
  <2>1. \A k \in 1 .. n : x[k] = record_size(l, t[k].type) /\ y[k] = x[k]
    BY <1>2 DEF RecordSizes
  <2>2. Terms(x, n) /\ Terms(y, n)
    <3>1. \A k \in 1 .. n : record_size(l, t[k].type) \in Nat
      BY <1>1, <1>2, RecordSizesAreTerms DEF Slots
    <3>. QED
      BY <2>1, <3>1 DEF Terms
  <2>. HIDE DEF x, y
  <2>3. packed_offset(x, i) = packed_offset(y, i)
    BY <2>1, <2>2, OffsetsAgree
  <2>4. i \in Slots(t) /\ i \in Slots(u)
    BY <1>1, <1>2 DEF Slots
  <2>. QED
    BY <1>5, <2>3, <2>4, PackedAddr DEF x, y
<1>6. CASE l = "GROUPED_PAYLOAD_ONLY"
  <2>1. n = Len(t) /\ n = Len(u)
    BY <1>6 DEF appends_tail
  <2>2. DOMAIN t = 1 .. n /\ DOMAIN u = 1 .. n
    BY <1>1, <2>1
  <2>3. \A k \in 1 .. n : Before(t, i, k) <=> Before(u, i, k)
    BY DEF Before
  <2>4. GroupSizes(t, i) = GroupSizes(u, i)
    BY <2>2, <2>3 DEF GroupSizes
  <2>5. \A tbl : grouped_payload_only_addr(HeadSize, tbl, i)
                   = HeadSize + packed_offset(GroupSizes(tbl, i), Len(tbl) + 1)
    BY DEF grouped_payload_only_addr, GroupSizes, Before
  <2>. QED
    BY <1>6, <2>1, <2>4, <2>5 DEF addr_from_persist_idx
<1>. QED
  BY <1>3, <1>4, <1>5, <1>6 DEF Layouts, Packed

-----------------------------------------------------------------------------
(* The loop keeps to its window.                                           *)

InWindow(a, cells) ==
  cells # <<>> => /\ a \in Int
                  /\ BaseAddr =< a /\ a + Len(cells) =< BaseAddr + WindowSize

Loop == IsSeq(left) /\ InWindow(addr, left)

LEMMA WindowBounds ==
  /\ MemSize \in Nat /\ BaseAddr \in Nat /\ WindowSize \in Nat
  /\ EraseChunk \in Nat /\ PageBytes \in Nat
  BY WindowAssumption

LEMMA BytesInWindow ==
  \A a \in Int, n \in Nat :
    n > 0 /\ BaseAddr =< a /\ a + n =< BaseAddr + WindowSize
      => a \in Window /\ a + n - 1 \in Window
  BY WindowBounds DEF Window

LEMMA OtherBytes ==
  \A a \in Address \ Window : \A b \in Int, n \in Nat :
    BaseAddr =< b /\ b + n =< BaseAddr + WindowSize => a < b \/ a >= b + n
  BY WindowBounds DEF Address, Window

LEMMA LoopBounds ==
  ASSUME Loop, left # <<>>
  PROVE  /\ addr \in Int /\ Len(left) \in Nat
         /\ BaseAddr =< addr /\ addr + Len(left) =< BaseAddr + WindowSize
<1>1. Len(left) \in Nat
  BY LengthIsNatural DEF Loop
<1>. QED
  BY <1>1 DEF Loop, InWindow

LEMMA ChunkFits ==
  ASSUME Loop, left # <<>>
  PROVE  /\ Chunk \in Nat /\ Chunk =< Len(left)
         /\ IsSeq(NextBytes) /\ Len(NextBytes) = Chunk
         /\ IsSeq(SubSeq(left, Chunk + 1, Len(left)))
         /\ Len(SubSeq(left, Chunk + 1, Len(left))) = Len(left) - Chunk
<1>1. Len(left) \in Nat /\ EraseChunk \in Nat /\ PageBytes \in Nat
  BY LengthIsNatural, WindowBounds DEF Loop
<1>2. Chunk \in Nat /\ Chunk =< Len(left)
  BY <1>1 DEF Chunk
<1>3. /\ IsSeq(SubSeq(left, 1, Chunk))
      /\ Len(SubSeq(left, 1, Chunk)) = IF 1 =< Chunk THEN Chunk - 1 + 1 ELSE 0
  BY <1>1, <1>2, SubSeqIsSeq DEF Loop
<1>4. /\ IsSeq(SubSeq(left, Chunk + 1, Len(left)))
      /\ Len(SubSeq(left, Chunk + 1, Len(left)))
           = IF Chunk + 1 =< Len(left) THEN Len(left) - (Chunk + 1) + 1 ELSE 0
  <2>1. Chunk + 1 \in Nat /\ Chunk + 1 >= 1
    BY <1>2
  <2>. QED
    BY <1>1, <2>1, SubSeqIsSeq DEF Loop
<1>. QED
  BY <1>1, <1>2, <1>3, <1>4 DEF NextBytes

\* Whatever pages a driver call loses, a byte is the old one or the new one.
LEMMA StoredBytes ==
  ASSUME NEW mem, NEW a, NEW cells, NEW other \in Stored(mem, a, cells)
  PROVE  /\ DOMAIN other = Address
         /\ \A b \in Address : other[b] = mem[b] \/ other[b] = Written(mem, a, cells)[b]
         /\ DropsWrites \/ other = Written(mem, a, cells)
<1>. DEFINE whole == Written(mem, a, cells)
<1>1. DOMAIN whole = Address
  BY DEF Written
<1>. HIDE DEF whole
<1>2. \/ other = whole
      \/ DropsWrites /\ \E lost : other = [b \in Address |-> IF PageOf(b) \in lost THEN mem[b] ELSE whole[b]]
  BY DEF Stored, whole
<1>. QED
  BY <1>1, <1>2 DEF whole

\* A driver call that writes a beginning of the next bytes stays inside.
LEMMA CutStaysInside ==
  ASSUME Loop, left # <<>>, NEW mem \in Cut(eeprom, addr, NextBytes)
  PROVE  DOMAIN mem = Address /\ \A a \in Address \ Window : mem[a] = eeprom[a]
<1>1. PICK k \in 0 .. Len(NextBytes) : mem \in Stored(eeprom, addr, SubSeq(NextBytes, 1, k))
  BY DEF Cut
<1>2. k \in Nat /\ k =< Chunk /\ Chunk \in Nat /\ Chunk =< Len(left)
  BY ChunkFits
<1>3. Len(SubSeq(NextBytes, 1, k)) = k
  <2>1. IsSeq(NextBytes) /\ k =< Len(NextBytes)
    BY <1>2, ChunkFits
  <2>2. Len(SubSeq(NextBytes, 1, k)) = IF 1 =< k THEN k - 1 + 1 ELSE 0
    BY <1>2, <2>1, SubSeqIsSeq
  <2>. QED
    BY <1>2, <2>2
<1>4. addr \in Int /\ BaseAddr =< addr /\ addr + k =< BaseAddr + WindowSize
  BY <1>2, LoopBounds, WindowBounds
<1>5. \A a \in Address \ Window : a < addr \/ a >= addr + k
  BY <1>2, <1>4, OtherBytes
<1>6. \A a \in Address \ Window : Written(eeprom, addr, SubSeq(NextBytes, 1, k))[a] = eeprom[a]
  BY <1>3, <1>5 DEF Written
<1>. QED
  BY <1>1, <1>6, StoredBytes

LEMMA PageStaysInside ==
  ASSUME Loop, left # <<>>, NEW mem \in Stored(eeprom, addr, NextBytes)
  PROVE  DOMAIN mem = Address /\ \A a \in Address \ Window : mem[a] = eeprom[a]
<1>1. Chunk \in Nat /\ Chunk =< Len(left) /\ Len(NextBytes) = Chunk
  BY ChunkFits
<1>2. addr \in Int /\ BaseAddr =< addr /\ addr + Chunk =< BaseAddr + WindowSize
  BY <1>1, LoopBounds, WindowBounds
<1>3. \A a \in Address \ Window : a < addr \/ a >= addr + Len(NextBytes)
  BY <1>1, <1>2, OtherBytes
<1>4. \A a \in Address \ Window : Written(eeprom, addr, NextBytes)[a] = eeprom[a]
  BY <1>3 DEF Written
<1>. QED
  BY <1>4, StoredBytes

-----------------------------------------------------------------------------
(* The inductive invariant: type correctness, and that the loop of a write *)
(* has what it still writes as a sequence of bytes in the window.          *)

Inv == TypeOK /\ Loop

LEMMA EmptyLoop == IsSeq(<<>>)
  BY DEF IsSeq

LEMMA InitInv == Init => Inv
<1>1. SUFFICES ASSUME Init PROVE Inv
  OBVIOUS
<1>2. TypeOK
  BY <1>1 DEF Init, TypeOK, Idle
<1>3. Loop
  BY <1>1, EmptyLoop DEF Init, Loop, InWindow
<1>. QED
  BY <1>2, <1>3 DEF Inv

\* A request is answered.
LEMMA AnswersKeep ==
  ASSUME NEW r \in {"none", "ok", "error"}, Answers(r), Inv,
         DOMAIN eeprom' = Address,
         layout' \in Layouts, table' \in Tables,
         <<open, owner, up>>' \in BOOLEAN \X BOOLEAN \X BOOLEAN
  PROVE  Inv'
<1>1. TypeOK'
  BY DEF Answers, TypeOK, Idle
<1>2. Loop'
  BY EmptyLoop DEF Answers, Loop, InWindow
<1>. QED
  BY <1>1, <1>2 DEF Inv

\* A request starts: its range check is what puts it in the window.
LEMMA TransfersKeep ==
  ASSUME Inv, Calls, NEW request, NEW a \in Nat, NEW cells, IsSeq(cells),
         \/ request \in {[Idle EXCEPT !.kind = k] : k \in {"erase", "header"}}
         \/ /\ request.kind = "record" /\ request.slot \in DOMAIN table
            /\ request.data \in Values(layout, table[request.slot]),
         Transfers(request, a, cells)
  PROVE  Inv'
<1>1. /\ DOMAIN eeprom' = Address
      /\ layout' \in Layouts /\ table' \in Tables /\ UNCHANGED <<layout, table>>
      /\ <<open, owner, up>>' \in BOOLEAN \X BOOLEAN \X BOOLEAN
  BY DEF Inv, TypeOK, Calls, nvm, binding
<1>2. CASE is_range_valid(a, Len(cells))
  <2>1. /\ op' = request /\ addr' = BaseAddr + a /\ left' = cells
        /\ reply' = "none"
    BY <1>2 DEF Transfers, abs_addr
  <2>2. /\ Len(cells) \in Nat /\ Len(cells) > 0 /\ a + Len(cells) =< WindowSize
        /\ cells # <<>>
    BY <1>2, LengthIsNatural DEF is_range_valid
  <2>3. /\ BaseAddr + a \in Int /\ BaseAddr =< BaseAddr + a
        /\ BaseAddr + a + Len(cells) =< BaseAddr + WindowSize
    BY <2>2, WindowBounds
  <2>4. Loop' /\ addr' \in Window /\ addr' + Len(left') - 1 \in Window
    <3>1. Loop'
      BY <2>1, <2>3 DEF Loop, InWindow
    <3>2. BaseAddr + a \in Window /\ BaseAddr + a + Len(cells) - 1 \in Window
      BY <2>2, <2>3, BytesInWindow
    <3>. QED
      BY <2>1, <3>1, <3>2
  <2>5. op' # Idle
    BY <2>1 DEF Idle
  <2>6. \/ op' \in {[Idle EXCEPT !.kind = k] : k \in {"erase", "header"}}
        \/ /\ op'.kind = "record" /\ op'.slot \in DOMAIN table'
           /\ op'.data \in Values(layout', table'[op'.slot])
    BY <1>1, <2>1
  <2>7. TypeOK'
    BY <1>1, <2>1, <2>4, <2>5, <2>6 DEF TypeOK, Idle
  <2>. QED
    BY <2>4, <2>7 DEF Inv
<1>3. CASE ~is_range_valid(a, Len(cells))
  <2>1. Answers("error")
    BY <1>3 DEF Transfers
  <2>. QED
    BY <1>1, <2>1, AnswersKeep
<1>. QED
  BY <1>2, <1>3

LEMMA WriteRecordKeeps == Inv /\ WriteRecord => Inv'
<1>1. SUFFICES ASSUME Inv, WriteRecord PROVE Inv'
  OBVIOUS
<1>2. layout \in Layouts /\ table \in Tables
  BY <1>1 DEF Inv, TypeOK
<1>3. PICK i \in DOMAIN table : \E d \in Values(layout, table[i]) :
        Transfers([kind |-> "record", slot |-> i, data |-> d],
                  record_addr(layout, table, i), write_record(layout, table[i], d))
  BY <1>1 DEF WriteRecord
<1>4. PICK d \in Values(layout, table[i]) :
        Transfers([kind |-> "record", slot |-> i, data |-> d],
                  record_addr(layout, table, i), write_record(layout, table[i], d))
  BY <1>3
<1>5. IsSeq(write_record(layout, table[i], d))
  BY <1>2, ValuesAreSeqs, RecordsAreSeqs
<1>6. record_addr(layout, table, i) \in Nat
  BY <1>2, RecordsApart DEF RecordsAreApart, record_addr
<1>7. Calls
  BY <1>1 DEF WriteRecord
<1>. QED
  BY <1>1, <1>4, <1>5, <1>6, <1>7, TransfersKeep

LEMMA WriteHeaderKeeps == Inv /\ WriteHeader => Inv'
<1>1. SUFFICES ASSUME Inv, WriteHeader PROVE Inv'
  OBVIOUS
<1>2. IsSeq(HeadImage[layout][table])
  BY <1>1, HeaderIsSeq DEF Inv, TypeOK
<1>3. /\ Calls
      /\ Transfers([Idle EXCEPT !.kind = "header"], 0, HeadImage[layout][table])
  BY <1>1 DEF WriteHeader, Idle
<1>. QED
  BY <1>1, <1>2, <1>3, TransfersKeep

LEMMA EraseSignatureKeeps == Inv /\ EraseSignature => Inv'
<1>1. SUFFICES ASSUME Inv, EraseSignature PROVE Inv'
  OBVIOUS
<1>. DEFINE blank == [k \in 1 .. Len(Sign) |-> Erased]
<1>2. Len(Sign) = 4
  BY DEF Sign
<1>3. IsSeq(blank)
  <2>1. blank = [k \in 1 .. 4 |-> blank[k]]
    BY <1>2
  <2>. QED
    BY <2>1, FunctionIsSeq
<1>4. Calls /\ Transfers([Idle EXCEPT !.kind = "erase"], 0, blank)
  BY <1>1 DEF EraseSignature, Idle
<1>. HIDE DEF blank
<1>. QED
  BY <1>1, <1>3, <1>4, TransfersKeep

\* A driver call: what it writes lies in the window, and so does the rest.
LEMMA TransferKeeps ==
  Inv /\ Transfer => Inv' /\ \A a \in Address \ Window : eeprom'[a] = eeprom[a]
<1>1. SUFFICES ASSUME Inv, Transfer
      PROVE  Inv' /\ \A a \in Address \ Window : eeprom'[a] = eeprom[a]
  OBVIOUS
<1>2. /\ left # <<>> /\ Loop /\ DOMAIN eeprom = Address
      /\ UNCHANGED <<layout, table, open, owner, up>>
  BY <1>1 DEF Inv, TypeOK, Transfer, nvm, binding
<1>3. ASSUME eeprom' \in Stored(eeprom, addr, NextBytes),
             addr' = addr + Chunk,
             left' = SubSeq(left, Chunk + 1, Len(left)),
             UNCHANGED <<op, reply>>
      PROVE  Inv' /\ \A a \in Address \ Window : eeprom'[a] = eeprom[a]
  <2>1. /\ DOMAIN eeprom' = Address
        /\ \A a \in Address \ Window : eeprom'[a] = eeprom[a]
    BY <1>2, <1>3, PageStaysInside
  <2>2. /\ Chunk \in Nat /\ Chunk =< Len(left) /\ Len(left) \in Nat
        /\ IsSeq(left') /\ Len(left') = Len(left) - Chunk
        /\ (left' # <<>> => Len(left') > 0)
    BY <1>2, <1>3, ChunkFits, LengthIsNatural DEF Loop
  <2>3. /\ addr \in Int
        /\ BaseAddr =< addr /\ addr + Len(left) =< BaseAddr + WindowSize
    BY <1>2, LoopBounds
  <2>4. /\ addr' \in Int
        /\ BaseAddr =< addr' /\ addr' + Len(left') =< BaseAddr + WindowSize
    <3>1. BaseAddr \in Nat /\ WindowSize \in Nat
      BY WindowBounds
    <3>2. \A a \in Int, c, n \in Nat :
            c =< n /\ BaseAddr =< a /\ a + n =< BaseAddr + WindowSize
              => /\ a + c \in Int /\ BaseAddr =< a + c
                 /\ (a + c) + (n - c) =< BaseAddr + WindowSize
      BY <3>1
    <3>3. addr' = addr + Chunk /\ Len(left') = Len(left) - Chunk
      BY <1>3, <2>2
    <3>. QED
      BY <2>2, <2>3, <3>2, <3>3
  <2>5. Loop'
    <3>1. IsSeq(left') /\ InWindow(addr', left')
      BY <2>2, <2>4 DEF InWindow
    <3>. QED
      BY <3>1 DEF Loop
  <2>6. left' # <<>> => addr' \in Window /\ addr' + Len(left') - 1 \in Window
    <3>1. Len(left') \in Nat
      BY <2>2, LengthIsNatural
    <3>. QED
      BY <2>2, <2>4, <3>1, BytesInWindow
  <2>7. op # Idle /\ op' # Idle
    BY <1>1, <1>2, <1>3 DEF Inv, TypeOK
  <2>8. TypeOK'
    BY <1>1, <1>2, <1>3, <2>1, <2>6, <2>7 DEF Inv, TypeOK
  <2>. QED
    BY <2>1, <2>5, <2>8 DEF Inv
<1>4. ASSUME eeprom' \in Cut(eeprom, addr, NextBytes), Answers("error")
      PROVE  Inv' /\ \A a \in Address \ Window : eeprom'[a] = eeprom[a]
  <2>1. /\ DOMAIN eeprom' = Address
        /\ \A a \in Address \ Window : eeprom'[a] = eeprom[a]
    BY <1>2, <1>4, CutStaysInside
  <2>2. /\ layout' \in Layouts /\ table' \in Tables
        /\ <<open, owner, up>>' \in BOOLEAN \X BOOLEAN \X BOOLEAN
    BY <1>1, <1>2 DEF Inv, TypeOK
  <2>. QED
    BY <1>1, <1>4, <2>1, <2>2, AnswersKeep
<1>. QED
  BY <1>1, <1>3, <1>4 DEF Transfer

LEMMA SyncKeeps == Inv /\ SyncAndVerify => Inv'
<1>1. SUFFICES ASSUME Inv, SyncAndVerify PROVE Inv'
  OBVIOUS
<1>2. /\ DOMAIN eeprom' = Address
      /\ layout' \in Layouts /\ table' \in Tables
      /\ <<open, owner, up>>' \in BOOLEAN \X BOOLEAN \X BOOLEAN
  BY <1>1 DEF Inv, TypeOK, SyncAndVerify, nvm, binding
<1>3. Answers("ok") \/ Answers("error")
  BY <1>1 DEF SyncAndVerify
<1>. QED
  BY <1>1, <1>2, <1>3, AnswersKeep

\* The power fails, perhaps in a driver call.
LEMMA RebootKeeps ==
  Inv /\ Reboot => Inv' /\ \A a \in Address \ Window : eeprom'[a] = eeprom[a]
<1>1. SUFFICES ASSUME Inv, Reboot
      PROVE  Inv' /\ \A a \in Address \ Window : eeprom'[a] = eeprom[a]
  OBVIOUS
<1>2. /\ DOMAIN eeprom' = Address
      /\ \A a \in Address \ Window : eeprom'[a] = eeprom[a]
  <2>1. CASE left = <<>>
    BY <1>1, <2>1 DEF Inv, TypeOK, Reboot
  <2>2. CASE left # <<>>
    <3>1. eeprom' \in Cut(eeprom, addr, NextBytes)
      BY <1>1, <2>2 DEF Reboot
    <3>. QED
      BY <1>1, <2>2, <3>1, CutStaysInside DEF Inv, TypeOK
  <2>. QED
    BY <2>1, <2>2
<1>3. /\ layout' \in Layouts /\ table' \in Tables
      /\ <<open, owner, up>>' \in BOOLEAN \X BOOLEAN \X BOOLEAN
      /\ Answers("none")
  BY <1>1 DEF Inv, TypeOK, Reboot, Answers
<1>. QED
  BY <1>1, <1>2, <1>3, AnswersKeep

\* Opening and closing the store writes nothing.
LEMMA BindingKeeps == Inv /\ (StoreInit \/ StoreDeinit) => Inv' /\ UNCHANGED eeprom
<1>1. SUFFICES ASSUME Inv, StoreInit \/ StoreDeinit PROVE Inv' /\ UNCHANGED eeprom
  OBVIOUS
<1>2. UNCHANGED <<eeprom, layout, table, op, addr, left>>
  BY <1>1 DEF StoreInit, StoreDeinit, nvm
<1>3. /\ <<open, owner, up>>' \in BOOLEAN \X BOOLEAN \X BOOLEAN
      /\ reply' \in {"none", "ok", "error"}
  BY <1>1 DEF Inv, TypeOK, StoreInit, StoreDeinit, binding
<1>4. TypeOK'
  BY <1>1, <1>2, <1>3 DEF Inv, TypeOK
<1>5. Loop'
  BY <1>1, <1>2 DEF Inv, Loop, InWindow
<1>. QED
  BY <1>2, <1>4, <1>5 DEF Inv

LEMMA NextInv == Inv /\ [Next]_vars => Inv'
<1>1. SUFFICES ASSUME Inv, [Next]_vars PROVE Inv'
  OBVIOUS
<1>2. CASE StoreInit \/ StoreDeinit
  BY <1>1, <1>2, BindingKeeps
<1>3. CASE WriteRecord
  BY <1>1, <1>3, WriteRecordKeeps
<1>4. CASE WriteHeader
  BY <1>1, <1>4, WriteHeaderKeeps
<1>5. CASE EraseSignature
  BY <1>1, <1>5, EraseSignatureKeeps
<1>6. CASE Transfer
  BY <1>1, <1>6, TransferKeeps
<1>7. CASE SyncAndVerify
  BY <1>1, <1>7, SyncKeeps
<1>8. CASE Reboot
  BY <1>1, <1>8, RebootKeeps
<1>9. CASE UNCHANGED vars
  BY <1>1, <1>9 DEF vars, nvm, binding, Inv, TypeOK, Loop, InWindow
<1>. QED
  BY <1>1, <1>2, <1>3, <1>4, <1>5, <1>6, <1>7, <1>8, <1>9 DEF Next

LEMMA StepStaysInside ==
  Inv /\ [Next]_vars => [\A a \in Address \ Window : eeprom'[a] = eeprom[a]]_vars
<1>1. SUFFICES ASSUME Inv, Next
      PROVE  \A a \in Address \ Window : eeprom'[a] = eeprom[a]
  OBVIOUS
<1>2. CASE Transfer
  BY <1>1, <1>2, TransferKeeps
<1>3. CASE Reboot
  BY <1>1, <1>3, RebootKeeps
<1>4. CASE StoreInit \/ StoreDeinit
  BY <1>1, <1>4, BindingKeeps
<1>5. CASE WriteRecord \/ WriteHeader \/ EraseSignature \/ SyncAndVerify
  BY <1>5 DEF WriteRecord, WriteHeader, EraseSignature, SyncAndVerify, Calls
<1>. QED
  BY <1>1, <1>2, <1>3, <1>4, <1>5 DEF Next

\* Types, and that a transfer under way lies in the window, first byte to
\* last: par_store_rtt_at24_is_range_valid is asked once, before the loop
\* of _write or _erase cuts the request into pages.
THEOREM EepromTypesCorrect == Spec => []TypeOK
<1>1. Spec => []Inv
  BY InitInv, NextInv, PTL DEF Spec
<1>2. Inv => TypeOK
  BY DEF Inv
<1>. QED
  BY <1>1, <1>2, PTL

\* Bytes outside the parameters' window are never written: for every table,
\* layout, page size and chunk, with driver calls that fail, are cut or are
\* dropped, and with any change of firmware.
THEOREM WindowIsKept == Spec => NeighboursKept
<1>1. Spec => []Inv
  BY InitInv, NextInv, PTL DEF Spec
<1>. QED
  BY <1>1, StepStaysInside, PTL DEF Spec, NeighboursKept

-----------------------------------------------------------------------------
(* What the bytes of a record say.                                         *)

LEMMA SeqEqual ==
  ASSUME NEW s, NEW t, IsSeq(s), IsSeq(t), Len(s) = Len(t),
         \A k \in 1 .. Len(s) : s[k] = t[k]
  PROVE  s = t
<1>1. PICK S : s \in Seq(S)
  BY DEF IsSeq
<1>2. PICK T : t \in Seq(T)
  BY DEF IsSeq
<1>3. s \in Seq(S \cup T) /\ t \in Seq(S \cup T)
  BY <1>1, <1>2
<1>4. s = [k \in 1 .. Len(s) |-> s[k]] /\ t = [k \in 1 .. Len(t) |-> t[k]]
  BY <1>3
<1>. QED
  BY <1>4

LEMMA ConcatFacts ==
  ASSUME NEW s, NEW t, IsSeq(s), IsSeq(t)
  PROVE  /\ IsSeq(s \o t) /\ Len(s) \in Nat /\ Len(t) \in Nat
         /\ Len(s \o t) = Len(s) + Len(t)
         /\ \A k \in 1 .. Len(s) : (s \o t)[k] = s[k]
         /\ \A k \in 1 .. Len(t) : (s \o t)[Len(s) + k] = t[k]
<1>1. PICK S : s \in Seq(S)
  BY DEF IsSeq
<1>2. PICK T : t \in Seq(T)
  BY DEF IsSeq
<1>3. s \in Seq(S \cup T) /\ t \in Seq(S \cup T)
  BY <1>1, <1>2
<1>4. Len(s) \in Nat /\ Len(t) \in Nat /\ Len(s \o t) = Len(s) + Len(t)
  BY <1>3
<1>5. \A k \in 1 .. Len(s) : (s \o t)[k] = s[k]
  BY <1>3, <1>4
<1>6. ASSUME NEW k \in 1 .. Len(t) PROVE (s \o t)[Len(s) + k] = t[k]
  BY <1>3, <1>4
<1>. QED
  BY <1>4, <1>5, <1>6, ConcatIsSeq

\* Sequences joined behind beginnings of one length are equal only if the
\* ends are.
LEMMA SameEnds ==
  ASSUME NEW s, NEW t, NEW u, NEW v, IsSeq(s), IsSeq(t), IsSeq(u), IsSeq(v),
         s \o t = u \o v, Len(s) = Len(u)
  PROVE  t = v
<1>1. Len(t) = Len(v)
  BY ConcatFacts
<1>2. ASSUME NEW k \in 1 .. Len(t) PROVE t[k] = v[k]
  <2>1. t[k] = (s \o t)[Len(s) + k]
    BY ConcatFacts
  <2>2. v[k] = (u \o v)[Len(u) + k]
    BY <1>1, ConcatFacts
  <2>. QED
    BY <2>1, <2>2
<1>. QED
  BY <1>1, <1>2, SeqEqual

LEMMA SubSeqFacts ==
  ASSUME NEW s, IsSeq(s), NEW m \in Nat, NEW n \in Nat, m >= 1, n =< Len(s)
  PROVE  /\ IsSeq(SubSeq(s, m, n))
         /\ Len(SubSeq(s, m, n)) = IF m =< n THEN n - m + 1 ELSE 0
         /\ \A k \in 1 .. Len(SubSeq(s, m, n)) : SubSeq(s, m, n)[k] = s[m + k - 1]
<1>1. PICK S : s \in Seq(S)
  BY DEF IsSeq
<1>. QED
  BY <1>1, SubSeqIsSeq

\* A carrier of a layout: in the packed ones it was cleared before.
LEMMA WholeSubSeq ==
  ASSUME NEW s, IsSeq(s)
  PROVE  SubSeq(s, 1, Len(s)) = s
<1>. DEFINE c == SubSeq(s, 1, Len(s))
<1>1. Len(s) \in Nat
  BY LengthIsNatural
<1>2. /\ IsSeq(c) /\ Len(c) = IF 1 =< Len(s) THEN Len(s) - 1 + 1 ELSE 0
      /\ \A k \in 1 .. Len(c) : c[k] = s[1 + k - 1]
  BY <1>1, SubSeqFacts
<1>. HIDE DEF c
<1>3. Len(c) = Len(s) /\ \A k \in 1 .. Len(s) : 1 + k - 1 = k
  BY <1>1, <1>2
<1>4. c = s
  BY <1>2, <1>3, SeqEqual
<1>. QED
  BY <1>4 DEF c

Slotted == {"FIXED_SLOT_WITH_SIZE", "FIXED_SLOT_NO_SIZE"}

Readable(l, type, v) ==
  /\ IsSeq(v) /\ Len(v) = SlotSize
  /\ l \notin Slotted => v = unpack_payload(type, v)

Payload(l, type, v) == IF l \in Slotted THEN v ELSE pack_payload(type, v)

StampAt(l) == CASE l \in {"FIXED_SLOT_WITH_SIZE", "COMPACT_PAYLOAD"} -> 4
                [] l = "FIXED_SLOT_NO_SIZE" -> 3
                [] OTHER -> 1

\* The checksum of the record of value v.
StampHead(l, s) ==
  CASE l = "FIXED_SLOT_WITH_SIZE" -> le16(s.id) \o <<data_byte(SlotSize)>>
    [] l = "COMPACT_PAYLOAD"      -> le16(s.id) \o <<data_byte(payload_size(s.type))>>
    [] l = "FIXED_SLOT_NO_SIZE"   -> le16(s.id) \o <<>>
    [] OTHER                      -> <<>>
Stamp(l, s, v) == checksum(StampHead(l, s) \o Payload(l, s.type, v))

LEMMA EmptySeq == Len(<<>>) = 0 /\ \A s : IsSeq(s) => <<>> \o s = s
<1>1. SUFFICES ASSUME NEW s, IsSeq(s) PROVE <<>> \o s = s
  OBVIOUS
<1>2. PICK S : s \in Seq(S)
  BY <1>1 DEF IsSeq
<1>. QED
  BY <1>2

LEMMA WordFacts == \A n : Len(le16(n)) = 2
  BY DEF le16

LEMMA UnpackFacts ==
  ASSUME NEW type, NEW c
  PROVE  /\ IsSeq(unpack_payload(type, c)) /\ Len(unpack_payload(type, c)) = SlotSize
         /\ \A k \in 1 .. SlotSize : unpack_payload(type, c)[k]
              = IF k =< payload_size(type) THEN c[k] ELSE data_byte(0)
<1>. DEFINE u == unpack_payload(type, c)
<1>1. u = [k \in 1 .. SlotSize |-> u[k]]
  BY DEF unpack_payload
<1>2. IsSeq(u) /\ Len(u) = SlotSize
  BY <1>1, FunctionIsSeq DEF SlotSize
<1>. QED
  BY <1>2 DEF unpack_payload

\* Unpacked twice is unpacked once.
LEMMA UnpackedStays ==
  ASSUME NEW type, NEW c
  PROVE  unpack_payload(type, unpack_payload(type, c)) = unpack_payload(type, c)
<1>. DEFINE u == unpack_payload(type, c)
            w == unpack_payload(type, u)
<1>1. /\ IsSeq(u) /\ Len(u) = SlotSize /\ IsSeq(w) /\ Len(w) = SlotSize
      /\ \A k \in 1 .. SlotSize : u[k] = IF k =< payload_size(type) THEN c[k] ELSE data_byte(0)
      /\ \A k \in 1 .. SlotSize : w[k] = IF k =< payload_size(type) THEN u[k] ELSE data_byte(0)
  BY UnpackFacts
<1>. HIDE DEF u, w
<1>2. w = u
  BY <1>1, SeqEqual
<1>. QED
  BY <1>2 DEF u, w

LEMMA PackFacts ==
  ASSUME NEW type, NEW d, IsSeq(d), Len(d) = SlotSize
  PROVE  /\ IsSeq(pack_payload(type, d)) /\ Len(pack_payload(type, d)) = payload_size(type)
         /\ \A k \in 1 .. payload_size(type) : pack_payload(type, d)[k] = d[k]
<1>1. payload_size(type) \in Nat /\ 1 =< payload_size(type) /\ payload_size(type) =< Len(d)
  BY Small DEF SlotSize
<1>2. /\ IsSeq(SubSeq(d, 1, payload_size(type)))
      /\ Len(SubSeq(d, 1, payload_size(type))) = payload_size(type) - 1 + 1
      /\ \A k \in 1 .. Len(SubSeq(d, 1, payload_size(type))) :
           SubSeq(d, 1, payload_size(type))[k] = d[1 + k - 1]
  BY <1>1, SubSeqFacts
<1>. QED
  BY <1>1, <1>2 DEF pack_payload

\* What was packed and unpacked is the carrier again, and the other way
\* round.
LEMMA PackUnpack ==
  ASSUME NEW type, NEW p, IsSeq(p), Len(p) = payload_size(type)
  PROVE  pack_payload(type, unpack_payload(type, p)) = p
<1>1. payload_size(type) \in Nat /\ payload_size(type) =< SlotSize
  BY Small DEF SlotSize
<1>2. \A k \in 1 .. payload_size(type) :
        pack_payload(type, unpack_payload(type, p))[k] = p[k]
  BY <1>1, UnpackFacts, PackFacts DEF SlotSize
<1>. QED
  BY <1>1, <1>2, UnpackFacts, PackFacts, SeqEqual

LEMMA UnpackPack ==
  ASSUME NEW type, NEW v, IsSeq(v), Len(v) = SlotSize
  PROVE  unpack_payload(type, pack_payload(type, v)) = unpack_payload(type, v)
<1>. DEFINE u == unpack_payload(type, pack_payload(type, v))
            w == unpack_payload(type, v)
<1>1. payload_size(type) \in Nat
  BY Small DEF SlotSize
<1>2. /\ IsSeq(u) /\ Len(u) = SlotSize /\ IsSeq(w) /\ Len(w) = SlotSize
      /\ \A k \in 1 .. SlotSize :
           u[k] = IF k =< payload_size(type) THEN pack_payload(type, v)[k] ELSE data_byte(0)
      /\ \A k \in 1 .. SlotSize : w[k] = IF k =< payload_size(type) THEN v[k] ELSE data_byte(0)
  BY UnpackFacts
<1>3. \A k \in 1 .. payload_size(type) : pack_payload(type, v)[k] = v[k]
  BY PackFacts
<1>. HIDE DEF u, w
<1>4. \A k \in 1 .. SlotSize : u[k] = w[k]
  BY <1>1, <1>2, <1>3 DEF SlotSize
<1>5. u = w
  BY <1>2, <1>4, SeqEqual
<1>. QED
  BY <1>5 DEF u, w

LEMMA UnpackBySize ==
  ASSUME NEW a, NEW b, payload_size(a) = payload_size(b), NEW c
  PROVE  unpack_payload(a, c) = unpack_payload(b, c)
<1>1. \A k \in 1 .. SlotSize : unpack_payload(a, c)[k] = unpack_payload(b, c)[k]
  BY UnpackFacts
<1>. QED
  BY <1>1, UnpackFacts, SeqEqual

LEMMA StampHeads ==
  ASSUME NEW l, NEW s
  PROVE  /\ IsSeq(StampHead(l, s))
         /\ \A u : Len(StampHead(l, u)) = Len(StampHead(l, s))
<1>1. /\ IsSeq(<<>>) /\ Len(<<>>) = 0
      /\ \A n : IsSeq(le16(n)) /\ Len(le16(n)) = 2
      /\ \A x : IsSeq(<<x>>) /\ Len(<<x>>) = 1
  BY WordIsSeq, WordFacts, SingleIsSeq DEF IsSeq
<1>2. ASSUME NEW n, NEW x
      PROVE  IsSeq(le16(n) \o <<x>>) /\ Len(le16(n) \o <<x>>) = 2 + 1
  <2>. DEFINE b == <<x>>
  <2>1. IsSeq(b) /\ Len(b) = 1
    BY <1>1
  <2>. HIDE DEF b
  <2>2. IsSeq(le16(n) \o b) /\ Len(le16(n) \o b) = Len(le16(n)) + Len(b)
    BY <1>1, <2>1, ConcatFacts
  <2>3. IsSeq(le16(n) \o b) /\ Len(le16(n) \o b) = 2 + 1
    BY <1>1, <2>1, <2>2
  <2>. QED
    BY <2>3 DEF b
<1>3. ASSUME NEW n PROVE IsSeq(le16(n) \o <<>>) /\ Len(le16(n) \o <<>>) = 2 + 0
  <2>. DEFINE b == <<>>
  <2>1. IsSeq(b) /\ Len(b) = 0
    BY <1>1
  <2>. HIDE DEF b
  <2>2. IsSeq(le16(n) \o b) /\ Len(le16(n) \o b) = Len(le16(n)) + Len(b)
    BY <1>1, <2>1, ConcatFacts
  <2>3. IsSeq(le16(n) \o b) /\ Len(le16(n) \o b) = 2 + 0
    BY <1>1, <2>1, <2>2
  <2>. QED
    BY <2>3 DEF b
<1>4. CASE l = "FIXED_SLOT_WITH_SIZE"
  BY <1>2, <1>4 DEF StampHead
<1>5. CASE l = "COMPACT_PAYLOAD"
  BY <1>2, <1>5 DEF StampHead
<1>6. CASE l = "FIXED_SLOT_NO_SIZE"
  BY <1>3, <1>6 DEF StampHead
<1>7. CASE l \notin {"FIXED_SLOT_WITH_SIZE", "COMPACT_PAYLOAD", "FIXED_SLOT_NO_SIZE"}
  BY <1>1, <1>7 DEF StampHead
<1>. QED
  BY <1>4, <1>5, <1>6, <1>7

LEMMA PayloadIsSeq ==
  ASSUME NEW l, NEW type, NEW v, Readable(l, type, v)
  PROVE  IsSeq(Payload(l, type, v))
  BY PackFacts DEF Readable, Payload

\* One checksum is the checksum of one value, whatever the slots.
LEMMA StampSays ==
  ASSUME NEW l, NEW s, NEW u, NEW v, NEW w,
         Readable(l, s.type, v), Readable(l, u.type, w), Stamp(l, s, v) = Stamp(l, u, w)
  PROVE  v = w
<1>1. StampHead(l, s) \o Payload(l, s.type, v) = StampHead(l, u) \o Payload(l, u.type, w)
  BY DEF Stamp, checksum
<1>2. Payload(l, s.type, v) = Payload(l, u.type, w)
  <2>1. /\ IsSeq(StampHead(l, s)) /\ IsSeq(StampHead(l, u))
        /\ Len(StampHead(l, s)) = Len(StampHead(l, u))
        /\ IsSeq(Payload(l, s.type, v)) /\ IsSeq(Payload(l, u.type, w))
    BY StampHeads, PayloadIsSeq
  <2>. QED
    BY <1>1, <2>1, SameEnds
<1>3. CASE l \in Slotted
  BY <1>2, <1>3 DEF Payload
<1>4. CASE l \notin Slotted
  <2>1. pack_payload(s.type, v) = pack_payload(u.type, w)
    BY <1>2, <1>4 DEF Payload
  <2>2. IsSeq(v) /\ Len(v) = SlotSize /\ IsSeq(w) /\ Len(w) = SlotSize
    BY DEF Readable
  <2>3. payload_size(s.type) = payload_size(u.type)
    BY <2>1, <2>2, PackFacts
  <2>4. unpack_payload(s.type, v) = unpack_payload(u.type, w)
    BY <2>1, <2>2, <2>3, UnpackPack, UnpackBySize
  <2>. QED
    BY <1>4, <2>4 DEF Readable
<1>. QED
  BY <1>3, <1>4

LEMMA SizedFacts ==
  ASSUME NEW id, NEW size, NEW p, IsSeq(p)
  PROVE  /\ IsSeq(sized_record(id, size, p)) /\ Len(sized_record(id, size, p)) = 4 + Len(p)
         /\ sized_record(id, size, p)[1] = le16(id)[1]
         /\ sized_record(id, size, p)[2] = le16(id)[2]
         /\ sized_record(id, size, p)[3] = data_byte(size)
         /\ sized_record(id, size, p)[4] = checksum(le16(id) \o <<data_byte(size)>> \o p)
         /\ \A k \in 1 .. Len(p) : sized_record(id, size, p)[4 + k] = p[k]
<1>. DEFINE a == le16(id)
            b == <<data_byte(size)>>
            c == <<checksum(a \o b \o p)>>
<1>1. /\ IsSeq(a) /\ Len(a) = 2 /\ IsSeq(b) /\ Len(b) = 1 /\ b[1] = data_byte(size)
      /\ IsSeq(c) /\ Len(c) = 1 /\ c[1] = checksum(a \o b \o p)
  BY WordIsSeq, WordFacts, SingleIsSeq
<1>2. sized_record(id, size, p) = a \o b \o c \o p
  BY DEF sized_record, calc_crc_with_id
<1>. HIDE DEF a, b, c
<1>3. /\ IsSeq(a \o b) /\ Len(a \o b) = 3
      /\ (a \o b)[1] = a[1] /\ (a \o b)[2] = a[2] /\ (a \o b)[3] = b[1]
  <2>1. /\ IsSeq(a \o b) /\ Len(a \o b) = Len(a) + Len(b)
        /\ \A k \in 1 .. Len(a) : (a \o b)[k] = a[k]
        /\ \A k \in 1 .. Len(b) : (a \o b)[Len(a) + k] = b[k]
    <3>1. IsSeq(a) /\ IsSeq(b)
      BY <1>1
    <3>. QED
      BY <3>1, ConcatFacts
  <2>2. 1 \in 1 .. 2 /\ 2 \in 1 .. 2 /\ 1 \in 1 .. 1 /\ 2 + 1 = 3
    OBVIOUS
  <2>. QED
    BY <1>1, <2>1, <2>2
<1>4. /\ IsSeq(a \o b \o c) /\ Len(a \o b \o c) = 4
      /\ (a \o b \o c)[1] = a[1] /\ (a \o b \o c)[2] = a[2]
      /\ (a \o b \o c)[3] = b[1] /\ (a \o b \o c)[4] = c[1]
  <2>. DEFINE h == a \o b
  <2>1. /\ IsSeq(a \o b \o c) /\ Len(a \o b \o c) = Len(a \o b) + Len(c)
        /\ \A k \in 1 .. Len(a \o b) : (a \o b \o c)[k] = (a \o b)[k]
        /\ \A k \in 1 .. Len(c) : (a \o b \o c)[Len(a \o b) + k] = c[k]
    <3>1. IsSeq(h) /\ IsSeq(c)
      BY <1>1, <1>3
    <3>. HIDE DEF h
    <3>2. /\ IsSeq(h \o c) /\ Len(h \o c) = Len(h) + Len(c)
          /\ \A k \in 1 .. Len(h) : (h \o c)[k] = h[k]
          /\ \A k \in 1 .. Len(c) : (h \o c)[Len(h) + k] = c[k]
      BY <3>1, ConcatFacts
    <3>. QED
      BY <3>2 DEF h
  <2>2. 1 \in 1 .. 3 /\ 2 \in 1 .. 3 /\ 3 \in 1 .. 3 /\ 1 \in 1 .. 1 /\ 3 + 1 = 4
    OBVIOUS
  <2>. QED
    BY <1>1, <1>3, <2>1, <2>2
<1>5. /\ IsSeq(a \o b \o c \o p) /\ Len(a \o b \o c \o p) = 4 + Len(p)
      /\ \A k \in 1 .. 4 : (a \o b \o c \o p)[k] = (a \o b \o c)[k]
      /\ \A k \in 1 .. Len(p) : (a \o b \o c \o p)[4 + k] = p[k]
  <2>. DEFINE h == a \o b \o c
  <2>1. IsSeq(h) /\ Len(h) = 4
    BY <1>4
  <2>. HIDE DEF h
  <2>2. /\ IsSeq(h \o p) /\ Len(h \o p) = Len(h) + Len(p)
        /\ \A k \in 1 .. Len(h) : (h \o p)[k] = h[k]
        /\ \A k \in 1 .. Len(p) : (h \o p)[Len(h) + k] = p[k]
    <3>1. IsSeq(h) /\ IsSeq(p)
      BY <2>1
    <3>. QED
      BY <3>1, ConcatFacts
  <2>3. /\ IsSeq(h \o p) /\ Len(h \o p) = 4 + Len(p)
        /\ \A k \in 1 .. 4 : (h \o p)[k] = h[k]
        /\ \A k \in 1 .. Len(p) : (h \o p)[4 + k] = p[k]
    BY <2>1, <2>2
  <2>. QED
    BY <2>3 DEF h
<1>6. 1 \in 1 .. 4 /\ 2 \in 1 .. 4 /\ 3 \in 1 .. 4 /\ 4 \in 1 .. 4
  OBVIOUS
<1>7. /\ (a \o b \o c \o p)[1] = a[1] /\ (a \o b \o c \o p)[2] = a[2]
      /\ (a \o b \o c \o p)[3] = b[1] /\ (a \o b \o c \o p)[4] = c[1]
  BY <1>4, <1>5, <1>6
<1>8. c[1] = checksum(le16(id) \o <<data_byte(size)>> \o p) /\ b[1] = data_byte(size)
  BY <1>1 DEF a, b
<1>. QED
  BY <1>2, <1>5, <1>7, <1>8 DEF a

LEMMA UnsizedFacts ==
  ASSUME NEW id, NEW c, NEW p, IsSeq(p)
  PROVE  /\ IsSeq(le16(id) \o <<c>> \o p) /\ Len(le16(id) \o <<c>> \o p) = 3 + Len(p)
         /\ (le16(id) \o <<c>> \o p)[1] = le16(id)[1]
         /\ (le16(id) \o <<c>> \o p)[2] = le16(id)[2]
         /\ (le16(id) \o <<c>> \o p)[3] = c
         /\ \A k \in 1 .. Len(p) : (le16(id) \o <<c>> \o p)[3 + k] = p[k]
<1>. DEFINE a == le16(id)
            b == <<c>>
<1>1. IsSeq(a) /\ Len(a) = 2 /\ IsSeq(b) /\ Len(b) = 1 /\ b[1] = c
  BY WordIsSeq, WordFacts, SingleIsSeq
<1>. HIDE DEF a, b
<1>2. /\ IsSeq(a \o b) /\ Len(a \o b) = Len(a) + Len(b)
      /\ \A k \in 1 .. Len(a) : (a \o b)[k] = a[k]
      /\ \A k \in 1 .. Len(b) : (a \o b)[Len(a) + k] = b[k]
  <2>1. IsSeq(a) /\ IsSeq(b)
    BY <1>1
  <2>. QED
    BY <2>1, ConcatFacts
<1>. DEFINE h == a \o b
<1>3. IsSeq(h) /\ Len(h) = 3 /\ h[1] = a[1] /\ h[2] = a[2] /\ h[3] = c
  <2>1. 1 \in 1 .. 2 /\ 2 \in 1 .. 2 /\ 1 \in 1 .. 1 /\ 2 + 1 = 3
    OBVIOUS
  <2>. QED
    BY <1>1, <1>2, <2>1
<1>. HIDE DEF h
<1>4. /\ IsSeq(h \o p) /\ Len(h \o p) = Len(h) + Len(p)
      /\ \A k \in 1 .. Len(h) : (h \o p)[k] = h[k]
      /\ \A k \in 1 .. Len(p) : (h \o p)[Len(h) + k] = p[k]
  <2>1. IsSeq(h)
    BY <1>3
  <2>. QED
    BY <2>1, ConcatFacts
<1>5. /\ IsSeq(h \o p) /\ Len(h \o p) = 3 + Len(p)
      /\ (h \o p)[1] = a[1] /\ (h \o p)[2] = a[2] /\ (h \o p)[3] = c
      /\ \A k \in 1 .. Len(p) : (h \o p)[3 + k] = p[k]
  <2>1. 1 \in 1 .. 3 /\ 2 \in 1 .. 3 /\ 3 \in 1 .. 3
    OBVIOUS
  <2>. QED
    BY <1>3, <1>4, <2>1
<1>. QED
  BY <1>5 DEF h, a, b

LEMMA MarkedFacts ==
  ASSUME NEW c, NEW p, IsSeq(p)
  PROVE  /\ IsSeq(<<c>> \o p) /\ Len(<<c>> \o p) = 1 + Len(p)
         /\ (<<c>> \o p)[1] = c
         /\ \A k \in 1 .. Len(p) : (<<c>> \o p)[1 + k] = p[k]
<1>. DEFINE b == <<c>>
<1>1. IsSeq(b) /\ Len(b) = 1 /\ b[1] = c
  BY SingleIsSeq
<1>. HIDE DEF b
<1>2. /\ IsSeq(b \o p) /\ Len(b \o p) = Len(b) + Len(p)
      /\ \A k \in 1 .. Len(b) : (b \o p)[k] = b[k]
      /\ \A k \in 1 .. Len(p) : (b \o p)[Len(b) + k] = p[k]
  <2>1. IsSeq(b)
    BY <1>1
  <2>. QED
    BY <2>1, ConcatFacts
<1>3. /\ IsSeq(b \o p) /\ Len(b \o p) = 1 + Len(p) /\ (b \o p)[1] = c
      /\ \A k \in 1 .. Len(p) : (b \o p)[1 + k] = p[k]
  <2>1. 1 \in 1 .. 1
    OBVIOUS
  <2>. QED
    BY <1>1, <1>2, <2>1
<1>. QED
  BY <1>3 DEF b

LEMMA TailFacts ==
  ASSUME NEW s, IsSeq(s), Len(s) > 0
  PROVE  /\ IsSeq(Tail(s)) /\ Len(Tail(s)) = Len(s) - 1
         /\ \A k \in 1 .. Len(s) - 1 : Tail(s)[k] = s[k + 1]
<1>1. PICK S : s \in Seq(S)
  BY DEF IsSeq
<1>2. s # <<>>
  BY <1>1
<1>3. Tail(s) \in Seq(S) /\ Len(Tail(s)) = Len(s) - 1
  BY <1>1, <1>2
<1>4. \A k \in 1 .. Len(s) - 1 : Tail(s)[k] = s[k + 1]
  BY <1>1, <1>2
<1>. QED
  BY <1>3, <1>4 DEF IsSeq

-----------------------------------------------------------------------------
(* A record that is read back whole is the one that was written.           *)

LEMMA TwoBytes ==
  ASSUME NEW s, IsSeq(s), Len(s) >= 2, NEW n, s[1] = le16(n)[1], s[2] = le16(n)[2]
  PROVE  SubSeq(s, 1, 2) = le16(n)
<1>1. /\ IsSeq(SubSeq(s, 1, 2)) /\ Len(SubSeq(s, 1, 2)) = 2
      /\ \A k \in 1 .. 2 : SubSeq(s, 1, 2)[k] = s[k]
  <2>1. /\ IsSeq(SubSeq(s, 1, 2)) /\ Len(SubSeq(s, 1, 2)) = 2 - 1 + 1
        /\ \A k \in 1 .. Len(SubSeq(s, 1, 2)) : SubSeq(s, 1, 2)[k] = s[1 + k - 1]
    BY SubSeqFacts, LengthIsNatural
  <2>. QED
    BY <2>1
<1>2. \A k \in 1 .. 2 : SubSeq(s, 1, 2)[k] = le16(n)[k]
  <2>1. \A k \in 1 .. 2 : k = 1 \/ k = 2
    OBVIOUS
  <2>. QED
    BY <1>1, <2>1
<1>. QED
  BY <1>1, <1>2, WordIsSeq, WordFacts, SeqEqual

LEMMA EndOf ==
  ASSUME NEW s, IsSeq(s), NEW p, IsSeq(p), NEW m \in Nat, Len(s) = m + Len(p),
         \A k \in 1 .. Len(p) : s[m + k] = p[k]
  PROVE  SubSeq(s, m + 1, m + Len(p)) = p
<1>1. Len(p) \in Nat /\ Len(s) \in Nat
  BY LengthIsNatural
<1>. DEFINE e == SubSeq(s, m + 1, m + Len(p))
<1>2. /\ IsSeq(e)
      /\ Len(e) = IF m + 1 =< m + Len(p) THEN m + Len(p) - (m + 1) + 1 ELSE 0
      /\ \A k \in 1 .. Len(e) : e[k] = s[m + 1 + k - 1]
  BY <1>1, SubSeqFacts
<1>. HIDE DEF e
<1>3. Len(e) = Len(p)
  BY <1>1, <1>2
<1>4. \A k \in 1 .. Len(e) : e[k] = p[k]
  <2>1. ASSUME NEW k \in 1 .. Len(p) PROVE m + 1 + k - 1 = m + k
    BY <1>1
  <2>. QED
    BY <1>2, <1>3, <2>1
<1>5. e = p
  BY <1>2, <1>3, <1>4, SeqEqual
<1>. QED
  BY <1>5 DEF e

LEMMA SizedIsRead ==
  ASSUME NEW id, NEW p, IsSeq(p)
  PROVE  read_sized(Len(p), sized_record(id, Len(p), p)) = loaded(le16(id), p)
<1>. DEFINE w == sized_record(id, Len(p), p)
<1>1. /\ IsSeq(w) /\ Len(w) = 4 + Len(p) /\ Len(p) \in Nat
      /\ w[1] = le16(id)[1] /\ w[2] = le16(id)[2] /\ w[3] = data_byte(Len(p))
      /\ w[4] = checksum(le16(id) \o <<data_byte(Len(p))>> \o p)
      /\ \A k \in 1 .. Len(p) : w[4 + k] = p[k]
  BY SizedFacts, LengthIsNatural
<1>. HIDE DEF w
<1>2. SubSeq(w, 1, 2) = le16(id)
  BY <1>1, TwoBytes
<1>3. SubSeq(w, 5, 4 + Len(p)) = p
  <2>1. SubSeq(w, 4 + 1, 4 + Len(p)) = p
    BY <1>1, EndOf
  <2>. QED
    BY <2>1
<1>4. read_sized(Len(p), w) = loaded(le16(id), p)
  BY <1>1, <1>2, <1>3 DEF read_sized, calc_crc_with_id
<1>. QED
  BY <1>4 DEF w

\* A read of slot s that answers v.
Whole(l, s, obj, v) ==
  obj.status = "OK" /\ obj.data = v /\ validate_loaded_obj(l, s, obj)

IsByte(c) == c = data_byte(c[1])

\* w is a record of v for slot s: a checksum that speaks for v, and bytes.
Marked(l, s, v, w) ==
  /\ IsSeq(w) /\ Len(w) = record_size(l, s.type) /\ StampAt(l) \in 1 .. Len(w)
  /\ w[StampAt(l)] = Stamp(l, s, v)
  /\ \A k \in 1 .. Len(w) : k # StampAt(l) => IsByte(w[k]) \/ w[k] \in {v[j] : j \in 1 .. SlotSize}

Layout(l, s, v) ==
  /\ Marked(l, s, v, write_record(l, s, v))
  /\ Whole(l, s, read_record(l, s, write_record(l, s, v)), v)

LEMMA LoadedFacts ==
  \A id, d : /\ loaded(id, d).status = "OK" /\ loaded(id, d).id = id /\ loaded(id, d).data = d
  BY DEF loaded

LEMMA DataBytes == \A b : IsByte(data_byte(b))
  BY DEF data_byte, IsByte

LEMMA WordBytes ==
  \A n : \A k \in 1 .. 2 : IsByte(le16(n)[k])
<1>1. SUFFICES ASSUME NEW n, NEW k \in 1 .. 2
      PROVE  IsByte(le16(n)[k])
  OBVIOUS
<1>2. le16(n)[1] = data_byte(n % 256) /\ le16(n)[2] = data_byte(n \div 256)
  BY DEF le16
<1>3. k = 1 \/ k = 2
  OBVIOUS
<1>. QED
  BY <1>2, <1>3, DataBytes

\* Records with an ID and a size.
LEMMA SizedMarked ==
  ASSUME NEW l, NEW s, NEW v, NEW p, IsSeq(p),
         \A k \in 1 .. Len(p) : p[k] \in {v[j] : j \in 1 .. SlotSize},
         StampAt(l) = 4, Stamp(l, s, v) = checksum(le16(s.id) \o <<data_byte(Len(p))>> \o p),
         record_size(l, s.type) = 4 + Len(p)
  PROVE  Marked(l, s, v, sized_record(s.id, Len(p), p))
<1>. DEFINE w == sized_record(s.id, Len(p), p)
<1>1. /\ IsSeq(w) /\ Len(w) = 4 + Len(p) /\ Len(p) \in Nat
      /\ w[1] = le16(s.id)[1] /\ w[2] = le16(s.id)[2] /\ w[3] = data_byte(Len(p))
      /\ w[4] = checksum(le16(s.id) \o <<data_byte(Len(p))>> \o p)
      /\ \A k \in 1 .. Len(p) : w[4 + k] = p[k]
  BY SizedFacts, LengthIsNatural
<1>. HIDE DEF w
<1>2. ASSUME NEW k \in 1 .. Len(w), k # 4
      PROVE  IsByte(w[k]) \/ w[k] \in {v[j] : j \in 1 .. SlotSize}
  <2>1. CASE k \in 1 .. 2
    <3>1. w[k] = le16(s.id)[k]
      <4>1. k = 1 \/ k = 2
        BY <2>1
      <4>. QED
        BY <1>1, <4>1
    <3>. QED
      BY <2>1, <3>1, WordBytes
  <2>2. CASE k = 3
    BY <1>1, <2>2, DataBytes
  <2>3. CASE k > 4
    <3>1. k - 4 \in 1 .. Len(p) /\ 4 + (k - 4) = k
      BY <1>1, <2>3
    <3>2. w[k] = p[k - 4]
      BY <1>1, <3>1
    <3>. QED
      BY <3>1, <3>2
  <2>4. k \in 1 .. 2 \/ k = 3 \/ k > 4
    BY <1>1, <1>2
  <2>. QED
    BY <2>1, <2>2, <2>3, <2>4
<1>3. Marked(l, s, v, w)
  <2>1. 4 \in 1 .. Len(w)
    BY <1>1
  <2>. QED
    BY <1>1, <1>2, <2>1 DEF Marked
<1>. QED
  BY <1>3 DEF w

LEMMA WithSizeLayout ==
  ASSUME NEW s, NEW v, Readable("FIXED_SLOT_WITH_SIZE", s.type, v)
  PROVE  Layout("FIXED_SLOT_WITH_SIZE", s, v)
<1>. DEFINE l == "FIXED_SLOT_WITH_SIZE"
<1>1. IsSeq(v) /\ Len(v) = 4 /\ SlotSize = 4
  BY DEF Readable, SlotSize
<1>2. write_record(l, s, v) = sized_record(s.id, Len(v), v)
  BY <1>1 DEF write_record, fixed_slot_with_size_write
<1>3. Marked(l, s, v, sized_record(s.id, Len(v), v))
  <2>1. /\ StampAt(l) = 4 /\ record_size(l, s.type) = 4 + Len(v)
        /\ Stamp(l, s, v) = checksum(le16(s.id) \o <<data_byte(Len(v))>> \o v)
    BY <1>1 DEF StampAt, record_size, fixed_slot_with_size_record_size, Stamp, StampHead,
       Payload, Slotted
  <2>2. \A k \in 1 .. Len(v) : v[k] \in {v[j] : j \in 1 .. SlotSize}
    BY <1>1
  <2>. QED
    BY <1>1, <2>1, <2>2, SizedMarked
<1>4. read_record(l, s, sized_record(s.id, Len(v), v)) = loaded(le16(s.id), v)
  BY <1>1, SizedIsRead DEF read_record, fixed_slot_with_size_read
<1>5. Whole(l, s, loaded(le16(s.id), v), v)
  BY LoadedFacts DEF Whole, validate_loaded_obj, fixed_slot_with_size_validate
<1>. QED
  BY <1>2, <1>3, <1>4, <1>5 DEF Layout

LEMMA CompactLayout ==
  ASSUME NEW s, NEW v, Readable("COMPACT_PAYLOAD", s.type, v)
  PROVE  Layout("COMPACT_PAYLOAD", s, v)
<1>. DEFINE l == "COMPACT_PAYLOAD"
            p == pack_payload(s.type, v)
<1>1. /\ IsSeq(v) /\ Len(v) = SlotSize /\ v = unpack_payload(s.type, v)
      /\ IsSeq(p) /\ Len(p) = payload_size(s.type)
      /\ \A k \in 1 .. payload_size(s.type) : p[k] = v[k]
      /\ payload_size(s.type) \in 1 .. SlotSize
  BY PackFacts, Small DEF Readable, Slotted
<1>2. write_record(l, s, v) = sized_record(s.id, Len(p), p)
  BY <1>1 DEF write_record, compact_payload_write
<1>3. Marked(l, s, v, sized_record(s.id, Len(p), p))
  <2>1. StampAt(l) = 4
    BY DEF StampAt
  <2>2. record_size(l, s.type) = 4 + Len(p)
    BY <1>1 DEF record_size, compact_payload_record_size
  <2>3. Stamp(l, s, v) = checksum(le16(s.id) \o <<data_byte(Len(p))>> \o p)
    BY <1>1 DEF Stamp, StampHead, Payload, Slotted
  <2>4. \A k \in 1 .. Len(p) : p[k] \in {v[j] : j \in 1 .. SlotSize}
    BY <1>1 DEF SlotSize
  <2>. HIDE DEF p
  <2>. QED
    BY <1>1, <2>1, <2>2, <2>3, <2>4, SizedMarked
<1>4. read_record(l, s, sized_record(s.id, Len(p), p)) = loaded(le16(s.id), v)
  <2>1. read_sized(Len(p), sized_record(s.id, Len(p), p)) = loaded(le16(s.id), p)
    BY <1>1, SizedIsRead
  <2>2. unpack_payload(s.type, p) = v
    BY <1>1, UnpackPack
  <2>. QED
    BY <1>1, <2>1, <2>2, LoadedFacts DEF read_record, compact_payload_read
<1>5. Whole(l, s, loaded(le16(s.id), v), v)
  BY LoadedFacts DEF Whole, validate_loaded_obj, compact_payload_validate
<1>. QED
  BY <1>2, <1>3, <1>4, <1>5 DEF Layout

LEMMA NoSizeLayout ==
  ASSUME NEW s, NEW v, Readable("FIXED_SLOT_NO_SIZE", s.type, v)
  PROVE  Layout("FIXED_SLOT_NO_SIZE", s, v)
<1>. DEFINE l == "FIXED_SLOT_NO_SIZE"
            c == checksum(le16(s.id) \o <<>> \o v)
            w == le16(s.id) \o <<c>> \o v
<1>1. IsSeq(v) /\ Len(v) = 4 /\ SlotSize = 4
  BY DEF Readable, SlotSize
<1>2. write_record(l, s, v) = w
  BY DEF write_record, fixed_slot_no_size_write, calc_crc_with_id
<1>3. /\ IsSeq(w) /\ Len(w) = 3 + Len(v)
      /\ w[1] = le16(s.id)[1] /\ w[2] = le16(s.id)[2] /\ w[3] = c
      /\ \A k \in 1 .. Len(v) : w[3 + k] = v[k]
  <2>1. IsSeq(v)
    BY <1>1
  <2>. HIDE DEF c
  <2>. QED
    BY <2>1, UnsizedFacts
<1>4. c = Stamp(l, s, v) /\ StampAt(l) = 3 /\ record_size(l, s.type) = 7
  BY DEF Stamp, StampHead, Payload, Slotted, StampAt, record_size,
     fixed_slot_no_size_record_size
<1>5. Marked(l, s, v, w)
  <2>. HIDE DEF w, c
  <2>1. ASSUME NEW k \in 1 .. Len(w), k # 3
        PROVE  IsByte(w[k]) \/ w[k] \in {v[j] : j \in 1 .. SlotSize}
    <3>1. CASE k \in 1 .. 2
      <4>1. w[k] = le16(s.id)[k]
        <5>1. k = 1 \/ k = 2
          BY <3>1
        <5>. QED
          BY <1>3, <5>1
      <4>. QED
        BY <3>1, <4>1, WordBytes
    <3>2. CASE k > 3
      <4>1. k - 3 \in 1 .. Len(v) /\ 3 + (k - 3) = k
        BY <1>1, <1>3, <3>2
      <4>2. w[k] = v[k - 3]
        BY <1>3, <4>1
      <4>. QED
        BY <1>1, <4>1, <4>2
    <3>3. k \in 1 .. 2 \/ k > 3
      BY <1>1, <1>3, <2>1
    <3>. QED
      BY <3>1, <3>2, <3>3
  <2>2. 3 \in 1 .. Len(w) /\ Len(w) = 7
    BY <1>1, <1>3
  <2>. QED
    BY <1>3, <1>4, <2>1, <2>2 DEF Marked
<1>6. read_record(l, s, w) = loaded(le16(s.id), v)
  <2>. HIDE DEF w
  <2>1. SubSeq(w, 1, 2) = le16(s.id)
    BY <1>1, <1>3, TwoBytes
  <2>2. SubSeq(w, 3 + 1, 3 + Len(v)) = v
    <3>1. /\ IsSeq(w) /\ IsSeq(v) /\ 3 \in Nat /\ Len(w) = 3 + Len(v)
          /\ \A k \in 1 .. Len(v) : w[3 + k] = v[k]
      BY <1>1, <1>3
    <3>. QED
      BY <3>1, EndOf
  <2>3. SubSeq(w, 4, 7) = v
    BY <1>1, <2>2
  <2>4. w[3] = calc_crc_with_id(le16(s.id), <<>>, v)
    BY <1>3 DEF calc_crc_with_id
  <2>. QED
    BY <2>1, <2>3, <2>4 DEF read_record, fixed_slot_no_size_read
<1>7. Whole(l, s, loaded(le16(s.id), v), v)
  BY LoadedFacts DEF Whole, validate_loaded_obj, fixed_slot_no_size_validate
<1>. QED
  BY <1>2, <1>5, <1>6, <1>7 DEF Layout

LEMMA PayloadOnlyLayouts ==
  ASSUME NEW l \in {"FIXED_PAYLOAD_ONLY", "GROUPED_PAYLOAD_ONLY"},
         NEW s, NEW v, Readable(l, s.type, v)
  PROVE  Layout(l, s, v)
<1>. DEFINE p == pack_payload(s.type, v)
            c == checksum(p)
            w == <<c>> \o p
<1>1. /\ IsSeq(v) /\ Len(v) = SlotSize /\ v = unpack_payload(s.type, v)
      /\ IsSeq(p) /\ Len(p) = payload_size(s.type)
      /\ \A k \in 1 .. payload_size(s.type) : p[k] = v[k]
      /\ payload_size(s.type) \in 1 .. SlotSize
  BY PackFacts, Small DEF Readable, Slotted
<1>2. write_record(l, s, v) = w
  BY DEF write_record, fixed_payload_only_write, grouped_payload_only_write,
     payload_record, calc_crc
<1>3. /\ IsSeq(w) /\ Len(w) = 1 + Len(p) /\ w[1] = c
      /\ \A k \in 1 .. Len(p) : w[1 + k] = p[k]
  <2>1. IsSeq(p)
    BY <1>1
  <2>. HIDE DEF c, p
  <2>. QED
    BY <2>1, MarkedFacts
<1>4. c = Stamp(l, s, v)
  <2>1. Payload(l, s.type, v) = p /\ StampHead(l, s) = <<>>
    BY DEF Payload, Slotted, StampHead
  <2>2. <<>> \o p = p
    BY <1>1, EmptySeq
  <2>. HIDE DEF p
  <2>. QED
    BY <2>1, <2>2 DEF Stamp
<1>5. StampAt(l) = 1 /\ record_size(l, s.type) = 1 + payload_size(s.type)
  BY DEF StampAt, record_size, fixed_payload_only_record_size,
     grouped_payload_only_record_size, payload_record_size
<1>6. Marked(l, s, v, w)
  <2>. HIDE DEF w, c, p
  <2>1. ASSUME NEW k \in 1 .. Len(w), k # 1
        PROVE  w[k] \in {v[j] : j \in 1 .. SlotSize}
    <3>1. k - 1 \in 1 .. Len(p) /\ 1 + (k - 1) = k
      BY <1>1, <1>3, <2>1
    <3>2. w[k] = p[k - 1]
      BY <1>3, <3>1
    <3>3. k - 1 \in 1 .. SlotSize
      BY <1>1, <3>1 DEF SlotSize
    <3>. QED
      BY <1>1, <3>1, <3>2, <3>3
  <2>2. 1 \in 1 .. Len(w)
    BY <1>1, <1>3
  <2>. QED
    BY <1>1, <1>3, <1>4, <1>5, <2>1, <2>2 DEF Marked
<1>7. read_record(l, s, w) = loaded(<<>>, v)
  <2>. HIDE DEF w
  <2>1. Tail(w) = p
    <3>1. /\ IsSeq(Tail(w)) /\ Len(Tail(w)) = Len(w) - 1
          /\ \A k \in 1 .. Len(w) - 1 : Tail(w)[k] = w[k + 1]
      BY <1>1, <1>3, TailFacts
    <3>. HIDE DEF p, c
    <3>2. \A k \in 1 .. Len(p) : Tail(w)[k] = p[k]
      BY <1>1, <1>3, <3>1
    <3>3. IsSeq(p) /\ IsSeq(Tail(w)) /\ Len(p) \in Nat /\ Len(Tail(w)) = Len(p)
      BY <1>1, <1>3, <3>1, LengthIsNatural
    <3>. QED
      BY <3>2, <3>3, SeqEqual
  <2>2. unpack_payload(s.type, p) = v
    BY <1>1, UnpackPack
  <2>3. w[1] = calc_crc(p)
    BY <1>3 DEF calc_crc
  <2>. HIDE DEF p
  <2>4. read_payload(s, w) = loaded(<<>>, v)
    BY <2>1, <2>2, <2>3 DEF read_payload
  <2>. QED
    BY <2>4 DEF read_record, fixed_payload_only_read, grouped_payload_only_read
<1>8. Whole(l, s, loaded(<<>>, v), v)
  BY LoadedFacts DEF Whole, validate_loaded_obj
<1>. QED
  BY <1>2, <1>6, <1>7, <1>8 DEF Layout

\* In every layout the record of a value has the checksum of the slot and the
\* value at one place, bytes elsewhere, and is read back as that value.
LEMMA LayoutFacts ==
  ASSUME NEW l \in Layouts, NEW s, NEW v, Readable(l, s.type, v)
  PROVE  Layout(l, s, v)
  BY WithSizeLayout, CompactLayout, NoSizeLayout, PayloadOnlyLayouts DEF Layouts

LEMMA SizedSays ==
  ASSUME NEW id, NEW size \in Nat, NEW cells, IsSeq(cells), Len(cells) = 4 + size,
         read_sized(size, cells).status = "OK", read_sized(size, cells).id = le16(id)
  PROVE  /\ IsSeq(read_sized(size, cells).data) /\ Len(read_sized(size, cells).data) = size
         /\ cells[4] = checksum(le16(id) \o <<data_byte(size)>> \o read_sized(size, cells).data)
<1>. DEFINE p == SubSeq(cells, 5, 4 + size)
            h == SubSeq(cells, 1, 2)
<1>1. IsSeq(p) /\ Len(p) = size
  <2>1. /\ IsSeq(p)
        /\ Len(p) = IF 5 =< 4 + size THEN 4 + size - 5 + 1 ELSE 0
    BY SubSeqFacts
  <2>. QED
    BY <2>1
<1>2. failed("ERROR").status # "OK" /\ failed("ERROR_CRC").status # "OK"
  BY DEF failed
<1>3. /\ cells[3] = data_byte(size)
      /\ cells[4] = calc_crc_with_id(h, <<cells[3]>>, p)
      /\ read_sized(size, cells) = loaded(h, p)
  BY <1>2 DEF read_sized
<1>. HIDE DEF p, h
<1>4. h = le16(id) /\ read_sized(size, cells).data = p
  BY <1>3, LoadedFacts
<1>. QED
  BY <1>1, <1>3, <1>4 DEF calc_crc_with_id

LEMMA UnpackedIsReadable ==
  ASSUME NEW l, NEW type, NEW c
  PROVE  Readable(l, type, unpack_payload(type, c))
  BY UnpackFacts, UnpackedStays DEF Readable

\* A read that is accepted answers the value the checksum speaks for.
LEMMA ReadSays ==
  ASSUME NEW l \in Layouts, NEW s, NEW cells, IsSeq(cells),
         Len(cells) = record_size(l, s.type), NEW v, Whole(l, s, read_record(l, s, cells), v)
  PROVE  Readable(l, s.type, v) /\ cells[StampAt(l)] = Stamp(l, s, v)
<1>. DEFINE size == payload_size(s.type)
            obj  == read_record(l, s, cells)
<1>1. obj.status = "OK" /\ obj.data = v /\ validate_loaded_obj(l, s, obj)
  BY DEF Whole
<1>2. size \in Nat /\ size > 0
  BY Small DEF SlotSize
<1>3. CASE l = "FIXED_SLOT_WITH_SIZE"
  <2>1. obj = read_sized(4, cells) /\ obj.id = le16(s.id) /\ Len(cells) = 4 + 4
    BY <1>1, <1>3 DEF read_record, fixed_slot_with_size_read, SlotSize, validate_loaded_obj,
       fixed_slot_with_size_validate, record_size, fixed_slot_with_size_record_size
  <2>. HIDE DEF obj
  <2>2. IsSeq(v) /\ Len(v) = 4 /\ cells[4] = checksum(le16(s.id) \o <<data_byte(4)>> \o v)
    <3>1. /\ 4 \in Nat /\ read_sized(4, cells).status = "OK"
          /\ read_sized(4, cells).id = le16(s.id) /\ read_sized(4, cells).data = v
      BY <1>1, <2>1
    <3>2. /\ IsSeq(read_sized(4, cells).data) /\ Len(read_sized(4, cells).data) = 4
          /\ cells[4] = checksum(le16(s.id) \o <<data_byte(4)>> \o read_sized(4, cells).data)
      BY <2>1, <3>1, SizedSays
    <3>. QED
      BY <3>1, <3>2
  <2>. QED
    BY <1>3, <2>2 DEF Readable, Slotted, SlotSize, Stamp, StampAt, StampHead, Payload
<1>4. CASE l = "COMPACT_PAYLOAD"
  <2>. DEFINE raw == read_sized(size, cells)
  <2>1. obj = IF raw.status # "OK" THEN raw
              ELSE loaded(raw.id, unpack_payload(s.type, raw.data))
    BY <1>4 DEF read_record, compact_payload_read
  <2>2. obj.id = le16(s.id) /\ Len(cells) = 4 + size
    BY <1>1, <1>4 DEF validate_loaded_obj, compact_payload_validate, record_size,
       compact_payload_record_size
  <2>. HIDE DEF obj, raw
  <2>3. raw.status = "OK" /\ raw.id = le16(s.id) /\ v = unpack_payload(s.type, raw.data)
    BY <1>1, <2>1, <2>2, LoadedFacts
  <2>4. /\ IsSeq(raw.data) /\ Len(raw.data) = size
        /\ cells[4] = checksum(le16(s.id) \o <<data_byte(size)>> \o raw.data)
    <3>. HIDE DEF size
    <3>. QED
      BY <1>2, <2>2, <2>3, SizedSays DEF raw
  <2>5. pack_payload(s.type, v) = raw.data
    BY <2>3, <2>4, PackUnpack
  <2>6. Readable(l, s.type, v)
    BY <2>3, UnpackedIsReadable
  <2>7. Stamp(l, s, v) = checksum(le16(s.id) \o <<data_byte(size)>> \o raw.data)
    BY <1>4, <2>5 DEF Stamp, StampHead, Payload, Slotted
  <2>. QED
    BY <1>4, <2>4, <2>6, <2>7 DEF StampAt
<1>5. CASE l = "FIXED_SLOT_NO_SIZE"
  <2>. DEFINE p == SubSeq(cells, 4, 7)
  <2>1. Len(cells) = 7
    BY <1>5 DEF record_size, fixed_slot_no_size_record_size
  <2>2. IsSeq(p) /\ Len(p) = 4
    <3>1. 4 \in Nat /\ 7 \in Nat /\ 4 >= 1 /\ 7 =< Len(cells)
      BY <2>1
    <3>2. IsSeq(p) /\ Len(p) = IF 4 =< 7 THEN 7 - 4 + 1 ELSE 0
      BY <3>1, SubSeqFacts
    <3>. QED
      BY <3>2
  <2>3. obj = IF cells[3] # calc_crc_with_id(SubSeq(cells, 1, 2), <<>>, p)
              THEN failed("ERROR_CRC") ELSE loaded(SubSeq(cells, 1, 2), p)
    BY <1>5 DEF read_record, fixed_slot_no_size_read
  <2>4. obj.id = le16(s.id)
    BY <1>1, <1>5 DEF validate_loaded_obj, fixed_slot_no_size_validate
  <2>5. failed("ERROR_CRC").status # "OK"
    BY DEF failed
  <2>. HIDE DEF obj, p
  <2>6. v = p /\ cells[3] = calc_crc_with_id(le16(s.id), <<>>, p)
    BY <1>1, <2>3, <2>4, <2>5, LoadedFacts
  <2>. QED
    BY <1>5, <2>2, <2>6 DEF Readable, Slotted, SlotSize, Stamp, StampAt, StampHead, Payload,
       calc_crc_with_id
<1>6. CASE l \in {"FIXED_PAYLOAD_ONLY", "GROUPED_PAYLOAD_ONLY"}
  <2>. DEFINE p == Tail(cells)
  <2>1. Len(cells) = 1 + size
    BY <1>6 DEF record_size, fixed_payload_only_record_size,
       grouped_payload_only_record_size, payload_record_size
  <2>2. IsSeq(p) /\ Len(p) = size
    <3>1. IsSeq(p) /\ Len(p) = Len(cells) - 1
      BY <1>2, <2>1, TailFacts
    <3>. QED
      BY <1>2, <2>1, <3>1
  <2>3. obj = IF cells[1] # calc_crc(p) THEN failed("ERROR_CRC")
              ELSE loaded(<<>>, unpack_payload(s.type, p))
    BY <1>6 DEF read_record, fixed_payload_only_read, grouped_payload_only_read, read_payload
  <2>4. failed("ERROR_CRC").status # "OK"
    BY DEF failed
  <2>. HIDE DEF obj, p
  <2>5. v = unpack_payload(s.type, p) /\ cells[1] = checksum(p)
    BY <1>1, <2>3, <2>4, LoadedFacts DEF calc_crc
  <2>6. pack_payload(s.type, v) = p
    BY <2>2, <2>5, PackUnpack
  <2>7. Readable(l, s.type, v)
    BY <2>5, UnpackedIsReadable
  <2>8. Stamp(l, s, v) = checksum(p)
    <3>1. Payload(l, s.type, v) = p /\ StampHead(l, s) = <<>>
      BY <1>6, <2>6 DEF Payload, Slotted, StampHead
    <3>2. <<>> \o p = p
      BY <2>2, EmptySeq
    <3>. QED
      BY <3>1, <3>2 DEF Stamp
  <2>. QED
    BY <1>6, <2>5, <2>7, <2>8 DEF StampAt
<1>. QED
  BY <1>3, <1>4, <1>5, <1>6 DEF Layouts

-----------------------------------------------------------------------------
(* Records in the EEPROM.                                                  *)

\* The bytes of record i of table t, and the one that holds its checksum.
Start(l, t, i)   == abs_addr(record_addr(l, t, i))
Size(l, t, i)    == record_size(l, t[i].type)
InRange(l, t, i) == is_range_valid(record_addr(l, t, i), Size(l, t, i))
StampCell(l, mem, t, i) == mem[Start(l, t, i) + StampAt(l) - 1]

CellsAt(mem, a, n) == [k \in 1 .. n |-> mem[abs_addr(a) + k - 1]]

LEMMA CellsFacts ==
  ASSUME NEW mem, NEW a, NEW n \in Nat
  PROVE  /\ IsSeq(CellsAt(mem, a, n)) /\ Len(CellsAt(mem, a, n)) = n
         /\ \A k \in 1 .. n : CellsAt(mem, a, n)[k] = mem[abs_addr(a) + k - 1]
<1>. DEFINE c == CellsAt(mem, a, n)
<1>1. c = [k \in 1 .. n |-> c[k]]
  BY DEF CellsAt
<1>2. IsSeq(c) /\ Len(c) = n
  <2>. HIDE DEF c
  <2>. QED
    BY <1>1, FunctionIsSeq
<1>. QED
  BY <1>2 DEF CellsAt

LEMMA ReadCells ==
  ASSUME NEW mem, NEW a, NEW n
  PROVE  /\ is_range_valid(a, n) => /\ read_cells(mem, a, n)[1] = "OK"
                                    /\ read_cells(mem, a, n)[2] = CellsAt(mem, a, n)
         /\ ~is_range_valid(a, n) => read_cells(mem, a, n)[1] # "OK"
  BY DEF read_cells, CellsAt

LEMMA RecordPlace ==
  ASSUME NEW l \in Layouts, NEW t \in Tables, NEW i \in DOMAIN t
  PROVE  /\ record_addr(l, t, i) \in Nat /\ record_addr(l, t, i) >= HeadSize
         /\ Start(l, t, i) \in Nat /\ Start(l, t, i) >= BaseAddr + HeadSize
         /\ Size(l, t, i) \in Nat \ {0}
<1>1. record_addr(l, t, i) \in Nat /\ record_addr(l, t, i) >= HeadSize
  BY RecordsApart DEF RecordsAreApart, record_addr
<1>2. Size(l, t, i) \in Nat \ {0}
  BY TableFacts, RecordSizesAreTerms DEF Size
<1>. QED
  BY <1>1, <1>2, WindowBounds DEF Start, abs_addr, HeadSize

LEMMA StampIsInside ==
  ASSUME NEW l \in Layouts, NEW t \in Tables, NEW i \in DOMAIN t
  PROVE  StampAt(l) \in 1 .. Size(l, t, i)
<1>1. payload_size(t[i].type) \in 1 .. 4
  BY Small DEF SlotSize
<1>. QED
  BY <1>1 DEF Layouts, StampAt, Size, record_size, fixed_slot_with_size_record_size,
     fixed_slot_no_size_record_size, compact_payload_record_size,
     fixed_payload_only_record_size, grouped_payload_only_record_size, payload_record_size

\* What a stored record is, spelled out.
LEMMA StoredRecord ==
  ASSUME NEW l, NEW t, NEW i, NEW mem
  PROVE  LET obj == read_record(l, t[i], CellsAt(mem, record_addr(l, t, i), Size(l, t, i)))
         IN  stored_record(l, mem, t, i)
               = IF ~InRange(l, t, i) THEN failed("ERROR_NVM")
                 ELSE IF obj.status # "OK" THEN obj
                 ELSE IF validate_loaded_obj(l, t[i], obj) THEN obj ELSE failed("ERROR")
<1>. DEFINE cells == read_cells(mem, record_addr(l, t, i), Size(l, t, i))
            obj   == read_record(l, t[i], cells[2])
<1>1. stored_record(l, mem, t, i)
        = IF cells[1] # "OK" THEN failed("ERROR_NVM")
          ELSE IF obj.status # "OK" THEN obj
          ELSE IF validate_loaded_obj(l, t[i], obj) THEN obj ELSE failed("ERROR")
  BY DEF stored_record, Size
<1>2. CASE InRange(l, t, i)
  <2>1. /\ cells[1] = "OK"
        /\ cells[2] = CellsAt(mem, record_addr(l, t, i), Size(l, t, i))
    BY <1>2, ReadCells DEF InRange
  <2>. HIDE DEF cells
  <2>. QED
    BY <1>1, <1>2, <2>1
<1>3. CASE ~InRange(l, t, i)
  <2>1. cells[1] # "OK"
    BY <1>3, ReadCells DEF InRange
  <2>. QED
    BY <1>1, <1>3, <2>1
<1>. QED
  BY <1>2, <1>3

LEMMA FailedIsNotOk == \A st : st # "OK" => failed(st).status # "OK"
  BY DEF failed

\* A record that reads as a value has the checksum of that value.
LEMMA StoredSays ==
  ASSUME NEW l \in Layouts, NEW t \in Tables, NEW i \in DOMAIN t, NEW mem,
         stored_record(l, mem, t, i).status = "OK"
  PROVE  /\ InRange(l, t, i)
         /\ Readable(l, t[i].type, stored_record(l, mem, t, i).data)
         /\ StampCell(l, mem, t, i) = Stamp(l, t[i], stored_record(l, mem, t, i).data)
<1>. DEFINE cells == CellsAt(mem, record_addr(l, t, i), Size(l, t, i))
            obj   == read_record(l, t[i], cells)
            v     == stored_record(l, mem, t, i).data
<1>1. InRange(l, t, i) /\ Whole(l, t[i], obj, v)
  <2>. DEFINE r == stored_record(l, mem, t, i)
  <2>1. r = IF ~InRange(l, t, i) THEN failed("ERROR_NVM")
            ELSE IF obj.status # "OK" THEN obj
            ELSE IF validate_loaded_obj(l, t[i], obj) THEN obj ELSE failed("ERROR")
    BY StoredRecord
  <2>2. r.status = "OK" /\ v = r.data
    OBVIOUS
  <2>3. failed("ERROR_NVM").status # "OK" /\ failed("ERROR").status # "OK"
    BY FailedIsNotOk
  <2>. HIDE DEF r, v, obj
  <2>. QED
    BY <2>1, <2>2, <2>3 DEF Whole
<1>2. Size(l, t, i) \in Nat
  BY RecordPlace
<1>3. IsSeq(cells) /\ Len(cells) = record_size(l, t[i].type)
  BY <1>2, CellsFacts DEF Size
<1>. HIDE DEF cells, v
<1>4. Readable(l, t[i].type, v) /\ cells[StampAt(l)] = Stamp(l, t[i], v)
  BY <1>1, <1>3, ReadSays
<1>5. cells[StampAt(l)] = StampCell(l, mem, t, i)
  BY <1>2, StampIsInside, CellsFacts DEF cells, StampCell, Start
<1>. QED
  BY <1>1, <1>4, <1>5 DEF v

\* The bytes of a record say what it is.
LEMMA SameBytesSameRecord ==
  ASSUME NEW l \in Layouts, NEW t \in Tables, NEW i \in DOMAIN t, NEW mem, NEW other,
         \A k \in 1 .. Size(l, t, i) : mem[Start(l, t, i) + k - 1] = other[Start(l, t, i) + k - 1]
  PROVE  stored_record(l, mem, t, i) = stored_record(l, other, t, i)
<1>1. CellsAt(mem, record_addr(l, t, i), Size(l, t, i))
        = CellsAt(other, record_addr(l, t, i), Size(l, t, i))
  BY DEF CellsAt, Start
<1>. QED
  BY <1>1, StoredRecord

\* A record all of whose bytes were written is that record.
LEMMA WholeIsStored ==
  ASSUME NEW l \in Layouts, NEW t \in Tables, NEW i \in DOMAIN t, NEW mem, NEW v,
         Readable(l, t[i].type, v), InRange(l, t, i),
         \A k \in 1 .. Size(l, t, i) :
           mem[Start(l, t, i) + k - 1] = write_record(l, t[i], v)[k]
  PROVE  stored_record(l, mem, t, i).status = "OK" /\ stored_record(l, mem, t, i).data = v
<1>. DEFINE cells == CellsAt(mem, record_addr(l, t, i), Size(l, t, i))
            w     == write_record(l, t[i], v)
<1>1. Marked(l, t[i], v, w) /\ Whole(l, t[i], read_record(l, t[i], w), v)
  BY LayoutFacts DEF Layout
<1>2. cells = w
  <2>1. Size(l, t, i) \in Nat
    BY RecordPlace
  <2>2. /\ IsSeq(cells) /\ Len(cells) = Size(l, t, i)
        /\ \A k \in 1 .. Size(l, t, i) : cells[k] = mem[Start(l, t, i) + k - 1]
    BY <2>1, CellsFacts DEF Start
  <2>3. IsSeq(w) /\ Len(w) = Size(l, t, i)
    BY <1>1 DEF Marked, Size
  <2>. HIDE DEF cells, w
  <2>4. \A k \in 1 .. Size(l, t, i) : cells[k] = w[k]
    BY <2>2 DEF w
  <2>. QED
    BY <2>2, <2>3, <2>4, SeqEqual
<1>3. stored_record(l, mem, t, i) = read_record(l, t[i], w)
  <2>. DEFINE obj == read_record(l, t[i], cells)
  <2>1. stored_record(l, mem, t, i)
          = IF obj.status # "OK" THEN obj
            ELSE IF validate_loaded_obj(l, t[i], obj) THEN obj ELSE failed("ERROR")
    BY StoredRecord
  <2>. HIDE DEF cells, w
  <2>. QED
    BY <1>1, <1>2, <2>1 DEF Whole
<1>. QED
  BY <1>1, <1>3 DEF Whole

-----------------------------------------------------------------------------
(* What the header says of a table.                                        *)

LEMMA IdFacts ==
  ASSUME NEW l, NEW t, NEW n \in Nat
  PROVE  /\ IsSeq(table_id_for_count(l, t, n)) /\ Len(table_id_for_count(l, t, n)) = n
         /\ \A i \in 1 .. n : table_id_for_count(l, t, n)[i]
              = [type |-> t[i].type, id |-> IF has_stored_id(l) THEN t[i].id ELSE 0]
<1>. DEFINE d == table_id_for_count(l, t, n)
<1>1. d = [i \in 1 .. n |-> d[i]]
  BY DEF table_id_for_count
<1>2. IsSeq(d) /\ Len(d) = n
  <2>. HIDE DEF d
  <2>. QED
    BY <1>1, FunctionIsSeq
<1>. QED
  BY <1>2 DEF table_id_for_count

\* Tables with the same first slots, for the header of a layout.
Shares(l, t, u, n) ==
  /\ n \in Nat /\ n =< Len(t) /\ n =< Len(u)
  /\ appends_tail(l) \/ (n = Len(t) /\ n = Len(u))
  /\ table_id_for_count(l, t, n) = table_id_for_count(l, u, n)

LEMMA SharedSlots ==
  ASSUME NEW l \in Layouts, NEW t \in Tables, NEW u \in Tables, NEW n, Shares(l, t, u, n),
         NEW i \in 1 .. n
  PROVE  /\ i \in DOMAIN t /\ i \in DOMAIN u /\ t[i].type = u[i].type
         /\ has_stored_id(l) => t[i] = u[i]
         /\ record_addr(l, t, i) = record_addr(l, u, i)
<1>1. n \in Nat /\ n =< Len(t) /\ n =< Len(u)
  BY DEF Shares
<1>2. \A k \in 1 .. n : /\ t[k].type = u[k].type
                        /\ has_stored_id(l) => t[k].id = u[k].id
  <2>1. ASSUME NEW k \in 1 .. n
        PROVE  t[k].type = u[k].type /\ (has_stored_id(l) => t[k].id = u[k].id)
    <3>. DEFINE a == [type |-> t[k].type, id |-> IF has_stored_id(l) THEN t[k].id ELSE 0]
                b == [type |-> u[k].type, id |-> IF has_stored_id(l) THEN u[k].id ELSE 0]
    <3>1. a = b
      BY <1>1, IdFacts DEF Shares
    <3>2. a.type = b.type /\ a.id = b.id
      BY <3>1
    <3>. QED
      BY <3>2
  <2>. QED
    BY <2>1
<1>3. \A k \in 1 .. n : k \in DOMAIN t /\ k \in DOMAIN u
  <2>1. Len(t) \in Nat /\ Len(u) \in Nat /\ DOMAIN t = 1 .. Len(t) /\ DOMAIN u = 1 .. Len(u)
    BY TableFacts DEF Slots
  <2>2. \A a, b \in Nat : n =< a /\ n =< b => \A k \in 1 .. n : k \in 1 .. a /\ k \in 1 .. b
    BY <1>1
  <2>. QED
    BY <1>1, <2>1, <2>2
<1>4. t[i] \in [id : Nat, type : Types] /\ u[i] \in [id : Nat, type : Types]
  BY <1>3, TableFacts
<1>5. has_stored_id(l) => t[i] = u[i]
  BY <1>2, <1>4
<1>6. record_addr(l, t, i) = record_addr(l, u, i)
  BY <1>1, <1>2, AppendsKeepAddresses DEF Shares, record_addr
<1>. QED
  BY <1>2, <1>3, <1>5, <1>6

\* A record of a slot that two tables share is the same for both.
LEMMA SharedRecord ==
  ASSUME NEW l \in Layouts, NEW t \in Tables, NEW u \in Tables, NEW n, Shares(l, t, u, n),
         NEW i \in 1 .. n, NEW mem
  PROVE  /\ stored_record(l, mem, t, i) = stored_record(l, mem, u, i)
         /\ InRange(l, t, i) = InRange(l, u, i)
         /\ StampCell(l, mem, t, i) = StampCell(l, mem, u, i)
         /\ \A v : Stamp(l, t[i], v) = Stamp(l, u[i], v)
<1>1. /\ t[i].type = u[i].type /\ (has_stored_id(l) => t[i] = u[i])
      /\ record_addr(l, t, i) = record_addr(l, u, i)
  BY SharedSlots
<1>2. Size(l, t, i) = Size(l, u, i) /\ Start(l, t, i) = Start(l, u, i)
  BY <1>1 DEF Size, Start
<1>3. CASE has_stored_id(l)
  BY <1>1, <1>2, <1>3, StoredRecord DEF InRange, StampCell
<1>4. CASE ~has_stored_id(l)
  <2>1. l \in {"FIXED_PAYLOAD_ONLY", "GROUPED_PAYLOAD_ONLY"}
    BY <1>4 DEF has_stored_id, Layouts
  <2>2. \A cells : /\ read_record(l, t[i], cells) = read_record(l, u[i], cells)
                   /\ \A obj : validate_loaded_obj(l, t[i], obj) /\ validate_loaded_obj(l, u[i], obj)
    BY <1>1, <2>1 DEF read_record, fixed_payload_only_read, grouped_payload_only_read,
       read_payload, validate_loaded_obj
  <2>3. stored_record(l, mem, t, i) = stored_record(l, mem, u, i)
    BY <1>1, <1>2, <2>2, StoredRecord DEF InRange
  <2>4. \A v : Stamp(l, t[i], v) = Stamp(l, u[i], v)
    BY <1>1, <2>1 DEF Stamp, StampHead, Payload, Slotted
  <2>. QED
    BY <1>1, <1>2, <2>3, <2>4 DEF InRange, StampCell
<1>. QED
  BY <1>3, <1>4

\* The headers that can be in the image.
KnownHead(l, h) == h.body = Bad \/ \E u \in Tables : h.body = Described(l, u)

LEMMA CoveredFacts ==
  ASSUME NEW l \in Layouts, NEW t \in Tables, NEW h, KnownHead(l, h)
  PROVE  Covered(l, h, t)
           = IF /\ h.sign /\ h.body # Bad /\ Len(h.body) =< Len(t)
                /\ h.body = table_id_for_count(l, t, Len(h.body))
                /\ appends_tail(l) \/ Len(h.body) = Len(t)
             THEN 1 .. Len(h.body) ELSE {}
<1>1. CASE h.body = Bad
  BY <1>1 DEF Covered
<1>2. CASE h.body # Bad
  <2>1. PICK u \in Tables : h.body = Described(l, u)
    BY <1>2 DEF KnownHead
  <2>2. Len(h.body) \in Nat
    BY <2>1, TableFacts, IdFacts DEF Described
  <2>3. Len(t) \in Nat
    BY TableFacts
  <2>4. Len(h.body) > Len(t) <=> ~(Len(h.body) =< Len(t))
    BY <2>2, <2>3
  <2>. DEFINE n == Len(h.body)
              m == Len(t)
              fits == h.body = table_id_for_count(l, t, n)
  <2>5. check_compat(l, t, n, h.body) # "REBUILD" <=> n =< m /\ fits /\ (appends_tail(l) \/ n = m)
    <3>1. check_compat(l, t, n, h.body)
            = IF n > m THEN "REBUILD" ELSE IF ~fits THEN "REBUILD"
              ELSE IF n = m THEN "EXACT_MATCH"
              ELSE IF appends_tail(l) THEN "PREFIX_APPEND" ELSE "REBUILD"
      BY DEF check_compat
    <3>. HIDE DEF n, m, fits
    <3>. QED
      BY <2>4, <3>1 DEF n, m
  <2>. QED
    BY <2>5 DEF Covered
<1>. QED
  BY <1>1, <1>2

\* The slots two tables find under one header are ones they share.
LEMMA CoveredShares ==
  ASSUME NEW l \in Layouts, NEW t \in Tables, NEW u \in Tables, NEW h, KnownHead(l, h),
         NEW i \in Covered(l, h, t) \cap Covered(l, h, u)
  PROVE  \E n : Shares(l, t, u, n) /\ i \in 1 .. n
<1>1. /\ h.body # Bad /\ i \in 1 .. Len(h.body)
      /\ Len(h.body) =< Len(t) /\ Len(h.body) =< Len(u)
      /\ h.body = table_id_for_count(l, t, Len(h.body))
      /\ h.body = table_id_for_count(l, u, Len(h.body))
      /\ appends_tail(l) \/ (Len(h.body) = Len(t) /\ Len(h.body) = Len(u))
  <2>1. i \in Covered(l, h, t) /\ i \in Covered(l, h, u)
    OBVIOUS
  <2>. QED
    BY <2>1, CoveredFacts
<1>2. Len(h.body) \in Nat
  BY <1>1, TableFacts, IdFacts DEF Described, KnownHead
<1>. QED
  BY <1>1, <1>2 DEF Shares

-----------------------------------------------------------------------------
(* The header in the EEPROM.                                               *)

HeadFits == is_range_valid(0, HeadSize)
HeadCell(mem) == mem[BaseAddr + 11]
HeadMark(l, t) == <<-3, 2, Described(l, t)>>

LEMMA SignFacts ==
  /\ IsSeq(Sign) /\ Len(Sign) = 4
  /\ \A k \in 1 .. 4 : Sign[k] # Erased /\ Len(Sign[k]) = 1
<1>1. \A a, b, c, e : <<a, b, c, e>> \in Seq({a, b, c, e})
  OBVIOUS
<1>2. IsSeq(Sign) /\ Len(Sign) = 4
  BY <1>1 DEF Sign, IsSeq
<1>3. \A k \in 1 .. 4 : k = 1 \/ k = 2 \/ k = 3 \/ k = 4
  OBVIOUS
<1>4. /\ Sign[1] = <<71>> /\ Sign[2] = <<82>> /\ Sign[3] = <<65>> /\ Sign[4] = <<80>>
      /\ Erased = <<255>>
  BY DEF Sign, data_byte, Erased
<1>5. \A k \in 1 .. 4 : Sign[k] # Erased /\ Len(Sign[k]) = 1
  BY <1>3, <1>4
<1>. QED
  BY <1>2, <1>5

LEMMA HeadImageFacts ==
  ASSUME NEW l \in Layouts, NEW t \in Tables
  PROVE  /\ IsSeq(HeadImage[l][t]) /\ Len(HeadImage[l][t]) = HeadSize
         /\ \A k \in 1 .. 4 : HeadImage[l][t][k] = Sign[k]
         /\ HeadImage[l][t][12] = HeadMark(l, t)
         /\ \A k \in 1 .. HeadSize : Len(HeadImage[l][t][k]) # 2
<1>. DEFINE a == Sign
            b == le16(Len(t))
            c == [k \in 1 .. 4 |-> <<-2, k, Described(l, t)>>]
            d == [k \in 1 .. 2 |-> <<-3, k, Described(l, t)>>]
<1>1. HeadImage[l][t] = a \o b \o c \o d
  BY DEF HeadImage, HeadCells
<1>2. /\ IsSeq(b) /\ Len(b) = 2 /\ \A k \in 1 .. 2 : Len(b[k]) = 1
  <2>1. \A n : \A k \in 1 .. 2 : Len(le16(n)[k]) = 1
    <3>1. SUFFICES ASSUME NEW n, NEW k \in 1 .. 2 PROVE Len(le16(n)[k]) = 1
      OBVIOUS
    <3>2. k = 1 \/ k = 2
      OBVIOUS
    <3>. QED
      BY <3>2 DEF le16, data_byte
  <2>. QED
    BY <2>1, WordIsSeq, WordFacts
<1>3. IsSeq(c) /\ Len(c) = 4 /\ \A k \in 1 .. 4 : Len(c[k]) = 3
  <2>1. c = [k \in 1 .. 4 |-> c[k]] /\ \A k \in 1 .. 4 : Len(c[k]) = 3
    OBVIOUS
  <2>. HIDE DEF c
  <2>. QED
    BY <2>1, FunctionIsSeq
<1>4. /\ IsSeq(d) /\ Len(d) = 2 /\ \A k \in 1 .. 2 : Len(d[k]) = 3
      /\ d[2] = HeadMark(l, t)
  <2>1. /\ d = [k \in 1 .. 2 |-> d[k]] /\ \A k \in 1 .. 2 : Len(d[k]) = 3
        /\ d[2] = HeadMark(l, t)
    BY DEF HeadMark
  <2>. HIDE DEF d
  <2>. QED
    BY <2>1, FunctionIsSeq
<1>5. IsSeq(a) /\ Len(a) = 4 /\ \A k \in 1 .. 4 : Len(a[k]) = 1
  BY SignFacts
<1>. DEFINE ab == a \o b
<1>. HIDE DEF a, b, c, d
<1>6. /\ IsSeq(a \o b) /\ Len(a \o b) = Len(a) + Len(b)
      /\ \A k \in 1 .. Len(a) : (a \o b)[k] = a[k]
      /\ \A k \in 1 .. Len(b) : (a \o b)[Len(a) + k] = b[k]
  <2>1. IsSeq(a) /\ IsSeq(b)
    BY <1>2, <1>5
  <2>. QED
    BY <2>1, ConcatFacts
<1>7. /\ IsSeq(ab) /\ Len(ab) = 6
      /\ \A k \in 1 .. 4 : ab[k] = a[k]
      /\ \A k \in 1 .. 6 : Len(ab[k]) = 1
  <2>1. ASSUME NEW k \in 5 .. 6 PROVE Len(ab[k]) = 1
    <3>1. k - 4 \in 1 .. 2 /\ 4 + (k - 4) = k
      OBVIOUS
    <3>. QED
      BY <1>2, <1>5, <1>6, <3>1
  <2>2. \A k \in 1 .. 6 : k \in 1 .. 4 \/ k \in 5 .. 6
    OBVIOUS
  <2>. QED
    BY <1>2, <1>5, <1>6, <2>1, <2>2
<1>. HIDE DEF ab
<1>. DEFINE abc == ab \o c
<1>8. /\ IsSeq(abc) /\ Len(abc) = Len(ab) + Len(c)
      /\ \A k \in 1 .. Len(ab) : abc[k] = ab[k]
      /\ \A k \in 1 .. Len(c) : abc[Len(ab) + k] = c[k]
  <2>1. IsSeq(ab) /\ IsSeq(c)
    BY <1>3, <1>7
  <2>. QED
    BY <2>1, ConcatFacts
<1>. DEFINE abcd == abc \o d
<1>. HIDE DEF abc
<1>9. /\ IsSeq(abc) /\ Len(abc) = 10
      /\ \A k \in 1 .. 4 : abc[k] = a[k]
      /\ \A k \in 1 .. 10 : Len(abc[k]) # 2
  <2>1. ASSUME NEW k \in 7 .. 10 PROVE Len(abc[k]) = 3
    <3>1. k - 6 \in 1 .. 4 /\ 6 + (k - 6) = k
      OBVIOUS
    <3>. QED
      BY <1>3, <1>7, <1>8, <3>1
  <2>2. \A k \in 1 .. 10 : k \in 1 .. 6 \/ k \in 7 .. 10
    OBVIOUS
  <2>3. \A k \in 1 .. 4 : k \in 1 .. 6
    OBVIOUS
  <2>. QED
    BY <1>3, <1>7, <1>8, <2>1, <2>2, <2>3
<1>10. /\ IsSeq(abcd) /\ Len(abcd) = Len(abc) + Len(d)
       /\ \A k \in 1 .. Len(abc) : abcd[k] = abc[k]
       /\ \A k \in 1 .. Len(d) : abcd[Len(abc) + k] = d[k]
  <2>1. IsSeq(abc) /\ IsSeq(d)
    BY <1>4, <1>9
  <2>. QED
    BY <2>1, ConcatFacts
<1>. HIDE DEF abcd
<1>11. /\ IsSeq(abcd) /\ Len(abcd) = 12
       /\ \A k \in 1 .. 4 : abcd[k] = a[k]
       /\ abcd[12] = d[2]
       /\ \A k \in 1 .. 12 : Len(abcd[k]) # 2
  <2>1. ASSUME NEW k \in 11 .. 12 PROVE abcd[k] = d[k - 10] /\ k - 10 \in 1 .. 2
    <3>1. k - 10 \in 1 .. 2 /\ 10 + (k - 10) = k
      OBVIOUS
    <3>. QED
      BY <1>4, <1>9, <1>10, <3>1
  <2>2. \A k \in 1 .. 12 : k \in 1 .. 10 \/ k \in 11 .. 12
    OBVIOUS
  <2>3. \A k \in 1 .. 4 : k \in 1 .. 10
    OBVIOUS
  <2>4. 12 \in 11 .. 12 /\ 12 - 10 = 2
    OBVIOUS
  <2>. QED
    BY <1>4, <1>9, <1>10, <2>1, <2>2, <2>3, <2>4
<1>12. HeadImage[l][t] = abcd /\ d[2] = HeadMark(l, t)
  BY <1>1, <1>4 DEF abcd, abc, ab
<1>. QED
  BY <1>11, <1>12 DEF HeadSize, a

LEMMA HeadFacts ==
  ASSUME NEW l, NEW mem
  PROVE  LET cells   == CellsAt(mem, 0, HeadSize)
             writers == {t \in Tables : Body(cells) = Body(HeadImage[l][t])}
         IN  head_of(l, mem)
               = IF ~HeadFits THEN [sign |-> FALSE, body |-> Bad]
                 ELSE [sign |-> SubSeq(cells, 1, 4) = Sign,
                       body |-> IF writers = {} THEN Bad
                                ELSE Described(l, CHOOSE t \in writers : TRUE)]
<1>1. CASE HeadFits
  <2>1. read_cells(mem, 0, HeadSize)[1] = "OK"
        /\ read_cells(mem, 0, HeadSize)[2] = CellsAt(mem, 0, HeadSize)
    BY <1>1, ReadCells DEF HeadFits
  <2>. QED
    BY <1>1, <2>1 DEF head_of
<1>2. CASE ~HeadFits
  <2>1. read_cells(mem, 0, HeadSize)[1] # "OK"
    BY <1>2, ReadCells DEF HeadFits
  <2>. QED
    BY <1>2, <2>1 DEF head_of
<1>. QED
  BY <1>1, <1>2

LEMMA HeadCellsFacts ==
  ASSUME NEW mem
  PROVE  /\ IsSeq(CellsAt(mem, 0, HeadSize)) /\ Len(CellsAt(mem, 0, HeadSize)) = 12
         /\ \A k \in 1 .. 12 : CellsAt(mem, 0, HeadSize)[k] = mem[BaseAddr + k - 1]
<1>1. 12 \in Nat
  OBVIOUS
<1>2. /\ IsSeq(CellsAt(mem, 0, 12)) /\ Len(CellsAt(mem, 0, 12)) = 12
      /\ \A k \in 1 .. 12 : CellsAt(mem, 0, 12)[k] = mem[abs_addr(0) + k - 1]
  BY <1>1, CellsFacts
<1>3. abs_addr(0) = BaseAddr
  BY WindowBounds DEF abs_addr
<1>. QED
  BY <1>2, <1>3 DEF HeadSize

\* Bodies are the last eight bytes.
LEMMA BodyFacts ==
  ASSUME NEW s, NEW t, IsSeq(s), IsSeq(t), Len(s) = 12, Len(t) = 12
  PROVE  Body(s) = Body(t) <=> \A k \in 5 .. 12 : s[k] = t[k]
<1>. DEFINE F(x) == Body(x)
<1>1. ASSUME NEW x, IsSeq(x), Len(x) = 12
      PROVE  IsSeq(F(x)) /\ Len(F(x)) = 8 /\ \A k \in 1 .. 8 : F(x)[k] = x[k + 4]
  <2>1. IsSeq(x) /\ 5 \in Nat /\ 12 \in Nat /\ 5 >= 1 /\ 12 =< Len(x)
    BY <1>1
  <2>2. /\ IsSeq(SubSeq(x, 5, 12)) /\ Len(SubSeq(x, 5, 12)) = IF 5 =< 12 THEN 12 - 5 + 1 ELSE 0
        /\ \A k \in 1 .. Len(SubSeq(x, 5, 12)) : SubSeq(x, 5, 12)[k] = x[5 + k - 1]
    BY <2>1, SubSeqFacts
  <2>3. \A k \in 1 .. 8 : 5 + k - 1 = k + 4
    OBVIOUS
  <2>. QED
    BY <2>2, <2>3 DEF Body, HeadSize
<1>2. \A k \in 5 .. 12 : k - 4 \in 1 .. 8 /\ (k - 4) + 4 = k
  OBVIOUS
<1>3. \A k \in 1 .. 8 : k + 4 \in 5 .. 12
  OBVIOUS
<1>. HIDE DEF F
<1>4. /\ IsSeq(F(s)) /\ Len(F(s)) = 8 /\ \A k \in 1 .. 8 : F(s)[k] = s[k + 4]
      /\ IsSeq(F(t)) /\ Len(F(t)) = 8 /\ \A k \in 1 .. 8 : F(t)[k] = t[k + 4]
  BY <1>1
<1>5. ASSUME F(s) = F(t), NEW k \in 5 .. 12 PROVE s[k] = t[k]
  <2>1. F(s)[k - 4] = s[(k - 4) + 4] /\ F(t)[k - 4] = t[(k - 4) + 4]
    BY <1>2, <1>4
  <2>. QED
    BY <1>2, <1>5, <2>1
<1>6. ASSUME \A k \in 5 .. 12 : s[k] = t[k] PROVE F(s) = F(t)
  <2>1. \A k \in 1 .. 8 : F(s)[k] = F(t)[k]
    BY <1>3, <1>4, <1>6
  <2>. QED
    BY <1>4, <2>1, SeqEqual
<1>. QED
  BY <1>5, <1>6 DEF F

\* A header that reads as one of a table ends with the mark of that table.
LEMMA HeadSays ==
  ASSUME NEW l \in Layouts, NEW mem
  PROVE  \/ head_of(l, mem).body = Bad
         \/ HeadFits /\ \E t \in Tables : /\ head_of(l, mem).body = Described(l, t)
                                          /\ HeadCell(mem) = HeadMark(l, t)
<1>. DEFINE cells   == CellsAt(mem, 0, HeadSize)
            writers == {t \in Tables : Body(cells) = Body(HeadImage[l][t])}
<1>1. SUFFICES ASSUME head_of(l, mem).body # Bad
      PROVE  HeadFits /\ \E t \in Tables : /\ head_of(l, mem).body = Described(l, t)
                                           /\ HeadCell(mem) = HeadMark(l, t)
  OBVIOUS
<1>2. /\ HeadFits /\ writers # {}
      /\ head_of(l, mem).body = Described(l, CHOOSE t \in writers : TRUE)
  <2>. DEFINE chosen == Described(l, CHOOSE t \in writers : TRUE)
              sign   == SubSeq(cells, 1, 4) = Sign
  <2>1. head_of(l, mem)
          = IF ~HeadFits THEN [sign |-> FALSE, body |-> Bad]
            ELSE [sign |-> sign, body |-> IF writers = {} THEN Bad ELSE chosen]
    BY HeadFacts
  <2>. HIDE DEF chosen, writers, sign
  <2>2. /\ [sign |-> FALSE, body |-> Bad].body = Bad
        /\ [sign |-> sign, body |-> IF writers = {} THEN Bad ELSE chosen].body
             = IF writers = {} THEN Bad ELSE chosen
    OBVIOUS
  <2>3. HeadFits /\ writers # {} /\ head_of(l, mem).body = chosen
    BY <1>1, <2>1, <2>2
  <2>. QED
    BY <2>3 DEF chosen
<1>3. PICK u \in Tables : u = (CHOOSE t \in writers : TRUE) /\ Body(cells) = Body(HeadImage[l][u])
  BY <1>2
<1>. HIDE DEF writers
<1>4. cells[12] = HeadImage[l][u][12]
  <2>1. IsSeq(cells) /\ Len(cells) = 12
    BY HeadCellsFacts
  <2>2. IsSeq(HeadImage[l][u]) /\ Len(HeadImage[l][u]) = 12
    BY HeadImageFacts DEF HeadSize
  <2>3. 12 \in 5 .. 12
    OBVIOUS
  <2>. HIDE DEF cells
  <2>. QED
    BY <1>3, <2>1, <2>2, <2>3, BodyFacts
<1>5. cells[12] = HeadCell(mem)
  <2>1. 12 \in 1 .. 12 /\ BaseAddr + 12 - 1 = BaseAddr + 11
    BY WindowBounds
  <2>. QED
    BY <2>1, HeadCellsFacts DEF HeadCell
<1>6. HeadImage[l][u][12] = HeadMark(l, u)
  BY HeadImageFacts
<1>. QED
  BY <1>2, <1>3, <1>4, <1>5, <1>6

LEMMA HeadIsKnown ==
  ASSUME NEW l \in Layouts, NEW mem
  PROVE  KnownHead(l, head_of(l, mem))
  BY HeadSays DEF KnownHead

LEMMA MarkSays ==
  ASSUME NEW l, NEW t, NEW u, HeadMark(l, t) = HeadMark(l, u)
  PROVE  Described(l, t) = Described(l, u)
  BY DEF HeadMark

\* The header, in terms of the bytes of two images.
LEMMA SameBytesSameHead ==
  ASSUME NEW l \in Layouts, NEW mem, NEW other
  PROVE  /\ (\A k \in 5 .. 12 : mem[BaseAddr + k - 1] = other[BaseAddr + k - 1])
              => head_of(l, mem).body = head_of(l, other).body
         /\ (\A k \in 1 .. 12 : mem[BaseAddr + k - 1] = other[BaseAddr + k - 1])
              => head_of(l, mem) = head_of(l, other)
<1>. DEFINE c == CellsAt(mem, 0, HeadSize)
            d == CellsAt(other, 0, HeadSize)
<1>1. /\ IsSeq(c) /\ Len(c) = 12 /\ \A k \in 1 .. 12 : c[k] = mem[BaseAddr + k - 1]
      /\ IsSeq(d) /\ Len(d) = 12 /\ \A k \in 1 .. 12 : d[k] = other[BaseAddr + k - 1]
  BY HeadCellsFacts
<1>2. ASSUME \A k \in 1 .. 12 : mem[BaseAddr + k - 1] = other[BaseAddr + k - 1]
      PROVE  head_of(l, mem) = head_of(l, other)
  <2>. HIDE DEF c, d
  <2>1. c = d
    BY <1>1, <1>2, SeqEqual
  <2>. QED
    BY <2>1, HeadFacts DEF c, d
<1>3. ASSUME \A k \in 5 .. 12 : mem[BaseAddr + k - 1] = other[BaseAddr + k - 1]
      PROVE  head_of(l, mem).body = head_of(l, other).body
  <2>1. Body(c) = Body(d)
    <3>. HIDE DEF c, d
    <3>1. \A k \in 5 .. 12 : k \in 1 .. 12
      OBVIOUS
    <3>2. \A k \in 5 .. 12 : c[k] = d[k]
      BY <1>1, <1>3, <3>1
    <3>. QED
      BY <1>1, <3>2, BodyFacts
  <2>. DEFINE W(x) == {t \in Tables : Body(x) = Body(HeadImage[l][t])}
              B(x) == IF W(x) = {} THEN Bad ELSE Described(l, CHOOSE t \in W(x) : TRUE)
              S(x) == SubSeq(x, 1, 4) = Sign
  <2>2. W(c) = W(d)
    BY <2>1
  <2>3. B(c) = B(d)
    <3>. HIDE DEF W, c, d
    <3>. QED
      BY <2>2
  <2>4. /\ head_of(l, mem) = IF ~HeadFits THEN [sign |-> FALSE, body |-> Bad]
                             ELSE [sign |-> S(c), body |-> B(c)]
        /\ head_of(l, other) = IF ~HeadFits THEN [sign |-> FALSE, body |-> Bad]
                               ELSE [sign |-> S(d), body |-> B(d)]
    BY HeadFacts
  <2>. HIDE DEF S, B, c, d
  <2>5. /\ [sign |-> S(c), body |-> B(c)].body = B(c)
        /\ [sign |-> S(d), body |-> B(d)].body = B(d)
    OBVIOUS
  <2>. QED
    BY <2>3, <2>4, <2>5
<1>. QED
  BY <1>2, <1>3

\* The signature is there when its four bytes are.
LEMMA SignSays ==
  ASSUME NEW l \in Layouts, NEW mem
  PROVE  /\ head_of(l, mem) = [sign |-> head_of(l, mem).sign, body |-> head_of(l, mem).body]
         /\ head_of(l, mem).sign \in BOOLEAN
         /\ HeadFits => (head_of(l, mem).sign
                           <=> \A k \in 1 .. 4 : mem[BaseAddr + k - 1] = Sign[k])
         /\ ~HeadFits => head_of(l, mem) = [sign |-> FALSE, body |-> Bad]
<1>. DEFINE c == CellsAt(mem, 0, HeadSize)
            W == {t \in Tables : Body(c) = Body(HeadImage[l][t])}
            B == IF W = {} THEN Bad ELSE Described(l, CHOOSE t \in W : TRUE)
            S == SubSeq(c, 1, 4) = Sign
<1>1. head_of(l, mem) = IF ~HeadFits THEN [sign |-> FALSE, body |-> Bad]
                        ELSE [sign |-> S, body |-> B]
  BY HeadFacts
<1>2. IsSeq(c) /\ Len(c) = 12 /\ \A k \in 1 .. 12 : c[k] = mem[BaseAddr + k - 1]
  BY HeadCellsFacts
<1>3. S <=> \A k \in 1 .. 4 : mem[BaseAddr + k - 1] = Sign[k]
  <2>. DEFINE e == SubSeq(c, 1, 4)
  <2>. HIDE DEF c
  <2>1. IsSeq(e) /\ Len(e) = 4 /\ \A k \in 1 .. 4 : e[k] = c[k]
    <3>1. IsSeq(c) /\ 1 \in Nat /\ 4 \in Nat /\ 1 >= 1 /\ 4 =< Len(c)
      BY <1>2
    <3>2. /\ IsSeq(SubSeq(c, 1, 4)) /\ Len(SubSeq(c, 1, 4)) = IF 1 =< 4 THEN 4 - 1 + 1 ELSE 0
          /\ \A k \in 1 .. Len(SubSeq(c, 1, 4)) : SubSeq(c, 1, 4)[k] = c[1 + k - 1]
      BY <3>1, SubSeqFacts
    <3>3. \A k \in 1 .. 4 : 1 + k - 1 = k
      OBVIOUS
    <3>. QED
      BY <3>2, <3>3
  <2>2. IsSeq(Sign) /\ Len(Sign) = 4
    BY SignFacts
  <2>. HIDE DEF e
  <2>3. e = Sign <=> \A k \in 1 .. 4 : e[k] = Sign[k]
    BY <2>1, <2>2, SeqEqual
  <2>4. \A k \in 1 .. 4 : k \in 1 .. 12
    OBVIOUS
  <2>5. \A k \in 1 .. 4 : e[k] = mem[BaseAddr + k - 1]
    BY <1>2, <2>1, <2>4
  <2>. QED
    BY <2>3, <2>5 DEF e
<1>4. S \in BOOLEAN
  OBVIOUS
<1>. HIDE DEF S, B
<1>5. /\ [sign |-> FALSE, body |-> Bad].sign = FALSE /\ [sign |-> FALSE, body |-> Bad].body = Bad
      /\ [sign |-> S, body |-> B].sign = S /\ [sign |-> S, body |-> B].body = B
  OBVIOUS
<1>6. CASE HeadFits
  <2>1. head_of(l, mem) = [sign |-> S, body |-> B]
    BY <1>1, <1>6
  <2>. QED
    BY <1>3, <1>4, <1>5, <1>6, <2>1
<1>7. CASE ~HeadFits
  <2>1. head_of(l, mem) = [sign |-> FALSE, body |-> Bad]
    BY <1>1, <1>7
  <2>. QED
    BY <1>5, <1>7, <2>1
<1>. QED
  BY <1>6, <1>7

\* A header all of whose bytes were written is that header.
LEMMA WholeHead ==
  ASSUME NEW l \in Layouts, NEW t \in Tables, NEW mem, HeadFits,
         \A k \in 1 .. 12 : mem[BaseAddr + k - 1] = HeadImage[l][t][k]
  PROVE  head_of(l, mem) = [sign |-> TRUE, body |-> Described(l, t)]
<1>. DEFINE c == CellsAt(mem, 0, HeadSize)
            W == {u \in Tables : Body(c) = Body(HeadImage[l][u])}
            h == head_of(l, mem)
<1>1. IsSeq(c) /\ Len(c) = 12 /\ \A k \in 1 .. 12 : c[k] = mem[BaseAddr + k - 1]
  BY HeadCellsFacts
<1>2. IsSeq(HeadImage[l][t]) /\ Len(HeadImage[l][t]) = 12
  BY HeadImageFacts DEF HeadSize
<1>3. c = HeadImage[l][t]
  <2>1. \A k \in 1 .. 12 : c[k] = HeadImage[l][t][k]
    BY <1>1
  <2>2. IsSeq(c) /\ Len(c) = 12
    BY <1>1
  <2>. HIDE DEF c
  <2>. QED
    BY <1>2, <2>1, <2>2, SeqEqual
<1>4. t \in W
  <2>. HIDE DEF c
  <2>. QED
    BY <1>3
<1>5. h.sign = TRUE
  <2>1. \A k \in 1 .. 4 : k \in 1 .. 12
    OBVIOUS
  <2>2. \A k \in 1 .. 4 : mem[BaseAddr + k - 1] = Sign[k]
    BY <2>1, HeadImageFacts
  <2>. QED
    BY <2>2, SignSays
<1>6. h.body = Described(l, CHOOSE u \in W : TRUE)
  <2>. DEFINE S == SubSeq(c, 1, 4) = Sign
              D == Described(l, CHOOSE u \in W : TRUE)
  <2>1. h = IF ~HeadFits THEN [sign |-> FALSE, body |-> Bad]
            ELSE [sign |-> S, body |-> IF W = {} THEN Bad ELSE D]
    BY HeadFacts
  <2>. HIDE DEF S, D, W, h
  <2>2. h = [sign |-> S, body |-> D]
    BY <1>4, <2>1
  <2>. QED
    BY <2>2 DEF D
<1>7. ~(h.body = Bad)
  <2>1. (CHOOSE u \in W : TRUE) \in W
    BY <1>4
  <2>. HIDE DEF c
  <2>. QED
    BY <1>6, <2>1, BadAssumption
<1>8. PICK u \in Tables : h.body = Described(l, u) /\ HeadCell(mem) = HeadMark(l, u)
  BY <1>7, HeadSays
<1>9. HeadCell(mem) = HeadMark(l, t)
  <2>1. 12 \in 1 .. 12 /\ BaseAddr + 12 - 1 = BaseAddr + 11
    BY WindowBounds
  <2>. QED
    BY <2>1, HeadImageFacts DEF HeadCell
<1>10. h.body = Described(l, t)
  BY <1>8, <1>9, MarkSays
<1>11. h = [sign |-> h.sign, body |-> h.body]
  BY SignSays
<1>. QED
  BY <1>5, <1>10, <1>11

\* Bytes of the signature that are erased or kept leave no new signature.
LEMMA ErasedHead ==
  ASSUME NEW l \in Layouts, NEW mem, NEW other,
         \A k \in 1 .. 4 : \/ other[BaseAddr + k - 1] = mem[BaseAddr + k - 1]
                           \/ other[BaseAddr + k - 1] = Erased,
         \A k \in 5 .. 12 : other[BaseAddr + k - 1] = mem[BaseAddr + k - 1]
  PROVE  head_of(l, other) \in [sign : {head_of(l, mem).sign, FALSE}, body : {head_of(l, mem).body}]
<1>1. head_of(l, other).body = head_of(l, mem).body
  BY SameBytesSameHead
<1>2. head_of(l, other).sign \in {head_of(l, mem).sign, FALSE}
  <2>1. CASE \A k \in 1 .. 4 : other[BaseAddr + k - 1] = mem[BaseAddr + k - 1]
    <3>1. \A k \in 1 .. 12 : k \in 1 .. 4 \/ k \in 5 .. 12
      OBVIOUS
    <3>. QED
      BY <2>1, <3>1, SameBytesSameHead
  <2>2. ASSUME NEW k \in 1 .. 4, other[BaseAddr + k - 1] # mem[BaseAddr + k - 1]
        PROVE  head_of(l, other).sign = FALSE
    <3>1. other[BaseAddr + k - 1] # Sign[k]
      BY <2>2, SignFacts
    <3>. QED
      BY <3>1, SignSays
  <2>. QED
    BY <2>1, <2>2
<1>3. head_of(l, other) = [sign |-> head_of(l, other).sign, body |-> head_of(l, other).body]
  BY SignSays
<1>. QED
  BY <1>1, <1>2, <1>3

-----------------------------------------------------------------------------
(* What a request may have done to the bytes.                              *)

IsRequest(l, t, o) ==
  \/ o.kind \in {"erase", "header"}
  \/ /\ o.kind = "record" /\ o.slot \in DOMAIN t
     /\ o.data \in Values(l, t[o.slot])

\* What a request writes, and where.
OpCells(l, t, o) ==
  CASE o.kind = "record" -> write_record(l, t[o.slot], o.data)
    [] o.kind = "header" -> HeadImage[l][t]
    [] OTHER             -> [k \in 1 .. Len(Sign) |-> Erased]
OpAddr(l, t, o) == IF o.kind = "record" THEN record_addr(l, t, o.slot) ELSE 0

\* Each byte is the old one or the one the request has for it.
Touches(l, t, o, mem, other) ==
  \A b \in Address :
    \/ other[b] = mem[b]
    \/ \E k \in 1 .. Len(OpCells(l, t, o)) :
         b = abs_addr(OpAddr(l, t, o)) + k - 1 /\ other[b] = OpCells(l, t, o)[k]

LEMMA ValuesAreReadable ==
  ASSUME NEW l \in Layouts, NEW t \in Tables, NEW i \in DOMAIN t, NEW v \in Values(l, t[i])
  PROVE  /\ Readable(l, t[i].type, v) /\ v \in AnyValue
         /\ \A k \in 1 .. SlotSize : Len(v[k]) = 1
<1>1. t[i].type \in Types
  BY DEF Types
<1>2. PICK e \in Images : v = unpack_payload(t[i].type, e)
  BY <1>1 DEF Values, Carriers
<1>3. v \in AnyValue
  BY <1>1 DEF Values, AnyValue
<1>4. ASSUME NEW k \in 1 .. SlotSize PROVE Len(v[k]) = 1
  <2>1. e[k] \in {<<b>> : b \in 0 .. 255}
    BY ImagesAssumption
  <2>2. v[k] = e[k] \/ v[k] = data_byte(0)
    BY <1>2, UnpackFacts
  <2>3. Len(e[k]) = 1 /\ Len(data_byte(0)) = 1
    BY <2>1 DEF data_byte
  <2>. QED
    BY <2>2, <2>3
<1>. QED
  BY <1>2, <1>3, <1>4, UnpackedIsReadable

LEMMA RecordOpFacts ==
  ASSUME NEW l \in Layouts, NEW t \in Tables, NEW o, IsRequest(l, t, o), o.kind = "record"
  PROVE  /\ o.slot \in DOMAIN t /\ Readable(l, t[o.slot].type, o.data) /\ o.data \in AnyValue
         /\ OpAddr(l, t, o) = record_addr(l, t, o.slot)
         /\ IsSeq(OpCells(l, t, o)) /\ Len(OpCells(l, t, o)) = Size(l, t, o.slot)
         /\ OpCells(l, t, o) = write_record(l, t[o.slot], o.data)
         /\ OpCells(l, t, o)[StampAt(l)] = Stamp(l, t[o.slot], o.data)
         /\ \A k \in 1 .. Len(OpCells(l, t, o)) :
              k # StampAt(l) => Len(OpCells(l, t, o)[k]) = 1
<1>1. o.slot \in DOMAIN t /\ o.data \in Values(l, t[o.slot])
  BY DEF IsRequest
<1>2. /\ Readable(l, t[o.slot].type, o.data) /\ o.data \in AnyValue
      /\ \A k \in 1 .. SlotSize : Len(o.data[k]) = 1
  BY <1>1, ValuesAreReadable
<1>. DEFINE w == write_record(l, t[o.slot], o.data)
<1>3. Marked(l, t[o.slot], o.data, w)
  BY <1>2, LayoutFacts DEF Layout
<1>4. OpCells(l, t, o) = w /\ OpAddr(l, t, o) = record_addr(l, t, o.slot)
  BY DEF OpCells, OpAddr
<1>. HIDE DEF w
<1>5. ASSUME NEW k \in 1 .. Len(w), k # StampAt(l) PROVE Len(w[k]) = 1
  <2>1. IsByte(w[k]) => Len(w[k]) = 1
    <3>1. \A c : Len(data_byte(c)) = 1
      BY DEF data_byte
    <3>. QED
      BY <3>1 DEF IsByte
  <2>2. w[k] \in {o.data[j] : j \in 1 .. SlotSize} => Len(w[k]) = 1
    BY <1>2
  <2>. QED
    BY <1>3, <1>5, <2>1, <2>2 DEF Marked
<1>6. IsSeq(w) /\ Len(w) = Size(l, t, o.slot) /\ w[StampAt(l)] = Stamp(l, t[o.slot], o.data)
  BY <1>3 DEF Marked, Size
<1>. QED
  BY <1>1, <1>2, <1>4, <1>5, <1>6 DEF w

LEMMA HeadOpFacts ==
  ASSUME NEW l \in Layouts, NEW t \in Tables, NEW o, o.kind \in {"erase", "header"}
  PROVE  /\ OpAddr(l, t, o) = 0 /\ IsSeq(OpCells(l, t, o))
         /\ o.kind = "header" => OpCells(l, t, o) = HeadImage[l][t] /\ Len(OpCells(l, t, o)) = 12
         /\ o.kind = "erase" => /\ Len(OpCells(l, t, o)) = 4
                                /\ \A k \in 1 .. 4 : OpCells(l, t, o)[k] = Erased
<1>1. OpAddr(l, t, o) = 0
  BY DEF OpAddr
<1>2. CASE o.kind = "header"
  BY <1>1, <1>2, HeadImageFacts DEF OpCells, HeadSize
<1>3. CASE o.kind = "erase"
  <2>. DEFINE w == [k \in 1 .. 4 |-> Erased]
  <2>1. OpCells(l, t, o) = w
    BY <1>3, SignFacts DEF OpCells
  <2>2. w = [k \in 1 .. 4 |-> w[k]] /\ \A k \in 1 .. 4 : w[k] = Erased
    OBVIOUS
  <2>3. IsSeq(w) /\ Len(w) = 4
    <3>. HIDE DEF w
    <3>. QED
      BY <2>2, FunctionIsSeq
  <2>. HIDE DEF w
  <2>. QED
    BY <1>1, <1>3, <2>1, <2>2, <2>3
<1>. QED
  BY <1>2, <1>3

LEMMA RangeInAddress ==
  ASSUME NEW a \in Nat, NEW n \in Nat, is_range_valid(a, n), NEW k \in 1 .. n
  PROVE  abs_addr(a) + k - 1 \in Address
<1>1. BaseAddr + WindowSize =< MemSize
  BY WindowAssumption
<1>. QED
  BY <1>1, WindowBounds DEF is_range_valid, abs_addr, Address

\* A byte outside of what the request writes is kept.
LEMMA UntouchedByte ==
  ASSUME NEW l, NEW t, NEW o, NEW mem, NEW other, Touches(l, t, o, mem, other),
         OpAddr(l, t, o) \in Nat, Len(OpCells(l, t, o)) \in Nat,
         NEW b \in Address,
         \/ b < abs_addr(OpAddr(l, t, o))
         \/ b >= abs_addr(OpAddr(l, t, o)) + Len(OpCells(l, t, o))
  PROVE  other[b] = mem[b]
<1>1. b \in Int /\ abs_addr(OpAddr(l, t, o)) \in Nat
  BY WindowBounds DEF Address, abs_addr
<1>2. ~ \E k \in 1 .. Len(OpCells(l, t, o)) : b = abs_addr(OpAddr(l, t, o)) + k - 1
  BY <1>1
<1>. QED
  BY <1>2 DEF Touches

\* The records the request is not for are what they were.
LEMMA OtherRecordsKept ==
  ASSUME NEW l \in Layouts, NEW t \in Tables, NEW o, IsRequest(l, t, o), NEW mem, NEW other,
         Touches(l, t, o, mem, other), NEW i \in DOMAIN t, ~(o.kind = "record" /\ o.slot = i)
  PROVE  /\ stored_record(l, other, t, i) = stored_record(l, mem, t, i)
         /\ InRange(l, t, i) => StampCell(l, other, t, i) = StampCell(l, mem, t, i)
<1>1. /\ record_addr(l, t, i) \in Nat /\ record_addr(l, t, i) >= 12
      /\ Size(l, t, i) \in Nat /\ Start(l, t, i) = abs_addr(record_addr(l, t, i))
  BY RecordPlace DEF HeadSize, Start
<1>. DEFINE a == OpAddr(l, t, o)
            n == Len(OpCells(l, t, o))
<1>2. /\ a \in Nat /\ n \in Nat
      /\ record_addr(l, t, i) + Size(l, t, i) =< a \/ a + n =< record_addr(l, t, i)
  <2>1. CASE o.kind = "record"
    <3>1. /\ o.slot \in DOMAIN t \ {i} /\ a = record_addr(l, t, o.slot)
          /\ n = Size(l, t, o.slot)
      BY <2>1, RecordOpFacts
    <3>2. \/ record_addr(l, t, i) + Size(l, t, i) =< record_addr(l, t, o.slot)
          \/ record_addr(l, t, o.slot) + Size(l, t, o.slot) =< record_addr(l, t, i)
      BY <3>1, RecordsApart DEF RecordsAreApart, record_addr, Size
    <3>3. record_addr(l, t, o.slot) \in Nat /\ Size(l, t, o.slot) \in Nat
      BY <3>1, RecordPlace
    <3>. QED
      BY <3>1, <3>2, <3>3
  <2>2. CASE o.kind \in {"erase", "header"}
    <3>1. a = 0 /\ n \in Nat /\ n =< 12
      <4>1. a = 0 /\ (n = 12 \/ n = 4)
        BY <2>2, HeadOpFacts
      <4>. HIDE DEF n
      <4>. QED
        BY <4>1
    <3>. QED
      BY <1>1, <3>1
  <2>. QED
    BY <2>1, <2>2 DEF IsRequest
<1>3. ASSUME InRange(l, t, i), NEW k \in 1 .. Size(l, t, i)
      PROVE  other[Start(l, t, i) + k - 1] = mem[Start(l, t, i) + k - 1]
  <2>1. Start(l, t, i) + k - 1 \in Address
    BY <1>1, <1>3, RangeInAddress DEF InRange
  <2>2. \/ Start(l, t, i) + k - 1 < abs_addr(a)
        \/ Start(l, t, i) + k - 1 >= abs_addr(a) + n
    <3>. HIDE DEF a, n
    <3>. QED
      BY <1>1, <1>2, <1>3, WindowBounds DEF abs_addr
  <2>. QED
    BY <1>2, <2>1, <2>2, UntouchedByte
<1>4. CASE InRange(l, t, i)
  <2>1. stored_record(l, other, t, i) = stored_record(l, mem, t, i)
    BY <1>3, <1>4, SameBytesSameRecord
  <2>2. StampCell(l, other, t, i) = StampCell(l, mem, t, i)
    BY <1>3, <1>4, StampIsInside DEF StampCell
  <2>. QED
    BY <2>1, <2>2
<1>5. CASE ~InRange(l, t, i)
  BY <1>5, StoredRecord
<1>. QED
  BY <1>4, <1>5

\* So is the header, if the request is for a record.
LEMMA HeadKept ==
  ASSUME NEW l \in Layouts, NEW t \in Tables, NEW o, IsRequest(l, t, o), NEW mem, NEW other,
         Touches(l, t, o, mem, other), o.kind = "record"
  PROVE  /\ head_of(l, other) = head_of(l, mem)
         /\ HeadFits => HeadCell(other) = HeadCell(mem)
<1>. DEFINE a == OpAddr(l, t, o)
            n == Len(OpCells(l, t, o))
<1>1. a \in Nat /\ a >= 12 /\ n \in Nat
  BY RecordOpFacts, RecordPlace DEF HeadSize
<1>2. ASSUME HeadFits, NEW k \in 1 .. 12 PROVE other[BaseAddr + k - 1] = mem[BaseAddr + k - 1]
  <2>1. abs_addr(0) + k - 1 \in Address /\ abs_addr(0) = BaseAddr
    <3>1. 0 \in Nat /\ 12 \in Nat /\ is_range_valid(0, 12)
      BY <1>2 DEF HeadFits, HeadSize
    <3>. QED
      BY <3>1, RangeInAddress, WindowBounds DEF abs_addr
  <2>2. BaseAddr + k - 1 < abs_addr(a)
    <3>. HIDE DEF a
    <3>. QED
      BY <1>1, WindowBounds DEF abs_addr
  <2>. QED
    BY <1>1, <2>1, <2>2, UntouchedByte
<1>3. CASE HeadFits
  <2>1. head_of(l, other) = head_of(l, mem)
    BY <1>2, <1>3, SameBytesSameHead
  <2>2. 12 \in 1 .. 12 /\ BaseAddr + 12 - 1 = BaseAddr + 11
    BY WindowBounds
  <2>3. HeadCell(other) = HeadCell(mem)
    BY <1>2, <1>3, <2>2 DEF HeadCell
  <2>. QED
    BY <2>1, <2>3
<1>4. CASE ~HeadFits
  BY <1>4, SignSays
<1>. QED
  BY <1>3, <1>4

-----------------------------------------------------------------------------
(* What the bytes may say while requests come and go.                      *)

\* A byte of a checksum is the one of a value some firmware may have saved.
KnownCell(l, c) ==
  \/ Len(c) # 2
  \/ \E s \in [id : Nat, type : Types] : \E v \in AnyValue :
       Readable(l, s.type, v) /\ c = Stamp(l, s, v)
KnownBytes(l, mem) == \A b \in Address : KnownCell(l, mem[b])

\* Whom the checksum of a record speaks for: a content that requests have left
\* bytes of or, unless a request for it runs, what it says.
IsFor(o, i) == o.kind = "record" /\ o.slot = i
RecordsSpeak(l, t, mem, o, pc) ==
  \A i \in DOMAIN t : InRange(l, t, i) =>
    \A v : Readable(l, t[i].type, v) /\ StampCell(l, mem, t, i) = Stamp(l, t[i], v)
             => v \in pc[i] \/ (~IsFor(o, i) /\ v = Says(l, mem, t).rec[i])
HeadSpeaks(l, mem, o, pc) ==
  HeadFits => \A u \in Tables : HeadCell(mem) = HeadMark(l, u)
    => \/ Described(l, u) \in pc[0]
       \/ o.kind # "header" /\ Described(l, u) = head_of(l, mem).body

Consistent(l, t, mem, o, pc) ==
  /\ pc = [i \in 0 .. Len(t) |-> pc[i]]
  /\ KnownBytes(l, mem) /\ RecordsSpeak(l, t, mem, o, pc) /\ HeadSpeaks(l, mem, o, pc)
  /\ o.kind = "record" => o.data \in pc[o.slot]
  /\ o.kind = "header" => Described(l, t) \in pc[0]

\* What a request may make of the header and the records, for RecordStore.
HeadsOf(o, pc, h) ==
  CASE o.kind = "header" -> [sign : BOOLEAN, body : pc[0] \cup {Bad}]
    [] o.kind = "erase"  -> [sign : {h.sign, FALSE}, body : {h.body}]
    [] OTHER             -> {h}
RecsOf(o, pc, r) ==
  IF o.kind = "record" THEN {[r EXCEPT ![o.slot] = d] : d \in pc[o.slot] \cup {Bad}} ELSE {r}

LEMMA SaysFacts ==
  ASSUME NEW l, NEW mem, NEW t
  PROVE  /\ Says(l, mem, t).head = head_of(l, mem)
         /\ Says(l, mem, t) = [head |-> Says(l, mem, t).head, rec |-> Says(l, mem, t).rec]
         /\ Says(l, mem, t).rec = [i \in DOMAIN t |-> Says(l, mem, t).rec[i]]
         /\ \A i \in DOMAIN t :
              Says(l, mem, t).rec[i] = IF stored_record(l, mem, t, i).status = "OK"
                                       THEN stored_record(l, mem, t, i).data ELSE Bad
  BY DEF Says

LEMMA SaysRecord ==
  ASSUME NEW l, NEW mem, NEW t, NEW i \in DOMAIN t
  PROVE  Says(l, mem, t).rec[i] = IF stored_record(l, mem, t, i).status = "OK"
                                  THEN stored_record(l, mem, t, i).data ELSE Bad
  BY DEF Says

LEMMA StampByte ==
  ASSUME NEW l \in Layouts, NEW t \in Tables, NEW i \in DOMAIN t, InRange(l, t, i)
  PROVE  Start(l, t, i) + StampAt(l) - 1 \in Address
<1>1. /\ record_addr(l, t, i) \in Nat /\ Size(l, t, i) \in Nat /\ StampAt(l) \in 1 .. Size(l, t, i)
      /\ is_range_valid(record_addr(l, t, i), Size(l, t, i))
      /\ Start(l, t, i) = abs_addr(record_addr(l, t, i))
  BY RecordPlace, StampIsInside DEF InRange, Start
<1>. QED
  BY <1>1, RangeInAddress

LEMMA StampIsPair == \A l, s, v : Len(Stamp(l, s, v)) = 2
  BY DEF Stamp, checksum

\* The checksum of a record speaks for nothing but what some firmware may
\* have saved, and the record says nothing else.
LEMMA StampIsKnown ==
  ASSUME NEW l \in Layouts, NEW t \in Tables, NEW i \in DOMAIN t, NEW mem, KnownBytes(l, mem),
         NEW v, InRange(l, t, i), Readable(l, t[i].type, v),
         StampCell(l, mem, t, i) = Stamp(l, t[i], v)
  PROVE  v \in AnyValue
<1>1. KnownCell(l, Stamp(l, t[i], v))
  BY StampByte DEF KnownBytes, StampCell
<1>2. PICK s \in [id : Nat, type : Types] : \E w \in AnyValue :
        Readable(l, s.type, w) /\ Stamp(l, t[i], v) = Stamp(l, s, w)
  BY <1>1, StampIsPair DEF KnownCell
<1>3. PICK w \in AnyValue : Readable(l, s.type, w) /\ Stamp(l, t[i], v) = Stamp(l, s, w)
  BY <1>2
<1>4. v = w
  BY <1>3, StampSays
<1>. QED
  BY <1>4

LEMMA RecordIsKnown ==
  ASSUME NEW l \in Layouts, NEW t \in Tables, NEW i \in DOMAIN t, NEW mem, KnownBytes(l, mem)
  PROVE  Says(l, mem, t).rec[i] \in AnyValue \cup {Bad}
<1>. DEFINE v == stored_record(l, mem, t, i).data
<1>1. Says(l, mem, t).rec[i] = IF stored_record(l, mem, t, i).status = "OK" THEN v ELSE Bad
  BY SaysRecord
<1>2. ASSUME stored_record(l, mem, t, i).status = "OK" PROVE v \in AnyValue
  <2>1. /\ InRange(l, t, i) /\ Readable(l, t[i].type, v)
        /\ StampCell(l, mem, t, i) = Stamp(l, t[i], v)
    BY <1>2, StoredSays
  <2>. HIDE DEF v
  <2>. QED
    BY <2>1, StampIsKnown
<1>. QED
  BY <1>1, <1>2

LEMMA TouchedBytesKnown ==
  ASSUME NEW l \in Layouts, NEW t \in Tables, NEW o, IsRequest(l, t, o), NEW mem, NEW other,
         Touches(l, t, o, mem, other), KnownBytes(l, mem)
  PROVE  KnownBytes(l, other)
<1>1. SUFFICES ASSUME NEW k \in 1 .. Len(OpCells(l, t, o))
      PROVE  KnownCell(l, OpCells(l, t, o)[k])
  BY DEF Touches, KnownBytes
<1>2. CASE o.kind = "record"
  <2>1. t[o.slot] \in [id : Nat, type : Types]
    BY <1>2, RecordOpFacts, TableFacts
  <2>2. KnownCell(l, Stamp(l, t[o.slot], o.data))
    BY <1>2, <2>1, RecordOpFacts DEF KnownCell
  <2>3. CASE k = StampAt(l)
    BY <1>2, <2>2, <2>3, RecordOpFacts
  <2>4. CASE k # StampAt(l)
    BY <1>2, <2>4, RecordOpFacts DEF KnownCell
  <2>. QED
    BY <2>3, <2>4
<1>3. CASE o.kind = "header"
  <2>1. OpCells(l, t, o) = HeadImage[l][t] /\ Len(OpCells(l, t, o)) = 12
    BY <1>3, HeadOpFacts
  <2>2. k \in 1 .. HeadSize
    BY <2>1 DEF HeadSize
  <2>3. Len(HeadImage[l][t][k]) # 2
    BY <2>2, HeadImageFacts
  <2>. QED
    BY <2>1, <2>3 DEF KnownCell
<1>4. CASE o.kind = "erase"
  <2>1. OpCells(l, t, o)[k] = Erased
    BY <1>4, HeadOpFacts
  <2>2. Len(Erased) # 2
    BY DEF Erased
  <2>. QED
    BY <2>1, <2>2 DEF KnownCell
<1>. QED
  BY <1>2, <1>3, <1>4 DEF IsRequest

\* The checksum of the record a request is for is the old one or the one it
\* writes.
LEMMA TouchedStamp ==
  ASSUME NEW l \in Layouts, NEW t \in Tables, NEW o, IsRequest(l, t, o), NEW mem, NEW other,
         Touches(l, t, o, mem, other), o.kind = "record", InRange(l, t, o.slot)
  PROVE  \/ StampCell(l, other, t, o.slot) = StampCell(l, mem, t, o.slot)
         \/ StampCell(l, other, t, o.slot) = Stamp(l, t[o.slot], o.data)
<1>. DEFINE a == OpAddr(l, t, o)
            w == OpCells(l, t, o)
            b == Start(l, t, o.slot) + StampAt(l) - 1
<1>1. /\ o.slot \in DOMAIN t /\ a = record_addr(l, t, o.slot) /\ Len(w) = Size(l, t, o.slot)
      /\ w[StampAt(l)] = Stamp(l, t[o.slot], o.data)
  BY RecordOpFacts
<1>2. b \in Address /\ abs_addr(a) = Start(l, t, o.slot) /\ Start(l, t, o.slot) \in Nat
  BY <1>1, StampByte, RecordPlace DEF Start
<1>3. StampAt(l) \in 1 .. Len(w) /\ Len(w) \in Nat
  BY <1>1, StampIsInside, RecordPlace
<1>4. other[b] = mem[b] \/ \E k \in 1 .. Len(w) : b = abs_addr(a) + k - 1 /\ other[b] = w[k]
  BY <1>2 DEF Touches
<1>. HIDE DEF w, a
<1>5. \A k \in 1 .. Len(w) : b = abs_addr(a) + k - 1 => k = StampAt(l)
  BY <1>2, <1>3
<1>. QED
  BY <1>1, <1>4, <1>5 DEF StampCell

LEMMA TouchedMark ==
  ASSUME NEW l \in Layouts, NEW t \in Tables, NEW o, NEW mem, NEW other,
         Touches(l, t, o, mem, other), o.kind = "header", HeadFits
  PROVE  HeadCell(other) = HeadCell(mem) \/ HeadCell(other) = HeadMark(l, t)
<1>. DEFINE w == OpCells(l, t, o)
            b == BaseAddr + 11
<1>1. OpAddr(l, t, o) = 0 /\ Len(w) = 12 /\ w[12] = HeadMark(l, t)
  BY HeadOpFacts, HeadImageFacts
<1>2. abs_addr(0) = BaseAddr /\ BaseAddr \in Nat
  BY WindowBounds DEF abs_addr
<1>3. b \in Address
  <2>1. 0 \in Nat /\ 12 \in Nat /\ is_range_valid(0, 12) /\ 12 \in 1 .. 12
    BY DEF HeadFits, HeadSize
  <2>2. abs_addr(0) + 12 - 1 \in Address
    BY <2>1, RangeInAddress
  <2>. QED
    BY <1>2, <2>2
<1>4. other[b] = mem[b] \/ \E k \in 1 .. Len(w) : b = abs_addr(0) + k - 1 /\ other[b] = w[k]
  BY <1>1, <1>3 DEF Touches
<1>. HIDE DEF w
<1>5. \A k \in 1 .. Len(w) : b = abs_addr(0) + k - 1 => k = 12
  BY <1>1, <1>2
<1>. QED
  BY <1>1, <1>4, <1>5 DEF HeadCell

\* So bytes of a signature that are erased are those.
LEMMA TouchedSign ==
  ASSUME NEW l \in Layouts, NEW t \in Tables, NEW o, NEW mem, NEW other,
         Touches(l, t, o, mem, other), o.kind = "erase"
  PROVE  head_of(l, other) \in [sign : {head_of(l, mem).sign, FALSE}, body : {head_of(l, mem).body}]
<1>. DEFINE w == OpCells(l, t, o)
<1>1. OpAddr(l, t, o) = 0 /\ Len(w) = 4 /\ \A k \in 1 .. 4 : w[k] = Erased
  BY HeadOpFacts
<1>2. abs_addr(0) = BaseAddr /\ BaseAddr \in Nat
  BY WindowBounds DEF abs_addr
<1>3. CASE HeadFits
  <2>1. \A k \in 1 .. 12 : BaseAddr + k - 1 \in Address
    <3>1. 0 \in Nat /\ 12 \in Nat /\ is_range_valid(0, 12)
      BY <1>3 DEF HeadFits, HeadSize
    <3>2. \A k \in 1 .. 12 : abs_addr(0) + k - 1 \in Address
      BY <3>1, RangeInAddress
    <3>. QED
      BY <1>2, <3>2
  <2>. HIDE DEF w
  <2>2. ASSUME NEW k \in 1 .. 4
        PROVE  \/ other[BaseAddr + k - 1] = mem[BaseAddr + k - 1]
               \/ other[BaseAddr + k - 1] = Erased
    <3>1. BaseAddr + k - 1 \in Address
      BY <2>1
    <3>2. \/ other[BaseAddr + k - 1] = mem[BaseAddr + k - 1]
          \/ \E j \in 1 .. Len(w) : other[BaseAddr + k - 1] = w[j]
      BY <3>1 DEF Touches, w
    <3>. QED
      BY <1>1, <3>2
  <2>3. ASSUME NEW k \in 5 .. 12 PROVE other[BaseAddr + k - 1] = mem[BaseAddr + k - 1]
    <3>1. BaseAddr + k - 1 \in Address
      BY <2>1
    <3>2. BaseAddr + k - 1 >= abs_addr(0) + Len(w)
      BY <1>1, <1>2
    <3>3. OpAddr(l, t, o) \in Nat /\ Len(w) \in Nat
      BY <1>1
    <3>4. BaseAddr + k - 1 >= abs_addr(OpAddr(l, t, o)) + Len(w)
      BY <1>1, <3>2
    <3>. HIDE DEF Touches
    <3>. DEFINE b == BaseAddr + k - 1
    <3>5. b \in Address /\ b >= abs_addr(OpAddr(l, t, o)) + Len(OpCells(l, t, o))
      BY <3>1, <3>4 DEF w
    <3>6. OpAddr(l, t, o) \in Nat /\ Len(OpCells(l, t, o)) \in Nat
      BY <3>3 DEF w
    <3>. HIDE DEF b
    <3>7. other[b] = mem[b]
      BY <3>5, <3>6, UntouchedByte
    <3>. QED
      BY <3>7 DEF b
  <2>. QED
    BY <2>2, <2>3, ErasedHead
<1>4. CASE ~HeadFits
  <2>1. head_of(l, other) = head_of(l, mem)
    BY <1>4, SignSays
  <2>2. head_of(l, mem) = [sign |-> head_of(l, mem).sign, body |-> head_of(l, mem).body]
    BY SignSays
  <2>. QED
    BY <2>1, <2>2
<1>. QED
  BY <1>3, <1>4

-----------------------------------------------------------------------------
(* A request that has come some way.                                       *)

LEMMA MarkKept ==
  ASSUME NEW l \in Layouts, NEW t \in Tables, NEW o, IsRequest(l, t, o), NEW mem, NEW other,
         Touches(l, t, o, mem, other), o.kind # "header", HeadFits
  PROVE  HeadCell(other) = HeadCell(mem)
<1>1. CASE o.kind = "record"
  BY <1>1, HeadKept
<1>2. CASE o.kind = "erase"
  <2>. DEFINE b == BaseAddr + 11
  <2>1. BaseAddr \in Nat /\ abs_addr(0) = BaseAddr
    BY WindowBounds DEF abs_addr
  <2>2. b \in Address
    <3>1. 0 \in Nat /\ 12 \in Nat /\ is_range_valid(0, 12) /\ 12 \in 1 .. 12
      BY DEF HeadFits, HeadSize
    <3>2. abs_addr(0) + 12 - 1 \in Address
      BY <3>1, RangeInAddress
    <3>. QED
      BY <2>1, <3>2
  <2>3. OpAddr(l, t, o) = 0 /\ Len(OpCells(l, t, o)) = 4
    BY <1>2, HeadOpFacts
  <2>4. OpAddr(l, t, o) \in Nat /\ Len(OpCells(l, t, o)) \in Nat
    BY <2>3
  <2>5. b >= abs_addr(OpAddr(l, t, o)) + Len(OpCells(l, t, o))
    BY <2>1, <2>3
  <2>. HIDE DEF b
  <2>6. other[b] = mem[b]
    BY <2>2, <2>4, <2>5, UntouchedByte
  <2>. QED
    BY <2>6 DEF HeadCell, b
<1>. QED
  BY <1>1, <1>2 DEF IsRequest

LEMMA WorkMark ==
  ASSUME NEW l \in Layouts, NEW t \in Tables, NEW o, IsRequest(l, t, o), NEW mem, NEW other,
         Touches(l, t, o, mem, other), NEW pc, Consistent(l, t, mem, o, pc),
         o.kind = "header", HeadFits, NEW u \in Tables, HeadCell(other) = HeadMark(l, u)
  PROVE  Described(l, u) \in pc[0]
<1>1. Described(l, t) \in pc[0] /\ HeadSpeaks(l, mem, o, pc)
  BY DEF Consistent
<1>2. CASE HeadCell(mem) = HeadMark(l, u)
  BY <1>1, <1>2 DEF HeadSpeaks
<1>3. CASE HeadMark(l, t) = HeadMark(l, u)
  BY <1>1, <1>3, MarkSays
<1>. QED
  BY <1>2, <1>3, TouchedMark

LEMMA WorkHead ==
  ASSUME NEW l \in Layouts, NEW t \in Tables, NEW o, IsRequest(l, t, o), NEW mem, NEW other,
         Touches(l, t, o, mem, other), NEW pc, Consistent(l, t, mem, o, pc)
  PROVE  /\ head_of(l, other) \in HeadsOf(o, pc, head_of(l, mem))
         /\ HeadSpeaks(l, other, o, pc)
<1>1. CASE o.kind = "header"
  <2>1. head_of(l, other).body \in pc[0] \cup {Bad}
    <3>1. CASE head_of(l, other).body = Bad
      BY <3>1
    <3>2. ASSUME HeadFits, NEW u \in Tables, head_of(l, other).body = Described(l, u),
                 HeadCell(other) = HeadMark(l, u)
          PROVE  head_of(l, other).body \in pc[0]
      BY <1>1, <3>2, WorkMark
    <3>. QED
      BY <3>1, <3>2, HeadSays
  <2>2. head_of(l, other) \in [sign : BOOLEAN, body : pc[0] \cup {Bad}]
    <3>1. head_of(l, other) = [sign |-> head_of(l, other).sign, body |-> head_of(l, other).body]
          /\ head_of(l, other).sign \in BOOLEAN
      BY SignSays
    <3>. QED
      BY <2>1, <3>1
  <2>3. HeadSpeaks(l, other, o, pc)
    BY <1>1, WorkMark DEF HeadSpeaks
  <2>. QED
    BY <1>1, <2>2, <2>3 DEF HeadsOf
<1>2. CASE o.kind # "header"
  <2>1. /\ head_of(l, other) \in HeadsOf(o, pc, head_of(l, mem))
        /\ head_of(l, other).body = head_of(l, mem).body
    <3>1. CASE o.kind = "erase"
      <4>1. head_of(l, other) \in [sign : {head_of(l, mem).sign, FALSE}, body : {head_of(l, mem).body}]
        BY <3>1, TouchedSign
      <4>. QED
        BY <3>1, <4>1 DEF HeadsOf
    <3>2. CASE o.kind = "record"
      BY <3>2, HeadKept DEF HeadsOf
    <3>. QED
      BY <1>2, <3>1, <3>2 DEF IsRequest
  <2>2. HeadFits => HeadCell(other) = HeadCell(mem)
    BY <1>2, MarkKept
  <2>3. HeadSpeaks(l, mem, o, pc)
    BY DEF Consistent
  <2>4. HeadSpeaks(l, other, o, pc)
    BY <2>1, <2>2, <2>3 DEF HeadSpeaks
  <2>. QED
    BY <2>1, <2>4
<1>. QED
  BY <1>1, <1>2

LEMMA WorkStamp ==
  ASSUME NEW l \in Layouts, NEW t \in Tables, NEW o, IsRequest(l, t, o), NEW mem, NEW other,
         Touches(l, t, o, mem, other), NEW pc, Consistent(l, t, mem, o, pc),
         o.kind = "record", InRange(l, t, o.slot),
         NEW v, Readable(l, t[o.slot].type, v), StampCell(l, other, t, o.slot) = Stamp(l, t[o.slot], v)
  PROVE  v \in pc[o.slot]
<1>1. /\ o.slot \in DOMAIN t /\ o.data \in pc[o.slot] /\ RecordsSpeak(l, t, mem, o, pc)
      /\ Readable(l, t[o.slot].type, o.data)
  BY RecordOpFacts DEF Consistent
<1>2. CASE StampCell(l, mem, t, o.slot) = Stamp(l, t[o.slot], v)
  BY <1>1, <1>2 DEF RecordsSpeak, IsFor
<1>3. CASE Stamp(l, t[o.slot], o.data) = Stamp(l, t[o.slot], v)
  <2>1. o.data = v
    BY <1>1, <1>3, StampSays
  <2>. QED
    BY <1>1, <2>1
<1>. QED
  BY <1>2, <1>3, TouchedStamp

LEMMA WorkRecord ==
  ASSUME NEW l \in Layouts, NEW t \in Tables, NEW o, IsRequest(l, t, o), NEW mem, NEW other,
         Touches(l, t, o, mem, other), NEW pc, Consistent(l, t, mem, o, pc),
         NEW i \in DOMAIN t
  PROVE  IF IsFor(o, i) THEN Says(l, other, t).rec[i] \in pc[i] \cup {Bad}
                        ELSE Says(l, other, t).rec[i] = Says(l, mem, t).rec[i]
<1>. DEFINE v == stored_record(l, other, t, i).data
<1>1. Says(l, other, t).rec[i] = IF stored_record(l, other, t, i).status = "OK" THEN v ELSE Bad
  BY SaysRecord
<1>2. ASSUME IsFor(o, i), stored_record(l, other, t, i).status = "OK" PROVE v \in pc[i]
  <2>1. /\ InRange(l, t, i) /\ Readable(l, t[i].type, v)
        /\ StampCell(l, other, t, i) = Stamp(l, t[i], v)
    BY <1>2, StoredSays
  <2>2. o.kind = "record" /\ o.slot = i
    BY <1>2 DEF IsFor
  <2>. HIDE DEF v
  <2>. QED
    BY <2>1, <2>2, WorkStamp
<1>3. ASSUME ~IsFor(o, i) PROVE Says(l, other, t).rec[i] = Says(l, mem, t).rec[i]
  <2>1. stored_record(l, other, t, i) = stored_record(l, mem, t, i)
    BY <1>3, OtherRecordsKept DEF IsFor
  <2>2. Says(l, mem, t).rec[i] = IF stored_record(l, mem, t, i).status = "OK"
                                 THEN stored_record(l, mem, t, i).data ELSE Bad
    BY SaysRecord
  <2>. QED
    BY <1>1, <2>1, <2>2
<1>. HIDE DEF v
<1>. QED
  BY <1>1, <1>2, <1>3

LEMMA WorkRecords ==
  ASSUME NEW l \in Layouts, NEW t \in Tables, NEW o, IsRequest(l, t, o), NEW mem, NEW other,
         Touches(l, t, o, mem, other), NEW pc, Consistent(l, t, mem, o, pc)
  PROVE  Says(l, other, t).rec \in RecsOf(o, pc, Says(l, mem, t).rec)
<1>. DEFINE r == Says(l, mem, t).rec
            q == Says(l, other, t).rec
<1>1. r = [i \in DOMAIN t |-> r[i]] /\ q = [i \in DOMAIN t |-> q[i]]
  BY SaysFacts
<1>2. \A i \in DOMAIN t : IF IsFor(o, i) THEN q[i] \in pc[i] \cup {Bad} ELSE q[i] = r[i]
  BY WorkRecord
<1>. HIDE DEF r, q
<1>3. CASE o.kind = "record"
  <2>1. o.slot \in DOMAIN t
    BY <1>3 DEF IsRequest
  <2>2. q[o.slot] \in pc[o.slot] \cup {Bad}
    BY <1>2, <1>3, <2>1 DEF IsFor
  <2>3. q = [r EXCEPT ![o.slot] = q[o.slot]]
    BY <1>1, <1>2, <1>3, <2>1 DEF IsFor
  <2>. QED
    BY <1>3, <2>2, <2>3 DEF RecsOf, r, q
<1>4. CASE o.kind # "record"
  <2>1. q = r
    BY <1>1, <1>2, <1>4 DEF IsFor
  <2>. QED
    BY <1>4, <2>1 DEF RecsOf, r, q
<1>. QED
  BY <1>3, <1>4

LEMMA WorkKeeps ==
  ASSUME NEW l \in Layouts, NEW t \in Tables, NEW o, IsRequest(l, t, o), NEW mem, NEW other,
         Touches(l, t, o, mem, other), NEW pc, Consistent(l, t, mem, o, pc)
  PROVE  Consistent(l, t, other, o, pc)
<1>1. KnownBytes(l, other)
  BY TouchedBytesKnown DEF Consistent
<1>2. HeadSpeaks(l, other, o, pc)
  BY WorkHead
<1>3. RecordsSpeak(l, t, other, o, pc)
  <2>1. SUFFICES ASSUME NEW i \in DOMAIN t, InRange(l, t, i), NEW v,
                        Readable(l, t[i].type, v), StampCell(l, other, t, i) = Stamp(l, t[i], v)
                 PROVE  v \in pc[i] \/ (~IsFor(o, i) /\ v = Says(l, other, t).rec[i])
    BY DEF RecordsSpeak
  <2>2. CASE IsFor(o, i)
    <3>1. o.kind = "record" /\ o.slot = i
      BY <2>2 DEF IsFor
    <3>2. v \in pc[i]
      BY <2>1, <3>1, WorkStamp
    <3>. QED
      BY <3>2
  <2>3. CASE ~IsFor(o, i)
    <3>1. Says(l, other, t).rec[i] = Says(l, mem, t).rec[i]
      BY <2>3, WorkRecord
    <3>2. StampCell(l, other, t, i) = StampCell(l, mem, t, i)
      BY <2>1, <2>3, OtherRecordsKept DEF IsFor
    <3>3. RecordsSpeak(l, t, mem, o, pc)
      BY DEF Consistent
    <3>4. v \in pc[i] \/ v = Says(l, mem, t).rec[i]
      BY <2>1, <3>2, <3>3 DEF RecordsSpeak
    <3>. QED
      BY <2>3, <3>1, <3>4
  <2>. QED
    BY <2>2, <2>3
<1>4. /\ pc = [i \in 0 .. Len(t) |-> pc[i]]
      /\ o.kind = "record" => o.data \in pc[o.slot]
      /\ o.kind = "header" => Described(l, t) \in pc[0]
  BY DEF Consistent
<1>. QED
  BY <1>1, <1>2, <1>3, <1>4 DEF Consistent

-----------------------------------------------------------------------------
(* Requests that begin and end, and another firmware.                      *)

LEMMA IdleFacts == Idle.kind = "none" /\ \A i : ~IsFor(Idle, i)
  BY DEF Idle, IsFor

LEMMA ErasedImage ==
  ASSUME NEW l \in Layouts, NEW t \in Tables, NEW mem, \A b \in Address : mem[b] = Erased
  PROVE  /\ head_of(l, mem) = [sign |-> FALSE, body |-> Bad]
         /\ Says(l, mem, t).rec = [i \in DOMAIN t |-> Bad]
         /\ Consistent(l, t, mem, Idle, [i \in 0 .. Len(t) |-> {}])
<1>1. Len(Erased) = 1 /\ \A u : Len(HeadMark(l, u)) = 3
  BY DEF Erased, HeadMark
<1>2. ASSUME NEW i \in DOMAIN t, InRange(l, t, i), NEW v PROVE StampCell(l, mem, t, i) # Stamp(l, t[i], v)
  <2>1. StampCell(l, mem, t, i) = Erased
    BY <1>2, StampByte DEF StampCell
  <2>. QED
    BY <1>1, <2>1, StampIsPair
<1>3. ASSUME HeadFits PROVE BaseAddr \in Address /\ BaseAddr + 11 \in Address
  <2>1. 0 \in Nat /\ 12 \in Nat /\ is_range_valid(0, 12) /\ 1 \in 1 .. 12 /\ 12 \in 1 .. 12
    BY <1>3 DEF HeadFits, HeadSize
  <2>2. abs_addr(0) + 1 - 1 \in Address /\ abs_addr(0) + 12 - 1 \in Address
    BY <2>1, RangeInAddress
  <2>3. abs_addr(0) = BaseAddr /\ BaseAddr \in Nat
    BY WindowBounds DEF abs_addr
  <2>. QED
    BY <2>2, <2>3
<1>4. ASSUME HeadFits, NEW u PROVE HeadCell(mem) # HeadMark(l, u)
  BY <1>1, <1>3, <1>4 DEF HeadCell
<1>5. head_of(l, mem) = [sign |-> FALSE, body |-> Bad]
  <2>1. head_of(l, mem).body = Bad
    BY <1>4, HeadSays
  <2>2. CASE HeadFits
    <3>1. mem[BaseAddr + 1 - 1] # Sign[1]
      <4>1. Sign[1] # Erased
        BY SignFacts, 1 \in 1 .. 4
      <4>2. BaseAddr \in Nat /\ mem[BaseAddr] = Erased
        BY <1>3, <2>2, WindowBounds
      <4>. QED
        BY <4>1, <4>2
    <3>2. head_of(l, mem).sign = FALSE
      BY <2>2, <3>1, SignSays, 1 \in 1 .. 4
    <3>. QED
      BY <2>1, <3>2, SignSays
  <2>3. CASE ~HeadFits
    BY <2>3, SignSays
  <2>. QED
    BY <2>2, <2>3
<1>6. Says(l, mem, t).rec = [i \in DOMAIN t |-> Bad]
  <2>1. ASSUME NEW i \in DOMAIN t PROVE Says(l, mem, t).rec[i] = Bad
    <3>1. stored_record(l, mem, t, i).status # "OK"
      BY <1>2, StoredSays
    <3>. QED
      BY <3>1, SaysRecord
  <2>2. Says(l, mem, t).rec = [i \in DOMAIN t |-> Says(l, mem, t).rec[i]]
    BY SaysFacts
  <2>. QED
    BY <2>1, <2>2
<1>7. Consistent(l, t, mem, Idle, [i \in 0 .. Len(t) |-> {}])
  <2>1. KnownBytes(l, mem)
    BY <1>1 DEF KnownBytes, KnownCell
  <2>2. RecordsSpeak(l, t, mem, Idle, [i \in 0 .. Len(t) |-> {}])
    BY <1>2 DEF RecordsSpeak
  <2>3. HeadSpeaks(l, mem, Idle, [i \in 0 .. Len(t) |-> {}])
    BY <1>4 DEF HeadSpeaks
  <2>4. [i \in 0 .. Len(t) |-> {}] = [i \in 0 .. Len(t) |-> [j \in 0 .. Len(t) |-> {}][i]]
    OBVIOUS
  <2>. QED
    BY <2>1, <2>2, <2>3, <2>4, IdleFacts DEF Consistent
<1>. QED
  BY <1>5, <1>6, <1>7

\* A request that fails or is cut leaves what it says of its part.
LEMMA StopKeeps ==
  ASSUME NEW l \in Layouts, NEW t \in Tables, NEW mem, NEW o, NEW pc,
         Consistent(l, t, mem, o, pc)
  PROVE  Consistent(l, t, mem, Idle, pc)
<1>1. RecordsSpeak(l, t, mem, Idle, pc)
  BY IdleFacts DEF Consistent, RecordsSpeak
<1>2. HeadSpeaks(l, mem, Idle, pc)
  BY IdleFacts DEF Consistent, HeadSpeaks
<1>. QED
  BY <1>1, <1>2, IdleFacts DEF Consistent

\* What a request may leave bytes of from now on.
Begun(l, t, o, pc, says) ==
  CASE o.kind = "record" -> [pc EXCEPT ![o.slot] = @ \cup {says.rec[o.slot], o.data}]
    [] o.kind = "header" -> [pc EXCEPT ![0] = @ \cup {says.head.body, Described(l, t)}]
    [] OTHER -> pc

LEMMA BeginKeeps ==
  ASSUME NEW l \in Layouts, NEW t \in Tables, NEW mem, NEW o, IsRequest(l, t, o), NEW pc,
         Consistent(l, t, mem, Idle, pc)
  PROVE  Consistent(l, t, mem, o, Begun(l, t, o, pc, Says(l, mem, t)))
<1>. DEFINE says == Says(l, mem, t)
            new  == Begun(l, t, o, pc, says)
<1>1. /\ KnownBytes(l, mem) /\ pc = [i \in 0 .. Len(t) |-> pc[i]]
      /\ \A i \in DOMAIN t : InRange(l, t, i) =>
           \A v : Readable(l, t[i].type, v) /\ StampCell(l, mem, t, i) = Stamp(l, t[i], v)
             => v \in pc[i] \/ v = says.rec[i]
      /\ HeadFits => \A u \in Tables : HeadCell(mem) = HeadMark(l, u)
           => Described(l, u) \in pc[0] \/ Described(l, u) = head_of(l, mem).body
  BY DEF Consistent, RecordsSpeak, HeadSpeaks
<1>2. says.head = head_of(l, mem)
  BY SaysFacts
<1>3. DOMAIN t = 1 .. Len(t) /\ Len(t) \in Nat
  BY TableFacts DEF Slots
<1>. HIDE DEF says
<1>4. /\ new = [i \in 0 .. Len(t) |-> new[i]]
      /\ o.kind = "record" => new[o.slot] = pc[o.slot] \cup {says.rec[o.slot], o.data}
      /\ o.kind = "header" => new[0] = pc[0] \cup {says.head.body, Described(l, t)}
      /\ \A i \in 0 .. Len(t) : new[i] = pc[i] \/ (i = 0 /\ o.kind = "header") \/ IsFor(o, i)
  <2>1. CASE o.kind = "record"
    <3>1. o.slot \in 0 .. Len(t)
      BY <1>3, <2>1 DEF IsRequest
    <3>2. new = [pc EXCEPT ![o.slot] = @ \cup {says.rec[o.slot], o.data}]
      BY <2>1 DEF Begun
    <3>. HIDE DEF new
    <3>. QED
      BY <1>1, <2>1, <3>1, <3>2 DEF IsFor
  <2>2. CASE o.kind = "header"
    <3>1. 0 \in 0 .. Len(t)
      BY <1>3
    <3>2. new = [pc EXCEPT ![0] = @ \cup {says.head.body, Described(l, t)}]
      BY <2>2 DEF Begun
    <3>. HIDE DEF new
    <3>. QED
      BY <1>1, <2>2, <3>1, <3>2
  <2>3. CASE o.kind = "erase"
    <3>1. new = pc
      BY <2>3 DEF Begun
    <3>. HIDE DEF new
    <3>. QED
      BY <1>1, <2>3, <3>1
  <2>. QED
    BY <2>1, <2>2, <2>3 DEF IsRequest
<1>. HIDE DEF new
<1>5. RecordsSpeak(l, t, mem, o, new)
  <2>1. SUFFICES ASSUME NEW i \in DOMAIN t, InRange(l, t, i), NEW v,
                        Readable(l, t[i].type, v), StampCell(l, mem, t, i) = Stamp(l, t[i], v)
                 PROVE  v \in new[i] \/ (~IsFor(o, i) /\ v = says.rec[i])
    BY DEF RecordsSpeak, says
  <2>2. v \in pc[i] \/ v = says.rec[i]
    BY <1>1, <2>1
  <2>3. i \in 0 .. Len(t) /\ i # 0
    BY <1>3
  <2>4. CASE IsFor(o, i)
    BY <1>4, <2>2, <2>4 DEF IsFor
  <2>5. CASE ~IsFor(o, i)
    BY <1>4, <2>2, <2>3, <2>5
  <2>. QED
    BY <2>4, <2>5
<1>6. HeadSpeaks(l, mem, o, new)
  <2>1. SUFFICES ASSUME HeadFits, NEW u \in Tables, HeadCell(mem) = HeadMark(l, u)
                 PROVE  \/ Described(l, u) \in new[0]
                        \/ o.kind # "header" /\ Described(l, u) = head_of(l, mem).body
    BY DEF HeadSpeaks
  <2>2. Described(l, u) \in pc[0] \/ Described(l, u) = head_of(l, mem).body
    BY <1>1, <2>1
  <2>3. CASE o.kind = "header"
    BY <1>2, <1>4, <2>2, <2>3
  <2>4. CASE o.kind # "header"
    <3>1. 0 \in 0 .. Len(t) /\ ~IsFor(o, 0)
      BY <1>3 DEF IsFor, IsRequest
    <3>. QED
      BY <1>4, <2>2, <2>4, <3>1
  <2>. QED
    BY <2>3, <2>4
<1>7. /\ o.kind = "record" => o.data \in new[o.slot]
      /\ o.kind = "header" => Described(l, t) \in new[0]
  BY <1>4
<1>. QED
  BY <1>1, <1>4, <1>5, <1>6, <1>7 DEF Consistent, new, says

\* Once its part is whole, no bytes of other contents are left.
LEMMA RecordDone ==
  ASSUME NEW l \in Layouts, NEW t \in Tables, NEW mem, NEW o, NEW pc,
         Consistent(l, t, mem, o, pc), o.kind = "record", o.slot \in DOMAIN t,
         stored_record(l, mem, t, o.slot).status = "OK"
  PROVE  Consistent(l, t, mem, Idle, [pc EXCEPT ![o.slot] = {}])
<1>. DEFINE new == [pc EXCEPT ![o.slot] = {}]
            w   == stored_record(l, mem, t, o.slot).data
<1>1. Consistent(l, t, mem, Idle, pc)
  BY StopKeeps
<1>2. pc = [i \in 0 .. Len(t) |-> pc[i]] /\ o.slot \in 0 .. Len(t) /\ o.slot # 0
  BY TableFacts DEF Consistent, Slots
<1>3. /\ new = [i \in 0 .. Len(t) |-> new[i]] /\ new[0] = pc[0]
      /\ \A i \in DOMAIN t : i # o.slot => new[i] = pc[i]
  <2>1. DOMAIN t = 1 .. Len(t) /\ Len(t) \in Nat
    BY TableFacts DEF Slots
  <2>2. 0 \in 0 .. Len(t) /\ \A i \in DOMAIN t : i \in 0 .. Len(t)
    BY <2>1
  <2>3. ASSUME NEW i \in 0 .. Len(t), i # o.slot PROVE new[i] = pc[i]
    BY <1>2, <2>3
  <2>4. new = [i \in 0 .. Len(t) |-> new[i]]
    BY <1>2
  <2>. HIDE DEF new
  <2>. QED
    BY <1>2, <2>2, <2>3, <2>4
<1>4. /\ InRange(l, t, o.slot) /\ Readable(l, t[o.slot].type, w)
      /\ StampCell(l, mem, t, o.slot) = Stamp(l, t[o.slot], w)
  BY StoredSays
<1>5. Says(l, mem, t).rec[o.slot] = w
  BY SaysRecord
<1>. HIDE DEF new, w
<1>6. RecordsSpeak(l, t, mem, Idle, new)
  <2>1. SUFFICES ASSUME NEW i \in DOMAIN t, InRange(l, t, i), NEW v,
                        Readable(l, t[i].type, v), StampCell(l, mem, t, i) = Stamp(l, t[i], v)
                 PROVE  v \in new[i] \/ v = Says(l, mem, t).rec[i]
    BY IdleFacts DEF RecordsSpeak
  <2>2. CASE i = o.slot
    <3>1. v = w
      BY <1>4, <2>1, <2>2, StampSays
    <3>. QED
      BY <1>5, <2>2, <3>1
  <2>3. CASE i # o.slot
    <3>1. RecordsSpeak(l, t, mem, Idle, pc)
      BY <1>1 DEF Consistent
    <3>. QED
      BY <1>3, <2>1, <2>3, <3>1 DEF RecordsSpeak
  <2>. QED
    BY <2>2, <2>3
<1>7. HeadSpeaks(l, mem, Idle, new)
  BY <1>1, <1>3 DEF Consistent, HeadSpeaks
<1>8. KnownBytes(l, mem)
  BY DEF Consistent
<1>. QED
  BY <1>3, <1>6, <1>7, <1>8, IdleFacts DEF Consistent, new

LEMMA HeaderDone ==
  ASSUME NEW l \in Layouts, NEW t \in Tables, NEW mem, NEW o, NEW pc,
         Consistent(l, t, mem, o, pc),
         head_of(l, mem) = [sign |-> TRUE, body |-> Described(l, t)]
  PROVE  Consistent(l, t, mem, Idle, [pc EXCEPT ![0] = {}])
<1>. DEFINE new == [pc EXCEPT ![0] = {}]
<1>1. Consistent(l, t, mem, Idle, pc)
  BY StopKeeps
<1>2. pc = [i \in 0 .. Len(t) |-> pc[i]] /\ DOMAIN t = 1 .. Len(t) /\ Len(t) \in Nat
  BY TableFacts DEF Consistent, Slots
<1>3. /\ new = [i \in 0 .. Len(t) |-> new[i]]
      /\ \A i \in DOMAIN t : new[i] = pc[i]
  BY <1>2
<1>. HIDE DEF new
<1>4. RecordsSpeak(l, t, mem, Idle, new)
  BY <1>1, <1>3 DEF Consistent, RecordsSpeak
<1>5. HeadSpeaks(l, mem, Idle, new)
  <2>1. SUFFICES ASSUME HeadFits, NEW u \in Tables, HeadCell(mem) = HeadMark(l, u)
                 PROVE  Described(l, u) = head_of(l, mem).body
    BY IdleFacts DEF HeadSpeaks
  <2>2. head_of(l, mem).body = Described(l, t) /\ head_of(l, mem).body # Bad
    BY BadAssumption
  <2>3. PICK s \in Tables : /\ head_of(l, mem).body = Described(l, s)
                            /\ HeadCell(mem) = HeadMark(l, s)
    BY <2>2, HeadSays
  <2>4. Described(l, u) = Described(l, s)
    BY <2>1, <2>3, MarkSays
  <2>. QED
    BY <2>3, <2>4
<1>6. KnownBytes(l, mem)
  BY DEF Consistent
<1>. QED
  BY <1>3, <1>4, <1>5, <1>6, IdleFacts DEF Consistent, new

\* A firmware with another table finds the records the header covers for both.
BothCover(l, mem, t, u) == Covered(l, head_of(l, mem), t) \cap Covered(l, head_of(l, mem), u)
AfterBoot(l, mem, t, u, pc) ==
  [i \in 0 .. Len(u) |->
     IF i = 0 \/ u = t \/ i \in BothCover(l, mem, t, u) THEN pc[i] ELSE AnyValue]

LEMMA CoveredRecord ==
  ASSUME NEW l \in Layouts, NEW t \in Tables, NEW u \in Tables, NEW mem,
         NEW i \in BothCover(l, mem, t, u)
  PROVE  /\ i \in DOMAIN t /\ i \in DOMAIN u /\ t[i].type = u[i].type
         /\ Says(l, mem, t).rec[i] = Says(l, mem, u).rec[i]
         /\ InRange(l, t, i) = InRange(l, u, i)
         /\ StampCell(l, mem, t, i) = StampCell(l, mem, u, i)
         /\ \A v : Stamp(l, t[i], v) = Stamp(l, u[i], v)
<1>1. PICK n : Shares(l, t, u, n) /\ i \in 1 .. n
  <2>. DEFINE h == head_of(l, mem)
  <2>1. KnownHead(l, h)
    BY HeadIsKnown
  <2>2. i \in Covered(l, h, t) \cap Covered(l, h, u)
    BY DEF BothCover
  <2>. HIDE DEF h
  <2>. QED
    BY <2>1, <2>2, CoveredShares
<1>2. i \in DOMAIN t /\ i \in DOMAIN u /\ t[i].type = u[i].type
  BY <1>1, SharedSlots
<1>3. /\ stored_record(l, mem, t, i) = stored_record(l, mem, u, i)
      /\ InRange(l, t, i) = InRange(l, u, i)
      /\ StampCell(l, mem, t, i) = StampCell(l, mem, u, i)
      /\ \A v : Stamp(l, t[i], v) = Stamp(l, u[i], v)
  BY <1>1, SharedRecord
<1>4. Says(l, mem, t).rec[i] = Says(l, mem, u).rec[i]
  BY <1>2, <1>3, SaysRecord
<1>. QED
  BY <1>2, <1>3, <1>4

LEMMA BootKeeps ==
  ASSUME NEW l \in Layouts, NEW t \in Tables, NEW u \in Tables, NEW mem, NEW pc,
         Consistent(l, t, mem, Idle, pc)
  PROVE  Consistent(l, u, mem, Idle, AfterBoot(l, mem, t, u, pc))
<1>. DEFINE new == AfterBoot(l, mem, t, u, pc)
<1>1. /\ KnownBytes(l, mem) /\ HeadSpeaks(l, mem, Idle, pc) /\ RecordsSpeak(l, t, mem, Idle, pc)
  BY DEF Consistent
<1>2. DOMAIN u = 1 .. Len(u) /\ Len(u) \in Nat
  BY TableFacts DEF Slots
<1>3. /\ new = [i \in 0 .. Len(u) |-> new[i]] /\ new[0] = pc[0]
      /\ \A i \in DOMAIN u : new[i] = IF u = t \/ i \in BothCover(l, mem, t, u) THEN pc[i] ELSE AnyValue
  BY <1>2 DEF AfterBoot
<1>. HIDE DEF new
<1>4. RecordsSpeak(l, u, mem, Idle, new)
  <2>1. SUFFICES ASSUME NEW i \in DOMAIN u, InRange(l, u, i), NEW v,
                        Readable(l, u[i].type, v), StampCell(l, mem, u, i) = Stamp(l, u[i], v)
                 PROVE  v \in new[i] \/ v = Says(l, mem, u).rec[i]
    BY IdleFacts DEF RecordsSpeak
  <2>2. CASE u = t
    BY <1>1, <1>3, <2>1, <2>2 DEF RecordsSpeak
  <2>3. CASE u # t /\ i \in BothCover(l, mem, t, u)
    <3>1. /\ i \in DOMAIN t /\ InRange(l, t, i) /\ Readable(l, t[i].type, v)
          /\ StampCell(l, mem, t, i) = Stamp(l, t[i], v)
          /\ Says(l, mem, t).rec[i] = Says(l, mem, u).rec[i]
      BY <2>1, <2>3, CoveredRecord
    <3>2. v \in pc[i] \/ v = Says(l, mem, t).rec[i]
      BY <1>1, <3>1 DEF RecordsSpeak
    <3>. QED
      BY <1>3, <2>3, <3>1, <3>2
  <2>4. CASE u # t /\ i \notin BothCover(l, mem, t, u)
    <3>1. v \in AnyValue
      BY <1>1, <2>1, StampIsKnown
    <3>. QED
      BY <1>3, <2>4, <3>1
  <2>. QED
    BY <2>2, <2>3, <2>4
<1>5. HeadSpeaks(l, mem, Idle, new)
  BY <1>1, <1>3 DEF HeadSpeaks
<1>. QED
  BY <1>1, <1>3, <1>4, <1>5, IdleFacts DEF Consistent, new

-----------------------------------------------------------------------------
(* How far a request has come.                                             *)

\* mem has the first n bytes of a write; c are bytes that follow them.
Holds(l, t, o, mem, n) ==
  \A k \in 1 .. n : mem[abs_addr(OpAddr(l, t, o)) + k - 1] = OpCells(l, t, o)[k]
Follows(l, t, o, n, c) ==
  /\ n \in 0 .. Len(OpCells(l, t, o)) /\ IsSeq(c) /\ n + Len(c) =< Len(OpCells(l, t, o))
  /\ \A j \in 1 .. Len(c) : c[j] = OpCells(l, t, o)[n + j]
Came(l, t, o, mem, a, rest, n) ==
  /\ n \in 0 .. Len(OpCells(l, t, o))
  /\ rest = SubSeq(OpCells(l, t, o), n + 1, Len(OpCells(l, t, o)))
  /\ a = abs_addr(OpAddr(l, t, o)) + n
  /\ ~DropsWrites => Holds(l, t, o, mem, n)
Underway(l, t, o, mem, a, rest) ==
  /\ IsRequest(l, t, o)
  /\ is_range_valid(OpAddr(l, t, o), Len(OpCells(l, t, o)))
  /\ \E n : Came(l, t, o, mem, a, rest, n)

LEMMA OpFacts ==
  ASSUME NEW l \in Layouts, NEW t \in Tables, NEW o, IsRequest(l, t, o)
  PROVE  /\ IsSeq(OpCells(l, t, o)) /\ Len(OpCells(l, t, o)) \in Nat
         /\ OpAddr(l, t, o) \in Nat /\ abs_addr(OpAddr(l, t, o)) \in Nat
<1>1. IsSeq(OpCells(l, t, o)) /\ OpAddr(l, t, o) \in Nat
  <2>1. CASE o.kind = "record"
    <3>1. o.slot \in DOMAIN t /\ IsSeq(OpCells(l, t, o)) /\ OpAddr(l, t, o) = record_addr(l, t, o.slot)
      BY <2>1, RecordOpFacts
    <3>. QED
      BY <3>1, RecordPlace
  <2>2. CASE o.kind # "record"
    <3>1. o.kind \in {"erase", "header"}
      BY <2>2 DEF IsRequest
    <3>2. IsSeq(OpCells(l, t, o)) /\ OpAddr(l, t, o) = 0
      BY <3>1, HeadOpFacts
    <3>. QED
      BY <3>2
  <2>. QED
    BY <2>1, <2>2
<1>2. abs_addr(OpAddr(l, t, o)) \in Nat
  BY <1>1, WindowBounds DEF abs_addr
<1>. QED
  BY <1>1, <1>2, LengthIsNatural

LEMMA PutTouches ==
  ASSUME NEW l \in Layouts, NEW t \in Tables, NEW o, IsRequest(l, t, o), NEW mem,
         NEW n, NEW c, Follows(l, t, o, n, c)
  PROVE  Touches(l, t, o, mem, Written(mem, abs_addr(OpAddr(l, t, o)) + n, c))
<1>. DEFINE w == OpCells(l, t, o)
            a == abs_addr(OpAddr(l, t, o))
            x == Written(mem, a + n, c)
<1>0. /\ n \in 0 .. Len(w) /\ n + Len(c) =< Len(w) /\ IsSeq(c)
      /\ \A j \in 1 .. Len(c) : c[j] = w[n + j]
  BY DEF Follows
<1>1. a \in Nat /\ Len(w) \in Nat /\ Len(c) \in Nat /\ n \in Nat
  BY <1>0, OpFacts, LengthIsNatural
<1>2. ASSUME NEW b \in Address
      PROVE  x[b] = IF b < a + n \/ b >= a + n + Len(c) THEN mem[b] ELSE c[b - (a + n) + 1]
  BY DEF Written
<1>3. Address \subseteq Int
  BY WindowBounds DEF Address
<1>. HIDE DEF x, a
<1>4. ASSUME NEW b \in Address
      PROVE  x[b] = mem[b] \/ \E k \in 1 .. Len(w) : b = a + k - 1 /\ x[b] = w[k]
  <2>1. CASE b < a + n \/ b >= a + n + Len(c)
    BY <1>2, <2>1
  <2>2. CASE ~(b < a + n \/ b >= a + n + Len(c))
    <3>. DEFINE j == b - (a + n) + 1
    <3>1. j \in 1 .. Len(c) /\ n + j \in 1 .. Len(w) /\ b = a + (n + j) - 1
      BY <1>0, <1>1, <1>3, <2>2
    <3>2. x[b] = c[j]
      BY <1>2, <2>2
    <3>. HIDE DEF j
    <3>3. x[b] = w[n + j]
      BY <1>0, <3>1, <3>2
    <3>. QED
      BY <3>1, <3>3
  <2>. QED
    BY <2>1, <2>2
<1>. QED
  BY <1>4 DEF Touches, a, x

LEMMA PutHolds ==
  ASSUME NEW l \in Layouts, NEW t \in Tables, NEW o, IsRequest(l, t, o), NEW mem,
         is_range_valid(OpAddr(l, t, o), Len(OpCells(l, t, o))),
         NEW n, NEW c, Follows(l, t, o, n, c), Holds(l, t, o, mem, n)
  PROVE  Holds(l, t, o, Written(mem, abs_addr(OpAddr(l, t, o)) + n, c), n + Len(c))
<1>. DEFINE w == OpCells(l, t, o)
            a == abs_addr(OpAddr(l, t, o))
            x == Written(mem, a + n, c)
<1>0. /\ n \in 0 .. Len(w) /\ n + Len(c) =< Len(w) /\ IsSeq(c)
      /\ \A j \in 1 .. Len(c) : c[j] = w[n + j]
  BY DEF Follows
<1>1. a \in Nat /\ Len(w) \in Nat /\ Len(c) \in Nat /\ n \in Nat
  BY <1>0, OpFacts, LengthIsNatural
<1>2. \A k \in 1 .. n : mem[a + k - 1] = w[k]
  BY DEF Holds
<1>3. ASSUME NEW k \in 1 .. n + Len(c) PROVE x[a + k - 1] = w[k]
  <2>. DEFINE b == a + k - 1
  <2>1. b \in Address
    <3>1. OpAddr(l, t, o) \in Nat /\ k \in 1 .. Len(w)
      BY <1>0, <1>1, OpFacts
    <3>. QED
      BY <1>1, <3>1, RangeInAddress
  <2>2. x[b] = IF b < a + n \/ b >= a + n + Len(c) THEN mem[b] ELSE c[b - (a + n) + 1]
    BY <2>1 DEF Written
  <2>. HIDE DEF x, a
  <2>3. CASE k =< n
    <3>1. b < a + n /\ k \in 1 .. n
      BY <1>1, <2>3
    <3>2. x[b] = mem[b]
      BY <2>2, <3>1
    <3>. QED
      BY <1>2, <3>1, <3>2
  <2>4. CASE k > n
    <3>. DEFINE j == k - n
    <3>1. /\ ~(b < a + n \/ b >= a + n + Len(c)) /\ j \in 1 .. Len(c) /\ n + j = k
          /\ b - (a + n) + 1 = j
      BY <1>1, <2>4
    <3>. HIDE DEF b, j
    <3>2. x[b] = c[j]
      BY <2>2, <3>1
    <3>3. c[j] = w[n + j]
      BY <1>0, <3>1
    <3>. QED
      BY <3>1, <3>2, <3>3 DEF b
  <2>. QED
    BY <1>1, <2>3, <2>4
<1>. QED
  BY <1>3 DEF Holds

\* A driver call, whole or cut, writes some of the bytes that are left.
LEMMA CallTouches ==
  ASSUME Loop, left # <<>>, NEW l \in Layouts, NEW t \in Tables, NEW o, NEW mem,
         Underway(l, t, o, mem, addr, left), NEW k \in 0 .. Chunk
  PROVE  Touches(l, t, o, mem, Written(mem, addr, SubSeq(NextBytes, 1, k)))
<1>. DEFINE w == OpCells(l, t, o)
            c == SubSeq(NextBytes, 1, k)
<1>1. IsRequest(l, t, o) /\ \E n : Came(l, t, o, mem, addr, left, n)
  BY DEF Underway
<1>2. PICK n : Came(l, t, o, mem, addr, left, n)
  BY <1>1
<1>3. n \in 0 .. Len(w) /\ left = SubSeq(w, n + 1, Len(w)) /\ addr = abs_addr(OpAddr(l, t, o)) + n
  BY <1>2 DEF Came
<1>4. IsSeq(w) /\ Len(w) \in Nat
  BY <1>1, OpFacts
<1>5. /\ Chunk \in Nat /\ Chunk =< Len(left) /\ Len(left) \in Nat
      /\ IsSeq(NextBytes) /\ Len(NextBytes) = Chunk
  BY ChunkFits, LoopBounds
<1>6. IsSeq(left) /\ left # <<>>
  BY DEF Loop
<1>. HIDE DEF w
<1>7. Len(left) = Len(w) - n /\ \A j \in 1 .. Len(left) : left[j] = w[n + j]
  <2>1. /\ Len(left) = IF n + 1 =< Len(w) THEN Len(w) - (n + 1) + 1 ELSE 0
        /\ \A j \in 1 .. Len(left) : left[j] = w[n + 1 + j - 1]
    BY <1>3, <1>4, SubSeqFacts
  <2>2. \A j \in 1 .. Len(left) : n + 1 + j - 1 = n + j
    BY <1>3
  <2>. QED
    BY <1>3, <1>4, <1>5, <2>1, <2>2
<1>8. IsSeq(c) /\ Len(c) = k /\ \A j \in 1 .. k : c[j] = left[j]
  <2>1. IsSeq(c) /\ Len(c) = (IF 1 =< k THEN k - 1 + 1 ELSE 0)
        /\ \A j \in 1 .. Len(c) : c[j] = NextBytes[1 + j - 1]
    BY <1>5, SubSeqFacts
  <2>2. Len(c) = k
    BY <1>5, <2>1
  <2>3. \A j \in 1 .. Chunk : NextBytes[j] = left[1 + j - 1]
    BY <1>5, <1>6, SubSeqFacts DEF NextBytes
  <2>4. \A j \in 1 .. k : j \in 1 .. Chunk /\ 1 + j - 1 = j
    BY <1>5
  <2>. HIDE DEF c
  <2>. QED
    BY <2>1, <2>2, <2>3, <2>4
<1>. HIDE DEF c
<1>9. n + Len(c) =< Len(w) /\ \A j \in 1 .. Len(c) : c[j] = w[n + j]
  BY <1>3, <1>4, <1>5, <1>7, <1>8
<1>10. Follows(l, t, o, n, c)
  BY <1>3, <1>8, <1>9 DEF Follows, w
<1>11. Touches(l, t, o, mem, Written(mem, abs_addr(OpAddr(l, t, o)) + n, c))
  BY <1>1, <1>10, PutTouches
<1>. QED
  BY <1>3, <1>11 DEF c

\* The pages the device loses are untouched.
LEMMA StoredTouches ==
  ASSUME NEW l, NEW t, NEW o, NEW mem, NEW a, NEW c, Touches(l, t, o, mem, Written(mem, a, c)),
         NEW other \in Stored(mem, a, c)
  PROVE  Touches(l, t, o, mem, other)
<1>. DEFINE whole == Written(mem, a, c)
<1>1. \A b \in Address : other[b] = mem[b] \/ other[b] = whole[b]
  BY StoredBytes
<1>. HIDE DEF whole
<1>2. Touches(l, t, o, mem, whole)
  BY DEF whole
<1>. QED
  BY <1>1, <1>2 DEF Touches

LEMMA UntouchedTouches == \A l, t, o, mem : Touches(l, t, o, mem, mem)
  BY DEF Touches

LEMMA LeftFacts ==
  ASSUME NEW l \in Layouts, NEW t \in Tables, NEW o, IsRequest(l, t, o), NEW mem, NEW a, NEW rest,
         NEW n, Came(l, t, o, mem, a, rest, n)
  PROVE  /\ IsSeq(rest) /\ Len(rest) = Len(OpCells(l, t, o)) - n
         /\ \A j \in 1 .. Len(rest) : rest[j] = OpCells(l, t, o)[n + j]
<1>. DEFINE w == OpCells(l, t, o)
<1>1. n \in 0 .. Len(w) /\ rest = SubSeq(w, n + 1, Len(w))
  BY DEF Came
<1>2. IsSeq(w) /\ Len(w) \in Nat
  BY OpFacts
<1>. HIDE DEF w
<1>3. /\ IsSeq(rest) /\ Len(rest) = IF n + 1 =< Len(w) THEN Len(w) - (n + 1) + 1 ELSE 0
      /\ \A j \in 1 .. Len(rest) : rest[j] = w[n + 1 + j - 1]
  BY <1>1, <1>2, SubSeqFacts
<1>4. Len(rest) = Len(w) - n /\ \A j \in 1 .. Len(rest) : n + 1 + j - 1 = n + j
  BY <1>1, <1>2, <1>3
<1>. QED
  BY <1>3, <1>4 DEF w

\* A call that has done its work brings the request further.
LEMMA CallComes ==
  ASSUME Loop, left # <<>>, NEW l \in Layouts, NEW t \in Tables, NEW o, NEW mem, NEW other,
         Underway(l, t, o, mem, addr, left),
         DropsWrites \/ other = Written(mem, addr, NextBytes)
  PROVE  Underway(l, t, o, other, addr + Chunk, SubSeq(left, Chunk + 1, Len(left)))
<1>. DEFINE w == OpCells(l, t, o)
            a == abs_addr(OpAddr(l, t, o))
<1>1. /\ IsRequest(l, t, o) /\ is_range_valid(OpAddr(l, t, o), Len(w))
      /\ \E n : Came(l, t, o, mem, addr, left, n)
  BY DEF Underway
<1>2. PICK n : Came(l, t, o, mem, addr, left, n)
  BY <1>1
<1>3. /\ n \in 0 .. Len(w) /\ left = SubSeq(w, n + 1, Len(w)) /\ addr = a + n
      /\ ~DropsWrites => Holds(l, t, o, mem, n)
  BY <1>2 DEF Came
<1>4. IsSeq(w) /\ Len(w) \in Nat /\ a \in Nat
  BY <1>1, OpFacts
<1>5. /\ Chunk \in Nat /\ Chunk =< Len(left) /\ Len(left) \in Nat
      /\ IsSeq(NextBytes) /\ Len(NextBytes) = Chunk
  BY ChunkFits, LoopBounds
<1>6. IsSeq(left) /\ Len(left) = Len(w) - n /\ \A j \in 1 .. Len(left) : left[j] = w[n + j]
  BY <1>1, <1>2, LeftFacts
<1>7. \A j \in 1 .. Chunk : NextBytes[j] = w[n + j]
  <2>1. \A j \in 1 .. Chunk : NextBytes[j] = left[1 + j - 1]
    BY <1>5, <1>6, SubSeqFacts DEF NextBytes
  <2>2. \A j \in 1 .. Chunk : j \in 1 .. Len(left) /\ 1 + j - 1 = j
    BY <1>5
  <2>. HIDE DEF w
  <2>. QED
    BY <1>6, <2>1, <2>2
<1>. HIDE DEF w, a
<1>8. SubSeq(left, Chunk + 1, Len(left)) = SubSeq(w, n + Chunk + 1, Len(w))
  <2>. DEFINE x == SubSeq(left, Chunk + 1, Len(left))
              y == SubSeq(w, n + Chunk + 1, Len(w))
  <2>1. /\ IsSeq(x) /\ Len(x) = (IF Chunk + 1 =< Len(left) THEN Len(left) - (Chunk + 1) + 1 ELSE 0)
        /\ \A j \in 1 .. Len(x) : x[j] = left[Chunk + 1 + j - 1]
    BY <1>5, <1>6, SubSeqFacts
  <2>2. /\ IsSeq(y) /\ Len(y) = (IF n + Chunk + 1 =< Len(w) THEN Len(w) - (n + Chunk + 1) + 1 ELSE 0)
        /\ \A j \in 1 .. Len(y) : y[j] = w[n + Chunk + 1 + j - 1]
    BY <1>3, <1>4, <1>5, SubSeqFacts
  <2>. HIDE DEF x, y
  <2>3. Len(x) = Len(left) - Chunk /\ Len(y) = Len(left) - Chunk
    BY <1>3, <1>4, <1>5, <1>6, <2>1, <2>2
  <2>4. ASSUME NEW j \in 1 .. Len(x) PROVE x[j] = y[j]
    <3>. DEFINE m == Len(left)
                c == Chunk
    <3>1. c \in Nat /\ m \in Nat /\ n \in Int /\ j \in 1 .. m - c /\ j \in 1 .. Len(y)
      BY <1>3, <1>5, <2>3
    <3>. HIDE DEF m, c
    <3>2. /\ c + 1 + j - 1 = c + j /\ c + j \in 1 .. m
          /\ n + (c + j) = n + c + 1 + j - 1 /\ j \in 1 .. Len(y)
      BY <3>1
    <3>3. Chunk + 1 + j - 1 = Chunk + j /\ Chunk + j \in 1 .. Len(left)
          /\ n + (Chunk + j) = n + Chunk + 1 + j - 1 /\ j \in 1 .. Len(y)
      BY <3>2 DEF m, c
    <3>4. left[Chunk + j] = w[n + (Chunk + j)]
      BY <1>6, <3>3
    <3>. QED
      BY <2>1, <2>2, <3>3, <3>4
  <2>5. x = y
    BY <2>1, <2>2, <2>3, <2>4, SeqEqual
  <2>. QED
    BY <2>5 DEF x, y
<1>9. n + Chunk \in 0 .. Len(w) /\ addr + Chunk = a + (n + Chunk)
  BY <1>3, <1>4, <1>5, <1>6
<1>10. ASSUME ~DropsWrites PROVE Holds(l, t, o, other, n + Chunk)
  <2>1. other = Written(mem, abs_addr(OpAddr(l, t, o)) + n, NextBytes) /\ Holds(l, t, o, mem, n)
    BY <1>3, <1>10 DEF a
  <2>2. Follows(l, t, o, n, NextBytes)
    BY <1>3, <1>5, <1>7, <1>9 DEF Follows, w
  <2>3. Holds(l, t, o, Written(mem, abs_addr(OpAddr(l, t, o)) + n, NextBytes), n + Len(NextBytes))
    BY <1>1, <2>1, <2>2, PutHolds DEF w
  <2>. QED
    BY <1>5, <2>1, <2>3
<1>11. Came(l, t, o, other, addr + Chunk, SubSeq(left, Chunk + 1, Len(left)), n + Chunk)
  <2>1. n + Chunk + 1 = (n + Chunk) + 1
    BY <1>3, <1>5
  <2>. QED
    BY <1>8, <1>9, <1>10, <2>1 DEF Came, w, a
<1>. QED
  BY <1>1, <1>11 DEF Underway, w

\* Of a request that has written all its bytes, on a device that keeps them.
LEMMA AllWritten ==
  ASSUME NEW l \in Layouts, NEW t \in Tables, NEW o, NEW mem, NEW a,
         Underway(l, t, o, mem, a, <<>>), ~DropsWrites
  PROVE  \A k \in 1 .. Len(OpCells(l, t, o)) :
           mem[abs_addr(OpAddr(l, t, o)) + k - 1] = OpCells(l, t, o)[k]
<1>1. IsRequest(l, t, o) /\ \E n : Came(l, t, o, mem, a, <<>>, n)
  BY DEF Underway
<1>2. PICK n : Came(l, t, o, mem, a, <<>>, n)
  BY <1>1
<1>3. Len(<<>>) = Len(OpCells(l, t, o)) - n
  BY <1>1, <1>2, LeftFacts
<1>4. Len(OpCells(l, t, o)) \in Nat /\ n \in 0 .. Len(OpCells(l, t, o))
  BY <1>1, <1>2, OpFacts DEF Came
<1>5. n = Len(OpCells(l, t, o))
  BY <1>3, <1>4, EmptySeq
<1>. QED
  BY <1>2, <1>5 DEF Came, Holds

\* What is read back like a value is that value.
LEMMA MatchesIsEqual ==
  ASSUME NEW l \in Layouts, NEW type, NEW v, NEW w, Readable(l, type, v), Readable(l, type, w),
         data_obj_matches(l, type, v, w)
  PROVE  v = w
<1>1. CASE l \in Slotted
  BY <1>1 DEF Slotted, data_obj_matches
<1>2. CASE l \notin Slotted
  <2>1. pack_payload(type, v) = pack_payload(type, w)
    BY <1>2 DEF Slotted, data_obj_matches
  <2>2. /\ IsSeq(v) /\ Len(v) = SlotSize /\ v = unpack_payload(type, v)
        /\ IsSeq(w) /\ Len(w) = SlotSize /\ w = unpack_payload(type, w)
    BY <1>2 DEF Readable
  <2>3. /\ unpack_payload(type, pack_payload(type, v)) = v
        /\ unpack_payload(type, pack_payload(type, w)) = w
    BY <2>2, UnpackPack
  <2>. QED
    BY <2>1, <2>3
<1>. QED
  BY <1>1, <1>2

\* A record or header request that is answered ok has stored what it was for.
LEMMA OkIsStored ==
  ASSUME NEW l \in Layouts, NEW t \in Tables, NEW o, NEW mem, NEW a,
         Underway(l, t, o, mem, a, <<>>),
         o.kind = "header" => \/ ~DropsWrites
                              \/ head_of(l, mem) = [sign |-> TRUE, body |-> Described(l, t)],
         o.kind = "record" =>
           \/ ~DropsWrites
           \/ /\ stored_record(l, mem, t, o.slot).status = "OK"
              /\ data_obj_matches(l, t[o.slot].type, o.data, stored_record(l, mem, t, o.slot).data)
  PROVE  /\ o.kind = "header" => head_of(l, mem) = [sign |-> TRUE, body |-> Described(l, t)]
         /\ o.kind = "record" => /\ stored_record(l, mem, t, o.slot).status = "OK"
                                 /\ Says(l, mem, t).rec[o.slot] = o.data
<1>1. IsRequest(l, t, o) /\ is_range_valid(OpAddr(l, t, o), Len(OpCells(l, t, o)))
  BY DEF Underway
<1>2. ASSUME o.kind = "header" PROVE head_of(l, mem) = [sign |-> TRUE, body |-> Described(l, t)]
  <2>1. CASE ~DropsWrites
    <3>1. OpAddr(l, t, o) = 0 /\ OpCells(l, t, o) = HeadImage[l][t] /\ Len(OpCells(l, t, o)) = 12
      BY <1>2, HeadOpFacts
    <3>2. \A k \in 1 .. 12 : mem[abs_addr(0) + k - 1] = HeadImage[l][t][k]
      BY <2>1, <3>1, AllWritten
    <3>3. HeadFits /\ abs_addr(0) = BaseAddr
      BY <1>1, <3>1, WindowBounds DEF HeadFits, HeadSize, abs_addr
    <3>. QED
      BY <3>2, <3>3, WholeHead
  <2>. QED
    BY <1>2, <2>1
<1>3. ASSUME o.kind = "record"
      PROVE  /\ stored_record(l, mem, t, o.slot).status = "OK"
             /\ stored_record(l, mem, t, o.slot).data = o.data
  <2>1. /\ o.slot \in DOMAIN t /\ OpAddr(l, t, o) = record_addr(l, t, o.slot)
        /\ Readable(l, t[o.slot].type, o.data)
        /\ Len(OpCells(l, t, o)) = Size(l, t, o.slot)
        /\ OpCells(l, t, o) = write_record(l, t[o.slot], o.data)
    BY <1>1, <1>3, RecordOpFacts
  <2>2. CASE ~DropsWrites
    <3>1. \A k \in 1 .. Size(l, t, o.slot) :
            mem[Start(l, t, o.slot) + k - 1] = write_record(l, t[o.slot], o.data)[k]
      <4>1. abs_addr(OpAddr(l, t, o)) = Start(l, t, o.slot)
        BY <2>1 DEF Start
      <4>2. \A k \in 1 .. Len(OpCells(l, t, o)) :
              mem[abs_addr(OpAddr(l, t, o)) + k - 1] = OpCells(l, t, o)[k]
        BY <2>2, AllWritten
      <4>. QED
        BY <2>1, <4>1, <4>2
    <3>2. InRange(l, t, o.slot)
      BY <1>1, <2>1 DEF InRange
    <3>. QED
      BY <2>1, <3>1, <3>2, WholeIsStored
  <2>3. CASE DropsWrites
    <3>. DEFINE w == stored_record(l, mem, t, o.slot).data
    <3>1. /\ stored_record(l, mem, t, o.slot).status = "OK"
          /\ data_obj_matches(l, t[o.slot].type, o.data, w)
      BY <1>3, <2>3
    <3>2. Readable(l, t[o.slot].type, w)
      BY <2>1, <3>1, StoredSays
    <3>. HIDE DEF w
    <3>3. o.data = w
      BY <2>1, <3>1, <3>2, MatchesIsEqual
    <3>. QED
      BY <3>1, <3>3 DEF w
  <2>. QED
    BY <2>2, <2>3
<1>4. ASSUME o.kind = "record" PROVE Says(l, mem, t).rec[o.slot] = o.data
  <2>1. o.slot \in DOMAIN t
    BY <1>1, <1>4 DEF IsRequest
  <2>. QED
    BY <1>3, <1>4, <2>1, SaysRecord
<1>. QED
  BY <1>2, <1>3, <1>4

-----------------------------------------------------------------------------
(* The refinement.  Its inductive invariant: what the firmware makes of    *)
(* the bytes, what they may still become, and that a request that runs has *)
(* written a beginning of its bytes.                                       *)

RecordInv ==
  /\ Inv
  /\ seen = Says(layout, eeprom, table)
  /\ Consistent(layout, table, eeprom, op, pieces)
  /\ op # Idle => up /\ Underway(layout, table, op, eeprom, addr, left)

LEMMA RequestOfType ==
  ASSUME TypeOK, op # Idle
  PROVE  IsRequest(layout, table, op)
  BY DEF TypeOK, IsRequest, Idle

LEMMA SeenFacts ==
  ASSUME RecordInv
  PROVE  /\ layout \in Layouts /\ table \in Tables
         /\ seen.head = head_of(layout, eeprom)
         /\ seen.rec = Says(layout, eeprom, table).rec
         /\ op = Idle \/ IsRequest(layout, table, op)
<1>1. layout \in Layouts /\ table \in Tables /\ TypeOK
  BY DEF RecordInv, Inv, TypeOK
<1>2. op = Idle \/ IsRequest(layout, table, op)
  BY <1>1, RequestOfType
<1>3. seen = Says(layout, eeprom, table)
  BY DEF RecordInv
<1>4. seen.head = head_of(layout, eeprom)
  BY <1>3, SaysFacts
<1>. QED
  BY <1>1, <1>2, <1>3, <1>4

LEMMA InitRefines == Init => RecordInv /\ Store!Init
<1>. SUFFICES ASSUME Init PROVE RecordInv /\ Store!Init
  OBVIOUS
<1>1. Inv
  BY InitInv
<1>2. /\ layout \in Layouts /\ table \in Tables /\ \A b \in Address : eeprom[b] = Erased
      /\ seen = Says(layout, eeprom, table) /\ op = Idle /\ reply = "none"
      /\ pieces = [i \in 0 .. Len(table) |-> {}]
  BY DEF Init
<1>3. /\ head_of(layout, eeprom) = [sign |-> FALSE, body |-> Bad]
      /\ Says(layout, eeprom, table).rec = [i \in DOMAIN table |-> Bad]
      /\ Consistent(layout, table, eeprom, Idle, [i \in 0 .. Len(table) |-> {}])
  BY <1>2, ErasedImage
<1>4. RecordInv
  BY <1>1, <1>2, <1>3 DEF RecordInv
<1>5. /\ seen.head = [sign |-> FALSE, body |-> Bad]
      /\ seen.rec = [i \in DOMAIN table |-> Bad]
  BY <1>2, <1>3, <1>4, SeenFacts
<1>6. Store!Init
  BY <1>2, <1>5 DEF Store!Init, Store!NoOp, Idle
<1>. QED
  BY <1>4, <1>6

(* What a request makes of header and records is what RecordStore allows.  *)

LEMMA HeadsAreHeads == Store!Heads = HeadsOf(op, pieces, seen.head)
  BY DEF Store!Heads, HeadsOf
LEMMA RecsAreRecs == Store!Recs = RecsOf(op, pieces, seen.rec)
  BY DEF Store!Recs, RecsOf

LEMMA Worked ==
  ASSUME RecordInv, op # Idle, NEW mem, Touches(layout, table, op, eeprom, mem)
  PROVE  /\ Says(layout, mem, table).head \in Store!Heads
         /\ Says(layout, mem, table).rec \in Store!Recs
         /\ Consistent(layout, table, mem, op, pieces)
<1>1. /\ layout \in Layouts /\ table \in Tables /\ IsRequest(layout, table, op)
      /\ seen.head = head_of(layout, eeprom) /\ seen.rec = Says(layout, eeprom, table).rec
      /\ Consistent(layout, table, eeprom, op, pieces)
  BY SeenFacts DEF RecordInv
<1>2. head_of(layout, mem) \in HeadsOf(op, pieces, seen.head)
  BY <1>1, WorkHead
<1>3. Says(layout, mem, table).rec \in RecsOf(op, pieces, seen.rec)
  BY <1>1, WorkRecords
<1>4. Consistent(layout, table, mem, op, pieces)
  BY <1>1, WorkKeeps
<1>. QED
  BY <1>2, <1>3, <1>4, HeadsAreHeads, RecsAreRecs, SaysFacts

LEMMA BindingRefines ==
  ASSUME RecordInv, Inv', StoreInit \/ StoreDeinit
  PROVE  RecordInv' /\ Store!Refuse
<1>1. op = Idle /\ reply' \in {"none", "error"}
      /\ UNCHANGED <<eeprom, layout, table, op, addr, left, seen, pieces>>
  BY DEF StoreInit, StoreDeinit, RecordInv, nvm
<1>2. RecordInv'
  BY <1>1 DEF RecordInv
<1>3. Store!Refuse
  BY <1>1 DEF Store!Refuse, Store!NoOp, Idle
<1>. QED
  BY <1>2, <1>3

\* A request is begun, or refused for its range.
LEMMA BeginRefines ==
  ASSUME RecordInv, Inv', Calls, NEW o, IsRequest(layout, table, o), o # Idle,
         \/ o \in {[Idle EXCEPT !.kind = k] : k \in {"erase", "header"}}
         \/ /\ o \in {[kind |-> "record", slot |-> i, data |-> d] : i \in DOMAIN table, d \in AnyValue}
            /\ o.data \in Values(layout, table[o.slot]),
         Transfers(o, OpAddr(layout, table, o), OpCells(layout, table, o))
  PROVE  RecordInv' /\ (Store!Begin \/ Store!Refuse)
<1>. DEFINE w == OpCells(layout, table, o)
            a == OpAddr(layout, table, o)
<1>1. /\ up /\ op = Idle /\ layout \in Layouts /\ table \in Tables
      /\ UNCHANGED <<eeprom, layout, table, open, owner, up, seen>>
      /\ seen = Says(layout, eeprom, table) /\ Consistent(layout, table, eeprom, Idle, pieces)
  BY SeenFacts DEF Calls, RecordInv, nvm, binding
<1>2. CASE is_range_valid(a, Len(w))
  <2>1. /\ op' = o /\ addr' = abs_addr(a) /\ left' = w /\ reply' = "none"
        /\ pieces' = Begun(layout, table, o, pieces, seen)
    BY <1>2 DEF Transfers, Begun
  <2>2. Consistent(layout, table, eeprom, o, pieces')
    BY <1>1, <2>1, BeginKeeps
  <2>3. Came(layout, table, o, eeprom, abs_addr(a), w, 0)
    <3>1. IsSeq(w) /\ Len(w) \in Nat /\ abs_addr(a) \in Nat
      BY <1>1, OpFacts
    <3>2. w = SubSeq(w, 0 + 1, Len(w))
      <4>. HIDE DEF w
      <4>1. SubSeq(w, 1, Len(w)) = w
        BY <3>1, WholeSubSeq
      <4>. QED
        BY <4>1
    <3>3. Holds(layout, table, o, eeprom, 0)
      BY DEF Holds
    <3>4. 0 \in 0 .. Len(w) /\ abs_addr(a) = abs_addr(a) + 0
      BY <3>1
    <3>. QED
      BY <3>2, <3>3, <3>4 DEF Came
  <2>4. Underway(layout, table, o, eeprom, abs_addr(a), w)
    BY <1>2, <2>3 DEF Underway
  <2>. HIDE DEF w, a
  <2>5. RecordInv'
    BY <1>1, <2>1, <2>2, <2>4 DEF RecordInv
  <2>6. Store!Begin
    <3>1. op = Store!NoOp
      BY <1>1 DEF Store!NoOp, Idle
    <3>2. \/ \E k \in {"erase", "header"} : op' = [Store!NoOp EXCEPT !.kind = k]
          \/ \E i \in DOMAIN table : \E d \in Values(layout, table[i]) :
               op' = [kind |-> "record", slot |-> i, data |-> d]
      BY <2>1 DEF Store!NoOp, Idle
    <3>3. pieces' = CASE op'.kind = "record" ->
                           [pieces EXCEPT ![op'.slot] = @ \cup {seen.rec[op'.slot], op'.data}]
                      [] op'.kind = "header" ->
                           [pieces EXCEPT ![0] = @ \cup {seen.head.body, Described(layout, table)}]
                      [] OTHER -> pieces
      BY <2>1 DEF Begun
    <3>. QED
      BY <1>1, <2>1, <3>1, <3>2, <3>3 DEF Store!Begin, Store!NewHead
  <2>. QED
    BY <2>5, <2>6
<1>3. CASE ~is_range_valid(a, Len(w))
  <2>1. op' = Idle /\ reply' = "error" /\ pieces' = pieces
    BY <1>3 DEF Transfers, Answers
  <2>2. RecordInv'
    BY <1>1, <2>1 DEF RecordInv
  <2>3. Store!Refuse
    BY <1>1, <2>1 DEF Store!Refuse, Store!NoOp, Idle
  <2>. QED
    BY <2>2, <2>3
<1>. QED
  BY <1>2, <1>3

LEMMA WriteRecordRefines ==
  ASSUME RecordInv, Inv', WriteRecord
  PROVE  RecordInv' /\ (Store!Begin \/ Store!Refuse)
<1>1. layout \in Layouts /\ table \in Tables
  BY SeenFacts
<1>2. PICK i \in DOMAIN table : \E d \in Values(layout, table[i]) :
        Transfers([kind |-> "record", slot |-> i, data |-> d],
                  record_addr(layout, table, i), write_record(layout, table[i], d))
  BY DEF WriteRecord
<1>3. PICK d \in Values(layout, table[i]) :
        Transfers([kind |-> "record", slot |-> i, data |-> d],
                  record_addr(layout, table, i), write_record(layout, table[i], d))
  BY <1>2
<1>. DEFINE o == [kind |-> "record", slot |-> i, data |-> d]
<1>4. IsRequest(layout, table, o) /\ o # Idle /\ d \in AnyValue
  BY <1>1, ValuesAreReadable DEF IsRequest, Idle
<1>5. OpAddr(layout, table, o) = record_addr(layout, table, i)
      /\ OpCells(layout, table, o) = write_record(layout, table[i], d)
  BY DEF OpAddr, OpCells
<1>6. Transfers(o, OpAddr(layout, table, o), OpCells(layout, table, o))
  BY <1>3, <1>5
<1>7. /\ o \in {[kind |-> "record", slot |-> j, data |-> e] : j \in DOMAIN table, e \in AnyValue}
      /\ o.data \in Values(layout, table[o.slot])
  BY <1>4
<1>. HIDE DEF o
<1>8. Calls
  BY DEF WriteRecord
<1>. QED
  BY <1>4, <1>6, <1>7, <1>8, BeginRefines

LEMMA HeaderRefines ==
  ASSUME RecordInv, Inv', WriteHeader \/ EraseSignature
  PROVE  RecordInv' /\ (Store!Begin \/ Store!Refuse)
<1>1. PICK k \in {"erase", "header"} :
        Transfers([kind |-> k, slot |-> 0, data |-> Bad],
                  0, OpCells(layout, table, [kind |-> k, slot |-> 0, data |-> Bad]))
  BY DEF WriteHeader, EraseSignature, OpCells
<1>. DEFINE o == [kind |-> k, slot |-> 0, data |-> Bad]
<1>2. /\ IsRequest(layout, table, o) /\ o # Idle /\ OpAddr(layout, table, o) = 0
      /\ o = [Idle EXCEPT !.kind = k]
  BY DEF IsRequest, Idle, OpAddr
<1>3. Transfers(o, OpAddr(layout, table, o), OpCells(layout, table, o))
  BY <1>1, <1>2
<1>. HIDE DEF o
<1>4. Calls
  BY DEF WriteHeader, EraseSignature
<1>. QED
  BY <1>2, <1>3, <1>4, BeginRefines

LEMMA RunningFacts ==
  ASSUME RecordInv, op # Idle
  PROVE  /\ up /\ IsRequest(layout, table, op) /\ op # Store!NoOp
         /\ Underway(layout, table, op, eeprom, addr, left)
  BY SeenFacts DEF RecordInv, Store!NoOp, Idle

LEMMA CutTouches ==
  ASSUME RecordInv, left # <<>>, NEW mem \in Cut(eeprom, addr, NextBytes)
  PROVE  Touches(layout, table, op, eeprom, mem)
<1>1. Loop /\ op # Idle
  BY DEF RecordInv, Inv, TypeOK
<1>2. PICK k \in 0 .. Len(NextBytes) : mem \in Stored(eeprom, addr, SubSeq(NextBytes, 1, k))
  BY DEF Cut
<1>3. k \in 0 .. Chunk
  BY <1>1, <1>2, ChunkFits
<1>4. Touches(layout, table, op, eeprom, Written(eeprom, addr, SubSeq(NextBytes, 1, k)))
  BY <1>1, <1>3, RunningFacts, SeenFacts, CallTouches
<1>. QED
  BY <1>2, <1>4, StoredTouches

LEMMA PageTouches ==
  ASSUME RecordInv, left # <<>>, NEW mem \in Stored(eeprom, addr, NextBytes)
  PROVE  Touches(layout, table, op, eeprom, mem)
<1>1. Loop
  BY DEF RecordInv, Inv
<1>2. IsSeq(NextBytes) /\ Len(NextBytes) = Chunk /\ Chunk \in Nat
  BY <1>1, ChunkFits
<1>. DEFINE c == NextBytes
<1>3. SubSeq(c, 1, Len(c)) = c
  <2>. HIDE DEF c
  <2>1. IsSeq(c)
    BY <1>2 DEF c
  <2>. QED
    BY <2>1, WholeSubSeq
<1>4. Len(c) \in 0 .. Len(c)
  BY <1>2
<1>5. Stored(eeprom, addr, SubSeq(c, 1, Len(c))) \subseteq Cut(eeprom, addr, c)
  BY <1>4 DEF Cut
<1>6. mem \in Cut(eeprom, addr, c)
  BY <1>3, <1>5
<1>. HIDE DEF c
<1>. QED
  BY <1>6, CutTouches DEF c

LEMMA SeqOfIdle == Inv /\ op = Idle => left = <<>>
  BY DEF Inv, TypeOK

LEMMA TransferRefines ==
  ASSUME RecordInv, Inv', Transfer
  PROVE  RecordInv' /\ (Store!Work \/ Store!AnswerError)
<1>1. /\ left # <<>> /\ op # Idle /\ Loop
      /\ seen' = Says(layout, eeprom', table)
      /\ UNCHANGED <<layout, table, open, owner, up, pieces>>
  BY DEF Transfer, nvm, binding, RecordInv, Inv, TypeOK
<1>2. /\ layout \in Layouts /\ table \in Tables /\ up
      /\ Underway(layout, table, op, eeprom, addr, left) /\ op # Store!NoOp
  BY <1>1, SeenFacts, RunningFacts
<1>3. CASE /\ eeprom' \in Stored(eeprom, addr, NextBytes)
           /\ addr' = addr + Chunk
           /\ left' = SubSeq(left, Chunk + 1, Len(left))
           /\ UNCHANGED <<op, reply>>
  <2>1. Touches(layout, table, op, eeprom, eeprom')
    BY <1>1, <1>3, PageTouches
  <2>2. /\ Says(layout, eeprom', table).head \in Store!Heads
        /\ Says(layout, eeprom', table).rec \in Store!Recs
        /\ Consistent(layout, table, eeprom', op, pieces)
    BY <1>1, <2>1, Worked
  <2>3. Underway(layout, table, op, eeprom', addr + Chunk, SubSeq(left, Chunk + 1, Len(left)))
    BY <1>1, <1>2, <1>3, StoredBytes, CallComes
  <2>4. RecordInv'
    BY <1>1, <1>2, <1>3, <2>2, <2>3 DEF RecordInv
  <2>5. Store!Work
    BY <1>1, <1>2, <1>3, <2>2 DEF Store!Work
  <2>. QED
    BY <2>4, <2>5
<1>4. CASE eeprom' \in Cut(eeprom, addr, NextBytes) /\ Answers("error")
  <2>1. Touches(layout, table, op, eeprom, eeprom')
    BY <1>1, <1>4, CutTouches
  <2>2. /\ Says(layout, eeprom', table).head \in Store!Heads
        /\ Says(layout, eeprom', table).rec \in Store!Recs
        /\ Consistent(layout, table, eeprom', op, pieces)
    BY <1>1, <2>1, Worked
  <2>3. op' = Idle /\ reply' = "error"
    BY <1>4 DEF Answers
  <2>4. Consistent(layout, table, eeprom', Idle, pieces)
    BY <1>2, <2>2, StopKeeps
  <2>5. RecordInv'
    BY <1>1, <2>3, <2>4 DEF RecordInv
  <2>6. Store!AnswerError
    BY <1>1, <1>2, <2>2, <2>3 DEF Store!AnswerError, Store!NoOp, Idle
  <2>. QED
    BY <2>5, <2>6
<1>. QED
  BY <1>3, <1>4 DEF Transfer

LEMMA SyncRefines ==
  ASSUME RecordInv, Inv', SyncAndVerify
  PROVE  RecordInv' /\ (Store!AnswerOk \/ Store!AnswerError)
<1>1. /\ left = <<>> /\ op # Idle /\ op' = Idle
      /\ UNCHANGED <<eeprom, layout, table, open, owner, up, seen>>
  BY DEF SyncAndVerify, nvm, binding, Answers
<1>2. /\ layout \in Layouts /\ table \in Tables /\ op # Store!NoOp
      /\ IsRequest(layout, table, op)
      /\ Underway(layout, table, op, eeprom, addr, <<>>)
      /\ Consistent(layout, table, eeprom, op, pieces)
      /\ seen = Says(layout, eeprom, table)
      /\ seen.head = head_of(layout, eeprom)
      /\ seen.rec = Says(layout, eeprom, table).rec
  BY <1>1, SeenFacts, RunningFacts DEF RecordInv
<1>3. CASE /\ WriteVerify => Verified
           /\ reply' = "ok"
           /\ pieces' = CASE op.kind = "record" -> [pieces EXCEPT ![op.slot] = {}]
                          [] op.kind = "header" -> [pieces EXCEPT ![0] = {}]
                          [] OTHER              -> pieces
  <2>1. \/ ~DropsWrites
        \/ Verified
    BY <1>3, FaultsAssumption
  <2>2. /\ op.kind = "header" => head_of(layout, eeprom) = [sign |-> TRUE, body |-> Described(layout, table)]
        /\ op.kind = "record" => /\ stored_record(layout, eeprom, table, op.slot).status = "OK"
                                 /\ Says(layout, eeprom, table).rec[op.slot] = op.data
    <3>1. op.kind = "header" => \/ ~DropsWrites
                                \/ head_of(layout, eeprom) = [sign |-> TRUE, body |-> Described(layout, table)]
      BY <2>1 DEF Verified
    <3>2. op.kind = "record" =>
            \/ ~DropsWrites
            \/ /\ stored_record(layout, eeprom, table, op.slot).status = "OK"
               /\ data_obj_matches(layout, table[op.slot].type, op.data,
                                   stored_record(layout, eeprom, table, op.slot).data)
      BY <2>1 DEF Verified
    <3>. QED
      BY <1>2, <3>1, <3>2, OkIsStored
  <2>3. Consistent(layout, table, eeprom, Idle, pieces')
    <3>1. CASE op.kind = "record"
      <4>1. op.slot \in DOMAIN table
        BY <1>2, <3>1 DEF IsRequest
      <4>2. pieces' = [pieces EXCEPT ![op.slot] = {}]
        BY <1>3, <3>1
      <4>. QED
        BY <1>2, <2>2, <3>1, <4>1, <4>2, RecordDone
    <3>2. CASE op.kind = "header"
      <4>1. pieces' = [pieces EXCEPT ![0] = {}]
        BY <1>3, <3>2
      <4>. QED
        BY <1>2, <2>2, <3>2, <4>1, HeaderDone
    <3>3. CASE op.kind = "erase"
      <4>1. pieces' = pieces
        BY <1>3, <3>3
      <4>. QED
        BY <1>2, <4>1, StopKeeps
    <3>. QED
      BY <1>2, <3>1, <3>2, <3>3 DEF IsRequest
  <2>4. RecordInv'
    BY <1>1, <1>2, <2>3 DEF RecordInv
  <2>5. pieces' = IF op.kind = "erase" THEN pieces ELSE [pieces EXCEPT ![Store!Part(op)] = {}]
    BY <1>2, <1>3 DEF Store!Part, IsRequest
  <2>6. /\ op.kind = "header" => seen.head = Store!NewHead
        /\ op.kind = "record" => seen.rec[op.slot] = op.data
    BY <1>2, <2>2 DEF Store!NewHead
  <2>7. Store!AnswerOk
    BY <1>1, <1>2, <1>3, <2>5, <2>6 DEF Store!AnswerOk, Store!NoOp, Idle
  <2>. QED
    BY <2>4, <2>7
<1>4. CASE reply' = "error" /\ UNCHANGED pieces
  <2>1. Consistent(layout, table, eeprom, Idle, pieces)
    BY <1>2, StopKeeps
  <2>2. RecordInv'
    BY <1>1, <1>2, <1>4, <2>1 DEF RecordInv
  <2>3. Touches(layout, table, op, eeprom, eeprom)
    BY UntouchedTouches
  <2>4. seen.head \in Store!Heads /\ seen.rec \in Store!Recs
    BY <1>1, <1>2, <2>3, Worked
  <2>5. Store!AnswerError
    BY <1>1, <1>2, <1>4, <2>4 DEF Store!AnswerError, Store!NoOp, Idle
  <2>. QED
    BY <2>2, <2>5
<1>. QED
  BY <1>3, <1>4 DEF SyncAndVerify, Answers

\* Which records a header covers, in the words of RecordStore.
LEMMA CoversTheSame ==
  ASSUME layout \in Layouts, NEW t \in Tables, NEW h, KnownHead(layout, h)
  PROVE  Store!Covered(h, t) = Covered(layout, h, t)
<1>1. CASE h.body = Bad
  BY <1>1 DEF Store!Covered, Covered
<1>2. CASE h.body # Bad
  <2>1. PICK u \in Tables : h.body = Described(layout, u)
    BY <1>2 DEF KnownHead
  <2>2. Len(h.body) \in Nat
    <3>1. Len(u) \in Nat
      BY TableFacts
    <3>. QED
      BY <2>1, <3>1, IdFacts DEF Described
  <2>. DEFINE n == Len(h.body)
  <2>3. ASSUME n =< Len(t) PROVE Described(layout, SubSeq(t, 1, n)) = table_id_for_count(layout, t, n)
    <3>. DEFINE s == SubSeq(t, 1, n)
                x == table_id_for_count(layout, s, n)
                y == table_id_for_count(layout, t, n)
    <3>1. IsSeq(t) /\ n \in Nat /\ 1 \in Nat /\ n =< Len(t)
      BY <2>2, <2>3, TablesAssumption DEF IsSeq
    <3>. HIDE DEF n
    <3>2. /\ Len(s) = (IF 1 =< n THEN n - 1 + 1 ELSE 0)
          /\ \A k \in 1 .. Len(s) : s[k] = t[1 + k - 1]
      BY <3>1, SubSeqFacts
    <3>3. Len(s) = n /\ \A k \in 1 .. n : 1 + k - 1 = k
      BY <3>1, <3>2
    <3>4. \A k \in 1 .. n : s[k] = t[k]
      BY <3>2, <3>3
    <3>. HIDE DEF s
    <3>5. /\ IsSeq(x) /\ Len(x) = n /\ IsSeq(y) /\ Len(y) = n
          /\ \A k \in 1 .. n :
               /\ x[k] = [type |-> s[k].type, id |-> IF has_stored_id(layout) THEN s[k].id ELSE 0]
               /\ y[k] = [type |-> t[k].type, id |-> IF has_stored_id(layout) THEN t[k].id ELSE 0]
      BY <3>1, IdFacts
    <3>. HIDE DEF x, y
    <3>6. x = y
      BY <3>4, <3>5, SeqEqual
    <3>. QED
      BY <3>3, <3>6 DEF Described, s, x, y
  <2>4. Covered(layout, h, t)
          = IF /\ h.sign /\ h.body # Bad /\ n =< Len(t)
               /\ h.body = table_id_for_count(layout, t, n)
               /\ appends_tail(layout) \/ n = Len(t)
            THEN 1 .. n ELSE {}
    BY CoveredFacts
  <2>5. Store!Covered(h, t)
          = IF /\ h.sign /\ h.body # Bad /\ n =< Len(t)
               /\ h.body = Described(layout, SubSeq(t, 1, n))
               /\ appends_tail(layout) \/ n = Len(t)
            THEN 1 .. n ELSE {}
    BY DEF Store!Covered
  <2>. HIDE DEF n
  <2>. QED
    BY <2>3, <2>4, <2>5
<1>. QED
  BY <1>1, <1>2

LEMMA RebootRefines ==
  ASSUME RecordInv, Inv', Reboot
  PROVE  RecordInv' /\ Store!Reboot
<1>1. /\ layout' = layout /\ table' \in Tables /\ op' = Idle /\ reply' = "none"
      /\ seen' = Says(layout, eeprom', table')
      /\ pieces' = [i \in 0 .. Len(table') |->
                      IF i = 0 \/ table' = table \/ i \in Kept THEN pieces[i] ELSE AnyValue]
      /\ \/ left = <<>> /\ eeprom' = eeprom
         \/ left # <<>> /\ eeprom' \in Cut(eeprom, addr, NextBytes)
  BY DEF Reboot
<1>2. layout \in Layouts /\ table \in Tables
  BY SeenFacts
<1>. DEFINE mem == eeprom'
            r   == Says(layout, mem, table).rec
<1>3. seen'.head = head_of(layout, mem)
  BY <1>1, SaysFacts
<1>4. /\ seen'.head \in Store!Heads /\ r \in Store!Recs
      /\ Consistent(layout, table, mem, Idle, pieces)
  <2>1. CASE op = Idle
    <3>1. mem = eeprom
      BY <1>1, <2>1, SeqOfIdle DEF RecordInv
    <3>2. seen'.head = seen.head /\ r = seen.rec
      BY <1>3, <3>1, SeenFacts
    <3>3. seen.head \in Store!Heads /\ seen.rec \in Store!Recs
      BY <2>1 DEF Store!Heads, Store!Recs, Idle
    <3>4. Consistent(layout, table, mem, Idle, pieces)
      BY <2>1, <3>1 DEF RecordInv
    <3>. QED
      BY <3>2, <3>3, <3>4
  <2>2. CASE op # Idle
    <3>1. Touches(layout, table, op, eeprom, mem)
      BY <1>1, CutTouches, UntouchedTouches
    <3>2. /\ Says(layout, mem, table).head \in Store!Heads
          /\ Says(layout, mem, table).rec \in Store!Recs
          /\ Consistent(layout, table, mem, op, pieces)
      BY <2>2, <3>1, Worked
    <3>3. Says(layout, mem, table).head = head_of(layout, mem)
      BY SaysFacts
    <3>4. Consistent(layout, table, mem, Idle, pieces)
      BY <1>2, <3>2, StopKeeps
    <3>. QED
      BY <1>3, <3>2, <3>3, <3>4
  <2>. QED
    BY <2>1, <2>2
<1>5. Kept = BothCover(layout, mem, table, table')
  BY <1>3 DEF Kept, BothCover
<1>6. pieces' = AfterBoot(layout, mem, table, table', pieces)
  BY <1>1, <1>5 DEF AfterBoot
<1>7. Consistent(layout, table', mem, Idle, pieces')
  BY <1>1, <1>2, <1>4, <1>6, BootKeeps
<1>8. RecordInv'
  BY <1>1, <1>7 DEF RecordInv
<1>9. Store!Kept = Kept
  <2>1. KnownHead(layout, seen'.head)
    BY <1>2, <1>3, HeadIsKnown
  <2>2. /\ Store!Covered(seen'.head, table) = Covered(layout, seen'.head, table)
        /\ Store!Covered(seen'.head, table') = Covered(layout, seen'.head, table')
    BY <1>1, <1>2, <2>1, CoversTheSame
  <2>. QED
    BY <2>2 DEF Store!Kept, Kept
<1>10. /\ DOMAIN seen'.rec = DOMAIN table'
       /\ \A i \in DOMAIN table' : seen'.rec[i] \in AnyValue \cup {Bad}
  <2>1. KnownBytes(layout, mem)
    BY <1>4 DEF Consistent
  <2>2. ASSUME NEW i \in DOMAIN table' PROVE seen'.rec[i] \in AnyValue \cup {Bad}
    BY <1>1, <1>2, <2>1, <2>2, RecordIsKnown
  <2>3. seen'.rec = [i \in DOMAIN table' |-> seen'.rec[i]]
    BY <1>1, SaysFacts
  <2>. QED
    BY <2>2, <2>3
<1>11. /\ \A i \in Kept : seen'.rec[i] = r[i]
       /\ table' = table => seen'.rec = r
  BY <1>1, <1>2, <1>5, CoveredRecord
<1>. HIDE DEF r, mem
<1>12. Store!Reboot
  BY <1>1, <1>4, <1>9, <1>10, <1>11 DEF Store!Reboot, Store!NoOp, Idle
<1>. QED
  BY <1>8, <1>12

LEMMA StepRefines == RecordInv /\ [Next]_vars => RecordInv' /\ [Store!Next]_(Store!vars)
<1>. SUFFICES ASSUME RecordInv, [Next]_vars PROVE RecordInv' /\ [Store!Next]_(Store!vars)
  OBVIOUS
<1>1. Inv'
  BY NextInv DEF RecordInv
<1>2. CASE StoreInit \/ StoreDeinit
  BY <1>1, <1>2, BindingRefines DEF Store!Next
<1>3. CASE WriteRecord
  BY <1>1, <1>3, WriteRecordRefines DEF Store!Next
<1>4. CASE WriteHeader \/ EraseSignature
  BY <1>1, <1>4, HeaderRefines DEF Store!Next
<1>5. CASE Transfer
  BY <1>1, <1>5, TransferRefines DEF Store!Next
<1>6. CASE SyncAndVerify
  BY <1>1, <1>6, SyncRefines DEF Store!Next
<1>7. CASE Reboot
  BY <1>1, <1>7, RebootRefines DEF Store!Next
<1>8. CASE UNCHANGED vars
  BY <1>1, <1>8 DEF RecordInv, vars, nvm, binding, Store!vars
<1>. QED
  BY <1>2, <1>3, <1>4, <1>5, <1>6, <1>7, <1>8 DEF Next

\* Whatever the layout, the tables of the firmwares, the pages and the faults,
\* the records in the EEPROM are those of RecordStore: writes that fail, are
\* cut or are not stored (par_store_rtt_at24_write, par_nvm_write_header,
\* par_nvm_write), read-backs, and boots of firmware with another table.
THEOREM RecordsKeepPromise == Spec => ImplementsRecordStore
<1>1. Init => RecordInv /\ Store!Init
  BY InitRefines
<1>2. RecordInv /\ [Next]_vars => RecordInv' /\ [Store!Next]_(Store!vars)
  BY StepRefines
<1>. QED
  BY <1>1, <1>2, PTL DEF Spec, Store!Spec, ImplementsRecordStore
=============================================================================

--------------------------- MODULE ParCoreProofs ----------------------------
(* Theorems about ParCore, for every table, every number of threads and    *)
(* every assignment of mutexes to parameters.                              *)
EXTENDS ParCore, SumProofs

PCs == {"idle", "take", "store", "reread", "notify", "saveRead", "saveWrite",
        "clear", "copy", "commit", "saveObject", "copyOut", "cells", "pool",
        "slots"}
Args == Int \union Seq(Nat) \union SUBSET Scalars
Ops  == {"none", "set", "nsave", "default", "objset", "objsave", "save",
         "objget", "reset"}
Jobs == [op : Ops, p : Params, arg : Args]
Seen == [old : Int, new : Int, changed : BOOLEAN]

\* What an object may hold.
Values(p) == {v \in Seq(Nat) : object_len_is_valid(Table[p], Len(v))}

\* The calls the guards of the code let through, and where they start.
Fits(op, p, arg, at) ==
    /\ op \in {"set", "nsave"} => p \in Scalars /\ arg \in Int
    /\ op \in {"objset", "objsave"} => p \in Objects /\ arg \in Values(p)
    /\ op = "default" => arg = Default[p]
    /\ op = "save" => arg = 0 /\ (p \in Objects <=> at = "take")
    /\ op = "objget" => p \in Objects /\ arg \in Int
    /\ op = "reset" => p = 0 /\ arg = Scalars
    /\ at \in {"take", "saveRead"} /\ (at = "saveRead" => op = "save")

Accepted(t) ==
    \E op \in Ops \ {"none"}, p \in Params, at \in PCs :
    \E arg \in Args :
       /\ Fits(op, p, arg, at)
       /\ is_init /\ Ready(t)
       /\ Begin(t, op, p, arg, at)
       /\ UNCHANGED <<is_init, live, mirror, lock, nvm, heard, quiet, tainted,
                      whole, got>>

Refused(t) == Ready(t) /\ \E status : Refuse(t, status)

-----------------------------------------------------------------------------
(* The table: par_layout_init, whose one scan counts cells, slots and      *)
(* bytes, and the checks of par_init.                                      *)

N == rows(Table)

\* Parameter 0 exists, and every parameter is a row of the table.
LEMMA ParamsFacts ==
  /\ 0 \in Params /\ Params = DOMAIN Table
  /\ Objects \subseteq Params /\ Scalars = Params \ Objects
  BY TableAssumption DEF Params, Objects, Scalars

\* The rows are numbered.
LEMMA RowFacts ==
  /\ N \in Nat \ {0} /\ Params = 0 .. N - 1
  /\ \A k \in 1 .. N : k - 1 \in Params
  /\ \A p \in Params : p + 1 \in 1 .. N /\ (p + 1) - 1 = p /\ p \in 0 .. N
  BY TableAssumption DEF N

\* The length fields of an object row are numbers of 16 bits.
LEMMA LengthsAreNat ==
  ASSUME NEW p \in Objects
  PROVE  min_len(Table[p]) \in Nat /\ max_len(Table[p]) \in Nat
<1>1. Table[p].min \in Nat /\ Table[p].max \in Nat
  BY ObjectAssumption
<1>2. elem_size(Table[p].type) \in {1, 2, 4}
  BY DEF elem_size
<1>3. ASSUME NEW x \in Nat, NEW y \in {1, 2, 4} PROVE (x * y) % 65536 \in Nat
  OBVIOUS
<1> QED BY <1>1, <1>2, <1>3 DEF min_len, max_len

\* A type that is of a width group is no object's, and the other way round.
LEMMA GroupFacts ==
  ASSUME NEW p \in Params
  PROVE  width_group(Table[p].type) \in layout_counters
  BY DEF width_group, layout_counters

\* What the rows add to a counter of the scan.
Taken(c) == [k \in 1 .. N |-> row_takes(Table[k - 1], c)]

LEMMA TakenAreTerms ==
  ASSUME NEW c
  PROVE  /\ Terms(Taken(c), N)
         /\ \A k \in 1 .. N : Taken(c)[k] = row_takes(Table[k - 1], c)
<1>1. ASSUME NEW k \in 1 .. N PROVE row_takes(Table[k - 1], c) \in Nat
  <2>1. k - 1 \in Params
    BY RowFacts
  <2>2. type_is_object(Table[k - 1].type) => k - 1 \in Objects
    BY <2>1 DEF Objects
  <2> QED BY <2>2, LengthsAreNat DEF row_takes
<1> QED BY <1>1 DEF Terms, Taken

\* The scan of par_layout_init adds them up: its columns are sums.
Column(c) == [p \in 0 .. N |-> layout_scan(Table)[p][c]]

Scan(h) == [p \in 0 .. rows(Table) |->
              [c \in layout_counters |->
                 IF p = 0 THEN 0 ELSE h[p - 1][c] + row_takes(Table[p - 1], c)]]

LEMMA ScanExists == \E h : h = Scan(h)
<1> DEFINE f == [c \in layout_counters |-> CHOOSE s : Sums(s, Taken(c), N)]
           h == [p \in 0 .. N |-> [c \in layout_counters |-> f[c][p]]]
<1>1. ASSUME NEW c \in layout_counters PROVE Sums(f[c], Taken(c), N)
  <2>1. \E s : Sums(s, Taken(c), N)
    BY TakenAreTerms, RowFacts, SumsExist
  <2> QED BY <2>1
<1> HIDE DEF f
<1>2. ASSUME NEW p \in 0 .. N, NEW c \in layout_counters
      PROVE  h[p][c] = IF p = 0 THEN 0 ELSE h[p - 1][c] + row_takes(Table[p - 1], c)
  <2>1. CASE p = 0
    BY <1>1, <2>1 DEF Sums
  <2>2. CASE p # 0
    <3>1. p \in 1 .. N /\ p - 1 \in 0 .. N
      BY <2>2, RowFacts
    <3>2. f[c][p] = f[c][p - 1] + row_takes(Table[p - 1], c)
      BY <1>1, <3>1, TakenAreTerms DEF Sums
    <3>3. h[p][c] = f[c][p] /\ h[p - 1][c] = f[c][p - 1]
      BY <3>1
    <3> QED BY <2>2, <3>2, <3>3
  <2> QED BY <2>1, <2>2
<1>3. h = [p \in 0 .. N |-> [c \in layout_counters |-> h[p][c]]]
  OBVIOUS
<1> HIDE DEF h
<1>4. h = [p \in 0 .. N |-> [c \in layout_counters |->
             IF p = 0 THEN 0 ELSE h[p - 1][c] + row_takes(Table[p - 1], c)]]
  BY <1>2, <1>3
<1> QED BY <1>4 DEF Scan, N

LEMMA ColumnsAreSums ==
  ASSUME NEW c \in layout_counters
  PROVE  Sums(Column(c), Taken(c), N)
<1> DEFINE g == CHOOSE h : h = Scan(h)
<1>1. g = Scan(g)
  BY ScanExists
<1>2. layout_scan(Table) = g
  BY DEF layout_scan, Scan
<1> HIDE DEF g
<1>3. \A p \in 0 .. N : g[p][c] = IF p = 0 THEN 0
                                  ELSE g[p - 1][c] + row_takes(Table[p - 1], c)
  <2> SUFFICES ASSUME NEW p \in 0 .. N
               PROVE  g[p][c] = IF p = 0 THEN 0
                                ELSE g[p - 1][c] + row_takes(Table[p - 1], c)
    OBVIOUS
  <2>1. g[p] = [d \in layout_counters |->
                  IF p = 0 THEN 0 ELSE g[p - 1][d] + row_takes(Table[p - 1], d)]
    <3>1. \A h : h = Scan(g) => h[p] = [d \in layout_counters |->
                  IF p = 0 THEN 0 ELSE g[p - 1][d] + row_takes(Table[p - 1], d)]
      BY DEF Scan, N
    <3> QED BY <1>1, <3>1
  <2> QED BY <2>1
<1>4. \A p \in 0 .. N : Column(c)[p] = g[p][c]
  BY <1>2 DEF Column
<1>5. Column(c)[0] = 0
  BY <1>3, <1>4, RowFacts
<1>6. ASSUME NEW k \in 1 .. N PROVE Column(c)[k] = Column(c)[k - 1] + Taken(c)[k]
  <2>1. k \in 0 .. N /\ k - 1 \in 0 .. N /\ k # 0
    BY RowFacts
  <2>2. Column(c)[k] = Column(c)[k - 1] + row_takes(Table[k - 1], c)
    BY <1>3, <1>4, <2>1
  <2> QED BY <2>2, TakenAreTerms
<1>7. Column(c) = [p \in 0 .. N |-> Column(c)[p]]
  BY DEF Column
<1> QED BY <1>5, <1>6, <1>7, TakenAreTerms, RowFacts, SumsAre

\* No two scalars share a cell: par_layout_init counts each width group on
\* its own, and a load or store of one scalar never meets another one's.
CellsApart == \A p, q \in Scalars : p # q => Cell[p] # Cell[q]

\* The layout scan of par_layout_init gives every scalar its own cell.
THEOREM LayoutGivesCells == CellsApart
<1>1. SUFFICES ASSUME NEW p \in Scalars, NEW q \in Scalars, p < q, Cell[p] = Cell[q]
      PROVE  FALSE
  <2>1. Scalars \subseteq Int
    BY RowFacts, ParamsFacts
  <2> QED BY <2>1 DEF CellsApart
<1> DEFINE g == width_group(Table[p].type)
           s == Column(g)
<1>2. p \in Params /\ q \in Params /\ g \in layout_counters
  BY GroupFacts, ParamsFacts
<1>3. width_group(Table[q].type) = g /\ layout_offset(Table, p) = layout_offset(Table, q)
  BY <1>1 DEF Cell
<1> HIDE DEF g
<1>4. s[p] = s[q]
  BY <1>2, <1>3, RowFacts DEF g, layout_offset, Column
<1>5. p + 1 \in 1 .. N /\ (p + 1) - 1 = p /\ q \in p + 1 .. N /\ p \in 0 .. N
  BY <1>1, <1>2, RowFacts
<1>6. Taken(g)[p + 1] = 1
  <2>1. width_group(Table[p].type) # "pool"
    BY DEF width_group
  <2> QED BY <1>5, <2>1, TakenAreTerms DEF row_takes, g
<1>7. Sums(s, Taken(g), N)
  BY <1>2, ColumnsAreSums
<1>8. s[(p + 1) - 1] + Taken(g)[p + 1] =< s[q]
  BY <1>5, <1>7, TakenAreTerms, RowFacts, SumsGrow
<1>9. s[p] \in Nat
  BY <1>5, <1>7 DEF Sums
<1> QED BY <1>4, <1>5, <1>6, <1>8, <1>9

\* An object's bytes start behind those of the objects before it.
PoolBytes == Taken("pool")

LEMMA PoolIsSum ==
  \E b : /\ Sums(b, PoolBytes, N)
         /\ \A p \in Objects : PoolOff[p] = b[p]
         /\ layout_count(Table)["pool"] = b[N]
<1> DEFINE b == Column("pool")
<1>1. Sums(b, PoolBytes, N)
  BY ColumnsAreSums DEF layout_counters, PoolBytes
<1>2. \A p \in 0 .. N : b[p] = layout_scan(Table)[p]["pool"]
  BY DEF Column
<1> HIDE DEF b
<1>3. \A p \in Objects : PoolOff[p] = b[p]
  BY <1>2, RowFacts, ParamsFacts DEF PoolOff, obj_pool_offset
<1>4. layout_count(Table)["pool"] = b[N]
  BY <1>2, RowFacts DEF layout_count, N
<1> QED BY <1>1, <1>3, <1>4

LEMMA PoolTerms ==
  /\ Terms(PoolBytes, N)
  /\ \A k \in 1 .. N : PoolBytes[k] = IF k - 1 \in Objects THEN max_len(Table[k - 1]) ELSE 0
<1>1. ASSUME NEW k \in 1 .. N
      PROVE  PoolBytes[k] = IF k - 1 \in Objects THEN max_len(Table[k - 1]) ELSE 0
  <2>1. k - 1 \in Params
    BY RowFacts
  <2> QED BY <2>1, TakenAreTerms DEF PoolBytes, row_takes, Objects
<1> QED BY <1>1, TakenAreTerms DEF PoolBytes

LEMMA PoolFacts ==
  ASSUME NEW b, Sums(b, PoolBytes, N), NEW p \in Objects
  PROVE  /\ b[p] \in Nat /\ b[N] \in Nat /\ max_len(Table[p]) \in Nat
         /\ b[p] + max_len(Table[p]) =< b[N]
         /\ \A q \in Objects : p < q => b[p] + max_len(Table[p]) =< b[q]
<1>1. /\ p + 1 \in 1 .. N /\ (p + 1) - 1 = p /\ p \in 0 .. N /\ N \in 0 .. N
      /\ N \in p + 1 .. N
  BY RowFacts, ParamsFacts
<1>2. PoolBytes[p + 1] = max_len(Table[p])
  BY <1>1, PoolTerms
<1>3. ASSUME NEW j \in p + 1 .. N PROVE b[p] + max_len(Table[p]) =< b[j]
  <2>1. b[(p + 1) - 1] + PoolBytes[p + 1] =< b[j]
    BY <1>1, PoolTerms, RowFacts, SumsGrow
  <2> QED BY <1>1, <1>2, <2>1
<1>4. \A q \in Objects : p < q => q \in p + 1 .. N
  BY RowFacts, ParamsFacts
<1> QED BY <1>1, <1>3, <1>4, LengthsAreNat DEF Sums

\* No byte of the pool belongs to two objects, and all windows are in it.
WindowsApart ==
  /\ \A p, q \in Objects : p # q => Window[p] \intersect Window[q] = {}
  /\ \A p \in Objects : Window[p] \subseteq 0 .. layout_count(Table)["pool"] - 1

\* The layout scan of par_layout_init gives every object its own bytes of
\* gs_par_object_pool: a memcpy of one never meets another one's payload.
THEOREM LayoutGivesWindows == WindowsApart
<1>1. PICK b : /\ Sums(b, PoolBytes, N)
               /\ \A p \in Objects : PoolOff[p] = b[p]
               /\ layout_count(Table)["pool"] = b[N]
  BY PoolIsSum
<1>2. \A p \in Objects :
        /\ b[p] \in Nat /\ b[N] \in Nat /\ max_len(Table[p]) \in Nat
        /\ b[p] + max_len(Table[p]) =< b[N]
        /\ \A q \in Objects : p < q => b[p] + max_len(Table[p]) =< b[q]
  BY <1>1, PoolFacts
<1>3. \A p \in Objects : \A a \in Window[p] : a \in Nat /\ b[p] =< a /\ a < b[p] + max_len(Table[p])
  BY <1>1, <1>2 DEF Window
<1>4. ASSUME NEW p \in Objects, NEW q \in Objects, p < q
      PROVE  Window[p] \intersect Window[q] = {}
  <2>1. b[p] + max_len(Table[p]) =< b[q] /\ max_len(Table[p]) \in Nat /\ b[p] \in Nat
        /\ b[q] \in Nat
    BY <1>2, <1>4
  <2>2. ASSUME NEW a \in Window[p] \intersect Window[q] PROVE FALSE
    <3>1. a \in Nat /\ a < b[p] + max_len(Table[p]) /\ b[q] =< a
      BY <1>3
    <3> QED BY <2>1, <3>1
  <2> QED BY <2>2
<1>5. \A p, q \in Objects : p # q => p < q \/ q < p
  BY RowFacts, ParamsFacts
<1>6. ASSUME NEW p \in Objects, NEW a \in Window[p]
      PROVE  a \in 0 .. layout_count(Table)["pool"] - 1
  <2>1. a \in Nat /\ a < b[p] + max_len(Table[p])
    BY <1>3
  <2>2. b[p] \in Nat /\ b[N] \in Nat /\ max_len(Table[p]) \in Nat
        /\ b[p] + max_len(Table[p]) =< b[N]
    BY <1>2
  <2> QED BY <1>1, <2>1, <2>2
<1>7. \A p, q \in Objects : p # q => Window[p] \intersect Window[q] = {}
  BY <1>4, <1>5
<1> QED BY <1>6, <1>7 DEF WindowsApart

\* Different objects have different bytes.
LEMMA DisjointWindows ==
  \A p, q \in Objects : p # q => Window[p] \intersect Window[q] = {}
  BY LayoutGivesWindows DEF WindowsApart

\* par_object_init_defaults_from_table adds the lengths up a second time.
Expected(h) == [p \in 0 .. rows(Table) |->
                  IF p = 0 THEN 0
                  ELSE h[p - 1] + (IF p - 1 \in Objects THEN max_len(Table[p - 1]) ELSE 0)]

LEMMA ExpectedIsSum ==
  ASSUME NEW b, Sums(b, PoolBytes, N), NEW e, e = CHOOSE h : h = Expected(h)
  PROVE  \A p \in 0 .. N : e[p] = b[p]
<1>1. b = Expected(b)
  <2>1. ASSUME NEW p \in 0 .. N PROVE b[p] = Expected(b)[p]
    <3>1. CASE p = 0
      BY <3>1, RowFacts DEF Sums, Expected, N
    <3>2. CASE p # 0
      <4>1. p \in 1 .. N
        BY <3>2, RowFacts
      <4>2. b[p] = b[p - 1] + PoolBytes[p]
        BY <4>1 DEF Sums
      <4> QED BY <3>2, <4>1, <4>2, PoolTerms DEF Expected, N
    <3> QED BY <3>1, <3>2
  <2>2. b = [p \in 0 .. N |-> b[p]] /\ Expected(b) = [p \in 0 .. N |-> Expected(b)[p]]
    BY DEF Sums, Expected, N
  <2> QED BY <2>1, <2>2
<1>2. e = Expected(e)
  BY <1>1
<1>3. \A p \in 0 .. N : e[p] = Expected(e)[p]
  BY <1>2
<1>4. e[0] = 0 /\ e = [p \in 0 .. N |-> e[p]]
  <2>1. 0 \in 0 .. N
    BY RowFacts
  <2> QED BY <1>2, <2>1 DEF Expected, N
<1>5. ASSUME NEW k \in 1 .. N PROVE e[k] = e[k - 1] + PoolBytes[k]
  <2>1. k \in 0 .. N /\ k # 0
    BY RowFacts
  <2> QED BY <1>3, <2>1, PoolTerms DEF Expected, N
<1>6. N \in Nat /\ Terms(PoolBytes, N)
  BY RowFacts, PoolTerms
<1>7. Sums(e, PoolBytes, N)
  BY <1>4, <1>5, <1>6, SumsAre
<1> QED BY <1>6, <1>7, SumsAgree

\* The bucket check of par_runtime_validate_id_table, row by row.
Diag(h) == [p \in -1 .. rows(Table) - 1 |->
              IF p = -1 THEN [ok |-> TRUE, used |-> {}]
              ELSE [ok   |-> h[p - 1].ok /\ bucket(Table, p) \notin h[p - 1].used,
                    used |-> h[p - 1].used \union {bucket(Table, p)}]]

LEMMA DiagFindsNothing ==
  ASSUME NEW d, d = CHOOSE h : h = Diag(h)
  PROVE  d[N - 1].ok
<1> DEFINE Used(p) == {bucket(Table, q) : q \in 0 .. p}
           r == [p \in -1 .. N - 1 |-> [ok |-> TRUE, used |-> Used(p)]]
<1>1. ASSUME NEW p \in 0 .. N - 1 PROVE bucket(Table, p) \notin Used(p - 1)
  <2>1. ASSUME NEW q \in 0 .. p - 1 PROVE bucket(Table, p) # bucket(Table, q)
    <3>1. p \in Params /\ q \in Params /\ p # q
      BY RowFacts
    <3>2. ids_check_ok(Table)
      BY TableAssumption DEF table_compiles
    <3> QED BY <3>1, <3>2 DEF ids_check_ok, Params
  <2> QED BY <2>1
<1>2. ASSUME NEW p \in 0 .. N - 1 PROVE Used(p) = Used(p - 1) \union {bucket(Table, p)}
  <2>1. 0 .. p = (0 .. p - 1) \union {p}
    BY <1>2
  <2> QED BY <2>1
<1>3. Used(-1) = {}
  OBVIOUS
<1>4. r = Diag(r)
  <2>1. ASSUME NEW p \in -1 .. N - 1 PROVE r[p] = Diag(r)[p]
    <3>1. CASE p = -1
      BY <1>3, <3>1 DEF Diag, N
    <3>2. CASE p # -1
      <4>1. p \in 0 .. N - 1 /\ p - 1 \in -1 .. N - 1
        BY <3>2, RowFacts
      <4> HIDE DEF Used
      <4>2. r[p] = [ok |-> TRUE, used |-> Used(p)]
            /\ r[p - 1] = [ok |-> TRUE, used |-> Used(p - 1)]
        BY <4>1
      <4>3. Diag(r)[p] = [ok   |-> r[p - 1].ok /\ bucket(Table, p) \notin r[p - 1].used,
                          used |-> r[p - 1].used \union {bucket(Table, p)}]
        BY <3>2, <4>1 DEF Diag, N
      <4>4. /\ r[p - 1].ok /\ bucket(Table, p) \notin r[p - 1].used
            /\ r[p - 1].used \union {bucket(Table, p)} = Used(p)
        BY <1>1, <1>2, <4>1, <4>2
      <4> QED BY <4>2, <4>3, <4>4
    <3> QED BY <3>1, <3>2
  <2>2. /\ r = [p \in -1 .. N - 1 |-> r[p]]
        /\ Diag(r) = [p \in -1 .. N - 1 |-> Diag(r)[p]]
    BY DEF Diag, N
  <2> HIDE DEF r
  <2> QED BY <2>1, <2>2
<1> HIDE DEF r
<1>5. d = Diag(d)
  BY <1>4
<1> DEFINE S == {k \in 0 .. N : d[k - 1] = r[k - 1]}
<1>6. 0 \in S
  <2>1. -1 \in -1 .. N - 1 /\ 0 - 1 = -1 /\ 0 \in 0 .. N
    BY RowFacts
  <2>2. d[-1] = [ok |-> TRUE, used |-> {}]
    BY <1>5, <2>1 DEF Diag, N
  <2>3. r[-1] = [ok |-> TRUE, used |-> {}]
    BY <1>4, <2>1 DEF Diag, N
  <2> QED BY <2>1, <2>2, <2>3
<1>7. ASSUME NEW k \in 0 .. N - 1, k \in S PROVE k + 1 \in S
  <2>1. k \in -1 .. N - 1 /\ k # -1 /\ k + 1 \in 0 .. N /\ (k + 1) - 1 = k
    BY RowFacts
  <2>2. d[k] = [ok   |-> d[k - 1].ok /\ bucket(Table, k) \notin d[k - 1].used,
                used |-> d[k - 1].used \union {bucket(Table, k)}]
    BY <1>5, <2>1 DEF Diag, N
  <2>3. r[k] = [ok   |-> r[k - 1].ok /\ bucket(Table, k) \notin r[k - 1].used,
                used |-> r[k - 1].used \union {bucket(Table, k)}]
    BY <1>4, <2>1 DEF Diag, N
  <2> QED BY <1>7, <2>1, <2>2, <2>3
<1> HIDE DEF S
<1>8. N \in S
  BY <1>6, <1>7, UpTo, RowFacts
<1>9. d[N - 1] = r[N - 1] /\ N - 1 \in -1 .. N - 1
  BY <1>8, RowFacts DEF S
<1> QED BY <1>9 DEF r

\* What par_init checks of the table at run time.
InitAcceptsTable ==
  /\ check_table_validity(Table) = "OK"
  /\ object_layout_ok(Table, PoolOff, layout_count(Table)["pool"])

\* A table that compiles, with object defaults that fit, is never refused by
\* par_init: the ID check of par_check_table_validity finds nothing the static
\* assertions let through, and par_object_init_defaults_from_table finds the
\* windows where par_layout_init has put them.
THEOREM CompiledTableIsAccepted == InitAcceptsTable
<1>1. runtime_id_table_ok(Table)
  <2> DEFINE d == CHOOSE h : h = Diag(h)
  <2>1. runtime_id_table_ok(Table) <=> d[N - 1].ok
    BY DEF runtime_id_table_ok, Diag, N
  <2>2. d[N - 1].ok
    BY DiagFindsNothing
  <2> QED BY <2>1, <2>2
<1>2. check_table_validity(Table) = "OK"
  BY <1>1, TableAssumption DEF check_table_validity, Objects, Params
<1>3. PICK b : /\ Sums(b, PoolBytes, N)
               /\ \A p \in Objects : PoolOff[p] = b[p]
               /\ layout_count(Table)["pool"] = b[N]
  BY PoolIsSum
<1> DEFINE e == CHOOSE h : h = Expected(h)
<1>4. \A p \in 0 .. N : e[p] = b[p]
  BY <1>3, ExpectedIsSum
<1>5. \A p \in Objects : b[p] + max_len(Table[p]) =< b[N]
  BY <1>3, PoolFacts
<1>6. \A p \in Objects : p \in 0 .. N /\ object_default_cfg_is_valid(Table[p])
  BY RowFacts, ParamsFacts, TableAssumption
<1>7. object_layout_ok(Table, PoolOff, layout_count(Table)["pool"])
        <=> /\ \A p \in Objects : /\ object_default_cfg_is_valid(Table[p])
                                  /\ PoolOff[p] = e[p]
                                  /\ PoolOff[p] + max_len(Table[p]) =< layout_count(Table)["pool"]
            /\ e[N] = layout_count(Table)["pool"]
  BY DEF object_layout_ok, Expected, Objects, Params, N
<1>8. N \in 0 .. N
  BY RowFacts
<1> HIDE DEF e
<1>9. object_layout_ok(Table, PoolOff, layout_count(Table)["pool"])
  BY <1>3, <1>4, <1>5, <1>6, <1>7, <1>8
<1> QED BY <1>2, <1>9 DEF InitAcceptsTable

\* The ID map answers for the IDs of the table, each with its own parameter.
LookupIsExact ==
  \A id : get_num_by_id(Table, id)
            = IF \E p \in Params : Table[p].id = id
              THEN <<"OK", CHOOSE p \in Params : Table[p].id = id>> ELSE <<"ERROR", 0>>

\* par_get_num_by_id over the map of par_id_map_static finds every parameter
\* by its ID and nothing for another ID, whatever bucket that falls in.
THEOREM LookupFinds == LookupIsExact
<1>1. SUFFICES ASSUME NEW id
      PROVE  get_num_by_id(Table, id)
               = IF \E p \in Params : Table[p].id = id
                 THEN <<"OK", CHOOSE p \in Params : Table[p].id = id>> ELSE <<"ERROR", 0>>
  BY DEF LookupIsExact
<1> DEFINE h == hash_id(rows(Table), id)
<1>2. \A p, q \in Params : bucket(Table, p) = bucket(Table, q) \/ Table[p].id = Table[q].id
        => p = q
  BY TableAssumption DEF table_compiles, ids_check_ok, Params
<1>3. ASSUME NEW p \in Params
      PROVE  /\ bucket(Table, p) \in DOMAIN id_map(Table)
             /\ id_map(Table)[bucket(Table, p)] = [id |-> Table[p].id, par_num |-> p]
  <2>1. (CHOOSE q \in DOMAIN Table : bucket(Table, q) = bucket(Table, p)) = p
    BY <1>2 DEF Params
  <2> QED BY <2>1 DEF id_map, Params
<1>4. CASE \E p \in Params : Table[p].id = id
  <2>1. PICK p \in Params : Table[p].id = id
    BY <1>4
  <2>2. bucket(Table, p) = h
    BY <2>1 DEF bucket
  <2>3. (CHOOSE q \in Params : Table[q].id = id) = p
    BY <1>2, <2>1
  <2> HIDE DEF h
  <2>4. h \in DOMAIN id_map(Table) /\ id_map(Table)[h] = [id |-> id, par_num |-> p]
    BY <1>3, <2>1, <2>2
  <2>5. id_map(Table)[h].id = id /\ id_map(Table)[h].par_num = p
    BY <2>4
  <2>6. get_num_by_id(Table, id) = <<"OK", p>>
    BY <2>4, <2>5 DEF get_num_by_id, h
  <2> QED BY <1>4, <2>3, <2>6
<1>5. CASE ~ \E p \in Params : Table[p].id = id
  <2>1. ASSUME h \in DOMAIN id_map(Table) PROVE id_map(Table)[h].id # id
    <3>1. PICK p \in Params : h = bucket(Table, p)
      BY <2>1 DEF id_map, Params
    <3> HIDE DEF h
    <3>2. id_map(Table)[h] = [id |-> Table[p].id, par_num |-> p]
      BY <1>3, <3>1
    <3>3. id_map(Table)[h].id = Table[p].id
      BY <3>2
    <3> QED BY <1>5, <3>3
  <2>2. get_num_by_id(Table, id) = <<"ERROR", 0>>
    BY <2>1 DEF get_num_by_id
  <2> QED BY <1>5, <2>2
<1> QED BY <1>4, <1>5

\* A type is the type of an object or of a scalar, never both.
LEMMA TypeFacts ==
  ASSUME NEW p \in Params
  PROVE  /\ Table[p].type \in ScalarTypes => p \in Scalars
         /\ Table[p].type \in ObjectTypes => p \in Objects
  BY DEF ScalarTypes, ObjectTypes, type_is_object, Scalars, Objects

\* The bytes of an object row, and its length fields.
LEMMA ObjectFacts ==
  ASSUME NEW p \in Objects
  PROVE  /\ Default[p] \in Values(p)
         /\ min_len(Table[p]) \in Nat /\ max_len(Table[p]) \in Nat
         /\ PoolOff[p] \in Nat
         /\ \A v \in Values(p) : v \in Seq(Nat) /\ Len(v) \in 0 .. max_len(Table[p])
<1>1. Default[p] \in Seq(Nat)
  BY ObjectAssumption, ParamsFacts DEF Default
<1>2. object_len_is_valid(Table[p], Len(Default[p]))
  BY TableAssumption, ParamsFacts DEF object_default_cfg_is_valid, Default
<1>3. min_len(Table[p]) \in Nat /\ max_len(Table[p]) \in Nat /\ PoolOff[p] \in Nat
  BY LengthsAreNat, PoolIsSum, PoolFacts
<1>4. ASSUME NEW v \in Values(p)
      PROVE  v \in Seq(Nat) /\ Len(v) \in 0 .. max_len(Table[p])
  BY <1>3 DEF Values, object_len_is_valid
<1> QED BY <1>1, <1>2, <1>3, <1>4 DEF Values

\* The numbers of a scalar row, and what the setters store.
LEMMA ScalarFacts ==
  ASSUME NEW p \in Scalars
  PROVE  /\ Default[p] \in Int /\ Cell[p] \in Cells
         /\ \A v \in Int : Clamped(p, v) \in Int
  BY RangeAssumption, ParamsFacts DEF Default, Cells, Clamped

\* Every default is something a job can carry.
LEMMA DefaultFacts ==
  ASSUME NEW p \in Params
  PROVE  Default[p] \in Args
  BY ObjectFacts, ScalarFacts, ParamsFacts DEF Args, Values

-----------------------------------------------------------------------------
(* The guards of the API.                                                  *)

\* A name that passes the guards is a parameter of a type the function is
\* for, and the manager is initialised.
LEMMA GuardFacts ==
  ASSUME NEW name, NEW types
  PROVE  /\ guard(name, types) = "OK" =>
              is_init /\ name[2] \in Params /\ Table[name[2]].type \in types
         /\ write_guard(name, types) = "OK" => guard(name, types) = "OK"
         /\ read_guard(name, types) = "OK" => guard(name, types) = "OK"
  BY ParamsFacts
     DEF guard, write_guard, read_guard, resolve_runtime, resolve_metadata

\* A payload that passes the guards of an object setter has a legal length.
LEMMA ObjectGuardFacts ==
  ASSUME NEW name, NEW types, types \subseteq ObjectTypes,
         NEW data \in Payloads(name),
         set_obj_checked_guard(name, types, data) = "OK"
  PROVE  is_init /\ name[2] \in Objects /\ data \in Values(name[2])
<1>1. write_guard(name, types) = "OK"
      /\ object_len_is_valid(Table[name[2]], Len(data))
  BY DEF set_obj_checked_guard
<1>2. is_init /\ name[2] \in Objects
  BY <1>1, GuardFacts, TypeFacts
<1>3. data \in Seq(Nat)
  <2>1. CASE name[1] = "OK"
    BY <2>1, <1>2, InputsAssumption DEF Payloads
  <2>2. CASE name[1] # "OK"
    BY <2>2 DEF Payloads
  <2> QED BY <2>1, <2>2
<1> QED BY <1>1, <1>2, <1>3 DEF Values

\* Calling is refusing or beginning.
LEMMA CallBegins ==
  ASSUME NEW t \in Threads, Ready(t), NEW status, NEW op \in Ops \ {"none"},
         NEW p, NEW arg, NEW at \in PCs,
         Call(t, status, op, p, arg, at),
         status = "OK" => is_init /\ p \in Params /\ arg \in Args /\ Fits(op, p, arg, at)
  PROVE  Refused(t) \/ Accepted(t)
  BY DEF Call, Refused, Accepted

\* A setter of scalars.
LEMMA CallSetScalarBegins ==
  ASSUME NEW t \in Threads, Ready(t), NEW name, CallSetScalar(t, name)
  PROVE  Refused(t) \/ Accepted(t)
<1> DEFINE status == set_checked_guard(name)
<1>1. PICK op \in {"set", "nsave"} :
        \E v \in IF status = "OK" THEN Inputs[name[2]] ELSE {0} :
           Call(t, status, op, name[2], v, "take")
  BY DEF CallSetScalar
<1>2. PICK v \in IF status = "OK" THEN Inputs[name[2]] ELSE {0} :
           Call(t, status, op, name[2], v, "take")
  BY <1>1
<1>3. ASSUME status = "OK"
      PROVE  is_init /\ name[2] \in Params /\ v \in Args
             /\ Fits(op, name[2], v, "take")
  <2>1. is_init /\ name[2] \in Scalars /\ name[2] \in Params
    BY <1>3, GuardFacts, TypeFacts DEF set_checked_guard
  <2>2. v \in Int
    BY <2>1, <1>3, InputsAssumption
  <2> QED BY <2>1, <2>2 DEF Fits, Args
<1>4. op \in Ops \ {"none"} /\ "take" \in PCs
  BY DEF Ops, PCs
<1> HIDE DEF status
<1> QED BY <1>2, <1>3, <1>4, CallBegins

\* A setter of objects, of any of the types and whatever it checks besides.
LEMMA CallSetObjectBegins ==
  ASSUME NEW t \in Threads, Ready(t), NEW name, NEW p, p = name[2], NEW status,
         NEW op \in Ops, op \in {"objset", "objsave"},
         NEW types, types \subseteq ObjectTypes, NEW data \in Payloads(name),
         status = "OK" => set_obj_checked_guard(name, types, data) = "OK",
         Call(t, status, op, p, data, "take")
  PROVE  Refused(t) \/ Accepted(t)
<1>1. ASSUME status = "OK"
      PROVE  is_init /\ p \in Params /\ data \in Args
             /\ Fits(op, p, data, "take")
  <2>1. is_init /\ p \in Objects /\ data \in Values(p)
    BY <1>1, ObjectGuardFacts
  <2>2. data \in Seq(Nat)
    BY <2>1, ObjectFacts
  <2> QED BY <2>1, <2>2, ParamsFacts DEF Fits, Args
<1>2. op \in Ops \ {"none"} /\ "take" \in PCs
  BY DEF PCs
<1> QED BY <1>1, <1>2, CallBegins

\* The setters of bytes, strings and arrays.
LEMMA ObjectSettersBegin ==
  ASSUME NEW t \in Threads, Ready(t), NEW name,
         \/ SetBytes(t, name) \/ SetStr(t, name) \/ SetArray(t, name)
         \/ par_set_obj_n_save(t, name)
  PROVE  Refused(t) \/ Accepted(t)
<1>0. /\ {"BYTES"} \subseteq ObjectTypes /\ {"STR"} \subseteq ObjectTypes
      /\ ArrayTypes \subseteq ObjectTypes /\ ObjectTypes \subseteq ObjectTypes
      /\ "objset" \in Ops /\ "objsave" \in Ops
  BY DEF ObjectTypes, ArrayTypes, Ops
<1>1. CASE SetBytes(t, name)
  BY <1>0, <1>1, CallSetObjectBegins DEF SetBytes
<1>2. CASE SetStr(t, name)
  <2>1. PICK data \in Payloads(name) :
           Call(t, set_str_guard(name, data), "objset", name[2], data, "take")
    BY <1>2 DEF SetStr
  <2>2. set_str_guard(name, data) = "OK"
          => set_obj_checked_guard(name, {"STR"}, data) = "OK"
    BY DEF set_str_guard
  <2> QED BY <1>0, <2>1, <2>2, CallSetObjectBegins
<1>3. CASE SetArray(t, name)
  <2>1. PICK data \in Payloads(name) :
           Call(t, set_array_guard(name, data), "objset", name[2], data, "take")
    BY <1>3 DEF SetArray
  <2>2. set_array_guard(name, data) = "OK"
          => set_obj_checked_guard(name, ArrayTypes, data) = "OK"
    BY DEF set_array_guard
  <2> QED BY <1>0, <2>1, <2>2, CallSetObjectBegins
<1>4. CASE par_set_obj_n_save(t, name)
  <2> DEFINE status(data) == set_obj_checked_guard(name, ObjectTypes, data)
  <2>1. PICK data \in Payloads(name) :
           Call(t, status(data), "objsave", name[2], data, "take")
    BY <1>4 DEF par_set_obj_n_save
  <2>2. status(data) = "OK"
          => set_obj_checked_guard(name, ObjectTypes, data) = "OK"
    OBVIOUS
  <2> HIDE DEF status
  <2> QED BY <1>0, <2>1, <2>2, CallSetObjectBegins
<1> QED BY <1>1, <1>2, <1>3, <1>4

\* The getters of objects.
LEMMA ObjectGettersBegin ==
  ASSUME NEW t \in Threads, Ready(t), NEW name,
         \/ GetBytes(t, name) \/ GetStr(t, name) \/ GetArray(t, name)
         \/ par_get_obj_len(t, name)
  PROVE  Refused(t) \/ Accepted(t)
<1>0. {"BYTES"} \subseteq ObjectTypes /\ {"STR"} \subseteq ObjectTypes
      /\ ArrayTypes \subseteq ObjectTypes
  BY DEF ObjectTypes, ArrayTypes
<1>1. PICK types \in SUBSET ObjectTypes, buf \in Buffers :
         Call(t, get_obj_guard(name, types), "objget", name[2], buf, "take")
  BY <1>0 DEF GetBytes, GetStr, GetArray, par_get_obj_len, Buffers
<1>2. buf \in Int
  BY InputsAssumption DEF Buffers, NoBuffer
<1>3. ASSUME get_obj_guard(name, types) = "OK"
      PROVE  is_init /\ name[2] \in Params /\ buf \in Args
             /\ Fits("objget", name[2], buf, "take")
  <2>1. is_init /\ name[2] \in Objects
    BY <1>1, <1>3, GuardFacts, TypeFacts DEF get_obj_guard
  <2> QED BY <2>1, <1>2, ParamsFacts DEF Fits, Args
<1>4. "objget" \in Ops \ {"none"} /\ "take" \in PCs
  BY DEF Ops, PCs
<1> QED BY <1>1, <1>3, <1>4, CallBegins

\* par_set_to_default, par_save and the raw reset.
LEMMA OthersBegin ==
  ASSUME NEW t \in Threads, SetToDefault(t) \/ Save(t) \/ ResetAllRaw(t)
  PROVE  Refused(t) \/ Accepted(t)
<1>0. /\ {"default", "save", "reset"} \subseteq Ops \ {"none"}
      /\ {"take", "saveRead"} \subseteq PCs
  BY DEF Ops, PCs
<1>1. CASE SetToDefault(t)
  <2>1. PICK p \in 0 .. rows(Table) :
          Call(t, resolve_runtime(is_init, Table, p, TRUE, FALSE), "default", p,
               IF p \in Params THEN Default[p] ELSE 0, "take")
    BY <1>1 DEF SetToDefault
  <2>2. ASSUME resolve_runtime(is_init, Table, p, TRUE, FALSE) = "OK"
        PROVE  is_init /\ p \in Params
    BY <2>2, ParamsFacts DEF resolve_runtime, resolve_metadata
  <2>3. ASSUME p \in Params
        PROVE  /\ (IF p \in Params THEN Default[p] ELSE 0) \in Args
               /\ Fits("default", p, IF p \in Params THEN Default[p] ELSE 0, "take")
    BY <2>3, DefaultFacts DEF Fits
  <2>4. Ready(t)
    BY <1>1 DEF SetToDefault
  <2> QED BY <1>0, <2>1, <2>2, <2>3, <2>4, CallBegins
<1>2. CASE Save(t)
  <2>1. PICK name \in ByNumber \union ById :
          LET p == name[2]
              status == IF ~is_init THEN "ERROR_INIT"
                        ELSE IF name[1] # "OK" \/ p \notin Params THEN "ERROR"
                        ELSE IF ~Table[p].pers THEN "ERROR" ELSE "OK"
          IN  Call(t, status, "save", p, 0,
                   IF status = "OK" /\ p \in Objects THEN "take"
                   ELSE "saveRead")
    BY <1>2 DEF Save
  <2> DEFINE p == name[2]
             status == IF ~is_init THEN "ERROR_INIT"
                       ELSE IF name[1] # "OK" \/ p \notin Params THEN "ERROR"
                       ELSE IF ~Table[p].pers THEN "ERROR" ELSE "OK"
             at == IF status = "OK" /\ p \in Objects THEN "take" ELSE "saveRead"
  <2>2. Call(t, status, "save", p, 0, at)
    BY <2>1
  <2>3. status = "OK" => is_init /\ p \in Params
    OBVIOUS
  <2>4. at \in {"take", "saveRead"} /\ (status = "OK" => (p \in Objects <=> at = "take"))
    OBVIOUS
  <2> HIDE DEF p, status, at
  <2>5. status = "OK" => 0 \in Args /\ Fits("save", p, 0, at)
    BY <2>4 DEF Fits, Args
  <2>6. Ready(t)
    BY <1>2 DEF Save
  <2> QED BY <1>0, <2>2, <2>3, <2>4, <2>5, <2>6, CallBegins
<1>3. CASE ResetAllRaw(t)
  <2>1. Fits("reset", 0, Scalars, "take") /\ Scalars \in Args /\ 0 \in Params
    BY ParamsFacts DEF Fits, Args
  <2>2. Ready(t) /\ Call(t, IF is_init THEN "OK" ELSE "ERROR_INIT", "reset", 0,
                         Scalars, "take")
    BY <1>3 DEF ResetAllRaw
  <2> QED BY <1>0, <2>1, <2>2, CallBegins
<1> QED BY <1>1, <1>2, <1>3

\* Every API call that does not finish at once is refused or accepted.
LEMMA CallCases ==
  ASSUME NEW t \in Threads, CallSomething(t)
  PROVE  SetFast(t) \/ SetBits(t) \/ Refused(t) \/ Accepted(t)
<1>1. CASE SetScalar(t) \/ SetScalarById(t)
  BY <1>1, CallSetScalarBegins DEF SetScalar, SetScalarById
<1>2. CASE GetScalar(t) \/ GetScalarById(t) \/ GetDefault(t)
  BY <1>2 DEF GetScalar, GetScalarById, CallGetScalar, GetDefault, Refused
<1>3. CASE SetToDefault(t) \/ Save(t) \/ ResetAllRaw(t)
  BY <1>3, OthersBegin
<1>4. CASE SetObject(t) \/ SetObjectAndSave(t)
  BY <1>4, ObjectSettersBegin DEF SetObject, SetObjectAndSave
<1>5. CASE GetObject(t)
  BY <1>5, ObjectGettersBegin DEF GetObject
<1>6. CASE BytesAndStrById(t)
  BY <1>6, ObjectSettersBegin, ObjectGettersBegin DEF BytesAndStrById
<1>7. CASE ArraysById(t)
  BY <1>7, ObjectSettersBegin, ObjectGettersBegin DEF ArraysById
<1>8. CASE par_has_changed(t)
  BY <1>8, ObjectGettersBegin DEF par_has_changed, CallGetScalar, Refused
<1> QED BY <1>1, <1>2, <1>3, <1>4, <1>5, <1>6, <1>7, <1>8 DEF CallSomething

-----------------------------------------------------------------------------
(* The control state: where the calls are, and who holds the mutexes.      *)

\* The calls that can be at a place, and what they carry there.
Shape(at, j) ==
    /\ at # "idle" => j.op # "none"
    /\ j.op \in {"set", "nsave"} => j.p \in Scalars /\ j.arg \in Int
    /\ j.op \in {"objset", "objsave"} => j.p \in Objects /\ j.arg \in Values(j.p)
    /\ j.op = "default" => j.arg = Default[j.p]
    /\ j.op = "objget" => j.p \in Objects /\ j.arg \in Int
    /\ j.op = "reset" => j.p = 0 /\ j.arg \in SUBSET Scalars
    /\ at = "take" /\ j.op = "save" => j.p \in Objects
    /\ at = "store" => j.op \in {"set", "nsave", "default"} /\ j.p \in Scalars
    /\ at \in {"reread", "notify"} => j.op \in {"set", "nsave"}
    /\ at \in {"clear", "copy", "commit"} =>
          j.op \in {"objset", "objsave", "default"} /\ j.p \in Objects
    /\ at \in {"saveRead", "saveWrite"} =>
          j.op \in {"nsave", "save"} /\ j.p \in Scalars
    /\ at = "saveObject" => j.op \in {"objsave", "save"} /\ j.p \in Objects
    /\ at = "copyOut" => j.op = "objget"
    /\ at \in {"cells", "pool", "slots"} => j.op = "reset"

ControlInv ==
    /\ is_init \in BOOLEAN
    /\ lock \in [Mutexes -> Threads \union {Nobody}]
    /\ pc \in [Threads -> PCs]
    /\ job \in [Threads -> Jobs]
    /\ \A t \in Threads : Shape(pc[t], job[t])
    /\ \A t \in Threads : pc[t] # "idle" => is_init
    /\ MutexFollowsCalls

\* What a step of a call may do to the control state: move on, taking or
\* giving back the mutex as it enters or leaves the places that need it.
Moves(t, at, j) ==
    /\ at \in PCs /\ j \in Jobs /\ Shape(at, j)
    /\ at # "idle" => j.p = job[t].p
    /\ pc' = [pc EXCEPT ![t] = at]
    /\ job' = [job EXCEPT ![t] = j]
    /\ \/ lock' = lock /\ (at \in Holding <=> pc[t] \in Holding)
       \/ Take(t) /\ at \in Holding
       \/ Release(t) /\ at \notin Holding /\ pc[t] \in Holding

\* Every mutex belongs to a parameter.
LEMMA MutexFacts ==
  ASSUME NEW p \in Params
  PROVE  MutexOf[p] \in Mutexes
  BY DEF Mutexes

\* An idle thread has the empty job.
LEMMA NoJobFacts ==
  NoJob \in Jobs /\ Shape("idle", NoJob)
<1>1. NoJob.op = "none" /\ NoJob \in Jobs
  BY ParamsFacts DEF NoJob, Jobs, Ops, Args
<1> QED BY <1>1 DEF Shape

\* What the control invariant reads.
LEMMA ControlFrame ==
  ASSUME ControlInv, UNCHANGED <<is_init, lock, pc, job>>
  PROVE  ControlInv'
  BY DEF ControlInv, MutexFollowsCalls, mutex

\* A move keeps the control invariant.
LEMMA MoveKeepsControl ==
  ASSUME ControlInv, NEW t \in Threads, pc[t] # "idle",
         NEW at, NEW j, Moves(t, at, j), UNCHANGED is_init
  PROVE  ControlInv'
<1> USE NobodyAssumption
<1>1. /\ pc' \in [Threads -> PCs] /\ pc'[t] = at
      /\ \A u \in Threads \ {t} : pc'[u] = pc[u]
  BY DEF Moves, ControlInv
<1>2. /\ job' \in [Threads -> Jobs] /\ job'[t] = j
      /\ \A u \in Threads \ {t} : job'[u] = job[u]
  BY DEF Moves, ControlInv
<1>3. \A u \in Threads : job[u].p \in Params /\ MutexOf[job[u].p] \in Mutexes
  BY MutexFacts DEF ControlInv, Jobs, mutex
<1>4. \A u \in Threads \ {t} : MutexOf[job'[u].p] = MutexOf[job[u].p]
  BY <1>2 DEF mutex
<1>5. at # "idle" => MutexOf[job'[t].p] = MutexOf[job[t].p]
  BY <1>2 DEF Moves, mutex
<1>6. at \in Holding => at # "idle"
  BY DEF Holding
<1>7. lock' \in [Mutexes -> Threads \union {Nobody}] /\ MutexFollowsCalls'
  <2>1. CASE lock' = lock /\ (at \in Holding <=> pc[t] \in Holding)
    BY <2>1, <1>1, <1>3, <1>4, <1>5, <1>6 DEF ControlInv, MutexFollowsCalls, mutex
  <2>2. CASE Take(t) /\ at \in Holding
    <3>1. /\ lock[MutexOf[job[t].p]] = Nobody
          /\ lock' \in [Mutexes -> Threads \union {Nobody}]
          /\ lock'[MutexOf[job[t].p]] = t
          /\ \A m \in Mutexes \ {MutexOf[job[t].p]} : lock'[m] = lock[m]
      BY <2>2, <1>3 DEF Take, ControlInv, mutex
    <3>2. pc[t] \notin Holding
      BY <3>1 DEF ControlInv, MutexFollowsCalls, mutex
    <3>3. \A u \in Threads : pc'[u] \in Holding => lock'[MutexOf[job'[u].p]] = u
      BY <2>2, <3>1, <1>1, <1>3, <1>4, <1>5, <1>6 DEF ControlInv, MutexFollowsCalls, mutex
    <3>4. ASSUME NEW m \in Mutexes, lock'[m] # Nobody
          PROVE  pc'[lock'[m]] \in Holding /\ MutexOf[job'[lock'[m]].p] = m
      <4>1. CASE m = MutexOf[job[t].p]
        BY <4>1, <2>2, <3>1, <1>1, <1>5, <1>6
      <4>2. CASE m # MutexOf[job[t].p]
        <5>1. lock'[m] = lock[m] /\ lock[m] \in Threads
          BY <4>2, <3>1, <3>4 DEF ControlInv
        <5>2. pc[lock[m]] \in Holding /\ MutexOf[job[lock[m]].p] = m
          BY <5>1, <3>4 DEF ControlInv, MutexFollowsCalls, mutex
        <5>3. lock[m] # t
          BY <5>2, <3>2
        <5> QED BY <5>1, <5>2, <5>3, <1>1, <1>4
      <4> QED BY <4>1, <4>2
    <3> QED BY <3>1, <3>3, <3>4 DEF MutexFollowsCalls, mutex
  <2>3. CASE Release(t) /\ at \notin Holding /\ pc[t] \in Holding
    <3>1. /\ lock[MutexOf[job[t].p]] = t
          /\ lock' \in [Mutexes -> Threads \union {Nobody}]
          /\ lock'[MutexOf[job[t].p]] = Nobody
          /\ \A m \in Mutexes \ {MutexOf[job[t].p]} : lock'[m] = lock[m]
      BY <2>3, <1>3 DEF Release, ControlInv, MutexFollowsCalls, mutex
    <3>2. ASSUME NEW u \in Threads, pc'[u] \in Holding
          PROVE  lock'[MutexOf[job'[u].p]] = u
      <4>1. u # t
        BY <3>2, <2>3, <1>1
      <4>2. lock[MutexOf[job[u].p]] = u /\ MutexOf[job'[u].p] = MutexOf[job[u].p]
        BY <4>1, <3>2, <1>1, <1>4 DEF ControlInv, MutexFollowsCalls, mutex
      <4>3. MutexOf[job[u].p] # MutexOf[job[t].p]
        BY <4>1, <4>2, <3>1
      <4> QED BY <4>2, <4>3, <3>1, <1>3
    <3>3. ASSUME NEW m \in Mutexes, lock'[m] # Nobody
          PROVE  pc'[lock'[m]] \in Holding /\ MutexOf[job'[lock'[m]].p] = m
      <4>1. m # MutexOf[job[t].p] /\ lock'[m] = lock[m] /\ lock[m] \in Threads
        BY <3>3, <3>1 DEF ControlInv
      <4>2. pc[lock[m]] \in Holding /\ MutexOf[job[lock[m]].p] = m
        BY <4>1, <3>3 DEF ControlInv, MutexFollowsCalls, mutex
      <4>3. lock[m] # t
        BY <4>1, <4>2
      <4> QED BY <4>1, <4>2, <4>3, <1>1, <1>4
    <3> QED BY <3>1, <3>2, <3>3 DEF MutexFollowsCalls, mutex
  <2> QED BY <2>1, <2>2, <2>3 DEF Moves
<1>8. \A u \in Threads : Shape(pc'[u], job'[u])
  BY <1>1, <1>2 DEF Moves, ControlInv
<1>9. \A u \in Threads : pc'[u] # "idle" => is_init'
  BY <1>1 DEF ControlInv
<1> QED BY <1>1, <1>2, <1>7, <1>8, <1>9 DEF ControlInv

\* A call that goes on.
LEMMA GotoMoves ==
  ASSUME ControlInv, NEW t \in Threads, NEW at \in PCs, Shape(at, job[t]),
         pc' = [pc EXCEPT ![t] = at], UNCHANGED job,
         \/ lock' = lock /\ (at \in Holding <=> pc[t] \in Holding)
         \/ Take(t) /\ at \in Holding
         \/ Release(t) /\ at \notin Holding /\ pc[t] \in Holding
  PROVE  Moves(t, at, job[t])
<1>1. job[t] \in Jobs /\ job = [job EXCEPT ![t] = job[t]]
  BY DEF ControlInv
<1> QED BY <1>1 DEF Moves

\* A call that returns.
LEMMA DoneMoves ==
  ASSUME NEW t \in Threads, NEW status, Done(t, status),
         \/ lock' = lock /\ pc[t] \notin Holding
         \/ Release(t) /\ pc[t] \in Holding
  PROVE  Moves(t, "idle", NoJob)
<1>1. "idle" \in PCs /\ "idle" \notin Holding
  BY DEF PCs, Holding
<1> QED BY <1>1, NoJobFacts DEF Moves, Done

\* Every step of a call is a move.
LEMMA StepMoves ==
  ASSUME ControlInv, NEW t \in Threads, Step(t)
  PROVE  /\ pc[t] # "idle" /\ UNCHANGED is_init
         /\ \E at, j : Moves(t, at, j)
<1>0. /\ pc[t] \in PCs /\ job[t] \in Jobs /\ Shape(pc[t], job[t])
      /\ pc[t] \in Holding => lock[mutex(t)] # Nobody
  BY NobodyAssumption DEF ControlInv, MutexFollowsCalls
<1> USE <1>0 DEF live, obs
<1>1. CASE MutexTimeout(t)
  BY <1>1, DoneMoves DEF MutexTimeout, Holding
<1>2. CASE AcquireForSet(t)
  <2>1. CASE job[t].arg \in Rejected[job[t].p]
    BY <2>1, <1>2, DoneMoves DEF AcquireForSet, Holding
  <2>2. CASE job[t].arg \notin Rejected[job[t].p]
    <3>1. Shape("store", job[t])
      BY <1>2 DEF AcquireForSet, Shape
    <3>2. Moves(t, "store", job[t])
      BY <2>2, <3>1, <1>2, GotoMoves DEF AcquireForSet, Goto, PCs, Holding
    <3> QED BY <3>2, <1>2 DEF AcquireForSet
  <2> QED BY <2>1, <2>2
<1>3. CASE StoreScalar(t)
  <2>1. Shape("reread", job[t])
    BY <1>3 DEF StoreScalar, Shape
  <2>2. Moves(t, "reread", job[t])
    BY <2>1, <1>3, GotoMoves DEF StoreScalar, PCs, Holding
  <2> QED BY <2>2, <1>3 DEF StoreScalar
<1>4. CASE Reread(t)
  <2>1. Shape("notify", job[t])
    BY <1>4 DEF Reread, Shape
  <2>2. Moves(t, "notify", job[t])
    BY <2>1, <1>4, GotoMoves DEF Reread, Goto, PCs, Holding
  <2> QED BY <2>2, <1>4 DEF Reread
<1>5. CASE NotifyAndRelease(t)
  <2>1. CASE job[t].op = "nsave" /\ seen[t].changed
    <3>1. Shape("saveRead", job[t])
      BY <1>5, <2>1 DEF NotifyAndRelease, Shape
    <3>2. Moves(t, "saveRead", job[t])
      BY <2>1, <3>1, <1>5, GotoMoves DEF NotifyAndRelease, Goto, PCs, Holding
    <3> QED BY <3>2, <1>5 DEF NotifyAndRelease
  <2>2. CASE ~(job[t].op = "nsave" /\ seen[t].changed)
    BY <2>2, <1>5, DoneMoves DEF NotifyAndRelease, Holding
  <2> QED BY <2>1, <2>2
<1>6. CASE SaveRead(t)
  <2>1. CASE Table[job[t].p].pers
    <3>1. Shape("saveWrite", job[t])
      BY <1>6 DEF SaveRead, Shape
    <3>2. Moves(t, "saveWrite", job[t])
      BY <2>1, <3>1, <1>6, GotoMoves DEF SaveRead, Goto, PCs, Holding
    <3> QED BY <3>2, <1>6 DEF SaveRead
  <2>2. CASE ~Table[job[t].p].pers
    BY <2>2, <1>6, DoneMoves DEF SaveRead, Holding
  <2> QED BY <2>1, <2>2
<1>7. CASE SaveWrite(t)
  BY <1>7, DoneMoves DEF SaveWrite, Holding
<1>8. CASE AcquireForDefault(t)
  <2> DEFINE at == IF job[t].p \in Scalars THEN "store" ELSE "clear"
  <2>1. at \in PCs /\ at \in Holding
    BY DEF PCs, Holding
  <2>2. Shape(at, job[t])
    BY <1>8, ParamsFacts DEF AcquireForDefault, Shape, Jobs
  <2>3. pc' = [pc EXCEPT ![t] = at] /\ UNCHANGED job /\ Take(t)
    BY <1>8 DEF AcquireForDefault, Goto
  <2> HIDE DEF at
  <2>4. Moves(t, at, job[t])
    BY <2>1, <2>2, <2>3, GotoMoves
  <2> QED BY <2>4, <1>8 DEF AcquireForDefault
<1>9. CASE StoreDefault(t)
  BY <1>9, DoneMoves DEF StoreDefault, Holding
<1>10. CASE AcquireForSetObject(t)
  <2>1. CASE job[t].arg \in Rejected[job[t].p]
    BY <2>1, <1>10, DoneMoves DEF AcquireForSetObject, Holding
  <2>2. CASE job[t].arg \notin Rejected[job[t].p]
    <3>1. Shape("clear", job[t])
      BY <1>10 DEF AcquireForSetObject, Shape
    <3>2. Moves(t, "clear", job[t])
      BY <2>2, <3>1, <1>10, GotoMoves DEF AcquireForSetObject, Goto, PCs, Holding
    <3> QED BY <3>2, <1>10 DEF AcquireForSetObject
  <2> QED BY <2>1, <2>2
<1>11. CASE ClearWindow(t)
  <2>1. Shape("copy", job[t])
    BY <1>11 DEF ClearWindow, Shape
  <2>2. Moves(t, "copy", job[t])
    BY <2>1, <1>11, GotoMoves DEF ClearWindow, Goto, PCs, Holding
  <2> QED BY <2>2, <1>11 DEF ClearWindow
<1>12. CASE CopyPayload(t)
  <2>1. Shape("commit", job[t])
    BY <1>12 DEF CopyPayload, Shape
  <2>2. Moves(t, "commit", job[t])
    BY <2>1, <1>12, GotoMoves DEF CopyPayload, Goto, PCs, Holding
  <2> QED BY <2>2, <1>12 DEF CopyPayload
<1>13. CASE CommitLen(t)
  <2>1. CASE job[t].op = "objsave" /\ seen[t].changed
    <3>1. Shape("saveObject", job[t])
      BY <1>13, <2>1 DEF CommitLen, Shape
    <3>2. Moves(t, "saveObject", job[t])
      BY <2>1, <3>1, <1>13, GotoMoves DEF CommitLen, Goto, PCs, Holding
    <3> QED BY <3>2, <1>13 DEF CommitLen
  <2>2. CASE ~(job[t].op = "objsave" /\ seen[t].changed)
    BY <2>2, <1>13, DoneMoves DEF CommitLen, Holding
  <2> QED BY <2>1, <2>2
<1>14. CASE AcquireForSave(t)
  <2>1. Shape("saveObject", job[t])
    BY <1>14 DEF AcquireForSave, Shape
  <2>2. Moves(t, "saveObject", job[t])
    BY <2>1, <1>14, GotoMoves DEF AcquireForSave, Goto, PCs, Holding
  <2> QED BY <2>2, <1>14 DEF AcquireForSave
<1>15. CASE SaveObject(t)
  BY <1>15, DoneMoves DEF SaveObject, Holding
<1>16. CASE AcquireForGet(t)
  <2>1. Shape("copyOut", job[t])
    BY <1>16 DEF AcquireForGet, Shape
  <2>2. CASE job[t].arg >= 0 /\ buffer_fits(Table[job[t].p], len[job[t].p], job[t].arg)
    <3>1. Moves(t, "copyOut", job[t])
      BY <2>1, <2>2, <1>16, GotoMoves DEF AcquireForGet, Goto, PCs, Holding
    <3> QED BY <3>1, <1>16 DEF AcquireForGet
  <2>3. CASE ~(job[t].arg >= 0 /\ buffer_fits(Table[job[t].p], len[job[t].p], job[t].arg))
    BY <2>3, <1>16, DoneMoves DEF AcquireForGet, Holding
  <2> QED BY <2>2, <2>3
<1>17. CASE CopyOut(t)
  BY <1>17, DoneMoves DEF CopyOut, Holding
<1>18. CASE AcquireForReset(t)
  <2>1. Shape("cells", job[t])
    BY <1>18 DEF AcquireForReset, Shape
  <2>2. Moves(t, "cells", job[t])
    BY <2>1, <1>18, GotoMoves DEF AcquireForReset, Goto, PCs, Holding
  <2> QED BY <2>2, <1>18 DEF AcquireForReset
<1>19. CASE ResetCell(t)
  <2>1. PICK p \in job[t].arg :
           /\ job' = [job EXCEPT ![t].arg = @ \ {p}]
           /\ pc' = [pc EXCEPT ![t] = IF job[t].arg = {p} THEN "pool" ELSE @]
    BY <1>19 DEF ResetCell
  <2> DEFINE j == [job[t] EXCEPT !.arg = @ \ {p}]
             at == IF job[t].arg = {p} THEN "pool" ELSE pc[t]
  <2>2. pc[t] = "cells" /\ job[t].op = "reset" /\ job[t].arg \in SUBSET Scalars
        /\ job[t].p = 0
    BY <1>19 DEF ResetCell, Shape
  <2>3. at \in PCs /\ at \in {"pool", "cells"}
    BY <2>2 DEF PCs
  <2>4. /\ j \in Jobs /\ j.op = "reset" /\ j.p = 0 /\ j.arg \in SUBSET Scalars
    <3>1. job[t].arg \ {p} \in SUBSET Scalars
      BY <2>2
    <3>2. j = [op |-> "reset", p |-> 0, arg |-> job[t].arg \ {p}]
      BY <2>2 DEF Jobs
    <3> QED BY <3>1, <3>2, ParamsFacts DEF Jobs, Ops, Args
  <2>5. pc' = [pc EXCEPT ![t] = at] /\ job' = [job EXCEPT ![t] = j]
    BY <2>1 DEF ControlInv
  <2>6. lock' = lock
    BY <1>19 DEF ResetCell
  <2> HIDE DEF j, at
  <2>7. Shape(at, j)
    BY <2>3, <2>4 DEF Shape
  <2>8. Moves(t, at, j)
    BY <2>2, <2>3, <2>4, <2>5, <2>6, <2>7 DEF Moves, Holding
  <2> QED BY <2>8, <1>19 DEF ResetCell
<1>20. CASE ResetPool(t)
  <2>1. Shape("slots", job[t])
    BY <1>20 DEF ResetPool, Shape
  <2>2. Moves(t, "slots", job[t])
    BY <2>1, <1>20, GotoMoves DEF ResetPool, Goto, PCs, Holding
  <2> QED BY <2>2, <1>20 DEF ResetPool
<1>21. CASE ResetSlots(t)
  BY <1>21, DoneMoves DEF ResetSlots, Holding
<1> QED BY <1>1, <1>2, <1>3, <1>4, <1>5, <1>6, <1>7, <1>8, <1>9, <1>10, <1>11,
           <1>12, <1>13, <1>14, <1>15, <1>16, <1>17, <1>18, <1>19, <1>20, <1>21
        DEF Step

\* An accepted call has the shape its start asks for.
LEMMA AcceptedMoves ==
  ASSUME ControlInv, NEW t \in Threads, Accepted(t)
  PROVE  /\ is_init /\ pc[t] = "idle" /\ UNCHANGED <<is_init, lock>>
         /\ \E at \in PCs, j \in Jobs :
               /\ Shape(at, j) /\ at \notin Holding /\ at # "idle"
               /\ pc' = [pc EXCEPT ![t] = at] /\ job' = [job EXCEPT ![t] = j]
<1>1. PICK op \in Ops \ {"none"}, p \in Params, at \in PCs, arg \in Args :
         /\ Fits(op, p, arg, at)
         /\ is_init /\ Ready(t)
         /\ Begin(t, op, p, arg, at)
         /\ UNCHANGED <<is_init, live, mirror, lock, nvm, heard, quiet,
                        tainted, whole, got>>
  BY DEF Accepted
<1> DEFINE j == [op |-> op, p |-> p, arg |-> arg]
<1>2. j \in Jobs /\ j.op = op /\ j.p = p /\ j.arg = arg
  BY DEF Jobs
<1>3. pc' = [pc EXCEPT ![t] = at] /\ job' = [job EXCEPT ![t] = j]
  BY <1>1 DEF Begin
<1> HIDE DEF j
<1>4. Shape(at, j)
  BY <1>1, <1>2, ParamsFacts DEF Fits, Shape
<1>5. at \notin Holding /\ at # "idle"
  BY <1>1 DEF Fits, Holding
<1> QED BY <1>1, <1>2, <1>3, <1>4, <1>5 DEF Ready

\* A call that begins keeps the control invariant: it holds no mutex yet.
LEMMA AcceptedKeepsControl ==
  ASSUME ControlInv, NEW t \in Threads, Accepted(t)
  PROVE  ControlInv'
<1>1. PICK at \in PCs, j \in Jobs :
         /\ Shape(at, j) /\ at \notin Holding /\ at # "idle"
         /\ pc' = [pc EXCEPT ![t] = at] /\ job' = [job EXCEPT ![t] = j]
  BY AcceptedMoves
<1>2. is_init /\ pc[t] = "idle" /\ UNCHANGED <<is_init, lock>>
  BY AcceptedMoves
<1>3. pc[t] \notin Holding
  BY <1>2 DEF Holding
<1>4. /\ pc' \in [Threads -> PCs] /\ job' \in [Threads -> Jobs]
      /\ pc'[t] = at /\ job'[t] = j
      /\ \A u \in Threads \ {t} : pc'[u] = pc[u] /\ job'[u] = job[u]
  BY <1>1 DEF ControlInv
<1>5. MutexFollowsCalls'
  <2>1. \A u \in Threads : pc'[u] \in Holding => u # t
    BY <1>1, <1>4
  <2>2. \A m \in Mutexes : lock[m] # Nobody => lock[m] \in Threads \ {t}
    BY <1>3 DEF ControlInv, MutexFollowsCalls
  <2> QED BY <1>2, <1>4, <2>1, <2>2 DEF ControlInv, MutexFollowsCalls, mutex
<1>6. \A u \in Threads : Shape(pc'[u], job'[u])
  BY <1>1, <1>4 DEF ControlInv
<1> QED BY <1>2, <1>4, <1>5, <1>6 DEF ControlInv

\* With every thread idle and no mutex taken the control invariant holds.
LEMMA RestControl ==
  ASSUME is_init' \in BOOLEAN, lock' = [m \in Mutexes |-> Nobody],
         pc' = [t \in Threads |-> "idle"], job' = [t \in Threads |-> NoJob]
  PROVE  ControlInv'
<1>1. "idle" \in PCs /\ "idle" \notin Holding
  BY DEF PCs, Holding
<1>2. MutexFollowsCalls'
  BY <1>1 DEF MutexFollowsCalls
<1> QED BY <1>1, <1>2, NoJobFacts DEF ControlInv

\* At the start nobody calls and every mutex is free.
LEMMA InitControl == Init => ControlInv
<1> SUFFICES ASSUME Init PROVE ControlInv
  OBVIOUS
<1>1. "idle" \in PCs /\ "idle" \notin Holding
  BY DEF PCs, Holding
<1>2. MutexFollowsCalls
  BY <1>1 DEF Init, MutexFollowsCalls
<1> QED BY <1>1, <1>2, NoJobFacts DEF ControlInv, Init

\* Every step keeps the control invariant.
LEMMA NextKeepsControl == ControlInv /\ [Next]_vars => ControlInv'
<1> SUFFICES ASSUME ControlInv, [Next]_vars PROVE ControlInv'
  OBVIOUS
<1> USE DEF live, obs
<1>1. ASSUME NEW t \in Threads, Step(t) PROVE ControlInv'
  BY <1>1, StepMoves, MoveKeepsControl
<1>2. ASSUME NEW t \in Threads, CallSomething(t) PROVE ControlInv'
  <2>1. CASE SetFast(t)
    BY <2>1, ControlFrame DEF SetFast
  <2>2. CASE SetBits(t)
    BY <2>2, ControlFrame DEF SetBits
  <2>3. CASE Refused(t)
    BY <2>3, ControlFrame DEF Refused, Refuse
  <2>4. CASE Accepted(t)
    BY <2>4, AcceptedKeepsControl
  <2> QED BY <1>2, <2>1, <2>2, <2>3, <2>4, CallCases
<1>3. CASE par_init
  BY <1>3 DEF par_init, Quiescent, ControlInv, MutexFollowsCalls, mutex
<1>4. CASE par_deinit
  BY <1>4 DEF par_deinit, Quiescent, ControlInv, MutexFollowsCalls, mutex
<1>5. CASE Reboot
  BY <1>5, RestControl DEF Reboot
<1>6. CASE UNCHANGED vars
  BY <1>6, ControlFrame DEF vars
<1> QED BY <1>1, <1>2, <1>3, <1>4, <1>5, <1>6 DEF Next

\* Control: every thread stands where its call can be and owns exactly the
\* mutex that place needs, for any number of threads, parameters and mutexes.
THEOREM CoreControl == Spec => []ControlInv
  BY InitControl, NextKeepsControl, PTL DEF Spec

\* Every path of the setters, getters, saves and resets, the error paths and
\* the timeouts included, gives the mutex back, and the bytes of an object and
\* the callbacks are touched by the owner of the parameter's mutex only.
THEOREM CoreMutex == Spec => []MutexFollowsCalls
<1>1. ControlInv => MutexFollowsCalls
  BY DEF ControlInv
<1> QED BY <1>1, CoreControl, PTL

-----------------------------------------------------------------------------
(* The data: cells, bytes, lengths, mirrors, NVM and what calls have read.  *)

Stored(p) == {v \in Seq(Nat) : Len(v) \in 0 .. max_len(Table[p])}
Lengths == {l \in [Objects -> Nat] :
              \A p \in Objects : l[p] \in 0 .. max_len(Table[p])}
Mirrors == [store : [Cells -> Int], pool : [Pool -> Nat], len : Lengths]
Nvms == {n \in [Params -> Int \union Seq(Nat)] :
           /\ \A p \in Scalars : n[p] \in Int
           /\ \A p \in Objects : n[p] \in Stored(p)}

DataInv ==
    /\ store \in [Cells -> Int]
    /\ pool \in [Pool -> Nat]
    /\ len \in Lengths
    /\ mirror \in Mirrors
    /\ nvm \in Nvms
    /\ seen \in [Threads -> Seen]
    /\ calls \in 0 .. MaxCalls

\* A cell belongs to a scalar.
LEMMA CellOwner ==
  ASSUME NEW c \in Cells
  PROVE  /\ (CHOOSE q \in Scalars : Cell[q] = c) \in Scalars
         /\ Cell[CHOOSE q \in Scalars : Cell[q] = c] = c
  BY DEF Cells

\* A byte of the pool belongs to an object, at a place its maximum covers.
LEMMA ByteOwner ==
  ASSUME NEW a \in Pool
  PROVE  LET p == CHOOSE q \in Objects : a \in Window[q]
         IN  /\ p \in Objects /\ a \in Window[p]
             /\ a \in Int /\ a - PoolOff[p] + 1 \in Nat \ {0}
<1> DEFINE p == CHOOSE q \in Objects : a \in Window[q]
<1>1. \E q \in Objects : a \in Window[q]
  BY DEF Pool, Window
<1>2. p \in Objects /\ a \in Window[p]
  BY <1>1
<1> HIDE DEF p
<1>3. PICK i \in 0 .. max_len(Table[p]) - 1 : a = PoolOff[p] + i
  BY <1>2 DEF Window
<1>4. PoolOff[p] \in Nat /\ max_len(Table[p]) \in Nat
  BY <1>2, ObjectFacts
<1>5. a \in Int /\ a - PoolOff[p] + 1 \in Nat \ {0}
  BY <1>3, <1>4
<1> QED BY <1>2, <1>5 DEF p

\* The bytes of an object's window are bytes of the pool.
LEMMA WindowFacts ==
  ASSUME NEW p \in Objects, NEW i \in Nat, 1 =< i, i =< max_len(Table[p])
  PROVE  PoolOff[p] + i - 1 \in Window[p] /\ PoolOff[p] + i - 1 \in Pool
<1>1. PoolOff[p] \in Nat /\ max_len(Table[p]) \in Nat
  BY ObjectFacts
<1>2. i - 1 \in 0 .. max_len(Table[p]) - 1
  BY <1>1
<1>3. PoolOff[p] + (i - 1) = PoolOff[p] + i - 1
  BY <1>1
<1>4. PoolOff[p] + i - 1 \in Window[p]
  BY <1>2, <1>3 DEF Window
<1> QED BY <1>4 DEF Pool

\* What lies in the window of an object, up to a length it allows.
LEMMA PayloadType ==
  ASSUME NEW p \in Objects, NEW po \in [Pool -> Nat], NEW ln \in Lengths
  PROVE  Payload(p, po, ln) \in Stored(p) /\ Len(Payload(p, po, ln)) = ln[p]
<1>1. ln[p] \in Nat /\ ln[p] =< max_len(Table[p]) /\ max_len(Table[p]) \in Nat
  BY ObjectFacts DEF Lengths
<1>2. \A i \in 1 .. ln[p] : po[PoolOff[p] + i - 1] \in Nat
  BY <1>1, WindowFacts
<1>3. Payload(p, po, ln) \in [1 .. ln[p] -> Nat]
  BY <1>2 DEF Payload
<1>4. Payload(p, po, ln) \in Seq(Nat) /\ Len(Payload(p, po, ln)) = ln[p]
  BY <1>1, <1>3
<1> QED BY <1>1, <1>4 DEF Stored

\* The live value of an object, and of a scalar.
LEMMA LiveType ==
  ASSUME DataInv, NEW p \in Params
  PROVE  /\ p \in Objects => Live(p) \in Stored(p)
         /\ p \in Scalars => Live(p) = LiveScalar(p) /\ Live(p) \in Int
  BY PayloadType, ScalarFacts DEF Live, LiveScalar, DataInv, Scalars

\* A legal payload is not longer than the object.
LEMMA ValuesStored ==
  ASSUME NEW p \in Objects
  PROVE  Values(p) \subseteq Stored(p)
  BY ObjectFacts DEF Stored

\* Every image of the objects fills the pool with bytes.
LEMMA ImageType ==
  ASSUME NEW image \in [Objects -> Seq(Nat)],
         \A p \in Objects : image[p] \in Stored(p)
  PROVE  /\ [p \in Objects |-> Len(image[p])] \in Lengths
         /\ [a \in Pool |->
               LET p == CHOOSE q \in Objects : a \in Window[q]
                   i == a - PoolOff[p] + 1
               IN  IF i =< Len(image[p]) THEN image[p][i] ELSE 0] \in [Pool -> Nat]
<1>1. [p \in Objects |-> Len(image[p])] \in Lengths
  <2>1. \A p \in Objects : Len(image[p]) \in Nat /\ Len(image[p]) \in 0 .. max_len(Table[p])
    BY DEF Stored
  <2> QED BY <2>1 DEF Lengths
<1>2. ASSUME NEW a \in Pool
      PROVE  LET p == CHOOSE q \in Objects : a \in Window[q]
                 i == a - PoolOff[p] + 1
             IN  (IF i =< Len(image[p]) THEN image[p][i] ELSE 0) \in Nat
  <2> DEFINE p == CHOOSE q \in Objects : a \in Window[q]
             i == a - PoolOff[p] + 1
  <2>1. p \in Objects /\ i \in Nat \ {0}
    BY ByteOwner
  <2> HIDE DEF p, i
  <2>2. image[p] \in Seq(Nat)
    BY <2>1
  <2>3. i =< Len(image[p]) => image[p][i] \in Nat
    BY <2>1, <2>2
  <2>4. (IF i =< Len(image[p]) THEN image[p][i] ELSE 0) \in Nat
    BY <2>3
  <2> QED BY <2>4 DEF p, i
<1> QED BY <1>1, <1>2

\* What lies in an object's window after its image was laid into the pool.
LEMMA ImagePayload ==
  ASSUME NEW image \in [Objects -> Seq(Nat)],
         \A p \in Objects : image[p] \in Stored(p), NEW p \in Objects
  PROVE  LET po == [a \in Pool |->
                      LET q == CHOOSE x \in Objects : a \in Window[x]
                          i == a - PoolOff[q] + 1
                      IN  IF i =< Len(image[q]) THEN image[q][i] ELSE 0]
             ln == [q \in Objects |-> Len(image[q])]
         IN  Payload(p, po, ln) = image[p]
<1> DEFINE po == [a \in Pool |->
                    LET q == CHOOSE x \in Objects : a \in Window[x]
                        i == a - PoolOff[q] + 1
                    IN  IF i =< Len(image[q]) THEN image[q][i] ELSE 0]
           ln == [q \in Objects |-> Len(image[q])]
<1>1. /\ image[p] \in Seq(Nat) /\ Len(image[p]) \in Nat
      /\ Len(image[p]) =< max_len(Table[p]) /\ max_len(Table[p]) \in Nat
      /\ PoolOff[p] \in Nat
  BY ObjectFacts DEF Stored
<1>2. ASSUME NEW i \in 1 .. Len(image[p])
      PROVE  po[PoolOff[p] + i - 1] = image[p][i]
  <2> DEFINE a == PoolOff[p] + i - 1
  <2>1. a \in Window[p] /\ a \in Pool
    BY <1>1, WindowFacts
  <2>2. a - PoolOff[p] + 1 = i
    BY <1>1
  <2> HIDE DEF a
  <2>3. (CHOOSE x \in Objects : a \in Window[x]) = p
    <3>1. \A x \in Objects : a \in Window[x] => x = p
      BY <2>1, DisjointWindows
    <3> QED BY <2>1, <3>1
  <2>4. po[a] = IF i =< Len(image[p]) THEN image[p][i] ELSE 0
    BY <2>1, <2>2, <2>3
  <2>5. po[a] = image[p][i]
    BY <1>1, <2>4
  <2> QED BY <2>5 DEF a
<1>3. ln[p] = Len(image[p])
  OBVIOUS
<1> HIDE DEF po, ln
<1>4. Payload(p, po, ln) = [i \in 1 .. Len(image[p]) |-> image[p][i]]
  BY <1>2, <1>3 DEF Payload
<1>5. Payload(p, po, ln) = image[p]
  BY <1>1, <1>4
<1> QED BY <1>5 DEF po, ln

\* The images the table and the loader give.
LEMMA DefaultImages ==
  /\ DefaultLen \in Lengths /\ DefaultPool \in [Pool -> Nat]
  /\ LoadedStore \in [Cells -> Int] /\ NoMirror \in Mirrors
  /\ Default \in Nvms
<1>1. \A p \in Objects : Default[p] \in Stored(p) /\ Default[p] \in Seq(Nat)
  BY ObjectFacts, ValuesStored DEF Stored
<1> DEFINE image == [p \in Objects |-> Default[p]]
<1>2. image \in [Objects -> Seq(Nat)] /\ \A p \in Objects : image[p] \in Stored(p)
  BY <1>1
<1>3. DefaultLen = [p \in Objects |-> Len(image[p])]
  BY DEF DefaultLen
<1>4. DefaultPool = [a \in Pool |->
               LET p == CHOOSE q \in Objects : a \in Window[q]
                   i == a - PoolOff[p] + 1
               IN  IF i =< Len(image[p]) THEN image[p][i] ELSE 0]
  <2>1. ASSUME NEW a \in Pool
        PROVE  LET p == CHOOSE q \in Objects : a \in Window[q]
                   i == a - PoolOff[p] + 1
               IN  (IF i =< Len(image[p]) THEN image[p][i] ELSE 0)
                   = (IF i =< Len(Default[p]) THEN Default[p][i] ELSE 0)
    BY ByteOwner
  <2> QED BY <2>1 DEF DefaultPool
<1> HIDE DEF image
<1>5. DefaultLen \in Lengths /\ DefaultPool \in [Pool -> Nat]
  BY <1>2, <1>3, <1>4, ImageType
<1>6. LoadedStore \in [Cells -> Int]
  BY CellOwner, ScalarFacts DEF LoadedStore
<1>7. [p \in Objects |-> 0] \in Lengths
  BY ObjectFacts DEF Lengths
<1>8. NoMirror \in Mirrors
  BY <1>7 DEF NoMirror, Mirrors
<1>9. Default \in Nvms
  <2>1. Default \in [Params -> Int \union Seq(Nat)]
    BY <1>1, ScalarFacts, ParamsFacts DEF Default
  <2> QED BY <2>1, <1>1, ScalarFacts DEF Nvms
<1> QED BY <1>5, <1>6, <1>8, <1>9

\* The object mirrors hold the defaults.
LEMMA DefaultPayload ==
  ASSUME NEW p \in Objects
  PROVE  Payload(p, DefaultPool, DefaultLen) = Default[p]
<1> DEFINE image == [q \in Objects |-> Default[q]]
<1>1. image \in [Objects -> Seq(Nat)] /\ \A q \in Objects : image[q] \in Stored(q)
  BY ObjectFacts, ValuesStored DEF Stored
<1>2. DefaultLen = [q \in Objects |-> Len(image[q])]
  BY DEF DefaultLen
<1>3. DefaultPool = [a \in Pool |->
               LET q == CHOOSE x \in Objects : a \in Window[x]
                   i == a - PoolOff[q] + 1
               IN  IF i =< Len(image[q]) THEN image[q][i] ELSE 0]
  <2>1. ASSUME NEW a \in Pool
        PROVE  LET q == CHOOSE x \in Objects : a \in Window[x]
                   i == a - PoolOff[q] + 1
               IN  (IF i =< Len(image[q]) THEN image[q][i] ELSE 0)
                   = (IF i =< Len(Default[q]) THEN Default[q][i] ELSE 0)
    BY ByteOwner
  <2> QED BY <2>1 DEF DefaultPool
<1>4. image[p] = Default[p]
  OBVIOUS
<1> HIDE DEF image
<1> QED BY <1>1, <1>2, <1>3, <1>4, ImagePayload

\* Steps that leave the data alone.
LEMMA DataFrame ==
  ASSUME DataInv, UNCHANGED <<live, mirror, nvm, seen, calls>>
  PROVE  DataInv'
  BY DEF DataInv, live

\* What a call has read is of the right type, whatever it reads next.
LEMMA SeenTypes ==
  ASSUME seen \in [Threads -> Seen], NEW t \in Threads
  PROVE  /\ \A v \in Int : [seen EXCEPT ![t].old = v] \in [Threads -> Seen]
         /\ \A v \in Int : [seen EXCEPT ![t].new = v] \in [Threads -> Seen]
         /\ \A b \in BOOLEAN : [seen EXCEPT ![t].changed = b] \in [Threads -> Seen]
         /\ \A v \in Int, b \in BOOLEAN :
               [seen EXCEPT ![t].new = v, ![t].changed = b] \in [Threads -> Seen]
         /\ [seen EXCEPT ![t] = NoSeen] \in [Threads -> Seen]
<1>1. seen[t] \in Seen
  OBVIOUS
<1>2. ASSUME NEW v \in Int
      PROVE  /\ [seen[t] EXCEPT !.old = v] \in Seen
             /\ [seen[t] EXCEPT !.new = v] \in Seen
  BY <1>1 DEF Seen
<1>3. ASSUME NEW b \in BOOLEAN, NEW r \in Seen
      PROVE  [r EXCEPT !.changed = b] \in Seen
  BY DEF Seen
<1>4. ASSUME NEW v \in Int, NEW b \in BOOLEAN
      PROVE  [seen EXCEPT ![t].new = v, ![t].changed = b] \in [Threads -> Seen]
  <2> DEFINE s == [seen EXCEPT ![t].new = v]
  <2>1. s = [seen EXCEPT ![t] = [seen[t] EXCEPT !.new = v]]
    OBVIOUS
  <2>2. s \in [Threads -> Seen] /\ s[t] \in Seen
    BY <1>2, <2>1
  <2>3. [s EXCEPT ![t].changed = b] = [s EXCEPT ![t] = [s[t] EXCEPT !.changed = b]]
    OBVIOUS
  <2>4. [seen EXCEPT ![t].new = v, ![t].changed = b] = [s EXCEPT ![t].changed = b]
    OBVIOUS
  <2> HIDE DEF s
  <2> QED BY <1>3, <2>2, <2>3, <2>4
<1>5. ASSUME NEW v \in Int
      PROVE  /\ [seen EXCEPT ![t].old = v] \in [Threads -> Seen]
             /\ [seen EXCEPT ![t].new = v] \in [Threads -> Seen]
  <2>1. /\ [seen EXCEPT ![t].old = v] = [seen EXCEPT ![t] = [seen[t] EXCEPT !.old = v]]
        /\ [seen EXCEPT ![t].new = v] = [seen EXCEPT ![t] = [seen[t] EXCEPT !.new = v]]
    OBVIOUS
  <2> QED BY <1>2, <2>1
<1>6. ASSUME NEW b \in BOOLEAN
      PROVE  [seen EXCEPT ![t].changed = b] \in [Threads -> Seen]
  <2>1. [seen EXCEPT ![t].changed = b] = [seen EXCEPT ![t] = [seen[t] EXCEPT !.changed = b]]
    OBVIOUS
  <2> QED BY <1>1, <1>3, <2>1
<1>7. NoSeen \in Seen
  BY DEF NoSeen, Seen
<1> QED BY <1>4, <1>5, <1>6, <1>7

\* A store of a number to a scalar's cell.
LEMMA StoreCellType ==
  ASSUME DataInv, NEW p \in Scalars, NEW v \in Int, StoreCell(p, v)
  PROVE  store' \in [Cells -> Int]
  BY ScalarFacts DEF DataInv, StoreCell

\* A write of what is in NVM, or of a value of the parameter's kind.
LEMMA NvmType ==
  ASSUME DataInv, NEW p \in Params, NEW v,
         p \in Scalars => v \in Int, p \in Objects => v \in Stored(p)
  PROVE  /\ [nvm EXCEPT ![p] = v] \in Nvms
         /\ [nvm EXCEPT ![p] = nvm[p]] \in Nvms
<1>1. v \in Int \union Seq(Nat)
  BY ParamsFacts DEF Stored
<1>2. nvm \in Nvms
  BY DEF DataInv
<1>3. [nvm EXCEPT ![p] = v] \in [Params -> Int \union Seq(Nat)]
  BY <1>1, <1>2 DEF Nvms
<1>4. \A q \in Params : [nvm EXCEPT ![p] = v][q] = IF q = p THEN v ELSE nvm[q]
  BY <1>2 DEF Nvms
<1>5. [nvm EXCEPT ![p] = v] \in Nvms
  BY <1>2, <1>3, <1>4, ParamsFacts DEF Nvms
<1>6. [nvm EXCEPT ![p] = nvm[p]] = nvm
  BY <1>2 DEF Nvms
<1> QED BY <1>2, <1>5, <1>6

\* The payload a call carries to the pool.
LEMMA CarriedPayload ==
  ASSUME ControlInv, NEW t \in Threads, pc[t] \in {"clear", "copy", "commit"}
  PROVE  /\ job[t].p \in Objects
         /\ job[t].arg \in Values(job[t].p) /\ job[t].arg \in Stored(job[t].p)
         /\ job[t].arg \in Seq(Nat)
<1>1. Shape(pc[t], job[t])
  BY DEF ControlInv
<1>2. job[t].p \in Objects /\ job[t].arg \in Values(job[t].p)
  BY <1>1, ObjectFacts DEF Shape
<1> QED BY <1>2, ValuesStored DEF Stored

\* The steps of a call keep the types of the data.
LEMMA StepKeepsData ==
  ASSUME ControlInv, DataInv, NEW t \in Threads, Step(t)
  PROVE  DataInv'
<1>0. /\ job[t] \in Jobs /\ job[t].p \in Params /\ Shape(pc[t], job[t])
      /\ seen[t] \in Seen /\ seen \in [Threads -> Seen]
  BY DEF ControlInv, DataInv, Jobs
<1> USE <1>0 DEF live, obs
<1>a. /\ seen' = [seen EXCEPT ![t] = NoSeen] => seen' \in [Threads -> Seen]
      /\ \A status : Done(t, status) => seen' \in [Threads -> Seen]
  BY SeenTypes DEF Done
<1>1. CASE MutexTimeout(t)
  BY <1>1, <1>a DEF MutexTimeout, DataInv
<1>2. CASE AcquireForSet(t)
  <2>1. job[t].p \in Scalars
    BY <1>2 DEF AcquireForSet, Shape
  <2>2. LiveScalar(job[t].p) \in Int
    BY <2>1, LiveType
  <2>3. seen' \in [Threads -> Seen]
    <3>1. CASE job[t].arg \in Rejected[job[t].p]
      BY <3>1, <1>2, <1>a DEF AcquireForSet
    <3>2. CASE job[t].arg \notin Rejected[job[t].p]
      <4>1. seen' = [seen EXCEPT ![t].old = LiveScalar(job[t].p)]
        BY <3>2, <1>2 DEF AcquireForSet
      <4> QED BY <4>1, <2>2, SeenTypes
    <3> QED BY <3>1, <3>2
  <2> QED BY <2>3, <1>2 DEF AcquireForSet, DataInv
<1>3. CASE StoreScalar(t)
  <2>1. job[t].p \in Scalars /\ job[t].arg \in Int
    BY <1>3 DEF StoreScalar, Shape
  <2>2. store' \in [Cells -> Int]
    BY <2>1, <1>3, StoreCellType, ScalarFacts DEF StoreScalar
  <2> QED BY <2>2, <1>3 DEF StoreScalar, DataInv
<1>4. CASE Reread(t)
  <2>1. job[t].p \in Scalars
    BY <1>4 DEF Reread, Shape
  <2>2. LiveScalar(job[t].p) \in Int
    BY <2>1, LiveType
  <2>3. seen' \in [Threads -> Seen]
    BY <2>2, <1>4, SeenTypes DEF Reread
  <2> QED BY <2>3, <1>4 DEF Reread, DataInv
<1>5. CASE NotifyAndRelease(t)
  <2>1. seen' \in [Threads -> Seen]
    BY <1>5, <1>a DEF NotifyAndRelease
  <2> QED BY <2>1, <1>5 DEF NotifyAndRelease, DataInv
<1>6. CASE SaveRead(t)
  <2>1. job[t].p \in Scalars
    BY <1>6 DEF SaveRead, Shape
  <2>2. LiveScalar(job[t].p) \in Int
    BY <2>1, LiveType
  <2>3. seen' \in [Threads -> Seen]
    <3>1. CASE ~Table[job[t].p].pers
      BY <3>1, <1>6, <1>a DEF SaveRead
    <3>2. CASE Table[job[t].p].pers
      <4>1. seen' = [seen EXCEPT ![t].new = LiveScalar(job[t].p)]
        BY <3>2, <1>6 DEF SaveRead
      <4> QED BY <4>1, <2>2, SeenTypes
    <3> QED BY <3>1, <3>2
  <2> QED BY <2>3, <1>6 DEF SaveRead, DataInv
<1>7. CASE SaveWrite(t)
  <2>1. job[t].p \in Scalars /\ seen[t].new \in Int /\ job[t].p \notin Objects
    BY <1>7, ParamsFacts DEF SaveWrite, Shape, Seen
  <2>2. nvm' \in Nvms
    <3>1. \/ nvm' = [nvm EXCEPT ![job[t].p] = seen[t].new]
          \/ nvm' = [nvm EXCEPT ![job[t].p] = nvm[job[t].p]]
      BY <1>7 DEF SaveWrite
    <3> QED BY <3>1, <2>1, NvmType
  <2>3. seen' \in [Threads -> Seen]
    BY <1>7, <1>a DEF SaveWrite
  <2> QED BY <2>2, <2>3, <1>7 DEF SaveWrite, DataInv
<1>8. CASE AcquireForDefault(t)
  BY <1>8, DataFrame DEF AcquireForDefault
<1>9. CASE StoreDefault(t)
  <2>1. job[t].p \in Scalars /\ job[t].arg = Default[job[t].p]
    BY <1>9 DEF StoreDefault, Shape
  <2>2. store' \in [Cells -> Int]
    BY <2>1, <1>9, StoreCellType, ScalarFacts DEF StoreDefault
  <2>3. seen' \in [Threads -> Seen]
    BY <1>9, <1>a DEF StoreDefault
  <2> QED BY <2>2, <2>3, <1>9 DEF StoreDefault, DataInv
<1>10. CASE AcquireForSetObject(t)
  <2>1. seen' \in [Threads -> Seen]
    <3>1. CASE job[t].arg \in Rejected[job[t].p]
      BY <3>1, <1>10, <1>a DEF AcquireForSetObject
    <3>2. CASE job[t].arg \notin Rejected[job[t].p]
      <4>1. PICK b \in BOOLEAN : seen' = [seen EXCEPT ![t].changed = b]
        BY <3>2, <1>10 DEF AcquireForSetObject
      <4> QED BY <4>1, SeenTypes
    <3> QED BY <3>1, <3>2
  <2> QED BY <2>1, <1>10 DEF AcquireForSetObject, DataInv
<1>11. CASE ClearWindow(t)
  <2>1. pool' \in [Pool -> Nat]
    BY <1>11 DEF ClearWindow, DataInv
  <2> QED BY <2>1, <1>11 DEF ClearWindow, DataInv
<1>12. CASE CopyPayload(t)
  <2> DEFINE p == job[t].p
             arg == job[t].arg
  <2>1. p \in Objects /\ arg \in Seq(Nat) /\ PoolOff[p] \in Nat
    BY <1>12, CarriedPayload, ObjectFacts DEF CopyPayload
  <2>2. ASSUME NEW a \in Pool, a - PoolOff[p] \in 0 .. Len(arg) - 1
        PROVE  arg[a - PoolOff[p] + 1] \in Nat
    <3>1. a - PoolOff[p] + 1 \in 1 .. Len(arg)
      BY <2>1, <2>2, ByteOwner
    <3> QED BY <3>1, <2>1
  <2>3. pool' = [a \in Pool |->
                      IF a - PoolOff[p] \in 0 .. Len(arg) - 1
                      THEN arg[a - PoolOff[p] + 1] ELSE pool[a]]
    BY <1>12 DEF CopyPayload
  <2> HIDE DEF p, arg
  <2>4. pool' \in [Pool -> Nat]
    BY <2>2, <2>3 DEF DataInv
  <2> QED BY <2>4, <1>12 DEF CopyPayload, DataInv
<1>13. CASE CommitLen(t)
  <2>1. Len(job[t].arg) \in 0 .. max_len(Table[job[t].p]) /\ Len(job[t].arg) \in Nat
        /\ job[t].p \in Objects
    BY <1>13, CarriedPayload DEF CommitLen, Stored
  <2>2. len' \in Lengths
    BY <2>1, <1>13 DEF CommitLen, Lengths, DataInv
  <2>3. seen' \in [Threads -> Seen]
    BY <1>13, <1>a DEF CommitLen
  <2> QED BY <2>2, <2>3, <1>13 DEF CommitLen, DataInv
<1>14. CASE AcquireForSave(t)
  BY <1>14, DataFrame DEF AcquireForSave
<1>15. CASE SaveObject(t)
  <2>1. job[t].p \in Objects /\ job[t].p \notin Scalars
    BY <1>15 DEF SaveObject, Shape, Scalars
  <2>2. Live(job[t].p) \in Stored(job[t].p)
    BY <2>1, LiveType
  <2>3. nvm' \in Nvms
    <3>1. \/ nvm' = [nvm EXCEPT ![job[t].p] = Live(job[t].p)]
          \/ nvm' = [nvm EXCEPT ![job[t].p] = nvm[job[t].p]]
      BY <1>15 DEF SaveObject
    <3>2. /\ [nvm EXCEPT ![job[t].p] = Live(job[t].p)] \in Nvms
          /\ [nvm EXCEPT ![job[t].p] = nvm[job[t].p]] \in Nvms
      BY <2>1, <2>2, NvmType
    <3> QED BY <3>1, <3>2
  <2>4. seen' \in [Threads -> Seen]
    BY <1>15, <1>a DEF SaveObject
  <2> QED BY <2>3, <2>4, <1>15 DEF SaveObject, DataInv
<1>16. CASE AcquireForGet(t)
  <2>1. job[t].p \in Objects
    BY <1>16 DEF AcquireForGet, Shape
  <2>2. len[job[t].p] \in Int
    BY <2>1 DEF DataInv, Lengths
  <2>3. seen' \in [Threads -> Seen]
    <3>1. \/ seen' = [seen EXCEPT ![t].old = len[job[t].p]]
          \/ seen' = [seen EXCEPT ![t] = NoSeen]
      BY <1>16 DEF AcquireForGet, Done
    <3> DEFINE n == len[job[t].p]
    <3>2. n \in Int
      BY <2>2
    <3> HIDE DEF n
    <3>3. [seen EXCEPT ![t].old = n] \in [Threads -> Seen]
      BY <3>2, SeenTypes
    <3> QED BY <3>1, <3>3, SeenTypes DEF n
  <2> QED BY <2>3, <1>16 DEF AcquireForGet, DataInv
<1>17. CASE CopyOut(t)
  <2>1. seen' \in [Threads -> Seen]
    BY <1>17, <1>a DEF CopyOut
  <2> QED BY <2>1, <1>17 DEF CopyOut, DataInv
<1>18. CASE AcquireForReset(t)
  BY <1>18, DataFrame DEF AcquireForReset
<1>19. CASE ResetCell(t)
  <2>1. PICK p \in job[t].arg : StoreCell(p, mirror.store[Cell[p]])
    BY <1>19 DEF ResetCell
  <2>2. p \in Scalars
    BY <1>19 DEF ResetCell, Shape
  <2>3. mirror.store[Cell[p]] \in Int
    BY <2>2, ScalarFacts DEF DataInv, Mirrors
  <2>4. store' \in [Cells -> Int]
    BY <2>1, <2>2, <2>3, StoreCellType
  <2> QED BY <2>4, <1>19 DEF ResetCell, DataInv
<1>20. CASE ResetPool(t)
  BY <1>20 DEF ResetPool, DataInv, Mirrors
<1>21. CASE ResetSlots(t)
  <2>1. seen' \in [Threads -> Seen]
    BY <1>21, <1>a DEF ResetSlots
  <2> QED BY <2>1, <1>21 DEF ResetSlots, DataInv, Mirrors
<1> QED BY <1>1, <1>2, <1>3, <1>4, <1>5, <1>6, <1>7, <1>8, <1>9, <1>10, <1>11,
           <1>12, <1>13, <1>14, <1>15, <1>16, <1>17, <1>18, <1>19, <1>20, <1>21
        DEF Step

\* The calls that finish at once, and the calls that begin.
LEMMA CallKeepsData ==
  ASSUME ControlInv, DataInv, NEW t \in Threads, CallSomething(t)
  PROVE  DataInv'
<1> USE DEF live, obs
<1>0. MaxCalls \in Nat
  BY InputsAssumption
<1>1. CASE SetFast(t)
  <2>1. PICK p \in Scalars : \E v \in Inputs[p] : StoreCell(p, Clamped(p, v))
    BY <1>1 DEF SetFast
  <2>2. PICK v \in Inputs[p] : StoreCell(p, Clamped(p, v))
    BY <2>1
  <2>3. store' \in [Cells -> Int]
    BY <2>2, InputsAssumption, ScalarFacts, StoreCellType
  <2>4. calls' \in 0 .. MaxCalls
    BY <1>0, <1>1 DEF SetFast, Ready, DataInv
  <2> QED BY <2>3, <2>4, <1>1 DEF SetFast, DataInv
<1>2. CASE SetBits(t)
  <2>1. PICK p \in BitPars, v \in Words, new \in Words : StoreCell(p, new)
    BY <1>2 DEF SetBits
  <2>2. store' \in [Cells -> Int]
    BY <2>1, InputsAssumption, StoreCellType DEF Words
  <2>3. calls' \in 0 .. MaxCalls
    BY <1>0, <1>2 DEF SetBits, Ready, DataInv
  <2> QED BY <2>2, <2>3, <1>2 DEF SetBits, DataInv
<1>3. CASE Refused(t)
  <2>1. calls' \in 0 .. MaxCalls
    BY <1>0, <1>3 DEF Refused, Refuse, Ready, DataInv
  <2> QED BY <2>1, <1>3 DEF Refused, Refuse, DataInv
<1>4. CASE Accepted(t)
  <2>1. /\ calls' = calls + 1 /\ calls < MaxCalls
        /\ seen' = [seen EXCEPT ![t] = NoSeen]
        /\ UNCHANGED <<live, mirror, nvm>>
    BY <1>4 DEF Accepted, Begin, Ready
  <2>2. calls' \in 0 .. MaxCalls
    BY <1>0, <2>1 DEF DataInv
  <2>3. seen' \in [Threads -> Seen]
    BY <2>1, SeenTypes DEF DataInv
  <2> QED BY <2>1, <2>2, <2>3 DEF DataInv
<1> QED BY <1>1, <1>2, <1>3, <1>4, CallCases

\* par_init: what is restored from NVM, from the table, or not at all.
LEMMA InitKeepsData ==
  ASSUME DataInv, par_init
  PROVE  DataInv'
<1>1. PICK from \in {"nvm", "table", "nothing"} :
          LET restored(p) == Table[p].pers /\ from # "nothing"
              value(p) == IF from = "nvm" THEN nvm[p] ELSE Default[p]
              image == [p \in Objects |->
                          IF restored(p) THEN value(p) ELSE Default[p]]
          IN  /\ store' = [c \in Cells |->
                    LET p == CHOOSE q \in Scalars : Cell[q] = c
                    IN  IF restored(p) THEN Clamped(p, value(p))
                        ELSE PatchedStore[c]]
              /\ len' = [p \in Objects |-> Len(image[p])]
              /\ pool' = [a \in Pool |->
                    LET p == CHOOSE q \in Objects : a \in Window[q]
                        i == a - PoolOff[p] + 1
                    IN  IF i =< Len(image[p]) THEN image[p][i] ELSE 0]
              /\ nvm' = IF from = "table"
                        THEN [p \in Params |-> IF Table[p].pers THEN Default[p]
                                               ELSE nvm[p]]
                        ELSE nvm
  BY DEF par_init
<1> DEFINE restored(p) == Table[p].pers /\ from # "nothing"
           value(p) == IF from = "nvm" THEN nvm[p] ELSE Default[p]
           image == [p \in Objects |->
                       IF restored(p) THEN value(p) ELSE Default[p]]
           owner(c) == CHOOSE q \in Scalars : Cell[q] = c
<1>2. /\ store' = [c \in Cells |->
                     IF restored(owner(c)) THEN Clamped(owner(c), value(owner(c)))
                     ELSE PatchedStore[c]]
      /\ len' = [p \in Objects |-> Len(image[p])]
      /\ pool' = [a \in Pool |->
                    LET p == CHOOSE q \in Objects : a \in Window[q]
                        i == a - PoolOff[p] + 1
                    IN  IF i =< Len(image[p]) THEN image[p][i] ELSE 0]
  BY <1>1
<1>3. /\ \A p \in Objects : nvm[p] \in Stored(p) /\ Default[p] \in Stored(p)
      /\ \A p \in Scalars : nvm[p] \in Int /\ Default[p] \in Int
  BY ObjectFacts, ValuesStored, ScalarFacts DEF DataInv, Nvms
<1>4. PatchedStore \in [Cells -> Int]
  BY <1>3, CellOwner DEF PatchedStore, DataInv
<1>5. \A p \in Scalars : value(p) \in Int
  BY <1>3
<1>6. \A p \in Objects : image[p] \in Stored(p)
  BY <1>3
<1>7. image \in [Objects -> Seq(Nat)]
  BY <1>6 DEF Stored
<1>8. \A c \in Cells : owner(c) \in Scalars
  BY CellOwner
<1> HIDE DEF restored, value, image, owner
<1>9. store' \in [Cells -> Int]
  BY <1>2, <1>4, <1>5, <1>8, ScalarFacts
<1>10. len' \in Lengths /\ pool' \in [Pool -> Nat]
  BY <1>2, <1>6, <1>7, ImageType
<1>11. mirror' \in Mirrors
  BY <1>4, DefaultImages DEF par_init, Mirrors
<1>12. nvm' \in Nvms
  <2>1. CASE from = "table"
    <3>1. nvm' = [p \in Params |-> IF Table[p].pers THEN Default[p] ELSE nvm[p]]
      BY <1>1, <2>1
    <3>2. nvm' \in [Params -> Int \union Seq(Nat)]
      BY <3>1, DefaultImages DEF DataInv, Nvms
    <3> QED BY <3>1, <3>2, <1>3, ParamsFacts DEF Nvms
  <2>2. CASE from # "table"
    BY <1>1, <2>2 DEF DataInv
  <2> QED BY <2>1, <2>2
<1> QED BY <1>9, <1>10, <1>11, <1>12 DEF par_init, DataInv

\* The initial values of cells, pool and NVM are of their types.
LEMMA InitData == Init => DataInv
<1> SUFFICES ASSUME Init PROVE DataInv
  OBVIOUS
<1>1. NoSeen \in Seen /\ MaxCalls \in Nat
  BY InputsAssumption DEF NoSeen, Seen
<1> QED BY <1>1, DefaultImages DEF Init, DataInv, NoMirror, Mirrors

\* Every step keeps the types of the data.
LEMMA NextKeepsData == ControlInv /\ DataInv /\ [Next]_vars => DataInv'
<1> SUFFICES ASSUME ControlInv, DataInv, [Next]_vars PROVE DataInv'
  OBVIOUS
<1>1. ASSUME NEW t \in Threads, Step(t) PROVE DataInv'
  BY <1>1, StepKeepsData
<1>2. ASSUME NEW t \in Threads, CallSomething(t) PROVE DataInv'
  BY <1>2, CallKeepsData
<1>3. CASE par_init
  BY <1>3, InitKeepsData
<1>4. CASE par_deinit
  BY <1>4, DataFrame DEF par_deinit
<1>5. CASE Reboot
  <2>1. NoSeen \in Seen /\ MaxCalls \in Nat
    BY InputsAssumption DEF NoSeen, Seen
  <2>2. calls' \in 0 .. MaxCalls
    BY <1>5, <2>1 DEF Reboot, DataInv
  <2> QED BY <1>5, <2>1, <2>2, DefaultImages
          DEF Reboot, DataInv, NoMirror, Mirrors
<1>6. CASE UNCHANGED vars
  BY <1>6, DataFrame DEF vars
<1> QED BY <1>1, <1>2, <1>3, <1>4, <1>5, <1>6 DEF Next

\* The control and the data together.
CoreInv == ControlInv /\ DataInv

\* The inductive invariant of control and data holds of every run.
THEOREM CoreInvariant == Spec => []CoreInv
<1>1. Init => CoreInv
  BY InitControl, InitData DEF CoreInv
<1>2. CoreInv /\ [Next]_vars => CoreInv'
  BY NextKeepsControl, NextKeepsData DEF CoreInv
<1> QED BY <1>1, <1>2, PTL DEF Spec

\* Every cell, byte, length, mutex and call of the core stays of its type: no
\* write leaves the pool, and no length exceeds the object's maximum.
THEOREM CoreTypes == Spec => []TypeOK
<1>1. CoreInv => TypeOK
  BY ParamsFacts
     DEF CoreInv, ControlInv, DataInv, TypeOK, PCs, Jobs, Seen, Lengths
<1> QED BY <1>1, CoreInvariant, PTL

-----------------------------------------------------------------------------
(* The observers.                                                          *)

\* A checked setter is at work under the mutex.
Setting(t) == /\ pc[t] \in {"store", "reread", "notify"}
              /\ job[t].op \in {"set", "nsave"}
At(t, p, at) == Setting(t) /\ pc[t] = at /\ job[t].p = p

\* What the setter of p knows, and the observer: between the store and the
\* callback the observer is behind, and the setter knows by how much.
Follows(p) ==
    /\ \A t \in Threads : At(t, p, "store") =>
          heard[p] = LiveScalar(p) /\ seen[t].old = LiveScalar(p)
    /\ \A t \in Threads : At(t, p, "reread") => heard[p] = seen[t].old
    /\ \A t \in Threads : At(t, p, "notify") =>
          IF seen[t].changed THEN seen[t].new = LiveScalar(p)
          ELSE heard[p] = LiveScalar(p)
    /\ (\A t \in Threads : ~At(t, p, "reread") /\ ~At(t, p, "notify")) =>
          heard[p] = LiveScalar(p)

ObserverInv == \A p \in Observed : ~quiet[p] => Follows(p)

\* The owner of a parameter's mutex is alone in its steps.
LEMMA OneHolder ==
  ASSUME ControlInv, NEW t \in Threads, NEW u \in Threads,
         pc[t] \in Holding, pc[u] \in Holding, job[t].p = job[u].p
  PROVE  t = u
  BY DEF ControlInv, MutexFollowsCalls, mutex

\* A store changes the scalar it is for and no other.
LEMMA StoreEffect ==
  ASSUME DataInv, NEW p \in Scalars, NEW v, StoreCell(p, v)
  PROVE  /\ LiveScalar(p)' = v
         /\ \A q \in Scalars : q # p => LiveScalar(q)' = LiveScalar(q)
<1>1. Cell[p] \in Cells /\ \A q \in Scalars : Cell[q] \in Cells
  BY ScalarFacts
<1>2. store' = [store EXCEPT ![Cell[p]] = v] /\ store \in [Cells -> Int]
  BY DEF StoreCell, DataInv
<1>3. \A q \in Scalars : q # p => Cell[q] # Cell[p]
  BY LayoutGivesCells DEF CellsApart
<1> QED BY <1>1, <1>2, <1>3 DEF LiveScalar

\* Steps that neither set, nor notify, nor store without going quiet.
LEMMA ObserverFrame ==
  ASSUME ObserverInv, UNCHANGED heard,
         \A p \in Observed : ~quiet'[p] =>
            ~quiet[p] /\ LiveScalar(p)' = LiveScalar(p),
         \A t \in Threads : Setting(t) \/ Setting(t)' =>
            pc'[t] = pc[t] /\ job'[t] = job[t] /\ seen'[t] = seen[t]
  PROVE  ObserverInv'
<1> SUFFICES ASSUME NEW p \in Observed, ~quiet'[p] PROVE Follows(p)'
  BY DEF ObserverInv
<1>1. Follows(p) /\ LiveScalar(p)' = LiveScalar(p)
  BY DEF ObserverInv
<1>2. \A t \in Threads, at \in {"store", "reread", "notify"} :
         /\ At(t, p, at)' <=> At(t, p, at)
         /\ At(t, p, at) => seen'[t] = seen[t]
  BY DEF At, Setting
<1> QED BY <1>1, <1>2 DEF Follows

\* Steps of a call outside the setter.
LEMMA ElsewhereKeepsObservers ==
  ASSUME ControlInv, DataInv, ObserverInv, NEW t \in Threads, ~Setting(t),
         NEW at, NEW j, Moves(t, at, j),
         at \notin {"store", "reread", "notify"} \/ j.op \notin {"set", "nsave"},
         \A u \in Threads \ {t} : seen'[u] = seen[u],
         UNCHANGED heard,
         \A p \in Observed : ~quiet'[p] =>
            ~quiet[p] /\ LiveScalar(p)' = LiveScalar(p)
  PROVE  ObserverInv'
<1>1. /\ pc'[t] = at /\ job'[t] = j
      /\ \A u \in Threads \ {t} : pc'[u] = pc[u] /\ job'[u] = job[u]
  BY DEF Moves, ControlInv
<1>2. ~Setting(t)'
  BY <1>1 DEF Setting
<1>3. \A u \in Threads : Setting(u) \/ Setting(u)' =>
            pc'[u] = pc[u] /\ job'[u] = job[u] /\ seen'[u] = seen[u]
  BY <1>1, <1>2 DEF Setting
<1> QED BY <1>3, ObserverFrame

\* The steps of the setter itself.
LEMMA SetterKeepsObservers ==
  ASSUME ControlInv, DataInv, ObserverInv, NEW t \in Threads,
         \/ AcquireForSet(t) \/ StoreScalar(t) \/ Reread(t)
         \/ NotifyAndRelease(t)
  PROVE  ObserverInv'
<1> USE DEF live, obs
<1> SUFFICES ASSUME NEW p \in Observed, ~quiet'[p] PROVE Follows(p)'
  BY DEF ObserverInv
<1>0. /\ p \in Scalars /\ job[t].p \in Params /\ Shape(pc[t], job[t])
      /\ job[t] \in Jobs /\ seen[t] \in Seen
  BY InputsAssumption DEF ControlInv, DataInv, Jobs
<1>1. CASE AcquireForSet(t)
  <2>1. CASE job[t].arg \in Rejected[job[t].p]
    <3>1. /\ pc'[t] = "idle" /\ ~quiet[p] /\ LiveScalar(p)' = LiveScalar(p)
          /\ heard' = heard
          /\ \A u \in Threads \ {t} : pc'[u] = pc[u] /\ job'[u] = job[u]
                                      /\ seen'[u] = seen[u]
      BY <1>1, <2>1 DEF AcquireForSet, Done, ControlInv, DataInv, LiveScalar
    <3>2. pc[t] = "take"
      BY <1>1 DEF AcquireForSet
    <3>3. \A u \in Threads, at \in {"store", "reread", "notify"} :
             /\ At(u, p, at)' <=> At(u, p, at)
             /\ At(u, p, at) => seen'[u] = seen[u]
      BY <3>1, <3>2 DEF At, Setting
    <3> QED BY <3>1, <3>3 DEF Follows, ObserverInv
  <2>2. CASE job[t].arg \notin Rejected[job[t].p]
    <3>1. /\ pc[t] = "take" /\ pc'[t] = "store" /\ job' = job
          /\ seen'[t].old = LiveScalar(job[t].p)
          /\ \A u \in Threads \ {t} : pc'[u] = pc[u] /\ seen'[u] = seen[u]
      BY <1>1, <2>2 DEF AcquireForSet, Goto, ControlInv, DataInv, Seen
    <3>2. ~quiet[p] /\ LiveScalar(p)' = LiveScalar(p) /\ heard' = heard
          /\ Follows(p)
      BY <1>1 DEF AcquireForSet, LiveScalar, ObserverInv
    <3>3. lock[MutexOf[job[t].p]] = Nobody
      BY <1>1, <2>2 DEF AcquireForSet, Take, mutex
    <3>4. \A u \in Threads : pc[u] \in Holding => job[u].p # job[t].p
      BY <3>3, NobodyAssumption DEF ControlInv, MutexFollowsCalls, mutex
    <3>5. \A u \in Threads, at \in {"store", "reread", "notify"} :
             u # t => /\ At(u, p, at)' <=> At(u, p, at)
                      /\ At(u, p, at) => seen'[u] = seen[u]
      BY <3>1 DEF At, Setting
    <3>6. /\ ~At(t, p, "reread")' /\ ~At(t, p, "notify")'
          /\ ~At(t, p, "reread") /\ ~At(t, p, "notify")
      BY <3>1 DEF At
    <3>7. ASSUME At(t, p, "store")'
          PROVE  heard'[p] = LiveScalar(p)' /\ seen'[t].old = LiveScalar(p)'
      <4>1. job[t].p = p
        BY <3>1, <3>7 DEF At
      <4>2. \A u \in Threads : ~At(u, p, "reread") /\ ~At(u, p, "notify")
        BY <4>1, <3>4 DEF At, Holding
      <4> QED BY <4>1, <4>2, <3>1, <3>2 DEF Follows
    <3> QED BY <3>2, <3>5, <3>6, <3>7 DEF Follows
  <2> QED BY <2>1, <2>2
<1>2. CASE StoreScalar(t)
  <2>1. /\ pc[t] = "store" /\ pc'[t] = "reread" /\ job' = job /\ seen' = seen
        /\ \A u \in Threads \ {t} : pc'[u] = pc[u]
        /\ job[t].op \in {"set", "nsave"} /\ heard' = heard /\ quiet' = quiet
    BY <1>2 DEF StoreScalar, ControlInv
  <2>2. job[t].p \in Scalars
    BY <2>1, <1>0 DEF Shape
  <2>3. Follows(p)
    BY <2>1 DEF ObserverInv
  <2>4. \A u \in Threads, at \in {"store", "reread", "notify"} :
             u # t => (At(u, p, at)' <=> At(u, p, at))
    BY <2>1 DEF At, Setting
  <2>5. CASE job[t].p = p
    <3>1. \A u \in Threads \ {t} : pc[u] \in Holding => job[u].p # p
      BY <2>1, <2>5, OneHolder DEF Holding
    <3>2. \A u \in Threads \ {t}, at \in {"store", "reread", "notify"} :
             ~At(u, p, at)
      BY <3>1 DEF At, Holding
    <3>3. At(t, p, "store") /\ At(t, p, "reread")'
      BY <2>1, <2>5 DEF At, Setting
    <3>4. ~At(t, p, "store")' /\ ~At(t, p, "notify")'
      BY <2>1 DEF At
    <3> QED BY <3>2, <3>3, <3>4, <2>1, <2>3, <2>4 DEF Follows
  <2>6. CASE job[t].p # p
    <3>1. LiveScalar(p)' = LiveScalar(p)
      BY <1>0, <1>2, <2>2, <2>6, StoreEffect DEF StoreScalar
    <3>2. \A at \in {"store", "reread", "notify"} : ~At(t, p, at) /\ ~At(t, p, at)'
      BY <2>1, <2>6 DEF At
    <3> QED BY <3>1, <3>2, <2>1, <2>3, <2>4 DEF Follows
  <2> QED BY <2>5, <2>6
<1>3. CASE Reread(t)
  <2> DEFINE new == LiveScalar(job[t].p)
  <2>1. /\ pc[t] = "reread" /\ pc'[t] = "notify" /\ job' = job
        /\ \A u \in Threads \ {t} : pc'[u] = pc[u] /\ seen'[u] = seen[u]
        /\ heard' = heard
    BY <1>3 DEF Reread, Goto, ControlInv, DataInv
  <2>2. seen'[t].new = new /\ seen'[t].changed = (new # seen[t].old)
    BY <1>3 DEF Reread, DataInv, Seen
  <2>3. quiet'[p] = (quiet[p] /\ ~(p = job[t].p /\ new # seen[t].old))
    BY <1>3 DEF Reread
  <2>4. LiveScalar(p)' = LiveScalar(p)
    BY <1>3 DEF Reread, LiveScalar
  <2>5. \A u \in Threads, at \in {"store", "reread", "notify"} :
             u # t => (At(u, p, at)' <=> At(u, p, at))
    BY <2>1 DEF At, Setting
  <2>6. CASE job[t].p = p
    <3>1. \A u \in Threads \ {t} : pc[u] \in Holding => job[u].p # p
      BY <2>1, <2>6, OneHolder DEF Holding
    <3>2. \A u \in Threads \ {t}, at \in {"store", "reread", "notify"} :
             ~At(u, p, at)
      BY <3>1 DEF At, Holding
    <3>3. At(t, p, "reread") /\ At(t, p, "notify")'
      BY <2>1, <2>6, <1>0 DEF At, Setting, Shape
    <3>4. ~At(t, p, "store")' /\ ~At(t, p, "reread")'
      BY <2>1 DEF At
    <3>5. ~seen'[t].changed => heard'[p] = LiveScalar(p)'
      BY <2>1, <2>2, <2>3, <2>4, <2>6, <3>3 DEF Follows, ObserverInv
    <3>6. seen'[t].new = LiveScalar(p)'
      BY <2>2, <2>4, <2>6
    <3> QED BY <3>2, <3>3, <3>4, <3>5, <3>6, <2>5 DEF Follows
  <2>7. CASE job[t].p # p
    <3>1. ~quiet[p]
      BY <2>3, <2>7
    <3>2. \A at \in {"store", "reread", "notify"} : ~At(t, p, at) /\ ~At(t, p, at)'
      BY <2>1, <2>7 DEF At
    <3> QED BY <3>1, <3>2, <2>1, <2>4, <2>5 DEF Follows, ObserverInv
  <2> QED BY <2>6, <2>7
<1>4. CASE NotifyAndRelease(t)
  <2>1. /\ pc[t] = "notify" /\ pc'[t] \in {"saveRead", "idle"}
        /\ \A u \in Threads \ {t} : pc'[u] = pc[u] /\ seen'[u] = seen[u]
                                    /\ job'[u] = job[u]
        /\ quiet' = quiet
    BY <1>4 DEF NotifyAndRelease, Goto, Done, ControlInv, DataInv
  <2>2. /\ heard'[p] = IF p = job[t].p /\ seen[t].changed THEN seen[t].new
                       ELSE heard[p]
        /\ LiveScalar(p)' = LiveScalar(p)
    BY <1>4 DEF NotifyAndRelease, LiveScalar
  <2>3. Follows(p)
    BY <2>1 DEF ObserverInv
  <2>4. \A u \in Threads, at \in {"store", "reread", "notify"} :
             u # t => (At(u, p, at)' <=> At(u, p, at))
    BY <2>1 DEF At, Setting
  <2>5. \A at \in {"store", "reread", "notify"} : ~At(t, p, at)'
    BY <2>1 DEF At
  <2>6. CASE job[t].p = p
    <3>1. \A u \in Threads \ {t} : pc[u] \in Holding => job[u].p # p
      BY <2>1, <2>6, OneHolder DEF Holding
    <3>2. \A u \in Threads \ {t}, at \in {"store", "reread", "notify"} :
             ~At(u, p, at)
      BY <3>1 DEF At, Holding
    <3>3. At(t, p, "notify")
      BY <2>1, <2>6, <1>0 DEF At, Setting, Shape
    <3>4. heard'[p] = LiveScalar(p)'
      BY <3>3, <2>2, <2>3, <2>6 DEF Follows
    <3> QED BY <3>2, <3>4, <2>4, <2>5 DEF Follows
  <2>7. CASE job[t].p # p
    <3>1. \A at \in {"store", "reread", "notify"} : ~At(t, p, at)
      BY <2>7 DEF At
    <3> QED BY <3>1, <2>1, <2>2, <2>3, <2>4, <2>5, <2>7 DEF Follows
  <2> QED BY <2>6, <2>7
<1> QED BY <1>1, <1>2, <1>3, <1>4

\* Steps of a call that write no cell and tell no observer.
LEMMA SilentStep ==
  ASSUME ControlInv, DataInv, ObserverInv, NEW t \in Threads, ~Setting(t),
         NEW at, NEW j, Moves(t, at, j),
         at \notin {"store", "reread", "notify"} \/ j.op \notin {"set", "nsave"},
         \A u \in Threads \ {t} : seen'[u] = seen[u],
         UNCHANGED <<heard, quiet, store>>
  PROVE  ObserverInv'
  BY ElsewhereKeepsObservers DEF LiveScalar

\* The steps outside the setter that write a cell: the observer's scalar goes
\* quiet.
LEMMA QuietSteps ==
  ASSUME ControlInv, DataInv, ObserverInv, NEW t \in Threads,
         StoreDefault(t) \/ ResetCell(t)
  PROVE  ObserverInv'
<1>0. /\ Shape(pc[t], job[t]) /\ job[t] \in Jobs /\ Step(t) /\ Observed \subseteq Scalars
  BY InputsAssumption DEF ControlInv, Step
<1>1. PICK at, j : Moves(t, at, j)
  BY <1>0, StepMoves
<1>2. ~Setting(t)
  BY <1>0 DEF StoreDefault, ResetCell, Setting
<1>3. at \notin {"store", "reread", "notify"} \/ j.op \notin {"set", "nsave"}
  <2>1. pc'[t] = at
    BY <1>1 DEF Moves, ControlInv
  <2>2. pc'[t] \in {"idle", "cells", "pool"}
    BY DEF StoreDefault, Done, ResetCell, ControlInv
  <2> QED BY <2>1, <2>2
<1>4. \A u \in Threads \ {t} : seen'[u] = seen[u]
  BY DEF StoreDefault, Done, ResetCell, DataInv
<1>5. heard' = heard
  BY DEF StoreDefault, ResetCell
<1>a. PICK p \in Scalars : \E v : StoreCell(p, v) /\ Unheard(p)
  <2>1. CASE StoreDefault(t)
    BY <2>1, <1>0 DEF StoreDefault, Shape
  <2>2. CASE ResetCell(t)
    BY <2>2, <1>0 DEF ResetCell, Shape
  <2> QED BY <2>1, <2>2
<1>6. PICK v : StoreCell(p, v) /\ Unheard(p)
  BY <1>a
<1>7. \A q \in Observed : ~quiet'[q] => ~quiet[q] /\ LiveScalar(q)' = LiveScalar(q)
  BY <1>0, <1>6, StoreEffect DEF Unheard
<1> QED BY <1>1, <1>2, <1>3, <1>4, <1>5, <1>7, ElsewhereKeepsObservers

\* Every other step of a call.
LEMMA StepKeepsObservers ==
  ASSUME ControlInv, DataInv, ObserverInv, NEW t \in Threads, Step(t)
  PROVE  ObserverInv'
<1>1. CASE AcquireForSet(t) \/ StoreScalar(t) \/ Reread(t) \/ NotifyAndRelease(t)
  BY <1>1, SetterKeepsObservers
<1>2. CASE StoreDefault(t) \/ ResetCell(t)
  BY <1>2, QuietSteps
<1>3. ASSUME \/ MutexTimeout(t) \/ SaveRead(t) \/ SaveWrite(t)
             \/ AcquireForDefault(t) \/ AcquireForSetObject(t)
             \/ ClearWindow(t) \/ CopyPayload(t) \/ CommitLen(t)
             \/ AcquireForSave(t) \/ SaveObject(t)
             \/ AcquireForGet(t) \/ CopyOut(t)
             \/ AcquireForReset(t) \/ ResetPool(t) \/ ResetSlots(t)
      PROVE  ObserverInv'
  <2> USE DEF live, obs
  <2>1. PICK at, j : Moves(t, at, j)
    BY StepMoves
  <2>2. ~Setting(t)
    BY <1>3
       DEF Setting, MutexTimeout, SaveRead, SaveWrite, AcquireForDefault,
           AcquireForSetObject, ClearWindow, CopyPayload, CommitLen,
           AcquireForSave, SaveObject, AcquireForGet, CopyOut,
           AcquireForReset, ResetPool, ResetSlots
  <2>3. UNCHANGED <<heard, quiet, store>>
    BY <1>3
       DEF MutexTimeout, SaveRead, SaveWrite, AcquireForDefault,
           AcquireForSetObject, ClearWindow, CopyPayload, CommitLen,
           AcquireForSave, SaveObject, AcquireForGet, CopyOut,
           AcquireForReset, ResetPool, ResetSlots
  <2>4. \A u \in Threads \ {t} : seen'[u] = seen[u]
    BY <1>3
       DEF MutexTimeout, SaveRead, SaveWrite, AcquireForDefault,
           AcquireForSetObject, ClearWindow, CopyPayload, CommitLen,
           AcquireForSave, SaveObject, AcquireForGet, CopyOut, Done,
           AcquireForReset, ResetPool, ResetSlots, DataInv
  <2>5. at = pc'[t] /\ j = job'[t]
    BY <2>1 DEF Moves, ControlInv
  <2>6. at \notin {"store", "reread", "notify"} \/ j.op \notin {"set", "nsave"}
    <3>1. CASE AcquireForDefault(t)
      BY <3>1, <2>5 DEF AcquireForDefault, Goto
    <3>2. CASE ~AcquireForDefault(t)
      BY <3>2, <2>5, <1>3
         DEF MutexTimeout, SaveRead, SaveWrite, AcquireForSetObject,
             ClearWindow, CopyPayload, CommitLen, AcquireForSave, SaveObject,
             AcquireForGet, CopyOut, Done, Goto, AcquireForReset, ResetPool,
             ResetSlots, ControlInv
    <3> QED BY <3>1, <3>2
  <2> QED BY <2>1, <2>2, <2>3, <2>4, <2>6, SilentStep
<1> QED BY <1>1, <1>2, <1>3 DEF Step

\* Calls begin outside the setter; the fast setters go quiet.
LEMMA CallKeepsObservers ==
  ASSUME ControlInv, DataInv, ObserverInv, NEW t \in Threads, CallSomething(t)
  PROVE  ObserverInv'
<1> USE DEF live, obs
<1>0. Observed \subseteq Scalars /\ BitPars \subseteq Scalars
  BY InputsAssumption
<1>1. CASE SetFast(t) \/ SetBits(t)
  <2>a. PICK p \in Scalars : \E v : StoreCell(p, v) /\ Unheard(p)
    BY <1>0, <1>1 DEF SetFast, SetBits
  <2>1. PICK v : StoreCell(p, v) /\ Unheard(p)
    BY <2>a
  <2>2. \A q \in Observed : ~quiet'[q] => ~quiet[q] /\ LiveScalar(q)' = LiveScalar(q)
    BY <1>0, <2>1, StoreEffect DEF Unheard
  <2>3. UNCHANGED <<heard, pc, job, seen>>
    BY <1>1 DEF SetFast, SetBits
  <2> QED BY <2>2, <2>3, ObserverFrame
<1>2. CASE Refused(t)
  <2>1. UNCHANGED <<heard, quiet, store, pc, job, seen>>
    BY <1>2 DEF Refused, Refuse
  <2> QED BY <2>1, ObserverFrame DEF LiveScalar
<1>3. CASE Accepted(t)
  <2>1. PICK at \in PCs, j \in Jobs :
           pc' = [pc EXCEPT ![t] = at] /\ job' = [job EXCEPT ![t] = j]
           /\ at \notin Holding
    BY <1>3, AcceptedMoves
  <2>2. pc[t] = "idle"
    BY <1>3 DEF Accepted, Ready
  <2>3. UNCHANGED <<heard, quiet, store>> /\ seen' = [seen EXCEPT ![t] = NoSeen]
    BY <1>3 DEF Accepted, Begin
  <2>4. \A u \in Threads : Setting(u) \/ Setting(u)' => u # t
    BY <2>1, <2>2 DEF Setting, Holding, ControlInv
  <2>5. \A u \in Threads : Setting(u) \/ Setting(u)' =>
            pc'[u] = pc[u] /\ job'[u] = job[u] /\ seen'[u] = seen[u]
    BY <2>1, <2>3, <2>4 DEF ControlInv, DataInv
  <2> QED BY <2>3, <2>5, ObserverFrame DEF LiveScalar
<1> QED BY <1>1, <1>2, <1>3, CallCases

\* Every step keeps the observers' invariant.
LEMMA NextKeepsObservers == CoreInv /\ ObserverInv /\ [Next]_vars => ObserverInv'
<1> SUFFICES ASSUME ControlInv, DataInv, ObserverInv, [Next]_vars
             PROVE  ObserverInv'
  BY DEF CoreInv
<1> USE DEF live, obs
<1>1. ASSUME NEW t \in Threads, Step(t) PROVE ObserverInv'
  BY <1>1, StepKeepsObservers
<1>2. ASSUME NEW t \in Threads, CallSomething(t) PROVE ObserverInv'
  BY <1>2, CallKeepsObservers
<1>3. CASE par_init
  BY <1>3 DEF par_init, ObserverInv
<1>4. CASE par_deinit
  BY <1>4, ObserverFrame DEF par_deinit, LiveScalar
<1>5. CASE Reboot
  BY <1>5 DEF Reboot, ObserverInv
<1>6. CASE UNCHANGED vars
  BY <1>6, ObserverFrame DEF vars, LiveScalar
<1> QED BY <1>1, <1>2, <1>3, <1>4, <1>5, <1>6 DEF Next

\* The on-change callback runs under the mutex with a value read back: when no
\* setter is at work the observer knows the live value, for any number of
\* threads and any interleaving with the setters that take no mutex.
THEOREM CoreObservers == Spec => []ObserversUpToDate
<1>1. Init => CoreInv /\ ObserverInv
  BY InitControl, InitData DEF CoreInv, Init, ObserverInv
<1>2. CoreInv /\ ObserverInv /\ [Next]_vars => CoreInv' /\ ObserverInv'
  BY NextKeepsControl, NextKeepsData, NextKeepsObservers DEF CoreInv
<1>3. CoreInv /\ ObserverInv => ObserversUpToDate
  <2> SUFFICES ASSUME CoreInv, ObserverInv, NEW p \in Observed,
                      lock[MutexOf[p]] = Nobody, ~quiet[p]
               PROVE  heard[p] = LiveScalar(p)
    BY DEF ObserversUpToDate
  <2>1. \A t \in Threads : pc[t] \in Holding => job[t].p # p
    BY NobodyAssumption DEF CoreInv, ControlInv, MutexFollowsCalls, mutex
  <2>2. \A t \in Threads : ~At(t, p, "reread") /\ ~At(t, p, "notify")
    BY <2>1 DEF At, Setting, Holding
  <2> QED BY <2>2 DEF ObserverInv, Follows
<1> QED BY <1>1, <1>2, <1>3, PTL DEF Spec

-----------------------------------------------------------------------------
(* What is in NVM: scalars.  A save runs after the mutex is given back, so  *)
(* it may store a value that is no longer live; it is then not alone.       *)

On(t, p, at) == pc[t] = at /\ job[t].p = p
Saving(p) == \E t \in Threads : On(t, p, "saveRead") \/ On(t, p, "saveWrite")

\* The value of a clean scalar is in NVM, but for the set-and-save under way,
\* which knows the value that is, and knows when the two differ.
CleanScalar(p) ==
    /\ \A t \in Threads : At(t, p, "store") => seen[t].old = LiveScalar(p)
    /\ ~Saving(p) =>
          /\ (\A t \in Threads : ~At(t, p, "reread") /\ ~At(t, p, "notify")) =>
                nvm[p] = LiveScalar(p)
          /\ \A t \in Threads : At(t, p, "reread") => nvm[p] = seen[t].old
          /\ \A t \in Threads : At(t, p, "notify") =>
                (~seen[t].changed => nvm[p] = LiveScalar(p))

ScalarSaved(p) ==
    /\ \A t \in Threads :
          (At(t, p, "reread") \/ At(t, p, "notify")) /\ job[t].op = "set"
             => tainted[p]
    /\ \A t \in Threads :
          On(t, p, "saveWrite") /\ alone[t] => seen[t].new = LiveScalar(p)
    /\ Table[p].pers /\ ~tainted[p] => CleanScalar(p)

\* alone[t]: no other call is in the parameter of t's call.
AloneInv ==
    /\ alone \in [Threads -> BOOLEAN]
    /\ \A t, u \in Threads :
          alone[t] /\ pc[t] # "idle" /\ pc[u] # "idle" /\ job[t].p = job[u].p
             => t = u

TaintInv == AloneInv /\ tainted \in [Params -> BOOLEAN]
ScalarInv == \A p \in Scalars : ScalarSaved(p)

\* The places of a call the invariant of p looks at.
Watched(t, p) == /\ job[t].p = p
                 /\ Setting(t) \/ pc[t] \in {"saveRead", "saveWrite"}

\* A step that moves no watched call and writes neither the cell nor NVM.
LEMMA ScalarFrame ==
  ASSUME NEW p \in Scalars, ScalarSaved(p),
         LiveScalar(p)' = LiveScalar(p), nvm'[p] = nvm[p],
         tainted[p] => tainted'[p],
         \A t \in Threads : Watched(t, p) \/ Watched(t, p)' =>
            /\ pc'[t] = pc[t] /\ job'[t] = job[t] /\ seen'[t] = seen[t]
            /\ alone'[t] => alone[t]
  PROVE  ScalarSaved(p)'
<1>1. \A t \in Threads, at \in {"store", "reread", "notify"} :
         /\ At(t, p, at)' <=> At(t, p, at)
         /\ At(t, p, at) => seen'[t] = seen[t] /\ job'[t] = job[t]
  BY DEF At, Setting, Watched
<1>2. \A t \in Threads :
         /\ On(t, p, "saveRead")' <=> On(t, p, "saveRead")
         /\ On(t, p, "saveWrite")' <=> On(t, p, "saveWrite")
         /\ On(t, p, "saveWrite") => seen'[t] = seen[t] /\ (alone'[t] => alone[t])
  BY DEF On, Watched
<1>3. Saving(p)' <=> Saving(p)
  BY <1>2 DEF Saving
<1>4. CleanScalar(p) => CleanScalar(p)'
  BY <1>1, <1>3 DEF CleanScalar
<1> QED BY <1>1, <1>2, <1>4 DEF ScalarSaved

\* A move makes no call alone, and no two calls meet.
LEMMA MoveKeepsAlone ==
  ASSUME ControlInv, AloneInv, NEW t \in Threads, pc[t] # "idle",
         NEW at, NEW j, Moves(t, at, j),
         alone' \in [Threads -> BOOLEAN], \A u \in Threads : alone'[u] => alone[u]
  PROVE  AloneInv'
<1>1. /\ pc'[t] = at /\ (at # "idle" => job'[t].p = job[t].p)
      /\ \A u \in Threads \ {t} : pc'[u] = pc[u] /\ job'[u] = job[u]
  BY DEF Moves, ControlInv
<1> QED BY <1>1 DEF AloneInv

\* A step of a call at a place no scalar's invariant looks at.
LEMMA UnwatchedKeepsScalars ==
  ASSUME ControlInv, ScalarInv, NEW t \in Threads,
         NEW at, NEW j, Moves(t, at, j),
         ~Setting(t), pc[t] \notin {"saveRead", "saveWrite"},
         ~Setting(t)', at \notin {"saveRead", "saveWrite"},
         \A u \in Threads \ {t} : seen'[u] = seen[u],
         \A u \in Threads : alone'[u] => alone[u],
         NEW p \in Scalars,
         LiveScalar(p)' = LiveScalar(p), nvm'[p] = nvm[p],
         tainted[p] => tainted'[p]
  PROVE  ScalarSaved(p)'
<1>1. /\ pc'[t] = at
      /\ \A u \in Threads \ {t} : pc'[u] = pc[u] /\ job'[u] = job[u]
  BY DEF Moves, ControlInv
<1>2. ~Watched(t, p) /\ ~Watched(t, p)'
  BY <1>1 DEF Watched
<1>3. \A u \in Threads : Watched(u, p) \/ Watched(u, p)' =>
            /\ pc'[u] = pc[u] /\ job'[u] = job[u] /\ seen'[u] = seen[u]
            /\ alone'[u] => alone[u]
  BY <1>1, <1>2
<1> QED BY <1>3, ScalarFrame DEF ScalarInv

\* A step of a call for another parameter.
LEMMA OtherKeepsScalar ==
  ASSUME ControlInv, ScalarInv, NEW t \in Threads,
         NEW at, NEW j, Moves(t, at, j),
         \A u \in Threads \ {t} : seen'[u] = seen[u],
         \A u \in Threads : alone'[u] => alone[u],
         NEW p \in Scalars, job[t].p # p,
         LiveScalar(p)' = LiveScalar(p), nvm'[p] = nvm[p],
         tainted[p] => tainted'[p]
  PROVE  ScalarSaved(p)'
<1>1. /\ pc'[t] = at /\ job'[t] = j /\ (at # "idle" => j.p = job[t].p)
      /\ \A u \in Threads \ {t} : pc'[u] = pc[u] /\ job'[u] = job[u]
  BY DEF Moves, ControlInv
<1>2. ~Watched(t, p) /\ ~Watched(t, p)'
  BY <1>1 DEF Watched, Setting
<1>3. \A u \in Threads : Watched(u, p) \/ Watched(u, p)' =>
            /\ pc'[u] = pc[u] /\ job'[u] = job[u] /\ seen'[u] = seen[u]
            /\ alone'[u] => alone[u]
  BY <1>1, <1>2
<1> QED BY <1>3, ScalarFrame DEF ScalarInv

\* A scalar that is written by a call that does not save it is tainted.
LEMMA TaintedScalar ==
  ASSUME NEW p \in Scalars, tainted'[p],
         \A t \in Threads :
            On(t, p, "saveWrite")' /\ alone'[t] => seen'[t].new = LiveScalar(p)'
  PROVE  ScalarSaved(p)'
  BY DEF ScalarSaved, On

\* The setter's steps on its own scalar.
LEMMA SetterKeepsScalar ==
  ASSUME ControlInv, DataInv, TaintInv, ScalarInv, NEW t \in Threads,
         \/ AcquireForSet(t) \/ StoreScalar(t) \/ Reread(t)
         \/ NotifyAndRelease(t),
         NEW p \in Scalars, job[t].p = p
  PROVE  ScalarSaved(p)'
<1> USE DEF live, obs
<1>0. /\ Shape(pc[t], job[t]) /\ job[t] \in Jobs /\ seen[t] \in Seen /\ p \in Params
      /\ ScalarSaved(p)
  BY ParamsFacts DEF ControlInv, DataInv, ScalarInv
<1>a. \A u \in Threads \ {t} : pc[u] # "idle" /\ job[u].p = p /\ pc[t] # "idle"
                                  => ~alone[u]
  BY DEF TaintInv, AloneInv
<1>1. CASE AcquireForSet(t)
  <2>0. /\ nvm' = nvm /\ tainted' = tainted /\ alone' = alone
        /\ LiveScalar(p)' = LiveScalar(p)
    BY <1>1 DEF AcquireForSet, LiveScalar
  <2>1. CASE job[t].arg \in Rejected[job[t].p]
    <3>1. /\ pc[t] = "take" /\ pc'[t] = "idle"
          /\ \A u \in Threads \ {t} : pc'[u] = pc[u] /\ job'[u] = job[u]
                                      /\ seen'[u] = seen[u]
      BY <1>1, <2>1 DEF AcquireForSet, Done, ControlInv, DataInv
    <3>2. \A u \in Threads : Watched(u, p) \/ Watched(u, p)' => u # t
      BY <3>1 DEF Watched, Setting
    <3> QED BY <1>0, <2>0, <3>1, <3>2, ScalarFrame
  <2>2. CASE job[t].arg \notin Rejected[job[t].p]
    <3>1. /\ pc[t] = "take" /\ pc'[t] = "store" /\ job' = job
          /\ seen'[t].old = LiveScalar(p)
          /\ \A u \in Threads \ {t} : pc'[u] = pc[u] /\ seen'[u] = seen[u]
      BY <1>1, <2>2 DEF AcquireForSet, Goto, ControlInv, DataInv, Seen
    <3>2. \A u \in Threads, at \in {"reread", "notify"} :
             /\ At(u, p, at)' <=> At(u, p, at)
             /\ At(u, p, at) => seen'[u] = seen[u]
      BY <3>1 DEF At, Setting
    <3>3. \A u \in Threads \ {t} :
             /\ At(u, p, "store")' => At(u, p, "store")
             /\ seen'[u] = seen[u]
      BY <3>1 DEF At, Setting
    <3>4. \A u \in Threads, at \in {"saveRead", "saveWrite"} :
             /\ On(u, p, at)' <=> On(u, p, at)
             /\ On(u, p, at) => seen'[u] = seen[u]
      BY <3>1 DEF On
    <3>5. Saving(p)' <=> Saving(p)
      BY <3>4 DEF Saving
    <3>6. CleanScalar(p) => CleanScalar(p)'
      BY <2>0, <3>1, <3>2, <3>3, <3>5 DEF CleanScalar
    <3> QED BY <1>0, <2>0, <3>1, <3>2, <3>4, <3>6 DEF ScalarSaved
  <2> QED BY <2>1, <2>2
<1>2. CASE StoreScalar(t)
  <2>1. /\ pc[t] = "store" /\ pc'[t] = "reread" /\ job' = job /\ seen' = seen
        /\ \A u \in Threads \ {t} : pc'[u] = pc[u]
        /\ job[t].op \in {"set", "nsave"} /\ nvm' = nvm /\ alone' = alone
    BY <1>2 DEF StoreScalar, ControlInv
  <2>2. /\ job[t].op = "nsave" => tainted' = tainted
        /\ job[t].op = "set" => tainted'[p]
    BY <1>0, <1>2 DEF StoreScalar, Unsaved, TaintInv
  <2>3. \A u \in Threads \ {t}, at \in {"store", "reread", "notify"} :
           ~At(u, p, at) /\ ~At(u, p, at)'
    <3>1. \A u \in Threads \ {t} : pc[u] \in Holding => job[u].p # p
      BY <2>1, OneHolder DEF Holding
    <3> QED BY <2>1, <3>1 DEF At, Holding
  <2>4. At(t, p, "store") /\ ~At(t, p, "store")' /\ ~At(t, p, "notify")'
        /\ ~At(t, p, "reread") /\ ~At(t, p, "notify") /\ At(t, p, "reread")'
    BY <2>1 DEF At, Setting
  <2>5. \A u \in Threads : On(u, p, "saveWrite")' => ~alone'[u]
    BY <1>a, <2>1 DEF On
  <2>6. Saving(p)' <=> Saving(p)
    BY <2>1 DEF Saving, On
  <2>7. CleanScalar(p) => CleanScalar(p)'
    BY <2>1, <2>3, <2>4, <2>6 DEF CleanScalar
  <2> QED BY <1>0, <2>1, <2>2, <2>3, <2>4, <2>5, <2>7 DEF ScalarSaved
<1>3. CASE Reread(t)
  <2> DEFINE new == LiveScalar(p)
  <2>1. /\ pc[t] = "reread" /\ pc'[t] = "notify" /\ job' = job
        /\ \A u \in Threads \ {t} : pc'[u] = pc[u] /\ seen'[u] = seen[u]
        /\ nvm' = nvm /\ alone' = alone /\ tainted' = tainted
        /\ LiveScalar(p)' = LiveScalar(p)
    BY <1>3 DEF Reread, Goto, ControlInv, DataInv, LiveScalar
  <2>2. seen'[t].new = new /\ seen'[t].changed = (new # seen[t].old)
    BY <1>3 DEF Reread, DataInv, Seen
  <2>3. \A u \in Threads \ {t}, at \in {"store", "reread", "notify"} :
           ~At(u, p, at) /\ ~At(u, p, at)'
    <3>1. \A u \in Threads \ {t} : pc[u] \in Holding => job[u].p # p
      BY <2>1, OneHolder DEF Holding
    <3> QED BY <2>1, <3>1 DEF At, Holding
  <2>4. At(t, p, "reread") /\ At(t, p, "notify")'
        /\ ~At(t, p, "store")' /\ ~At(t, p, "reread")'
    BY <2>1, <1>0 DEF At, Setting, Shape
  <2>5. \A u \in Threads, at \in {"saveRead", "saveWrite"} :
             /\ On(u, p, at)' <=> On(u, p, at)
             /\ On(u, p, at) => seen'[u] = seen[u]
    BY <2>1 DEF On
  <2>6. Saving(p)' <=> Saving(p)
    BY <2>5 DEF Saving
  <2>7. CleanScalar(p) => CleanScalar(p)'
    BY <2>1, <2>2, <2>3, <2>4, <2>6 DEF CleanScalar
  <2> QED BY <1>0, <2>1, <2>3, <2>4, <2>5, <2>7 DEF ScalarSaved
<1>4. CASE NotifyAndRelease(t)
  <2>1. /\ pc[t] = "notify" /\ pc'[t] \in {"saveRead", "idle"}
        /\ pc'[t] = "saveRead" => job'[t] = job[t]
        /\ pc'[t] = "idle" => (job[t].op = "set" \/ ~seen[t].changed)
        /\ \A u \in Threads \ {t} : pc'[u] = pc[u] /\ seen'[u] = seen[u]
                                    /\ job'[u] = job[u]
        /\ nvm' = nvm /\ alone' = alone /\ tainted' = tainted
        /\ LiveScalar(p)' = LiveScalar(p)
    BY <1>0, <1>4 DEF NotifyAndRelease, Goto, Done, ControlInv, DataInv, LiveScalar,
                      Shape
  <2>2. \A u \in Threads \ {t}, at \in {"store", "reread", "notify"} :
           ~At(u, p, at) /\ ~At(u, p, at)'
    <3>1. \A u \in Threads \ {t} : pc[u] \in Holding => job[u].p # p
      BY <2>1, OneHolder DEF Holding
    <3> QED BY <2>1, <3>1 DEF At, Setting, Holding
  <2>3. At(t, p, "notify") /\ \A at \in {"store", "reread", "notify"} : ~At(t, p, at)'
    BY <2>1, <1>0 DEF At, Setting, Shape
  <2>4. \A u \in Threads \ {t}, at \in {"saveRead", "saveWrite"} :
             (On(u, p, at)' <=> On(u, p, at)) /\ seen'[u] = seen[u]
    BY <2>1 DEF On
  <2>5. ~On(t, p, "saveWrite")'
    BY <2>1 DEF On
  <2>6. CASE pc'[t] = "saveRead"
    <3>1. Saving(p)'
      BY <2>1, <2>6 DEF Saving, On
    <3> QED BY <1>0, <2>1, <2>2, <2>3, <2>4, <2>5, <3>1 DEF ScalarSaved, CleanScalar
  <2>7. CASE pc'[t] = "idle"
    <3>1. Saving(p)' <=> Saving(p)
      BY <2>1, <2>4, <2>7 DEF Saving, On
    <3>2. ASSUME CleanScalar(p), ~tainted[p]
          PROVE  CleanScalar(p)'
      <4>1. ~seen[t].changed
        BY <1>0, <2>1, <2>3, <2>7, <3>2 DEF ScalarSaved
      <4> QED BY <4>1, <2>1, <2>2, <2>3, <3>1, <3>2 DEF CleanScalar
    <3> QED BY <1>0, <2>1, <2>2, <2>3, <2>4, <2>5, <3>2 DEF ScalarSaved
  <2> QED BY <2>1, <2>6, <2>7
<1> QED BY <1>1, <1>2, <1>3, <1>4

\* The steps of a save of a scalar, on that scalar.
LEMMA SaverKeepsScalar ==
  ASSUME ControlInv, DataInv, TaintInv, ScalarInv, NEW t \in Threads,
         SaveRead(t) \/ SaveWrite(t), NEW p \in Scalars, job[t].p = p
  PROVE  ScalarSaved(p)'
<1> USE DEF live, obs
<1>0. /\ Shape(pc[t], job[t]) /\ job[t] \in Jobs /\ seen[t] \in Seen /\ p \in Params
      /\ ScalarSaved(p)
  BY ParamsFacts DEF ControlInv, DataInv, ScalarInv
<1>1. CASE SaveRead(t)
  <2>1. /\ pc[t] = "saveRead"
        /\ \A u \in Threads \ {t} : pc'[u] = pc[u] /\ seen'[u] = seen[u]
                                    /\ job'[u] = job[u]
        /\ nvm' = nvm /\ alone' = alone /\ tainted' = tainted
        /\ LiveScalar(p)' = LiveScalar(p)
    BY <1>1 DEF SaveRead, Goto, Done, ControlInv, DataInv, LiveScalar
  <2>2. \A u \in Threads, at \in {"store", "reread", "notify"} :
             /\ At(u, p, at)' <=> At(u, p, at)
             /\ At(u, p, at) => seen'[u] = seen[u] /\ job'[u] = job[u]
    <3>1. pc'[t] \in {"saveWrite", "idle"}
      BY <1>1 DEF SaveRead, Goto, Done, ControlInv
    <3> QED BY <2>1, <3>1 DEF At, Setting
  <2>3. CASE Table[p].pers
    <3>1. pc'[t] = "saveWrite" /\ job'[t] = job[t] /\ seen'[t].new = LiveScalar(p)
      BY <1>1, <2>3 DEF SaveRead, Goto, ControlInv, DataInv, Seen
    <3>2. Saving(p)' /\ Saving(p)
      BY <2>1, <3>1 DEF Saving, On
    <3>3. \A u \in Threads : On(u, p, "saveWrite")' /\ alone'[u]
             => seen'[u].new = LiveScalar(p)'
      BY <1>0, <2>1, <3>1 DEF ScalarSaved, On
    <3> QED BY <1>0, <2>1, <2>2, <3>2, <3>3 DEF ScalarSaved, CleanScalar
  <2>4. CASE ~Table[p].pers
    <3>1. pc'[t] = "idle"
      BY <1>1, <2>4 DEF SaveRead, Done, ControlInv
    <3>2. \A u \in Threads : On(u, p, "saveWrite")' /\ alone'[u]
             => seen'[u].new = LiveScalar(p)'
      BY <1>0, <2>1, <3>1 DEF ScalarSaved, On
    <3> QED BY <1>0, <2>1, <2>2, <2>4, <3>2 DEF ScalarSaved
  <2> QED BY <2>3, <2>4
<1>2. CASE SaveWrite(t)
  <2>1. /\ pc[t] = "saveWrite" /\ pc'[t] = "idle"
        /\ \A u \in Threads \ {t} : pc'[u] = pc[u] /\ seen'[u] = seen[u]
                                    /\ job'[u] = job[u]
        /\ alone' = alone /\ LiveScalar(p)' = LiveScalar(p)
    BY <1>2 DEF SaveWrite, Done, ControlInv, DataInv, LiveScalar
  <2>2. \A u \in Threads : On(u, p, "saveWrite")' /\ alone'[u]
             => seen'[u].new = LiveScalar(p)'
    BY <1>0, <2>1 DEF ScalarSaved, On
  <2>3. CASE tainted'[p]
    BY <2>2, <2>3, TaintedScalar
  <2>4. CASE ~tainted'[p]
    <3>1. nvm'[p] = seen[t].new /\ alone[t]
      BY <1>0, <1>2, <2>4 DEF SaveWrite, Unsaved, TaintInv, DataInv, Nvms
    <3>2. nvm'[p] = LiveScalar(p)'
      BY <1>0, <2>1, <3>1 DEF ScalarSaved, On
    <3>3. \A u \in Threads : pc'[u] # "idle" => job'[u].p # p
      BY <2>1, <3>1 DEF TaintInv, AloneInv
    <3>4. \A u \in Threads, at \in {"store", "reread", "notify"} : ~At(u, p, at)'
      BY <3>3 DEF At, Setting
    <3> QED BY <2>2, <3>2, <3>4 DEF ScalarSaved, CleanScalar
  <2> QED BY <2>3, <2>4
<1> QED BY <1>1, <1>2

\* What the steps of a call do to the observations: no call becomes alone.
LEMMA StepTaints ==
  ASSUME ControlInv, TaintInv, NEW t \in Threads, Step(t)
  PROVE  /\ alone' \in [Threads -> BOOLEAN]
         /\ \A u \in Threads : alone'[u] => alone[u]
         /\ tainted' \in [Params -> BOOLEAN]
         /\ \A p \in Params : job[t].p # p /\ tainted[p] => tainted'[p]
<1> USE DEF live, obs
<1>0. /\ job[t].p \in Params /\ \A p : Unsaved(p) => tainted' = [tainted EXCEPT ![p] = TRUE]
      /\ alone \in [Threads -> BOOLEAN] /\ tainted \in [Params -> BOOLEAN]
  BY DEF ControlInv, Jobs, Unsaved, TaintInv, AloneInv
<1>1. CASE SaveWrite(t)
  <2>1. \/ tainted' = [tainted EXCEPT ![job[t].p] = ~alone[t]]
        \/ tainted' = [tainted EXCEPT ![job[t].p] = TRUE]
    <3>1. \/ tainted' = [tainted EXCEPT ![job[t].p] = ~alone[t]]
          \/ Unsaved(job[t].p)
      BY <1>1, Zenon DEF SaveWrite
    <3> QED BY <1>0, <3>1
  <2>2. alone' = alone
    BY <1>1 DEF SaveWrite
  <2>3. (~alone[t]) \in BOOLEAN
    OBVIOUS
  <2> QED BY <1>0, <2>1, <2>2, <2>3
<1>2. CASE SaveObject(t)
  <2>1. \/ tainted' = [tainted EXCEPT ![job[t].p] = FALSE]
        \/ tainted' = [tainted EXCEPT ![job[t].p] = TRUE]
    BY <1>0, <1>2 DEF SaveObject
  <2>2. alone' = alone
    BY <1>2 DEF SaveObject
  <2> QED BY <1>0, <2>1, <2>2
<1>3. CASE StoreScalar(t) \/ StoreDefault(t) \/ CommitLen(t)
  <2>1. \/ tainted' = tainted
        \/ tainted' = [tainted EXCEPT ![job[t].p] = TRUE]
    BY <1>0, <1>3 DEF StoreScalar, StoreDefault, CommitLen
  <2>2. alone' = alone
    BY <1>3 DEF StoreScalar, StoreDefault, CommitLen
  <2> QED BY <1>0, <2>1, <2>2
<1>4. CASE ResetCell(t)
  <2>1. PICK p \in job[t].arg : Unsaved(p) /\ Disturb(p)
    BY <1>4 DEF ResetCell
  <2>2. tainted' = [tainted EXCEPT ![p] = TRUE]
    BY <1>0, <2>1
  <2>3. alone' = [u \in Threads |-> alone[u] /\ ~(pc[u] # "idle" /\ job[u].p = p)]
    BY <2>1 DEF Disturb
  <2>4. \A u \in Threads : (alone[u] /\ ~(pc[u] # "idle" /\ job[u].p = p)) \in BOOLEAN
    OBVIOUS
  <2> QED BY <1>0, <2>2, <2>3, <2>4
<1>5. CASE ResetPool(t)
  <2>1. tainted' = [p \in Params |-> p \in Objects \/ tainted[p]] /\ alone' = alone
    BY <1>5 DEF ResetPool
  <2> QED BY <1>0, <2>1
<1>6. ASSUME \/ MutexTimeout(t) \/ AcquireForSet(t) \/ Reread(t)
             \/ NotifyAndRelease(t) \/ SaveRead(t) \/ AcquireForDefault(t)
             \/ AcquireForSetObject(t) \/ ClearWindow(t) \/ CopyPayload(t)
             \/ AcquireForSave(t) \/ AcquireForGet(t) \/ CopyOut(t)
             \/ AcquireForReset(t) \/ ResetSlots(t)
      PROVE  UNCHANGED <<alone, tainted>>
  BY <1>6
     DEF MutexTimeout, AcquireForSet, Reread, NotifyAndRelease, SaveRead,
         AcquireForDefault, AcquireForSetObject, ClearWindow, CopyPayload,
         AcquireForSave, AcquireForGet, CopyOut, AcquireForReset, ResetSlots
<1> QED BY <1>0, <1>1, <1>2, <1>3, <1>4, <1>5, <1>6 DEF Step

\* The steps of a call keep the observations' invariant.
LEMMA StepKeepsTaint ==
  ASSUME ControlInv, TaintInv, NEW t \in Threads, Step(t)
  PROVE  TaintInv'
<1>1. PICK at, j : Moves(t, at, j)
  BY StepMoves
<1>2. pc[t] # "idle"
  BY StepMoves
<1>3. AloneInv'
  BY <1>1, <1>2, StepTaints, MoveKeepsAlone DEF TaintInv
<1> QED BY <1>3, StepTaints DEF TaintInv

\* What a step of a call leaves alone: the other threads' places, and the
\* cell and the NVM of scalars the call is not for.
LEMMA StepElsewhere ==
  ASSUME ControlInv, DataInv, NEW t \in Threads, Step(t), ~ResetCell(t)
  PROVE  /\ \A u \in Threads \ {t} : seen'[u] = seen[u]
         /\ \A p \in Scalars : job[t].p # p =>
               LiveScalar(p)' = LiveScalar(p) /\ nvm'[p] = nvm[p]
<1> USE DEF live, obs
<1>0. Shape(pc[t], job[t]) /\ job[t].p \in Params
  BY DEF ControlInv, Jobs
<1>1. CASE StoreScalar(t) \/ StoreDefault(t)
  <2>1. job[t].p \in Scalars
    BY <1>0, <1>1 DEF StoreScalar, StoreDefault, Shape
  <2>2. \A p \in Scalars : job[t].p # p => LiveScalar(p)' = LiveScalar(p)
    BY <1>1, <2>1, StoreEffect DEF StoreScalar, StoreDefault
  <2>3. nvm' = nvm /\ \A u \in Threads \ {t} : seen'[u] = seen[u]
    BY <1>1 DEF StoreScalar, StoreDefault, Done, DataInv
  <2> QED BY <2>2, <2>3
<1>2. CASE SaveWrite(t) \/ SaveObject(t)
  <2>1. \A p \in Params : job[t].p # p => nvm'[p] = nvm[p]
    BY <1>0, <1>2 DEF SaveWrite, SaveObject, DataInv, Nvms
  <2>2. store' = store /\ \A u \in Threads \ {t} : seen'[u] = seen[u]
    BY <1>2 DEF SaveWrite, SaveObject, Done, DataInv
  <2> QED BY <2>1, <2>2, ParamsFacts DEF LiveScalar
<1>3. ASSUME \/ MutexTimeout(t) \/ AcquireForSet(t) \/ Reread(t)
             \/ NotifyAndRelease(t) \/ SaveRead(t) \/ AcquireForDefault(t)
             \/ AcquireForSetObject(t) \/ ClearWindow(t) \/ CopyPayload(t)
             \/ CommitLen(t) \/ AcquireForSave(t) \/ AcquireForGet(t)
             \/ CopyOut(t) \/ AcquireForReset(t) \/ ResetPool(t) \/ ResetSlots(t)
      PROVE  UNCHANGED <<store, nvm>> /\ \A u \in Threads \ {t} : seen'[u] = seen[u]
  BY <1>3
     DEF MutexTimeout, AcquireForSet, Reread, NotifyAndRelease, SaveRead,
         AcquireForDefault, AcquireForSetObject, ClearWindow, CopyPayload,
         CommitLen, AcquireForSave, AcquireForGet, CopyOut, AcquireForReset,
         ResetPool, ResetSlots, Done, DataInv
<1> QED BY <1>1, <1>2, <1>3 DEF Step, LiveScalar

\* The raw reset of one scalar.
LEMMA ResetCellKeepsScalars ==
  ASSUME ControlInv, DataInv, TaintInv, ScalarInv, NEW t \in Threads,
         ResetCell(t), NEW p \in Scalars
  PROVE  ScalarSaved(p)'
<1>0. Shape(pc[t], job[t]) /\ Step(t)
  BY DEF ControlInv, Step
<1>1. PICK q \in Scalars : /\ StoreCell(q, mirror.store[Cell[q]])
                           /\ Unsaved(q) /\ Disturb(q)
  BY <1>0 DEF ResetCell, Shape
<1>2. PICK at, j : Moves(t, at, j)
  BY <1>0, StepMoves
<1>3. pc'[t] \in {"cells", "pool"} /\ pc[t] = "cells" /\ pc'[t] = at
  BY <1>2 DEF ResetCell, ControlInv, Moves
<1>4. seen' = seen /\ nvm' = nvm
  BY DEF ResetCell
<1>5. CASE p = q
  <2>1. tainted'[p]
    BY <1>1, <1>5, ParamsFacts DEF Unsaved, TaintInv
  <2>2. \A u \in Threads : pc[u] # "idle" /\ job[u].p = p => ~alone'[u]
    BY <1>1, <1>5 DEF Disturb
  <2>3. \A u \in Threads \ {t} : pc'[u] = pc[u] /\ job'[u] = job[u]
    BY <1>2 DEF Moves, ControlInv
  <2>4. \A u \in Threads : On(u, p, "saveWrite")' => ~alone'[u]
    BY <1>3, <2>2, <2>3 DEF On
  <2> QED BY <2>1, <2>4, TaintedScalar
<1>6. CASE p # q
  <2>1. LiveScalar(p)' = LiveScalar(p)
    BY <1>1, <1>6, StoreEffect
  <2>2. tainted[p] => tainted'[p]
    BY <1>1, <1>6, ParamsFacts DEF Unsaved, TaintInv
  <2> QED BY <1>0, <1>2, <1>3, <1>4, <2>1, <2>2, StepTaints, UnwatchedKeepsScalars
          DEF Setting
<1> QED BY <1>5, <1>6

\* Every step of a call.
LEMMA StepKeepsScalars ==
  ASSUME ControlInv, DataInv, TaintInv, ScalarInv, NEW t \in Threads, Step(t)
  PROVE  ScalarInv'
<1> SUFFICES ASSUME NEW p \in Scalars PROVE ScalarSaved(p)'
  BY DEF ScalarInv
<1> USE DEF live, obs
<1>0. /\ Shape(pc[t], job[t]) /\ p \in Params
  BY ParamsFacts DEF ControlInv
<1>1. CASE ResetCell(t)
  BY <1>1, ResetCellKeepsScalars
<1>2. CASE ~ResetCell(t) /\ job[t].p # p
  <2>1. PICK at, j : Moves(t, at, j)
    BY StepMoves
  <2> QED BY <1>0, <1>2, <2>1, StepElsewhere, StepTaints, OtherKeepsScalar
<1>3. CASE job[t].p = p
  <2>1. CASE AcquireForSet(t) \/ StoreScalar(t) \/ Reread(t) \/ NotifyAndRelease(t)
    BY <1>3, <2>1, SetterKeepsScalar
  <2>2. CASE SaveRead(t) \/ SaveWrite(t)
    BY <1>3, <2>2, SaverKeepsScalar
  <2>3. CASE StoreDefault(t)
    <3>1. tainted'[p]
      BY <1>0, <1>3, <2>3 DEF StoreDefault, Unsaved, TaintInv
    <3>2. /\ pc[t] = "store" /\ pc'[t] = "idle" /\ alone' = alone
          /\ \A u \in Threads \ {t} : pc'[u] = pc[u] /\ job'[u] = job[u]
      BY <2>3 DEF StoreDefault, Done, ControlInv
    <3>3. \A u \in Threads : On(u, p, "saveWrite")' => ~alone'[u]
      BY <1>3, <3>2 DEF On, TaintInv, AloneInv
    <3> QED BY <3>1, <3>3, TaintedScalar
  <2>4. ASSUME \/ MutexTimeout(t) \/ AcquireForDefault(t)
               \/ AcquireForReset(t) \/ ResetPool(t) \/ ResetSlots(t)
        PROVE  ScalarSaved(p)'
    <3>1. PICK at, j : Moves(t, at, j)
      BY StepMoves
    <3>2. at = pc'[t]
      BY <3>1 DEF Moves, ControlInv
    <3>3. ~Setting(t) /\ pc[t] \notin {"saveRead", "saveWrite"}
      BY <2>4 DEF Setting, MutexTimeout, AcquireForDefault, AcquireForReset,
                  ResetPool, ResetSlots
    <3>4. ~Setting(t)' /\ pc'[t] \notin {"saveRead", "saveWrite"}
      BY <2>4 DEF Setting, MutexTimeout, AcquireForDefault, AcquireForReset,
                  ResetPool, ResetSlots, Done, Goto, ControlInv
    <3>5. UNCHANGED <<store, nvm, alone>> /\ (tainted[p] => tainted'[p])
          /\ \A u \in Threads \ {t} : seen'[u] = seen[u]
      BY <1>0, <2>4
         DEF MutexTimeout, AcquireForDefault, AcquireForReset, ResetPool,
             ResetSlots, Done, DataInv
    <3> QED BY <3>1, <3>2, <3>3, <3>4, <3>5, UnwatchedKeepsScalars DEF LiveScalar
  <2>5. ASSUME \/ AcquireForSetObject(t) \/ ClearWindow(t) \/ CopyPayload(t)
               \/ CommitLen(t) \/ AcquireForSave(t) \/ SaveObject(t)
               \/ AcquireForGet(t) \/ CopyOut(t)
        PROVE  FALSE
    BY <1>0, <1>3, <2>5
       DEF AcquireForSetObject, ClearWindow, CopyPayload, CommitLen,
           AcquireForSave, SaveObject, AcquireForGet, CopyOut, Shape, Scalars
  <2> QED BY <1>1, <2>1, <2>2, <2>3, <2>4, <2>5 DEF Step
<1> QED BY <1>1, <1>2, <1>3

\* A call that begins: it is alone when no other call is in its parameter, and
\* the calls it meets are alone no more.
LEMMA AcceptedKeepsTaint ==
  ASSUME ControlInv, TaintInv, NEW t \in Threads, Accepted(t)
  PROVE  /\ TaintInv' /\ tainted' = tainted
         /\ \A u \in Threads \ {t} : alone'[u] => alone[u]
<1>1. PICK op \in Ops \ {"none"}, p \in Params, at \in PCs, arg \in Args :
         /\ Begin(t, op, p, arg, at) /\ Ready(t) /\ tainted' = tainted
  BY DEF Accepted
<1> DEFINE meets(u) == {v \in Threads \ {u} : pc'[v] # "idle" /\ job'[v].p = p}
           rest(u) == IF u = t THEN meets(u) = {}
                      ELSE alone[u] /\ (pc[u] # "idle" => job[u].p # p)
<1>2. alone' = [u \in Threads |-> rest(u)]
  BY <1>1 DEF Begin
<1>3. \A u \in Threads : rest(u) \in BOOLEAN
  BY DEF TaintInv, AloneInv
<1>4. /\ pc[t] = "idle" /\ job'[t].p = p
      /\ \A u \in Threads \ {t} : pc'[u] = pc[u] /\ job'[u] = job[u]
  BY <1>1 DEF Begin, Ready, ControlInv
<1>5. /\ alone'[t] => \A v \in Threads \ {t} : pc'[v] = "idle" \/ job'[v].p # p
      /\ \A u \in Threads \ {t} :
            alone'[u] => alone[u] /\ (pc[u] # "idle" => job[u].p # p)
  BY <1>2
<1>6. alone' \in [Threads -> BOOLEAN]
  BY <1>2, <1>3
<1> HIDE DEF meets, rest
<1>7. AloneInv'
  BY <1>4, <1>5, <1>6 DEF TaintInv, AloneInv
<1> QED BY <1>1, <1>5, <1>7 DEF TaintInv

\* Calls that begin, that are refused, and the fast setters.
LEMMA CallKeepsScalars ==
  ASSUME ControlInv, DataInv, TaintInv, ScalarInv, NEW t \in Threads,
         CallSomething(t)
  PROVE  TaintInv' /\ ScalarInv'
<1> USE DEF live, obs
<1>0. Scalars \subseteq Params /\ BitPars \subseteq Scalars
  BY InputsAssumption, ParamsFacts
<1>1. CASE SetFast(t) \/ SetBits(t)
  <2>a. PICK q \in Scalars : \E v : StoreCell(q, v) /\ Unsaved(q) /\ Disturb(q)
    BY <1>0, <1>1 DEF SetFast, SetBits
  <2>1. PICK v : StoreCell(q, v) /\ Unsaved(q) /\ Disturb(q)
    BY <2>a
  <2>2. UNCHANGED <<nvm, pc, job, seen>>
    BY <1>1 DEF SetFast, SetBits
  <2>3. tainted' = [tainted EXCEPT ![q] = TRUE]
        /\ alone' = [u \in Threads |-> alone[u] /\ ~(pc[u] # "idle" /\ job[u].p = q)]
    BY <2>1 DEF Unsaved, Disturb
  <2>4. \A u \in Threads : (alone[u] /\ ~(pc[u] # "idle" /\ job[u].p = q)) \in BOOLEAN
    OBVIOUS
  <2>5. TaintInv'
    BY <1>0, <2>2, <2>3, <2>4 DEF TaintInv, AloneInv
  <2>6. ASSUME NEW p \in Scalars PROVE ScalarSaved(p)'
    <3>1. CASE p = q
      <4>1. tainted'[p] /\ \A u \in Threads : On(u, p, "saveWrite")' => ~alone'[u]
        BY <1>0, <2>2, <2>3, <3>1 DEF On, TaintInv
      <4> QED BY <4>1, TaintedScalar
    <3>2. CASE p # q
      <4>1. LiveScalar(p)' = LiveScalar(p)
        BY <2>1, <3>2, StoreEffect
      <4>2. (tainted[p] => tainted'[p]) /\ \A u \in Threads : alone'[u] => alone[u]
        BY <1>0, <2>3 DEF TaintInv
      <4> QED BY <2>2, <4>1, <4>2, ScalarFrame DEF ScalarInv
    <3> QED BY <3>1, <3>2
  <2> QED BY <2>5, <2>6 DEF ScalarInv
<1>2. CASE Refused(t)
  <2>1. UNCHANGED <<store, nvm, pc, job, seen, alone, tainted>>
    BY <1>2 DEF Refused, Refuse
  <2> QED BY <2>1, ScalarFrame DEF LiveScalar, TaintInv, AloneInv, ScalarInv
<1>3. CASE Accepted(t)
  <2>1. PICK at \in PCs, j \in Jobs :
           pc' = [pc EXCEPT ![t] = at] /\ job' = [job EXCEPT ![t] = j]
           /\ at \notin Holding
    BY <1>3, AcceptedMoves
  <2>2. pc[t] = "idle" /\ at \in {"take", "saveRead"}
    <3>1. pc'[t] = at
      BY <2>1 DEF ControlInv
    <3>2. pc'[t] \in {"take", "saveRead"}
      BY <1>3 DEF Accepted, Begin, Fits, ControlInv
    <3> QED BY <1>3, <3>1, <3>2 DEF Accepted, Ready
  <2>3. UNCHANGED <<nvm, store, tainted>> /\ seen' = [seen EXCEPT ![t] = NoSeen]
    BY <1>3 DEF Accepted, Begin
  <2>4. \A u \in Threads \ {t} : pc'[u] = pc[u] /\ job'[u] = job[u] /\ seen'[u] = seen[u]
    BY <2>1, <2>3 DEF ControlInv, DataInv
  <2>5. pc'[t] = at
    BY <2>1 DEF ControlInv
  <2>6. ASSUME NEW p \in Scalars PROVE ScalarSaved(p)'
    <3>1. \A u \in Threads, x \in {"store", "reread", "notify"} :
             /\ At(u, p, x)' <=> At(u, p, x)
             /\ At(u, p, x) => seen'[u] = seen[u] /\ job'[u] = job[u]
      BY <2>2, <2>4, <2>5 DEF At, Setting
    <3>2. \A u \in Threads :
             /\ On(u, p, "saveWrite")' <=> On(u, p, "saveWrite")
             /\ On(u, p, "saveWrite") => seen'[u] = seen[u] /\ u # t
             /\ On(u, p, "saveRead") => On(u, p, "saveRead")'
      BY <2>2, <2>4, <2>5 DEF On
    <3>3. Saving(p) => Saving(p)'
      BY <3>2 DEF Saving
    <3>4. LiveScalar(p)' = LiveScalar(p)
      BY <2>3 DEF LiveScalar
    <3>5. CleanScalar(p) => CleanScalar(p)'
      BY <2>3, <3>1, <3>3, <3>4 DEF CleanScalar
    <3>6. \A u \in Threads : On(u, p, "saveWrite")' /\ alone'[u] => alone[u]
      BY <1>3, <3>2, AcceptedKeepsTaint
    <3> QED BY <2>3, <3>1, <3>2, <3>4, <3>5, <3>6 DEF ScalarSaved, ScalarInv
  <2> QED BY <1>3, <2>6, AcceptedKeepsTaint DEF ScalarInv
<1> QED BY <1>1, <1>2, <1>3, CallCases

\* par_init restores a scalar and tells a value it had to limit.
LEMMA InitRestoresScalar ==
  ASSUME DataInv, par_init, NEW p \in Scalars, ~tainted'[p]
  PROVE  nvm'[p] = LiveScalar(p)'
<1>1. PICK from \in {"nvm", "table", "nothing"} :
          LET restored(q) == Table[q].pers /\ from # "nothing"
              value(q) == IF from = "nvm" THEN nvm[q] ELSE Default[q]
          IN  /\ store' = [c \in Cells |->
                    LET q == CHOOSE x \in Scalars : Cell[x] = c
                    IN  IF restored(q) THEN Clamped(q, value(q))
                        ELSE PatchedStore[c]]
              /\ nvm' = IF from = "table"
                        THEN [q \in Params |-> IF Table[q].pers THEN Default[q]
                                               ELSE nvm[q]]
                        ELSE nvm
              /\ tainted' = [q \in Params |->
                    \/ ~restored(q)
                    \/ q \in Scalars /\ Clamped(q, value(q)) # value(q)]
  BY DEF par_init
<1> DEFINE restored(q) == Table[q].pers /\ from # "nothing"
           value(q) == IF from = "nvm" THEN nvm[q] ELSE Default[q]
<1>2. p \in Params /\ Cell[p] \in Cells
  BY ParamsFacts, ScalarFacts
<1>3. (CHOOSE x \in Scalars : Cell[x] = Cell[p]) = p
  BY <1>2, CellOwner, LayoutGivesCells DEF CellsApart
<1>4. restored(p) /\ Clamped(p, value(p)) = value(p)
  BY <1>1, <1>2
<1>5. store'[Cell[p]] = value(p)
  BY <1>1, <1>2, <1>3, <1>4
<1>6. nvm'[p] = value(p)
  BY <1>1, <1>2, <1>4
<1> QED BY <1>5, <1>6 DEF LiveScalar

\* With every call finished, a scalar is as it should be when it is tainted or
\* its value is in NVM.
LEMMA RestScalars ==
  ASSUME \A t \in Threads : pc'[t] = "idle",
         \A p \in Scalars : ~tainted'[p] => nvm'[p] = LiveScalar(p)'
  PROVE  ScalarInv'
<1>1. \A p \in Scalars, t \in Threads :
         /\ ~On(t, p, "saveWrite")'
         /\ \A at \in {"store", "reread", "notify"} : ~At(t, p, at)'
  BY DEF On, At, Setting
<1> QED BY <1>1 DEF ScalarInv, ScalarSaved, CleanScalar

SavedInv == CoreInv /\ TaintInv /\ ScalarInv

\* At the start no scalar differs from what is saved.
LEMMA InitSaved == Init => SavedInv
<1> SUFFICES ASSUME Init PROVE SavedInv
  OBVIOUS
<1>1. CoreInv
  BY InitControl, InitData DEF CoreInv
<1>2. TaintInv
  BY DEF Init, TaintInv, AloneInv
<1>3. \A p \in Scalars : ScalarSaved(p)
  BY ParamsFacts DEF Init, ScalarSaved, On, At, Setting
<1> QED BY <1>1, <1>2, <1>3 DEF SavedInv, ScalarInv

\* Every step keeps the scalars' invariant.
LEMMA NextKeepsSaved == SavedInv /\ [Next]_vars => SavedInv'
<1> SUFFICES ASSUME CoreInv, ControlInv, DataInv, TaintInv, ScalarInv, [Next]_vars
             PROVE  SavedInv'
  BY DEF SavedInv, CoreInv
<1> USE DEF live, obs
<1>0. CoreInv'
  BY NextKeepsControl, NextKeepsData DEF CoreInv
<1>1. ASSUME NEW t \in Threads, Step(t) PROVE TaintInv' /\ ScalarInv'
  BY <1>1, StepKeepsTaint, StepKeepsScalars
<1>2. ASSUME NEW t \in Threads, CallSomething(t) PROVE TaintInv' /\ ScalarInv'
  BY <1>2, CallKeepsScalars
<1>3. CASE par_init
  <2>1. tainted' \in [Params -> BOOLEAN]
    <3>1. PICK from \in {"nvm", "table", "nothing"} :
            tainted' = [p \in Params |->
               \/ ~(Table[p].pers /\ from # "nothing")
               \/ p \in Scalars
                  /\ Clamped(p, IF from = "nvm" THEN nvm[p] ELSE Default[p])
                     # (IF from = "nvm" THEN nvm[p] ELSE Default[p])]
      BY <1>3 DEF par_init
    <3> QED BY <3>1
  <2>2. UNCHANGED <<alone, pc, job>> /\ \A t \in Threads : pc'[t] = "idle"
    BY <1>3 DEF par_init, Quiescent
  <2>3. TaintInv'
    BY <2>1, <2>2 DEF TaintInv, AloneInv
  <2>4. \A p \in Scalars : ~tainted'[p] => nvm'[p] = LiveScalar(p)'
    BY <1>3, InitRestoresScalar
  <2>5. ScalarInv'
    BY <2>2, <2>4, RestScalars
  <2> QED BY <1>0, <2>3, <2>5 DEF SavedInv
<1>4. CASE par_deinit
  <2>1. UNCHANGED <<store, nvm, pc, job, seen, alone, tainted>>
    BY <1>4 DEF par_deinit
  <2>2. TaintInv'
    BY <2>1 DEF TaintInv, AloneInv
  <2>3. ScalarInv'
    BY <2>1, ScalarFrame DEF LiveScalar, ScalarInv
  <2> QED BY <1>0, <2>2, <2>3 DEF SavedInv
<1>5. CASE Reboot
  <2>1. TaintInv'
    BY <1>5 DEF Reboot, TaintInv, AloneInv
  <2>2. /\ \A t \in Threads : pc'[t] = "idle"
        /\ \A p \in Scalars : tainted'[p]
    BY <1>5, ParamsFacts DEF Reboot
  <2>3. \A p \in Scalars : ~tainted'[p] => nvm'[p] = LiveScalar(p)'
    BY <2>2
  <2>4. ScalarInv'
    BY <2>2, <2>3, RestScalars
  <2> QED BY <1>0, <2>1, <2>4 DEF SavedInv
<1>6. CASE UNCHANGED vars
  <2>1. UNCHANGED <<store, nvm, pc, job, seen, alone, tainted>>
    BY <1>6 DEF vars
  <2>2. TaintInv'
    BY <2>1 DEF TaintInv, AloneInv
  <2>3. ScalarInv'
    BY <2>1, ScalarFrame DEF LiveScalar, ScalarInv
  <2> QED BY <1>0, <2>2, <2>3 DEF SavedInv
<1> QED BY <1>0, <1>1, <1>2, <1>3, <1>4, <1>5, <1>6 DEF Next, SavedInv

-----------------------------------------------------------------------------
(* What is in NVM: objects.  A save runs under the mutex.  The port has one *)
(* mutex for all parameters, so the raw reset is excluded as well.          *)

OneMutex == \A p, q \in Params : MutexOf[p] = MutexOf[q]

Writing(t, p) == On(t, p, "copy") \/ On(t, p, "commit") \/ On(t, p, "saveObject")

\* The payload of a clean object is in NVM, but while it is being replaced by
\* a call that will save it, and that knows whether the two differ.
CleanObject(p) ==
    /\ (\A t \in Threads : ~Writing(t, p)) => nvm[p] = Live(p)
    /\ \A t \in Threads :
          /\ job[t].p = p /\ pc[t] \in {"clear", "copy", "commit"}
          /\ job[t].op = "objsave" /\ ~seen[t].changed
          => nvm[p] = job[t].arg

ObjectSaved(p) ==
    /\ \A t \in Threads : On(t, p, "commit") =>
          \A i \in 1 .. Len(job[t].arg) : pool[PoolOff[p] + i - 1] = job[t].arg[i]
    /\ \A t \in Threads : pc[t] = "slots" => tainted[p]
    /\ Table[p].pers /\ ~tainted[p] => CleanObject(p)

ObjectInv == \A p \in Objects : ObjectSaved(p)

\* With one mutex only one call is at a place that needs it.
LEMMA OneAtWork ==
  ASSUME OneMutex, ControlInv, NEW t \in Threads, NEW u \in Threads,
         pc[t] \in Holding, pc[u] \in Holding
  PROVE  t = u
<1>1. job[t].p \in Params /\ job[u].p \in Params
  BY DEF ControlInv, Jobs
<1> QED BY <1>1 DEF OneMutex, ControlInv, MutexFollowsCalls, mutex

\* The payload of an object depends on its window and its length only.
LEMMA PayloadFrame ==
  ASSUME DataInv, DataInv', NEW p \in Objects, len'[p] = len[p],
         \A a \in Window[p] : pool'[a] = pool[a]
  PROVE  Live(p)' = Live(p)
<1>1. len[p] \in Nat /\ len[p] =< max_len(Table[p]) /\ max_len(Table[p]) \in Nat
  BY ObjectFacts DEF DataInv, Lengths
<1>2. \A i \in 1 .. len[p] : pool'[PoolOff[p] + i - 1] = pool[PoolOff[p] + i - 1]
  BY <1>1, WindowFacts
<1> QED BY <1>2 DEF Live, Payload

\* A step that writes neither the object's bytes nor NVM, and moves no call
\* that does.
LEMMA ObjectFrame ==
  ASSUME DataInv, DataInv', NEW p \in Objects, ObjectSaved(p),
         len'[p] = len[p], \A a \in Window[p] : pool'[a] = pool[a],
         nvm'[p] = nvm[p], tainted[p] => tainted'[p],
         \A t \in Threads :
            /\ pc[t] \in Holding \/ pc'[t] \in Holding =>
                  pc'[t] = pc[t] /\ job'[t] = job[t] /\ seen'[t] = seen[t]
            /\ On(t, p, "commit") => job[t].arg \in Stored(p)
  PROVE  ObjectSaved(p)'
<1>1. Live(p)' = Live(p)
  BY PayloadFrame
<1>2. \A t \in Threads, at \in {"clear", "copy", "commit", "saveObject", "slots"} :
         /\ pc'[t] = at <=> pc[t] = at
         /\ pc[t] = at => job'[t] = job[t] /\ seen'[t] = seen[t]
  BY DEF Holding
<1>3. \A t \in Threads : Writing(t, p)' <=> Writing(t, p)
  BY <1>2 DEF Writing, On
<1>4. CleanObject(p) => CleanObject(p)'
  BY <1>1, <1>2, <1>3 DEF CleanObject
<1>5. ASSUME NEW t \in Threads, On(t, p, "commit")',
             NEW i \in 1 .. Len(job'[t].arg)
      PROVE  pool'[PoolOff[p] + i - 1] = job'[t].arg[i]
  <2>1. On(t, p, "commit") /\ job'[t] = job[t]
    BY <1>2, <1>5 DEF On
  <2>2. job[t].arg \in Stored(p)
    BY <2>1
  <2>3. i \in Nat /\ 1 =< i /\ i =< max_len(Table[p])
    BY <1>5, <2>1, <2>2, ObjectFacts DEF Stored
  <2>4. PoolOff[p] + i - 1 \in Window[p]
    BY <2>3, WindowFacts
  <2> QED BY <1>5, <2>1, <2>4 DEF ObjectSaved
<1>6. \A t \in Threads : pc'[t] = "slots" => tainted'[p]
  BY <1>2 DEF ObjectSaved
<1> QED BY <1>4, <1>5, <1>6 DEF ObjectSaved, On

\* Without a call at work on objects an object is as it should be when it is
\* tainted or its payload is in NVM.
LEMMA RestObjects ==
  ASSUME \A t \in Threads : pc'[t] = "idle",
         \A p \in Objects : ~tainted'[p] => nvm'[p] = Live(p)'
  PROVE  ObjectInv'
  BY DEF ObjectInv, ObjectSaved, CleanObject, On

\* A step of a call outside the places that need the mutex.
LEMMA OutsideKeepsObjects ==
  ASSUME ControlInv, DataInv, DataInv', ObjectInv, NEW t \in Threads,
         NEW at, NEW j, pc' = [pc EXCEPT ![t] = at], job' = [job EXCEPT ![t] = j],
         pc[t] \notin Holding, at \notin Holding,
         \A u \in Threads \ {t} : seen'[u] = seen[u],
         UNCHANGED <<pool, len>>,
         \A p \in Objects : nvm'[p] = nvm[p] /\ (tainted[p] => tainted'[p])
  PROVE  ObjectInv'
<1>1. /\ pc'[t] = at
      /\ \A u \in Threads \ {t} : pc'[u] = pc[u] /\ job'[u] = job[u]
  BY DEF ControlInv
<1>2. ASSUME NEW p \in Objects PROVE ObjectSaved(p)'
  <2>1. \A u \in Threads : On(u, p, "commit") => job[u].arg \in Stored(p)
    BY CarriedPayload DEF On
  <2>2. \A u \in Threads : pc[u] \in Holding \/ pc'[u] \in Holding =>
                  pc'[u] = pc[u] /\ job'[u] = job[u] /\ seen'[u] = seen[u]
    BY <1>1
  <2> QED BY <2>1, <2>2, ObjectFrame DEF ObjectInv
<1> QED BY <1>2 DEF ObjectInv

\* The owner of the mutex works: the others are not at the places the
\* invariant looks at, now or next.
LEMMA OthersRest ==
  ASSUME OneMutex, ControlInv, ControlInv', NEW t \in Threads,
         NEW at, NEW j, Moves(t, at, j), pc[t] \in Holding \/ at \in Holding
  PROVE  /\ \A u \in Threads \ {t} : pc'[u] = pc[u] /\ job'[u] = job[u]
                                     /\ pc[u] \notin Holding
         /\ pc'[t] = at /\ job'[t] = j
<1>1. /\ \A u \in Threads \ {t} : pc'[u] = pc[u] /\ job'[u] = job[u]
      /\ pc'[t] = at /\ job'[t] = j
  BY DEF Moves, ControlInv
<1>2. CASE pc[t] \in Holding
  BY <1>1, <1>2, OneAtWork
<1>3. CASE at \in Holding
  <2>1. \A u \in Threads \ {t} : pc'[u] \in Holding => u = t
    <3>1. \A u \in Threads : job'[u].p \in Params
      BY DEF ControlInv, Jobs
    <3> QED BY <1>1, <1>3, <3>1 DEF OneMutex, ControlInv, MutexFollowsCalls, mutex
  <2> QED BY <1>1, <2>1
<1> QED BY <1>2, <1>3

\* What an object's invariant asks of a step of the call that holds the mutex.
LEMMA OwnerKeepsObject ==
  ASSUME NEW p \in Objects, NEW t \in Threads,
         \A u \in Threads \ {t} : pc'[u] \notin Holding,
         On(t, p, "commit")' =>
            \A i \in 1 .. Len(job'[t].arg) :
               pool'[PoolOff[p] + i - 1] = job'[t].arg[i],
         pc'[t] = "slots" => tainted'[p],
         Table[p].pers /\ ~tainted'[p] =>
            /\ Writing(t, p)' \/ nvm'[p] = Live(p)'
            /\ job'[t].p = p /\ pc'[t] \in {"clear", "copy", "commit"}
               /\ job'[t].op = "objsave" /\ ~seen'[t].changed
                  => nvm'[p] = job'[t].arg
  PROVE  ObjectSaved(p)'
<1>1. \A u \in Threads \ {t}, at \in {"clear", "copy", "commit", "saveObject", "slots"} :
         pc'[u] # at
  BY DEF Holding
<1>2. \A u \in Threads \ {t} : ~On(u, p, "commit")' /\ ~Writing(u, p)'
  BY <1>1 DEF On, Writing
<1>3. Table[p].pers /\ ~tainted'[p] => CleanObject(p)'
  BY <1>1, <1>2 DEF CleanObject
<1> QED BY <1>1, <1>2, <1>3 DEF ObjectSaved

\* Steps under the mutex that write no object, and begin no save.
LEMMA OwnerWritesNothing ==
  ASSUME OneMutex, ControlInv, ControlInv', DataInv, DataInv', ObjectInv,
         NEW t \in Threads, NEW at, NEW j, Moves(t, at, j),
         pc[t] \in Holding \/ at \in Holding,
         pc[t] \notin {"clear", "copy", "commit", "saveObject"},
         at \notin {"copy", "commit", "slots"},
         at = "clear" => j.op # "objsave",
         UNCHANGED <<pool, len>>,
         \A p \in Objects : nvm'[p] = nvm[p] /\ (tainted[p] => tainted'[p])
  PROVE  ObjectInv'
<1>1. /\ \A u \in Threads \ {t} : pc'[u] = pc[u] /\ job'[u] = job[u]
                                  /\ pc[u] \notin Holding
      /\ pc'[t] = at /\ job'[t] = j
  BY OthersRest
<1>2. ASSUME NEW p \in Objects PROVE ObjectSaved(p)'
  <2>1. Live(p)' = Live(p)
    BY PayloadFrame
  <2>2. \A u \in Threads : ~Writing(u, p)
    BY <1>1 DEF Writing, On, Holding
  <2>3. Table[p].pers /\ ~tainted'[p] => nvm'[p] = Live(p)'
    BY <2>1, <2>2 DEF ObjectInv, ObjectSaved, CleanObject
  <2>4. ~On(t, p, "commit")' /\ pc'[t] # "slots"
    BY <1>1 DEF On
  <2>5. job'[t].p = p /\ pc'[t] \in {"clear", "copy", "commit"}
           => job'[t].op # "objsave"
    BY <1>1
  <2> QED BY <1>1, <2>3, <2>4, <2>5, OwnerKeepsObject
<1> QED BY <1>2 DEF ObjectInv

\* A call that sets an object learns, under the mutex, whether it changes it.
LEMMA AcquireKeepsObjects ==
  ASSUME OneMutex, ControlInv, ControlInv', DataInv, DataInv', ObjectInv,
         NEW t \in Threads, AcquireForSetObject(t),
         job[t].arg \notin Rejected[job[t].p]
  PROVE  ObjectInv'
<1> USE DEF live, obs
<1>0. Step(t) /\ pc[t] = "take"
  BY DEF Step, AcquireForSetObject
<1>1. PICK at, j : Moves(t, at, j)
  BY <1>0, StepMoves
<1>2. /\ pc'[t] = "clear" /\ pc'[t] = at /\ job' = job
      /\ UNCHANGED <<pool, len, nvm, tainted>>
      /\ seen'[t].changed = (Len(job[t].arg) # len[job[t].p]
                             \/ job[t].arg # Live(job[t].p))
  BY <1>1 DEF AcquireForSetObject, Goto, ControlInv, DataInv, Seen, Moves
<1>3. \A u \in Threads \ {t} : pc'[u] = pc[u] /\ pc[u] \notin Holding
  BY <1>1, <1>2, OthersRest DEF Holding
<1>4. ASSUME NEW p \in Objects PROVE ObjectSaved(p)'
  <2>1. Live(p)' = Live(p)
    BY <1>2, PayloadFrame
  <2>2. \A u \in Threads : ~Writing(u, p)
    BY <1>0, <1>3 DEF Writing, On, Holding
  <2>3. Table[p].pers /\ ~tainted'[p] => nvm'[p] = Live(p)' /\ nvm'[p] = Live(p)
    BY <1>2, <2>1, <2>2 DEF ObjectInv, ObjectSaved, CleanObject
  <2>4. ~On(t, p, "commit")' /\ pc'[t] # "slots"
    BY <1>2 DEF On
  <2>5. job'[t].p = p /\ ~seen'[t].changed => job'[t].arg = Live(p)
    BY <1>2
  <2> QED BY <1>3, <2>3, <2>4, <2>5, OwnerKeepsObject
<1> QED BY <1>4 DEF ObjectInv

\* The three steps that replace a payload, and the save that may follow.
LEMMA WriterKeepsObjects ==
  ASSUME OneMutex, ControlInv, ControlInv', DataInv, DataInv', TaintInv,
         ObjectInv, NEW t \in Threads,
         ClearWindow(t) \/ CopyPayload(t) \/ CommitLen(t) \/ SaveObject(t)
  PROVE  ObjectInv'
<1> USE DEF live, obs
<1>0. /\ Step(t) /\ pc[t] \in Holding /\ Shape(pc[t], job[t])
      /\ pc[t] \in {"clear", "copy", "commit", "saveObject"}
  BY DEF Step, ClearWindow, CopyPayload, CommitLen, SaveObject, Holding, ControlInv
<1>1. PICK at, j : Moves(t, at, j)
  BY <1>0, StepMoves
<1>2. \A u \in Threads \ {t} : pc'[u] = pc[u] /\ job'[u] = job[u]
                               /\ pc[u] \notin Holding
  BY <1>0, <1>1, OthersRest
<1> DEFINE o == job[t].p
           arg == job[t].arg
<1>3. o \in Objects /\ o \in Params
  BY <1>0, ParamsFacts DEF Shape
<1>4. pc[t] # "saveObject" => arg \in Stored(o) /\ arg \in Seq(Nat)
  BY <1>0, CarriedPayload
<1>5. ASSUME NEW p \in Objects, p # o PROVE ~Writing(t, p)
  BY <1>5 DEF Writing, On
<1>6. ASSUME NEW p \in Objects, p # o, Table[p].pers, ~tainted[p]
      PROVE  nvm[p] = Live(p)
  <2>1. \A u \in Threads : ~Writing(u, p)
    BY <1>2, <1>5, <1>6 DEF Writing, On, Holding
  <2> QED BY <1>6, <2>1 DEF ObjectInv, ObjectSaved, CleanObject
<1>7. CASE ClearWindow(t)
  <2>1. /\ pc'[t] = "copy" /\ job' = job /\ pc[t] = "clear"
        /\ UNCHANGED <<len, nvm, tainted, seen>>
        /\ pool' = [a \in Pool |-> IF a \in Window[o] THEN 0 ELSE pool[a]]
    BY <1>7 DEF ClearWindow, Goto, ControlInv
  <2>2. ASSUME NEW p \in Objects PROVE ObjectSaved(p)'
    <3>1. ~On(t, p, "commit")' /\ pc'[t] # "slots"
      BY <2>1 DEF On
    <3>2. CASE p = o
      <4>1. Writing(t, p)'
        BY <2>1, <3>2 DEF Writing, On
      <4>2. Table[p].pers /\ ~tainted[p] /\ job[t].op = "objsave" /\ ~seen[t].changed
               => nvm[p] = arg
        BY <2>1, <3>2 DEF ObjectInv, ObjectSaved, CleanObject
      <4> QED BY <1>2, <2>1, <3>1, <3>2, <4>1, <4>2, OwnerKeepsObject
    <3>3. CASE p # o
      <4>1. \A a \in Window[p] : a \in Pool /\ a \notin Window[o]
        BY <1>3, <3>3, DisjointWindows DEF Pool
      <4>2. Live(p)' = Live(p)
        BY <2>1, <4>1, PayloadFrame
      <4> QED BY <1>2, <1>6, <2>1, <3>1, <3>3, <4>2, OwnerKeepsObject
    <3> QED BY <3>2, <3>3
  <2> QED BY <2>2 DEF ObjectInv
<1>8. CASE CopyPayload(t)
  <2>1. /\ pc'[t] = "commit" /\ job' = job /\ pc[t] = "copy"
        /\ UNCHANGED <<len, nvm, tainted, seen>>
        /\ pool' = [a \in Pool |->
                      IF a - PoolOff[o] \in 0 .. Len(arg) - 1
                      THEN arg[a - PoolOff[o] + 1] ELSE pool[a]]
    BY <1>8 DEF CopyPayload, Goto, ControlInv
  <2>2. /\ PoolOff[o] \in Nat /\ max_len(Table[o]) \in Nat
        /\ Len(arg) \in Nat /\ Len(arg) =< max_len(Table[o])
    BY <1>3, <1>4, <2>1, ObjectFacts DEF Stored
  <2>3. ASSUME NEW p \in Objects PROVE ObjectSaved(p)'
    <3>1. pc'[t] # "slots"
      BY <2>1
    <3>2. CASE p = o
      <4>1. Writing(t, p)'
        BY <2>1, <3>2 DEF Writing, On
      <4>2. Table[p].pers /\ ~tainted[p] /\ job[t].op = "objsave" /\ ~seen[t].changed
               => nvm[p] = arg
        BY <2>1, <3>2 DEF ObjectInv, ObjectSaved, CleanObject
      <4>3. ASSUME NEW i \in 1 .. Len(arg)
            PROVE  pool'[PoolOff[p] + i - 1] = arg[i]
        <5>1. i \in Nat /\ 1 =< i /\ i =< max_len(Table[p])
          BY <2>2, <3>2
        <5>2. PoolOff[p] + i - 1 \in Pool
          BY <5>1, WindowFacts
        <5>3. /\ (PoolOff[p] + i - 1) - PoolOff[o] = i - 1
              /\ (PoolOff[p] + i - 1) - PoolOff[o] + 1 = i
              /\ i - 1 \in 0 .. Len(arg) - 1
          BY <2>2, <3>2
        <5> QED BY <2>1, <5>2, <5>3
      <4>4. \A i \in 1 .. Len(job'[t].arg) :
               pool'[PoolOff[p] + i - 1] = job'[t].arg[i]
        BY <2>1, <4>3
      <4>5. Table[p].pers /\ ~tainted'[p] =>
               (job'[t].p = p /\ pc'[t] \in {"clear", "copy", "commit"}
                /\ job'[t].op = "objsave" /\ ~seen'[t].changed
                  => nvm'[p] = job'[t].arg)
        BY <2>1, <4>2
      <4> QED BY <1>2, <3>1, <4>1, <4>4, <4>5, OwnerKeepsObject
    <3>3. CASE p # o
      <4>1. ASSUME NEW a \in Window[p] PROVE pool'[a] = pool[a]
        <5>1. a \in Pool /\ a \notin Window[o] /\ a \in Int
          BY <1>3, <3>3, DisjointWindows, ByteOwner DEF Pool
        <5>2. a - PoolOff[o] \notin 0 .. Len(arg) - 1
          <6>1. SUFFICES ASSUME a - PoolOff[o] \in 0 .. Len(arg) - 1 PROVE FALSE
            OBVIOUS
          <6>2. a - PoolOff[o] \in 0 .. max_len(Table[o]) - 1
                /\ a = PoolOff[o] + (a - PoolOff[o])
            BY <2>2, <5>1, <6>1
          <6>3. a \in Window[o]
            BY <1>3, <6>2 DEF Window
          <6> QED BY <5>1, <6>3
        <5> QED BY <2>1, <5>1, <5>2
      <4>2. Live(p)' = Live(p)
        BY <2>1, <4>1, PayloadFrame
      <4>3. ~On(t, p, "commit")'
        BY <2>1, <3>3 DEF On
      <4> QED BY <1>2, <1>6, <2>1, <3>1, <3>3, <4>2, <4>3, OwnerKeepsObject
    <3> QED BY <3>2, <3>3
  <2> QED BY <2>3 DEF ObjectInv
<1>9. CASE CommitLen(t)
  <2>1. /\ pc[t] = "commit" /\ pc'[t] \in {"saveObject", "idle"}
        /\ UNCHANGED <<pool, nvm>>
        /\ len' = [len EXCEPT ![o] = Len(arg)]
        /\ pc'[t] = "saveObject" => job'[t] = job[t]
        /\ job[t].op = "objsave" =>
              /\ tainted' = tainted
              /\ pc'[t] = "idle" => ~seen[t].changed
        /\ job[t].op # "objsave" => Unsaved(o)
    BY <1>9 DEF CommitLen, Goto, Done, ControlInv
  <2>2. ASSUME NEW p \in Objects PROVE ObjectSaved(p)'
    <3>1. ~On(t, p, "commit")' /\ pc'[t] \notin {"clear", "copy", "commit", "slots"}
      BY <2>1 DEF On
    <3>2. CASE p = o
      <4>1. pc'[t] = "saveObject" => Writing(t, p)'
        BY <2>1, <3>2 DEF Writing, On
      <4>2. ASSUME pc'[t] = "idle", Table[p].pers, ~tainted'[p]
            PROVE  nvm'[p] = Live(p)'
        <5>1. job[t].op = "objsave" /\ ~tainted[p] /\ ~seen[t].changed
          BY <1>3, <2>1, <3>2, <4>2 DEF Unsaved, TaintInv
        <5>2. nvm[p] = arg
          BY <2>1, <3>2, <4>2, <5>1 DEF ObjectInv, ObjectSaved, CleanObject
        <5>3. \A i \in 1 .. Len(arg) : pool[PoolOff[p] + i - 1] = arg[i]
          BY <2>1, <3>2 DEF ObjectInv, ObjectSaved, On
        <5>4. len'[p] = Len(arg)
          BY <2>1, <3>2 DEF DataInv, Lengths
        <5>5. Live(p)' = [i \in 1 .. Len(arg) |-> pool[PoolOff[p] + i - 1]]
          BY <2>1, <5>4 DEF Live, Payload
        <5>6. arg \in Seq(Nat)
          BY <1>4, <2>1
        <5>7. arg = [i \in 1 .. Len(arg) |-> arg[i]]
          BY <5>6
        <5>8. Live(p)' = arg
          BY <5>3, <5>5, <5>7
        <5> QED BY <2>1, <5>2, <5>8
      <4> QED BY <1>2, <2>1, <3>1, <4>1, <4>2, OwnerKeepsObject
    <3>3. CASE p # o
      <4>1. len'[p] = len[p]
        BY <2>1, <3>3 DEF DataInv, Lengths
      <4>2. Live(p)' = Live(p)
        BY <2>1, <4>1, PayloadFrame
      <4>3. tainted[p] => tainted'[p]
        BY <1>3, <2>1, <3>3, ParamsFacts DEF Unsaved, TaintInv
      <4> QED BY <1>2, <1>6, <2>1, <3>1, <3>3, <4>2, <4>3, OwnerKeepsObject
    <3> QED BY <3>2, <3>3
  <2> QED BY <2>2 DEF ObjectInv
<1>10. CASE SaveObject(t)
  <2>1. pc[t] = "saveObject" /\ pc'[t] = "idle" /\ UNCHANGED <<pool, len>>
    BY <1>10 DEF SaveObject, Done, ControlInv
  <2>2. ASSUME NEW p \in Objects PROVE ObjectSaved(p)'
    <3>1. ~On(t, p, "commit")' /\ pc'[t] \notin {"clear", "copy", "commit", "slots"}
      BY <2>1 DEF On
    <3>2. Live(p)' = Live(p)
      BY <2>1, PayloadFrame
    <3>3. CASE p = o
      <4>1. tainted'[p] \/ nvm'[p] = Live(p)
        BY <1>3, <1>10, <3>3 DEF SaveObject, Unsaved, TaintInv, DataInv, Nvms
      <4> QED BY <1>2, <3>1, <3>2, <4>1, OwnerKeepsObject
    <3>4. CASE p # o
      <4>1. nvm'[p] = nvm[p] /\ (tainted[p] => tainted'[p])
        BY <1>3, <1>10, <3>4, ParamsFacts
           DEF SaveObject, Unsaved, TaintInv, DataInv, Nvms
      <4> QED BY <1>2, <1>6, <3>1, <3>2, <3>4, <4>1, OwnerKeepsObject
    <3> QED BY <3>3, <3>4
  <2> QED BY <2>2 DEF ObjectInv
<1> QED BY <1>7, <1>8, <1>9, <1>10

\* The raw reset taints every object before it changes one.
LEMMA ResetKeepsObjects ==
  ASSUME OneMutex, ControlInv, ControlInv', DataInv, DataInv', TaintInv,
         ObjectInv, NEW t \in Threads, ResetPool(t) \/ ResetSlots(t)
  PROVE  ObjectInv'
<1>0. Step(t) /\ pc[t] \in Holding
  BY DEF Step, ResetPool, ResetSlots, Holding
<1>1. PICK at, j : Moves(t, at, j)
  BY <1>0, StepMoves
<1>2. \A u \in Threads \ {t} : pc'[u] = pc[u] /\ pc[u] \notin Holding
  BY <1>0, <1>1, OthersRest
<1>3. pc'[t] \in {"slots", "idle"}
  BY DEF ResetPool, ResetSlots, Goto, Done, ControlInv
<1>4. ASSUME NEW p \in Objects PROVE ObjectSaved(p)'
  <2>1. tainted'[p]
    <3>1. CASE ResetPool(t)
      BY <3>1, ParamsFacts DEF ResetPool
    <3>2. CASE ResetSlots(t)
      BY <3>2 DEF ResetSlots, ObjectInv, ObjectSaved
    <3> QED BY <3>1, <3>2
  <2>2. ~On(t, p, "commit")'
    BY <1>3 DEF On
  <2> QED BY <1>2, <2>1, <2>2, OwnerKeepsObject
<1> QED BY <1>4 DEF ObjectInv

\* Every step of a call.
LEMMA StepKeepsObjects ==
  ASSUME OneMutex, ControlInv, ControlInv', DataInv, DataInv', TaintInv,
         ObjectInv, NEW t \in Threads, Step(t)
  PROVE  ObjectInv'
<1> USE DEF live, obs
<1>0. Shape(pc[t], job[t])
  BY DEF ControlInv
<1>1. PICK at, j : Moves(t, at, j)
  BY StepMoves
<1>2. pc'[t] = at /\ job'[t] = j /\ pc' = [pc EXCEPT ![t] = at]
      /\ job' = [job EXCEPT ![t] = j]
  BY <1>1 DEF Moves, ControlInv
<1>3. CASE ClearWindow(t) \/ CopyPayload(t) \/ CommitLen(t) \/ SaveObject(t)
  BY <1>3, WriterKeepsObjects
<1>4. CASE ResetPool(t) \/ ResetSlots(t)
  BY <1>4, ResetKeepsObjects
<1>5. CASE AcquireForSetObject(t)
  <2>1. CASE job[t].arg \notin Rejected[job[t].p]
    BY <1>5, <2>1, AcquireKeepsObjects
  <2>2. CASE job[t].arg \in Rejected[job[t].p]
    <3>1. /\ pc[t] = "take" /\ pc'[t] = "idle"
          /\ UNCHANGED <<pool, len, nvm, tainted>>
          /\ \A u \in Threads \ {t} : seen'[u] = seen[u]
      BY <1>5, <2>2 DEF AcquireForSetObject, Done, ControlInv, DataInv
    <3> QED BY <1>2, <3>1, OutsideKeepsObjects DEF Holding
  <2> QED BY <2>1, <2>2
<1>6. ASSUME MutexTimeout(t) \/ SaveRead(t) \/ SaveWrite(t)
      PROVE  ObjectInv'
  <2>1. /\ pc[t] \notin Holding /\ pc'[t] \in {"idle", "saveWrite"}
        /\ UNCHANGED <<pool, len>>
        /\ \A u \in Threads \ {t} : seen'[u] = seen[u]
    BY <1>6 DEF MutexTimeout, SaveRead, SaveWrite, Goto, Done, ControlInv,
                DataInv, Holding
  <2>2. ASSUME NEW p \in Objects
        PROVE  nvm'[p] = nvm[p] /\ (tainted[p] => tainted'[p])
    <3>1. CASE MutexTimeout(t) \/ SaveRead(t)
      BY <3>1 DEF MutexTimeout, SaveRead
    <3>2. CASE SaveWrite(t)
      <4>1. job[t].p \in Scalars /\ p # job[t].p /\ p \in Params /\ job[t].p \in Params
        BY <1>0, <3>2, ParamsFacts DEF SaveWrite, Shape
      <4>2. nvm'[p] = nvm[p]
        BY <3>2, <4>1 DEF SaveWrite, DataInv, Nvms
      <4>3. Step(t)
        OBVIOUS
      <4> QED BY <4>1, <4>2, StepTaints
    <3> QED BY <1>6, <3>1, <3>2
  <2>3. at \notin Holding
    BY <1>2, <2>1 DEF Holding, ControlInv
  <2> QED BY <1>2, <2>1, <2>2, <2>3, OutsideKeepsObjects
<1>7. CASE AcquireForSet(t)
  <2>1. UNCHANGED <<pool, len, nvm, tainted>> /\ pc[t] = "take"
        /\ pc'[t] \in {"store", "idle"}
        /\ \A u \in Threads \ {t} : seen'[u] = seen[u]
    BY <1>7 DEF AcquireForSet, Goto, Done, ControlInv, DataInv
  <2>2. CASE pc'[t] = "idle"
    BY <1>2, <2>1, <2>2, OutsideKeepsObjects DEF Holding
  <2>3. CASE pc'[t] = "store"
    BY <1>1, <1>2, <2>1, <2>3, OwnerWritesNothing DEF Holding
  <2> QED BY <2>1, <2>2, <2>3
<1>8. CASE AcquireForGet(t)
  <2>1. UNCHANGED <<pool, len, nvm, tainted>> /\ pc[t] = "take"
        /\ pc'[t] \in {"copyOut", "idle"}
        /\ \A u \in Threads \ {t} : seen'[u] = seen[u]
    BY <1>8 DEF AcquireForGet, Goto, Done, ControlInv, DataInv
  <2>2. CASE pc'[t] = "idle"
    BY <1>2, <2>1, <2>2, OutsideKeepsObjects DEF Holding
  <2>3. CASE pc'[t] = "copyOut"
    BY <1>1, <1>2, <2>1, <2>3, OwnerWritesNothing DEF Holding
  <2> QED BY <2>1, <2>2, <2>3
<1>9. ASSUME \/ AcquireForDefault(t) \/ AcquireForSave(t) \/ AcquireForReset(t)
             \/ Reread(t) \/ NotifyAndRelease(t) \/ CopyOut(t)
      PROVE  ObjectInv'
  <2>1. UNCHANGED <<pool, len, nvm, tainted>>
    BY <1>9 DEF AcquireForDefault, AcquireForSave, AcquireForReset, Reread,
                NotifyAndRelease, CopyOut
  <2>2. pc[t] \in {"take", "reread", "notify", "copyOut"}
    BY <1>9 DEF AcquireForDefault, AcquireForSave, AcquireForReset, Reread,
                NotifyAndRelease, CopyOut
  <2>3. /\ pc'[t] \in {"store", "clear", "saveObject", "cells", "notify",
                       "saveRead", "idle"}
        /\ pc[t] \in Holding \/ pc'[t] \in Holding
        /\ pc'[t] = "clear" => job'[t].op = "default"
    BY <1>9 DEF AcquireForDefault, AcquireForSave, AcquireForReset, Reread,
                NotifyAndRelease, CopyOut, Goto, Done, ControlInv, Holding
  <2> QED BY <1>1, <1>2, <2>1, <2>2, <2>3, OwnerWritesNothing
<1>10. ASSUME StoreScalar(t) \/ StoreDefault(t) \/ ResetCell(t)
       PROVE  ObjectInv'
  <2>1. UNCHANGED <<pool, len, nvm>> /\ pc[t] \in {"store", "cells"}
    BY <1>10 DEF StoreScalar, StoreDefault, ResetCell
  <2>2. pc'[t] \in {"reread", "idle", "pool", "cells"}
    BY <1>10 DEF StoreScalar, StoreDefault, ResetCell, Done, ControlInv
  <2>3. ASSUME NEW p \in Objects, tainted[p] PROVE tainted'[p]
    <3>1. PICK q \in Scalars : tainted' = tainted \/ Unsaved(q)
      BY <1>0, <1>10 DEF StoreScalar, StoreDefault, ResetCell, Shape
    <3> QED BY <2>3, <3>1, ParamsFacts DEF Unsaved, TaintInv
  <2> QED BY <1>1, <1>2, <2>1, <2>2, <2>3, OwnerWritesNothing DEF Holding
<1> QED BY <1>3, <1>4, <1>5, <1>6, <1>7, <1>8, <1>9, <1>10 DEF Step

\* Calls that begin or are refused, and the fast setters.
LEMMA CallKeepsObjects ==
  ASSUME ControlInv, DataInv, DataInv', TaintInv, ObjectInv, NEW t \in Threads,
         CallSomething(t)
  PROVE  ObjectInv'
<1> USE DEF live, obs
<1>0. Scalars \subseteq Params /\ BitPars \subseteq Scalars
      /\ \A u \in Threads, p \in Objects : On(u, p, "commit") => job[u].arg \in Stored(p)
  BY InputsAssumption, ParamsFacts, CarriedPayload DEF On
<1>1. CASE SetFast(t) \/ SetBits(t)
  <2>1. PICK q \in Scalars : Unsaved(q)
    BY <1>0, <1>1 DEF SetFast, SetBits
  <2>2. UNCHANGED <<pool, len, nvm, pc, job, seen>>
    BY <1>1 DEF SetFast, SetBits
  <2>3. \A p \in Objects : tainted[p] => tainted'[p]
    BY <2>1, ParamsFacts DEF Unsaved, TaintInv
  <2> QED BY <1>0, <2>2, <2>3, ObjectFrame DEF ObjectInv
<1>2. CASE Refused(t)
  <2>1. UNCHANGED <<pool, len, nvm, pc, job, seen, tainted>>
    BY <1>2 DEF Refused, Refuse
  <2> QED BY <1>0, <2>1, ObjectFrame DEF ObjectInv
<1>3. CASE Accepted(t)
  <2>1. PICK at \in PCs, j \in Jobs :
           /\ pc' = [pc EXCEPT ![t] = at] /\ job' = [job EXCEPT ![t] = j]
           /\ at \notin Holding /\ pc[t] = "idle"
    BY <1>3, AcceptedMoves
  <2>2. UNCHANGED <<pool, len, nvm, tainted>> /\ seen' = [seen EXCEPT ![t] = NoSeen]
    BY <1>3 DEF Accepted, Begin
  <2>3. \A u \in Threads \ {t} : seen'[u] = seen[u]
    BY <2>2 DEF DataInv
  <2>4. pc[t] \notin Holding
    BY <2>1 DEF Holding
  <2> QED BY <2>1, <2>2, <2>3, <2>4, OutsideKeepsObjects
<1> QED BY <1>1, <1>2, <1>3, CallCases

\* par_init restores an object: what it lays into the pool is what NVM holds.
LEMMA InitRestoresObject ==
  ASSUME DataInv, par_init, NEW p \in Objects, ~tainted'[p]
  PROVE  nvm'[p] = Live(p)'
<1>1. PICK from \in {"nvm", "table", "nothing"} :
          LET restored(q) == Table[q].pers /\ from # "nothing"
              value(q) == IF from = "nvm" THEN nvm[q] ELSE Default[q]
              image == [q \in Objects |->
                          IF restored(q) THEN value(q) ELSE Default[q]]
          IN  /\ len' = [q \in Objects |-> Len(image[q])]
              /\ pool' = [a \in Pool |->
                    LET q == CHOOSE x \in Objects : a \in Window[x]
                        i == a - PoolOff[q] + 1
                    IN  IF i =< Len(image[q]) THEN image[q][i] ELSE 0]
              /\ nvm' = IF from = "table"
                        THEN [q \in Params |-> IF Table[q].pers THEN Default[q]
                                               ELSE nvm[q]]
                        ELSE nvm
              /\ tainted' = [q \in Params |->
                    \/ ~restored(q)
                    \/ q \in Scalars /\ Clamped(q, value(q)) # value(q)]
  BY DEF par_init
<1> DEFINE value(q) == IF from = "nvm" THEN nvm[q] ELSE Default[q]
           image == [q \in Objects |->
                       IF Table[q].pers /\ from # "nothing" THEN value(q)
                       ELSE Default[q]]
<1>2. p \in Params /\ Table[p].pers /\ from # "nothing"
  BY <1>1, ParamsFacts
<1>3. image[p] = value(p) /\ nvm'[p] = value(p)
  BY <1>1, <1>2
<1>4. /\ len' = [q \in Objects |-> Len(image[q])]
      /\ pool' = [a \in Pool |->
                    LET q == CHOOSE x \in Objects : a \in Window[x]
                        i == a - PoolOff[q] + 1
                    IN  IF i =< Len(image[q]) THEN image[q][i] ELSE 0]
  BY <1>1
<1>5. \A q \in Objects : nvm[q] \in Stored(q) /\ Default[q] \in Stored(q)
  BY ObjectFacts, ValuesStored DEF DataInv, Nvms
<1>6. \A q \in Objects : image[q] \in Stored(q) /\ image[q] \in Seq(Nat)
  BY <1>5 DEF Stored
<1>7. image \in [Objects -> Seq(Nat)]
  BY <1>6
<1> HIDE DEF value, image
<1>8. Live(p)' = image[p]
  BY <1>4, <1>6, <1>7, ImagePayload DEF Live
<1> QED BY <1>3, <1>8

AllSavedInv == SavedInv /\ ObjectInv

\* At the start everything is tainted.
LEMMA InitAllSaved == Init => AllSavedInv
<1> SUFFICES ASSUME Init PROVE AllSavedInv
  OBVIOUS
<1>1. ObjectInv
  BY ParamsFacts DEF Init, ObjectInv, ObjectSaved, On
<1> QED BY <1>1, InitSaved DEF AllSavedInv

\* Every step keeps what is said of the saved scalars and objects.
LEMMA NextKeepsAllSaved ==
  ASSUME OneMutex, AllSavedInv, [Next]_vars
  PROVE  AllSavedInv'
<1> USE DEF live, obs
<1>0. ControlInv /\ DataInv /\ TaintInv /\ ObjectInv /\ SavedInv
  BY DEF AllSavedInv, SavedInv, CoreInv
<1>a. SavedInv' /\ ControlInv' /\ DataInv'
  BY <1>0, NextKeepsSaved DEF SavedInv, CoreInv
<1>1. ASSUME NEW t \in Threads, Step(t) PROVE ObjectInv'
  BY <1>0, <1>a, <1>1, StepKeepsObjects
<1>2. ASSUME NEW t \in Threads, CallSomething(t) PROVE ObjectInv'
  BY <1>0, <1>a, <1>2, CallKeepsObjects
<1>3. CASE par_init
  <2>1. \A t \in Threads : pc'[t] = "idle"
    BY <1>3 DEF par_init, Quiescent
  <2>2. \A p \in Objects : ~tainted'[p] => nvm'[p] = Live(p)'
    BY <1>0, <1>3, InitRestoresObject
  <2>3. ObjectInv'
    BY <2>1, <2>2, RestObjects
  <2> QED BY <1>a, <2>3 DEF AllSavedInv
<1>4. CASE par_deinit \/ UNCHANGED vars
  <2>1. UNCHANGED <<pool, len, nvm, pc, job, seen, tainted>>
    BY <1>4 DEF par_deinit, vars
  <2>2. \A t \in Threads, p \in Objects : On(t, p, "commit") => job[t].arg \in Stored(p)
    BY <1>0, CarriedPayload DEF On
  <2>3. ObjectInv'
    BY <1>0, <1>a, <2>1, <2>2, ObjectFrame DEF ObjectInv
  <2> QED BY <1>a, <2>3 DEF AllSavedInv
<1>5. CASE Reboot
  <2>1. (\A t \in Threads : pc'[t] = "idle") /\ \A p \in Objects : tainted'[p]
    BY <1>5, ParamsFacts DEF Reboot
  <2>2. \A p \in Objects : ~tainted'[p] => nvm'[p] = Live(p)'
    BY <2>1
  <2>3. ObjectInv'
    BY <2>1, <2>2, RestObjects
  <2> QED BY <1>a, <2>3 DEF AllSavedInv
<1> QED BY <1>a, <1>1, <1>2, <1>3, <1>4, <1>5 DEF Next, AllSavedInv

\* What a set-and-save or a save leaves in NVM is the live value.  For scalars
\* the call must have been alone in its parameter (the tainted ones are left
\* out of the property); objects are saved under the mutex, and that the raw
\* reset takes the same mutex is what OneMutex asks of the port.
THEOREM CoreSaved == OneMutex => (Spec => []SavedValueIsLive)
<1> SUFFICES ASSUME OneMutex PROVE Spec => []SavedValueIsLive
  OBVIOUS
<1>1. Init => AllSavedInv
  BY InitAllSaved
<1>2. AllSavedInv /\ [Next]_vars => AllSavedInv'
  BY NextKeepsAllSaved
<1>3. AllSavedInv => SavedValueIsLive
  <2> SUFFICES ASSUME AllSavedInv, NEW p \in Params, Table[p].pers, ~tainted[p],
                      \A t \in Threads : ~InCall(t, p)
               PROVE  nvm[p] = Live(p)
    BY DEF SavedValueIsLive
  <2>1. CASE p \in Scalars
    <3>1. ~Saving(p) /\ \A t \in Threads : ~At(t, p, "reread") /\ ~At(t, p, "notify")
      BY DEF Saving, On, At, Setting, InCall
    <3>2. nvm[p] = LiveScalar(p)
      BY <2>1, <3>1 DEF AllSavedInv, SavedInv, ScalarInv, ScalarSaved, CleanScalar
    <3> QED BY <2>1, <3>2 DEF Live, Scalars
  <2>2. CASE p \in Objects
    <3>1. \A t \in Threads : ~Writing(t, p)
      BY DEF Writing, On, InCall
    <3> QED BY <2>2, <3>1 DEF AllSavedInv, ObjectInv, ObjectSaved, CleanObject
  <2> QED BY <2>1, <2>2, ParamsFacts
<1> QED BY <1>1, <1>2, <1>3, PTL DEF Spec
=============================================================================

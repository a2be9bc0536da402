---------------------------- MODULE ParNvmProofs ----------------------------
(* Theorems about ParNvm, for every set of tables and every store fault.    *)
EXTENDS ParNvm, FiniteSetTheorems, TLAPS

\* The loops over the records start at the first one and stay in the table.
CursorRests == pc \notin {"append", "record", "save"} => cursor = 1

TInv == TypeOK /\ CursorRests

-----------------------------------------------------------------------------
(* The operators.                                                          *)

\* A table has at least one and at most MaxSlots parameters.
LEMMA TableFacts ==
  ASSUME NEW t \in Tables
  PROVE  /\ Count(t) \in Nat /\ Count(t) \in Slots /\ 1 \in 1 .. Count(t)
         /\ MaxSlots \in Nat
         /\ 1 .. Count(t) \subseteq Slots
         /\ t.par \in Seq(Parameter)
         /\ \A i \in 1 .. Count(t) : t.par[i] \in Parameter
<1>1. t.par \in Seq(Parameter) /\ Len(t.par) \in Slots /\ MaxSlots \in Nat
  BY TablesAssumption
<1>2. \A i \in 1 .. Len(t.par) : t.par[i] \in Parameter
  BY <1>1
<1> QED BY <1>1, <1>2 DEF Count, Slots

\* The header of a whole table is one of the headers.
LEMMA HeaderType ==
  ASSUME NEW t \in Tables
  PROVE  Header(t, Count(t)) \in Headers
<1>1. Count(t) \in 0 .. Count(t)
  BY TableFacts
<1> QED BY <1>1 DEF Headers

\* Every header counts its records.
LEMMA HeadersCount ==
  ASSUME NEW h \in Headers
  PROVE  h.n \in Nat
<1>1. PICK t \in Tables : \E n \in 0 .. Count(t) : h = Header(t, n)
  BY DEF Headers
<1>2. PICK n \in 0 .. Count(t) : h = Header(t, n)
  BY <1>1
<1> QED BY <1>2, TableFacts DEF Header

\* What a failed or cut write leaves is a store.
LEMMA MixType ==
  ASSUME NEW S, S \subseteq Store, NEW s \in Mixes(S)
  PROVE  s \in Store
<1>1. HeadsOf(S) \subseteq HeadPart
  <2>1. \A x \in S : x.head \in HeadPart
    BY DEF Store
  <2> DEFINE heads == {x.head : x \in S}
  <2>2. heads \subseteq HeadPart
    BY <2>1
  <2>3. {h.sign : h \in heads} \subseteq BOOLEAN
    BY <2>2, Zenon DEF HeadPart
  <2>4. {h.body : h \in heads} \cup {Garbage} \subseteq Headers \cup {Garbage}
    BY <2>2, Zenon DEF HeadPart
  <2>5. [sign : {h.sign : h \in heads}, body : {h.body : h \in heads} \cup {Garbage}]
          \subseteq HeadPart
    BY <2>3, <2>4 DEF HeadPart
  <2> QED BY <2>2, <2>5 DEF HeadsOf
<1>2. \A i \in Slots : RecordsOf(S, i) \subseteq Record \cup {Garbage}
  BY DEF Store, RecordsOf
<1>3. s.head \in HeadsOf(S) /\ DOMAIN s.rec = Slots /\ s = [head |-> s.head, rec |-> s.rec]
  BY DEF Mixes
<1>4. \A i \in Slots : s.rec[i] \in RecordsOf(S, i)
  BY DEF Mixes
<1>5. s.rec \in [Slots -> Record \cup {Garbage}]
  BY <1>2, <1>4 DEF Mixes
<1> QED BY <1>1, <1>3, <1>5 DEF Store

\* A limited value is a value (PAR_TYPED_FAST_SET_BODY).
LEMMA LimitType ==
  ASSUME NEW p \in Parameter, NEW v \in Values
  PROVE  Limit(p, v) \in Values
BY DEF Limit, Parameter

\* The defaults of a table are values of its parameters.
LEMMA DefaultsType ==
  ASSUME NEW t \in Tables
  PROVE  Defaults(t) \in [1 .. Count(t) -> Values]
BY TableFacts DEF Defaults, Parameter

\* Restoring records over values gives values (par_nvm_load_all).
LEMMA RestoredType ==
  ASSUME NEW s \in Store, NEW t \in Tables, ValidHeader(s, t),
         NEW v \in [1 .. Count(t) -> Values]
  PROVE  RestoredOver(s, t, v) \in [1 .. Count(t) -> Values]
<1> SUFFICES ASSUME NEW i \in 1 .. Count(t), RestoredTo(s, t, i)
             PROVE  Limit(t.par[i], s.rec[i].val) \in Values
  BY DEF RestoredOver
<1>1. i \in Slots /\ t.par[i] \in Parameter
  BY TableFacts
<1>2. Matches(s.rec[i], t.par[i])
  BY DEF RestoredTo
<1>3. s.rec[i] \in Record
  BY <1>1, <1>2 DEF Matches, Store
<1> QED BY <1>1, <1>3, LimitType DEF Record

\* What the running write will leave is a store.
LEMMA PendingType ==
  ASSUME TypeOK
  PROVE  Pending \in Store
<1>1. live \in Store /\ table \in Tables /\ cursor \in 1 .. Count(table)
  BY DEF TypeOK, Here
<1>2. cursor \in Slots /\ table.par[cursor] \in Parameter
  BY <1>1, TableFacts
<1>3. WithRecord(live, cursor) \in Store
  <2>1. [id |-> table.par[cursor].id, type |-> table.par[cursor].type, val |-> val[cursor]]
          \in Record
    BY <1>1, <1>2 DEF Record, Parameter, TypeOK, Here
  <2> QED BY <1>1, <1>2, <2>1 DEF WithRecord, Store
<1>4. WithHeader(live) \in Store
  BY <1>1, HeaderType DEF WithHeader, Store, HeadPart
<1>5. Unsigned(live) \in Store
  BY <1>1 DEF Unsigned, Store, HeadPart
<1> QED BY <1>1, <1>3, <1>4, <1>5 DEF Pending

\* A write leaves a store, whether it works or fails.
LEMMA StoreTypes ==
  ASSUME TypeOK, StoreOk \/ StoreFails
  PROVE  mem' \in Store /\ live' \in Store
<1>1. Pending \in Store /\ mem \in Store /\ live \in Store
  BY PendingType DEF TypeOK
<1>2. CASE StoreOk
  BY <1>1, <1>2 DEF StoreOk
<1>3. CASE StoreFails
  <2>1. live' \in Mixes({live, Pending}) /\ mem' \in Mixes({mem, live', Pending})
    BY <1>3 DEF StoreFails
  <2>2. live' \in Store
    BY <1>1, <2>1, MixType
  <2>3. {mem, live', Pending} \subseteq Store
    BY <1>1, <2>2
  <2> QED BY <2>1, <2>2, <2>3, MixType
<1> QED BY <1>2, <1>3

-----------------------------------------------------------------------------
(* Type correctness.                                                       *)

\* The initial states are typed.
LEMMA InitTypes == Init => TInv
<1> SUFFICES ASSUME Init PROVE TInv
  OBVIOUS
<1>1. table \in Tables
  BY DEF Init
<1>2. Blank \in Store
  BY DEF Blank, Store, HeadPart
<1>3. val \in [Here -> Values] /\ cursor \in Here
  BY <1>1, DefaultsType, TableFacts DEF Init, Here
<1> QED BY <1>1, <1>2, <1>3 DEF Init, TInv, TypeOK, CursorRests

\* Every step keeps the types and starts its loop at the first record.
LEMMA StepTypes == TInv /\ [Next]_vars => TInv'
<1> SUFFICES ASSUME TInv, [Next]_vars PROVE TInv'
  OBVIOUS
<1> USE DEF TInv, CursorRests
<1>0. table \in Tables /\ 1 \in Here /\ Defaults(table) \in [Here -> Values]
  BY TableFacts, DefaultsType DEF TypeOK, Here
<1>1. CASE Boot
  <2>1. table' \in Tables /\ val' \in [1 .. Count(table') -> Values]
    BY <1>0, <1>1, DefaultsType DEF Boot, TypeOK, Here
  <2>2. cursor' = 1 /\ 1 \in 1 .. Count(table')
    BY <1>1, <2>1, TableFacts DEF Boot
  <2>3. saved' \in [Ids -> Values \cup {None}]
    BY <1>1 DEF Boot, TypeOK
  <2> QED BY <1>1, <2>1, <2>2, <2>3 DEF Boot, TypeOK, Here, store
<1>2. CASE LoadFails
  BY <1>0, <1>2 DEF LoadFails, InitFails, Ends, TypeOK, Here, store
<1>3. CASE StartOver
  BY <1>0, <1>3 DEF StartOver, TypeOK, Here, store
<1>4. CASE Restore
  <2>1. val' \in [1 .. Count(table) -> Values]
    BY <1>4, RestoredType DEF Restore, TypeOK, Here
  <2>2. cursor' \in 1 .. Count(table)
    <3>1. live.head.body \in Headers
      BY <1>4 DEF Restore, ValidHeader, Compatible, TypeOK, Store, HeadPart
    <3>2. live.head.body.n \in Nat /\ Count(table) \in Nat
      BY <1>0, <3>1, HeadersCount, TableFacts
    <3> QED BY <1>0, <1>4, <3>2 DEF Restore, Ends, Here
  <2> QED BY <1>4, <2>1, <2>2 DEF Restore, Ends, TypeOK, Here, store, history
<1>5. CASE AppendRecord
  <2>1. mem' \in Store /\ live' \in Store
    BY <1>5, StoreTypes DEF AppendRecord
  <2>2. cursor' \in Here
    BY <1>0, <1>5, TableFacts DEF AppendRecord, InitFails, Ends, TypeOK, Here
  <2> QED BY <1>0, <1>5, <2>1, <2>2
       DEF AppendRecord, InitFails, Ends, TypeOK, Here, history
<1>6. CASE AppendHeader
  <2>1. mem' \in Store /\ live' \in Store
    BY <1>6, StoreTypes DEF AppendHeader
  <2> QED BY <1>0, <1>6, <2>1 DEF AppendHeader, InitFails, Ends, TypeOK, Here, history
<1>7. CASE Erase
  <2>1. mem' \in Store /\ live' \in Store
    BY <1>7, StoreTypes DEF Erase, BulkFails
  <2> QED BY <1>0, <1>7, <2>1 DEF Erase, BulkFails, Ends, TypeOK, Here, ram
<1>8. CASE WriteRecord
  <2>1. mem' \in Store /\ live' \in Store
    BY <1>8, StoreTypes DEF WriteRecord, BulkFails
  <2>2. cursor' \in Here
    BY <1>0, <1>8, TableFacts DEF WriteRecord, BulkFails, Ends, TypeOK, Here
  <2> QED BY <1>0, <1>8, <2>1, <2>2 DEF WriteRecord, BulkFails, Ends, TypeOK, Here, ram, history
<1>9. CASE WriteHeader
  <2>1. mem' \in Store /\ live' \in Store
    BY <1>9, StoreTypes DEF WriteHeader, BulkFails
  <2>2. \A id \in Ids : ValueOf(id) \in Values \cup {None}
    BY DEF ValueOf, TypeOK
  <2> QED BY <1>0, <1>9, <2>1, <2>2 DEF WriteHeader, BulkFails, Ends, TypeOK, Here, ram
<1>10. CASE SetValue
  <2>1. \A i \in Here, v \in Values : Limit(table.par[i], v) \in Values
    BY <1>0, TableFacts, LimitType DEF Here
  <2> QED BY <1>10, <2>1 DEF SetValue, TypeOK, Here, store, history
<1>11. CASE BeginSave
  BY <1>11 DEF BeginSave, TypeOK, Here, store, ram
<1>12. CASE Save
  <2>1. mem' \in Store /\ live' \in Store
    BY <1>12, StoreTypes DEF Save
  <2> QED BY <1>0, <1>12, <2>1 DEF Save, Ends, TypeOK, Here, ram
<1>13. CASE BeginSaveAll
  BY <1>13 DEF BeginSaveAll, TypeOK, Here, store, ram
<1>14. CASE Deinit
  BY <1>14 DEF Deinit, TypeOK, Here, store, history
<1>15. CASE PowerLoss
  <2>1. {mem, live, Pending} \subseteq Store
    BY PendingType DEF TypeOK
  <2>2. mem' \in Store /\ live' \in Store
    BY <1>15, <2>1, MixType DEF PowerLoss
  <2> QED BY <1>0, <1>15, <2>2 DEF PowerLoss, TypeOK, Here, history
<1>16. CASE UNCHANGED vars
  BY <1>16 DEF vars, store, ram, history, TypeOK, Here
<1> QED BY <1>1, <1>2, <1>3, <1>4, <1>5, <1>6, <1>7, <1>8, <1>9, <1>10, <1>11, <1>12,
           <1>13, <1>14, <1>15, <1>16 DEF Next

\* Every value the parameters, the store and the history take is one of its
\* type, whatever tables boot and whatever the store does, and the loops over
\* the records never leave the table (par_nvm_load_all, par_nvm_write_scalar_all).
THEOREM TypeCorrect == Spec => []TypeOK
<1>1. Init => TInv
  BY InitTypes
<1>2. TInv /\ [Next]_vars => TInv'
  BY StepTypes
<1>3. TInv => TypeOK
  BY DEF TInv
<1> QED BY <1>1, <1>2, <1>3, PTL DEF Spec
-----------------------------------------------------------------------------
(* What the store shows.  A firmware may widen no range and narrow none: a  *)
(* stored value that has to be limited stops the restore.                   *)

RangesKept ==
  \A t, u \in Tables : \A i \in 1 .. Count(t), j \in 1 .. Count(u) :
    /\ t.par[i].type = u.par[j].type
    /\ HasStoredId => t.par[i].id = u.par[j].id
    => t.par[i].min = u.par[j].min /\ t.par[i].max = u.par[j].max

\* Two tables a digest takes for one give their parameters the same IDs; a
\* layout that stores the IDs has them in the digest.
DigestTells ==
  \A t, u \in Tables : \A n \in 0 .. Count(t) :
    n <= Count(u) /\ Digest(t, n) = Digest(u, n)
      => \A i \in 1 .. n : t.par[i].id = u.par[i].id

Known(r) ==
  r # Garbage =>
    \E t \in Tables : \E i \in 1 .. Count(t) :
      /\ r.type = t.par[i].type /\ r.id = t.par[i].id
      /\ Fits(t.par[i], r.val)

RecordsFit == \A i \in Slots : Known(mem.rec[i]) /\ Known(live.rec[i])
ValuesFit  == \A i \in Here : Fits(table.par[i], val[i])

Shown(i) == Matches(live.rec[i], table.par[i]) /\ live.rec[i].val = val[i]

\* Where the append and the rewrite stand.
Progress ==
  /\ pc \in {"append", "record"} => \A i \in 1 .. cursor - 1 : Shown(i)
  /\ pc \in {"appendHeader", "header"} => \A i \in Here : Shown(i)
  /\ pc \in {"append", "appendHeader"} => ValidHeader(live, table)
  /\ pc = "append" => live.head.body.n < cursor
  /\ pc = "appendHeader" => mem = live
  /\ pc \in {"record", "header"} => ~live.head.sign

ShowInv == TInv /\ RecordsFit /\ ValuesFit /\ Progress /\ StoreShowsValues

\* Records that are as the running table wants them, or torn.
Sound(s) == \A i \in 1 .. s.head.body.n :
              s.rec[i] = Garbage \/ Matches(s.rec[i], table.par[i])

Serving ==
  trusted /\ (pc = "save" \/ (pc = "idle" /\ up)) =>
    /\ ValidHeader(live, table) /\ live.head.body.n = Count(table)
    /\ Sound(live)

Rewriting ==
  trusted /\ pc \in {"erase", "record", "header"} =>
    val = Defaults(table) \/ live.head.body = Header(table, Count(table))

Claimed == \E id \in Ids : saved[id] # None

Holds(s) ==
  /\ s.head.sign
  /\ s.head.body # Garbage =>
       /\ Compatible(s.head.body, table) /\ Sound(s)
       /\ \A i \in Here : saved[table.par[i].id] # None =>
            /\ i <= s.head.body.n
            /\ s.rec[i] = Garbage \/ s.rec[i].val = saved[table.par[i].id]

Kept ==
  trusted /\ Claimed =>
    /\ pc \notin {"erase", "record", "header"}
    /\ mem.head = live.head
    /\ Holds(mem) /\ Holds(live)

SavingNone == pc = "save" => saved[table.par[cursor].id] = None

ServeInv == ShowInv /\ Serving /\ Rewriting
KeepInv  == ServeInv /\ Kept /\ SavingNone
-----------------------------------------------------------------------------
(* Mixed stores, records and ranges.                                       *)

\* The head of a mix is made of the heads it is mixed from, or torn.
LEMMA MixHeads ==
  ASSUME NEW S, NEW s \in Mixes(S)
  PROVE  /\ \E x \in S : s.head.sign = x.head.sign
         /\ s.head.body = Garbage \/ \E x \in S : s.head.body = x.head.body
<1>1. s.head \in HeadsOf(S)
  BY DEF Mixes
<1>2. CASE "head" \in Tears /\ Differs({x.head : x \in S})
  <2> DEFINE heads == {x.head : x \in S}
  <2>1. s.head \in [sign : {h.sign : h \in heads}, body : {h.body : h \in heads} \cup {Garbage}]
    BY <1>1, <1>2 DEF HeadsOf
  <2>2. s.head.sign \in {h.sign : h \in heads} /\ s.head.body \in {h.body : h \in heads} \cup {Garbage}
    BY <2>1
  <2> QED BY <2>2
<1>3. CASE ~("head" \in Tears /\ Differs({x.head : x \in S}))
  BY <1>1, <1>3 DEF HeadsOf
<1> QED BY <1>2, <1>3

\* A head all stores agree on is not torn.
LEMMA MixSameHead ==
  ASSUME NEW S, NEW h, \A x \in S : x.head = h, NEW s \in Mixes(S)
  PROVE  s.head = h
<1>1. PICK x \in S : TRUE
  BY MixHeads
<1>2. {y.head : y \in S} = {h}
  BY <1>1
<1>3. Cardinality({h}) = 1
  BY FS_Singleton
<1>4. ~Differs({y.head : y \in S})
  BY <1>2, <1>3 DEF Differs
<1>5. s.head \in HeadsOf(S)
  BY DEF Mixes
<1> QED BY <1>2, <1>4, <1>5 DEF HeadsOf

\* A record of a mix is the record of one of the stores, or torn; one all
\* stores agree on is not torn.
LEMMA MixRecords ==
  ASSUME NEW S, NEW s \in Mixes(S), NEW i \in Slots
  PROVE  /\ s.rec[i] = Garbage \/ \E x \in S : s.rec[i] = x.rec[i]
         /\ \A r : (\A x \in S : x.rec[i] = r) => s.rec[i] = r
<1>1. s.rec[i] \in RecordsOf(S, i)
  BY DEF Mixes
<1>2. s.rec[i] = Garbage \/ \E x \in S : s.rec[i] = x.rec[i]
  BY <1>1 DEF RecordsOf
<1>3. ASSUME NEW r, \A x \in S : x.rec[i] = r
      PROVE  s.rec[i] = r
  <2>1. PICK x \in S : TRUE
    BY MixHeads
  <2> DEFINE recs == {y.rec[i] : y \in S}
  <2>2. recs = {r}
    BY <1>3, <2>1
  <2>c. Cardinality({r}) = 1
    BY FS_Singleton
  <2> HIDE DEF recs
  <2>3. ~Differs(recs)
    BY <2>2, <2>c DEF Differs
  <2>4. RecordsOf(S, i) = IF "record" \in Tears /\ Differs(recs) THEN recs \cup {Garbage}
                                                              ELSE recs
    BY DEF RecordsOf, recs
  <2> QED BY <1>1, <2>2, <2>3, <2>4
<1> QED BY <1>2, <1>3

\* The parameter of a table: its range holds its default.
LEMMA ParameterFacts ==
  ASSUME NEW t \in Tables, NEW i \in 1 .. Count(t)
  PROVE  /\ t.par[i] \in Parameter /\ i \in Slots
         /\ t.par[i].min \in Int /\ t.par[i].max \in Int /\ t.par[i].def \in Values
         /\ t.par[i].min <= t.par[i].def /\ t.par[i].def <= t.par[i].max
         /\ \A j \in 1 .. Count(t) : t.par[i].id = t.par[j].id => i = j
<1>1. t.par[i] \in Parameter /\ i \in Slots
  BY TableFacts
<1> QED BY <1>1, TablesAssumption, ValuesAssumption DEF Parameter, Count

\* A limited value is in the range; one in the range is not changed.
LEMMA LimitFits ==
  ASSUME NEW t \in Tables, NEW i \in 1 .. Count(t), NEW v \in Values
  PROVE  /\ Fits(t.par[i], Limit(t.par[i], v))
         /\ Fits(t.par[i], v) => Limit(t.par[i], v) = v
<1>1. v \in Int /\ t.par[i].min \in Int /\ t.par[i].max \in Int
      /\ t.par[i].def \in Int
      /\ t.par[i].min <= t.par[i].def /\ t.par[i].def <= t.par[i].max
  BY ParameterFacts, ValuesAssumption
<1> QED BY <1>1 DEF Limit, Fits

\* Defaults are in their ranges.
LEMMA DefaultsFit ==
  ASSUME NEW t \in Tables, NEW i \in 1 .. Count(t)
  PROVE  Fits(t.par[i], Defaults(t)[i])
  BY ParameterFacts DEF Fits, Defaults

\* With unchanged ranges a record that matches is in the range.
LEMMA MatchFits ==
  ASSUME RangesKept, NEW t \in Tables, NEW i \in 1 .. Count(t),
         NEW r, Known(r), Matches(r, t.par[i])
  PROVE  Fits(t.par[i], r.val)
  BY DEF RangesKept, Known, Matches, Fits

-----------------------------------------------------------------------------
(* What the store shows.                                                    *)

\* The steps that write, and those that do not.
LEMMA StoreSteps ==
  ASSUME [Next]_vars
  PROVE  UNCHANGED store \/ StoreOk \/ StoreFails \/ PowerLoss
  BY DEF Next, vars, Boot, LoadFails, StartOver, Restore, AppendRecord, AppendHeader,
         Erase, WriteRecord, WriteHeader, BulkFails, SetValue, BeginSave, Save,
         BeginSaveAll, Deinit

\* The running write leaves records of known parameters, in range.
LEMMA PendingFits ==
  ASSUME TInv, RecordsFit, ValuesFit, NEW i \in Slots
  PROVE  Known(Pending.rec[i])
<1>0. live \in Store /\ cursor \in Here /\ table \in Tables /\ cursor \in Slots
      /\ Here = 1 .. Count(table)
  BY TableFacts DEF TInv, TypeOK, Here
<1>1. Known(live.rec[i])
  BY DEF RecordsFit
<1>2. Known(WithRecord(live, cursor).rec[i])
  <2>1. DOMAIN live.rec = Slots
    BY <1>0 DEF Store
  <2>2. CASE i = cursor
    <3> DEFINE r == [id |-> table.par[cursor].id, type |-> table.par[cursor].type,
                     val |-> val[cursor]]
    <3>1. WithRecord(live, cursor).rec[i] = r
      BY <1>0, <2>1, <2>2 DEF WithRecord, Store
    <3>2. Fits(table.par[cursor], r.val)
      BY <1>0 DEF ValuesFit
    <3>3. Known(r)
      BY <1>0, <3>2 DEF Known
    <3> QED BY <3>1, <3>3
  <2>3. CASE i # cursor
    <3>1. WithRecord(live, cursor).rec[i] = live.rec[i]
      BY <1>0, <2>1, <2>3 DEF WithRecord, Store
    <3> QED BY <1>1, <3>1
  <2> QED BY <2>2, <2>3
<1>3. WithHeader(live).rec = live.rec /\ Unsigned(live).rec = live.rec
  BY <1>0 DEF WithHeader, Unsigned, Store
<1> QED BY <1>1, <1>2, <1>3 DEF Pending

\* Every step leaves records of known parameters, in range.
LEMMA StepRecordsFit ==
  ASSUME TInv, RecordsFit, ValuesFit, [Next]_vars
  PROVE  RecordsFit'
<1>1. \A S : (\A x \in S : \A i \in Slots : Known(x.rec[i])) =>
         \A s \in Mixes(S) : \A i \in Slots : Known(s.rec[i])
  <2> SUFFICES ASSUME NEW S, \A x \in S : \A i \in Slots : Known(x.rec[i]),
                      NEW s \in Mixes(S), NEW i \in Slots
               PROVE  Known(s.rec[i])
    OBVIOUS
  <2>1. s.rec[i] = Garbage \/ \E x \in S : s.rec[i] = x.rec[i]
    BY MixRecords
  <2>2. Known(Garbage)
    BY DEF Known
  <2> QED BY <2>1, <2>2
<1>2. \A i \in Slots : Known(Pending.rec[i])
  BY PendingFits
<1>3. CASE UNCHANGED store
  BY <1>3 DEF RecordsFit, store
<1>4. CASE StoreOk
  BY <1>2, <1>4 DEF RecordsFit, StoreOk
<1>5. CASE StoreFails
  <2>1. live' \in Mixes({live, Pending}) /\ mem' \in Mixes({mem, live', Pending})
    BY <1>5 DEF StoreFails
  <2>2. \A i \in Slots : Known(live'.rec[i])
    BY <1>1, <1>2, <2>1 DEF RecordsFit
  <2>3. \A x \in {mem, live', Pending} : \A i \in Slots : Known(x.rec[i])
    BY <1>2, <2>2 DEF RecordsFit
  <2>4. \A i \in Slots : Known(mem'.rec[i])
    BY <1>1, <2>1, <2>3
  <2> QED BY <2>2, <2>4 DEF RecordsFit
<1>6. CASE PowerLoss
  <2>1. mem' = mem \/ mem' \in Mixes({mem, live, Pending})
    BY <1>6 DEF PowerLoss
  <2>2. \A x \in {mem, live, Pending} : \A i \in Slots : Known(x.rec[i])
    BY <1>2 DEF RecordsFit
  <2>3. \A i \in Slots : Known(mem'.rec[i])
    BY <1>1, <2>1, <2>2
  <2> QED BY <1>6, <2>3 DEF PowerLoss, RecordsFit
<1> QED BY <1>3, <1>4, <1>5, <1>6, StoreSteps

\* Every step leaves the live values in their ranges.
LEMMA StepValuesFit ==
  ASSUME TInv, ValuesFit, [Next]_vars
  PROVE  ValuesFit'
<1>0. table \in Tables /\ Here = 1 .. Count(table) /\ val \in [Here -> Values]
  BY DEF TInv, TypeOK, Here
<1>1. CASE UNCHANGED <<table, val>>
  BY <1>1 DEF ValuesFit, Here
<1>2. CASE table' \in Tables /\ val' = Defaults(table')
  BY <1>2, DefaultsFit DEF ValuesFit, Here
<1>3. CASE Restore
  <2> SUFFICES ASSUME NEW i \in Here PROVE Fits(table.par[i], val'[i])
    BY <1>3 DEF ValuesFit, Here, Restore
  <2>1. val'[i] = IF RestoredTo(live, table, i)
                  THEN Limit(table.par[i], live.rec[i].val) ELSE val[i]
    BY <1>0, <1>3 DEF Restore, RestoredOver
  <2>2. CASE RestoredTo(live, table, i)
    <3>1. live.rec[i] # Garbage /\ live.rec[i] \in Record \cup {Garbage}
      BY <1>0, <1>3, <2>2, ParameterFacts
         DEF RestoredTo, Matches, TInv, TypeOK, Store
    <3>2. live.rec[i].val \in Values
      BY <3>1 DEF Record
    <3> QED BY <1>0, <2>1, <2>2, <3>2, LimitFits
  <2> QED BY <2>1, <2>2 DEF ValuesFit
<1>4. CASE SetValue
  <2>1. PICK i \in Here, v \in Values : val' = [val EXCEPT ![i] = Limit(table.par[i], v)]
    BY <1>4 DEF SetValue
  <2> QED BY <1>0, <1>4, <2>1, LimitFits DEF SetValue, ValuesFit, Here
<1> QED BY <1>0, <1>1, <1>2, <1>3, <1>4
     DEF Next, vars, ram, Boot, LoadFails, InitFails, StartOver, AppendRecord, AppendHeader,
         Erase, WriteRecord, WriteHeader, BeginSave, Save, BeginSaveAll, Deinit, PowerLoss
\* Where no range has changed, restoring stops at no limit: it restores every
\* record the header covers.
LEMMA RestoreFacts ==
  ASSUME RangesKept, NEW s \in Store, NEW t \in Tables, NEW v,
         \A i \in Slots : Known(s.rec[i]), ValidHeader(s, t), Readable(s, t)
  PROVE  /\ ~StopsAtLimit(s, t)
         /\ s.head.body.n \in Nat /\ s.head.body.n <= Count(t)
         /\ \A i \in 1 .. s.head.body.n :
              /\ i \in 1 .. Count(t)
              /\ Matches(s.rec[i], t.par[i])
              /\ RestoredOver(s, t, v)[i] = s.rec[i].val
<1>0. Count(t) \in Nat /\ s.head.body.n \in Nat /\ s.head.body.n <= Count(t)
  <2>1. s.head.body \in Headers
    BY DEF ValidHeader, Compatible, Store, HeadPart
  <2> QED BY <2>1, HeadersCount, TableFacts DEF ValidHeader, Compatible
<1>1. \A i \in 1 .. s.head.body.n :
         i \in 1 .. Count(t) /\ i \in Slots /\ Known(s.rec[i])
  BY <1>0, TableFacts
<1>2. \A i \in 1 .. s.head.body.n :
         Matches(s.rec[i], t.par[i]) => Fits(t.par[i], s.rec[i].val)
  BY <1>0, <1>1, MatchFits
<1>3. ~StopsAtLimit(s, t)
  <2> SUFFICES ASSUME NEW i \in 1 .. s.head.body.n, RestoredTo(s, t, i),
                      ~Fits(t.par[i], s.rec[i].val)
               PROVE  FALSE
    BY DEF StopsAtLimit
  <2>1. Matches(s.rec[i], t.par[i])
    BY <1>0 DEF RestoredTo
  <2> QED BY <1>2, <2>1
<1>4. \A i \in 1 .. s.head.body.n : Matches(s.rec[i], t.par[i])
  BY <1>3 DEF Readable
<1>5. ASSUME NEW i \in 1 .. s.head.body.n
      PROVE  RestoredOver(s, t, v)[i] = s.rec[i].val
  <2>1. RestoredTo(s, t, i)
    BY <1>0, <1>2, <1>4 DEF RestoredTo
  <2>2. s.rec[i].val \in Values
    BY <1>1, <1>4 DEF Matches, Store, Record
  <2>3. Limit(t.par[i], s.rec[i].val) = s.rec[i].val
    BY <1>0, <1>1, <1>2, <1>4, <2>2, LimitFits
  <2> QED BY <1>0, <1>1, <2>1, <2>3 DEF RestoredOver
<1> QED BY <1>0, <1>1, <1>3, <1>4, <1>5

\* A record that has been written shows the live value, and the others show
\* what they did.
LEMMA RecordWritten ==
  ASSUME TypeOK, UNCHANGED <<table, val>>, live' = WithRecord(live, cursor)
  PROVE  /\ live'.head = live.head
         /\ Matches(live'.rec[cursor], table.par[cursor])
         /\ live'.rec[cursor].val = val[cursor]
         /\ \A i \in Here \ {cursor} : live'.rec[i] = live.rec[i]
         /\ \A i \in Here \ {cursor} : Shown(i) => Shown(i)'
<1>0. /\ live \in Store /\ cursor \in Here /\ table \in Tables
      /\ Here = 1 .. Count(table) /\ Here \subseteq Slots /\ Here' = Here
  BY TableFacts DEF TypeOK, Here
<1> DEFINE r == [id |-> table.par[cursor].id, type |-> table.par[cursor].type,
                 val |-> val[cursor]]
<1>1. live'.head = live.head /\ live'.rec = [live.rec EXCEPT ![cursor] = r]
  BY <1>0 DEF WithRecord, Store
<1>2. live.rec \in [Slots -> Record \cup {Garbage}]
  BY <1>0 DEF Store
<1>3. live'.rec[cursor] = r /\ \A i \in Here \ {cursor} : live'.rec[i] = live.rec[i]
  BY <1>0, <1>1, <1>2
<1>4. r \in Record /\ r # Garbage
  BY <1>0, ParameterFacts, GarbageAssumption DEF Record, Parameter, TypeOK
<1>5. Matches(live'.rec[cursor], table.par[cursor]) /\ live'.rec[cursor].val = val[cursor]
  BY <1>3, <1>4 DEF Matches
<1> QED BY <1>1, <1>3, <1>5 DEF Shown
\* A header that has been written covers the table and touches no record.
LEMMA HeaderWritten ==
  ASSUME TypeOK, UNCHANGED <<table, val>>, live' = WithHeader(live)
  PROVE  /\ live'.rec = live.rec
         /\ live'.head = [sign |-> TRUE, body |-> Header(table, Count(table))]
         /\ ValidHeader(live', table) /\ live'.head.body.n = Count(table)
         /\ \A i : Shown(i) => Shown(i)'
<1>1. live'.rec = live.rec
      /\ live'.head = [sign |-> TRUE, body |-> Header(table, Count(table))]
  BY DEF WithHeader, TypeOK, Store
<1>2. table \in Tables /\ Count(table) \in Nat /\ Header(table, Count(table)) # Garbage
  BY TableFacts, HeaderType, GarbageAssumption DEF TypeOK
<1>3. ValidHeader(live', table) /\ live'.head.body.n = Count(table)
  BY <1>1, <1>2 DEF ValidHeader, Compatible, Header
<1> QED BY <1>1, <1>3 DEF Shown

\* Every step keeps what is said of the loops that write records, and of the
\* store when init or a save of all has answered ok.
LEMMA StepProgress ==
  ASSUME RangesKept, ShowInv, [Next]_vars
  PROVE  Progress' /\ StoreShowsValues'
<1>0. TInv /\ TypeOK /\ RecordsFit /\ ValuesFit /\ Progress /\ StoreShowsValues
  BY DEF ShowInv, TInv
<1>a. table \in Tables /\ Here = 1 .. Count(table) /\ Count(table) \in Nat
      /\ val \in [Here -> Values]
  BY <1>0, TableFacts DEF TypeOK, Here
<1>1. CASE Boot
  BY <1>1 DEF Boot, Progress, StoreShowsValues
<1>2. CASE LoadFails \/ SetValue \/ BeginSave \/ BeginSaveAll \/ Deinit \/ PowerLoss
  BY <1>2 DEF LoadFails, InitFails, Ends, SetValue, BeginSave, BeginSaveAll, Deinit,
              PowerLoss, Progress, StoreShowsValues
<1>3. CASE StartOver
  BY <1>3 DEF StartOver, Progress, StoreShowsValues
<1>4. CASE Restore
  <2> DEFINE n == live.head.body.n
  <2>1. /\ ~StopsAtLimit(live, table) /\ n \in Nat /\ n <= Count(table)
        /\ \A i \in 1 .. n : i \in Here /\ Matches(live.rec[i], table.par[i])
                             /\ val'[i] = live.rec[i].val
    <3>1. /\ live \in Store /\ \A i \in Slots : Known(live.rec[i])
          /\ ValidHeader(live, table) /\ Readable(live, table)
          /\ val' = RestoredOver(live, table, val)
      BY <1>0, <1>4 DEF Restore, RecordsFit, TypeOK
    <3> QED BY <1>a, <3>1, RestoreFacts
  <2>2. UNCHANGED <<store, table>> /\ ValidHeader(live, table) /\ Here' = Here
    BY <1>4 DEF Restore, Here
  <2>3. \A i \in 1 .. n : Shown(i)'
    BY <2>1, <2>2 DEF Shown, store
  <2>4. CASE n < Count(table)
    <3>1. pc' = "append" /\ cursor' = n + 1
      BY <1>4, <2>1, <2>4 DEF Restore
    <3>2. \A i \in 1 .. cursor' - 1 : Shown(i)'
      BY <2>1, <2>3, <3>1
    <3>3. ValidHeader(live, table)' /\ live'.head.body.n < cursor'
      BY <2>1, <2>2, <3>1 DEF store
    <3> QED BY <3>1, <3>2, <3>3 DEF Progress, StoreShowsValues
  <2>5. CASE n = Count(table)
    <3>1. pc' = "idle"
      BY <1>4, <2>1, <2>5 DEF Restore, Ends
    <3>2. \A i \in Here : Shown(i)'
      BY <1>a, <2>3, <2>5
    <3> QED BY <2>2, <2>5, <3>1, <3>2 DEF Progress, StoreShowsValues, Shown, store
  <2> QED BY <1>a, <2>1, <2>4, <2>5
<1>5. CASE AppendRecord \/ WriteRecord
  <2>1. CASE pc' = "idle" /\ reply' = "error"
    BY <2>1 DEF Progress, StoreShowsValues
  <2>2. CASE StoreOk /\ pc' # "idle"
    <3>1. /\ pc \in {"append", "record"} /\ UNCHANGED <<table, val>>
          /\ live' = WithRecord(live, cursor) /\ mem' = live' /\ Here' = Here
      BY <1>5, <2>2 DEF AppendRecord, WriteRecord, InitFails, BulkFails, Ends, StoreOk,
                        Pending, ram, Here
    <3>2. /\ live'.head = live.head
          /\ Matches(live'.rec[cursor], table.par[cursor])
          /\ live'.rec[cursor].val = val[cursor]
          /\ \A i \in Here \ {cursor} : Shown(i) => Shown(i)'
      BY <1>0, <3>1, RecordWritten
    <3>3. cursor \in Here
      BY <1>0 DEF TypeOK
    <3>4. \A i \in 1 .. cursor : Shown(i)'
      <4> SUFFICES ASSUME NEW i \in 1 .. cursor PROVE Shown(i)'
        OBVIOUS
      <4>1. i \in Here
        BY <1>a, <3>3
      <4>2. CASE i = cursor
        BY <3>1, <3>2, <4>2 DEF Shown
      <4>3. CASE i # cursor
        <5>1. Shown(i)
          BY <1>0, <1>a, <3>1, <3>3, <4>3 DEF Progress
        <5> QED BY <3>2, <4>1, <4>3, <5>1
      <4> QED BY <4>2, <4>3
    <3>5. /\ ValidHeader(live, table)' <=> ValidHeader(live, table)
          /\ live'.head.body.n = live.head.body.n
          /\ live'.head.sign = live.head.sign
      BY <3>1, <3>2 DEF ValidHeader
    <3>6. CASE cursor < Count(table)
      <4>1. pc' = pc /\ cursor' = cursor + 1
        BY <1>5, <2>2, <3>6 DEF AppendRecord, WriteRecord, InitFails, BulkFails, Ends
      <4>2. \A i \in 1 .. cursor' - 1 : Shown(i)'
        BY <1>a, <3>3, <3>4, <4>1
      <4>3. pc = "append" => live'.head.body.n < cursor'
        <5> SUFFICES ASSUME pc = "append" PROVE live.head.body.n < cursor + 1
          BY <3>5, <4>1
        <5>1. live.head.body.n < cursor /\ live.head.body \in Headers
          BY <1>0 DEF Progress, ValidHeader, Compatible, TypeOK, Store, HeadPart
        <5>2. live.head.body.n \in Nat
          BY <5>1, HeadersCount
        <5> QED BY <1>a, <3>3, <5>1, <5>2
      <4> QED BY <1>0, <3>1, <3>5, <4>1, <4>2, <4>3 DEF Progress, StoreShowsValues
    <3>7. CASE ~(cursor < Count(table))
      <4>1. pc' = IF pc = "append" THEN "appendHeader" ELSE "header"
        BY <1>5, <2>2, <3>7 DEF AppendRecord, WriteRecord, InitFails, BulkFails, Ends
      <4>2. cursor = Count(table)
        BY <1>a, <3>3, <3>7
      <4>3. \A i \in Here : Shown(i)'
        BY <1>a, <3>4, <4>2
      <4> QED BY <1>0, <3>1, <3>5, <4>1, <4>3 DEF Progress, StoreShowsValues
    <3> QED BY <3>6, <3>7
  <2> QED BY <1>5, <2>1, <2>2 DEF AppendRecord, WriteRecord, BulkFails, InitFails, Ends
<1>6. CASE Erase
  <2>1. CASE pc' = "idle" /\ reply' = "error"
    BY <2>1 DEF Progress, StoreShowsValues
  <2>2. CASE StoreOk /\ pc' = "record" /\ cursor' = cursor
    <3>1. pc = "erase" /\ live' = Unsigned(live)
      BY <1>6, <2>2 DEF Erase, StoreOk, Pending
    <3>2. cursor = 1 /\ ~live'.head.sign
      BY <1>0, <3>1 DEF TInv, CursorRests, Unsigned, TypeOK, Store, HeadPart
    <3> QED BY <2>2, <3>2 DEF Progress, StoreShowsValues
  <2> QED BY <1>6, <2>1, <2>2 DEF Erase, BulkFails, Ends
<1>7. CASE AppendHeader \/ WriteHeader
  <2>1. CASE pc' = "idle" /\ reply' = "error"
    BY <2>1 DEF Progress, StoreShowsValues
  <2>2. CASE StoreOk /\ UNCHANGED <<table, val>> /\ pc' = "idle"
    <3>1. pc \in {"appendHeader", "header"} /\ live' = WithHeader(live) /\ Here' = Here
      BY <1>7, <2>2 DEF AppendHeader, WriteHeader, StoreOk, Pending, Here
    <3>2. /\ ValidHeader(live', table) /\ live'.head.body.n = Count(table)
          /\ \A i : Shown(i) => Shown(i)'
      BY <1>0, <2>2, <3>1, HeaderWritten
    <3>3. \A i \in Here : Shown(i)'
      BY <1>0, <3>1, <3>2 DEF Progress
    <3> QED BY <2>2, <3>1, <3>2, <3>3 DEF Progress, StoreShowsValues, Shown
  <2> QED BY <1>7, <2>1, <2>2 DEF AppendHeader, WriteHeader, BulkFails, InitFails, Ends, ram
<1>8. CASE Save
  <2>1. pc' = "idle" /\ reply' \in {"saveOk", "error"}
    BY <1>8 DEF Save, Ends
  <2> QED BY <2>1 DEF Progress, StoreShowsValues
<1>9. CASE UNCHANGED vars
  BY <1>0, <1>9 DEF vars, store, ram, Progress, StoreShowsValues, Shown, Here
<1> QED BY <1>1, <1>2, <1>3, <1>4, <1>5, <1>6, <1>7, <1>8, <1>9 DEF Next

\* The invariant holds at the start and every step keeps it.
LEMMA InitShows == Init => ShowInv
<1> SUFFICES ASSUME Init PROVE ShowInv
  OBVIOUS
<1>1. RecordsFit
  BY DEF Init, Blank, RecordsFit, Known
<1>2. ValuesFit
  BY DefaultsFit DEF Init, ValuesFit, Here
<1>3. Progress /\ StoreShowsValues
  BY DEF Init, Progress, StoreShowsValues
<1> QED BY <1>1, <1>2, <1>3, InitTypes DEF ShowInv

\* Every step keeps the types, the ranges and what the loops have written.
LEMMA NextShows == RangesKept /\ ShowInv /\ [Next]_vars => ShowInv'
  BY StepTypes, StepRecordsFit, StepValuesFit, StepProgress DEF ShowInv

\* When init or a save of all has answered ok, the header covers the whole
\* table and every record holds the live value of its parameter
\* (par_nvm_init, par_nvm_write_scalar_all), for any tables whose ranges never
\* change, and any faults.
THEOREM InitShowsValues == RangesKept => (Spec => []StoreShowsValues)
<1> SUFFICES ASSUME RangesKept PROVE Spec => []StoreShowsValues
  OBVIOUS
<1>1. Init => ShowInv
  BY InitShows
<1>2. ShowInv /\ [Next]_vars => ShowInv'
  BY NextShows
<1>3. ShowInv => StoreShowsValues
  BY DEF ShowInv
<1> QED BY <1>1, <1>2, <1>3, PTL DEF Spec
-----------------------------------------------------------------------------
(* The rewrite of the whole image.                                          *)

\* A header that says it covers the whole table is the table's.
LEMMA HeaderUnique ==
  ASSUME NEW h \in Headers, NEW t \in Tables, Compatible(h, t), h.n = Count(t)
  PROVE  h = Header(t, Count(t))
<1>1. PICK u \in Tables : \E n \in 0 .. Count(u) : h = Header(u, n)
  BY DEF Headers
<1>2. PICK n \in 0 .. Count(u) : h = [n |-> n, id |-> Digest(u, n)]
  BY <1>1 DEF Header
<1>3. h.n = n /\ h.id = Digest(u, n)
  BY <1>2
<1>4. h.id = Digest(t, Count(t))
  BY DEF Compatible
<1> QED BY <1>2, <1>3, <1>4 DEF Header

\* A record written over a sound image leaves it sound.
LEMMA RecordSound ==
  ASSUME TypeOK, Sound(live), live.head.body \in Headers, live.head.body.n <= Count(table)
  PROVE  /\ Sound(WithRecord(live, cursor))
         /\ WithRecord(live, cursor).head = live.head
         /\ \A i \in Here \ {cursor} : WithRecord(live, cursor).rec[i] = live.rec[i]
<1>0. /\ live \in Store /\ cursor \in Here /\ table \in Tables
      /\ Here = 1 .. Count(table) /\ Here \subseteq Slots /\ Count(table) \in Nat
      /\ live.head.body.n \in Nat
  BY TableFacts, HeadersCount DEF TypeOK, Here
<1> DEFINE r == [id |-> table.par[cursor].id, type |-> table.par[cursor].type,
                 val |-> val[cursor]]
           w == WithRecord(live, cursor)
<1>1. w.head = live.head /\ w.rec = [live.rec EXCEPT ![cursor] = r]
  BY <1>0 DEF WithRecord, Store
<1>2. live.rec \in [Slots -> Record \cup {Garbage}]
  BY <1>0 DEF Store
<1>3. w.rec[cursor] = r /\ \A i \in Here \ {cursor} : w.rec[i] = live.rec[i]
  BY <1>0, <1>1, <1>2
<1>4. r \in Record /\ r # Garbage
  BY <1>0, ParameterFacts, GarbageAssumption DEF Record, Parameter, TypeOK
<1>5. Matches(w.rec[cursor], table.par[cursor])
  BY <1>3, <1>4 DEF Matches
<1> HIDE DEF w
<1>6. Sound(w)
  <2> SUFFICES ASSUME NEW i \in 1 .. live.head.body.n
               PROVE  w.rec[i] = Garbage \/ Matches(w.rec[i], table.par[i])
    BY <1>1 DEF Sound
  <2>1. i \in Here
    BY <1>0
  <2>2. CASE i = cursor
    BY <1>5, <2>2
  <2>3. CASE i # cursor
    BY <1>3, <2>1, <2>3 DEF Sound
  <2> QED BY <2>2, <2>3
<1> QED BY <1>1, <1>3, <1>6 DEF w

\* Stores with one head and sound records mix to such a store.
LEMMA MixSound ==
  ASSUME NEW S, NEW h, \A x \in S : x.head = h /\ Sound(x),
         h.body \in Headers, h.body.n <= MaxSlots, NEW s \in Mixes(S)
  PROVE  s.head = h /\ Sound(s)
<1>1. s.head = h
  BY MixSameHead
<1>2. 1 .. h.body.n \subseteq Slots
  BY HeadersCount, TablesAssumption DEF Slots
<1>3. ASSUME NEW i \in 1 .. h.body.n
      PROVE  s.rec[i] = Garbage \/ Matches(s.rec[i], table.par[i])
  <2>1. s.rec[i] = Garbage \/ \E x \in S : s.rec[i] = x.rec[i]
    BY <1>2, MixRecords
  <2> QED BY <2>1 DEF Sound
<1> QED BY <1>1, <1>3 DEF Sound

\* Facts of a valid header.
LEMMA ValidFacts ==
  ASSUME NEW s \in Store, NEW t \in Tables, ValidHeader(s, t)
  PROVE  /\ s.head.body \in Headers /\ s.head.body.n \in Nat
         /\ s.head.body.n <= Count(t) /\ s.head.body.n <= MaxSlots
<1>1. s.head.body \in Headers /\ s.head.body.n <= Count(t)
  BY DEF ValidHeader, Compatible, Store, HeadPart
<1> QED BY <1>1, HeadersCount, TableFacts DEF Slots

\* Every step keeps what is said of the store that serves requests, and of
\* the header and the values of a rewrite.
LEMMA StepServes ==
  ASSUME RangesKept, ServeInv, ShowInv', [Next]_vars
  PROVE  Serving' /\ Rewriting'
<1>0. TypeOK /\ TypeOK' /\ ShowInv /\ Serving /\ Rewriting /\ Progress
  BY DEF ServeInv, ShowInv, TInv
<1>a. /\ table \in Tables /\ Here = 1 .. Count(table) /\ Count(table) \in Nat
      /\ live \in Store
  BY <1>0, TableFacts DEF TypeOK, Here
<1>1. CASE ~trusted'
  BY <1>1 DEF Serving, Rewriting
<1>2. CASE Boot
  BY <1>2 DEF Boot, Serving, Rewriting
<1>3. CASE Deinit \/ PowerLoss
  BY <1>3 DEF Deinit, PowerLoss, Serving, Rewriting
<1>4. CASE StartOver
  BY <1>4 DEF StartOver, Serving, Rewriting
<1>5. CASE Restore
  <2>1. /\ live' = live /\ table' = table /\ pc' \in {"append", "idle"}
        /\ ValidHeader(live, table) /\ Readable(live, table)
        /\ pc' = "idle" => ~(live.head.body.n < Count(table)) \/ StopsAtLimit(live, table)
    BY <1>5 DEF Restore, Ends, store
  <2>2. \A i \in Slots : Known(live.rec[i])
    BY <1>0 DEF ShowInv, RecordsFit
  <2>3. /\ ~StopsAtLimit(live, table)
        /\ live.head.body.n \in Nat /\ live.head.body.n <= Count(table)
        /\ \A i \in 1 .. live.head.body.n : Matches(live.rec[i], table.par[i])
    BY <1>a, <2>1, <2>2, RestoreFacts
  <2>4. Sound(live)
    BY <2>3 DEF Sound
  <2>5. Sound(live)' /\ (ValidHeader(live, table)' <=> ValidHeader(live, table))
    BY <2>1, <2>4 DEF Sound
  <2> QED BY <1>a, <2>1, <2>3, <2>5 DEF Serving, Rewriting
<1>6. CASE AppendRecord /\ trusted'
  BY <1>6 DEF AppendRecord, InitFails, Serving, Rewriting
<1>7. CASE (AppendHeader \/ WriteHeader) /\ trusted'
  <2>1. /\ pc \in {"appendHeader", "header"} /\ live' = WithHeader(live)
        /\ UNCHANGED <<table, val>> /\ pc' = "idle"
    BY <1>7 DEF AppendHeader, WriteHeader, InitFails, BulkFails, Ends, StoreOk, Pending, ram
  <2>2. /\ ValidHeader(live', table) /\ live'.head.body.n = Count(table)
        /\ \A i \in Here : Shown(i)'
    BY <1>0, <2>1, HeaderWritten DEF Progress
  <2>3. Sound(live)'
    BY <1>a, <2>1, <2>2 DEF Sound, Shown
  <2> QED BY <2>1, <2>2, <2>3 DEF Serving, Rewriting
<1>8. CASE (Erase \/ WriteRecord) /\ trusted'
  <2>1. /\ pc \in {"erase", "record"} /\ pc' \in {"record", "header"}
        /\ live' = Pending /\ UNCHANGED <<table, val>> /\ trusted
    BY <1>8 DEF Erase, WriteRecord, BulkFails, StoreOk, ram, history
  <2>2. live'.head.body = live.head.body
    BY <1>a, <2>1 DEF Pending, Unsigned, WithRecord, Store, HeadPart
  <2> QED BY <1>0, <2>1, <2>2 DEF Serving, Rewriting
<1>9. CASE SetValue \/ BeginSave
  <2>1. /\ UNCHANGED <<live, table, trusted, up>>
        /\ \/ pc = "idle" /\ pc' = "idle"
           \/ pc = "idle" /\ up /\ pc' = "save"
    BY <1>9 DEF SetValue, BeginSave, store, history, ram
  <2> QED BY <1>0, <2>1 DEF Serving, Rewriting, Sound
<1>10. CASE BeginSaveAll
  <2>1. /\ UNCHANGED <<live, table, trusted>> /\ pc = "idle" /\ up /\ pc' = "erase"
    BY <1>10 DEF BeginSaveAll, store, ram
  <2>2. ASSUME trusted PROVE live.head.body = Header(table, Count(table))
    <3>1. ValidHeader(live, table) /\ live.head.body.n = Count(table)
      BY <1>0, <2>1, <2>2 DEF Serving
    <3>2. live.head.body \in Headers /\ Compatible(live.head.body, table)
      BY <1>a, <3>1, ValidFacts DEF ValidHeader
    <3> QED BY <1>a, <3>1, <3>2, HeaderUnique
  <2> QED BY <2>1, <2>2 DEF Serving, Rewriting
<1>11. CASE Save /\ trusted'
  <2>1. /\ UNCHANGED <<table, trusted>> /\ pc = "save" /\ pc' = "idle"
        /\ StoreOk \/ StoreFails
    BY <1>11 DEF Save, Ends, ram
  <2>2. /\ ValidHeader(live, table) /\ live.head.body.n = Count(table) /\ Sound(live)
    BY <1>0, <1>11, <2>1 DEF Serving
  <2>3. /\ live.head.body \in Headers /\ live.head.body.n <= MaxSlots
        /\ live.head.body.n <= Count(table)
    BY <1>a, <2>2, ValidFacts
  <2>4. Pending = WithRecord(live, cursor) /\ Pending.head = live.head /\ Sound(Pending)
    BY <1>0, <2>1, <2>2, <2>3, RecordSound DEF Pending
  <2>5. live'.head = live.head /\ Sound(live')
    <3>1. CASE StoreOk
      BY <2>4, <3>1 DEF StoreOk
    <3>2. CASE StoreFails
      <4>1. live' \in Mixes({live, Pending})
        BY <3>2 DEF StoreFails
      <4>2. \A x \in {live, Pending} : x.head = live.head /\ Sound(x)
        BY <2>2, <2>4
      <4> QED BY <2>3, <4>1, <4>2, MixSound
    <3> QED BY <2>1, <3>1, <3>2
  <2>6. Sound(live)'
    BY <2>1, <2>5 DEF Sound
  <2>7. ValidHeader(live, table)'
    BY <2>1, <2>2, <2>5 DEF ValidHeader
  <2> QED BY <2>1, <2>2, <2>5, <2>6, <2>7 DEF Serving, Rewriting
<1>12. CASE UNCHANGED vars
  <2>1. UNCHANGED <<live, table, trusted, up, pc, val>>
    BY <1>12 DEF vars, store, ram, history
  <2> QED BY <1>0, <2>1 DEF Serving, Rewriting, Sound
<1>13. LoadFails => ~trusted'
  BY DEF LoadFails, InitFails
<1> QED BY <1>1, <1>2, <1>3, <1>4, <1>5, <1>6, <1>7, <1>8, <1>9, <1>10, <1>11, <1>12,
           <1>13 DEF Next
\* Nothing has been rewritten at the start.
LEMMA InitServes == Init => ServeInv
  BY InitShows DEF Init, ServeInv, Serving, Rewriting

\* Every step keeps what the rewrite rests on.
LEMMA NextServes == RangesKept /\ ServeInv /\ [Next]_vars => ServeInv'
  BY NextShows, StepServes DEF ServeInv

\* What a write that starts from a durable store, or is cut, leaves of it.
LEMMA Between ==
  ASSUME mem = live, StoreOk \/ StoreFails \/ PowerLoss
  PROVE  /\ mem'.head.sign \in {live.head.sign, Pending.head.sign}
         /\ mem'.head.body \in {live.head.body, Pending.head.body, Garbage}
         /\ live.head = Pending.head => mem'.head = live.head
         /\ \A i \in Slots : live.rec[i] = Pending.rec[i] => mem'.rec[i] = live.rec[i]
<1>1. ASSUME NEW S, NEW s \in Mixes(S),
             \A x \in S : /\ x.head.sign \in {live.head.sign, Pending.head.sign}
                          /\ x.head.body \in {live.head.body, Pending.head.body, Garbage}
                          /\ live.head = Pending.head => x.head = live.head
                          /\ \A i \in Slots : live.rec[i] = Pending.rec[i]
                                                => x.rec[i] = live.rec[i]
      PROVE  /\ s.head.sign \in {live.head.sign, Pending.head.sign}
             /\ s.head.body \in {live.head.body, Pending.head.body, Garbage}
             /\ live.head = Pending.head => s.head = live.head
             /\ \A i \in Slots : live.rec[i] = Pending.rec[i] => s.rec[i] = live.rec[i]
  <2>1. /\ s.head.sign \in {live.head.sign, Pending.head.sign}
        /\ s.head.body \in {live.head.body, Pending.head.body, Garbage}
    BY <1>1, MixHeads
  <2>2. live.head = Pending.head => s.head = live.head
    BY <1>1, MixSameHead
  <2>3. ASSUME NEW i \in Slots, live.rec[i] = Pending.rec[i]
        PROVE  s.rec[i] = live.rec[i]
    <3>1. \A x \in S : x.rec[i] = live.rec[i]
      BY <1>1, <2>3
    <3> QED BY <3>1, MixRecords
  <2> QED BY <2>1, <2>2, <2>3
<1>2. CASE StoreOk
  BY <1>2 DEF StoreOk
<1>3. CASE StoreFails
  <2>1. live' \in Mixes({live, Pending}) /\ mem' \in Mixes({mem, live', Pending})
    BY <1>3 DEF StoreFails
  <2>2. /\ live'.head.sign \in {live.head.sign, Pending.head.sign}
        /\ live'.head.body \in {live.head.body, Pending.head.body, Garbage}
        /\ live.head = Pending.head => live'.head = live.head
        /\ \A i \in Slots : live.rec[i] = Pending.rec[i] => live'.rec[i] = live.rec[i]
    BY <1>1, <2>1
  <2> QED BY <1>1, <2>1, <2>2
<1>4. CASE PowerLoss
  <2>1. mem' = mem \/ mem' \in Mixes({mem, live, Pending})
    BY <1>4 DEF PowerLoss
  <2> QED BY <1>1, <2>1
<1> QED BY <1>2, <1>3, <1>4

\* Records that show the values restore to them.
LEMMA ShownRestores ==
  ASSUME RangesKept, NEW s \in Store, NEW t \in Tables, NEW v, NEW w \in [1 .. Count(t) -> Values],
         \A i \in Slots : Known(s.rec[i]),
         ValidHeader(s, t), Readable(s, t),
         \A i \in 1 .. Count(t) : Matches(s.rec[i], t.par[i]) => s.rec[i].val = w[i],
         \A i \in 1 .. Count(t) : i <= s.head.body.n \/ v[i] = w[i]
  PROVE  RestoredOver(s, t, v) = w
<1>1. /\ s.head.body.n \in Nat
      /\ \A i \in 1 .. s.head.body.n :
           /\ i \in 1 .. Count(t) /\ Matches(s.rec[i], t.par[i])
           /\ RestoredOver(s, t, v)[i] = s.rec[i].val
  BY RestoreFacts
<1>2. ASSUME NEW i \in 1 .. Count(t) PROVE RestoredOver(s, t, v)[i] = w[i]
  <2>1. CASE i <= s.head.body.n
    <3>1. i \in 1 .. s.head.body.n
      BY <1>1, <2>1
    <3> QED BY <1>1, <3>1
  <2>2. CASE ~(i <= s.head.body.n)
    BY <2>2 DEF RestoredOver, RestoredTo
  <2> QED BY <2>1, <2>2
<1> QED BY <1>2 DEF RestoredOver

\* Every step of a rewrite leaves the old values, the defaults or the new ones
\* to a reset.
LEMMA RewriteStep ==
  ASSUME RangesKept, ServeInv, ShowInv', [Next]_vars, trusted, mem = live,
         pc \in {"erase", "record", "header"}
  PROVE  Restored(mem', table) \in {Restored(mem, table), Defaults(table), val}
<1>0. TypeOK /\ TypeOK' /\ ShowInv /\ Rewriting /\ Progress
  BY DEF ServeInv, ShowInv, TInv
<1>a. /\ table \in Tables /\ Here = 1 .. Count(table) /\ Count(table) \in Nat
      /\ live \in Store /\ mem' \in Store /\ Here \subseteq Slots /\ cursor \in Here
      /\ val \in [Here -> Values]
  BY <1>0, TableFacts DEF TypeOK, Here
<1>b. \A i \in Slots : Known(mem'.rec[i])
  BY DEF ShowInv, RecordsFit
<1>1. CASE UNCHANGED store
  BY <1>1 DEF store
<1>2. CASE ~ValidHeader(mem', table) \/ ~Readable(mem', table)
  BY <1>2 DEF Restored
<1>3. CASE /\ StoreOk \/ StoreFails \/ PowerLoss
           /\ ValidHeader(mem', table) /\ Readable(mem', table)
  <2>1. /\ mem'.head.sign \in {live.head.sign, Pending.head.sign}
        /\ mem'.head.body \in {live.head.body, Pending.head.body, Garbage}
        /\ live.head = Pending.head => mem'.head = live.head
        /\ \A i \in Slots : live.rec[i] = Pending.rec[i] => mem'.rec[i] = live.rec[i]
    BY <1>3, Between
  <2>2. mem'.head.sign /\ mem'.head.body # Garbage
    BY <1>3 DEF ValidHeader, Compatible
  <2>3. CASE pc = "erase"
    <3>1. Pending = Unsigned(live)
      BY <2>3 DEF Pending
    <3>2. /\ Pending.head.sign = FALSE /\ Pending.head.body = live.head.body
          /\ Pending.rec = live.rec
      BY <1>a, <3>1 DEF Unsigned, Store, HeadPart
    <3>3. mem'.head.sign = live.head.sign /\ mem'.head.body = live.head.body
      BY <2>1, <2>2, <3>2
    <3>4. \A i \in Slots : mem'.rec[i] = live.rec[i]
      BY <2>1, <3>2
    <3>5. mem' = live
      BY <1>a, <3>3, <3>4 DEF Store, HeadPart
    <3> QED BY <3>5
  <2>4. CASE pc = "record"
    <3>1. Pending.head = live.head
      BY <1>a, <2>4 DEF Pending, WithRecord, Store
    <3> QED BY <1>0, <2>1, <2>2, <2>4, <3>1 DEF Progress
  <2>5. CASE pc = "header"
    <3>1. Pending = WithHeader(live) /\ \A i \in Here : Shown(i)
      BY <1>0, <2>5 DEF Pending, Progress
    <3>2. Pending.head.body = Header(table, Count(table)) /\ Pending.rec = live.rec
      BY <1>a, <3>1 DEF WithHeader, Store
    <3>3. \A i \in Here : mem'.rec[i] = live.rec[i]
      BY <1>a, <2>1, <3>2
    <3>4. \A i \in Here : mem'.rec[i].val = val[i]
      BY <3>1, <3>3 DEF Shown
    <3>5. Restored(mem', table) = RestoredOver(mem', table, Defaults(table))
      BY <1>3 DEF Restored
    <3>6. mem'.head.body.n \in Nat
      BY <1>3, <1>a, ValidFacts
    <3>7. CASE mem'.head.body = Header(table, Count(table))
      <4>1. \A i \in Here : i <= mem'.head.body.n
        BY <1>a, <3>7 DEF Header
      <4>2. RestoredOver(mem', table, Defaults(table)) = val
        BY <1>a, <1>b, <1>3, <3>4, <4>1, ShownRestores
      <4> QED BY <3>5, <4>2
    <3>8. CASE mem'.head.body # Header(table, Count(table))
      <4>1. val = Defaults(table)
        BY <1>0, <2>1, <2>2, <2>5, <3>2, <3>8 DEF Rewriting
      <4>2. RestoredOver(mem', table, Defaults(table)) = val
        BY <1>a, <1>b, <1>3, <3>4, <4>1, ShownRestores
      <4> QED BY <3>5, <4>2
    <3> QED BY <3>7, <3>8
  <2> QED BY <2>3, <2>4, <2>5
<1> QED BY <1>1, <1>2, <1>3, StoreSteps

\* The rewrite of the whole image (par_nvm_write_scalar_all) is atomic for
\* init: wherever it is cut or fails, a reset finds the old values, the
\* defaults or the new ones, for any tables whose ranges never change.
THEOREM RewriteAtomic == RangesKept => (Spec => RewriteIsAtomic)
<1> SUFFICES ASSUME RangesKept PROVE Spec => RewriteIsAtomic
  OBVIOUS
<1>1. Init => ServeInv
  BY InitServes
<1>2. ServeInv /\ [Next]_vars => ServeInv'
  BY NextServes
<1>3. ServeInv /\ ServeInv' /\ [Next]_vars
        => [trusted /\ mem = live /\ pc \in {"erase", "record", "header"}
              => Restored(mem', table) \in {Restored(mem, table), Defaults(table), val}]_vars
  BY RewriteStep DEF ServeInv
<1> QED BY <1>1, <1>2, <1>3, PTL DEF Spec, RewriteIsAtomic
-----------------------------------------------------------------------------
(* What was saved.                                                          *)

\* Stores with one head that hold what was saved mix to such a store.
LEMMA MixHolds ==
  ASSUME TypeOK, NEW S, NEW h, h.body \in Headers \cup {Garbage},
         \A x \in S : x.head = h /\ Holds(x), NEW s \in Mixes(S)
  PROVE  s.head = h /\ Holds(s)
<1>1. s.head = h
  BY MixSameHead
<1>2. PICK x \in S : TRUE
  BY MixHeads
<1>3. h.sign /\ (h.body # Garbage => Compatible(h.body, table))
  BY <1>2 DEF Holds
<1>4. ASSUME h.body # Garbage PROVE Sound(s)
  <2>1. h.body \in Headers /\ h.body.n <= Count(table) /\ Count(table) <= MaxSlots
        /\ h.body.n \in Nat /\ Count(table) \in Nat /\ MaxSlots \in Nat
    BY <1>3, <1>4, HeadersCount, TableFacts DEF Compatible, TypeOK, Slots
  <2>2. \A y \in S : y.head = h /\ Sound(y)
    BY <1>4 DEF Holds
  <2>3. h.body.n <= MaxSlots
    BY <2>1
  <2> QED BY <2>1, <2>2, <2>3, MixSound
<1>5. ASSUME h.body # Garbage, NEW i \in Here, saved[table.par[i].id] # None
      PROVE  /\ i <= h.body.n
             /\ s.rec[i] = Garbage \/ s.rec[i].val = saved[table.par[i].id]
  <2>1. i \in Slots
    BY ParameterFacts DEF TypeOK, Here
  <2>2. \A y \in S : /\ i <= h.body.n
                     /\ y.rec[i] = Garbage \/ y.rec[i].val = saved[table.par[i].id]
    BY <1>5 DEF Holds
  <2>3. s.rec[i] = Garbage \/ \E y \in S : s.rec[i] = y.rec[i]
    BY <2>1, MixRecords
  <2> QED BY <1>2, <2>2, <2>3
<1> QED BY <1>1, <1>3, <1>4, <1>5 DEF Holds

\* A record of a save or of an append leaves what was saved of the others.
LEMMA RecordHolds ==
  ASSUME ServeInv, Kept, SavingNone, trusted, Claimed, pc \in {"append", "save"}
  PROVE  /\ WithRecord(live, cursor).head = live.head
         /\ Holds(WithRecord(live, cursor))
<1> DEFINE w == WithRecord(live, cursor)
<1>0. /\ TypeOK /\ Progress /\ live \in Store /\ table \in Tables /\ cursor \in Here
      /\ Holds(live) /\ ValidHeader(live, table) /\ Sound(live)
      /\ live.head.body # Garbage
  BY DEF ServeInv, ShowInv, TInv, TypeOK, Kept, Serving, Progress, Holds, ValidHeader, Compatible
<1>1. live.head.body \in Headers /\ live.head.body.n <= Count(table)
  BY <1>0, ValidFacts
<1>2. w.head = live.head /\ Sound(w) /\ \A i \in Here \ {cursor} : w.rec[i] = live.rec[i]
  BY <1>0, <1>1, RecordSound
<1> HIDE DEF w
<1>3. ASSUME NEW i \in Here, saved[table.par[i].id] # None
      PROVE  /\ i <= live.head.body.n
             /\ w.rec[i] = Garbage \/ w.rec[i].val = saved[table.par[i].id]
  <2>1. /\ i <= live.head.body.n
        /\ live.rec[i] = Garbage \/ live.rec[i].val = saved[table.par[i].id]
    BY <1>0, <1>3 DEF Holds
  <2>2. i # cursor
    <3>1. CASE pc = "append"
      <4>1. live.head.body.n < cursor /\ live.head.body.n \in Nat /\ i \in Nat /\ cursor \in Nat
        BY <1>0, <1>1, <3>1, HeadersCount, TableFacts DEF Progress, Here
      <4> QED BY <2>1, <4>1
    <3>2. CASE pc = "save"
      BY <1>3, <3>2 DEF SavingNone
    <3> QED BY <3>1, <3>2
  <2> QED BY <1>2, <2>1, <2>2
<1>4. Holds(w)
  BY <1>0, <1>2, <1>3 DEF Holds
<1> QED BY <1>2, <1>4 DEF w

\* The header that ends an append leaves what was saved.
LEMMA HeaderHolds ==
  ASSUME ServeInv, Kept, trusted, Claimed, pc = "appendHeader", NEW s,
         s.head.sign, s.head.body \in {Header(table, Count(table)), live.head.body},
         \A i \in Here : s.rec[i] = live.rec[i]
  PROVE  Holds(s)
<1>0. /\ TypeOK /\ Progress /\ table \in Tables /\ live \in Store
      /\ Holds(live) /\ ValidHeader(live, table) /\ live.head.body # Garbage
      /\ \A i \in Here : Shown(i)
  BY DEF ServeInv, ShowInv, TInv, TypeOK, Kept, Progress, Holds, ValidHeader, Compatible
<1>1. /\ live.head.body \in Headers /\ live.head.body.n \in Nat
      /\ live.head.body.n <= Count(table) /\ Count(table) \in Nat /\ Here = 1 .. Count(table)
  BY <1>0, ValidFacts, TableFacts DEF Here
<1>2. Header(table, Count(table)) # Garbage
      /\ Compatible(Header(table, Count(table)), table)
      /\ Header(table, Count(table)).n = Count(table)
  BY <1>0, <1>1, HeaderType, GarbageAssumption DEF Compatible, Header
<1>3. /\ Compatible(s.head.body, table) /\ s.head.body.n \in Nat
      /\ live.head.body.n <= s.head.body.n /\ s.head.body.n <= Count(table)
  BY <1>0, <1>1, <1>2 DEF ValidHeader
<1>4. Sound(s)
  BY <1>0, <1>1, <1>3 DEF Sound, Shown
<1>5. ASSUME NEW i \in Here, saved[table.par[i].id] # None
      PROVE  /\ i <= s.head.body.n
             /\ s.rec[i] = Garbage \/ s.rec[i].val = saved[table.par[i].id]
  <2>1. /\ i <= live.head.body.n
        /\ live.rec[i] = Garbage \/ live.rec[i].val = saved[table.par[i].id]
    BY <1>0, <1>5 DEF Holds
  <2> QED BY <1>1, <1>3, <2>1
<1> QED BY <1>3, <1>4, <1>5 DEF Holds

\* Another firmware that finds the header compatible has the same parameters
\* under the records the header covers.
LEMMA SameParameters ==
  ASSUME DigestTells, NEW t \in Tables, NEW u \in Tables, NEW h \in Headers,
         Compatible(h, t), Compatible(h, u), NEW i \in 1 .. h.n
  PROVE  /\ i \in 1 .. Count(t) /\ i \in 1 .. Count(u)
         /\ t.par[i].id = u.par[i].id
         /\ \A r : Matches(r, t.par[i]) => Matches(r, u.par[i])
<1>1. /\ h.n \in Nat /\ h.n <= Count(t) /\ h.n <= Count(u)
      /\ Count(t) \in Nat /\ Count(u) \in Nat
      /\ Digest(t, h.n) = Digest(u, h.n)
  BY HeadersCount, TableFacts DEF Compatible
<1>2. h.n \in 0 .. Count(t) /\ i \in 1 .. Count(t) /\ i \in 1 .. Count(u)
  BY <1>1
<1>3. t.par[i].id = u.par[i].id
  BY <1>1, <1>2 DEF DigestTells
<1>4. Digest(t, h.n).pars[i] = Digest(u, h.n).pars[i]
  BY <1>1
<1>5. t.par[i].type = u.par[i].type
  BY <1>4 DEF Digest
<1> QED BY <1>2, <1>3, <1>5 DEF Matches

\* A boot keeps the claims the stored header covers.
LEMMA BootKeeps ==
  ASSUME DigestTells, ServeInv, Kept, Boot, Claimed'
  PROVE  Kept'
<1> DEFINE h == mem.head.body
<1>0. /\ TypeOK /\ table \in Tables /\ table' \in Tables /\ mem \in Store /\ live \in Store
      /\ mem' = mem /\ live' = live
  BY DEF ServeInv, ShowInv, TInv, TypeOK, Boot, store
<1>1. /\ trusted
      /\ \A id \in Ids : saved'[id] = IF id \in Covered(mem, table') THEN saved[id] ELSE None
  <2>1. ~trusted => \A id \in Ids : saved'[id] = None
    BY DEF Boot
  <2>2. trusted => \A id \in Ids :
           saved'[id] = IF id \in Covered(mem, table') THEN saved[id] ELSE None
    BY DEF Boot
  <2> QED BY <2>1, <2>2 DEF Claimed
<1>2. PICK id \in Ids : id \in Covered(mem, table') /\ saved[id] # None
  BY <1>1 DEF Claimed
<1>3. Claimed /\ mem.head = live.head /\ Holds(mem) /\ Holds(live)
  BY <1>1, <1>2 DEF Claimed, Kept
<1>4. ValidHeader(mem, table') /\ h # Garbage /\ h \in Headers
  BY <1>0, <1>2 DEF Covered, ValidHeader, Compatible, Store, HeadPart
<1>5. Compatible(h, table) /\ Compatible(h, table') /\ h.n \in Nat
  BY <1>3, <1>4, HeadersCount DEF Holds, ValidHeader
<1>6. \A i \in 1 .. h.n :
         /\ i \in 1 .. Count(table) /\ i \in 1 .. Count(table')
         /\ table.par[i].id = table'.par[i].id
         /\ \A r : Matches(r, table.par[i]) => Matches(r, table'.par[i])
  BY <1>0, <1>4, <1>5, SameParameters
<1>7. ASSUME NEW i \in 1 .. Count(table'), saved'[table'.par[i].id] # None
      PROVE  /\ i \in 1 .. h.n /\ i \in Here
             /\ table'.par[i].id = table.par[i].id
             /\ saved'[table'.par[i].id] = saved[table.par[i].id]
  <2>1. table'.par[i].id \in Ids
    BY <1>0, ParameterFacts DEF Parameter
  <2>2. table'.par[i].id \in Covered(mem, table')
    BY <1>1, <1>7, <2>1
  <2>3. PICK j \in 1 .. h.n : table'.par[i].id = table'.par[j].id
    BY <1>4, <2>2 DEF Covered
  <2>4. i = j
    BY <1>0, <1>6, <2>3, ParameterFacts
  <2> QED BY <1>1, <1>6, <2>1, <2>2, <2>4 DEF Here
<1>8. ASSUME NEW s \in {mem, live}
      PROVE  /\ s.head.sign /\ s.head.body = h
             /\ \A i \in 1 .. h.n : s.rec[i] = Garbage \/ Matches(s.rec[i], table'.par[i])
             /\ \A i \in 1 .. Count(table') : saved'[table'.par[i].id] # None =>
                  /\ i <= h.n
                  /\ s.rec[i] = Garbage \/ s.rec[i].val = saved'[table'.par[i].id]
  <2>1. Holds(s) /\ s.head.body = h
    BY <1>3
  <2>2. \A i \in 1 .. h.n : s.rec[i] = Garbage \/ Matches(s.rec[i], table'.par[i])
    BY <1>4, <1>6, <2>1 DEF Holds, Sound
  <2>3. \A i \in 1 .. Count(table') : saved'[table'.par[i].id] # None =>
           /\ i <= h.n
           /\ s.rec[i] = Garbage \/ s.rec[i].val = saved'[table'.par[i].id]
    BY <1>4, <1>5, <1>7, <2>1 DEF Holds
  <2> QED BY <2>1, <2>2, <2>3 DEF Holds
<1>9. Holds(mem)' /\ Holds(live)'
  <2>1. Holds(mem)'
    BY <1>0, <1>5, <1>8 DEF Holds, Sound, Here
  <2>2. Holds(live)'
    BY <1>0, <1>5, <1>8 DEF Holds, Sound, Here
  <2> QED BY <2>1, <2>2
<1> QED BY <1>0, <1>3, <1>9 DEF Kept, Boot

\* A step that touches neither the store, the table nor what was saved.
LEMMA KeptFrame ==
  ASSUME Kept, UNCHANGED <<mem, live, table, saved, trusted>>,
         pc' \notin {"erase", "record", "header"}
  PROVE  Kept'
  BY DEF Kept, Claimed, Holds, Sound, Here

\* A step that leaves both stores as one that holds what was saved.
LEMMA KeptStore ==
  ASSUME UNCHANGED <<table, saved>>, mem'.head = live'.head, Holds(mem'), Holds(live'),
         pc' \notin {"erase", "record", "header"}
  PROVE  Kept'
  BY DEF Kept, Claimed, Holds, Sound, Here

\* Every step keeps what was answered ok.
LEMMA StepKeeps ==
  ASSUME RangesKept, DigestTells, KeepInv, ServeInv', [Next]_vars
  PROVE  Kept' /\ SavingNone'
<1>0. TypeOK /\ TypeOK' /\ ServeInv /\ Kept /\ SavingNone /\ Progress /\ Serving /\ Progress'
  BY DEF KeepInv, ServeInv, ShowInv, TInv
<1>a. /\ table \in Tables /\ Here = 1 .. Count(table) /\ Here \subseteq Slots
      /\ Count(table) \in Nat /\ live \in Store /\ mem \in Store /\ cursor \in Here
      /\ saved \in [Ids -> Values \cup {None}]
  BY <1>0, TableFacts DEF TypeOK, Here
<1>b. SavingNone'
  <2>1. CASE BeginSave
    <3>1. PICK i \in Here : cursor' = i /\ saved' = [saved EXCEPT ![table.par[i].id] = None]
      BY <2>1 DEF BeginSave
    <3>2. table.par[i].id \in Ids
      BY <1>a, ParameterFacts DEF Parameter
    <3> QED BY <1>a, <2>1, <3>1, <3>2 DEF BeginSave, SavingNone, ram
  <2>2. CASE UNCHANGED vars
    BY <1>0, <2>2 DEF SavingNone, vars, ram, history
  <2>3. CASE pc' # "save"
    BY <2>3 DEF SavingNone
  <2> QED BY <2>1, <2>2, <2>3
       DEF Next, Boot, LoadFails, InitFails, StartOver, Restore, AppendRecord, AppendHeader,
           Erase, WriteRecord, WriteHeader, BulkFails, Ends, SetValue, Save, BeginSaveAll,
           Deinit, PowerLoss
<1> SUFFICES Kept'
  BY <1>b
<1>1. CASE ~trusted' \/ ~Claimed'
  BY <1>1 DEF Kept
<1>2. CASE Boot /\ Claimed'
  BY <1>0, <1>2, BootKeeps
<1>3. CASE Restore \/ SetValue \/ Deinit
  <2>1. /\ UNCHANGED <<mem, live, table, saved, trusted>>
        /\ pc' \notin {"erase", "record", "header"}
    BY <1>3 DEF Restore, SetValue, Deinit, Ends, store, ram, history
  <2> QED BY <1>0, <2>1, KeptFrame
<1>4. CASE StartOver /\ Claimed'
  <2>1. Claimed /\ Intact(live, table)
    BY <1>4 DEF StartOver, Claimed
  <2>2. CASE ~trusted
    BY <1>4, <2>2 DEF StartOver, Kept
  <2>3. CASE trusted
    <3>1. Holds(live) /\ live.head.body # Garbage
      BY <1>0, <2>1, <2>3 DEF Kept, Intact
    <3>2. ValidHeader(live, table) /\ Sound(live)
      BY <3>1 DEF Holds, ValidHeader
    <3>3. Readable(live, table)
      BY <2>1, <3>2 DEF Readable, Intact, Sound
    <3> QED BY <1>4, <3>2, <3>3 DEF StartOver
  <2> QED BY <2>2, <2>3
<1>5. CASE AppendRecord /\ trusted' /\ Claimed'
  <2>1. /\ pc = "append" /\ live' = WithRecord(live, cursor) /\ mem' = live'
        /\ UNCHANGED <<table, saved, trusted>> /\ pc' \in {"append", "appendHeader"}
    BY <1>5 DEF AppendRecord, InitFails, StoreOk, Pending, history
  <2>2. trusted /\ Claimed
    BY <1>5, <2>1 DEF Claimed
  <2>3. Holds(live')
    BY <1>0, <2>1, <2>2, RecordHolds
  <2> QED BY <2>1, <2>3, KeptStore
<1>6. CASE AppendHeader /\ trusted' /\ Claimed'
  <2>1. /\ pc = "appendHeader" /\ live' = WithHeader(live) /\ mem' = live'
        /\ UNCHANGED <<table, val, saved, trusted>> /\ pc' = "idle"
    BY <1>6 DEF AppendHeader, InitFails, Ends, StoreOk, Pending, history
  <2>2. trusted /\ Claimed
    BY <1>6, <2>1 DEF Claimed
  <2>3. live'.rec = live.rec /\ live'.head = [sign |-> TRUE, body |-> Header(table, Count(table))]
    BY <1>0, <2>1, HeaderWritten
  <2>4. Holds(live')
    BY <1>0, <2>1, <2>2, <2>3, HeaderHolds
  <2> QED BY <2>1, <2>4, KeptStore
<1>7. CASE (Erase \/ WriteRecord \/ BeginSaveAll) /\ trusted'
  <2>1. CASE WriteRecord
    <3>1. pc = "record" /\ UNCHANGED <<saved, trusted>>
      BY <1>7, <2>1 DEF WriteRecord, BulkFails, history
    <3> QED BY <1>0, <1>1, <1>7, <3>1 DEF Kept, Claimed
  <2>2. CASE Erase \/ BeginSaveAll
    <3>1. saved' = [id \in Ids |-> None]
      BY <1>7, <2>2 DEF Erase, BeginSaveAll, BulkFails
    <3> QED BY <3>1 DEF Kept, Claimed
  <2> QED BY <1>7, <2>1, <2>2
<1>8. CASE WriteHeader /\ trusted'
  <2>1. /\ pc = "header" /\ live' = WithHeader(live) /\ mem' = live'
        /\ UNCHANGED <<table, val>> /\ pc' = "idle"
        /\ saved' = [id \in Ids |-> ValueOf(id)]
    BY <1>8 DEF WriteHeader, BulkFails, Ends, StoreOk, Pending, ram
  <2>2. /\ ValidHeader(live', table) /\ live'.head.body.n = Count(table)
        /\ live'.head.sign /\ \A i \in Here : Shown(i)'
    BY <1>0, <2>1, HeaderWritten DEF Progress
  <2>3. ASSUME NEW i \in Here PROVE saved'[table.par[i].id] = val[i]
    <3>1. table.par[i].id \in Ids
      BY <1>a, ParameterFacts DEF Parameter
    <3>2. \A j \in Here : table.par[j].id = table.par[i].id => j = i
      BY <1>a, ParameterFacts
    <3>3. ValueOf(table.par[i].id) = val[i]
      BY <3>2 DEF ValueOf
    <3> QED BY <2>1, <3>1, <3>3
  <2>4. \A i \in Here : Matches(live'.rec[i], table.par[i])
                        /\ live'.rec[i].val = saved'[table.par[i].id]
    BY <2>1, <2>2, <2>3 DEF Shown
  <2>5. Holds(live)'
    BY <1>a, <2>1, <2>2, <2>4 DEF Holds, Sound, Here, ValidHeader
  <2>6. Holds(mem)'
    BY <2>1, <2>5 DEF Holds, Sound, Here
  <2> QED BY <2>1, <2>5, <2>6 DEF Kept
<1>9. CASE BeginSave /\ Claimed'
  <2>1. PICK j \in Here : /\ saved' = [saved EXCEPT ![table.par[j].id] = None]
                          /\ UNCHANGED <<mem, live, table, trusted>> /\ pc' = "save"
    BY <1>9 DEF BeginSave, store, ram
  <2>2. /\ Claimed
        /\ \A id \in Ids : saved'[id] # None => saved'[id] = saved[id]
    BY <1>a, <1>9, <2>1 DEF Claimed
  <2>3. \A i \in Here : table.par[i].id \in Ids
    BY <1>a, ParameterFacts DEF Parameter
  <2>4. ASSUME trusted PROVE Holds(mem)' /\ Holds(live)' /\ mem.head = live.head
    <3>1. Holds(mem) /\ Holds(live) /\ mem.head = live.head
      BY <1>0, <2>2, <2>4 DEF Kept
    <3> QED BY <2>1, <2>2, <2>3, <3>1 DEF Holds, Sound, Here
  <2> QED BY <2>1, <2>4 DEF Kept
<1>10. CASE Save /\ StoreOk /\ trusted'
  <2>1. /\ pc = "save" /\ live' = WithRecord(live, cursor) /\ mem' = live' /\ trusted
        /\ UNCHANGED <<table, val>> /\ pc' = "idle"
    BY <1>10 DEF Save, Ends, StoreOk, Pending, ram
  <2>2. /\ ValidHeader(live, table) /\ live.head.body.n = Count(table) /\ Sound(live)
    BY <1>0, <2>1 DEF Serving
  <2>3. live.head.body \in Headers /\ live.head.body.n <= Count(table)
    BY <1>a, <2>2, ValidFacts
  <2>4. /\ live'.head = live.head /\ Sound(live')
        /\ \A i \in Here \ {cursor} : live'.rec[i] = live.rec[i]
        /\ live'.rec[cursor].val = val[cursor]
    BY <1>0, <2>1, <2>2, <2>3, RecordSound, RecordWritten
  <2>5. ASSUME NEW i \in Here, saved'[table.par[i].id] # None
        PROVE  live'.rec[i] = Garbage \/ live'.rec[i].val = saved'[table.par[i].id]
    <3>1. /\ \/ saved' = [saved EXCEPT ![table.par[cursor].id] = val[cursor]]
             \/ saved' = saved
          /\ table.par[i].id \in Ids /\ table.par[cursor].id \in Ids
          /\ i # cursor => table.par[i].id # table.par[cursor].id
      BY <1>a, <1>10, ParameterFacts DEF Save, Parameter
    <3>2. CASE i = cursor
      <4>1. saved'[table.par[i].id] = val[cursor] \/ saved' = saved
        BY <1>a, <3>1, <3>2
      <4>2. saved[table.par[cursor].id] = None
        BY <1>0, <2>1 DEF SavingNone
      <4> QED BY <2>4, <2>5, <3>2, <4>1, <4>2
    <3>3. CASE i # cursor
      <4>1. saved'[table.par[i].id] = saved[table.par[i].id]
        BY <1>a, <3>1, <3>3
      <4>2. Claimed /\ saved[table.par[i].id] # None
        BY <2>5, <3>1, <4>1 DEF Claimed
      <4>3. Holds(live) /\ live.head.body # Garbage
        BY <1>0, <2>1, <2>2, <4>2 DEF Kept, ValidHeader, Compatible
      <4> QED BY <2>4, <3>3, <4>1, <4>2, <4>3 DEF Holds
    <3> QED BY <3>2, <3>3
  <2>6. Holds(live)'
    BY <1>a, <2>1, <2>2, <2>4, <2>5 DEF Holds, Sound, Here, ValidHeader
  <2>7. Holds(mem)'
    BY <2>1, <2>6 DEF Holds, Sound, Here
  <2> QED BY <2>1, <2>6, <2>7 DEF Kept
<1>h. live.head.body \in Headers \cup {Garbage}
  BY <1>a DEF Store, HeadPart
<1>11. CASE Save /\ StoreFails /\ UNCHANGED saved /\ Claimed'
  <2>1. /\ pc = "save" /\ Pending = WithRecord(live, cursor)
        /\ UNCHANGED <<table, saved, trusted>> /\ pc' = "idle"
        /\ live' \in Mixes({live, Pending}) /\ mem' \in Mixes({mem, live', Pending})
    BY <1>11 DEF Save, Ends, StoreFails, Pending, ram
  <2>2. CASE ~trusted
    BY <2>1, <2>2 DEF Kept
  <2>3. CASE trusted
    <3>1. /\ Claimed /\ Holds(mem) /\ Holds(live) /\ mem.head = live.head
          /\ Pending.head = live.head /\ Holds(Pending)
      BY <1>0, <1>11, <2>1, <2>3, RecordHolds DEF Kept, Claimed
    <3>2. \A x \in {live, Pending} : x.head = live.head /\ Holds(x)
      BY <3>1
    <3>3. live'.head = live.head /\ Holds(live')
      BY <1>0, <1>h, <2>1, <3>2, MixHolds
    <3>4. \A x \in {mem, live', Pending} : x.head = live.head /\ Holds(x)
      BY <3>1, <3>3
    <3>5. mem'.head = live.head /\ Holds(mem')
      BY <1>0, <1>h, <2>1, <3>4, MixHolds
    <3> QED BY <2>1, <3>3, <3>5, KeptStore
  <2> QED BY <2>2, <2>3
<1>12. CASE PowerLoss /\ trusted' /\ Claimed'
  <2>1. /\ mem' = mem \/ mem' \in Mixes({mem, live, Pending})
        /\ Pending = live => mem' = mem
        /\ live' = mem' /\ UNCHANGED <<table, saved, trusted>> /\ pc' = "off"
    BY <1>12 DEF PowerLoss, history
  <2>2. /\ trusted /\ Claimed /\ pc \notin {"erase", "record", "header"}
        /\ Holds(mem) /\ Holds(live) /\ mem.head = live.head
    BY <1>0, <1>12, <2>1 DEF Kept, Claimed
  <2>3. CASE mem' = mem
    BY <2>1, <2>2, <2>3, KeptStore
  <2>4. CASE mem' \in Mixes({mem, live, Pending}) /\ pc \in {"append", "save"}
    <3>1. Pending.head = live.head /\ Holds(Pending)
      BY <1>0, <2>2, <2>4, RecordHolds DEF Pending
    <3>2. \A x \in {mem, live, Pending} : x.head = live.head /\ Holds(x)
      BY <2>2, <3>1
    <3>3. Holds(mem')
      BY <1>0, <1>h, <2>4, <3>2, MixHolds
    <3> QED BY <2>1, <3>3, KeptStore
  <2>5. CASE mem' \in Mixes({mem, live, Pending}) /\ pc = "appendHeader"
    <3>1. Pending = WithHeader(live) /\ mem = live /\ live.head.sign
      BY <1>0, <2>5 DEF Pending, Progress, ValidHeader
    <3>2. /\ Pending.head = [sign |-> TRUE, body |-> Header(table, Count(table))]
          /\ Pending.rec = live.rec
      BY <1>a, <3>1 DEF WithHeader, Store
    <3>3. /\ mem'.head.sign
          /\ mem'.head.body \in {live.head.body, Header(table, Count(table)), Garbage}
      BY <2>5, <3>1, <3>2, MixHeads
    <3>4. \A i \in Here : mem'.rec[i] = live.rec[i]
      <4> SUFFICES ASSUME NEW i \in Here PROVE mem'.rec[i] = live.rec[i]
        OBVIOUS
      <4>1. i \in Slots /\ \A x \in {mem, live, Pending} : x.rec[i] = live.rec[i]
        BY <1>a, <3>1, <3>2
      <4> QED BY <2>5, <4>1, MixRecords
    <3>5. CASE mem'.head.body = Garbage
      <4>1. Holds(mem')
        BY <3>3, <3>5 DEF Holds
      <4> QED BY <2>1, <4>1, KeptStore
    <3>6. CASE mem'.head.body # Garbage
      <4>1. mem'.head.body \in {Header(table, Count(table)), live.head.body}
        BY <3>3, <3>6
      <4>2. Holds(mem')
        BY <1>0, <2>2, <2>5, <3>3, <3>4, <4>1, HeaderHolds
      <4> QED BY <2>1, <4>2, KeptStore
    <3> QED BY <3>5, <3>6
  <2>6. pc \notin {"append", "appendHeader", "save"} => Pending = live
    BY <2>2 DEF Pending
  <2> QED BY <2>1, <2>3, <2>4, <2>5, <2>6
<1>13. CASE UNCHANGED vars
  BY <1>0, <1>13 DEF vars, store, ram, history, Kept, Claimed, Holds, Sound, Here
<1>14. (LoadFails => ~trusted') /\ (Save => StoreOk \/ (StoreFails /\ UNCHANGED saved))
  BY DEF LoadFails, InitFails, Save
<1> QED BY <1>1, <1>2, <1>3, <1>4, <1>5, <1>6, <1>7, <1>8, <1>9, <1>10, <1>11, <1>12,
           <1>13, <1>14 DEF Next
\* Nothing is saved at the start.
LEMMA InitKeeps == Init => KeepInv
  BY InitServes DEF Init, KeepInv, Kept, Claimed, SavingNone

\* Every step keeps what the saves have answered.
LEMMA NextKeeps == RangesKept /\ DigestTells /\ KeepInv /\ [Next]_vars => KeepInv'
  BY NextServes, StepKeeps DEF KeepInv

\* What was answered ok is restored.
LEMMA KeptSurvives ==
  ASSUME RangesKept, KeepInv
  PROVE  SaveSurvives
<1>0. /\ TypeOK /\ mem \in Store /\ table \in Tables /\ Here = 1 .. Count(table)
      /\ Kept /\ \A i \in Slots : Known(mem.rec[i])
  BY DEF KeepInv, ServeInv, ShowInv, TInv, TypeOK, RecordsFit, Here
<1> SUFFICES ASSUME trusted, Intact(mem, table), NEW i \in Here,
                    saved[table.par[i].id] # None
             PROVE  Restored(mem, table)[i] = saved[table.par[i].id]
  BY DEF SaveSurvives, Survives
<1>1. Claimed
  BY <1>0, ParameterFacts DEF Claimed, Parameter
<1>2. Holds(mem) /\ mem.head.body # Garbage
  BY <1>0, <1>1 DEF Kept, Intact
<1>3. /\ ValidHeader(mem, table) /\ Sound(mem) /\ i <= mem.head.body.n
      /\ mem.rec[i] = Garbage \/ mem.rec[i].val = saved[table.par[i].id]
  BY <1>2 DEF Holds, ValidHeader
<1>4. Readable(mem, table)
  BY <1>3 DEF Readable, Intact, Sound
<1>5. i \in 1 .. mem.head.body.n
  BY <1>0, <1>3, ValidFacts, TableFacts
<1>6. RestoredOver(mem, table, Defaults(table))[i] = mem.rec[i].val
  BY <1>0, <1>3, <1>4, <1>5, RestoreFacts
<1>7. mem.rec[i] # Garbage
  BY <1>3, <1>5 DEF Intact
<1> QED BY <1>3, <1>4, <1>6, <1>7 DEF Restored

\* Once par_save or par_save_all has answered ok, a reset restores the value
\* (par_nvm_write, par_nvm_load_all), through any later failures of other
\* saves, power losses, boots and firmwares that append parameters.
THEOREM SavesSurvive == RangesKept /\ DigestTells => (Spec => []SaveSurvives)
<1> SUFFICES ASSUME RangesKept, DigestTells PROVE Spec => []SaveSurvives
  OBVIOUS
<1>1. Init => KeepInv
  BY InitKeeps
<1>2. KeepInv /\ [Next]_vars => KeepInv'
  BY NextKeeps
<1>3. KeepInv => SaveSurvives
  BY KeptSurvives
<1> QED BY <1>1, <1>2, <1>3, PTL DEF Spec
=============================================================================

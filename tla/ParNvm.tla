------------------------------- MODULE ParNvm -------------------------------
(***************************************************************************)
(* The scalar part of the NVM core (parameters/src/nvm/par_nvm.c,          *)
(* par_nvm_table_id.c, scalar/).                                           *)
(*                                                                         *)
(* The store holds a header (signature; count and digest of the parameter  *)
(* table, under a CRC) and one record per persistent parameter, in table   *)
(* order, each under a CRC of its own.  Init restores the records if the   *)
(* header fits the running table, appends the records a longer table       *)
(* lacks, and otherwise starts over from the defaults.  Saving one value   *)
(* rewrites its record in place; saving all erases the signature, rewrites *)
(* every record and writes the header last.                                *)
(*                                                                         *)
(* One step is one write or erase of the store, with the sync that follows *)
(* it, or one stretch of code that only reads.  Any of them may fail, and  *)
(* the power may fail between two steps or in the middle of a write.  At a *)
(* cold boot the firmware may be another one, with another table.          *)
(***************************************************************************)
EXTENDS Integers, Sequences, FiniteSets

CONSTANTS
  Ids,          \* external parameter IDs
  Types,        \* scalar types (two types here have two widths)
  Values,       \* values of the parameters, numbers
  Tables,       \* the parameter tables of the firmwares that may boot
  MaxSlots,     \* persistent parameters of the longest table
  HasStoredId,  \* the record layout stores the ID (compact, fixed slot)
  AppendsTail,  \* the layout can append records (all but grouped payload)
  Tears,        \* what a cut write may tear: subset of {"head", "record"}
  Faults,       \* the steps whose store calls may fail
  Garbage,      \* a header body or a record whose CRC does not match
  None          \* no value

Slots == 1 .. MaxSlots

\* The metadata of a persistent scalar that the NVM core and the setters use.
Parameter == [id : Ids, type : Types, def : Values, min : Values, max : Values]

Steps == {"open", "read", "append", "appendHeader", "erase", "record", "header", "save"}

ASSUME ValuesAssumption == Values \subseteq Int /\ None \notin Values
ASSUME TablesAssumption ==
  /\ MaxSlots \in Nat \ {0}
  /\ \A t \in Tables : /\ t.ver \in Nat
                       /\ t.par \in Seq(Parameter)
                       /\ Len(t.par) \in Slots
                       /\ \A i, j \in 1 .. Len(t.par) : t.par[i].id = t.par[j].id => i = j
                       /\ \A i \in 1 .. Len(t.par) :
                            t.par[i].min <= t.par[i].def /\ t.par[i].def <= t.par[i].max
ASSUME LayoutAssumption == HasStoredId \in BOOLEAN /\ AppendsTail \in BOOLEAN
ASSUME FaultsAssumption == Tears \subseteq {"head", "record"} /\ Faults \subseteq Steps

VARIABLES
  mem,      \* the store after a power loss at this instant
  live,     \* the store as it reads at this instant
  table,    \* the table of the running firmware
  val,      \* live values of its persistent parameters
  up,       \* gb_is_init of par_nvm.c
  warm,     \* par_deinit came last: the values in RAM are still there
  pc,       \* what the NVM core does next
  cursor,   \* the slot it is at
  reply,    \* what the last call answered
  saved,    \* history: by ID, the value the last save answered ok for
  trusted   \* history: no init or save of all has failed since the last init

store   == <<mem, live>>
ram     == <<table, val, warm>>
history == <<saved, trusted>>
vars    == <<store, ram, up, pc, cursor, reply, history>>

\* A digest stands for what it is computed from: no two collide here.
Digest(t, n) ==
  [ver  |-> t.ver,
   pars |-> [i \in 1 .. n |-> <<t.par[i].type, IF HasStoredId THEN t.par[i].id ELSE 0>>]]
Count(t)  == Len(t.par)
Header(t, n) == [n |-> n, id |-> Digest(t, n)]

Record    == [id : Ids, type : Types, val : Values]
Headers   == UNION {{Header(t, n) : n \in 0 .. Count(t)} : t \in Tables}
HeadPart  == [sign : BOOLEAN, body : Headers \cup {Garbage}]
ASSUME GarbageAssumption == Garbage \notin Headers /\ Garbage \notin Record
Store     == [head : HeadPart, rec : [Slots -> Record \cup {Garbage}]]
Here      == 1 .. Count(table)

TypeOK ==
  /\ mem \in Store /\ live \in Store
  /\ table \in Tables
  /\ val \in [Here -> Values]
  /\ up \in BOOLEAN /\ warm \in BOOLEAN
  /\ pc \in {"off", "load", "append", "appendHeader", "erase", "record", "header",
             "save", "idle"}
  /\ cursor \in Here
  /\ reply \in {"none", "initOk", "saveOk", "saveAllOk", "error"}
  /\ saved \in [Ids -> Values \cup {None}]
  /\ trusted \in BOOLEAN

-----------------------------------------------------------------------------
(* What the store says to firmware with table t.                           *)

\* check_compat of the layouts.
Compatible(h, t) ==
  /\ h # Garbage
  /\ h.n <= Count(t)
  /\ h.id = Digest(t, h.n)
  /\ AppendsTail \/ h.n = Count(t)

ValidHeader(s, t) == s.head.sign /\ Compatible(s.head.body, t)

\* Mutant: the ID of a record is not looked at.
MatchesAnyId(r, p) == r # Garbage /\ r.type = p.type

\* read and validate_loaded_obj of the layouts.
Matches(r, p) ==
  /\ r # Garbage
  /\ r.type = p.type
  /\ HasStoredId => r.id = p.id

Limit(p, v) == IF v > p.max THEN p.max ELSE IF v < p.min THEN p.min ELSE v
Fits(p, v)  == p.min <= v /\ v <= p.max

Defaults(t) == [i \in 1 .. Count(t) |-> t.par[i].def]

\* Mutant: the last record the header covers is not restored.
RestoredBefore(s, t, i) ==
  /\ i < s.head.body.n
  /\ \A k \in 1 .. i : Matches(s.rec[k], t.par[k])
  /\ \A k \in 1 .. i - 1 : Fits(t.par[k], s.rec[k].val)

\* par_nvm_load_all: the records it restores before it stops.  A value that
\* had to be limited is restored, and stops it like a failure.
RestoredTo(s, t, i) ==
  /\ i <= s.head.body.n
  /\ \A k \in 1 .. i : Matches(s.rec[k], t.par[k])
  /\ \A k \in 1 .. i - 1 : Fits(t.par[k], s.rec[k].val)
StopsAtLimit(s, t) ==
  \E i \in 1 .. s.head.body.n :
    RestoredTo(s, t, i) /\ ~Fits(t.par[i], s.rec[i].val)
Readable(s, t) ==
  StopsAtLimit(s, t) \/ \A i \in 1 .. s.head.body.n : Matches(s.rec[i], t.par[i])

\* The values after restoring the records of s over the values v.
RestoredOver(s, t, v) ==
  [i \in 1 .. Count(t) |->
     IF RestoredTo(s, t, i) THEN Limit(t.par[i], s.rec[i].val) ELSE v[i]]

\* What a reset would find: the values init ends with, if nothing fails.
Restored(s, t) ==
  IF ValidHeader(s, t) /\ Readable(s, t) THEN RestoredOver(s, t, Defaults(t)) ELSE Defaults(t)

\* A power loss or a failed write has left no torn bytes where init looks.
Intact(s, t) ==
  /\ s.head.body # Garbage
  /\ ValidHeader(s, t) => \A i \in 1 .. s.head.body.n : s.rec[i] # Garbage

-----------------------------------------------------------------------------
(* The store.  A call that answers ok has made everything durable; one     *)
(* that fails, or is cut, may have done any part of its work.              *)

Differs(parts) == Cardinality(parts) > 1
HeadsOf(S) ==
  LET heads == {s.head : s \in S}
  IN IF "head" \in Tears /\ Differs(heads)
     THEN [sign : {h.sign : h \in heads}, body : {h.body : h \in heads} \cup {Garbage}]
     ELSE heads
RecordsOf(S, i) ==
  LET recs == {s.rec[i] : s \in S}
  IN IF "record" \in Tears /\ Differs(recs) THEN recs \cup {Garbage} ELSE recs

\* Every part of a mix is that part of one of the stores of S, or torn
\* between them.
Mixes(S) ==
  LET heads == HeadsOf(S)
      recs  == [i \in Slots |-> RecordsOf(S, i)]
  IN [head : heads, rec : {f \in [Slots -> UNION {recs[i] : i \in Slots}] :
                             \A i \in Slots : f[i] \in recs[i]}]

\* Mutant: the header is not invalidated before the records are rewritten.
ErasedNothing(s) == s
Unsigned(s) == [s EXCEPT !.head.sign = FALSE]

WithRecord(s, i) ==
  [s EXCEPT !.rec[i] = [id |-> table.par[i].id, type |-> table.par[i].type, val |-> val[i]]]

\* Mutant: the header that ends an append keeps the old count.
OldHeader(s)  == [s EXCEPT !.head.sign = TRUE]
WithHeader(s) == [s EXCEPT !.head = [sign |-> TRUE, body |-> Header(table, Count(table))]]

\* The store as the running write or erase will leave it.
Pending ==
  CASE pc \in {"append", "record", "save"} -> WithRecord(live, cursor)
    [] pc \in {"appendHeader", "header"}   -> WithHeader(live)
    [] pc = "erase"                        -> Unsigned(live)
    [] OTHER                               -> live

StoreOk ==
  /\ live' = Pending
  /\ mem' = Pending

StoreFails ==
  /\ pc \in Faults
  /\ live' \in Mixes({live, Pending})
  /\ mem' \in Mixes({mem, live', Pending})

-----------------------------------------------------------------------------
(* Init.                                                                   *)

Blank == [head |-> [sign |-> FALSE, body |-> Garbage], rec |-> [i \in Slots |-> Garbage]]

Init ==
  /\ mem = Blank /\ live = Blank
  /\ table \in Tables
  /\ val = Defaults(table)
  /\ up = FALSE /\ warm = FALSE
  /\ pc = "off" /\ cursor = 1
  /\ reply = "none"
  /\ saved = [id \in Ids |-> None]
  /\ trusted = TRUE

\* What init keeps: the values of the records the stored header covers, if
\* the table is compatible with it.
Covered(s, t) ==
  IF ValidHeader(s, t) THEN {t.par[i].id : i \in 1 .. s.head.body.n} ELSE {}

Ends(r) ==
  /\ pc' = "idle"
  /\ cursor' = 1
  /\ reply' = r

\* par_init: after a reset the table is that of the firmware and the values
\* are its defaults; after par_deinit both are what they were.
Boot ==
  /\ pc = "off"
  /\ IF warm THEN UNCHANGED <<table, val>>
             ELSE /\ table' \in Tables
                  /\ val' = Defaults(table')
  /\ \/ pc' = "load" /\ up' = TRUE /\ reply' = "none"
     \/ "open" \in Faults /\ pc' = "idle" /\ up' = FALSE /\ reply' = "error"
  /\ saved' = [id \in Ids |-> IF trusted /\ id \in Covered(mem, table') THEN saved[id] ELSE None]
  /\ trusted' = TRUE
  /\ warm' = FALSE
  /\ UNCHANGED <<store, cursor>>

InitFails ==
  /\ val' = Defaults(table)
  /\ Ends("error")
  /\ trusted' = FALSE
  /\ UNCHANGED saved

\* A read that fails, of the header or of a record: defaults, and the store
\* is left alone.
LoadFails ==
  /\ pc = "load"
  /\ "read" \in Faults
  /\ InitFails
  /\ UNCHANGED <<store, table, warm, up>>

\* Header or records of no use: defaults, and a new image.  (Torn bytes void
\* what saves have answered; other reasons to start over do not.)
StartOver ==
  /\ pc = "load"
  /\ ~(ValidHeader(live, table) /\ Readable(live, table))
  /\ val' = Defaults(table)
  /\ pc' = "erase"
  /\ saved' = IF Intact(live, table) THEN saved ELSE [id \in Ids |-> None]
  /\ UNCHANGED <<store, table, warm, up, cursor, reply, trusted>>

Restore ==
  /\ pc = "load"
  /\ ValidHeader(live, table) /\ Readable(live, table)
  /\ val' = RestoredOver(live, table, val)
  /\ IF live.head.body.n < Count(table) /\ ~StopsAtLimit(live, table)
     THEN /\ pc' = "append"
          /\ cursor' = live.head.body.n + 1
          /\ UNCHANGED reply
     ELSE Ends("initOk")
  /\ UNCHANGED <<store, table, warm, up, history>>

\* Mutant: the tail is one record too long.
AppendOneMore ==
  /\ pc = "append"
  /\ \/ /\ StoreOk
        /\ IF cursor <= Count(table) THEN cursor' = cursor + 1 /\ UNCHANGED pc
                                     ELSE cursor' = 1 /\ pc' = "appendHeader"
        /\ UNCHANGED <<val, reply, history>>
     \/ /\ StoreFails
        /\ InitFails
  /\ UNCHANGED <<table, warm, up>>

\* The tail a longer table adds: its records, then the header.
AppendRecord ==
  /\ pc = "append"
  /\ \/ /\ StoreOk
        /\ IF cursor < Count(table) THEN cursor' = cursor + 1 /\ UNCHANGED pc
                                    ELSE cursor' = 1 /\ pc' = "appendHeader"
        /\ UNCHANGED <<val, reply, history>>
     \/ /\ StoreFails
        /\ InitFails
  /\ UNCHANGED <<table, warm, up>>

AppendHeader ==
  /\ pc = "appendHeader"
  /\ \/ /\ StoreOk
        /\ Ends("initOk")
        /\ UNCHANGED <<val, history>>
     \/ /\ StoreFails
        /\ InitFails
  /\ UNCHANGED <<table, warm, up>>

-----------------------------------------------------------------------------
(* par_nvm_write_scalar_all, for init and for par_save_all.  (reply is     *)
(* "none" while init runs it and "saveAllOk" while par_save_all does.)     *)

BulkFails ==
  /\ StoreFails
  /\ Ends("error")
  /\ saved' = [id \in Ids |-> None]
  /\ trusted' = FALSE

Erase ==
  /\ pc = "erase"
  /\ \/ /\ StoreOk
        /\ pc' = "record"
        /\ saved' = [id \in Ids |-> None]
        /\ UNCHANGED <<cursor, reply, trusted>>
     \/ BulkFails
  /\ UNCHANGED <<ram, up>>

WriteRecord ==
  /\ pc = "record"
  /\ \/ /\ StoreOk
        /\ IF cursor < Count(table) THEN cursor' = cursor + 1 /\ UNCHANGED pc
                                    ELSE cursor' = 1 /\ pc' = "header"
        /\ UNCHANGED <<reply, history>>
     \/ BulkFails
  /\ UNCHANGED <<ram, up>>

\* The live value of a parameter, by ID.
ValueOf(id) ==
  IF \E i \in Here : table.par[i].id = id
  THEN val[CHOOSE i \in Here : table.par[i].id = id] ELSE None

WriteHeader ==
  /\ pc = "header"
  /\ \/ /\ StoreOk
        /\ Ends(IF reply = "saveAllOk" THEN reply ELSE "initOk")
        /\ saved' = [id \in Ids |-> ValueOf(id)]
        /\ trusted' = TRUE
     \/ BulkFails
  /\ UNCHANGED <<ram, up>>

-----------------------------------------------------------------------------
(* Calls.                                                                  *)

\* par_set and its kin limit the value to the range.
SetValue ==
  /\ pc = "idle"
  /\ \E i \in Here, v \in Values : val' = [val EXCEPT ![i] = Limit(table.par[i], v)]
  /\ reply' = "none"
  /\ UNCHANGED <<store, table, warm, up, pc, cursor, history>>

\* par_save.  Without NVM it answers an error and changes nothing.
BeginSave ==
  /\ pc = "idle" /\ up
  /\ \E i \in Here :
       /\ cursor' = i
       /\ saved' = [saved EXCEPT ![table.par[i].id] = None]
  /\ pc' = "save"
  /\ reply' = "none"
  /\ UNCHANGED <<store, ram, up, trusted>>

Save ==
  /\ pc = "save"
  /\ \/ /\ StoreOk
        /\ saved' = [saved EXCEPT ![table.par[cursor].id] = val[cursor]]
        /\ Ends("saveOk")
     \/ /\ StoreFails
        /\ Ends("error")
        /\ UNCHANGED saved
  /\ UNCHANGED <<ram, up, trusted>>

\* par_save_all and par_save_clean.
BeginSaveAll ==
  /\ pc = "idle" /\ up
  /\ pc' = "erase"
  /\ reply' = "saveAllOk"
  /\ saved' = [id \in Ids |-> None]
  /\ UNCHANGED <<store, ram, up, cursor, trusted>>

Deinit ==
  /\ pc = "idle"
  /\ pc' = "off"
  /\ up' = FALSE /\ warm' = TRUE
  /\ reply' = "none"
  /\ UNCHANGED <<store, table, val, cursor, history>>

\* A power loss or reset; a write that is running is cut.
PowerLoss ==
  /\ mem' \in (IF Pending = live THEN {mem} ELSE Mixes({mem, live, Pending}))
  /\ live' = mem'
  /\ val' = Defaults(table)
  /\ pc' = "off" /\ cursor' = 1
  /\ up' = FALSE /\ warm' = FALSE
  /\ reply' = "none"
  /\ UNCHANGED <<table, history>>

Next ==
  \/ Boot \/ LoadFails \/ StartOver \/ Restore \/ AppendRecord \/ AppendHeader
  \/ Erase \/ WriteRecord \/ WriteHeader
  \/ SetValue \/ BeginSave \/ Save \/ BeginSaveAll \/ Deinit
  \/ PowerLoss

Spec == Init /\ [][Next]_vars
-----------------------------------------------------------------------------
(* Properties.                                                             *)

Survives(id) ==
  \A i \in Here :
    table.par[i].id = id /\ saved[id] # None => Restored(mem, table)[i] = saved[id]

\* Once par_save or par_save_all has answered ok for a parameter, a reset at
\* any later instant restores that value (par_nvm_write, par_nvm_load_all),
\* until a save of it or of all begins, unless torn bytes make init start
\* over, or init or a save of all reported an error before.
SaveSurvives == trusted /\ Intact(mem, table) => \A id \in Ids : Survives(id)

\* "Power loss after a normal save completed: value after reboot is correct"
\* (nvm-fixed-slot-with-size-manual-test.md), whatever was reported before.
\* par_save rewrites its record and answers ok without looking at the header,
\* so after a failed rewrite of the image the answer is worth nothing.
AnsweredSurvives == Intact(mem, table) => \A id \in Ids : Survives(id)

\* When par_nvm_init or par_save_all has answered ok, the header covers the
\* whole table and every record holds the live value of its parameter.
StoreShowsValues ==
  pc = "idle" /\ reply \in {"initOk", "saveAllOk"} =>
    /\ ValidHeader(live, table)
    /\ live.head.body.n = Count(table)
    /\ \A i \in Here : Matches(live.rec[i], table.par[i]) /\ live.rec[i].val = val[i]

\* When par_nvm_init has answered ok, every parameter whose record is good has
\* the stored value, limited to its range: "existing scalar values are
\* retained" (nvm-schema-evolution-test-plan.md).  A record whose value has
\* to be limited ends the restore loop, and init does not notice.
ValuesRetained ==
  pc = "idle" /\ reply = "initOk" =>
    \A i \in Here : Matches(live.rec[i], table.par[i])
                      => val[i] = Limit(table.par[i], live.rec[i].val)

\* The rewrite of the whole image (par_nvm_write_scalar_all) is atomic for
\* init: wherever it is cut or fails, a reset finds the old values, the
\* defaults or the new values, never some of each.
RewriteIsAtomic ==
  [][trusted /\ mem = live /\ pc \in {"erase", "record", "header"}
       => Restored(mem', table) \in {Restored(mem, table), Defaults(table), val}]_vars
=============================================================================

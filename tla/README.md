# A TLA+ verification of the device-parameter library

The repository (`parameters/`, `backend/`, `port/`) is a C library that keeps a
table of device parameters in RAM, gives typed and locked access to them, and
stores the persistent ones in non-volatile memory.  This directory holds TLA+
models of it, the TLC runs that check them, and proofs that TLAPS checks.

## 1. Inventory

Sources are relative to the repository.

| component | state | operations |
| --- | --- | --- |
| **flash-ee backend** `parameters/src/nvm/backend/par_store_backend_flash_ee.c` | two flash banks (header, record slots); RAM: active bank, sequence number, append offset, one cache window with dirty bits | init, deinit, read, write, erase, sync, checkpoint |
| flash ports `backend/par_store_backend_flash_ee_{native,fal}.c` | - | read, program, erase of the device |
| AT24Cxx backend `backend/par_store_backend_rtt_at24cxx.c`, GeL backend `parameters/src/nvm/backend/par_store_backend_gel_nvm.c` | open handle | read, write, erase, sync |
| **NVM core** `parameters/src/nvm/par_nvm.c`, `par_nvm_table_id.c` | header (signature, count, table id, CRC) and records in the store; `gb_is_init`, ownership, a load map for debug prints | init with recovery, write one, write all, reset all, deinit |
| scalar layouts `parameters/src/nvm/scalar/` | - (pure address and format rules) | address, read, write, compatibility |
| **object NVM** `parameters/src/nvm/object/` | object block: header, one record per object (payload and metadata), shared or dedicated store | init with rebuild, write one, write all, read |
| **parameter core** `parameters/src/par.c`, `detail/` | live values, default mirror, `gb_is_init`, callbacks, roles | init, deinit, defaults, raw reset |
| **scalar API** `parameters/src/scalar/par_scalar_api.c`, `detail/par_typed_impl.inc` | the live value of each scalar, under the mutex of its parameter | set, get, fast set, set to default, set and save, has changed |
| **object API** `parameters/src/object/` | object slots (bytes, length) | set, get, defaults, set and save |
| definitions, id map, RAM layout `parameters/src/def/`, `layout/` | constant tables | lookups, table checks |
| platform interface `parameters/src/port/`, `port/` | mutexes | lock, unlock, hash, atomics |
| shell tool, generator | - | text |

Interaction: the API calls the core, which keeps the values in the groups of the
RAM layout; NVM core and object NVM read and write live values through the API,
and read, write, erase and sync a *store backend* through the interface of
`par_store_backend.h`.  Scalars and objects may share one backend.  Everything
runs on the caller's thread; the library has no thread of its own.  Setters and
object getters take the mutex of the parameter (the port in this repository has
one for all); scalar getters, fast and bitwise setters and the scalar stores
take none.

What is hard, by component:

* **flash-ee**: a power loss between or inside any two flash operations; port
  calls that fail, and that fail after having done all or part of their work;
  retries after a failure; the cache window being replaced under a request;
  the capacity limits.  Correct means: what was answered `ok` survives, a
  reboot agrees with the backend that was running, some bank is always
  mountable, flash is programmed only where erased, requests return.
* **NVM core**: header and records are separate writes, so a crash separates
  them; init must recover from any mixture (bad signature, other table id, CRC
  errors, fewer or more records) and must not lose the values it could restore.
* **object NVM**: payload and metadata are separate writes; a record whose
  metadata does not match must fall back to the default; shared stores.
* **core and scalar API**: several threads; callbacks under the lock; a value
  read under a lock and saved after it; a save skipped because the value did not
  change though the last save failed; init after deinit.
* **layouts and EEPROM**: a request is several page writes, each of which can
  fail, be cut or be dropped by the device; overlapping addresses, off-by-one at
  the ends of the window; images of another firmware.  A record must be whole or
  known to be bad, and the bytes of other owners stay as they are.
* **ids, definitions**: hash collisions, two parameters in one cell.

PROJECT.json lists each hazard at its line with the properties about it.

## 2. Plan

All of it is done; this is the order the parts were built in, the most
important behaviour first, and how they hang together.

1. `FlashEE` with `LogicalStore` (what a backend promises), `FlashEEProofs` and
   `FlashEEStoreProofs`: everything persistent rests on it.
2. `ParNvm`, the header and record protocol of the scalar NVM core over a store
   that keeps the promise, and `ParNvmProofs`.
3. `ParTable`, the pure part of the table (checks, RAM layout, identity map),
   which the two next modules extend.
4. `ParNvmObject` and `ParNvmObjectProofs`: the object block over a byte store.
5. `ParCore` with `ParValues` (one register per parameter), `ParCoreProofs` and
   `ParCoreValuesProofs`: the API called by several threads, NVM being one value
   per parameter.
6. `NvmLayouts`, the record layouts as operators; `NvmEeprom` runs them byte by
   byte on the EEPROM backend and implements `RecordStore`, the store of whole
   or bad records that `ParNvm` takes for granted; `NvmEepromProofs`.
7. `SumProofs`: induction over numbers and the partial sums that offsets and
   addresses are made of, for the proofs of the three modules that use them.

The stack is composed by these interfaces: `FlashEE` implements `LogicalStore`
and the EEPROM writes through, hence a store call that answers ok is durable in
`ParNvm` and `ParNvmObject`; `NvmEeprom` implements `RecordStore`, hence a record
of `ParNvm` is whole or bad; `ParNvm` and `ParNvmObject` show that what was saved
with ok comes back, hence one value per parameter in `ParCore`.

What would come next: NVM calls from two threads (which the library leaves to
its callers to serialise), the registration of callbacks at run time, and a run
of `ParCore` with one mutex per parameter.

## 3. The modules

### FlashEE

| state | code |
| --- | --- |
| `hdr`, `bseq`, `slot` | the two banks in flash: header state and sequence number, and each record slot (free, torn, open, closed, bad) |
| `up`, `active`, `seq`, `next` | `is_init`, `active_bank_base`, `active_seq`, `active_next_offset` (as a slot number) |
| `cacheValid`, `cacheBase`, `cache`, `dirty` | the cache window and its dirty bitmap |
| `cursor`, `copied`, `pc` | loop variables of `flush_cache` and `checkpoint`, and where the call is |
| `req`, `reply` | the request being served, and its status |

Byte addresses become line, window and slot numbers: a request covers a range of
lines, and partial lines (read, modify, stage) are a line of another value.  One
action is one call of the flash port, with the code around it, or a stretch of
code that only reads flash: `Boot` is init with the scan of both banks,
`StageChunk`, `LeaveDirty`, `LoadForStage` and `CommitStaged` are one round of
the loop of write and erase, `EnsureCapacity`, `FlushPayload`, `FlushCommit` and
`FlushDone` are a sync, `Erase`, `Header`, `CopyPayload`, `CopyCommit`,
`CopyDone`, `Activate` and `Switch` a checkpoint, which is also how init formats.
`PowerLoss` may come between any two steps and cut the running erase or program.
`Faults` says what a port call that fails may have done (`none`, `partial`,
`full`), `ReadFaults` whose reads may fail.

`LogicalStore` is the promise to the layer above: an array of lines that is read
back as written, staged lines becoming durable at any time, nothing staged when
a request has answered `ok`.  `FlashEE` implements it under `mem <- DurableView`
(what a reboot would read) and `live <- LiveView` (what a read returns).

### ParNvm

| state | code |
| --- | --- |
| `mem`, `live` | the store: the header (signature; count and digest under a CRC) and a record per slot, after a power loss and as read now |
| `table`, `val` | the parameter table of the firmware, and the live values of its persistent scalars |
| `up` | `gb_is_init` of par_nvm.c |
| `pc`, `cursor` | which write of init, save or save-all comes next, and for which slot |
| `reply` | what the last call answered |
| `saved`, `trusted` | history for the properties: what was answered ok, by ID, and whether an init or a save of all has failed since the last boot |

`Boot` is `par_init` up to opening the store; `LoadFails`, `StartOver` and
`Restore` are the three ways `par_nvm_init` can take after it (a read error: the
defaults and no rewrite; a bad header, table or record: the defaults and a
rewrite; restore); `AppendRecord` and `AppendHeader` are the tail a longer table
adds; `Erase`, `WriteRecord` and `WriteHeader` are `par_nvm_write_scalar_all`,
for init and for `par_save_all` and `par_save_clean`; `Save` is `par_nvm_write`.
A cold boot may start any firmware of `Tables`; a boot after `par_deinit` finds
the old values in RAM.  A store call that answers ok has made everything durable
(for flash-ee that is `OkIsDurable`, checked above; the EEPROM writes through);
one that fails leaves any mixture of old and new parts, torn ones included, and
the same goes for a cut by a power loss.

`HasStoredId` and `AppendsTail` choose the record layout.  Digests and CRCs are
taken not to collide, two types stand for two widths, and the build is one with
the table check (`PAR_CFG_TABLE_ID_CHECK_EN`) and without write verification.

### ParTable

No state.  A table is a function from parameter numbers to rows, as in
`par_table.def`.  `table_compiles` is what the static assertions and the
identity hash of `par_def.c` and `par_id_map_static.c` demand,
`check_table_validity` what `par_init` checks; `layout_offset`, `layout_count`
and `obj_pool_offset` are the scan of `par_layout.c`, recursive functions over
the rows; `get_num_by_id` is the lookup in the static map.  `ParCore` assumes of
its table what the compiler checks of it, and of the defaults of objects what
`par_init` does, and TLC evaluates the assumption.

### ParCore

| state | code |
| --- | --- |
| `is_init` | `gb_is_init` of par.c |
| `store`, `pool`, `len` | the scalar cells, the byte pool and the lengths of the object slots |
| `mirror` | the default mirrors of the raw reset |
| `lock` | the owner of each mutex; `MutexOf` maps parameters to mutexes |
| `pc`, `job`, `seen`, `ret` | where each thread is in its call, the call, what it has read, what it answers |
| `nvm` | the stored value of each persistent parameter |
| `heard`, `quiet`, `tainted`, `alone`, `got` | history for the properties |

One step is what a thread does between two points where another thread can see
or change what it uses.  A checked setter is `SetScalar` (guards), `AcquireForSet`
(the mutex or its timeout; validation and the old value), `StoreScalar`,
`Reread`, `NotifyAndRelease`, and for set-and-save `SaveRead` and `SaveWrite`
after the mutex was given back.  `SetFast` and `SetBits` take no mutex.  An object
setter is `SetObject` or `SetObjectAndSave`, `AcquireForSetObject`, `ClearWindow`
(memset), `CopyPayload` (memcpy), `CommitLen`, and `SaveObject` still under the
mutex; a getter is `GetObject`, `AcquireForGet`, `CopyOut`.  `SetToDefault`,
`Save`, the getters of defaults and lengths, the raw reset (`ResetAllRaw` to
`ResetSlots`), `par_init`, `par_deinit` and `Reboot` make up the rest.  `ById` and
`ByNumber` are the two ways to name a parameter.

`ParValues` is the promise to the callers: every parameter is a register that
holds a legal value, an object is read whole, and a reset gives all objects
their defaults at once.  `ParCore` implements it under `val[p] <- whole[p]` for
objects (the payload when the last write of it was complete) and the live cell
for scalars.

### ParNvmObject

| state | code |
| --- | --- |
| `cells` | the byte store: payload bytes, the signature, the rest of the header, record heads; a cut write leaves `Garbage` in the group it was in |
| `fw` | the running firmware: its table, where its object block is, and whether it checks the table id |
| `pc`, `op`, `idx`, `meta`, `head` | which write of a boot or save comes next, for which record |
| `live`, `locked` | the objects in RAM, and whether the writer holds the mutex |
| `saved`, `sound`, `signed`, `half`, `expect` | history for the properties |

`Boot`, `ReadHeader`, `ReadRecord`, `RestoreDone` and `set_persistent_defaults`
are `par_nvm_object_init`; `EraseSign`, the record steps and `WriteHeader`,
`SyncHeader` are `par_nvm_object_write_all`, which a rebuild and an append run
too; `TakeMutex`, `WritePayload`, `WriteMeta`, `SyncRecord` write one record, for
`par_nvm_object_write` and, without `TakeMutex`, for `_write_locked`.
`ResetFails` is `par_set_to_default` without the mutex, for some of the objects
that a restore gives their defaults: it answers an error, rewrites nothing and
takes NVM down.  `SetObject` is another thread, at any point at which it can have
the mutex.  Every write may fail or be cut by `PowerLoss` after any beginning of
its groups.  The three address modes and the two store modes are in
`get_block_addr` and `validate_storage_capacity`; the scalar block is cells that
must stay as they are.

### NvmLayouts, NvmEeprom, RecordStore

`NvmLayouts` has the five layouts as operators, one per function of their
vtables: addresses, bytes of a record, what a read of them says, validation,
and compatibility of a stored image with the running table.  A byte of a CRC is
the bytes it is computed from, so digests do not collide.

`NvmEeprom` has the bytes of the device (`eeprom`), the request that runs (`op`),
where it is and what is left of it (`addr`, `left`).  `WriteRecord`, `WriteHeader`
and `EraseSignature` start a request with its range check, `Transfer` is one turn
of the page or chunk loop (done; failed after any beginning; acknowledged and not
stored, each page of a call that crosses pages on its own), `SyncAndVerify` ends
it with the configured read-back, `Reboot` may cut it and start a firmware with
another table.  A record may be written whatever header is stored: `par_nvm_write`
asks for none, and the NVM core stays up when its header could not be read and
when the signature could not be erased, or only seemed to be.  `StoreInit` and
`StoreDeinit` are opening and closing with the ownership of a device another
module has opened.

`RecordStore` is what `par_nvm.c` uses of it: a header and one record per slot,
each whole or bad; a request changes its own part only; a firmware with a longer
table finds the old records.  Of a record the header does not cover for both the
old and the new firmware it says only that it is bad or reads as something some
firmware has saved (`AnyValue`): its bytes may be those of another slot's record,
and the layouts without stored IDs cannot tell.  That is also all it says, to the
firmware the header was written by, of records another firmware has written since
under this header.

## 4. What is checked

| run | question | answer |
| --- | --- | --- |
| `flash_ee` | what does any sequence of requests, tolerable failures and power losses do to the banks? | a reboot always agrees with the backend that was running, nothing answered ok is lost, appends go to erased slots only and never run out of the room computed for them, and a store once activated can always be mounted |
| `flash_ee_refines` | is it a persistent array of lines? | yes, and the cache shows what is stored |
| `flash_ee_live` | do flush and checkpoint always end? | every request returns, whatever fails |
| `par_nvm` | what do failures and power losses in init, save and save-all, and changes of firmware, do to saved values? | what was saved with ok is restored, init and save-all leave a store that shows the live values, the rewrite is all or nothing |
| `par_core` | what can two threads calling anything at any time do to each other? | every way out gives the mutex back, observers have the live value, a save leaves the live value, and every parameter is one register |
| `par_nvm_object` | the same as `par_nvm` for objects, with other threads and three address modes | no torn or foreign payload comes up, a restore is all or nothing, half a save of all is refused, saved objects survive, the scalars stay untouched |
| `nvm_eeprom` | do the layouts on a real device keep records whole or bad? | yes, for all five, and no byte outside the window is written |
| `flash_ee_stale_window`, `flash_ee_torn_payload`, `par_nvm_lost_save`, `par_nvm_narrowed`, `par_core_reinit` | findings | a documented promise is broken: see section 6 |

**Bounds, FlashEE.**  Two lines, in one window of two or two windows of one;
three slots, so that a bank can hold a checkpoint of every line and one more
append, the fullest it may be; one value besides the blank line; no request
starts once the sequence number has reached 3 (`MaxSeq`), after two switches of
banks in either direction.  `flash_ee` is checked with `VIEW Seen`, which leaves
out the records no step reads any more: those of the bank a boot would not
choose and no checkpoint is writing (that the choice cannot come back to it is
`RebootAgrees`, checked in the same run and proved), and the contents of a slot
whose append was given up.

**Bounds, ParNvm.**  Three firmwares: one parameter, the same with one appended,
and one where the first was deleted, so that tables are equal, a prefix, longer,
and incompatible; two values; every kind of fault and of torn write.  Two slots
suffice for one record to be written and another not, and for a tail of one.

**Bounds, ParCore.**  Two threads and three calls: a call can be overlapped by
another, and one more can come before, between or after.  Five parameters, one
of each kind that is treated differently: a scalar with bitwise setters, one
with a narrow range and a validation callback, a writable object of up to two
bytes, and two read-only objects behind it in the pool.  Inputs are legal, too
large, refused by a callback, and too long.  The threads are alike, so the run
uses their symmetry; all its properties are safety properties.

**Bounds, ParNvmObject.**  Two faults (`MaxFaults`), so that a retry or a boot
after a cut can be cut again; three boots, of any of five firmwares (two objects
behind the scalars; an object appended, at a fixed address; the two swapped, in a
dedicated store; one scalar more; a fixed address inside the scalars), two
calls; a store of ten cells, in which a longer table does not always fit.  The
model needs at least one persistent object: without any, the code has no block.

**Bounds, NvmEeprom.**  A device of 32 bytes with pages of 8 and erase chunks of
3; a window of 27 bytes from byte 3, so that it begins and ends inside pages and
the second record of the largest layout (28 bytes) ends past it; three tables, so
that a grouped layout moves a record; two values, which differ in their second
byte, so that they are two for a parameter of 16 bits and one for a parameter of
8; four requests; one fault, which may lose one page of a call or several.
Write verification is on, since the device may drop a write: without it nothing
can be said, which `FaultsAssumption` states.

`CHECK_DEADLOCK FALSE` stands where the bound on calls (or on boots) lets a
behaviour end.

**Fairness.**  Only `flash_ee_live` assumes any: `WF_vars(Step)`, the program
goes on with the call it is in.  The code runs on the caller's thread and never
waits, so a call that is not cut takes its next step.  Nothing is assumed of
requests, boots, power losses or of the port's success.  `ParCore` has no
liveness property: a thread waits for the mutex at most `MutexTimeout`, which is
a step of the model, so `MutexFollowsCalls` (nobody keeps it) is what matters.

**Tolerable failures.**  `flash_ee` and the theorems take `Tolerable` of the
flash port: a payload program that reports failure has programmed nothing, an
activation that reports failure did not happen, and the reads of init work.
Erases, headers and commit units may fail with any effect.
`flash_ee_torn_payload` drops the first; the other two are known limits
(section 6).  So nothing is claimed of an activation that reports failure after
it has happened.  One more thing is assumed of the device, in every run and
theorem: a commit unit programmed in part keeps an erased byte
(`ProgramCommit`), which is what the scan tells an open slot by
(`par_store_flash_ee_commit_unit_has_erased_byte`); a unit that came out full
and wrong would fail its bank.  And `LineOf` passes over a committed record with
a wrong CRC, where `resolve_line_from_bank` leaves its bytes in the buffer if no
older record of the line is good; such records need the partial payload that
`Tolerable` excludes, and in `flash_ee_torn_payload` nothing depends on what they
read as.

**Exemptions a reader should know.**  `SavedValueIsLive` of `ParCore` says
nothing of a parameter whose last save failed (the retry finds the value
unchanged and does nothing) or of a scalar another call used during the save
(the save reads the cell after the mutex was given back).  `SavedObjectsSurvive`
needs the header signed: after a save of all that failed, a save of one object
answers ok though the block is unsigned.  `SaveSurvives` of `ParNvm` speaks of
stores without torn bytes (`Intact`): a record torn by a power loss makes init
give up all values, as nvm-fixed-slot-with-size-manual-test.md and
nvm-object-manual-test.md say.

## 5. What is proved

`FlashEEProofs` proves, for any number of lines, windows, slots and values:

* `TypeCorrect`: types, for any port at all.
* `StoreConsistent`: `Tolerable` gives `[]IInv`.  `RebootAgrees` alone is not
  inductive: a scan agrees with RAM only if the active bank was written slot by
  slot up to `next` and is free behind it (`Newest`), which a step of a
  checkpoint preserves only if the bank under construction is not yet active and
  is itself written up to `copied` (`InConstruction`), a commit finds the record
  it closes (`InFlight`), the loops move forward (`InLoop`) and slots are left
  for the dirty lines still to come (`InRoom`).
* `RebootAgreement`, `AppendsAreClean`, `RoomSuffices` and `StoreNeverLost`
  follow from it; the last is an action property.

`FlashEEStoreProofs` goes on to the contents.  `CacheInv` says that the window
holds what is stored plus what was staged (`WindowHolds`), that a flush has
appended what it has passed (`FlushHolds`), that a checkpoint has copied what it
has passed (`CopyHolds`), and what an answer implies (`AnswerHolds`).  From it
follow `CacheIsFaithful` (`ReadsWhatIsStored`), `OkMeansDurable`, and
`BackendKeepsPromise`: every action is a step of `LogicalStore` or a stutter.
The first takes `LoadsWork`, that the reads which load the window work;
`flash_ee_stale_window` shows that it cannot be left out.

`ParNvmProofs` proves, for any tables, layouts and faults, `TypeCorrect` of
`ParNvm` (every loop starts at the first record, `CursorRests`), and for tables
that do not narrow a range (`RangesKept`; `par_nvm_narrowed` shows it is needed):

* `InitShowsValues`: the store agrees with the values already restored or
  written, the loop's progress apart (`RecordsFit`, `ValuesFit`, `Progress`).
* `RewriteAtomic`: during a rewrite the signature is off until every record is
  new (`Serving`, `Rewriting`).
* `SavesSurvive`: each saved value is in the record its ID points to, in every
  image a firmware would accept (`Kept`, `SavingNone`).  It takes `DigestTells`:
  tables with equal digests have equal IDs at equal places.

`ParNvmObjectProofs` proves the six invariants of `ParNvmObject` for any tables,
address modes, sizes and any number of faults, calls and boots: `Base` (the
control state; cells hold what their groups may hold; live payloads are legal)
gives types, `NoTornComesUp` and `ScalarsAreKept`; `RestoreInv` adds that the
objects restored so far are the stored ones, and that those read before a failure
are at their defaults when NVM is up or down, for `RestoreIsAllOrNothing`;
`HalfInv` that the signature is off between the erase and the header; `SaveInv`
that a signed block holds the last saved record of every sound object
(`Signed`), that a rewrite has written the records it has passed (`Rewritten`),
and that the mutex keeps the object equal to the record being written
(`InRecord`), for `SavedObjectsAreKept`.

`ParCoreProofs` proves, for any number of threads, parameters and calls:
`CoreControl`, the control invariant (each place in a call fits its operation,
and the thread owns its mutex exactly where the place needs it: `Shape`,
`Moves`), hence `CoreMutex`; `CoreTypes`, from `DataInv` (no write leaves its
window of the pool); `CoreObservers`, from `ObserverInv` (a thread between store
and callback has read what it will report, unless a writer without the mutex
came between); `CoreSaved`, from `AloneInv`, `TaintInv`, `ScalarInv` and
`ObjectInv`; the last takes `OneMutex`, the port's single mutex.

`ParCoreProofs` also proves what the table computations give, for every table
that compiles: `LayoutGivesCells` and `LayoutGivesWindows` (no two scalars share
a cell, no two objects a byte of the pool), `CompiledTableIsAccepted` (the ID and
layout checks of `par_init` find nothing that the static assertions and the scan
have let through, so that only a default its object cannot hold is refused) and
`LookupFinds` (`par_get_num_by_id` finds every parameter, and no other ID).  All
other theorems about `ParCore` rest on the first two.

`ParCoreValuesProofs` proves `CoreKeepsPromise`: under `OneMutex` every step of
`ParCore` is a step of `ParValues` or a stutter.  `CoreInv` does not suffice: that
an object is one register needs that what is in the pool is the payload of the
last whole write whenever no thread is between the memset and the commit of its
length (`PayloadInv`, with `Exposed` for those places and for the raw reset), that
a getter which has copied still has what it returns, and that what a setter or a
load is about to store is a legal value of the parameter (`RangeInv`).  TLC checked
both as invariants of `par_core` before they were proved.

`NvmEepromProofs` proves `EepromTypesCorrect` and `WindowIsKept`: what a request
has still to write is a sequence that lies in the window (`Loop`), because the
range check covers all of it and no turn of the loop takes more than is left.
`RecordsApart`: in all five layouts records overlap neither each other nor the
header, for any table (the grouped layout orders slots by width and then by
place; of two slots the one before is summed up in the address of the other).
`AppendsKeepAddresses`: two tables that begin alike have the records of the common
beginning at the same addresses, in every layout whose `appends_tail` holds.

From these follows `RecordsKeepPromise`: `NvmEeprom` implements `RecordStore`.  A
byte of a checksum is what it is computed from, so each layout has one byte of a
record that speaks for a single value (`Stamp`), and a record that reads well has
the value its stamp speaks for (`StoredSays`; `WholeIsStored` is the converse).
That the records are whole or bad is not inductive: a record whose write was cut
may come together again from bytes of two later ones.  The invariant (`RecordInv`)
therefore speaks of the stamps in the device: each is that of a value which
requests since the last whole one have left bytes of (`pieces`) or, unless such a
request is running, of what the record says now (`RecordsSpeak`; `HeadSpeaks` for
the header), and no byte of a checksum is that of a value nobody saved
(`KnownBytes`).  A driver call touches only bytes of its request's part
(`CallTouches`, `OtherRecordsKept`, which needs `RecordsApart`), so each of them
is the old one or the one the request has for it.  An answer ok means the part is
whole: because it was read back, or because a device that drops nothing has
stored each byte (`Underway`).  For another firmware, equal table IDs mean equal
types at equal places (`SharedSlots`), hence equal addresses and stamps.

*Sums over the table.*  Offsets and addresses are recursive functions over the
rows.  The library's induction theorems take an operator and cannot be used, so
`SumProofs` does induction over sets of numbers, by the least number outside the
set (`NatSetInduction`, from `WFMin`).  `SumsExist` gives a function that satisfies
the recursive equation, which makes the `CHOOSE` behind a recursive definition
one that does; `SumsAre`, `SumsAgree`, `SumsGrow` and `SumsRoom` say what such sums
are.  They discharge what `ParCore`, `ParNvmObject` and `NvmEeprom` would otherwise
have to assume of their layouts.

Assumptions are those the modules name, on constants only.  `GeometryAssumption`
is what `validate_geometry` checks; `TablesAssumption` of `ParNvm` says that
defaults lie in their range, which the compile-time checks of `par_def.c` and, for
floats, `par_check_table_validity` of `par.c` see to; `TableAssumption` of
`ParCore` is that the table compiles and the defaults of its objects fit, and
`FirmwareAssumption` of `ParNvmObject` the same of its rows.  `WindowAssumption`
and `FaultsAssumption` of `NvmEeprom` are the limits of its configuration, and
`BadAssumption` that `Bad`, which stands for an unusable part, is no value.

Of the properties of the runs that pass, only `RequestReturns` is model-checked
and not proved: liveness under fairness is beyond the prover.  Evaluated by TLC on
the tables of the runs only: the hash of `ParTable` (the theorems hold for any hash
under which the table compiles) and the getters of defaults.

## 6. Findings

1. *A failed read leaves a stale window* (`flash_ee_stale_window`): `load_cache`
   replaces the window before reading its lines and does not clear `cache_valid`
   when a read fails.
2. *A payload that fails half way* (`flash_ee_torn_payload`): the retry programs
   the same slot again; the record is committed with a wrong CRC and its bank is
   rejected at the next init.
3. *A save after a failed rewrite* (`par_nvm_lost_save`): the signature stays
   erased, single saves answer ok, and the reset starts from the defaults.
4. *A narrowed range* (`par_nvm_narrowed`): the warning that a stored value was
   limited ends the restore; the parameters behind it keep their defaults though
   their records are good, and init answers ok.
5. *Mirrors of a second init* (`par_core_reinit`): deinit and init leave the
   integer cells as they were set, and the raw reset then restores those values.

Known limits, without a run: a scan that fails at init mounts the older bank;
an activation that reports failure after it happened leaves RAM writing to the
bank a reboot will not choose; a mutex that cannot be had during the restore of
objects, or while they get their defaults, leaves some as they were and takes NVM
down (`AllOrNothing` then says no more than that NVM is down); a firmware
with more scalars moves an object block that is placed behind them, and its
objects start from their defaults; the erase of the signature is not read back,
so a device that drops it goes on with the old image, under whose header the
records of a rewrite are then written; a table too long for its
window is refused record by record, at run time only.  A comment of the AT24Cxx
backend calls its erase chunks page-aligned; they start where the request starts
and may cross pages, which is harmless as the driver splits writes at pages.

## 7. What is not modelled

* The shell tool: it parses text, checks the session's roles and calls the API
  that `ParCore` models; its only state is those roles.
* The flash ports, the GeL adapter and the table generator: each operation is a
  call of an external driver or library, or runs before the build.  What such a
  call may do is assumed where it is made (`Faults`, the store of `ParNvm`).
* NVM calls from two threads at once: the scalar NVM core takes no lock and
  leaves serialising to its caller, so interleaved ones have no promised outcome.
* Registering callbacks while calls run (fixed per run), role getters (no
  state), the debug lookup table, the build without the table check for scalars
  (for objects it is modelled), backends that stage writes and commit them out
  of order behind the NVM core.
* The wrap of the 32-bit sequence number, which takes 2^32 checkpoints.
* Hash and CRC collisions.

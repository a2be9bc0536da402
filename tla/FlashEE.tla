------------------------------- MODULE FlashEE -------------------------------
(***************************************************************************)
(* The flash-emulated EEPROM backend                                       *)
(* (parameters/src/nvm/backend/par_store_backend_flash_ee.c).              *)
(*                                                                         *)
(* The flash region is split into two banks.  A bank is a header followed  *)
(* by record slots; a record is payload and metadata, programmed first,    *)
(* and a commit unit, programmed last.  The newest bank whose header says  *)
(* ACTIVE is the store.  RAM keeps one cache window of lines with a dirty  *)
(* bit each.  When the active bank is full, or an append fails, the live   *)
(* contents are copied to the other bank, which is then activated.         *)
(*                                                                         *)
(* One step is one call of the flash port (erase, program) or one stretch  *)
(* of code that only touches RAM and reads flash.  The port may fail any   *)
(* call, with the effects Faults allows, and the power may fail between    *)
(* any two steps, or in the middle of an erase or of a program.            *)
(***************************************************************************)
EXTENDS Integers, FiniteSets

CONSTANTS
  NumLines,        \* logical lines (line_count)
  LinesPerWindow,  \* lines one cache window covers
  NumSlots,        \* record slots of one bank (max_records)
  Values,          \* line contents other than the erased pattern
  Blank,           \* a line that reads as all 0xFF
  Faults,          \* <<step, effect>>: what a port call that fails may leave
  ReadFaults,      \* the readers whose port reads may fail
  MaxSeq           \* bound: no request starts once active_seq has reached it

Lines   == 0 .. NumLines - 1
Content == Values \cup {Blank}
Bank    == {0, 1}
Slots   == 1 .. NumSlots

FlashSteps == {"erase", "header", "payload", "commit", "activate"}
Effects    == {"none", "partial", "full"}

\* validate_geometry: a bank holds every line and one more append.
ASSUME GeometryAssumption ==
  /\ NumLines \in Nat \ {0}
  /\ LinesPerWindow \in Nat \ {0}
  /\ NumSlots \in Nat /\ NumSlots > NumLines
ASSUME ValuesAssumption == Blank \notin Values
ASSUME FaultsAssumption ==
  /\ Faults \subseteq FlashSteps \X Effects
  /\ ReadFaults \subseteq {"scan", "load", "copy"}
ASSUME MaxSeqAssumption == MaxSeq \in Nat

VARIABLES
  hdr,         \* header of each bank
  bseq,        \* sequence number in the header of each bank
  slot,        \* record slots of each bank
  pc,          \* what the backend does next
  up,          \* is_init
  active,      \* active_bank_base
  seq,         \* active_seq
  next,        \* active_next_offset, as a slot number
  cacheValid,  \* cache_valid
  cacheBase,   \* cache_base, as a window number
  cache,       \* cache bytes, by line (lines outside the window are unused)
  dirty,       \* dirty bitmap, as a set of lines
  cursor,      \* line index of the loop of flush_cache or of checkpoint
  copied,      \* next_offset of checkpoint, as a slot number
  req,         \* the request being served and its lines not yet staged
  reply        \* status of the last write, erase, sync or deinit request

flash   == <<hdr, bseq, slot>>
context == <<up, active, seq, next>>
window  == <<cacheValid, cacheBase, cache, dirty>>
loop    == <<cursor, copied>>
vars    == <<flash, pc, context, window, loop, req, reply>>

HeaderState == {"erased", "torn", "prepare", "active"}
\* free: never programmed since the erase; torn: payload garbled, commit unit
\* not complete; open: payload complete, commit unit not; closed: committed;
\* bad: committed, and its metadata or CRC does not match.
Record == [st : {"free", "torn", "open", "closed", "bad"}, line : Lines, val : Content]
Marked(st)  == [st |-> st, line |-> 0, val |-> Blank]
Requests == [kind : {"none", "write", "sync", "deinit"}, todo : SUBSET Lines, val : Content]
NoRequest == [kind |-> "none", todo |-> {}, val |-> Blank]
Places == {"off", "idle", "serve", "sync", "flush", "flushCommit",
           "erase", "header", "copy", "copyCommit", "activate"}

TypeOK ==
  /\ hdr \in [Bank -> HeaderState]
  /\ bseq \in [Bank -> Nat]
  /\ slot \in [Bank -> [Slots -> Record]]
  /\ pc \in Places
  /\ up \in BOOLEAN
  /\ active \in Bank
  /\ seq \in Nat
  /\ next \in 1 .. NumSlots + 1
  /\ cacheValid \in BOOLEAN
  /\ cacheBase \in Nat
  /\ cache \in [Lines -> Content]
  /\ dirty \subseteq Lines
  /\ cursor \in 0 .. NumLines
  /\ copied \in 1 .. NumSlots + 1
  /\ req \in Requests
  /\ reply \in {"none", "ok", "error"}

-----------------------------------------------------------------------------
(* Reading the banks.                                                      *)

Other(b)    == 1 - b
WindowOf(l) == l \div LinesPerWindow
First(S)    == CHOOSE l \in S : \A k \in S : l <= k
Last(S)     == CHOOSE l \in S : \A k \in S : l >= k

\* Mutant: the scan takes the first uncommitted slot for the end.
ScanEndAtTail(b) ==
  CHOOSE n \in 1 .. NumSlots + 1 :
    /\ n \in Slots => slot[b][n].st \in {"free", "torn", "open"}
    /\ \A i \in 1 .. n - 1 : slot[b][i].st \notin {"free", "torn", "open"}

\* The slot where the scan of bank b stops: the first one never programmed.
ScanEnd(b) ==
  CHOOSE n \in 1 .. NumSlots + 1 :
    /\ n \in Slots => slot[b][n].st = "free"
    /\ \A i \in 1 .. n - 1 : slot[b][i].st # "free"

\* An uncommitted slot is skipped; a closed but wrong one fails the bank.
ValidBank(b) ==
  /\ hdr[b] = "active"
  /\ \A i \in 1 .. ScanEnd(b) - 1 : slot[b][i].st # "bad"

\* The newest committed record of line l before slot n, else the erased line.
\* (Of a line whose committed records all have a wrong CRC the code returns the
\* oldest of these.  Such a record is "bad"; it needs a payload that failed
\* half way, which Tolerable excludes.)
Hits(b, n, l) == {i \in 1 .. n - 1 : slot[b][i].st = "closed" /\ slot[b][i].line = l}
LineOf(b, n, l) ==
  IF Hits(b, n, l) = {} THEN Blank ELSE slot[b][Last(Hits(b, n, l))].val

CommittedLine(l) == LineOf(active, next, l)
InCache(l)       == cacheValid /\ WindowOf(l) = cacheBase
LiveLine(l)      == IF InCache(l) THEN cache[l] ELSE CommittedLine(l)

-----------------------------------------------------------------------------
(* Writing the banks.  Each operator takes the effect of the call; "full"  *)
(* is that of a call that succeeds, or that fails after having done it     *)
(* all.                                                                    *)

\* A half-erased bank has lost any of its slots, or its header.  (What the
\* slots behind an invalid header hold is never read.)
HalfErase(b) ==
  \/ /\ hdr' = [hdr EXCEPT ![b] = "torn"]
     /\ bseq' = [bseq EXCEPT ![b] = 0]
     /\ slot' = [slot EXCEPT ![b] = [i \in Slots |-> Marked("torn")]]
  \/ /\ hdr[b] = "active"
     /\ \E f \in [Slots -> {"keep", "free", "bad"}] :
       /\ slot' = [slot EXCEPT ![b] =
            [i \in Slots |-> IF f[i] = "keep" THEN slot[b][i] ELSE Marked(f[i])]]
       /\ UNCHANGED <<hdr, bseq>>

EraseBank(b, effect) ==
  CASE effect = "none" -> UNCHANGED flash
    [] effect = "partial" -> HalfErase(b)
    [] effect = "full" ->
         /\ hdr' = [hdr EXCEPT ![b] = "erased"]
         /\ bseq' = [bseq EXCEPT ![b] = 0]
         /\ slot' = [slot EXCEPT ![b] = [i \in Slots |-> Marked("free")]]

ProgramHeader(b, s, effect) ==
  /\ hdr' = [hdr EXCEPT ![b] = CASE effect = "none" -> hdr[b]
                                 [] effect = "partial" -> "torn"
                                 [] effect = "full" -> "prepare"]
  /\ bseq' = [bseq EXCEPT ![b] = IF effect = "full" THEN s ELSE bseq[b]]
  /\ UNCHANGED slot

\* Programming can only clear bits.  On a slot that is not free it succeeds
\* when the slot already holds the same record, and mixes the two otherwise.
ProgramPayload(b, n, l, v, effect) ==
  LET old == slot[b][n]
      new == [st |-> "open", line |-> l, val |-> v]
      outcomes == CASE effect = "none" -> {old}
                    [] effect = "partial" -> {Marked("torn")}
                    [] effect = "full" /\ old.st = "free" -> {new}
                    [] effect = "full" /\ old = new -> {new}
                    [] effect = "full" /\ old.st = "torn" -> {new, Marked("torn")}
                    [] OTHER -> {Marked("torn")}
  IN /\ \E r \in outcomes : slot' = [slot EXCEPT ![b][n] = r]
     /\ UNCHANGED <<hdr, bseq>>

\* Of the device: a commit unit that is programmed in part keeps an erased
\* byte, so the slot is read as before the call.  (One without an erased byte
\* that is not the commit pattern either would fail its bank at the next scan.)
ProgramCommit(b, n, effect) ==
  /\ slot' = [slot EXCEPT ![b][n] =
       CASE effect \in {"none", "partial"} -> slot[b][n]
         [] effect = "full" /\ slot[b][n].st = "open" -> [slot[b][n] EXCEPT !.st = "closed"]
         [] OTHER -> Marked("bad")]
  /\ UNCHANGED <<hdr, bseq>>

ProgramState(b, effect) ==
  /\ hdr' = [hdr EXCEPT ![b] = CASE effect = "none" -> hdr[b]
                                 [] effect = "partial" -> "torn"
                                 [] effect = "full" -> "active"]
  /\ UNCHANGED <<bseq, slot>>

-----------------------------------------------------------------------------
(* Control.                                                                *)

\* Mutants: the checkpoint is built in the active bank, or under the same
\* sequence number.
TargetActive  == IF up THEN active ELSE 0
TargetSeqKept == IF up THEN seq ELSE 1

\* prepare_bank and activate_bank serve the first format and the checkpoint.
Target    == IF up THEN Other(active) ELSE 0
TargetSeq == IF up THEN seq + 1 ELSE 1

Answer(r) ==
  /\ reply' = r
  /\ req' = NoRequest

\* The loop variables are locals of flush_cache and checkpoint.
LeaveLoop ==
  /\ cursor' = 0
  /\ copied' = 1

\* A port call of the running step that fails, leaving this effect.
Fails(step, effect) == <<step, effect>> \in Faults

\* Mutant: a failed checkpoint is tried again.
GiveUpRetries ==
  /\ pc' = IF up THEN "sync" ELSE "off"
  /\ LeaveLoop
  /\ UNCHANGED <<req, reply>>

\* Format and checkpoint give up on the first port call that fails: the
\* first ends in cleanup_failed_init, the second fails the sync above it.
GiveUp ==
  /\ pc' = IF up THEN "idle" ELSE "off"
  /\ LeaveLoop
  /\ IF up THEN Answer("error") ELSE UNCHANGED <<req, reply>>

ResetRam ==
  /\ up' = FALSE /\ active' = 0 /\ seq' = 0 /\ next' = 1
  /\ cacheValid' = FALSE /\ cacheBase' = 0 /\ dirty' = {}
  /\ cache' = [l \in Lines |-> Blank]
  /\ LeaveLoop

Init ==
  /\ hdr = [b \in Bank |-> "erased"]
  /\ bseq = [b \in Bank |-> 0]
  /\ slot = [b \in Bank |-> [i \in Slots |-> Marked("free")]]
  /\ pc = "off"
  /\ up = FALSE /\ active = 0 /\ seq = 0 /\ next = 1
  /\ cacheValid = FALSE /\ cacheBase = 0 /\ dirty = {}
  /\ cache = [l \in Lines |-> Blank]
  /\ cursor = 0 /\ copied = 1
  /\ req = NoRequest
  /\ reply = "none"

-----------------------------------------------------------------------------
(* init: scan both banks, keep the newest valid one, or format bank 0.     *)

\* Mutant: the append offset skips a slot.
MountSkips(b) ==
  /\ pc' = "idle"
  /\ up' = TRUE
  /\ active' = b
  /\ seq' = bseq[b]
  /\ next' = ScanEnd(b) + 1
  /\ UNCHANGED <<flash, window, loop, req, reply>>

Mount(b) ==
  /\ pc' = "idle"
  /\ up' = TRUE
  /\ active' = b
  /\ seq' = bseq[b]
  /\ next' = ScanEnd(b)
  /\ UNCHANGED <<flash, window, loop, req, reply>>

\* readable: the banks whose scan meets no port read failure.
Scan(readable) ==
  LET valid == {b \in readable : ValidBank(b)}
  IN \/ /\ 0 \in valid
        /\ 1 \in valid => bseq[0] >= bseq[1]
        /\ Mount(0)
     \/ /\ 1 \in valid
        /\ 0 \in valid => bseq[0] < bseq[1]
        /\ Mount(1)
     \/ /\ valid = {}
        /\ readable = Bank       \* a failed read forbids the format
        /\ pc' = "erase"
        /\ UNCHANGED <<flash, context, window, loop, req, reply>>

Boot ==
  /\ pc = "off"
  /\ \E readable \in IF "scan" \in ReadFaults THEN SUBSET Bank ELSE {Bank} : Scan(readable)

-----------------------------------------------------------------------------
(* write, erase (a write of Blank), sync and deinit requests.              *)

Begin(kind, todo, v, place) ==
  /\ pc = "idle"
  /\ seq < MaxSeq
  /\ req' = [kind |-> kind, todo |-> todo, val |-> v]
  /\ reply' = "none"
  /\ pc' = place
  /\ UNCHANGED <<flash, context, window, loop>>

BeginWrite == \E l, k \in Lines, v \in Content : l <= k /\ Begin("write", l .. k, v, "serve")
BeginSync   == Begin("sync", {}, Blank, "sync")
BeginDeinit == Begin("deinit", {}, Blank, "sync")

\* Mutant: a window that was loaded before is not read again.
LoadWindowKeeps(w, k) ==
  /\ cacheBase' = w
  /\ cache' = [l \in Lines |-> IF WindowOf(l) = w /\ l < k /\ ~cacheValid THEN CommittedLine(l)
                                                                       ELSE cache[l]]
  /\ IF k = NumLines THEN cacheValid' = TRUE /\ dirty' = {} ELSE UNCHANGED <<cacheValid, dirty>>

\* load_cache, up to line k of window w, where a port read fails (k =
\* NumLines: none does).  The window is replaced before it is read.
LoadWindow(w, k) ==
  /\ cacheBase' = w
  /\ cache' = [l \in Lines |-> IF WindowOf(l) = w /\ l < k THEN CommittedLine(l) ELSE Blank]
  /\ IF k = NumLines THEN cacheValid' = TRUE /\ dirty' = {} ELSE UNCHANGED <<cacheValid, dirty>>

LoadFails(w) ==
  IF "load" \in ReadFaults THEN {k \in Lines : WindowOf(k) = w} ELSE {}

\* One chunk of the loop of write or erase: the window of the first line
\* left.
ThisWindow == WindowOf(First(req.todo))
InPlace    == cacheValid /\ cacheBase = ThisWindow

\* Mutant: the staged lines are not marked dirty.
StageChunkClean ==
  /\ pc = "serve" /\ req.todo # {}
  /\ InPlace
  /\ LET chunk == {l \in req.todo : WindowOf(l) = ThisWindow}
     IN /\ cache' = [l \in Lines |-> IF l \in chunk THEN req.val ELSE cache[l]]
        /\ req' = [req EXCEPT !.todo = req.todo \ chunk]
  /\ UNCHANGED <<flash, pc, context, cacheValid, cacheBase, dirty, loop, reply>>

StageChunk ==
  /\ pc = "serve" /\ req.todo # {}
  /\ InPlace
  /\ LET chunk == {l \in req.todo : WindowOf(l) = ThisWindow}
     IN /\ cache' = [l \in Lines |-> IF l \in chunk THEN req.val ELSE cache[l]]
        /\ dirty' = dirty \cup chunk
        /\ req' = [req EXCEPT !.todo = req.todo \ chunk]
  /\ UNCHANGED <<flash, pc, context, cacheValid, cacheBase, loop, reply>>

\* prepare_cache_window: sync the dirty window before leaving it.
LeaveDirty ==
  /\ pc = "serve" /\ req.todo # {}
  /\ ~InPlace
  /\ cacheValid /\ dirty # {}
  /\ pc' = "sync"
  /\ UNCHANGED <<flash, context, window, loop, req, reply>>

LoadForStage ==
  /\ pc = "serve" /\ req.todo # {}
  /\ ~InPlace
  /\ ~(cacheValid /\ dirty # {})
  /\ \/ /\ LoadWindow(ThisWindow, NumLines)
        /\ UNCHANGED <<pc, req, reply>>
     \/ /\ \E k \in LoadFails(ThisWindow) : LoadWindow(ThisWindow, k)
        /\ Answer("error")
        /\ pc' = "idle"
  /\ UNCHANGED <<flash, context, loop>>

\* commit_staged_cache after the last chunk, and the end of every request.
CommitStaged ==
  /\ pc = "serve" /\ req.todo = {}
  /\ cacheValid /\ dirty # {}
  /\ pc' = "sync"
  /\ UNCHANGED <<flash, context, window, loop, req, reply>>

Finish ==
  /\ pc = "serve" /\ req.todo = {}
  /\ ~(cacheValid /\ dirty # {})
  /\ req.kind # "deinit"
  /\ Answer("ok")
  /\ pc' = "idle"
  /\ UNCHANGED <<flash, context, window, loop>>

\* deinit: the port may refuse to stop, then the backend stays initialized.
FinishDeinit ==
  /\ pc = "serve" /\ req.todo = {}
  /\ req.kind = "deinit"
  /\ \/ /\ Answer("ok")
        /\ pc' = "off"
        /\ ResetRam
     \/ /\ Answer("error")
        /\ pc' = "idle"
        /\ UNCHANGED <<context, window, loop>>
  /\ UNCHANGED flash

\* read, of lines in one window.  Only a window load changes state; while
\* another window is dirty the lines are read through LiveLine instead.
Read ==
  /\ pc = "idle"
  /\ ~(cacheValid /\ dirty # {})
  /\ \E l \in Lines :
       /\ ~(cacheValid /\ cacheBase = WindowOf(l))
       /\ \E k \in {NumLines} \cup LoadFails(WindowOf(l)) : LoadWindow(WindowOf(l), k)
  /\ UNCHANGED <<flash, pc, context, loop, req, reply>>

-----------------------------------------------------------------------------
(* sync: make room, append the dirty lines, fall back on a checkpoint.     *)

\* Mutant: room for one record is taken for enough.
EnsureCapacityOfOne ==
  /\ pc = "sync"
  /\ pc' = IF next <= NumSlots THEN "flush" ELSE "erase"
  /\ UNCHANGED <<flash, context, window, loop, req, reply>>

EnsureCapacity ==
  /\ pc = "sync"
  /\ pc' = IF next + Cardinality(dirty) <= NumSlots + 1 THEN "flush" ELSE "erase"
  /\ UNCHANGED <<flash, context, window, loop, req, reply>>

ToFlush == {l \in dirty : l >= cursor}

FlushDone ==
  /\ pc = "flush"
  /\ ~cacheValid \/ ToFlush = {}
  /\ dirty' = IF cacheValid THEN {} ELSE dirty
  /\ pc' = "serve"
  /\ LeaveLoop
  /\ UNCHANGED <<flash, context, cacheValid, cacheBase, cache, req, reply>>

\* append_record to the active bank; next moves once the payload is down.  A
\* full bank or a payload that fails leads to the checkpoint.
FlushPayload ==
  /\ pc = "flush"
  /\ cacheValid /\ ToFlush # {}
  /\ LET l == First(ToFlush)
     IN \/ /\ next <= NumSlots
           /\ ProgramPayload(active, next, l, cache[l], "full")
           /\ next' = next + 1
           /\ cursor' = l
           /\ UNCHANGED copied
           /\ pc' = "flushCommit"
        \/ /\ \/ next > NumSlots /\ UNCHANGED flash
              \/ /\ next <= NumSlots
                 /\ \E e \in Effects : Fails("payload", e) /\ ProgramPayload(active, next, l, cache[l], e)
           /\ pc' = "erase"
           /\ LeaveLoop
           /\ UNCHANGED next
  /\ UNCHANGED <<up, active, seq, window, req, reply>>

FlushCommit ==
  /\ pc = "flushCommit"
  /\ \/ /\ ProgramCommit(active, next - 1, "full")
        /\ cursor' = cursor + 1
        /\ pc' = "flush"
        /\ UNCHANGED copied
     \/ /\ \E e \in Effects : Fails("commit", e) /\ ProgramCommit(active, next - 1, e)
        /\ pc' = "erase"
        /\ LeaveLoop
  /\ UNCHANGED <<context, window, req, reply>>

-----------------------------------------------------------------------------
(* checkpoint, and the format of init: erase the target bank, program its  *)
(* header as PREPARE, copy the live lines, turn the header to ACTIVE.      *)

Erase ==
  /\ pc = "erase"
  /\ \/ /\ EraseBank(Target, "full")
        /\ pc' = "header"
        /\ UNCHANGED <<loop, req, reply>>
     \/ /\ \E e \in Effects : Fails("erase", e) /\ EraseBank(Target, e)
        /\ GiveUp
  /\ UNCHANGED <<context, window>>

Header ==
  /\ pc = "header"
  /\ \/ /\ ProgramHeader(Target, TargetSeq, "full")
        /\ pc' = IF up THEN "copy" ELSE "activate"
        /\ UNCHANGED <<loop, req, reply>>
     \/ /\ \E e \in Effects : Fails("header", e) /\ ProgramHeader(Target, TargetSeq, e)
        /\ GiveUp
  /\ UNCHANGED <<context, window>>

\* Mutant: the checkpoint looks for lines in the flash only.
ToCopyCommitted == {l \in Lines : l >= cursor /\ CommittedLine(l) # Blank}

\* Lines that read as erased are not copied.  The checkpoint fails when the
\* target is full or a line outside the cache cannot be read.
ToCopy == {l \in Lines : l >= cursor /\ LiveLine(l) # Blank}

CopyPayload ==
  /\ pc = "copy"
  /\ ToCopy # {}
  /\ LET l == First(ToCopy)
     IN \/ /\ copied <= NumSlots
           /\ ProgramPayload(Target, copied, l, LiveLine(l), "full")
           /\ cursor' = l
           /\ copied' = copied + 1
           /\ pc' = "copyCommit"
           /\ UNCHANGED <<req, reply>>
        \/ /\ \/ copied > NumSlots /\ UNCHANGED flash
              \/ /\ copied <= NumSlots
                 /\ \E e \in Effects :
                      Fails("payload", e) /\ ProgramPayload(Target, copied, l, LiveLine(l), e)
           /\ GiveUp
  /\ UNCHANGED <<context, window>>

CopyCommit ==
  /\ pc = "copyCommit"
  /\ \/ /\ ProgramCommit(Target, copied - 1, "full")
        /\ cursor' = cursor + 1
        /\ pc' = "copy"
        /\ UNCHANGED <<copied, req, reply>>
     \/ /\ \E e \in Effects : Fails("commit", e) /\ ProgramCommit(Target, copied - 1, e)
        /\ GiveUp
  /\ UNCHANGED <<context, window>>

CopyReadFails ==
  /\ pc = "copy"
  /\ "copy" \in ReadFaults
  /\ \E l \in Lines : l >= cursor /\ ~InCache(l)
  /\ GiveUp
  /\ UNCHANGED <<flash, context, window>>

CopyDone ==
  /\ pc = "copy"
  /\ ToCopy = {}
  /\ pc' = "activate"
  /\ UNCHANGED <<flash, context, window, loop, req, reply>>

\* Mutant: the checkpoint keeps the append position of the old bank.
SwitchKeepsOffset ==
  /\ up' = TRUE
  /\ active' = Target
  /\ seq' = TargetSeq
  /\ IF up THEN /\ dirty' = {}
                /\ pc' = "flush"
                /\ UNCHANGED <<next, cacheValid, cacheBase, cache>>
           ELSE /\ next' = 1
                /\ pc' = "idle"
                /\ UNCHANGED window

\* The switch of banks; in the format, the end of init.
Switch ==
  /\ up' = TRUE
  /\ active' = Target
  /\ seq' = TargetSeq
  /\ IF up THEN /\ next' = copied
                /\ dirty' = {}
                /\ pc' = "flush"
                /\ UNCHANGED <<cacheValid, cacheBase, cache>>
           ELSE /\ next' = 1
                /\ pc' = "idle"
                /\ UNCHANGED window

Activate ==
  /\ pc = "activate"
  /\ \/ /\ ProgramState(Target, "full")
        /\ Switch
        /\ LeaveLoop
        /\ UNCHANGED <<req, reply>>
     \/ /\ \E e \in Effects : Fails("activate", e) /\ ProgramState(Target, e)
        /\ GiveUp
        /\ UNCHANGED <<context, window>>

-----------------------------------------------------------------------------
(* A power loss or reset: RAM is gone, and the erase or program that was   *)
(* running is half done.                                                   *)

HalfDone ==
  CASE pc = "erase"       -> EraseBank(Target, "partial")
    [] pc = "header"      -> ProgramHeader(Target, TargetSeq, "partial")
    [] pc = "flush" /\ cacheValid /\ ToFlush # {} /\ next <= NumSlots
                          -> ProgramPayload(active, next, First(ToFlush), Blank, "partial")
    [] pc = "flushCommit" -> ProgramCommit(active, next - 1, "partial")
    [] pc = "copy" /\ ToCopy # {} /\ copied <= NumSlots
                          -> ProgramPayload(Target, copied, First(ToCopy), Blank, "partial")
    [] pc = "copyCommit"  -> ProgramCommit(Target, copied - 1, "partial")
    [] pc = "activate"    -> ProgramState(Target, "partial")
    [] OTHER              -> UNCHANGED flash

PowerLoss ==
  /\ HalfDone \/ UNCHANGED flash
  /\ pc' = "off"
  /\ ResetRam
  /\ req' = NoRequest
  /\ reply' = "none"

Step ==
  \/ StageChunk \/ LeaveDirty \/ LoadForStage \/ CommitStaged \/ Finish \/ FinishDeinit
  \/ EnsureCapacity \/ FlushDone \/ FlushPayload \/ FlushCommit
  \/ Erase \/ Header \/ CopyPayload \/ CopyCommit \/ CopyReadFails \/ CopyDone \/ Activate

Next ==
  \/ Boot
  \/ BeginWrite \/ BeginSync \/ BeginDeinit \/ Read
  \/ Step
  \/ PowerLoss

Spec == Init /\ [][Next]_vars

-----------------------------------------------------------------------------
(* What a boot would find, when every read works.                          *)

Boots(b) == CASE b = 0 -> ValidBank(0) /\ (ValidBank(1) => bseq[0] >= bseq[1])
              [] b = 1 -> ValidBank(1) /\ (ValidBank(0) => bseq[0] < bseq[1])

Recoverable == ValidBank(0) \/ ValidBank(1)

BankView(b) == [l \in Lines |-> LineOf(b, ScanEnd(b), l)]
DurableView ==
  CASE Boots(0) -> BankView(0)
    [] Boots(1) -> BankView(1)
    [] OTHER    -> [l \in Lines |-> Blank]
LiveView == IF up THEN [l \in Lines |-> LiveLine(l)] ELSE DurableView

(***************************************************************************)
(* While the backend runs, a reboot would choose the bank it is appending  *)
(* to, with the same sequence number, and would go on at the same slot.    *)
(***************************************************************************)
RebootAgrees ==
  up => /\ Boots(active)
        /\ bseq[active] = seq
        /\ ScanEnd(active) = next

(***************************************************************************)
(* A valid cache window holds, line by line, what the flash holds, except  *)
(* where it is dirty: reads served from it return what was stored.         *)
(***************************************************************************)
ReadsWhatIsStored ==
  cacheValid => \A l \in Lines \ dirty : InCache(l) => cache[l] = CommittedLine(l)

(***************************************************************************)
(* A write, erase, sync or deinit that answered ok left nothing staged:    *)
(* a power loss now would lose nothing of it, and neither would it bring   *)
(* back anything older.                                                    *)
(***************************************************************************)
OkIsDurable == reply = "ok" => DurableView = LiveView

(***************************************************************************)
(* Flash is only programmed where it is erased: the slot an append is      *)
(* about to program was never touched since the bank was erased, however   *)
(* many appends failed or were cut off before.                             *)
(***************************************************************************)
AppendsOnErasedSlot ==
  /\ pc = "flush" /\ next <= NumSlots => slot[active][next].st = "free"
  /\ pc = "copy" /\ copied <= NumSlots => slot[Target][copied].st = "free"

(***************************************************************************)
(* A sync that found or made room does not run out of it half way, and a   *)
(* checkpoint always fits its bank: the capacity checks of flush_cache and *)
(* append_record never fire.                                               *)
(***************************************************************************)
RoomForAppends ==
  /\ pc = "flush" /\ ToFlush # {} => next <= NumSlots
  /\ pc = "copy" /\ ToCopy # {} => copied <= NumSlots

(***************************************************************************)
(* Once a bank has been activated some bank can always be mounted, so init *)
(* never formats again: not after any crash of a checkpoint, whichever of  *)
(* its erases and programs was cut.                                        *)
(***************************************************************************)
NeverUnrecoverable == [][Recoverable => Recoverable']_vars

(***************************************************************************)
(* The backend is a persistent array of lines: every step maps to a step   *)
(* of LogicalStore, so the checkpoint, the switch of banks, the cache and  *)
(* every cut of power are invisible except as that module allows.          *)
(***************************************************************************)
Promise == INSTANCE LogicalStore WITH mem <- DurableView, live <- LiveView
ImplementsLogicalStore == Promise!Spec

-----------------------------------------------------------------------------
(* What holds all the time, if the flash port is tolerable: why a reboot   *)
(* agrees with the running backend.                                        *)

\* A payload that fails left nothing, an activation that fails did not
\* activate, and the reads of init work.
Tolerable ==
  /\ <<"payload", "partial">> \notin Faults
  /\ <<"payload", "full">> \notin Faults
  /\ <<"activate", "full">> \notin Faults
  /\ "scan" \notin ReadFaults

\* Bank b was written slot by slot up to n, and nothing in it is bad.
Written(b, n) ==
  /\ \A i \in 1 .. n - 1 : slot[b][i].st \in {"torn", "open", "closed"}
  /\ \A i \in n .. NumSlots : slot[b][i].st = "free"

\* Bank b is the store, and slot n its append position.
Newest(b, n) ==
  /\ hdr[b] = "active"
  /\ Written(b, n)
  /\ hdr[Other(b)] = "active" => bseq[Other(b)] < bseq[b]

NeverFormatted == \A b \in Bank : hdr[b] # "active"
Durable        == \E b \in Bank, n \in 1 .. NumSlots + 1 : Newest(b, n)

Running == up =>
  /\ pc # "off"
  /\ Newest(active, next)
  /\ bseq[active] = seq

Stopped == ~up =>
  /\ pc \in {"off", "erase", "header", "activate"}
  /\ NeverFormatted \/ (pc = "off" /\ Durable)

\* The bank under construction.
InConstruction ==
  /\ pc = "header" => hdr[Target] = "erased" /\ Written(Target, 1)
  /\ pc \in {"copy", "copyCommit", "activate"} =>
       /\ hdr[Target] = "prepare"
       /\ bseq[Target] = TargetSeq
       /\ Written(Target, copied)

\* The record whose payload is down and whose commit unit is not.
InFlight ==
  /\ pc = "flushCommit" => next > 1 /\ slot[active][next - 1].st = "open"
  /\ pc = "copyCommit" => copied > 1 /\ slot[Target][copied - 1].st = "open"

\* Each turn of a loop moves past a line, and uses at most one slot.
InLoop ==
  /\ pc \in {"flushCommit", "copyCommit"} => cursor \in Lines
  /\ pc \notin {"flush", "flushCommit", "copy", "copyCommit", "activate"} => cursor = 0
  /\ pc \notin {"copy", "copyCommit", "activate"} \/ ~up => copied = 1
  /\ pc = "copy" => copied <= cursor + 1
  /\ pc = "copyCommit" => copied <= cursor + 2

\* The room a sync has made is enough for the lines it has left.
InRoom ==
  /\ pc = "flush" => next + Cardinality({l \in dirty : l >= cursor}) <= NumSlots + 1
  /\ pc = "flushCommit" =>
       /\ cursor \in dirty
       /\ next + Cardinality({l \in dirty : l > cursor}) <= NumSlots + 1

(***************************************************************************)
(* The inductive invariant: the store is the newest active bank, written   *)
(* slot by slot, whatever step of init, flush or checkpoint is running.    *)
(***************************************************************************)
IInv ==
  /\ TypeOK
  /\ Running
  /\ Stopped
  /\ InConstruction
  /\ InFlight
  /\ InLoop
  /\ InRoom

(***************************************************************************)
(* A request always returns, even if the flash fails for ever: the flush   *)
(* and the checkpoint it falls back on do not retry each other.            *)
(***************************************************************************)
FairSpec == Spec /\ WF_vars(Step)
RequestReturns == (pc \notin {"idle", "off"}) ~> (pc \in {"idle", "off"})
=============================================================================

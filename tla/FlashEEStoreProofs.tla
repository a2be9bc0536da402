-------------------------- MODULE FlashEEStoreProofs --------------------------
(***************************************************************************)
(* The flash-emulated EEPROM backend is the store that LogicalStore        *)
(* promises, for every number of lines, windows and slots: proofs about    *)
(* what the cache window and the two banks hold, on top of the inductive   *)
(* invariant IInv of FlashEEProofs, for a tolerable port whose reads do    *)
(* not fail while a window is loaded.                                      *)
(***************************************************************************)
EXTENDS FlashEEProofs

-----------------------------------------------------------------------------
(* The invariant: what the window, the flush and the checkpoint hold.      *)

\* Dirty lines lie in the window, and the clean ones agree with the flash.
WindowHolds ==
  /\ ~up => ~cacheValid
  /\ ~cacheValid => dirty = {}
  /\ \A l \in dirty : WindowOf(l) = cacheBase
  /\ ReadsWhatIsStored

\* A flush has appended the dirty lines before the cursor, and the record in
\* flight is that of the line at the cursor.
FlushHolds ==
  /\ pc \in {"flush", "flushCommit"} =>
       \A l \in dirty : l < cursor => cache[l] = CommittedLine(l)
  /\ pc = "flushCommit" =>
       slot[active][next - 1] = [st |-> "open", line |-> cursor, val |-> cache[cursor]]

\* A checkpoint has copied the lines before the cursor, and nothing else.
CopyHolds ==
  /\ pc \in {"copy", "copyCommit"} =>
       \A l \in Lines : LineOf(Target, copied, l) = IF l < cursor THEN LiveLine(l) ELSE Blank
  /\ pc = "copyCommit" =>
       slot[Target][copied - 1] = [st |-> "open", line |-> cursor, val |-> LiveLine(cursor)]
  /\ pc = "activate" /\ up =>
       \A l \in Lines : LineOf(Target, copied, l) = LiveLine(l)

\* A running backend has answered only if it is idle, and ok only if nothing
\* is dirty; a deinit stages nothing, and has flushed before it answers.
AnswerHolds ==
  /\ up /\ reply # "none" => pc = "idle" /\ (reply = "ok" => dirty = {})
  /\ req.kind = "deinit" => req.todo = {} /\ (pc = "serve" => dirty = {})

CacheInv ==
  /\ WindowHolds
  /\ FlushHolds
  /\ CopyHolds
  /\ AnswerHolds

-----------------------------------------------------------------------------
(* What a line reads as, when the slots of its bank change.                *)

LEMMA HitsIn ==
  ASSUME NEW b \in Bank, NEW n \in 1 .. NumSlots + 1, NEW l
  PROVE  /\ Hits(b, n, l) \in SUBSET Slots
         /\ Hits(b, n, l) # {} => Last(Hits(b, n, l)) \in Hits(b, n, l)
<1>1. Hits(b, n, l) \in SUBSET Slots
  BY GeometryAssumption DEF Hits, Slots
<1>2. QED
  BY <1>1, LastOf

\* No slot but an uncommitted one has changed or been added.
LEMMA LineKept ==
  ASSUME NEW b \in Bank, NEW n \in 1 .. NumSlots + 1, NEW m \in n .. NumSlots + 1, NEW l,
         \A i \in 1 .. n - 1 : slot'[b][i] = slot[b][i],
         \A i \in n .. m - 1 : slot'[b][i].st # "closed"
  PROVE  LineOf(b, m, l)' = LineOf(b, n, l)
<1>1. Hits(b, m, l)' = Hits(b, n, l)
  BY GeometryAssumption DEF Hits
<1>2. \A i \in Hits(b, n, l) : slot'[b][i] = slot[b][i]
  BY DEF Hits
<1>3. Hits(b, n, l) # {} => slot'[b][Last(Hits(b, n, l))] = slot[b][Last(Hits(b, n, l))]
  BY <1>2, HitsIn
<1>4. QED
  BY <1>1, <1>3 DEF LineOf

\* The last record is committed: its line has its contents, the others keep
\* theirs.
LEMMA LineCommitted ==
  ASSUME NEW b \in Bank, NEW n \in Slots, NEW k, NEW v,
         slot'[b][n] = [st |-> "closed", line |-> k, val |-> v],
         slot[b][n].st = "open",
         \A i \in Slots : i # n => slot'[b][i] = slot[b][i],
         NEW l
  PROVE  LineOf(b, n + 1, l)' = IF l = k THEN v ELSE LineOf(b, n + 1, l)
<1>1. n \in Nat /\ n >= 1 /\ n + 1 \in 1 .. NumSlots + 1 /\ (n + 1) - 1 = n
  BY GeometryAssumption DEF Slots
<1>2. 1 .. n \subseteq Slots
  BY GeometryAssumption DEF Slots
<1>3. CASE l = k
  <2>1. n \in Hits(b, n + 1, l)'
    BY <1>1, <1>3 DEF Hits
  <2>2. \A i \in Hits(b, n + 1, l)' : n >= i
    BY <1>1 DEF Hits
  <2>3. Last(Hits(b, n + 1, l)') = n
    <3>1. Hits(b, n + 1, l)' \in SUBSET Slots
      BY <1>1, <1>2 DEF Hits
    <3>2. PICK h : h = Hits(b, n + 1, l)'
      OBVIOUS
    <3>3. Last(h) \in h /\ \A i \in h : Last(h) >= i
      BY <2>1, <3>1, <3>2, LastOf
    <3>4. Last(h) \in Nat /\ Last(h) >= n /\ n >= Last(h)
      BY <2>1, <2>2, <3>1, <3>2, <3>3, GeometryAssumption DEF Slots
    <3>5. Last(h) = n
      BY <1>1, <3>4
    <3>6. QED
      BY <3>2, <3>5
  <2>4. QED
    BY <1>3, <2>1, <2>3 DEF LineOf
<1>4. CASE l # k
  <2>1. Hits(b, n + 1, l)' = Hits(b, n + 1, l)
    BY <1>1, <1>2, <1>4 DEF Hits
  <2>2. \A i \in Hits(b, n + 1, l) : i # n /\ i \in Slots
    BY <1>1, <1>2, <1>4 DEF Hits
  <2>3. Hits(b, n + 1, l) # {} =>
          slot'[b][Last(Hits(b, n + 1, l))] = slot[b][Last(Hits(b, n + 1, l))]
    BY <1>1, <2>2, HitsIn
  <2>4. QED
    BY <1>4, <2>1, <2>3 DEF LineOf
<1>5. QED
  BY <1>3, <1>4

\* A commit that is done, or that fails after all, closes the record; any other
\* leaves the flash alone.
LEMMA CommitEffect ==
  ASSUME FlashType, NEW b \in Bank, NEW n \in Slots, NEW e \in Effects, ProgramCommit(b, n, e),
         NEW k, NEW v, slot[b][n] = [st |-> "open", line |-> k, val |-> v]
  PROVE  \/ /\ slot'[b][n] = [st |-> "closed", line |-> k, val |-> v]
            /\ \A i \in Slots : i # n => slot'[b][i] = slot[b][i]
         \/ e # "full" /\ UNCHANGED flash
<1>1. CASE e = "full"
  <2> DEFINE new == [st |-> "closed", line |-> k, val |-> v]
  <2>1. slot' = [slot EXCEPT ![b][n] = [slot[b][n] EXCEPT !.st = "closed"]]
    BY <1>1 DEF ProgramCommit
  <2>2. [slot[b][n] EXCEPT !.st = "closed"] = new
    OBVIOUS
  <2>3. slot' = [slot EXCEPT ![b][n] = new]
    BY <2>1, <2>2
  <2> HIDE DEF new
  <2>4. slot'[b][n] = new /\ \A i \in Slots : i # n => slot'[b][i] = slot[b][i]
    BY <2>3 DEF FlashType
  <2>5. QED
    BY <2>4 DEF new
<1>2. CASE e # "full"
  <2>1. UNCHANGED <<hdr, bseq>> /\ slot' = [slot EXCEPT ![b][n] = slot[b][n]]
    BY <1>2 DEF ProgramCommit, Effects
  <2>2. [slot EXCEPT ![b][n] = slot[b][n]] = slot
    BY DEF FlashType
  <2>3. QED
    BY <1>2, <2>1, <2>2 DEF flash
<1>3. QED
  BY <1>1, <1>2

\* A payload that is down leaves an open record.
LEMMA PayloadEffect ==
  ASSUME FlashType, NEW b \in Bank, NEW n \in Slots, NEW k, NEW v, slot[b][n].st = "free",
         ProgramPayload(b, n, k, v, "full")
  PROVE  /\ slot'[b][n] = [st |-> "open", line |-> k, val |-> v]
         /\ \A i \in Slots : i # n => slot'[b][i] = slot[b][i]
<1> DEFINE new == [st |-> "open", line |-> k, val |-> v]
<1>1. slot' = [slot EXCEPT ![b][n] = new]
  BY DEF ProgramPayload
<1> HIDE DEF new
<1>2. slot'[b][n] = new /\ \A i \in Slots : i # n => slot'[b][i] = slot[b][i]
  BY <1>1 DEF FlashType
<1>3. QED
  BY <1>2 DEF new

\* A bank without records reads as erased.
LEMMA LineBlank ==
  ASSUME NEW b, NEW l
  PROVE  LineOf(b, 1, l) = Blank
BY DEF LineOf, Hits

-----------------------------------------------------------------------------
(* What a reboot would read.                                               *)

\* Of a running backend: what is committed in the bank it appends to.
RunningView == IInv /\ up => DurableView = [l \in Lines |-> CommittedLine(l)]

\* Of any store.
StoreView ==
  \A b \in Bank, n \in 1 .. NumSlots + 1 :
    TypeOK /\ Newest(b, n) => DurableView = [l \in Lines |-> LineOf(b, n, l)]

\* Of a region never formatted.
EmptyView == NeverFormatted => DurableView = [l \in Lines |-> Blank]

LEMMA StoreViewHolds == StoreView
<1> SUFFICES ASSUME NEW b \in Bank, NEW n \in 1 .. NumSlots + 1, TypeOK, Newest(b, n)
             PROVE  DurableView = [l \in Lines |-> LineOf(b, n, l)]
  BY DEF StoreView
<1>1. ValidBank(b) /\ Boots(b) /\ ScanEnd(b) = n
  BY NewestBoots
<1>2. BankView(b) = [l \in Lines |-> LineOf(b, n, l)]
  BY <1>1 DEF BankView
<1>3. CASE b = 0
  <2>1. ~Boots(1)
    BY <1>1, <1>3 DEF Boots, TypeOK, Bank
  <2>2. DurableView = BankView(0)
    BY <1>1, <1>3, <2>1 DEF DurableView
  <2>3. QED
    BY <1>2, <1>3, <2>2
<1>4. CASE b = 1
  <2>1. ~Boots(0)
    BY <1>1, <1>4 DEF Boots, TypeOK, Bank
  <2>2. DurableView = BankView(1)
    BY <1>1, <1>4, <2>1 DEF DurableView
  <2>3. QED
    BY <1>2, <1>4, <2>2
<1>5. QED
  BY <1>3, <1>4 DEF Bank

LEMMA RunningViewHolds == RunningView
<1> SUFFICES ASSUME IInv, up
             PROVE  DurableView = [l \in Lines |-> CommittedLine(l)]
  BY DEF RunningView
<1>1. DurableView = [l \in Lines |-> LineOf(active, next, l)]
  BY StoreOf, StoreViewHolds DEF StoreView, IInv
<1>2. QED
  BY <1>1 DEF CommittedLine

LEMMA EmptyViewHolds == EmptyView
<1> SUFFICES ASSUME NeverFormatted PROVE DurableView = [l \in Lines |-> Blank]
  BY DEF EmptyView
<1>1. ~ValidBank(0) /\ ~ValidBank(1)
  BY DEF NeverFormatted, ValidBank, Bank
<1>2. QED
  BY <1>1 DEF DurableView, Boots

\* The same of the next state.
LEMMA ViewsNext == StoreView' /\ RunningView' /\ EmptyView'
BY StoreViewHolds, RunningViewHolds, EmptyViewHolds, PTL

LEMMA FlashView ==
  ASSUME UNCHANGED flash
  PROVE  DurableView' = DurableView
BY DEF flash, DurableView, Boots, ValidBank, BankView, ScanEnd, LineOf, Hits

-----------------------------------------------------------------------------
(* The steps of the promise, by what they do to the two views.             *)

Simulates == [Promise!Next]_Promise!vars

LoadsWork == "load" \notin ReadFaults

SameViews == DurableView' = DurableView /\ LiveView' = LiveView

LEMMA SimulatesSame ==
  ASSUME SameViews,
         \/ reply' = reply
         \/ reply' \in {"none", "error"}
         \/ reply' = "ok" /\ DurableView = LiveView
  PROVE  Simulates
BY DEF SameViews, Simulates, Promise!Next, Promise!vars, Promise!Request, Promise!AnswerOk,
       Promise!AnswerError

LEMMA SimulatesPowerLoss ==
  ASSUME DurableView' = DurableView, LiveView' = DurableView, reply' = "none"
  PROVE  Simulates
BY DEF Simulates, Promise!Next, Promise!PowerLoss

LEMMA SimulatesCommitAll ==
  ASSUME DurableView' = LiveView, LiveView' = LiveView, reply' = reply
  PROVE  Simulates
BY DEF Simulates, Promise!Next, Promise!CommitAll

LEMMA SimulatesCommitLine ==
  ASSUME NEW l \in Lines, DurableView' = [DurableView EXCEPT ![l] = LiveView[l]],
         LiveView' = LiveView, reply' = reply
  PROVE  Simulates
BY DEF Simulates, Promise!Next, Promise!CommitLine

LEMMA SimulatesStage ==
  ASSUME NEW v \in Content, reply = "none", reply' = reply, DurableView' = DurableView,
         LiveView' \in [Lines -> Content], \A l \in Lines : LiveView'[l] \in {LiveView[l], v}
  PROVE  Simulates
BY DEF Simulates, Promise!Next, Promise!Stage

-----------------------------------------------------------------------------
(* The views of a running backend follow its committed and live lines.     *)

SameCommitted == \A l \in Lines : CommittedLine(l)' = CommittedLine(l)

LEMMA FlashCommitted ==
  ASSUME UNCHANGED <<flash, active, next>>
  PROVE  SameCommitted
BY DEF SameCommitted, CommittedLine, LineOf, Hits, flash

LEMMA SameLive ==
  ASSUME SameCommitted, UNCHANGED <<cacheValid, cacheBase, cache>>
  PROVE  \A l \in Lines : LiveLine(l)' = LiveLine(l)
BY DEF SameCommitted, LiveLine, InCache

LEMMA SameWindow ==
  ASSUME WindowHolds, SameCommitted, UNCHANGED <<up, window>>
  PROVE  WindowHolds'
BY DEF WindowHolds, ReadsWhatIsStored, SameCommitted, InCache, window

LEMMA RunningSame ==
  ASSUME IInv, IInv', up, up', SameCommitted, \A l \in Lines : LiveLine(l)' = LiveLine(l)
  PROVE  SameViews
<1>1. DurableView = [l \in Lines |-> CommittedLine(l)]
  BY RunningViewHolds DEF RunningView
<1>2. DurableView' = [l \in Lines |-> CommittedLine(l)']
  BY ViewsNext DEF RunningView
<1>3. DurableView' = DurableView
  BY <1>1, <1>2 DEF SameCommitted
<1>4. LiveView' = LiveView
  BY DEF LiveView
<1>5. QED
  BY <1>3, <1>4 DEF SameViews

LEMMA StoppedSame ==
  ASSUME ~up, ~up', DurableView' = DurableView
  PROVE  SameViews
BY DEF SameViews, LiveView

\* Nothing dirty: the live contents are the durable ones.
LEMMA CleanViews ==
  ASSUME IInv, CacheInv, ~up \/ dirty = {}
  PROVE  DurableView = LiveView
<1>1. CASE ~up
  BY <1>1 DEF LiveView
<1>2. CASE up /\ dirty = {}
  <2>1. DurableView = [l \in Lines |-> CommittedLine(l)]
    BY <1>2, RunningViewHolds DEF RunningView
  <2>2. \A l \in Lines : LiveLine(l) = CommittedLine(l)
    BY <1>2 DEF CacheInv, WindowHolds, ReadsWhatIsStored, LiveLine, InCache
  <2>3. QED
    BY <1>2, <2>1, <2>2 DEF LiveView
<1>3. QED
  BY <1>1, <1>2

-----------------------------------------------------------------------------
(* Each step keeps the invariant and maps to a step of the promise.        *)

LEMMA InitCache == Init => CacheInv
BY DEF Init, CacheInv, WindowHolds, FlushHolds, CopyHolds, AnswerHolds, ReadsWhatIsStored, NoRequest

OutsideLoops == pc \notin {"flush", "flushCommit", "copy", "copyCommit", "activate"}

\* A step that changes neither flash nor RAM, outside the loops.
LEMMA SteadyStep ==
  ASSUME IInv, IInv', CacheInv, UNCHANGED <<flash, context, window>>, OutsideLoops',
         AnswerHolds'
  PROVE  CacheInv' /\ SameViews
<1>1. SameCommitted
  BY FlashCommitted DEF context
<1>2. \A l \in Lines : LiveLine(l)' = LiveLine(l)
  BY <1>1, SameLive DEF window
<1>3. CacheInv'
  BY <1>1, SameWindow DEF CacheInv, FlushHolds, CopyHolds, OutsideLoops, context
<1>4. SameViews
  BY <1>1, <1>2, RunningSame, StoppedSame, FlashView DEF context
<1>5. QED
  BY <1>3, <1>4

\* GiveUp answers with an error when it ends a sync.
LEMMA GiveUpAnswers ==
  ASSUME CacheInv, GiveUp, UNCHANGED context
  PROVE  OutsideLoops' /\ AnswerHolds' /\ (reply' = reply \/ reply' = "error")
BY DEF CacheInv, GiveUp, Answer, NoRequest, AnswerHolds, OutsideLoops, context

LEMMA QuietSteps ==
  ASSUME IInv, IInv', CacheInv,
         \/ BeginWrite \/ BeginSync \/ BeginDeinit
         \/ LeaveDirty \/ CommitStaged \/ Finish \/ CopyReadFails
  PROVE  CacheInv' /\ Simulates
<1>1. /\ UNCHANGED <<flash, context, window>>
      /\ OutsideLoops'
      /\ AnswerHolds'
      /\ \/ reply' = reply
         \/ reply' \in {"none", "error"}
         \/ reply' = "ok" /\ dirty = {}
  <2>1. CASE BeginWrite \/ BeginSync \/ BeginDeinit
    BY <2>1 DEF BeginWrite, BeginSync, BeginDeinit, Begin, OutsideLoops, AnswerHolds
  <2>2. CASE LeaveDirty \/ CommitStaged
    BY <2>2 DEF LeaveDirty, CommitStaged, OutsideLoops, AnswerHolds, CacheInv, context, window
  <2>3. CASE Finish
    BY <2>3 DEF Finish, Answer, NoRequest, OutsideLoops, AnswerHolds, CacheInv, WindowHolds, context, window
  <2>4. CASE CopyReadFails
    BY <2>4, GiveUpAnswers DEF CopyReadFails
  <2>5. QED
    BY <2>1, <2>2, <2>3, <2>4
<1>2. CacheInv' /\ SameViews
  BY <1>1, SteadyStep
<1>3. dirty = {} => DurableView = LiveView
  BY CleanViews
<1>4. QED
  BY <1>1, <1>2, <1>3, SimulatesSame

\* A window is loaded when nothing is dirty: every line reads as before.
LEMMA LoadStep ==
  ASSUME IInv, IInv', CacheInv, up, up', dirty = {}, UNCHANGED <<flash, context>>, OutsideLoops',
         NEW w, LoadWindow(w, NumLines), AnswerHolds'
  PROVE  CacheInv' /\ SameViews
<1>1. SameCommitted
  BY FlashCommitted DEF context
<1>2. \A l \in Lines : LiveLine(l) = CommittedLine(l)
  BY DEF CacheInv, WindowHolds, ReadsWhatIsStored, LiveLine, InCache
<1>3. /\ cacheValid' = TRUE
      /\ dirty' = {}
      /\ \A l \in Lines : WindowOf(l) = cacheBase' => cache'[l] = CommittedLine(l)
  <2>1. \A l \in Lines : l < NumLines
    BY GeometryAssumption DEF Lines
  <2>2. QED
    BY <2>1 DEF LoadWindow
<1>4. \A l \in Lines : LiveLine(l)' = LiveLine(l)
  BY <1>1, <1>2, <1>3 DEF SameCommitted, LiveLine, InCache
<1>5. WindowHolds'
  BY <1>1, <1>3 DEF WindowHolds, ReadsWhatIsStored, InCache, SameCommitted
<1>6. CacheInv'
  BY <1>5 DEF CacheInv, FlushHolds, CopyHolds, OutsideLoops
<1>7. QED
  BY <1>1, <1>4, <1>6, RunningSame

LEMMA ReadSteps ==
  ASSUME IInv, IInv', CacheInv, LoadsWork, Read \/ LoadForStage
  PROVE  CacheInv' /\ Simulates
<1>1. up /\ UNCHANGED <<flash, context>> /\ ~(cacheValid /\ dirty # {}) /\ OutsideLoops'
  BY DEF Read, LoadForStage, IInv, Stopped, OutsideLoops
<1>2. PICK w : LoadWindow(w, NumLines)
  BY DEF Read, LoadForStage, LoadFails, LoadsWork
<1>3. dirty = {} /\ up'
  BY <1>1 DEF CacheInv, WindowHolds, context
<1>4. reply' = reply /\ AnswerHolds'
  <2>1. UNCHANGED <<pc, req, reply>>
    BY DEF Read, LoadForStage, LoadFails, LoadsWork
  <2>2. dirty' = {}
    BY <1>2 DEF LoadWindow
  <2>3. QED
    BY <1>1, <2>1, <2>2 DEF CacheInv, AnswerHolds
<1>5. CacheInv' /\ SameViews
  BY <1>1, <1>2, <1>3, <1>4, LoadStep
<1>6. QED
  BY <1>4, <1>5, SimulatesSame

LEMMA StageStep ==
  ASSUME IInv, IInv', CacheInv, StageChunk
  PROVE  CacheInv' /\ Simulates
<1> DEFINE chunk == {l \in req.todo : WindowOf(l) = ThisWindow}
<1>1. /\ pc = "serve" /\ pc' = "serve" /\ up /\ up' /\ reply = "none" /\ reply' = reply
      /\ UNCHANGED <<flash, active, next, cacheBase>>
      /\ cacheValid /\ cacheValid' /\ TypeOK
  BY DEF StageChunk, InPlace, IInv, Stopped, CacheInv, AnswerHolds, TypeOK, context
<1>2. chunk \in SUBSET Lines /\ \A l \in chunk : WindowOf(l) = cacheBase
  BY DEF StageChunk, InPlace, IInv, TypeOK, Requests
<1>3. /\ cache' = [l \in Lines |-> IF l \in chunk THEN req.val ELSE cache[l]]
      /\ dirty' = dirty \cup chunk
  BY DEF StageChunk
<1> HIDE DEF chunk
<1>4. req.val \in Content
  BY <1>1 DEF TypeOK, Requests
<1>5. req'.kind # "deinit"
  BY <1>1 DEF StageChunk, CacheInv, AnswerHolds, TypeOK, Requests
<1>6. SameCommitted
  BY <1>1, FlashCommitted
<1>7. \A l \in Lines : LiveLine(l)' = IF l \in chunk THEN req.val ELSE LiveLine(l)
  BY <1>1, <1>2, <1>3, <1>6 DEF SameCommitted, LiveLine, InCache
<1>8. WindowHolds'
  BY <1>1, <1>2, <1>3, <1>6 DEF CacheInv, WindowHolds, ReadsWhatIsStored, InCache, SameCommitted
<1>9. CacheInv'
  BY <1>1, <1>8, <1>5 DEF CacheInv, FlushHolds, CopyHolds, AnswerHolds
<1>10. DurableView' = DurableView
  BY <1>1, FlashView
<1>11. LiveView = [l \in Lines |-> LiveLine(l)] /\ LiveView' = [l \in Lines |-> LiveLine(l)']
  BY <1>1 DEF LiveView
<1>12. \A l \in Lines : LiveLine(l) \in Content
  BY <1>1, LiveType
<1>13. /\ LiveView' \in [Lines -> Content]
       /\ \A l \in Lines : LiveView'[l] \in {LiveView[l], req.val}
  BY <1>4, <1>7, <1>11, <1>12
<1>14. QED
  BY <1>1, <1>4, <1>9, <1>10, <1>13, SimulatesStage

LEMMA DeinitStep ==
  ASSUME IInv, IInv', CacheInv, FinishDeinit
  PROVE  CacheInv' /\ Simulates
<1>1. up /\ dirty = {} /\ UNCHANGED flash
  BY DEF FinishDeinit, IInv, Stopped, CacheInv, AnswerHolds
<1>2. CASE pc' = "off" /\ ResetRam /\ Answer("ok")
  <2>1. CacheInv'
    BY <1>2 DEF ResetRam, CacheInv, WindowHolds, FlushHolds, CopyHolds, AnswerHolds, Answer,
                NoRequest, ReadsWhatIsStored
  <2>2. DurableView' = DurableView /\ LiveView' = DurableView'
    BY <1>1, <1>2, FlashView DEF ResetRam, LiveView
  <2>3. DurableView = LiveView
    BY <1>1, CleanViews
  <2>4. QED
    BY <1>2, <2>1, <2>2, <2>3, SimulatesSame DEF SameViews, Answer
<1>3. CASE pc' = "idle" /\ Answer("error") /\ UNCHANGED <<context, window>>
  <2>1. OutsideLoops' /\ AnswerHolds'
    BY <1>3 DEF OutsideLoops, AnswerHolds, Answer, NoRequest
  <2>2. CacheInv' /\ SameViews
    BY <1>1, <1>3, <2>1, SteadyStep
  <2>3. QED
    BY <1>3, <2>2, SimulatesSame DEF Answer
<1>4. QED
  BY <1>2, <1>3 DEF FinishDeinit

LEMMA CapacityStep ==
  ASSUME IInv, IInv', CacheInv, EnsureCapacity
  PROVE  CacheInv' /\ Simulates
<1>1. /\ UNCHANGED <<flash, context, window, loop, req, reply>> /\ pc' \in {"flush", "erase"}
      /\ up /\ up' /\ cursor = 0 /\ reply = "none" /\ TypeOK
  BY DEF EnsureCapacity, IInv, Stopped, InLoop, CacheInv, AnswerHolds, context, TypeOK
<1>2. SameCommitted
  BY <1>1, FlashCommitted DEF context
<1>3. \A l \in Lines : LiveLine(l)' = LiveLine(l)
  BY <1>1, <1>2, SameLive DEF window
<1>4. \A l \in dirty' : ~(l < cursor')
  BY <1>1, GeometryAssumption DEF TypeOK, Lines, window, loop
<1>5. CacheInv'
  BY <1>1, <1>2, <1>4, SameWindow
     DEF CacheInv, FlushHolds, CopyHolds, AnswerHolds, context
<1>6. QED
  BY <1>1, <1>2, <1>3, <1>5, RunningSame, SimulatesSame

LEMMA FlushDoneStep ==
  ASSUME IInv, IInv', CacheInv, FlushDone
  PROVE  CacheInv' /\ Simulates
<1>1. /\ UNCHANGED <<flash, context, cacheValid, cacheBase, cache, req, reply>>
      /\ pc = "flush" /\ pc' = "serve" /\ up /\ up' /\ reply = "none" /\ TypeOK
      /\ dirty' = {}
  BY DEF FlushDone, IInv, Stopped, CacheInv, WindowHolds, AnswerHolds, context, TypeOK
<1>2. SameCommitted
  BY <1>1, FlashCommitted DEF context
<1>3. \A l \in Lines : LiveLine(l)' = LiveLine(l)
  BY <1>1, <1>2, SameLive
<1>4. \A l \in Lines : InCache(l) => cache[l] = CommittedLine(l)
  <2>1. \A l \in dirty : cacheValid => l < cursor
    <3>1. cursor \in Nat /\ \A l \in dirty : l \in Nat
      BY <1>1, GeometryAssumption DEF TypeOK, Lines
    <3>2. \A l \in dirty : cacheValid => ~(l >= cursor)
      BY DEF FlushDone, ToFlush
    <3>3. QED
      BY <3>1, <3>2
  <2>2. QED
    BY <1>1, <2>1 DEF CacheInv, WindowHolds, ReadsWhatIsStored, FlushHolds, InCache
<1>5. WindowHolds'
  BY <1>1, <1>2, <1>4 DEF WindowHolds, ReadsWhatIsStored, InCache, SameCommitted
<1>6. CacheInv'
  BY <1>1, <1>5 DEF CacheInv, FlushHolds, CopyHolds, AnswerHolds
<1>7. QED
  BY <1>1, <1>2, <1>3, <1>6, RunningSame, SimulatesSame

LEMMA BootStep ==
  ASSUME IInv, IInv', CacheInv, Boot
  PROVE  CacheInv' /\ Simulates
<1>1. ~up /\ ~cacheValid /\ dirty = {} /\ UNCHANGED <<flash, window, req, reply>>
  BY DEF Boot, Scan, Mount, IInv, Running, CacheInv, WindowHolds
<1>2. DurableView' = DurableView
  BY <1>1, FlashView
<1>3. CASE up' /\ pc' = "idle"
  <2>1. DurableView' = [l \in Lines |-> CommittedLine(l)']
    BY <1>3, ViewsNext DEF RunningView
  <2>2. LiveView' = [l \in Lines |-> LiveLine(l)']
    BY <1>3 DEF LiveView
  <2>3. \A l \in Lines : LiveLine(l)' = CommittedLine(l)'
    BY <1>1 DEF LiveLine, InCache, window
  <2>4. SameViews
    BY <1>1, <1>2, <2>1, <2>2, <2>3 DEF SameViews, LiveView
  <2>5. CacheInv'
    BY <1>1, <1>3
       DEF CacheInv, WindowHolds, ReadsWhatIsStored, FlushHolds, CopyHolds, AnswerHolds, window
  <2>6. QED
    BY <1>1, <2>4, <2>5, SimulatesSame
<1>4. CASE pc' = "erase" /\ UNCHANGED context
  <2>1. ~up'
    BY <1>1, <1>4 DEF context
  <2>2. OutsideLoops' /\ AnswerHolds'
    BY <1>1, <1>4, <2>1 DEF OutsideLoops, CacheInv, AnswerHolds
  <2>3. CacheInv' /\ SameViews
    BY <1>1, <1>4, <2>2, SteadyStep
  <2>4. QED
    BY <1>1, <2>3, SimulatesSame
<1>5. QED
  BY <1>3, <1>4 DEF Boot, Scan, Mount

-----------------------------------------------------------------------------
(* Format and checkpoint: the bank under construction is not read.         *)

LEMMA BuildStep ==
  ASSUME IInv, IInv', CacheInv, pc # "off", UNCHANGED <<context, window>>,
         Untouched(Other(Target)), NotRaised(Target)
  PROVE  /\ SameViews
         /\ WindowHolds'
         /\ up => \A l \in Lines : LiveLine(l)' = LiveLine(l)
<1>1. CASE up
  <2>1. active = Other(Target) /\ active \in Bank /\ next \in 1 .. NumSlots + 1
    BY <1>1, TargetOf DEF IInv, TypeOK
  <2>2. SameCommitted
    BY <2>1 DEF Untouched, SameCommitted, CommittedLine, LineOf, Hits, context
  <2>3. \A l \in Lines : LiveLine(l)' = LiveLine(l)
    BY <2>2, SameLive DEF window
  <2>4. QED
    BY <1>1, <2>2, <2>3, RunningSame, SameWindow DEF CacheInv, context
<1>2. CASE ~up
  <2>1. NeverFormatted
    BY <1>2 DEF IInv, Stopped
  <2>2. Target \in Bank
    BY TargetOf DEF IInv
  <2>3. NeverFormatted'
    BY <2>1, <2>2, NoneRaised
  <2>4. DurableView' = DurableView
    BY <2>1, <2>3, EmptyViewHolds, ViewsNext DEF EmptyView
  <2>5. WindowHolds'
    BY <1>2 DEF CacheInv, WindowHolds, ReadsWhatIsStored, context, window
  <2>6. QED
    BY <1>2, <2>4, <2>5, StoppedSame DEF context
<1>3. QED
  BY <1>1, <1>2

LEMMA GiveUpStep ==
  ASSUME IInv, IInv', CacheInv, pc # "off", GiveUp, UNCHANGED <<context, window>>,
         Untouched(Other(Target)), NotRaised(Target)
  PROVE  CacheInv' /\ Simulates
<1>1. OutsideLoops' /\ AnswerHolds' /\ (reply' = reply \/ reply' = "error")
  BY GiveUpAnswers
<1>2. WindowHolds' /\ SameViews
  BY BuildStep
<1>3. CacheInv'
  BY <1>1, <1>2 DEF CacheInv, FlushHolds, CopyHolds, OutsideLoops
<1>4. QED
  BY <1>1, <1>2, <1>3, SimulatesSame

LEMMA PrepareSteps ==
  ASSUME IInv, IInv', CacheInv, Erase \/ Header
  PROVE  CacheInv' /\ Simulates
<1>1. FlashType /\ Target \in Bank /\ pc # "off" /\ UNCHANGED <<context, window>> /\ TypeOK
  BY FlashTypeOf, TargetOf DEF Erase, Header, IInv
<1>2. Untouched(Other(Target)) /\ NotRaised(Target)
  BY <1>1, EraseFrame, HeaderFrame DEF Erase, Header, Effects
<1>3. CASE GiveUp
  BY <1>1, <1>2, <1>3, GiveUpStep
<1>4. CASE /\ pc' \in {"header", "copy", "activate"}
           /\ pc' = "copy" => pc = "header"
           /\ pc' = "activate" => ~up
           /\ UNCHANGED <<loop, req, reply>>
  <2>1. SameViews /\ WindowHolds'
    BY <1>1, <1>2, BuildStep
  <2>2. AnswerHolds'
    BY <1>1, <1>4 DEF Erase, Header, CacheInv, AnswerHolds, context, window
  <2>3. CopyHolds'
    <3>1. CASE pc' = "copy"
      <4>1. cursor' = 0 /\ copied' = 1
        BY <1>4, <3>1 DEF IInv, InLoop, loop
      <4>2. \A l \in Lines : LineOf(Target, copied, l)' = Blank
        BY <4>1 DEF LineOf, Hits
      <4>3. \A l \in Lines : ~(l < cursor')
        BY <4>1, GeometryAssumption DEF Lines
      <4>4. QED
        BY <3>1, <4>2, <4>3 DEF CopyHolds
    <3>2. CASE pc' # "copy"
      BY <1>1, <1>4, <3>2 DEF CopyHolds, context
    <3>3. QED
      BY <3>1, <3>2
  <2>4. FlushHolds'
    BY <1>4 DEF FlushHolds
  <2>5. QED
    BY <1>4, <2>1, <2>2, <2>3, <2>4, SimulatesSame DEF CacheInv
<1>5. QED
  BY <1>3, <1>4 DEF Erase, Header

LEMMA CopyPayloadStep ==
  ASSUME IInv, IInv', CacheInv, CopyPayload
  PROVE  CacheInv' /\ Simulates
<1> DEFINE k == First(ToCopy)
<1>1. /\ pc = "copy" /\ up /\ FlashType /\ TypeOK /\ Target \in Bank
      /\ UNCHANGED <<context, window>>
  BY FlashTypeOf, TargetOf DEF CopyPayload, IInv, Stopped
<1>2. k \in ToCopy /\ k \in Lines /\ \A l \in ToCopy : k <= l
  BY FirstOf DEF CopyPayload, ToCopy
<1>3. Untouched(Other(Target)) /\ NotRaised(Target)
  <2>1. CASE UNCHANGED flash
    BY <2>1 DEF Untouched, NotRaised, flash
  <2>2. CASE \E e \in Effects : ProgramPayload(Target, copied, k, LiveLine(k), e)
    BY <1>1, <2>2, PayloadFrame
  <2>3. QED
    BY <2>1, <2>2 DEF CopyPayload, Effects
<1>4. CASE GiveUp
  BY <1>1, <1>3, <1>4, GiveUpStep
<1>5. CASE /\ copied <= NumSlots
           /\ ProgramPayload(Target, copied, k, LiveLine(k), "full")
           /\ cursor' = k
           /\ copied' = copied + 1
           /\ pc' = "copyCommit"
           /\ UNCHANGED <<req, reply>>
  <2> HIDE DEF k
  <2>1. copied \in Slots /\ copied \in Nat /\ copied + 1 \in copied .. NumSlots + 1
    BY <1>1, <1>5, GeometryAssumption DEF TypeOK, Slots
  <2>2. slot[Target][copied].st = "free"
    BY <1>1, <2>1, GeometryAssumption DEF IInv, InConstruction, Written, Slots
  <2>3. \A i \in 1 .. copied - 1 : i \in Slots /\ i # copied
    BY <2>1, GeometryAssumption DEF Slots
  <2>4. /\ slot'[Target][copied] = [st |-> "open", line |-> k, val |-> LiveLine(k)]
        /\ \A i \in 1 .. copied - 1 : slot'[Target][i] = slot[Target][i]
    BY <1>1, <1>5, <2>1, <2>2, <2>3, PayloadEffect
  <2>5. Target' = Target /\ copied' - 1 = copied
    BY <1>1, <1>5, <2>1 DEF Target, context
  <2>6. \A l \in Lines : LineOf(Target, copied, l)' = LineOf(Target, copied, l)
    <3>1. PICK b \in Bank, n \in 1 .. NumSlots + 1 : b = Target /\ n = copied
      BY <1>1 DEF TypeOK
    <3>2. /\ n + 1 \in n .. NumSlots + 1
          /\ \A i \in 1 .. n - 1 : slot'[b][i] = slot[b][i]
          /\ \A i \in n .. (n + 1) - 1 : slot'[b][i].st # "closed"
      BY <2>1, <2>4, <3>1
    <3>3. \A l \in Lines : LineOf(b, n + 1, l)' = LineOf(b, n, l)
      BY <3>2, LineKept
    <3>4. Target' = b /\ copied' = n + 1
      BY <1>5, <2>5, <3>1
    <3>5. \A l \in Lines : LineOf(Target, copied, l)' = LineOf(b, n + 1, l)'
      BY <3>4 DEF LineOf, Hits
    <3>6. QED
      BY <3>1, <3>3, <3>5
  <2>7. \A l \in Lines : LiveLine(l)' = LiveLine(l)
    BY <1>1, <1>3, BuildStep
  <2>8. SameViews /\ WindowHolds'
    BY <1>1, <1>3, BuildStep
  <2>9. \A l \in Lines :
           (IF l < cursor THEN LiveLine(l) ELSE Blank) = (IF l < k THEN LiveLine(l) ELSE Blank)
    <3>1. cursor \in Nat /\ k \in Nat /\ cursor <= k
      BY <1>1, <1>2, GeometryAssumption DEF TypeOK, Lines, ToCopy
    <3>2. \A l \in Lines : l \in Nat /\ (l >= cursor /\ LiveLine(l) # Blank => l >= k)
      BY <1>2, GeometryAssumption DEF Lines, ToCopy
    <3>3. QED
      BY <3>1, <3>2
  <2>10. CopyHolds'
    BY <1>1, <1>2, <1>5, <2>4, <2>5, <2>6, <2>7, <2>9 DEF CacheInv, CopyHolds
  <2>11. FlushHolds' /\ AnswerHolds'
    BY <1>1, <1>5 DEF CacheInv, FlushHolds, AnswerHolds, context, window
  <2>12. QED
    BY <1>5, <2>8, <2>10, <2>11, SimulatesSame DEF CacheInv
<1>6. QED
  BY <1>4, <1>5 DEF CopyPayload

LEMMA CopyCommitStep ==
  ASSUME IInv, IInv', CacheInv, CopyCommit
  PROVE  CacheInv' /\ Simulates
<1>1. /\ pc = "copyCommit" /\ up /\ FlashType /\ TypeOK /\ Target \in Bank /\ cursor \in Lines
      /\ UNCHANGED <<context, window>>
  BY FlashTypeOf, TargetOf DEF CopyCommit, IInv, Stopped, InLoop
<1>2. Untouched(Other(Target)) /\ NotRaised(Target)
  BY <1>1, CommitFrame DEF CopyCommit
<1>3. CASE GiveUp
  BY <1>1, <1>2, <1>3, GiveUpStep
<1>4. CASE /\ ProgramCommit(Target, copied - 1, "full")
           /\ cursor' = cursor + 1
           /\ pc' = "copy"
           /\ UNCHANGED <<copied, req, reply>>
  <2>1. copied - 1 \in Slots /\ (copied - 1) + 1 = copied
    BY <1>1, GeometryAssumption DEF IInv, InFlight, TypeOK, Slots
  <2>2. slot[Target][copied - 1] = [st |-> "open", line |-> cursor, val |-> LiveLine(cursor)]
    BY <1>1 DEF CacheInv, CopyHolds
  <2>3. /\ slot'[Target][copied - 1] = [st |-> "closed", line |-> cursor, val |-> LiveLine(cursor)]
        /\ \A i \in Slots : i # copied - 1 => slot'[Target][i] = slot[Target][i]
    BY <1>1, <1>4, <2>1, <2>2, CommitEffect DEF Effects
  <2>4. \A l \in Lines : LineOf(Target, copied, l)' =
          IF l = cursor THEN LiveLine(cursor) ELSE LineOf(Target, copied, l)
    <3>1. PICK b \in Bank, n \in Slots, k \in Lines, v \in {LiveLine(cursor)} :
            b = Target /\ n = copied - 1 /\ k = cursor
      BY <1>1, <2>1
    <3>2. /\ slot[b][n].st = "open"
          /\ slot'[b][n] = [st |-> "closed", line |-> k, val |-> v]
          /\ \A i \in Slots : i # n => slot'[b][i] = slot[b][i]
      BY <2>2, <2>3, <3>1
    <3>3. \A l \in Lines : LineOf(b, n + 1, l)' = IF l = k THEN v ELSE LineOf(b, n + 1, l)
      BY <3>2, LineCommitted
    <3>4. Target' = b /\ Target = b /\ copied' = n + 1 /\ copied = n + 1
      BY <1>1, <1>4, <2>1, <3>1 DEF Target, context
    <3>5. \A l \in Lines : LineOf(Target, copied, l)' = LineOf(b, n + 1, l)'
      BY <3>4 DEF LineOf, Hits
    <3>6. QED
      BY <3>1, <3>3, <3>4, <3>5
  <2>5. \A l \in Lines : LiveLine(l)' = LiveLine(l)
    BY <1>1, <1>2, BuildStep
  <2>6. SameViews /\ WindowHolds'
    BY <1>1, <1>2, BuildStep
  <2>7. \A l \in Lines : LineOf(Target, copied, l)' = IF l < cursor + 1 THEN LiveLine(l) ELSE Blank
    <3>1. \A l \in Lines : l < cursor + 1 <=> l < cursor \/ l = cursor
      BY <1>1, GeometryAssumption DEF Lines
    <3>2. \A l \in Lines : LineOf(Target, copied, l) = IF l < cursor THEN LiveLine(l) ELSE Blank
      BY <1>1 DEF CacheInv, CopyHolds
    <3>3. QED
      BY <1>1, <2>4, <3>1, <3>2
  <2>8. CopyHolds'
    BY <1>4, <2>5, <2>7 DEF CopyHolds
  <2>9. FlushHolds' /\ AnswerHolds'
    BY <1>1, <1>4 DEF CacheInv, FlushHolds, AnswerHolds, context, window
  <2>10. QED
    BY <1>4, <2>6, <2>8, <2>9, SimulatesSame DEF CacheInv
<1>5. QED
  BY <1>3, <1>4 DEF CopyCommit

LEMMA CopyDoneStep ==
  ASSUME IInv, IInv', CacheInv, CopyDone
  PROVE  CacheInv' /\ Simulates
<1>1. /\ pc = "copy" /\ pc' = "activate" /\ up /\ TypeOK
      /\ UNCHANGED <<flash, context, window, loop, req, reply>>
  BY DEF CopyDone, IInv, Stopped
<1>2. SameCommitted
  BY <1>1, FlashCommitted DEF context
<1>3. \A l \in Lines : LiveLine(l)' = LiveLine(l)
  BY <1>1, <1>2, SameLive DEF window
<1>4. \A l \in Lines : LineOf(Target, copied, l) = LiveLine(l)
  <2>1. \A l \in Lines : LineOf(Target, copied, l) = IF l < cursor THEN LiveLine(l) ELSE Blank
    BY <1>1 DEF CacheInv, CopyHolds
  <2>2. \A l \in Lines : l >= cursor => LiveLine(l) = Blank
    BY DEF CopyDone, ToCopy
  <2>3. cursor \in Nat /\ \A l \in Lines : l \in Nat
    BY <1>1, GeometryAssumption DEF TypeOK, Lines
  <2>4. QED
    BY <2>1, <2>2, <2>3
<1>5. \A l \in Lines : LineOf(Target, copied, l)' = LineOf(Target, copied, l)
  BY <1>1 DEF LineOf, Hits, Target, flash, context, loop
<1>6. CacheInv'
  BY <1>1, <1>2, <1>3, <1>4, <1>5, SameWindow
     DEF CacheInv, FlushHolds, CopyHolds, AnswerHolds, context, window
<1>7. QED
  BY <1>1, <1>2, <1>3, <1>6, RunningSame, SimulatesSame DEF context

\* The switch of banks is where a checkpoint makes all lines durable at once.
LEMMA ActivateStep ==
  ASSUME IInv, IInv', Tolerable, CacheInv, Activate
  PROVE  CacheInv' /\ Simulates
<1>1. /\ pc = "activate" /\ FlashType /\ Target \in Bank /\ TypeOK
      /\ UNCHANGED <<cacheValid, cacheBase, cache>>
  BY FlashTypeOf, TargetOf DEF Activate, Switch, IInv, window
<1>2. CASE /\ \E e \in Effects : Fails("activate", e) /\ ProgramState(Target, e)
           /\ GiveUp
           /\ UNCHANGED <<context, window>>
  <2>1. Untouched(Other(Target)) /\ NotRaised(Target)
    BY <1>1, <1>2, StateFrame DEF Fails, Tolerable
  <2>2. QED
    BY <1>1, <1>2, <2>1, GiveUpStep
<1>3. CASE ProgramState(Target, "full") /\ Switch /\ LeaveLoop /\ UNCHANGED <<req, reply>>
  <2>1. up' /\ active' = Target /\ UNCHANGED slot
    BY <1>3 DEF Switch, ProgramState
  <2>2. DurableView' = [l \in Lines |-> CommittedLine(l)']
    BY <2>1, ViewsNext DEF RunningView
  <2>3. LiveView' = [l \in Lines |-> LiveLine(l)']
    BY <2>1 DEF LiveView
  <2>4. CASE up
    <3>1. next' = copied /\ dirty' = {} /\ pc' = "flush"
      BY <1>3, <2>4 DEF Switch
    <3>2. \A l \in Lines : CommittedLine(l)' = LiveLine(l)
      <4>1. \A l \in Lines : CommittedLine(l)' = LineOf(Target, copied, l)
        BY <2>1, <3>1 DEF CommittedLine, LineOf, Hits
      <4>2. QED
        BY <1>1, <2>4, <4>1 DEF CacheInv, CopyHolds
    <3>3. \A l \in Lines : LiveLine(l)' = LiveLine(l)
      BY <1>1, <3>2 DEF LiveLine, InCache
    <3>4. DurableView' = LiveView /\ LiveView' = LiveView
      BY <2>2, <2>3, <2>4, <3>2, <3>3 DEF LiveView
    <3>5. WindowHolds'
      BY <1>1, <2>1, <3>1, <3>2 DEF WindowHolds, ReadsWhatIsStored, LiveLine, InCache
    <3>6. AnswerHolds'
      BY <1>1, <1>3, <2>4, <3>1 DEF CacheInv, AnswerHolds
    <3>7. CacheInv'
      BY <3>1, <3>5, <3>6 DEF CacheInv, FlushHolds, CopyHolds
    <3>8. QED
      BY <1>3, <3>4, <3>7, SimulatesCommitAll
  <2>5. CASE ~up
    <3>1. next' = 1 /\ pc' = "idle" /\ UNCHANGED window
      BY <1>3, <2>5 DEF Switch
    <3>2. \A l \in Lines : CommittedLine(l)' = Blank
      BY <3>1 DEF CommittedLine, LineOf, Hits
    <3>3. DurableView = [l \in Lines |-> Blank]
      BY <1>1, <2>5, EmptyViewHolds DEF IInv, Stopped, EmptyView
    <3>4. ~cacheValid' /\ dirty' = {}
      BY <2>5, <3>1 DEF CacheInv, WindowHolds, window
    <3>5. \A l \in Lines : LiveLine(l)' = CommittedLine(l)'
      BY <3>4 DEF LiveLine, InCache
    <3>6. SameViews
      BY <2>2, <2>3, <2>5, <3>2, <3>3, <3>5 DEF SameViews, LiveView
    <3>7. CacheInv'
      BY <1>3, <2>1, <3>1, <3>4
         DEF CacheInv, WindowHolds, ReadsWhatIsStored, FlushHolds, CopyHolds, AnswerHolds
    <3>8. QED
      BY <1>3, <3>6, <3>7, SimulatesSame
  <2>6. QED
    BY <2>4, <2>5
<1>4. QED
  BY <1>2, <1>3 DEF Activate

-----------------------------------------------------------------------------
(* Flush: a record is appended to the bank that is read.                   *)

LEMMA FlushPayloadStep ==
  ASSUME IInv, IInv', Tolerable, CacheInv, FlushPayload
  PROVE  CacheInv' /\ Simulates
<1> DEFINE k == First(ToFlush)
<1>1. /\ pc = "flush" /\ up /\ FlashType /\ TypeOK /\ active \in Bank /\ reply = "none"
      /\ UNCHANGED <<up, active, seq, window, req, reply>>
  BY FlashTypeOf DEF FlushPayload, IInv, Stopped, TypeOK, CacheInv, AnswerHolds
<1>2. k \in dirty /\ k \in Lines /\ \A l \in dirty : l >= cursor => k <= l
  <2>1. ToFlush \in SUBSET Lines /\ ToFlush # {}
    BY <1>1 DEF FlushPayload, ToFlush, TypeOK
  <2>2. QED
    BY <2>1, FirstOf DEF ToFlush
<1> HIDE DEF k
<1>3. CASE /\ next <= NumSlots
           /\ ProgramPayload(active, next, k, cache[k], "full")
           /\ next' = next + 1
           /\ cursor' = k
           /\ pc' = "flushCommit"
  <2>1. /\ next \in Slots /\ next \in Nat /\ next' - 1 = next
        /\ \A i \in 1 .. next - 1 : i \in Slots /\ i # next
    BY <1>1, <1>3, GeometryAssumption DEF TypeOK, Slots
  <2>2. slot[active][next].st = "free"
    BY <1>1, <2>1, GeometryAssumption DEF IInv, Running, Newest, Written, Slots
  <2>3. /\ slot'[active][next] = [st |-> "open", line |-> k, val |-> cache[k]]
        /\ \A i \in 1 .. next - 1 : slot'[active][i] = slot[active][i]
    BY <1>1, <1>3, <2>1, <2>2, PayloadEffect
  <2>4. SameCommitted
    <3>1. PICK b \in Bank, n \in 1 .. NumSlots + 1 : b = active /\ n = next
      BY <1>1 DEF TypeOK
    <3>2. /\ n + 1 \in n .. NumSlots + 1
          /\ \A i \in 1 .. n - 1 : slot'[b][i] = slot[b][i]
          /\ \A i \in n .. (n + 1) - 1 : slot'[b][i].st # "closed"
      BY <1>3, <2>1, <2>3, <3>1, GeometryAssumption
    <3>3. \A l \in Lines : LineOf(b, n + 1, l)' = LineOf(b, n, l)
      BY <3>2, LineKept
    <3>4. \A l \in Lines : CommittedLine(l)' = LineOf(b, n + 1, l)'
      BY <1>1, <1>3, <3>1 DEF CommittedLine, LineOf, Hits
    <3>5. QED
      BY <3>1, <3>3, <3>4 DEF SameCommitted, CommittedLine
  <2>5. \A l \in Lines : LiveLine(l)' = LiveLine(l)
    BY <1>1, <2>4, SameLive DEF window
  <2>6. \A l \in dirty : l < k => l < cursor
    <3>1. cursor \in Nat /\ k \in Nat /\ \A l \in dirty : l \in Nat
      BY <1>1, <1>2, GeometryAssumption DEF TypeOK, Lines
    <3>2. QED
      BY <1>2, <3>1
  <2>7. FlushHolds'
    <3>1. \A l \in dirty : l < cursor => cache[l] = CommittedLine(l)
      BY <1>1 DEF CacheInv, FlushHolds
    <3>2. \A l \in dirty : l \in Lines
      BY <1>1 DEF TypeOK
    <3>3. QED
      BY <1>1, <1>3, <2>1, <2>3, <2>4, <2>6, <3>1, <3>2 DEF FlushHolds, SameCommitted, window
  <2>8. CacheInv'
    BY <1>1, <1>3, <2>4, <2>7, SameWindow DEF CacheInv, CopyHolds, AnswerHolds, window
  <2>9. QED
    BY <1>1, <2>4, <2>5, <2>8, RunningSame, SimulatesSame
<1>4. CASE /\ \/ next > NumSlots /\ UNCHANGED flash
              \/ /\ next <= NumSlots
                 /\ \E e \in Effects : Fails("payload", e) /\ ProgramPayload(active, next, k, cache[k], e)
           /\ pc' = "erase"
           /\ UNCHANGED next
  <2>1. UNCHANGED flash
    <3>1. ASSUME next <= NumSlots, ProgramPayload(active, next, k, cache[k], "none")
          PROVE  UNCHANGED flash
      <4>1. next \in Slots
        BY <1>1, <3>1 DEF TypeOK, Slots
      <4>2. QED
        BY <1>1, <3>1, <4>1, PayloadNone
    <3>2. QED
      BY <1>4, <3>1 DEF Fails, Tolerable, Effects
  <2>2. OutsideLoops' /\ AnswerHolds' /\ UNCHANGED context
    BY <1>1, <1>4 DEF OutsideLoops, CacheInv, AnswerHolds, context, window
  <2>3. CacheInv' /\ SameViews
    BY <1>1, <2>1, <2>2, SteadyStep
  <2>4. QED
    BY <1>1, <2>3, SimulatesSame
<1>5. QED
  BY <1>3, <1>4 DEF FlushPayload, k

\* The commit of a record is where one line becomes durable.
LEMMA FlushCommitStep ==
  ASSUME IInv, IInv', CacheInv, FlushCommit
  PROVE  CacheInv' /\ Simulates
<1>1. /\ pc = "flushCommit" /\ up /\ up' /\ FlashType /\ TypeOK /\ active \in Bank
      /\ cursor \in dirty /\ cursor \in Lines /\ reply = "none" /\ pc' \in {"flush", "erase"}
      /\ pc' = "flush" => cursor' = cursor + 1
      /\ UNCHANGED <<context, window, req, reply>>
  BY FlashTypeOf
     DEF FlushCommit, IInv, Stopped, InLoop, InRoom, TypeOK, CacheInv, AnswerHolds, context
<1>2. next - 1 \in Slots /\ (next - 1) + 1 = next
  BY <1>1, GeometryAssumption DEF IInv, InFlight, TypeOK, Slots
<1>3. slot[active][next - 1] = [st |-> "open", line |-> cursor, val |-> cache[cursor]]
  BY <1>1 DEF CacheInv, FlushHolds
<1>4. PICK e \in Effects : ProgramCommit(active, next - 1, e) /\ (e # "full" => pc' = "erase")
  BY DEF FlushCommit, Effects
<1>5. CASE UNCHANGED flash /\ pc' = "erase"
  <2>1. OutsideLoops' /\ AnswerHolds'
    BY <1>1, <1>5 DEF OutsideLoops, CacheInv, AnswerHolds, context, window
  <2>2. CacheInv' /\ SameViews
    BY <1>1, <1>5, <2>1, SteadyStep
  <2>3. QED
    BY <1>1, <2>2, SimulatesSame
<1>6. CASE /\ slot'[active][next - 1] = [st |-> "closed", line |-> cursor, val |-> cache[cursor]]
           /\ \A i \in Slots : i # next - 1 => slot'[active][i] = slot[active][i]
  <2>1. \A l \in Lines : CommittedLine(l)' = IF l = cursor THEN cache[cursor] ELSE CommittedLine(l)
    <3>1. PICK b \in Bank, n \in Slots, k \in Lines, v \in {cache[cursor]} :
            b = active /\ n = next - 1 /\ k = cursor
      BY <1>1, <1>2
    <3>2. /\ slot[b][n].st = "open"
          /\ slot'[b][n] = [st |-> "closed", line |-> k, val |-> v]
          /\ \A i \in Slots : i # n => slot'[b][i] = slot[b][i]
      BY <1>3, <1>6, <3>1
    <3>3. \A l \in Lines : LineOf(b, n + 1, l)' = IF l = k THEN v ELSE LineOf(b, n + 1, l)
      BY <3>2, LineCommitted
    <3>4. active' = b /\ active = b /\ next' = n + 1 /\ next = n + 1
      BY <1>1, <1>2, <3>1 DEF context
    <3>5. \A l \in Lines : CommittedLine(l)' = LineOf(b, n + 1, l)'
      BY <3>4 DEF CommittedLine, LineOf, Hits
    <3>6. QED
      BY <3>1, <3>3, <3>4, <3>5 DEF CommittedLine
  <2>2. InCache(cursor) /\ LiveLine(cursor) = cache[cursor]
    BY <1>1 DEF CacheInv, WindowHolds, InCache, LiveLine
  <2>3. \A l \in Lines : LiveLine(l)' = LiveLine(l)
    <3>1. \A l \in Lines : InCache(l)' = InCache(l)
      BY <1>1 DEF InCache, window
    <3>2. QED
      BY <1>1, <2>1, <2>2, <3>1 DEF LiveLine, window
  <2>4. WindowHolds'
    <3>1. \A l \in Lines \ dirty : InCache(l)' => cache'[l] = CommittedLine(l)'
      BY <1>1, <2>1 DEF CacheInv, WindowHolds, ReadsWhatIsStored, InCache, window
    <3>2. QED
      BY <1>1, <3>1 DEF CacheInv, WindowHolds, ReadsWhatIsStored, window
  <2>5. FlushHolds'
    <3>1. \A l \in dirty : l \in Lines /\ (l < cursor + 1 => l < cursor \/ l = cursor)
      BY <1>1, GeometryAssumption DEF TypeOK, Lines
    <3>2. \A l \in dirty : l < cursor => cache[l] = CommittedLine(l)
      BY <1>1 DEF CacheInv, FlushHolds
    <3>3. QED
      BY <1>1, <2>1, <3>1, <3>2 DEF FlushHolds, window
  <2>6. CacheInv'
    BY <1>1, <2>4, <2>5 DEF CacheInv, CopyHolds, AnswerHolds
  <2>7. DurableView = [l \in Lines |-> CommittedLine(l)]
    BY <1>1, RunningViewHolds DEF RunningView
  <2>8. DurableView' = [l \in Lines |-> CommittedLine(l)']
    BY <1>1, ViewsNext DEF RunningView
  <2>9. LiveView = [l \in Lines |-> LiveLine(l)] /\ LiveView' = LiveView
    BY <1>1, <2>3 DEF LiveView
  <2>10. DurableView' = [DurableView EXCEPT ![cursor] = LiveView[cursor]]
    BY <1>1, <2>1, <2>2, <2>7, <2>8, <2>9
  <2>11. QED
    BY <1>1, <2>6, <2>9, <2>10, SimulatesCommitLine
<1>7. QED
  BY <1>1, <1>2, <1>3, <1>4, <1>5, <1>6, CommitEffect

-----------------------------------------------------------------------------
(* A power loss, between two port calls or in the middle of one.           *)

LEMMA PowerLossView ==
  ASSUME IInv, IInv', PowerLoss
  PROVE  DurableView' = DurableView
<1>1. /\ FlashType /\ TypeOK /\ TypeOK' /\ Target \in Bank
      /\ "partial" \in Effects /\ "partial" # "full"
  BY FlashTypeOf, TargetOf DEF IInv, Effects
<1>2. CASE UNCHANGED flash
  BY <1>2, FlashView
<1>3. CASE HalfDone /\ pc \in {"erase", "header", "copy", "copyCommit", "activate"} /\ ~UNCHANGED flash
  <2>1. Untouched(Other(Target)) /\ NotRaised(Target)
    <3>1. \/ EraseBank(Target, "partial")
          \/ ProgramHeader(Target, TargetSeq, "partial")
          \/ ProgramPayload(Target, copied, First(ToCopy), Blank, "partial")
          \/ ProgramCommit(Target, copied - 1, "partial")
          \/ ProgramState(Target, "partial")
      BY <1>3 DEF HalfDone
    <3>2. QED
      BY <1>1, <3>1, EraseFrame, HeaderFrame, PayloadFrame, CommitFrame, StateFrame
  <2>2. CASE up
    <3>1. PICK b \in Bank, n \in 1 .. NumSlots + 1 : b = active /\ n = next /\ Newest(b, n)
      BY <2>2, StoreOf
    <3>2. Untouched(b) /\ NotRaised(Other(b))
      BY <1>1, <2>1, <2>2, <3>1, TargetOf
    <3>3. Newest(b, n)'
      BY <3>1, <3>2, StoreKept
    <3>4. \A l \in Lines : LineOf(b, n, l)' = LineOf(b, n, l)
      BY <3>2 DEF Untouched, LineOf, Hits
    <3>5. /\ DurableView = [l \in Lines |-> LineOf(b, n, l)]
          /\ DurableView' = [l \in Lines |-> LineOf(b, n, l)']
      BY <1>1, <3>1, <3>3, StoreViewHolds, ViewsNext DEF StoreView
    <3>6. QED
      BY <3>4, <3>5
  <2>3. CASE ~up
    <3>1. NeverFormatted
      BY <1>3, <2>3 DEF IInv, Stopped
    <3>2. NeverFormatted'
      BY <1>1, <2>1, <3>1, NoneRaised
    <3>3. QED
      BY <3>1, <3>2, EmptyViewHolds, ViewsNext DEF EmptyView
  <2>4. QED
    BY <2>2, <2>3
<1>4. CASE HalfDone /\ pc \in {"flush", "flushCommit"} /\ ~UNCHANGED flash
  <2>1. PICK b \in Bank, n \in 1 .. NumSlots + 1 : b = active /\ n = next /\ Newest(b, n)
    BY <1>4, StoreOf DEF IInv, Stopped
  <2>2. CASE pc = "flush" /\ n <= NumSlots /\ ProgramPayload(b, n, First(ToFlush), Blank, "partial")
    <3>1. n \in Slots /\ n + 1 \in n .. NumSlots + 1 /\ n + 1 \in 1 .. NumSlots + 1
      BY <2>2, GeometryAssumption DEF Slots
    <3>2. UNCHANGED <<hdr, bseq>> /\ slot' = [slot EXCEPT ![b][n] = Marked("torn")]
      BY <2>2 DEF ProgramPayload
    <3>3. /\ slot'[b][n].st = "torn"
          /\ \A i \in Slots : i # n => slot'[b][i] = slot[b][i]
      BY <1>1, <3>1, <3>2 DEF FlashType, Marked
    <3>4. \A i \in 1 .. (n + 1) - 1 : slot'[b][i].st \in {"torn", "open", "closed"}
      BY <2>1, <3>1, <3>3, GeometryAssumption DEF Newest, Written, Slots
    <3>5. \A i \in n + 1 .. NumSlots : slot'[b][i].st = "free"
      BY <2>1, <3>1, <3>3, GeometryAssumption DEF Newest, Written, Slots
    <3>6. Newest(b, n + 1)'
      BY <2>1, <3>2, <3>4, <3>5 DEF Newest, Written
    <3>7. \A l \in Lines : LineOf(b, n + 1, l)' = LineOf(b, n, l)
      <4>1. /\ \A i \in 1 .. n - 1 : slot'[b][i] = slot[b][i]
            /\ \A i \in n .. (n + 1) - 1 : slot'[b][i].st # "closed"
        BY <3>1, <3>3, GeometryAssumption DEF Slots
      <4>2. QED
        BY <3>1, <4>1, LineKept
    <3>8. /\ DurableView = [l \in Lines |-> LineOf(b, n, l)]
          /\ DurableView' = [l \in Lines |-> LineOf(b, n + 1, l)']
      BY <1>1, <2>1, <3>1, <3>6, StoreViewHolds, ViewsNext DEF StoreView
    <3>9. QED
      BY <3>7, <3>8
  <2>3. CASE pc = "flushCommit" /\ ProgramCommit(active, next - 1, "partial")
    <3>1. UNCHANGED <<hdr, bseq>> /\ slot' = [slot EXCEPT ![active][next - 1] = slot[active][next - 1]]
      BY <2>3 DEF ProgramCommit
    <3>2. [slot EXCEPT ![active][next - 1] = slot[active][next - 1]] = slot
      BY <1>1 DEF FlashType
    <3>3. QED
      BY <1>4, <3>1, <3>2 DEF flash
  <2>4. QED
    BY <1>4, <2>1, <2>2, <2>3 DEF HalfDone
<1>5. QED
  BY <1>2, <1>3, <1>4 DEF PowerLoss, HalfDone

LEMMA PowerLossStep ==
  ASSUME IInv, IInv', CacheInv, PowerLoss
  PROVE  CacheInv' /\ Simulates
<1>1. ~up' /\ ~cacheValid' /\ dirty' = {} /\ pc' = "off" /\ reply' = "none" /\ req' = NoRequest
  BY DEF PowerLoss, ResetRam
<1>2. CacheInv'
  BY <1>1 DEF CacheInv, WindowHolds, ReadsWhatIsStored, FlushHolds, CopyHolds, AnswerHolds, NoRequest
<1>3. DurableView' = DurableView /\ LiveView' = DurableView'
  BY <1>1, PowerLossView DEF LiveView
<1>4. QED
  BY <1>1, <1>2, <1>3, SimulatesPowerLoss

-----------------------------------------------------------------------------
(* The theorems.                                                           *)

LEMMA StepSimulates ==
  ASSUME Tolerable, LoadsWork, IInv, CacheInv, [Next]_vars
  PROVE  CacheInv' /\ Simulates
<1>1. IInv'
  BY IInvNext
<1>2. CASE UNCHANGED vars
  <2>1. /\ UNCHANGED <<flash, context, window, reply>>
        /\ up' = up
    BY <1>2 DEF vars, context
  <2>2. SameCommitted
    BY <2>1, FlashCommitted DEF context
  <2>3. \A l \in Lines : LiveLine(l)' = LiveLine(l)
    BY <2>1, <2>2, SameLive DEF window
  <2>4. SameViews
    BY <1>1, <2>1, <2>2, <2>3, RunningSame, StoppedSame, FlashView
  <2>5. \A l \in Lines : LineOf(Target, copied, l)' = LineOf(Target, copied, l)
    BY <1>2 DEF vars, LineOf, Hits, Target, flash, context, loop
  <2>6. CacheInv'
    <3>1. WindowHolds'
      BY <2>1, <2>2, SameWindow DEF CacheInv
    <3>2. FlushHolds'
      <4>1. \A l \in dirty : CommittedLine(l)' = CommittedLine(l)
        BY <2>2 DEF SameCommitted, IInv, TypeOK
      <4>2. QED
        BY <1>2, <4>1 DEF CacheInv, FlushHolds, vars, flash, context, window, loop
    <3>3. CopyHolds'
      <4>1. Target' = Target
        BY <2>1 DEF Target, context
      <4>2. pc = "copyCommit" => LiveLine(cursor)' = LiveLine(cursor)
        BY <1>2, <2>3 DEF IInv, InLoop, vars, loop
      <4>3. UNCHANGED <<pc, up, slot, cursor, copied>>
        BY <1>2 DEF vars, flash, context, loop
      <4>4. QED
        BY <2>3, <2>5, <4>1, <4>2, <4>3 DEF CacheInv, CopyHolds
    <3>4. AnswerHolds'
      BY <1>2 DEF CacheInv, AnswerHolds, vars, context, window
    <3>5. QED
      BY <3>1, <3>2, <3>3, <3>4 DEF CacheInv
  <2>7. QED
    BY <2>1, <2>4, <2>6, SimulatesSame
<1>3. CASE Next
  BY <1>1, <1>3, BootStep, QuietSteps, ReadSteps, StageStep, DeinitStep, CapacityStep,
     FlushDoneStep, FlushPayloadStep, FlushCommitStep, PrepareSteps, CopyPayloadStep,
     CopyCommitStep, CopyDoneStep, ActivateStep, PowerLossStep DEF Next, Step
<1>4. QED
  BY <1>2, <1>3

\* The invariant of the cache, the flush and the checkpoint.
LEMMA CacheConsistent ==
  ASSUME Tolerable, LoadsWork
  PROVE  Spec => [](IInv /\ CacheInv)
<1>1. Init => IInv /\ CacheInv
  BY IInvInit, InitCache
<1>2. IInv /\ CacheInv /\ [Next]_vars => (IInv /\ CacheInv)'
  BY IInvNext, StepSimulates
<1>3. QED
  BY <1>1, <1>2, PTL DEF Spec

(***************************************************************************)
(* What the cache window shows of a clean line is what the flash holds,    *)
(* through every replacement of the window, flush and switch of banks.     *)
(* That loading a window does not fail is needed: see the run              *)
(* flash_ee_stale_window.                                                  *)
(***************************************************************************)
THEOREM CacheIsFaithful ==
  ASSUME Tolerable, LoadsWork
  PROVE  Spec => []ReadsWhatIsStored
<1>1. CacheInv => ReadsWhatIsStored
  BY DEF CacheInv, WindowHolds
<1>2. QED
  BY <1>1, CacheConsistent, PTL

(***************************************************************************)
(* A request that answered ok left nothing that a power loss would undo:   *)
(* what a boot would read is what a read returns.                          *)
(***************************************************************************)
THEOREM OkMeansDurable ==
  ASSUME Tolerable, LoadsWork
  PROVE  Spec => []OkIsDurable
<1>1. IInv /\ CacheInv => OkIsDurable
  <2>1. SUFFICES ASSUME IInv, CacheInv, reply = "ok" PROVE DurableView = LiveView
    BY DEF OkIsDurable
  <2>2. ~up \/ dirty = {}
    BY <2>1 DEF CacheInv, AnswerHolds
  <2>3. QED
    BY <2>1, <2>2, CleanViews
<1>2. QED
  BY <1>1, CacheConsistent, PTL

(***************************************************************************)
(* The backend implements the promise of LogicalStore: every step of init, *)
(* of a request, of flush_cache and of checkpoint, failed or cut, is a     *)
(* step of a persistent array of lines or changes nothing of it.           *)
(***************************************************************************)
THEOREM BackendKeepsPromise ==
  ASSUME Tolerable, LoadsWork
  PROVE  Spec => ImplementsLogicalStore
<1>1. Init => Promise!Init
  <2>1. SUFFICES ASSUME Init PROVE Promise!Init
    OBVIOUS
  <2>2. ~up /\ NeverFormatted /\ reply = "none"
    BY <2>1 DEF Init, NeverFormatted
  <2>3. DurableView = [l \in Lines |-> Blank] /\ LiveView = DurableView
    BY <2>2, EmptyViewHolds DEF EmptyView, LiveView
  <2>4. QED
    BY <2>2, <2>3 DEF Promise!Init
<1>2. IInv /\ CacheInv /\ [Next]_vars => [Promise!Next]_Promise!vars
  BY StepSimulates DEF Simulates
<1>3. QED
  BY <1>1, <1>2, CacheConsistent, PTL DEF Spec, ImplementsLogicalStore, Promise!Spec
=============================================================================
